---------------------------- MODULE Registration ----------------------------
(***************************************************************************)
(* How accounts come to be and stay alive: api/registerer/flow.py with the *)
(* address book of api/email_pool.py, and its three callers in             *)
(* api/account_pool: the loop that registers, the daily check-in and the   *)
(* healing of cooling accounts.  They share one registerer, and with it    *)
(* one HTTP client: its exit, and its jar of cookies.                      *)
(***************************************************************************)
EXTENDS Naturals, FiniteSets

CONSTANTS Emails, None,
          DomainOf,                \* the domain of an address
          Exits, direct,           \* proxies of the pool, config.PROXY
          MinFails,                \* failures of a domain that is not used again
          MaxRetry, MaxFails,      \* failed healings, failed check-ins before an account is dead
          MaxClients, MaxRestarts  \* bounds

VARIABLES used,      \* EmailPool._used
          registry,  \* email_registry: "ok", "error" or None
          domain,    \* domain_risk
          account,   \* rows of the pool
          proxy,     \* NanobananaRegisterer.proxy
          client,    \* its client, by number: exit, jar (whose session_token)
          call,      \* the registration ("join") and the check-in ("daily")
          site,      \* addresses signed up at the site
          refused,   \* bookkeeping: accounts that the site or the network has failed
          restarts

book == <<used, registry, domain>>
vars == <<book, account, proxy, client, call, site, refused, restarts>>

Domains == {DomainOf[a] : a \in Emails}
Idle == [at |-> "idle", acct |-> None, via |-> 0, answer |-> None,
         cookie |-> None, fails |-> 0, renew |-> FALSE]
NewDomain == [fails |-> 0, risky |-> FALSE, known |-> FALSE]
NewClient(exit, n) == [exit |-> exit, number |-> n, jar |-> None]

Init ==
    /\ used = {} /\ registry = [a \in Emails |-> None]
    /\ domain = [d \in Domains |-> NewDomain]
    /\ account = [a \in Emails |-> None]
    /\ proxy = None /\ client = NewClient(direct, 1)
    /\ call = [c \in {"join", "daily"} |-> Idle]
    /\ site = {} /\ refused = {} /\ restarts = 0

At(c, place) == call[c].at = place
Goes(c, place) == call' = [call EXCEPT ![c].at = place]
Ends(c) == call' = [call EXCEPT ![c] = Idle]

\* _ensure_client: another exit means another client, with an empty jar.
EnsureClient(want) ==
    IF client.exit = want THEN UNCHANGED client
    ELSE /\ client.number < MaxClients
         /\ client' = NewClient(want, client.number + 1)
Wanted(p) == IF p = None THEN direct ELSE p
ForceRotate == client' = NewClient(direct, client.number + 1)

\* EmailPool.record; the status is set by the first record of a domain only.
Record(a, status) ==
    LET d == DomainOf[a] IN
    /\ registry' = [registry EXCEPT ![a] = status]
    /\ domain' = [domain EXCEPT ![d] =
            [fails |-> IF status = "error" /\ @.fails < MinFails THEN @.fails + 1 ELSE @.fails,
             risky |-> IF @.known THEN @.risky ELSE status = "error",
             known |-> TRUE]]
    /\ UNCHANGED used

-----------------------------------------------------------------------------
(* A request of one of the callers: sent with the client of the moment,    *)
(* answered in a thread, read by the event loop afterwards.                *)

Send(c, place) ==
    call' = [call EXCEPT ![c].at = place, ![c].via = client.number, ![c].answer = None]

\* The site takes a sign-in of an account it has; the cookie goes into the jar
\* of the client that sent it.
SignedIn(c) ==
    /\ At(c, "signin") /\ call[c].answer = None /\ call[c].acct \in site
    /\ call' = [call EXCEPT ![c].answer = "in"]
    /\ client' = IF call[c].via = client.number THEN [client EXCEPT !.jar = call[c].acct] ELSE client
    /\ UNCHANGED <<book, account, proxy, site, refused, restarts>>

\* It does not (400, or 401, 403, 429 and the rest); the request raises.
Refuses(c) ==
    /\ call[c].answer = None
    /\ \/ At(c, "signin") /\ \E answer \in {"bad", "forbidden", "refused", "raised"} :
            call' = [call EXCEPT ![c].answer = answer]
       \/ At(c, "signup") /\ \E answer \in {"forbidden", "limited", "refused", "raised"} :
            call' = [call EXCEPT ![c].answer = answer]
    /\ refused' = refused \cup {call[c].acct}
    /\ UNCHANGED <<book, account, proxy, client, site, restarts>>

SignedUp ==
    /\ At("join", "signup") /\ call["join"].answer = None /\ call["join"].acct \notin site
    /\ site' = site \cup {call["join"].acct}
    /\ call' = [call EXCEPT !["join"].answer = "in"]
    /\ UNCHANGED <<book, account, proxy, client, refused, restarts>>

\* Who has the cookies after a sign-in: whoever the jar names by then, unless
\* the status was 400.
Session(c) == IF call[c].answer \in {"bad", "raised"} THEN None ELSE client.jar

-----------------------------------------------------------------------------
(* register_one                                                            *)

\* EmailPool.allocate, from whatever source
Fresh == {a \in Emails \ used :
            ~(domain[DomainOf[a]].risky /\ domain[DomainOf[a]].fails >= MinFails)}

\* A proxy is drawn, an address taken, the client made for the proxy.
Join ==
    /\ At("join", "idle")
    /\ \E p \in Exits \cup {None} :
        /\ proxy' = p
        /\ \E a \in Fresh :
            /\ used' = used \cup {a}
            /\ EnsureClient(Wanted(p))
            /\ call' = [call EXCEPT !["join"] = [Idle EXCEPT !.at = "captcha", !.acct = a]]
    /\ UNCHANGED <<registry, domain, account, site, refused, restarts>>

\* No address: the registration ends, its proxy stays.
NoAddress ==
    /\ At("join", "idle") /\ \E p \in Exits \cup {None} : proxy' = p
    /\ UNCHANGED <<book, account, client, call, site, refused, restarts>>

Captcha ==
    /\ At("join", "captcha")
    /\ Send("join", "signup") \/ Ends("join")
    /\ UNCHANGED <<book, account, proxy, client, site, refused, restarts>>

SignUpEnds ==
    LET j == call["join"] IN
    /\ At("join", "signup") /\ j.answer # None
    /\ IF j.answer = "in" THEN Goes("join", "mail") ELSE Ends("join")
    /\ IF j.answer = "refused" THEN Record(j.acct, "error") ELSE UNCHANGED book
    /\ IF j.answer = "forbidden"
       THEN client.number < MaxClients /\ ForceRotate ELSE UNCHANGED client
    /\ UNCHANGED <<account, proxy, site, refused, restarts>>

\* The link is opened, or no mail comes; then the captcha of the sign-in,
\* solved or not.
Mail ==
    /\ At("join", "mail") /\ Send("join", "signin")
    /\ UNCHANGED <<book, account, proxy, client, site, refused, restarts>>

JoinEnds ==
    LET j == call["join"]
        failed == Session("join") = None
    IN  /\ At("join", "signin") /\ j.answer # None
        /\ IF failed THEN Ends("join")
           ELSE call' = [call EXCEPT !["join"].at = "add", !["join"].cookie = Session("join")]
        /\ IF j.answer = "raised" THEN UNCHANGED book
           ELSE Record(j.acct, IF failed THEN "error" ELSE "ok")
        /\ IF failed /\ j.answer = "forbidden"
           THEN client.number < MaxClients /\ ForceRotate ELSE UNCHANGED client
        /\ UNCHANGED <<account, proxy, site, refused, restarts>>

\* AccountPool.add and mark
Add ==
    LET j == call["join"] IN
    /\ At("join", "add") /\ Ends("join")
    /\ account' = [account EXCEPT ![j.acct] =
            [status |-> "active", cookie |-> j.cookie, fails |-> 1, retry |-> 0]]
    /\ UNCHANGED <<book, proxy, client, site, refused, restarts>>

-----------------------------------------------------------------------------
(* _daily_checkin_loop: checkin, and re_login when it came to nothing      *)

Has(a, status) == account[a] # None /\ account[a].status = status
Marked(a, status, n) ==
    account' = [account EXCEPT ![a].status = status, ![a].fails = n]

CheckIn(a) ==
    /\ At("daily", "idle") /\ Has(a, "active")
    /\ EnsureClient(Wanted(proxy))
    /\ call' = [call EXCEPT !["daily"] =
            [Idle EXCEPT !.at = "captcha", !.acct = a,
                         !.cookie = account[a].cookie, !.fails = account[a].fails]]
    /\ UNCHANGED <<book, account, proxy, site, refused, restarts>>

\* The captcha of re_login, solved or not.
LogIn ==
    /\ At("daily", "captcha") /\ Send("daily", "signin")
    /\ UNCHANGED <<book, account, proxy, client, site, refused, restarts>>

\* The first sign-in is over: the claim goes out with the new session, or else
\* with the one of the row.
Claim ==
    LET new == Session("daily") IN
    /\ At("daily", "signin") /\ call["daily"].answer # None /\ ~call["daily"].renew
    /\ call' = [call EXCEPT !["daily"].at = "claim",
                            !["daily"].cookie = IF new # None THEN new ELSE @]
    /\ UNCHANGED <<book, account, proxy, client, site, refused, restarts>>

Claimed ==
    /\ At("daily", "claim") /\ Ends("daily")
    /\ Marked(call["daily"].acct, "active", 1)
    /\ UNCHANGED <<book, proxy, client, site, refused, restarts>>

\* None, or an exception: a second sign-in.
NotClaimed ==
    /\ At("daily", "claim")
    /\ EnsureClient(Wanted(proxy))
    /\ refused' = refused \cup {call["daily"].acct}
    /\ call' = [call EXCEPT !["daily"].at = "captcha", !["daily"].renew = TRUE]
    /\ UNCHANGED <<book, account, proxy, site, restarts>>

\* The second one is over: the row is replaced by one with the session, or the
\* failure is counted.
Renewed ==
    LET d == call["daily"]
        new == Session("daily")
    IN  /\ At("daily", "signin") /\ d.answer # None /\ d.renew
        /\ Ends("daily")
        /\ IF new # None
           THEN account' = [account EXCEPT ![d.acct] =
                    [@ EXCEPT !.status = "active", !.cookie = new, !.fails = d.fails]]
           ELSE Marked(d.acct, IF d.fails >= MaxFails THEN "dead" ELSE "active",
                               IF d.fails >= MaxFails THEN 1 ELSE d.fails + 1)
        /\ UNCHANGED <<book, proxy, client, site, refused, restarts>>

-----------------------------------------------------------------------------
(* Cooling and healing                                                     *)

\* A borrower has used up the credits of an account (release_account).
Cools(a) ==
    /\ Has(a, "active") /\ Marked(a, "cooling", account[a].fails)
    /\ UNCHANGED <<book, proxy, client, call, site, refused, restarts>>

\* wake_cooling_accounts asks for a check-in with the row it has read, of
\* provider, email and credits: without a password and a cookie the check-in
\* ends before it asks the site.
Heal(a) ==
    /\ Has(a, "cooling")
    /\ EnsureClient(Wanted(proxy))
    /\ LET row == account[a]
       IN  account' = [account EXCEPT ![a] =
               IF row.retry + 1 >= MaxRetry THEN [row EXCEPT !.status = "dead", !.retry = 0]
                                            ELSE [row EXCEPT !.retry = row.retry + 1]]
    /\ UNCHANGED <<book, proxy, call, site, refused, restarts>>

\* EmailPool._load_used
LoadUsed == {a \in Emails : registry[a] # None}

\* The tables and the site outlive the process.
Restart ==
    /\ restarts < MaxRestarts /\ restarts' = restarts + 1
    /\ used' = LoadUsed
    /\ proxy' = None /\ client' = NewClient(direct, 1)
    /\ call' = [c \in {"join", "daily"} |-> Idle]
    /\ account' = [a \in Emails |-> IF account[a] = None THEN None ELSE [account[a] EXCEPT !.retry = 0]]
    /\ UNCHANGED <<registry, domain, site, refused>>

Next ==
    \/ Join \/ NoAddress \/ Captcha \/ SignedUp \/ SignUpEnds \/ Mail \/ JoinEnds \/ Add
    \/ \E a \in Emails : CheckIn(a) \/ Cools(a) \/ Heal(a)
    \/ LogIn \/ Claim \/ Claimed \/ NotClaimed \/ Renewed
    \/ \E c \in {"join", "daily"} : SignedIn(c) \/ Refuses(c)
    \/ Restart

Spec == Init /\ [][Next]_vars

-----------------------------------------------------------------------------
(* Properties                                                              *)

TypeOK ==
    /\ used \subseteq Emails /\ site \subseteq Emails /\ refused \subseteq Emails
    /\ \A a \in Emails : registry[a] # None => domain[DomainOf[a]].known
    /\ \A a \in Emails : account[a] # None =>
        /\ account[a].status \in {"active", "cooling", "dead"} /\ account[a].cookie \in site
        /\ account[a].fails \in 1 .. MaxFails /\ account[a].retry \in 0 .. MaxRetry - 1
    /\ client.number \in 1 .. MaxClients /\ client.exit \in Exits \cup {direct}
    /\ \A c \in {"join", "daily"} : call[c].acct \in Emails <=> call[c].at # "idle"

\* flow.py:499, re_login "returns the new session" of the account: the session
\* in a row is one of that account.
OwnSession == \A a \in Emails : account[a] # None => account[a].cookie = a

\* borrow.py:226, healing tries a check-in and gives up an account when that
\* fails again and again: none is dead that was never refused.
SelfHeals == \A a \in Emails : Has(a, "dead") => a \in refused
=============================================================================
