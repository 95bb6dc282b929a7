---------------------------- MODULE AccountPool -----------------------------
(***************************************************************************)
(* The pool of provider accounts (api/account_pool): borrowers that lease  *)
(* an account, the loop that reclaims leases and heals cooling accounts,   *)
(* the daily check-in loop and the loop that registers new accounts.       *)
(*                                                                         *)
(* Every access to the table is made under one asyncio.Lock and commits    *)
(* alone, so it is one step that waits for the lock.  Only healing keeps   *)
(* the lock while it talks to the web site.  A time is kept as a flag that *)
(* says whether its limit has passed.                                      *)
(***************************************************************************)
EXTENDS Integers, FiniteSets

CONSTANTS
    Members,
    Borrowers,
    Target,        \* IF_NANOBANANA_ACCOUNT_TARGET
    MaxRetry,      \* IF_ACCOUNT_SELFHEAL_MAX_RETRY
    MaxFails       \* check-ins that fail before an account is dead

Nobody == "none"

ASSUME AccountsAssumption == Nobody \notin Borrowers /\ {MaxRetry, MaxFails} \subseteq Nat \ {0}

VARIABLES
    account,  \* the table
    retry,    \* _selfheal_retry
    healing,  \* accounts that wake_cooling_accounts, which holds the lock, still asks about
    loan,     \* where a borrower stands, and the account it holds
    due,      \* rows that the check-in loop has read and not yet asked about
    signin,   \* where that loop stands, and the row it is at
    joining,  \* where the registration loop stands: off without a registerer,
              \* idle, signing, or at its new account
    overruled \* bookkeeping: whether somebody else has declared an account free
              \* while it was in use, with its lease over (late) or not (early)

accountVars == <<account, retry, healing, loan, due, signin, joining, overruled>>

AccountStatus == {"absent", "active", "working", "cooling", "dead"}

(* rich: credits > 0; rested: the cooling period is over; late: the lease  *)
(* is over; fails: the N of a note fail:N.                                 *)
Account == [status : AccountStatus, rich : BOOLEAN, rested : BOOLEAN,
            late : BOOLEAN, fails : 1..MaxFails]

Copy == [acct : Members, rich : BOOLEAN, fails : 1..MaxFails]
SigninPlace == {"asleep", "next", "asking", "stamp", "credit", "mark", "relogin"}
LoanPlace == {"idle", "asked", "stale", "using"}

NoCopy == [acct |-> Nobody, rich |-> FALSE, fails |-> 1]

Unlocked == healing = {}
Holders(a) == {b \in Borrowers : loan[b].place = "using" /\ loan[b].acct = a}
HasStatus(s) == {a \in Members : account[a].status = s}

\* A status is written; the stamps that belong to it are new.
Becomes(r, s) == [r EXCEPT !.status = s, !.rested = FALSE, !.late = FALSE]

\* mark(): a status and a note
Marked(r, s, n) == [Becomes(r, s) EXCEPT !.fails = n]

\* b declares the accounts in S free; another may be using them, on a lease
\* that is over or in force.
Overrule(S, b) ==
    overruled' = [a \in Members |->
        IF a \in S /\ Holders(a) \ {b} # {} /\ overruled[a] = "no"
        THEN IF account[a].late THEN "late" ELSE "early"
        ELSE overruled[a]]

\* b does not use the account any more.
Forget(b) ==
    loan' = [loan EXCEPT ![b] = [place |-> "idle", acct |-> Nobody]]

-----------------------------------------------------------------------------
(* borrow_account, lease, release_account, mark_dead.                      *)

\* The time of the loan is taken before the lock is.
AskLoan(b) ==
    /\ loan[b].place = "idle"
    /\ loan' = [loan EXCEPT ![b].place = "asked"]
    /\ UNCHANGED <<account, retry, healing, due, signin, joining, overruled>>

\* The lock is held for longer than a lease.
StampAges(b) ==
    /\ loan[b].place = "asked" /\ ~Unlocked
    /\ loan' = [loan EXCEPT ![b].place = "stale"]
    /\ UNCHANGED <<account, retry, healing, due, signin, joining, overruled>>

\* The loans in S are over.
Reclaimed(S) == [a \in Members |-> IF a \in S THEN Becomes(account[a], "active") ELSE account[a]]

\* mutant: only accounts that still have credits
OverdueRich == {a \in HasStatus("working") : account[a].late /\ account[a].rich}

Overdue == {a \in HasStatus("working") : account[a].late}

\* mutant: the status is not asked for
ChoicesOfAny(t) == {a \in Members : t[a].status # "absent" /\ t[a].rich}

\* Accounts that borrow_account may choose from table t.
Choosable(t) ==
    LET ready == {a \in Members : t[a].status = "active"}
        rich == {a \in ready : t[a].rich}
    IN  IF rich # {} THEN rich ELSE ready

(* A time taken too early also sees fewer leases as over.                  *)
Borrow(b) ==
    /\ loan[b].place \in {"asked", "stale"} /\ Unlocked
    /\ \E S \in SUBSET Overdue :
          LET t == Reclaimed(S) IN
          /\ loan[b].place = "asked" => S = Overdue
          /\ IF Choosable(t) = {}
             THEN /\ account' = t
                  /\ loan' = [loan EXCEPT ![b].place = "idle"]
                  /\ Overrule(S, b)
             ELSE \E a \in Choosable(t) :
                  /\ account' = [t EXCEPT ![a] = [Becomes(@, "working") EXCEPT
                                                !.late = loan[b].place = "stale"]]
                  /\ loan' = [loan EXCEPT ![b] = [place |-> "using", acct |-> a]]
                  /\ Overrule(S, b)
    /\ UNCHANGED <<retry, healing, due, signin, joining>>

\* Nobody asks whether the account is still lent to b.
GiveBack(b, r) ==
    LET a == loan[b].acct IN
    /\ loan[b].place = "using" /\ Unlocked
    /\ account' = [account EXCEPT ![a] = r]
    /\ Forget(b)
    /\ IF Holders(a) = {b} THEN overruled' = [overruled EXCEPT ![a] = "no"]
       ELSE Overrule({a}, b)
    /\ UNCHANGED <<retry, healing, due, signin, joining>>

Release(b) ==
    /\ loan[b].place = "using"
    /\ LET r == account[loan[b].acct] IN
       GiveBack(b, Becomes(r, IF r.rich THEN "active" ELSE "cooling"))

MarkDead(b) ==
    /\ loan[b].place = "using"
    /\ GiveBack(b, Marked(account[loan[b].acct], "dead", 1))

\* A borrower that is cancelled gives nothing back.
Leave(b) ==
    /\ loan[b].place = "using"
    /\ Forget(b)
    /\ IF Holders(loan[b].acct) = {b}
       THEN overruled' = [overruled EXCEPT ![loan[b].acct] = "no"]
       ELSE UNCHANGED overruled
    /\ UNCHANGED <<account, retry, healing, due, signin, joining>>

\* consume_credits, for a borrower or a provider that has just read the list
Consume(a) ==
    /\ Unlocked /\ account[a].status # "absent" /\ account[a].rich
    /\ account' = [account EXCEPT ![a].rich = FALSE]
    /\ UNCHANGED <<retry, healing, loan, due, signin, joining, overruled>>

-----------------------------------------------------------------------------
(* _cooling_wake_loop: _reclaim_lease_timeout, wake_cooling_accounts.      *)

Reclaim ==
    /\ Unlocked /\ Overdue # {}
    /\ account' = Reclaimed(Overdue)
    /\ Overrule(Overdue, Nobody)
    /\ UNCHANGED <<retry, healing, loan, due, signin, joining>>

Rested == {a \in HasStatus("cooling") : account[a].rested}

Wake ==
    /\ Unlocked /\ Rested # {} /\ joining # "off"
    /\ healing' = Rested
    /\ UNCHANGED <<account, retry, loan, due, signin, joining, overruled>>

\* Without a registerer for the provider every rested account is active again.
WakeAll ==
    /\ Unlocked /\ Rested # {} /\ joining = "off"
    /\ account' = Reclaimed(Rested)
    /\ UNCHANGED <<retry, healing, loan, due, signin, joining, overruled>>

\* checkin() is called with the provider, the address and the credits of the row:
\* without a password and a cookie it gives nothing, so that no healing succeeds.
HealFails(a) ==
    /\ a \in healing
    /\ LET n == retry[a] + 1 IN
       IF n >= MaxRetry
       THEN /\ account' = [account EXCEPT ![a] = Marked(@, "dead", 1)]
            /\ retry' = [retry EXCEPT ![a] = 0]
       ELSE /\ account' = [account EXCEPT ![a] = Marked(@, "cooling", 1)]
            /\ retry' = [retry EXCEPT ![a] = n]
    /\ healing' = healing \ {a}
    /\ UNCHANGED <<loan, due, signin, joining, overruled>>

\* The loop is cancelled while it asks, or its write raises with the failure
\* counted: the other accounts stay as they are.  From MaxRetry on the count
\* makes no difference.
HealBreaks(a) ==
    /\ a \in healing
    /\ \/ UNCHANGED retry
       \/ retry' = [retry EXCEPT ![a] = IF @ < MaxRetry THEN @ + 1 ELSE @]
    /\ healing' = {}
    /\ UNCHANGED <<account, loan, due, signin, joining, overruled>>

-----------------------------------------------------------------------------
(* _daily_checkin_loop.                                                    *)

SigninAt(place) == signin' = [signin EXCEPT !.place = place]
SigninRests == signin' = [place |-> "next", copy |-> NoCopy]

BatchRows == HasStatus("active")

\* The rows among them that were last checked in more than 20 hours ago.
LoadBatch ==
    /\ signin.place = "asleep" /\ joining # "off" /\ Unlocked
    /\ \E S \in SUBSET BatchRows \ {{}} :
          due' = {[acct |-> a, rich |-> account[a].rich, fails |-> account[a].fails] : a \in S}
    /\ SigninAt("next")
    /\ UNCHANGED <<account, retry, healing, loan, joining, overruled>>

NextRow(c) ==
    /\ signin.place = "next" /\ c \in due
    /\ signin' = [place |-> "asking", copy |-> c]
    /\ due' = due \ {c}
    /\ UNCHANGED <<account, retry, healing, loan, joining, overruled>>

BatchDone ==
    /\ signin.place = "next" /\ due = {}
    /\ SigninAt("asleep")
    /\ UNCHANGED <<account, retry, healing, loan, due, joining, overruled>>

\* checkin() returns: a balance, or nothing.
CheckinReturns ==
    /\ signin.place = "asking"
    /\ \/ SigninAt("stamp")
       \/ SigninAt("relogin")
    /\ UNCHANGED <<account, retry, healing, loan, due, joining, overruled>>

\* set_checkin_profile
StampCheckin ==
    /\ signin.place = "stamp" /\ Unlocked
    /\ SigninAt("credit")
    /\ UNCHANGED <<account, retry, healing, loan, due, joining, overruled>>

\* update_credits, when there are any
CreditCheckin ==
    /\ signin.place = "credit" /\ Unlocked
    /\ \/ account' = [account EXCEPT ![signin.copy.acct].rich = TRUE]
       \/ UNCHANGED account
    /\ SigninAt("mark")
    /\ UNCHANGED <<retry, healing, loan, due, joining, overruled>>

\* The row is written whatever has become of the account since it was read.
SigninWrites(r) ==
    /\ Unlocked
    /\ account' = [account EXCEPT ![signin.copy.acct] = r]
    /\ Overrule({signin.copy.acct}, Nobody)
    /\ SigninRests
    /\ UNCHANGED <<retry, healing, loan, due, joining>>

MarkActive ==
    /\ signin.place = "mark"
    /\ SigninWrites(Marked(account[signin.copy.acct], "active", 1))

\* add() replaces the row by one with the credits and the note that were read.
Relogin ==
    /\ signin.place = "relogin"
    /\ SigninWrites([status |-> "active", rich |-> signin.copy.rich, rested |-> FALSE,
                     late |-> FALSE, fails |-> signin.copy.fails])

ReloginFails ==
    /\ signin.place = "relogin"
    /\ LET r == account[signin.copy.acct]
           n == signin.copy.fails
       IN  SigninWrites(IF n >= MaxFails
                        THEN Marked(r, "dead", 1)
                        ELSE Marked(r, "active", n + 1))

\* A row without a password, which no registration of today makes
NoPassword ==
    /\ signin.place = "relogin"
    /\ SigninWrites(Marked(account[signin.copy.acct], "dead", 1))

\* A database error ends the work on a row.
SigninRaises ==
    /\ signin.place \in {"stamp", "credit", "mark", "relogin"}
    /\ SigninRests
    /\ UNCHANGED <<account, retry, healing, loan, due, joining, overruled>>

-----------------------------------------------------------------------------
(* _autoregister_loop.                                                     *)

RegisterAccount ==
    /\ joining = "idle" /\ Unlocked
    /\ Cardinality(HasStatus("active")) < Target
    /\ joining' = "signing"
    /\ UNCHANGED <<account, retry, healing, loan, due, signin, overruled>>

RegisterFails ==
    /\ joining = "signing"
    /\ joining' = "idle"
    /\ UNCHANGED <<account, retry, healing, loan, due, signin, overruled>>

Add(a) ==
    /\ joining = "signing" /\ Unlocked /\ account[a].status = "absent"
    /\ \E rich \in BOOLEAN :
          account' = [account EXCEPT ![a] = [status |-> "active", rich |-> rich, rested |-> FALSE,
                                     late |-> FALSE, fails |-> 1]]
    /\ joining' = a
    /\ UNCHANGED <<retry, healing, loan, due, signin, overruled>>

\* mark(email, "ok") after add(): the account may have been borrowed by then.
MarkOk ==
    /\ joining \in Members /\ Unlocked
    /\ account' = [account EXCEPT ![joining] = Marked(@, "active", 1)]
    /\ Overrule({joining}, Nobody)
    /\ joining' = "idle"
    /\ UNCHANGED <<retry, healing, loan, due, signin>>

-----------------------------------------------------------------------------
(* Time.                                                                   *)

Rests(a) ==
    /\ account[a].status = "cooling" /\ ~account[a].rested
    /\ account' = [account EXCEPT ![a].rested = TRUE]
    /\ UNCHANGED <<retry, healing, loan, due, signin, joining, overruled>>

LoanExpires(a) ==
    /\ account[a].status = "working" /\ ~account[a].late
    /\ account' = [account EXCEPT ![a].late = TRUE]
    /\ UNCHANGED <<retry, healing, loan, due, signin, joining, overruled>>

-----------------------------------------------------------------------------
AccountsInit ==
    /\ account \in [Members -> {r \in Account :
                  /\ r.status \in {"absent", "active"}
                  /\ ~r.rested /\ ~r.late /\ r.fails = 1
                  /\ r.status = "absent" => ~r.rich}]
    /\ retry = [a \in Members |-> 0]
    /\ healing = {} /\ due = {}
    /\ overruled = [a \in Members |-> "no"]
    /\ loan = [b \in Borrowers |-> [place |-> "idle", acct |-> Nobody]]
    /\ signin = [place |-> "asleep", copy |-> NoCopy]
    /\ joining \in {"off", "idle"}

Borrowing(b) ==
    AskLoan(b) \/ StampAges(b) \/ Borrow(b) \/ Release(b) \/ MarkDead(b) \/ Leave(b)

Healing == Reclaim \/ Wake \/ WakeAll \/ \E a \in Members : HealFails(a) \/ HealBreaks(a)

Signin ==
    \/ LoadBatch \/ (\E c \in due : NextRow(c)) \/ BatchDone \/ CheckinReturns
    \/ StampCheckin \/ CreditCheckin \/ MarkActive \/ Relogin \/ ReloginFails \/ NoPassword
    \/ SigninRaises

Registering == RegisterAccount \/ RegisterFails \/ (\E a \in Members : Add(a)) \/ MarkOk

Time == \E a \in Members : Rests(a) \/ LoanExpires(a)

AccountsNext ==
    \/ \E b \in Borrowers : Borrowing(b)
    \/ \E a \in Members : Consume(a)
    \/ Healing \/ Signin \/ Registering \/ Time

AccountsSpec == AccountsInit /\ [][AccountsNext]_accountVars

(* The wake loop runs every five minutes and its calls to the web site     *)
(* have timeouts; the lock is given to those that wait in their order, so  *)
(* that the loop gets it although healing takes it again and again.        *)
AccountsFairSpec ==
    /\ AccountsSpec
    /\ SF_accountVars(Reclaim)
    /\ WF_accountVars(Wake \/ WakeAll)
    /\ WF_accountVars(\E a \in Members : HealFails(a) \/ HealBreaks(a))
    /\ \A a \in Members : WF_accountVars(Rests(a))

-----------------------------------------------------------------------------
(* Properties.                                                             *)

AccountTypes ==
    /\ account \in [Members -> Account]
    /\ retry \in [Members -> 0..MaxRetry]
    /\ healing \subseteq Members
    /\ overruled \in [Members -> {"no", "late", "early"}]
    /\ loan \in [Borrowers -> [place : LoanPlace, acct : Members \cup {Nobody}]]
    /\ due \subseteq Copy
    /\ signin \in [place : SigninPlace, copy : Copy \cup {NoCopy}]
    /\ joining \in {"off", "idle", "signing"} \cup Members

(* An account has two users only after somebody else has declared it free  *)
(* while it was in use: the reclaiming of a late lease, a late release, or *)
(* the check-in loop or the registration with a row read before.           *)
SharedOnlyAfterOverrule ==
    \A a \in Members : Cardinality(Holders(a)) > 1 => overruled[a] # "no"
=============================================================================
