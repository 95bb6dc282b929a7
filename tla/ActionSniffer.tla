--------------------------- MODULE ActionSniffer ----------------------------
(***************************************************************************)
(* The ids of the site's server actions (api/providers/action_sniffer.py)  *)
(* and the generations that post to them (api/providers/nanobanana.py).    *)
(* Every deployment of the site renames its actions: an id is the number   *)
(* of the deployment it belongs to, 0 is none.  The two kinds of action    *)
(* are found on one page and cached alike; one of them stands for both.    *)
(* That the pattern may catch a wrong id is left out.                      *)
(***************************************************************************)
EXTENDS Naturals, FiniteSets

CONSTANTS Posters,     \* generations
          Keepalive,   \* the task of start_keepalive
          Static,      \* STATIC_ACTION_IDS: the deployment they were taken from
          MaxDeploys,  \* bound: deployments of the site
          MaxOutages,  \* bound: restarts of the service
          NoSniffer

Actors == Posters \cup {Keepalive}

ASSUME ActionAssumption ==
    /\ Static \in Nat \ {0} /\ {MaxDeploys, MaxOutages} \subseteq Nat
    /\ Keepalive \notin Posters /\ NoSniffer \notin Actors

VARIABLES site,     \* the deployment that answers
          ids,      \* ActionSniffer._cache
          saved,    \* the file of the cache
          sniffer,  \* who sniffs
          seen,     \* what the page a sniff has read names
          recent,   \* somebody else has sniffed since the last round of the keepalive
          poster,   \* a generation: where it is, and the id it posts
          awake,    \* the keepalive: asleep, waiting for the lock, or sniffing
          outages,
          moved,    \* history: generations during whose second attempt the site was deployed
          blind     \* history: generations whose last sniff found no id

idVars == <<ids, saved, recent>>
actionHistory == <<moved, blind>>
actionVars == <<site, idVars, sniffer, seen, poster, awake, outages, actionHistory>>

Idle == [at |-> "idle", id |-> 0, again |-> FALSE]

ActionInit ==
    /\ site = Static
    /\ ids = 0 /\ saved = 0 /\ recent = FALSE
    /\ sniffer = NoSniffer /\ seen = [a \in Actors |-> 0]
    /\ poster = [g \in Posters |-> Idle]
    /\ awake = "asleep"
    /\ outages = 0 /\ moved = {} /\ blind = {}

Goes(g, label) == poster' = [poster EXCEPT ![g].at = label]
Ends(g, label) == poster' = [poster EXCEPT ![g] = [Idle EXCEPT !.at = label]]
Posting(g, id) == poster' = [poster EXCEPT ![g].at = "posting", ![g].id = id]

\* generate, get_action_id without force_refresh: the cached id, or the lock.
Ask(g) ==
    /\ poster[g].at \in {"idle", "ok", "stale"}
    /\ poster' = [poster EXCEPT ![g] = IF ids # 0 THEN [at |-> "posting", id |-> ids, again |-> FALSE]
                                              ELSE [at |-> "waiting", id |-> 0, again |-> FALSE]]
    /\ moved' = moved \ {g} /\ blind' = blind \ {g}
    /\ UNCHANGED <<site, idVars, sniffer, seen, awake, outages>>

\* mutant: with the lock the cached id is good, also after it was refused
KnownAnyway(g) == ids # 0
\* What another one has sniffed meanwhile will do, unless a refresh is forced.
Known(g) == ids # 0 /\ ~poster[g].again

\* mutant: nobody waits for a sniff that is under way
Anytime == TRUE
Unlocked == sniffer = NoSniffer

Enter(g) ==
    /\ poster[g].at = "waiting" /\ Unlocked
    /\ IF Known(g)
       THEN Posting(g, ids) /\ UNCHANGED sniffer
       ELSE Goes(g, "sniffing") /\ sniffer' = g
    /\ UNCHANGED <<site, idVars, seen, awake, outages, actionHistory>>

Sniffing(a) == IF a = Keepalive THEN awake = "sniffing" ELSE poster[a].at = "sniffing"

(* _fetch_page, _scan_chunks: the ids of the deployment whose page is      *)
(* read; none, if neither page nor chunks can be had or name one.          *)
ReadPage(a) ==
    /\ Sniffing(a) /\ seen[a] = 0
    /\ seen' = [seen EXCEPT ![a] = site]
    /\ moved' = moved \ {a}
    /\ UNCHANGED <<site, idVars, sniffer, poster, awake, outages, blind>>

\* _do_sniff: an id that is new is cached and written to the file, if it can be.
Sniffed(a) ==
    /\ Sniffing(a)
    /\ ids' = IF seen[a] = 0 THEN ids ELSE seen[a]
    /\ saved' \in IF ids' = ids THEN {saved} ELSE {ids', saved}
    /\ sniffer' = NoSniffer /\ seen' = [seen EXCEPT ![a] = 0]

\* A sniff that raises is not noted as one.
FinishFor(g) ==
    /\ Sniffed(g)
    /\ recent' \in IF seen[g] = 0 THEN {recent, TRUE} ELSE {TRUE}
    /\ LET id == IF ids' = 0 THEN Static ELSE ids'
       IN IF poster[g].again /\ id = poster[g].id THEN Ends(g, "stale") ELSE Posting(g, id)
    /\ blind' = IF seen[g] = 0 THEN blind \cup {g} ELSE blind \ {g}
    /\ UNCHANGED <<site, awake, outages, moved>>

\* _post_with_self_heal: the site takes the id, or the ids are sniffed again, once.
Post(g) ==
    /\ poster[g].at = "posting"
    /\ \/ /\ poster[g].id = site /\ Ends(g, "ok") /\ UNCHANGED moved
       \/ /\ poster[g].id # site /\ poster[g].again
          /\ Ends(g, "stale") /\ UNCHANGED moved
       \/ /\ poster[g].id # site /\ ~poster[g].again
          /\ poster' = [poster EXCEPT ![g].at = "waiting", ![g].again = TRUE]
          /\ moved' = moved \ {g}
    /\ UNCHANGED <<site, idVars, sniffer, seen, awake, outages, blind>>

\* mutant: a round without a sniff leaves it to the next round too
NoRound == recent' = recent
\* _keepalive_loop: not if somebody has sniffed within the interval.
SkipRound == recent' = FALSE
RoundBegins ==
    /\ awake = "asleep"
    /\ SkipRound
    /\ awake' = IF recent THEN "asleep" ELSE "waiting"
    /\ UNCHANGED <<site, ids, saved, sniffer, seen, poster, outages, actionHistory>>
KeepaliveEnters ==
    /\ awake = "waiting" /\ Unlocked
    /\ awake' = "sniffing" /\ sniffer' = Keepalive
    /\ UNCHANGED <<site, idVars, seen, poster, outages, actionHistory>>
FinishRound ==
    /\ Sniffed(Keepalive)
    /\ awake' = "asleep" /\ recent' = FALSE
    /\ UNCHANGED <<site, poster, outages, actionHistory>>

\* The site is deployed anew.
Deploy ==
    /\ site < Static + MaxDeploys
    /\ site' = site + 1
    /\ moved' = moved \cup {g \in Posters : poster[g].again}
    /\ UNCHANGED <<idVars, sniffer, seen, poster, awake, outages, blind>>

\* The service is restarted, and starts from the file.
Restart ==
    /\ outages < MaxOutages /\ outages' = outages + 1
    /\ ids' = saved /\ recent' = FALSE
    /\ sniffer' = NoSniffer /\ seen' = [a \in Actors |-> 0]
    /\ poster' = [g \in Posters |-> Idle] /\ awake' = "asleep"
    /\ moved' = {} /\ blind' = {}
    /\ UNCHANGED <<site, saved>>

ActionNext ==
    \/ \E g \in Posters : Ask(g) \/ Enter(g) \/ FinishFor(g) \/ Post(g)
    \/ \E a \in Actors : ReadPage(a)
    \/ RoundBegins \/ KeepaliveEnters \/ FinishRound
    \/ Deploy \/ Restart

ActionSpec == ActionInit /\ [][ActionNext]_actionVars

(* The loop runs as long as the service, the lock goes to its waiters in   *)
(* turn, and a sniff ends.  That one or the other finds the page is what   *)
(* CatchesUp supposes of the site.                                         *)
ActionFairSpec ==
    /\ ActionSpec
    /\ WF_actionVars(RoundBegins) /\ SF_actionVars(KeepaliveEnters)
    /\ WF_actionVars(FinishRound) /\ \A g \in Posters : WF_actionVars(FinishFor(g))
    /\ SF_actionVars(\E a \in Actors : ReadPage(a))

-----------------------------------------------------------------------------
\* Types of the sniffer and the generations (api/providers/action_sniffer.py:141).
Ids == 0..(Static + MaxDeploys)
ActionTypes ==
    /\ {site, ids, saved} \subseteq Ids /\ seen \in [Actors -> Ids]
    /\ sniffer \in Actors \cup {NoSniffer} /\ recent \in BOOLEAN
    /\ poster \in [Posters -> [at : {"idle", "waiting", "sniffing", "posting", "ok", "stale"},
                         id : Ids, again : BOOLEAN]]
    /\ awake \in {"asleep", "waiting", "sniffing"} /\ outages \in 0..MaxOutages
    /\ moved \subseteq Posters /\ blind \subseteq Posters

\* A generation is refused for its id only if the sniff it forced found none, or the
\* site was deployed once more after it read the page (api/providers/nanobanana.py:350).
StaleExplained == \A g \in Posters : poster[g].at = "stale" => g \in moved \cup blind

\* While the service runs, an id gives way only to that of a later deployment: no
\* slow sniff puts back what another one has replaced (api/providers/action_sniffer.py:234).
NeverBack == [][ids' < ids => outages' # outages]_actionVars

\* After the last deployment the cache catches up, although sniffs fail and other
\* sniffs make the keepalive skip its rounds (api/providers/action_sniffer.py:288).
CatchesUp == <>[](ids = site)
=============================================================================
