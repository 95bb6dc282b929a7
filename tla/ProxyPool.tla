----------------------------- MODULE ProxyPool -----------------------------
(***************************************************************************)
(* The exit addresses of api/proxy_pool.py and the coroutines that use     *)
(* them: the engine's retry over proxies after a 429                       *)
(* (api/worker/generator.py), a chat stream (providers/tryingopen), the    *)
(* one-shot providers (aifreeforever, falai) and the fetcher of free       *)
(* proxies, which FreeProxies has in detail.  Clock values become what the *)
(* code asks of them: how many steps of the cooldown map are left, whether *)
(* the day of the counts is today, whether a free proxy is older than      *)
(* three hours and unused for half an hour.  The health score only breaks  *)
(* ties: the choice among the usable proxies is left open.                 *)
(***************************************************************************)
EXTENDS Naturals, FiniteSets, FiniteSetsExt

CONSTANTS Proxies,                   \* URLs
          Free,                      \* those from the free lists; the others are residential
          Calls,                     \* coroutines that call a provider
          KindsOf,                   \* what a coroutine may call: "engine", "chat" or "single"
          Cooldown,                  \* USE_COOLDOWN_MAP as a sequence of lengths
          MaxUse,                    \* IF_PROXY_MAX_USE_PER_DAY
          Tries,                     \* IF_TRYINGOPEN_MAX_ATTEMPTS
          None,
          MaxDays, MaxAges, MaxUses  \* bounds: midnights, steps of ageing; uses are counted up to MaxUses

VARIABLES pool,   \* the URLs of `entries`
          entry,  \* per URL its ProxyEntry
          used,   \* per URL the uses since midnight of the entry in the pool
          call,   \* per coroutine where it stands, its proxy and its round
          days, ages

vars == <<pool, entry, used, call, days, ages>>

Short == 1                       \* mark_failure without a 429: 30 s
Rounds == 3                      \* proxies the engine tries
Fresh == [use |-> 0, today |-> TRUE, cool |-> 0, old |-> FALSE, idle |-> TRUE]
Resting == [at |-> "idle", kind |-> None, proxy |-> None, round |-> 0]

CooldownFor(n) == Cooldown[IF n \in DOMAIN Cooldown THEN n ELSE Max(DOMAIN Cooldown)]

Init ==
    /\ pool \in SUBSET (Proxies \ Free)
    /\ entry = [u \in Proxies |-> Fresh]
    /\ used = [u \in Proxies |-> 0]
    /\ call = [c \in Calls |-> Resting]
    /\ days = 0 /\ ages = 0

-----------------------------------------------------------------------------
(* The pool                                                                *)

\* available(): a cooling entry is refused before its day is looked at, so
\* its counts are not renewed.
Renewed(e) == IF e.cool = 0 /\ ~e.today THEN [e EXCEPT !.today = TRUE, !.use = 0] ELSE e
Available(e) == e.cool = 0 /\ Renewed(e).use < MaxUse

\* The entries after `available` was asked of each.
Asked == [u \in Proxies |-> IF u \in pool THEN Renewed(entry[u]) ELSE entry[u]]

Candidates(prefer) ==
    LET free == {u \in pool : Available(entry[u])}
        liked == free \cap prefer
    IN  IF liked # {} THEN liked ELSE free

\* acquire(): an unused candidate, else any, else the one that cools least.
Choice(prefer) ==
    LET some == Candidates(prefer)
        unused == {u \in some : Asked[u].use = 0}
    IN  IF unused # {} THEN unused
        ELSE IF some # {} THEN some
        ELSE {u \in pool : \A v \in pool : entry[u].cool <= entry[v].cool}

OneMore(n) == Min({n + 1, MaxUses})

Acquire(u, prefer) ==
    /\ u \in Choice(prefer)
    /\ LET n == OneMore(Asked[u].use)
       IN  entry' = [Asked EXCEPT ![u].use = n, ![u].cool = CooldownFor(n), ![u].idle = FALSE]
    /\ used' = [used EXCEPT ![u] = OneMore(@)]

\* mark_failure(); an entry that has left the pool is not found.
MarkFailure(u, limited) ==
    entry' = IF u \notin pool THEN entry
             ELSE [entry EXCEPT ![u].cool =
                      IF limited THEN CooldownFor(entry[u].use + 1) ELSE Short]

\* _fetch_once: inject what passed the check, then drop the stale ones.
Fetch ==
    \E new \in SUBSET Free :
        LET added == new \ pool
            kept == {u \in pool \cup added :
                        ~(u \in Free /\ u \notin added /\ entry[u].old /\ entry[u].idle)}
        IN  /\ pool' = kept
            /\ entry' = [u \in Proxies |-> IF u \in kept \ added THEN entry[u] ELSE Fresh]
            /\ used' = [u \in Proxies |-> IF u \in kept \ added THEN used[u] ELSE 0]
            /\ UNCHANGED <<call, days, ages>>

-----------------------------------------------------------------------------
(* The callers                                                             *)

Stands(c, at, u, n) == call' = [call EXCEPT ![c].at = at, ![c].proxy = u, ![c].round = n]
Ends(c) == call' = [call EXCEPT ![c] = Resting]
Same == UNCHANGED <<pool, days, ages>>

Prefer(c) ==
    CASE call[c].kind = "engine" -> Proxies \ Free
      [] call[c].kind = "chat" -> Free
      [] OTHER -> {}

\* A call begins; the engine is here after its direct try met a 429.
Begin(c) ==
    /\ call[c].at = "idle"
    /\ \E k \in KindsOf[c] :
          call' = [call EXCEPT ![c] = [at |-> "next", kind |-> k, proxy |-> None, round |-> 1]]
    /\ Same /\ UNCHANGED <<entry, used>>

\* The next round takes a proxy.  Without one the engine gives up, the others
\* go out directly, and so does the last round of a chat.
Take(c) ==
    LET n == call[c].round
        direct == call[c].kind = "chat" /\ n > Tries
    IN  /\ call[c].at = "next"
        /\ \/ /\ ~direct /\ pool # {}
              /\ \E u \in pool : Acquire(u, Prefer(c))
                              /\ Stands(c, IF call[c].kind = "engine" THEN "solve" ELSE "send", u, n)
           \/ /\ direct \/ pool = {}
              /\ IF call[c].kind = "engine" THEN Ends(c) ELSE Stands(c, "send", None, n)
              /\ UNCHANGED <<entry, used>>
        /\ Same

\* Whether a round that failed is followed by another.
Again(c, limited) ==
    CASE call[c].kind = "engine" -> call[c].round < Rounds /\ (call[c].at = "solve" \/ limited)
      [] call[c].kind = "chat" -> call[c].round <= Tries
      [] OTHER -> FALSE

NextRound(c) == call[c].round + 1

\* The engine solves a captcha through the proxy it will submit with.
Solved(c) ==
    /\ call[c].at = "solve"
    /\ Stands(c, "send", call[c].proxy, call[c].round)
    /\ Same /\ UNCHANGED <<entry, used>>

Fails(c, limited) ==
    /\ call[c].at \in {"solve", "send"}
    /\ call[c].at = "solve" => ~limited
    /\ IF call[c].proxy = None THEN UNCHANGED entry ELSE MarkFailure(call[c].proxy, limited)
    /\ IF Again(c, limited) THEN Stands(c, "next", None, NextRound(c)) ELSE Ends(c)
    /\ Same /\ UNCHANGED used

\* mark_success touches only the score; an error of another kind, a captcha
\* that failed, a session that is not there or a cancellation reports nothing.
Leaves(c) ==
    /\ call[c].at \in {"solve", "send"}
    /\ Ends(c)
    /\ Same /\ UNCHANGED <<entry, used>>

-----------------------------------------------------------------------------
(* Time                                                                    *)

Tick ==
    /\ \E u \in pool : entry[u].cool > 0
    /\ entry' = [u \in Proxies |-> [entry[u] EXCEPT !.cool = IF @ = 0 THEN 0 ELSE @ - 1]]
    /\ UNCHANGED <<pool, used, call, days, ages>>

Midnight ==
    /\ days < MaxDays
    /\ days' = days + 1
    /\ entry' = [u \in Proxies |-> [entry[u] EXCEPT !.today = u \notin pool]]
    /\ used' = [u \in Proxies |-> 0]
    /\ UNCHANGED <<pool, call, ages>>

\* Three hours pass for a free proxy; half an hour only when no call that has
\* it is under way: the calls have timeouts of minutes.
Ages(u) ==
    /\ ages < MaxAges
    /\ ages' = ages + 1
    /\ u \in pool \cap Free
    /\ \/ entry' = [entry EXCEPT ![u].old = TRUE]
       \/ /\ \A c \in Calls : call[c].proxy # u
          /\ entry' = [entry EXCEPT ![u].old = TRUE, ![u].idle = TRUE]
    /\ UNCHANGED <<pool, used, call, days>>

CallNext(c) ==
    Begin(c) \/ Take(c) \/ Solved(c) \/ Fails(c, TRUE) \/ Fails(c, FALSE) \/ Leaves(c)

Next ==
    \/ \E c \in Calls : CallNext(c)
    \/ Fetch \/ Tick \/ Midnight
    \/ \E u \in Proxies : Ages(u)

Spec == Init /\ [][Next]_vars

-----------------------------------------------------------------------------
(* Properties                                                              *)

\* Every variable stays in its type, and a call holds a proxy exactly between
\* taking it and reporting it (or goes out directly).
TypeOK ==
    /\ pool \subseteq Proxies
    /\ \A u \in Proxies :
        /\ entry[u].use \in 0 .. MaxUses
        /\ entry[u].cool \in 0 .. Max({Short} \cup {Cooldown[n] : n \in DOMAIN Cooldown})
        /\ used[u] \in 0 .. MaxUses
    /\ \A c \in Calls :
        /\ call[c].at \in {"idle", "next", "solve", "send"}
        /\ call[c].at \in {"idle", "next"} => call[c].proxy = None
        /\ call[c].round \in 0 .. Max({Rounds, Tries + 1})
    /\ days \in 0 .. MaxDays /\ ages \in 0 .. MaxAges
=============================================================================
