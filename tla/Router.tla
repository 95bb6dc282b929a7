------------------------------- MODULE Router -------------------------------
(***************************************************************************)
(* Which provider serves a request: the health of the providers in         *)
(* api/providers/registry.py and the loads and circuits of                 *)
(* api/adaptive_router.py, as the dispatchers use them.  Scores, and the   *)
(* success ratio that opens a circuit, are left open: any choice the       *)
(* numbers could make is a choice of the model.  Nothing marks a provider  *)
(* "down" (mark_down has no caller, every health_check says "healthy").    *)
(* A provider is degraded by the ProviderRateLimited that reaches the      *)
(* handler in generate of nanobanana.  In this commit none reaches it:     *)
(* aifreeforever and falai catch theirs.  RateLimited is what the handler  *)
(* does when one comes.                                                    *)
(***************************************************************************)
EXTENDS Naturals, FiniteSets, SequencesExt, FiniteSetsExt

CONSTANTS Order,      \* Registry.providers, in the order of their registration
          Visitors,   \* requests
          Engine,     \* imagefree
          Reporting,  \* providers that report their rate limits
          DegradeAfter,  \* IF_PROVIDER_DEGRADE_THRESHOLD
          MaxLoad,    \* bound
          None

VARIABLES health,   \* Registry.provider_health
          fails,    \* Registry._consecutive_failures
          ripe,     \* degraded for IF_PROVIDER_RECOVER_INTERVAL at the next look
          circuit,  \* circuit_state
          cooled,   \* circuit_open_until has passed
          load,     \* in_flight_requests
          request   \* of a caller: where it is, and the provider it was given

Providers == ToSet(Order)

\* imagefree, aifreeforever and nanobanana are always registered.
ASSUME RouterAssumption ==
    /\ IsFiniteSet(Visitors) /\ None \notin Providers
    /\ Order \in Seq(Providers) /\ \A p \in Providers : Providers # {p}
    /\ {DegradeAfter, MaxLoad} \subseteq Nat

registryVars == <<health, fails, ripe>>
router == <<circuit, cooled, load>>
routerVars == <<registryVars, router, request>>

Idle == [at |-> "idle", by |-> None]

RouterInit ==
    /\ health = [p \in Providers |-> "healthy"]
    /\ fails = [p \in Providers |-> 0]
    /\ ripe = [p \in Providers |-> FALSE]
    /\ circuit = [p \in Providers |-> "CLOSED"]
    /\ cooled = [p \in Providers |-> FALSE]
    /\ load = [p \in Providers |-> 0]
    /\ request = [r \in Visitors |-> Idle]

Give(r, p, n) ==
    /\ load[p] + n <= MaxLoad
    /\ load' = [load EXCEPT ![p] = @ + n]
    /\ request' = [request EXCEPT ![r] = [at |-> "routed", by |-> p]]
    /\ UNCHANGED registryVars

\* provider_for, healthy: the provider the model names.
Direct(r, p) ==
    /\ request[r] = Idle /\ health[p] = "healthy"
    /\ Give(r, p, 1) /\ UNCHANGED <<circuit, cooled>>

\* select_best: of the candidates, and the circuits that may close again.  If all
\* are open it is the one that has most in common with the model asked for, which
\* may be any of them.
Retried(S) == {q \in S : circuit[q] = "OPEN" /\ cooled[q]}
Candidates(S) ==
    LET valid == {q \in S : circuit[q] # "OPEN"} \cup Retried(S)
    IN IF valid = {} THEN S ELSE valid

\* provider_for, degraded: one of the others, whose load select_best has counted
\* when provider_for counts it.  Only nanobanana is ever degraded; all of its
\* models make images of text, and so do several of imagefree and aifreeforever:
\* there is always more than one to choose from.
Fallback(r, p) ==
    LET others == Providers \ {p}
    IN /\ request[r] = Idle /\ health[p] = "degraded"
       /\ \E q \in Candidates(others) : Give(r, q, 2)
       /\ circuit' = [q \in Providers |-> IF q \in Retried(others) THEN "HALF_OPEN" ELSE circuit[q]]
       /\ UNCHANGED cooled

\* record_result
RecordSuccess(p) ==
    /\ load' = [load EXCEPT ![p] = IF @ = 0 THEN 0 ELSE @ - 1]
    /\ circuit' = [circuit EXCEPT ![p] = IF @ = "HALF_OPEN" THEN "CLOSED" ELSE @]
    /\ UNCHANGED cooled
\* mutant: a failure of the generation is reported where it happens, and again by the handler of all errors
RecordFailureTwice(p) ==
    /\ load' = [load EXCEPT ![p] = IF @ < 2 THEN 0 ELSE @ - 2]
    /\ UNCHANGED <<circuit, cooled>>
RecordFailure(p) ==
    /\ load' = [load EXCEPT ![p] = IF @ = 0 THEN 0 ELSE @ - 1]
    /\ \/ UNCHANGED <<circuit, cooled>>
       \/ /\ circuit' = [circuit EXCEPT ![p] = "OPEN"]
          /\ cooled' = [cooled EXCEPT ![p] = FALSE]

\* Refused before it runs: a row that fails, a key somebody else has.  Nobody
\* takes its load back.
Drop(r) ==
    /\ request[r].at = "routed"
    /\ request' = [request EXCEPT ![r] = Idle]
    /\ UNCHANGED <<registryVars, router>>

\* imagefree: in the queue of the engine, and reported as done.
Enqueue(r) ==
    /\ request[r].at = "routed" /\ request[r].by = Engine
    /\ RecordSuccess(Engine)
    /\ request' = [request EXCEPT ![r] = Idle]
    /\ UNCHANGED registryVars

StartsRunning(r) ==
    /\ request[r].at = "routed" /\ request[r].by # Engine
    /\ request' = [request EXCEPT ![r].at = "running"]
    /\ UNCHANGED <<registryVars, router>>

\* The threshold is as high as anybody counts.
Later(n) == IF n = DegradeAfter THEN n ELSE n + 1

Recovered(p) ==
    /\ health' = [health EXCEPT ![p] = "healthy"]
    /\ fails' = [fails EXCEPT ![p] = 0]

Completes(r) ==
    LET p == request[r].by IN
    /\ request[r].at = "running"
    /\ Recovered(p) /\ UNCHANGED ripe
    /\ RecordSuccess(p)
    /\ request' = [request EXCEPT ![r] = Idle]

\* degrade, or one more failure
Degrades(p) ==
    LET n == Later(fails[p])
    IN /\ fails' = [fails EXCEPT ![p] = n]
       /\ health' = IF n = DegradeAfter THEN [health EXCEPT ![p] = "degraded"] ELSE health
       /\ ripe' = IF n = DegradeAfter THEN [ripe EXCEPT ![p] = FALSE] ELSE ripe

\* The rate limit is counted inside generate, before its result is written.
RateLimited(r) ==
    /\ request[r].at = "running" /\ request[r].by \in Reporting
    /\ Degrades(request[r].by)
    /\ request' = [request EXCEPT ![r].at = "limited"]
    /\ UNCHANGED router

Fails(r) ==
    /\ request[r].at \in {"running", "limited"}
    /\ RecordFailure(request[r].by)
    /\ request' = [request EXCEPT ![r] = Idle]
    /\ UNCHANGED registryVars

Degraded == {p \in Providers : health[p] = "degraded"}

\* The first of them to be registered.
First(S) == Order[Min({i \in DOMAIN Order : Order[i] \in S})]

\* try_recover_all, every interval: the first that has been degraded for one.
TryRecover(p) == Recovered(p)
\* mutant: a look at a degraded provider starts its interval again
WaitsAnew(p) == ripe' = [q \in Providers |-> FALSE]
Waits(p) == ripe' = [q \in Providers |-> q \in Degraded \ {p}]

TryRecoverAll ==
    /\ LET due == {p \in Degraded : ripe[p]} IN
       IF due = {} THEN Waits(None) /\ UNCHANGED <<health, fails>>
       ELSE TryRecover(First(due)) /\ Waits(First(due))
    /\ UNCHANGED <<router, request>>

\* The cooldown of an open circuit passes; only select_best looks at it.
Cool(p) ==
    /\ circuit[p] = "OPEN" /\ ~cooled[p]
    /\ cooled' = [cooled EXCEPT ![p] = TRUE]
    /\ UNCHANGED <<registryVars, circuit, load, request>>

RouterNext ==
    \/ \E r \in Visitors :
        \/ \E p \in Providers : Direct(r, p) \/ Fallback(r, p)
        \/ Drop(r) \/ Enqueue(r) \/ StartsRunning(r) \/ Completes(r) \/ RateLimited(r) \/ Fails(r)
    \/ TryRecoverAll
    \/ \E p \in Providers : Cool(p)

RouterSpec == RouterInit /\ [][RouterNext]_routerVars
\* The loop of api/bg_tasks.py that tries to recover runs as long as the service.
RouterFairSpec == RouterSpec /\ WF_routerVars(TryRecoverAll)

-----------------------------------------------------------------------------
\* Types of the registry and the router (api/providers/registry.py:104,
\* api/adaptive_router.py:404).
RouterTypes ==
    /\ health \in [Providers -> {"healthy", "degraded"}]
    /\ fails \in [Providers -> 0..DegradeAfter]
    /\ ripe \in [Providers -> BOOLEAN] /\ cooled \in [Providers -> BOOLEAN]
    /\ circuit \in [Providers -> {"CLOSED", "OPEN", "HALF_OPEN"}]
    /\ load \in [Providers -> 0..MaxLoad]
    /\ request \in [Visitors ->
            [at : {"idle", "routed", "running", "limited"}, by : Providers \cup {None}]]

UnderWay(p) == {r \in Visitors : request[r].by = p}

\* A provider is never believed less busy than it is: every request under way
\* is counted in its load, whatever other requests leaked or took back
\* (api/adaptive_router.py:436).
LoadCovered == \A p \in Providers : load[p] >= Cardinality(UnderWay(p))

\* A degraded provider is used again, although requests from before go on
\* failing at it and start its interval anew (api/providers/registry.py:288).
ComesBack == \A p \in Reporting : p \in Degraded ~> p \notin Degraded
=============================================================================
