---------------------------- MODULE SolverGuard -----------------------------
(***************************************************************************)
(* The federation of captcha solvers: the circuit breaker and the selector *)
(* of api/solver_guard.py with the failover of solve_turnstile             *)
(* (api/turnstile_client.py).  Requests share the state of the nodes and   *)
(* interleave at the calls to a node; a step is what a request does        *)
(* between two of them: it records an answer, releases the node, and       *)
(* acquires the next one.                                                  *)
(*                                                                         *)
(* The timestamps of a node are kept as the time left until they matter.   *)
(* IdleTimeout (off by default) and the statistics are left out.           *)
(***************************************************************************)
EXTENDS Integers, Sequences, FiniteSets

CONSTANTS
    Requests,    \* concurrent calls of solve_turnstile
    URLs,
    Default,     \* CF_SOLVER_URL, in the federation or not
    Weight,      \* SOLVER_NODE_WEIGHTS
    Threshold,   \* SOLVE_CIRCUIT_THRESHOLD
    ProbeEvery,  \* SOLVE_CIRCUIT_PROBE_SECONDS
    Cooldown     \* SOLVER_RATE_LIMIT_COOLDOWN_SECONDS

ASSUME GuardAssumption ==
    /\ IsFiniteSet(Requests) /\ IsFiniteSet(URLs)
    /\ Default \in URLs
    /\ Weight \in [URLs -> Nat \ {0}]
    /\ {Threshold, ProbeEvery, Cooldown} \subseteq Nat \ {0}

VARIABLES
    nodes,     \* the federation, as configured at startup
    reliable,  \* the solvers that answer every request in time with a token
    node,      \* the circuit of each node
    inflight,  \* its requests under way
    left,      \* the candidates a request has yet to finish, the first being tried
    explicit,  \* whether it was made with CF_SOLVER_URL
    result     \* how it ended

vars == <<nodes, reliable, node, inflight, left, explicit, result>>

Closed == [open |-> FALSE, fails |-> 0, cool |-> 0, wait |-> 0]

Circuit ==
    [open : BOOLEAN,          \* _circuit_open
     fails : 0..Threshold,    \* _consecutive_failures, which no one compares above that
     cool : 0..Cooldown,      \* until _rate_limited_until
     wait : 0..ProbeEvery]    \* until _last_probe_at + probe_interval

Failure == {"rate_limit", "timeout", "solver_rejected", "transport", "http_error", "other"}
Result == {"new", "trying", "served", "rejected", "late", "exhausted", "cancelled"}

Solving(r) == left[r] # <<>>
Trying(r, n) == Solving(r) /\ Head(left[r]) = n

-----------------------------------------------------------------------------
(* SolverNodeState.                                                        *)

\* allow_solve
Allows(n) == node[n].cool = 0 /\ (node[n].open => node[n].wait = 0)

\* What allow_solve leaves behind at the nodes of S it is asked about.
Probed(S) ==
    [n \in URLs |-> IF n \in S /\ Allows(n) /\ node[n].open
                    THEN [node[n] EXCEPT !.wait = ProbeEvery] ELSE node[n]]

\* record_success
Succeeded(s) == [open |-> FALSE, fails |-> 0, cool |-> 0, wait |-> s.wait]

\* record_failure
Failed(s, reason) ==
    LET reached == s.fails + 1 >= Threshold IN
    [open |-> s.open \/ (reason # "rate_limit" /\ reached),
     fails |-> IF reached THEN Threshold ELSE s.fails + 1,
     cool |-> IF reason = "rate_limit" THEN Cooldown ELSE s.cool,
     wait |-> s.wait]

\* An answer is recorded at a node of the federation.
Recorded(n, answer) ==
    IF n \in nodes
    THEN [node EXCEPT ![n] = IF answer = "token" THEN Succeeded(@) ELSE Failed(@, answer)]
    ELSE node

\* record_failure without an url: it blames the only node, when there is one.
Blamed(circuits) ==
    IF Cardinality(nodes) = 1
    THEN [n \in URLs |-> IF n \in nodes THEN Failed(circuits[n], "other") ELSE circuits[n]]
    ELSE circuits

\* release_inflight_for, acquire_inflight_for
Released(load, n) ==
    IF n \in nodes THEN [load EXCEPT ![n] = IF @ > 0 THEN @ - 1 ELSE 0] ELSE load
Acquired(load, n) ==
    IF n \in nodes THEN [load EXCEPT ![n] = @ + 1] ELSE load

-----------------------------------------------------------------------------
(* SolverGuard.select_candidates and the list of solve_turnstile.          *)

Before(m, n) ==
    \/ ~node[m].open /\ node[n].open
    \/ /\ node[m].open = node[n].open
       /\ inflight[m] * Weight[n] < inflight[n] * Weight[m]

\* The ways to list S so that no node comes after one it should precede.
Ranked(S) ==
    {s \in [1..Cardinality(S) -> S] :
        /\ \A n \in S : \E i \in 1..Cardinality(S) : s[i] = n
        /\ \A i, j \in 1..Cardinality(S) : i < j => ~Before(s[j], s[i])}

\* mutant: no failover list when some node of it has an open circuit
AllClosed(S) == IF \E n \in S : node[n].open THEN {} ELSE {n \in S : Allows(n)}

Listed(S) ==
    LET allowed == {n \in S : Allows(n)} IN
    IF allowed # {} THEN allowed ELSE {n \in S : node[n].cool = 0}

\* select_node finds nothing where select_candidates found nothing.
Chosen ==
    IF Listed(nodes) = {} THEN {<<Default>>} ELSE Ranked(Listed(nodes))

ChosenAfterDefault ==
    {<<Default>> \o s : s \in Ranked(Listed(nodes \ {Default}))}

-----------------------------------------------------------------------------
(* solve_turnstile.                                                        *)

Begin(r, list) ==
    /\ left' = [left EXCEPT ![r] = list]
    /\ inflight' = Acquired(inflight, Head(list))
    /\ result' = [result EXCEPT ![r] = "trying"]
    /\ UNCHANGED <<nodes, reliable>>

Start(r) ==
    /\ ~Solving(r)
    /\ node' = Probed(nodes)
    /\ explicit' = [explicit EXCEPT ![r] = FALSE]
    /\ \E list \in Chosen : Begin(r, list)

StartExplicit(r) ==
    /\ ~Solving(r)
    /\ node' = Probed(nodes \ {Default})
    /\ explicit' = [explicit EXCEPT ![r] = TRUE]
    /\ \E list \in ChosenAfterDefault : Begin(r, list)

End(r, how) ==
    /\ left' = [left EXCEPT ![r] = <<>>]
    /\ inflight' = Released(inflight, Head(left[r]))
    /\ result' = [result EXCEPT ![r] = how]
    /\ UNCHANGED <<nodes, reliable, explicit>>

Succeeds(r) ==
    /\ Solving(r)
    /\ node' = Recorded(Head(left[r]), "token")
    /\ End(r, "served")

Rest(r) == Tail(left[r])

(* The next candidate, while the deadline of the request has not passed.   *)
(* A timeout is its deadline.                                              *)
FailsOver(r, reason) ==
    /\ Solving(r) /\ Head(left[r]) \notin reliable
    /\ reason \notin {"timeout", "solver_rejected"}
    /\ ~(explicit[r] /\ reason = "http_error")
    /\ Rest(r) # <<>>
    /\ node' = Recorded(Head(left[r]), reason)
    /\ left' = [left EXCEPT ![r] = Rest(r)]
    /\ inflight' = Acquired(Released(inflight, Head(left[r])), Head(Rest(r)))
    /\ UNCHANGED <<nodes, reliable, explicit, result>>

(* The request ends with an error.  One that was made with a URL may come  *)
(* from a registration, which reports its failure to the guard once more.  *)
GivesUp(r, reason) ==
    LET rejected == reason = "solver_rejected" \/ (explicit[r] /\ reason = "http_error")
        recorded == Recorded(Head(left[r]), reason)
    IN  /\ Solving(r) /\ Head(left[r]) \notin reliable
        /\ \/ node' = recorded
           \/ explicit[r] /\ node' = Blamed(recorded)
        /\ \/ rejected /\ End(r, "rejected")
           \/ ~rejected /\ Rest(r) = <<>> /\ End(r, "exhausted")
           \/ ~rejected /\ Rest(r) # <<>> /\ End(r, "late")

\* CancelledError: no handler runs but the finally.
Cancel(r) ==
    /\ Solving(r)
    /\ End(r, "cancelled")
    /\ UNCHANGED node

-----------------------------------------------------------------------------
\* The prefetch loop asks the guard whether to solve while every circuit is open.
Gate ==
    /\ \A n \in nodes : node[n].open \/ node[n].cool > 0
    /\ \E n \in nodes : Allows(n) /\ node' = Probed({n})
    /\ UNCHANGED <<nodes, reliable, inflight, left, explicit, result>>

Sooner(t) == IF t > 0 THEN t - 1 ELSE 0

\* Time passes for one node.
Aged(s) ==
    [open |-> s.open, fails |-> s.fails, cool |-> Sooner(s.cool), wait |-> Sooner(s.wait)]

Tick ==
    /\ \E n \in nodes : node[n].cool > 0 \/ node[n].wait > 0
    /\ node' = [n \in URLs |-> Aged(node[n])]
    /\ UNCHANGED <<nodes, reliable, inflight, left, explicit, result>>

Init ==
    /\ nodes \in SUBSET URLs /\ nodes # {}
    /\ reliable \in SUBSET URLs
    /\ node = [n \in URLs |-> Closed]
    /\ inflight = [n \in URLs |-> 0]
    /\ left = [r \in Requests |-> <<>>]
    /\ explicit = [r \in Requests |-> FALSE]
    /\ result = [r \in Requests |-> "new"]

Answered(r) ==
    \/ Succeeds(r)
    \/ \E reason \in Failure : FailsOver(r, reason) \/ GivesUp(r, reason)

Next ==
    \/ \E r \in Requests : Start(r) \/ StartExplicit(r) \/ Answered(r) \/ Cancel(r)
    \/ Gate
    \/ Tick

Spec == Init /\ [][Next]_vars

(* Every call to a node has a timeout, and the polling a deadline.         *)
FairSpec == Spec /\ \A r \in Requests : WF_vars(Answered(r))

(* The requests of the token pool, which name no node and are not          *)
(* cancelled while the service runs, keep coming, and time passes.         *)
BusyNext == (\E r \in Requests : Start(r) \/ Answered(r)) \/ Gate \/ Tick

BusySpec ==
    /\ Init /\ [][BusyNext]_vars
    /\ WF_vars(Tick)
    /\ \A r \in Requests : WF_vars(Answered(r)) /\ WF_vars(Start(r))

-----------------------------------------------------------------------------
(* Properties.                                                             *)

TypeOK ==
    /\ nodes \in SUBSET URLs /\ reliable \in SUBSET URLs
    /\ node \in [URLs -> Circuit]
    /\ inflight \in [URLs -> Nat]
    /\ left \in [Requests -> Seq(URLs)]
    /\ explicit \in [Requests -> BOOLEAN]
    /\ result \in [Requests -> Result]

(* The load the selector compares is the number of requests at the node,   *)
(* whatever way they leave it: a node's count neither leaks nor is given   *)
(* back twice over failovers, errors that propagate and cancellations.     *)
InflightExact ==
    \A n \in nodes : inflight[n] = Cardinality({r \in Requests : Trying(r, n)})

(* A circuit is open only on a full run of failures: a success, also one   *)
(* that was asked for before the circuit opened, closes it, and no answer  *)
(* of another request leaves it open on a shorter run.                     *)
OpenMeansFailing == \A n \in URLs : node[n].open => node[n].fails = Threshold

(* Failover reaches a solver that works: a request runs out of candidates  *)
(* only if no node of the federation answers reliably, whatever circuits   *)
(* the failures of the others opened and whoever took their probes.        *)
ReliableServes ==
    \A r \in Requests : result[r] = "exhausted" => reliable \cap nodes = {}
=============================================================================
