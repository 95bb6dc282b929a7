------------------------- MODULE SolverGuardProofs --------------------------
(***************************************************************************)
(* Proofs about SolverGuard, for every federation, every default node and  *)
(* every number of requests: the types, the circuits and the loads, and    *)
(* that failover reaches a reliable solver.                                *)
(***************************************************************************)
EXTENDS SolverGuard, FiniteSetTheorems, TLAPS

-----------------------------------------------------------------------------
(* The circuit of one node.                                                *)

Sound(s) == s \in Circuit /\ (s.open => s.fails = Threshold)

LEMMA SucceededSound ==
    ASSUME NEW s, Sound(s)
    PROVE  Sound(Succeeded(s)) /\ Succeeded(s).cool = 0 /\ ~Succeeded(s).open
BY GuardAssumption DEF Sound, Circuit, Succeeded

LEMMA FailedSound ==
    ASSUME NEW s, Sound(s), NEW reason
    PROVE  /\ Sound(Failed(s, reason))
           /\ reason # "rate_limit" => Failed(s, reason).cool = s.cool
<1>1. s.open \in BOOLEAN /\ s.fails \in 0..Threshold /\ s.cool \in 0..Cooldown
      /\ s.wait \in 0..ProbeEvery /\ Threshold \in Nat \ {0} /\ Cooldown \in Nat
  BY GuardAssumption DEF Sound, Circuit
<1>3. Failed(s, reason) \in Circuit
  BY <1>1 DEF Circuit, Failed
<1>4. Failed(s, reason).open => Failed(s, reason).fails = Threshold
  BY <1>1 DEF Sound, Failed
<1>5. QED
  BY <1>3, <1>4 DEF Sound, Failed

-----------------------------------------------------------------------------
(* The inductive invariant.                                                *)

Circuits == \A n \in URLs : Sound(node[n])

Unlimited == \A n \in reliable \cap nodes : node[n].cool = 0

\* A reliable node has no failures, unless a registration blamed the only one.
Unharmed ==
    \A n \in reliable \cap nodes : Cardinality(nodes) # 1 => ~node[n].open

\* A request that is under way has the reliable nodes before it.
Ahead ==
    \A r \in Requests : Solving(r) =>
        \A n \in reliable \cap nodes : \E i \in 1..Len(left[r]) : left[r][i] = n

Known == nodes \in SUBSET URLs /\ reliable \in SUBSET URLs

IInv == TypeOK /\ Circuits /\ Unlimited /\ Unharmed /\ Ahead /\ ReliableServes

LEMMA Listing ==
    ASSUME NEW S \in SUBSET URLs, NEW s \in Ranked(S)
    PROVE  /\ s \in Seq(URLs)
           /\ Len(s) = Cardinality(S)
           /\ \A n \in S : \E i \in 1..Len(s) : s[i] = n
<1>1. IsFiniteSet(S) /\ Cardinality(S) \in Nat
  BY GuardAssumption, FS_Subset, FS_CardinalityType
<1>2. s \in [1..Cardinality(S) -> S]
  BY DEF Ranked
<1>3. s \in Seq(S) /\ Len(s) = Cardinality(S)
  BY <1>1, <1>2
<1>4. QED
  BY <1>3 DEF Ranked

LEMMA NonEmptyListing ==
    ASSUME NEW S \in SUBSET URLs, S # {}, NEW s \in Ranked(S)
    PROVE  s # <<>>
<1>1. PICK n \in S : TRUE
  OBVIOUS
<1>2. PICK i \in 1..Len(s) : s[i] = n
  BY <1>1, Listing
<1>3. QED
  BY <1>2, Listing

\* Every reliable node of S is listed.
LEMMA ReliableListed ==
    ASSUME IInv, NEW S \in SUBSET nodes, NEW n \in reliable \cap S
    PROVE  n \in Listed(S)
<1>1. node[n].cool = 0
  BY DEF IInv, Unlimited
<1>2. CASE Cardinality(nodes) # 1
  BY <1>1, <1>2 DEF IInv, Unharmed, Listed, Allows
<1>3. CASE Cardinality(nodes) = 1
  <2>1. IsFiniteSet(nodes)
    BY GuardAssumption, FS_Subset DEF IInv, TypeOK
  <2>2. PICK m : nodes = {m}
    BY <1>3, <2>1, FS_Singleton
  <2>3. S = {n}
    BY <2>2
  <2>4. QED
    BY <1>1, <2>3 DEF Listed
<1>4. QED
  BY <1>2, <1>3

-----------------------------------------------------------------------------
(* What an answer does to the circuits.                                    *)

LEMMA RecordedCircuits ==
    ASSUME IInv, NEW n \in URLs, NEW answer
    PROVE  /\ Recorded(n, answer) \in [URLs -> Circuit]
           /\ \A m \in URLs : Sound(Recorded(n, answer)[m])
           /\ \A m \in URLs : m # n => Recorded(n, answer)[m] = node[m]
           /\ answer = "token" /\ n \in nodes => ~Recorded(n, answer)[n].open
           /\ answer = "token" /\ n \in nodes => Recorded(n, answer)[n].cool = 0
<1>1. node \in [URLs -> Circuit] /\ Sound(node[n])
  BY DEF IInv, TypeOK, Circuits
<1>2. Sound(Succeeded(node[n])) /\ Succeeded(node[n]).cool = 0 /\ ~Succeeded(node[n]).open
  BY <1>1, SucceededSound
<1>3. Sound(Failed(node[n], answer))
  BY <1>1, FailedSound
<1>4. Succeeded(node[n]) \in Circuit /\ Failed(node[n], answer) \in Circuit
  BY <1>2, <1>3 DEF Sound
<1>5. \A m \in URLs : Recorded(n, answer)[m] =
        IF n \in nodes /\ m = n
        THEN IF answer = "token" THEN Succeeded(node[n]) ELSE Failed(node[n], answer)
        ELSE node[m]
  BY <1>1 DEF Recorded
<1>6. Recorded(n, answer) \in [URLs -> Circuit]
  BY <1>1, <1>4 DEF Recorded
<1>7. \A m \in URLs : Sound(node[m])
  BY DEF IInv, Circuits
<1>8. QED
  BY <1>2, <1>3, <1>5, <1>6, <1>7

\* Answers keep the circuits sound and the reliable nodes unharmed.
LEMMA AnswerKeepsNodes ==
    ASSUME IInv, NEW n \in URLs, NEW answer,
           n \in reliable => answer = "token",
           UNCHANGED <<nodes, reliable>>,
           \/ node' = Recorded(n, answer)
           \/ node' = Blamed(Recorded(n, answer))
    PROVE  node' \in [URLs -> Circuit] /\ Circuits' /\ Unlimited' /\ Unharmed'
<1> DEFINE once == Recorded(n, answer)
<1>1. /\ once \in [URLs -> Circuit]
      /\ \A m \in URLs : Sound(once[m])
      /\ \A m \in reliable \cap nodes :
            once[m].cool = 0 /\ (Cardinality(nodes) # 1 => ~once[m].open)
  <2>1. \A m \in reliable \cap nodes :
           m \in URLs /\ node[m].cool = 0 /\ (Cardinality(nodes) # 1 => ~node[m].open)
    BY DEF IInv, TypeOK, Unlimited, Unharmed
  <2>2. QED
    BY <2>1, RecordedCircuits
<1> HIDE DEF once
<1>2. CASE node' = once
  BY <1>1, <1>2 DEF Circuits, Unlimited, Unharmed
<1>3. CASE node' = Blamed(once) /\ Cardinality(nodes) = 1
  <2>1. node' = [m \in URLs |-> IF m \in nodes THEN Failed(once[m], "other") ELSE once[m]]
    BY <1>3 DEF Blamed
  <2>2. \A m \in URLs : Sound(Failed(once[m], "other")) /\ Failed(once[m], "other").cool = once[m].cool
    BY <1>1, FailedSound
  <2>3. \A m \in URLs : Sound(node'[m]) /\ node'[m].cool = once[m].cool
    BY <1>1, <2>1, <2>2
  <2>4. node' \in [URLs -> Circuit]
    BY <2>1, <2>3 DEF Sound
  <2>5. reliable \cap nodes \in SUBSET URLs
    BY DEF IInv, TypeOK
  <2>6. QED
    BY <1>1, <1>3, <2>3, <2>4, <2>5 DEF Circuits, Unlimited, Unharmed
<1>4. QED
  BY <1>2, <1>3 DEF once, Blamed

LEMMA ProbedKeepsNodes ==
    ASSUME IInv, NEW S, node' = Probed(S), UNCHANGED <<nodes, reliable>>
    PROVE  node' \in [URLs -> Circuit] /\ Circuits' /\ Unlimited' /\ Unharmed'
<1>1. \A n \in URLs : node[n] \in Circuit /\ Sound(node[n])
  BY DEF IInv, TypeOK, Circuits
<1>2. ASSUME NEW n \in URLs
      PROVE  /\ node'[n] \in Circuit /\ Sound(node'[n])
             /\ node'[n].cool = node[n].cool /\ node'[n].open = node[n].open
  BY <1>1, GuardAssumption DEF Probed, Circuit, Sound
<1>3. node' \in [URLs -> Circuit]
  BY <1>2 DEF Probed
<1>4. reliable \cap nodes \in SUBSET URLs
  BY DEF IInv, TypeOK
<1>5. QED
  BY <1>2, <1>3, <1>4 DEF IInv, Circuits, Unlimited, Unharmed

LEMMA TickKeepsNodes ==
    ASSUME IInv, Tick
    PROVE  node' \in [URLs -> Circuit] /\ Circuits' /\ Unlimited' /\ Unharmed'
<1>1. \A n \in URLs : node[n] \in Circuit /\ Sound(node[n])
  BY DEF IInv, TypeOK, Circuits
<1>2. ASSUME NEW n \in URLs
      PROVE  /\ node'[n] \in Circuit /\ Sound(node'[n])
             /\ node[n].cool = 0 => node'[n].cool = 0
             /\ node'[n].open = node[n].open
  <2>1. node'[n] = Aged(node[n])
    BY DEF Tick
  <2>2. QED
    BY <1>1, <2>1, GuardAssumption DEF Aged, Sooner, Circuit, Sound
<1>3. node' \in [URLs -> Circuit]
  BY <1>2 DEF Tick
<1>4. reliable \cap nodes \in SUBSET URLs
  BY DEF IInv, TypeOK
<1>5. QED
  BY <1>2, <1>3, <1>4 DEF Tick, IInv, Circuits, Unlimited, Unharmed

-----------------------------------------------------------------------------
(* The loads stay natural numbers.                                         *)

LEMMA LoadTypes ==
    ASSUME NEW load \in [URLs -> Nat], NEW n
    PROVE  Released(load, n) \in [URLs -> Nat] /\ Acquired(load, n) \in [URLs -> Nat]
<1>1. CASE n \in URLs
  BY <1>1 DEF Released, Acquired
<1>2. CASE n \notin URLs
  <2>1. ASSUME NEW x PROVE [load EXCEPT ![n] = x] = load
    BY <1>2
  <2>2. QED
    BY <2>1 DEF Released, Acquired
<1>3. QED
  BY <1>1, <1>2

-----------------------------------------------------------------------------
(* The steps.                                                              *)

LEMMA BeginStep ==
    ASSUME IInv, NEW r \in Requests, NEW list \in Seq(URLs), Begin(r, list),
           \A n \in reliable \cap nodes : \E i \in 1..Len(list) : list[i] = n,
           node' \in [URLs -> Circuit], Circuits', Unlimited', Unharmed',
           explicit' \in [Requests -> BOOLEAN]
    PROVE  IInv'
<1>1. TypeOK'
  <2>1. inflight' \in [URLs -> Nat]
    BY LoadTypes DEF Begin, IInv, TypeOK
  <2>2. QED
    BY <2>1 DEF Begin, IInv, TypeOK, Result
<1>2. Ahead'
  <2>1. \A q \in Requests : left'[q] = IF q = r THEN list ELSE left[q]
    BY DEF Begin, IInv, TypeOK
  <2>2. QED
    BY <2>1 DEF Begin, IInv, Ahead, Solving
<1>3. ReliableServes'
  BY DEF Begin, IInv, TypeOK, ReliableServes
<1>4. QED
  BY <1>1, <1>2, <1>3 DEF IInv

LEMMA StartStep ==
    ASSUME IInv, NEW r \in Requests, Start(r)
    PROVE  IInv'
<1>1. PICK list \in Chosen : Begin(r, list)
  BY DEF Start
<1>2. node' \in [URLs -> Circuit] /\ Circuits' /\ Unlimited' /\ Unharmed'
  BY <1>1, ProbedKeepsNodes DEF Start, Begin
<1>3. explicit' \in [Requests -> BOOLEAN]
  BY DEF Start, IInv, TypeOK
<1>4. Listed(nodes) \in SUBSET URLs
  BY DEF IInv, TypeOK, Listed
<1>5. /\ list \in Seq(URLs)
      /\ \A n \in reliable \cap nodes : \E i \in 1..Len(list) : list[i] = n
  <2>1. \A n \in reliable \cap nodes : n \in Listed(nodes)
    BY ReliableListed
  <2>2. CASE Listed(nodes) = {}
    <3>1. list = <<Default>> /\ <<Default>> \in Seq(URLs)
      BY <1>1, <2>2, GuardAssumption DEF Chosen
    <3>2. reliable \cap nodes = {}
      BY <2>1, <2>2
    <3>3. QED
      BY <3>1, <3>2
  <2>3. CASE Listed(nodes) # {}
    BY <1>1, <1>4, <2>1, <2>3, Listing DEF Chosen
  <2>4. QED
    BY <2>2, <2>3
<1>6. QED
  BY <1>1, <1>2, <1>3, <1>5, BeginStep

LEMMA StartExplicitStep ==
    ASSUME IInv, NEW r \in Requests, StartExplicit(r)
    PROVE  IInv'
<1> DEFINE others == nodes \ {Default}
<1>1. PICK s \in Ranked(Listed(others)) : Begin(r, <<Default>> \o s)
  BY DEF StartExplicit, ChosenAfterDefault
<1>2. node' \in [URLs -> Circuit] /\ Circuits' /\ Unlimited' /\ Unharmed'
  BY <1>1, ProbedKeepsNodes DEF StartExplicit, Begin
<1>3. explicit' \in [Requests -> BOOLEAN]
  BY DEF StartExplicit, IInv, TypeOK
<1>4. Listed(others) \in SUBSET URLs
  BY DEF IInv, TypeOK, Listed
<1>5. s \in Seq(URLs) /\ \A n \in Listed(others) : \E i \in 1..Len(s) : s[i] = n
  BY <1>1, <1>4, Listing
<1> DEFINE list == <<Default>> \o s
<1>6. /\ list \in Seq(URLs) /\ Len(list) = Len(s) + 1 /\ list[1] = Default
      /\ \A i \in 1..Len(s) : i + 1 \in 1..Len(list) /\ list[i + 1] = s[i]
  BY <1>5, GuardAssumption
<1>7. ASSUME NEW n \in reliable \cap nodes
      PROVE  \E i \in 1..Len(list) : list[i] = n
  <2>1. CASE n = Default
    BY <1>5, <1>6, <2>1
  <2>2. CASE n # Default
    <3>1. n \in Listed(others)
      BY <2>2, ReliableListed
    <3>2. PICK i \in 1..Len(s) : s[i] = n
      BY <1>5, <3>1
    <3>3. QED
      BY <1>6, <3>2
  <2>3. QED
    BY <2>1, <2>2
<1>8. QED
  BY <1>1, <1>2, <1>3, <1>6, <1>7, BeginStep

LEMMA EndStep ==
    ASSUME IInv, NEW r \in Requests, NEW how \in Result, End(r, how),
           how = "exhausted" => reliable \cap nodes = {},
           node' \in [URLs -> Circuit], Circuits', Unlimited', Unharmed'
    PROVE  IInv'
<1>1. TypeOK'
  <2>1. inflight' \in [URLs -> Nat]
    BY LoadTypes DEF End, IInv, TypeOK
  <2>2. QED
    BY <2>1 DEF End, IInv, TypeOK
<1>2. Ahead'
  <2>1. \A q \in Requests : left'[q] = IF q = r THEN <<>> ELSE left[q]
    BY DEF End, IInv, TypeOK
  <2>2. QED
    BY <2>1 DEF End, IInv, Ahead, Solving
<1>3. ReliableServes'
  BY DEF End, IInv, TypeOK, ReliableServes
<1>4. QED
  BY <1>1, <1>2, <1>3 DEF IInv

\* The node a request is trying, and what follows it in the list.
LEMMA ListType ==
    ASSUME IInv, NEW r \in Requests, Solving(r)
    PROVE  /\ left[r] \in Seq(URLs) /\ Len(left[r]) \in Nat \ {0}
           /\ Head(left[r]) = left[r][1] /\ Head(left[r]) \in URLs
           /\ Rest(r) \in Seq(URLs) /\ Len(Rest(r)) = Len(left[r]) - 1
           /\ \A i \in 1..Len(Rest(r)) : Rest(r)[i] = left[r][i + 1]
<1>1. left[r] \in Seq(URLs) /\ left[r] # <<>>
  BY DEF IInv, TypeOK, Solving
<1>2. QED
  BY <1>1 DEF Rest

\* Failing at an unreliable node leaves every reliable one ahead.
LEMMA RestReaches ==
    ASSUME IInv, NEW r \in Requests, Solving(r), Head(left[r]) \notin reliable,
           NEW n \in reliable \cap nodes
    PROVE  \E i \in 1..Len(Rest(r)) : Rest(r)[i] = n
<1>1. PICK i \in 1..Len(left[r]) : left[r][i] = n
  BY DEF IInv, Ahead
<1>2. i # 1
  BY <1>1, ListType
<1>3. i - 1 \in 1..Len(Rest(r)) /\ Rest(r)[i - 1] = n
  BY <1>1, <1>2, ListType
<1>4. QED
  BY <1>3

LEMMA SucceedsStep ==
    ASSUME IInv, NEW r \in Requests, Succeeds(r)
    PROVE  IInv'
<1>1. Solving(r) /\ End(r, "served") /\ node' = Recorded(Head(left[r]), "token")
  BY DEF Succeeds
<1>2. node' \in [URLs -> Circuit] /\ Circuits' /\ Unlimited' /\ Unharmed'
  BY <1>1, ListType, AnswerKeepsNodes DEF End
<1>3. "served" \in Result
  BY DEF Result
<1>4. QED
  BY <1>1, <1>2, <1>3, EndStep

LEMMA FailsOverStep ==
    ASSUME IInv, NEW r \in Requests, NEW reason \in Failure, FailsOver(r, reason)
    PROVE  IInv'
<1>1. Solving(r) /\ Head(left[r]) \notin reliable
  BY DEF FailsOver
<1>2. node' \in [URLs -> Circuit] /\ Circuits' /\ Unlimited' /\ Unharmed'
  BY <1>1, ListType, AnswerKeepsNodes DEF FailsOver
<1>3. TypeOK'
  <2>1. inflight' \in [URLs -> Nat]
    BY LoadTypes DEF FailsOver, IInv, TypeOK
  <2>2. left' \in [Requests -> Seq(URLs)]
    BY <1>1, ListType DEF FailsOver, IInv, TypeOK
  <2>3. QED
    BY <1>2, <2>1, <2>2 DEF FailsOver, IInv, TypeOK
<1>4. Ahead'
  <2>1. \A q \in Requests : left'[q] = IF q = r THEN Rest(r) ELSE left[q]
    BY DEF FailsOver, IInv, TypeOK
  <2>2. \A n \in reliable \cap nodes : \E i \in 1..Len(Rest(r)) : Rest(r)[i] = n
    BY <1>1, RestReaches
  <2>3. QED
    BY <2>1, <2>2 DEF FailsOver, IInv, Ahead, Solving
<1>5. ReliableServes'
  BY DEF FailsOver, IInv, ReliableServes
<1>6. QED
  BY <1>2, <1>3, <1>4, <1>5 DEF IInv

LEMMA GivesUpStep ==
    ASSUME IInv, NEW r \in Requests, NEW reason \in Failure, GivesUp(r, reason)
    PROVE  IInv'
<1>1. Solving(r) /\ Head(left[r]) \notin reliable
  BY DEF GivesUp
<1>2. PICK how \in {"rejected", "exhausted", "late"} :
         End(r, how) /\ (how = "exhausted" => Rest(r) = <<>>)
  BY DEF GivesUp
<1>3. node' \in [URLs -> Circuit] /\ Circuits' /\ Unlimited' /\ Unharmed'
  BY <1>1, <1>2, ListType, AnswerKeepsNodes DEF GivesUp, End
<1>4. how = "exhausted" => reliable \cap nodes = {}
  <2>1. SUFFICES ASSUME how = "exhausted", NEW n \in reliable \cap nodes PROVE FALSE
    OBVIOUS
  <2>2. Len(Rest(r)) = 0
    BY <1>2, <2>1
  <2>3. QED
    BY <1>1, <2>2, RestReaches
<1>5. how \in Result
  BY DEF Result
<1>6. QED
  BY <1>2, <1>3, <1>4, <1>5, EndStep

LEMMA CancelStep ==
    ASSUME IInv, NEW r \in Requests, Cancel(r)
    PROVE  IInv'
<1>1. node' \in [URLs -> Circuit] /\ Circuits' /\ Unlimited' /\ Unharmed'
  BY DEF Cancel, End, IInv, TypeOK, Circuits, Unlimited, Unharmed
<1>2. QED
  BY <1>1, EndStep DEF Cancel, Result

\* The steps that only concern the circuits.
LEMMA ClockStep ==
    ASSUME IInv, Gate \/ Tick
    PROVE  IInv'
<1>1. node' \in [URLs -> Circuit] /\ Circuits' /\ Unlimited' /\ Unharmed'
  <2>1. CASE Gate
    BY <2>1, ProbedKeepsNodes DEF Gate
  <2>2. CASE Tick
    BY <2>2, TickKeepsNodes
  <2>3. QED
    BY <2>1, <2>2
<1>2. UNCHANGED <<nodes, reliable, inflight, left, explicit, result>>
  BY DEF Gate, Tick
<1>3. QED
  BY <1>1, <1>2 DEF IInv, TypeOK, Ahead, Solving, ReliableServes

LEMMA InitIInv == Init => IInv
<1> SUFFICES ASSUME Init PROVE IInv
  OBVIOUS
<1>1. TypeOK
  BY GuardAssumption DEF Init, TypeOK, Closed, Circuit, Result
<1>2. Circuits /\ Unlimited /\ Unharmed
  BY GuardAssumption DEF Init, Circuits, Sound, Closed, Circuit, Unlimited, Unharmed
<1>3. Ahead /\ ReliableServes
  BY DEF Init, Ahead, Solving, ReliableServes
<1>4. QED
  BY <1>1, <1>2, <1>3 DEF IInv

LEMMA NextIInv == IInv /\ [Next]_vars => IInv'
<1> SUFFICES ASSUME IInv, [Next]_vars PROVE IInv'
  OBVIOUS
<1>1. CASE \E r \in Requests : Start(r) \/ StartExplicit(r)
  BY <1>1, StartStep, StartExplicitStep
<1>2. CASE \E r \in Requests : Answered(r)
  BY <1>2, SucceedsStep, FailsOverStep, GivesUpStep DEF Answered
<1>3. CASE \E r \in Requests : Cancel(r)
  BY <1>3, CancelStep
<1>4. CASE Gate \/ Tick
  BY <1>4, ClockStep
<1>5. CASE UNCHANGED vars
  BY <1>5 DEF vars, IInv, TypeOK, Circuits, Unlimited, Unharmed, Ahead, Solving, ReliableServes
<1>6. QED
  BY <1>1, <1>2, <1>3, <1>4, <1>5 DEF Next

LEMMA Invariance == Spec => []IInv
<1>1. QED
  BY InitIInv, NextIInv, PTL DEF Spec

-----------------------------------------------------------------------------
(* The loads.  A request leaves the node it is trying, if it was under     *)
(* way, and enters the first of its new list, if it has one.               *)

Users(n) == {q \in Requests : Trying(q, n)}

LEMMA OneMore ==
    ASSUME NEW S, IsFiniteSet(S), NEW r, r \notin S, NEW P \in BOOLEAN,
           NEW T, T = IF P THEN S \cup {r} ELSE S
    PROVE  Cardinality(T) = Cardinality(S) + (IF P THEN 1 ELSE 0)
<1>1. Cardinality(S) \in Nat
  BY FS_CardinalityType
<1>2. Cardinality(S \cup {r}) = Cardinality(S) + 1
  BY FS_AddElement
<1>3. CASE P
  BY <1>2, <1>3
<1>4. CASE ~P
  BY <1>1, <1>4
<1>5. QED
  BY <1>3, <1>4

LEMMA MoveKeepsLoads ==
    ASSUME TypeOK, InflightExact, UNCHANGED nodes,
           NEW r \in Requests, NEW list \in Seq(URLs),
           left' = [left EXCEPT ![r] = list],
           NEW gone \in [URLs -> Nat],
           gone = IF Solving(r) THEN Released(inflight, Head(left[r])) ELSE inflight,
           inflight' = IF list # <<>> THEN Acquired(gone, Head(list)) ELSE gone
    PROVE  InflightExact'
<1> SUFFICES ASSUME NEW n \in nodes
             PROVE  inflight'[n] = Cardinality(Users(n)')
  BY DEF InflightExact, Users
<1> DEFINE others == {q \in Requests \ {r} : Trying(q, n)}
           enters == list # <<>> /\ Head(list) = n
<1>1. n \in URLs /\ inflight[n] \in Nat /\ gone[n] \in Nat
  BY DEF TypeOK
<1>2. IsFiniteSet(others) /\ Cardinality(others) \in Nat /\ r \notin others
  BY GuardAssumption, FS_Subset, FS_CardinalityType
<1>3. inflight[n] = Cardinality(others) + (IF Trying(r, n) THEN 1 ELSE 0)
  <2>1. Users(n) = IF Trying(r, n) THEN others \cup {r} ELSE others
    BY DEF Users
  <2>2. inflight[n] = Cardinality(Users(n)) /\ Trying(r, n) \in BOOLEAN
    BY DEF InflightExact, Users, Trying
  <2> HIDE DEF others
  <2>3. QED
    BY <1>2, <2>1, <2>2, OneMore
<1>4. gone[n] = Cardinality(others)
  BY <1>1, <1>2, <1>3 DEF Released, Trying, TypeOK
<1>5. Cardinality(Users(n)') = Cardinality(others) + (IF enters THEN 1 ELSE 0)
  <2>1. \A q \in Requests : left'[q] = IF q = r THEN list ELSE left[q]
    BY DEF TypeOK
  <2>2. Users(n)' = IF enters THEN others \cup {r} ELSE others
    BY <2>1 DEF Users, Trying, Solving
  <2>3. enters \in BOOLEAN
    OBVIOUS
  <2> HIDE DEF others, enters
  <2>4. QED
    BY <1>2, <2>2, <2>3, OneMore
<1>6. inflight'[n] = gone[n] + (IF enters THEN 1 ELSE 0)
  BY <1>1 DEF Acquired
<1>7. QED
  BY <1>4, <1>5, <1>6

LEMMA BeginKeepsLoads ==
    ASSUME TypeOK, InflightExact, NEW r \in Requests, ~Solving(r),
           NEW list \in Seq(URLs), list # <<>>, Begin(r, list)
    PROVE  InflightExact'
<1>1. inflight \in [URLs -> Nat]
  BY DEF TypeOK
<1>2. QED
  BY <1>1, MoveKeepsLoads DEF Begin

LEMMA EndKeepsLoads ==
    ASSUME TypeOK, InflightExact, NEW r \in Requests, Solving(r), NEW how, End(r, how)
    PROVE  InflightExact'
<1>1. Released(inflight, Head(left[r])) \in [URLs -> Nat]
  BY LoadTypes DEF TypeOK
<1>2. <<>> \in Seq(URLs)
  OBVIOUS
<1>3. QED
  BY <1>1, <1>2, MoveKeepsLoads DEF End

LEMMA NextKeepsLoads == IInv /\ InflightExact /\ [Next]_vars => InflightExact'
<1> SUFFICES ASSUME IInv, InflightExact, [Next]_vars PROVE InflightExact'
  OBVIOUS
<1> USE DEF IInv
<1>1. ASSUME NEW r \in Requests, Start(r) PROVE InflightExact'
  <2>1. PICK list \in Chosen : Begin(r, list)
    BY <1>1 DEF Start
  <2>2. Listed(nodes) \in SUBSET URLs
    BY DEF TypeOK, Listed
  <2>3. list \in Seq(URLs) /\ list # <<>>
    <3>1. CASE Listed(nodes) = {}
      <4>1. list = <<Default>> /\ <<Default>> \in Seq(URLs) /\ <<Default>> # <<>>
        BY <2>1, <3>1, GuardAssumption DEF Chosen
      <4>2. QED
        BY <4>1
    <3>2. CASE Listed(nodes) # {}
      BY <2>1, <2>2, <3>2, Listing, NonEmptyListing DEF Chosen
    <3>3. QED
      BY <3>1, <3>2
  <2>4. QED
    BY <1>1, <2>1, <2>3, BeginKeepsLoads DEF Start
<1>2. ASSUME NEW r \in Requests, StartExplicit(r) PROVE InflightExact'
  <2>1. PICK s \in Ranked(Listed(nodes \ {Default})) : Begin(r, <<Default>> \o s)
    BY <1>2 DEF StartExplicit, ChosenAfterDefault
  <2>2. Listed(nodes \ {Default}) \in SUBSET URLs
    BY DEF TypeOK, Listed
  <2>3. s \in Seq(URLs)
    BY <2>1, <2>2, Listing
  <2>4. <<Default>> \o s \in Seq(URLs) /\ <<Default>> \o s # <<>>
    BY <2>3, GuardAssumption
  <2>5. QED
    BY <1>2, <2>1, <2>4, BeginKeepsLoads DEF StartExplicit
<1>3. ASSUME NEW r \in Requests, Answered(r) PROVE InflightExact'
  <2>1. CASE Succeeds(r)
    BY <2>1, EndKeepsLoads DEF Succeeds
  <2>2. ASSUME NEW reason \in Failure, FailsOver(r, reason) PROVE InflightExact'
    <3>1. Solving(r) /\ Rest(r) # <<>> /\ Rest(r) \in Seq(URLs)
      BY <2>2, ListType DEF FailsOver
    <3>2. Released(inflight, Head(left[r])) \in [URLs -> Nat]
      BY LoadTypes DEF TypeOK
    <3>3. QED
      BY <2>2, <3>1, <3>2, MoveKeepsLoads DEF FailsOver
  <2>3. ASSUME NEW reason \in Failure, GivesUp(r, reason) PROVE InflightExact'
    BY <2>3, EndKeepsLoads DEF GivesUp
  <2>4. QED
    BY <1>3, <2>1, <2>2, <2>3 DEF Answered
<1>4. ASSUME NEW r \in Requests, Cancel(r) PROVE InflightExact'
  BY <1>4, EndKeepsLoads DEF Cancel
<1>5. CASE Gate \/ Tick \/ UNCHANGED vars
  BY <1>5 DEF Gate, Tick, vars, InflightExact, Trying, Solving
<1>6. QED
  BY <1>1, <1>2, <1>3, <1>4, <1>5 DEF Next

LEMMA InitLoads == Init => InflightExact
<1> SUFFICES ASSUME Init, NEW n \in nodes
             PROVE  inflight[n] = Cardinality(Users(n))
  BY DEF InflightExact, Users
<1>1. Users(n) = {}
  BY DEF Init, Users, Trying, Solving
<1>2. QED
  BY <1>1, FS_EmptySet DEF Init

-----------------------------------------------------------------------------
(* The state of the guard and of every request keeps its type.             *)
THEOREM TypeCorrect == Spec => []TypeOK
<1>1. IInv => TypeOK
  BY DEF IInv
<1>2. QED
  BY <1>1, Invariance, PTL

(* record_success and record_failure keep circuit and count in step, in    *)
(* whatever order the answers of concurrent requests arrive.               *)
THEOREM CircuitsAreJustified == Spec => []OpenMeansFailing
<1>1. IInv => OpenMeansFailing
  BY DEF IInv, Circuits, Sound, OpenMeansFailing
<1>2. QED
  BY <1>1, Invariance, PTL

(* A request that runs out of candidates has no reliable solver in its     *)
(* federation: failover reaches the one that works.                        *)
THEOREM FailoverReaches == Spec => []ReliableServes
<1>1. IInv => ReliableServes
  BY DEF IInv
<1>2. QED
  BY <1>1, Invariance, PTL

(* The load the selector compares counts the requests at a node exactly,   *)
(* over failovers, errors that propagate and cancellations.                *)
THEOREM LoadsAreExact == Spec => []InflightExact
<1>1. QED
  BY InitLoads, NextKeepsLoads, Invariance, PTL DEF Spec
=============================================================================
