---------------------------- MODULE StoresProofs ----------------------------
(***************************************************************************)
(* Proofs about what the service remembers and where its addresses come    *)
(* from, for all observations and scenes, tasks and vectors, sources,      *)
(* calls and bounds: an observation is condensed once unless a pass broke  *)
(* off, of two near tasks one is marked, an allocation fails after all its *)
(* sources, and the reports on the chat calls agree.                       *)
(***************************************************************************)
EXTENDS AgentMemory, VectorStore, MailSources, UsageReports,
        SequenceTheorems, FiniteSetTheorems, WellFoundedInduction, TLAPS

-----------------------------------------------------------------------------
(* The memory of the agent                                                 *)

Scenes == {SceneOf[f] : f \in Observations}
Pass == [at : {"asleep", "model", "sort"}, rows : SUBSET Observations, scenes : SUBSET Scenes,
         answer : SUBSET Observations, wrote : SUBSET Observations]

MemoryTyped ==
    /\ unseen \subseteq Observations /\ l0 \subseteq Observations \ unseen
    /\ made \in [Observations -> Nat] /\ condensed \in [Observations -> Nat] /\ torn \in [Observations -> Nat]
    /\ pass \in Pass

(* What a pass has read is still there, and the model answers for a scene  *)
(* once.                                                                   *)
PassOK ==
    /\ pass.rows \subseteq l0
    /\ pass.answer \subseteq pass.rows /\ pass.wrote \subseteq pass.rows
    /\ \A f \in pass.answer \cup pass.wrote : SceneOf[f] \notin pass.scenes
    /\ pass.at # "model" => pass.answer = {} /\ pass.wrote = {}

(* An observation that is still there has atoms of torn passes only, and   *)
(* of the pass that is under way.                                          *)
Accounted(f) ==
    /\ f \in unseen => condensed[f] = 0
    /\ condensed[f] <= torn[f] + 1
    /\ f \in l0 /\ f \notin pass.wrote => condensed[f] <= torn[f]

MemoryInv == MemoryTyped /\ PassOK /\ \A f \in Observations : Accounted(f)

LEMMA MemoryInitInv == MemoryInit => MemoryInv
BY DEF MemoryInit, MemoryInv, MemoryTyped, Pass, Asleep, PassOK, Accounted

(* The pass ends or begins; the layers stay. *)
LEMMA PassTurns ==
    ASSUME MemoryInv, MemoryTyped', PassOK', UNCHANGED <<unseen, made, condensed>>, l0' \subseteq l0,
           \A f \in Observations : torn'[f] >= torn[f] /\ (f \in pass.wrote \ pass'.wrote => torn'[f] >= condensed[f] \/ f \notin l0')
    PROVE  MemoryInv'
<1>1. ASSUME NEW f \in Observations PROVE Accounted(f)'
  <2>1. Accounted(f) /\ condensed[f] \in Nat /\ torn[f] \in Nat /\ torn'[f] \in Nat /\ torn'[f] >= torn[f]
    BY DEF MemoryInv, MemoryTyped
  <2>2. f \in l0' /\ f \notin pass'.wrote => condensed[f] <= torn'[f]
    BY <2>1 DEF Accounted
  <2>3. QED
    BY <2>1, <2>2 DEF Accounted
<1>2. QED
  BY <1>1 DEF MemoryInv

LEMMA ObserveInv == ASSUME MemoryInv, NEW f \in Observations, Observe(f) PROVE MemoryInv'
<1>1. MemoryTyped' /\ PassOK'
  BY DEF Observe, MemoryInv, MemoryTyped, PassOK
<1>2. ASSUME NEW g \in Observations PROVE Accounted(g)'
  <2>1. Accounted(g) /\ condensed[g] \in Nat /\ torn[g] \in Nat
    BY DEF MemoryInv, MemoryTyped
  <2>2. QED
    BY <2>1 DEF Observe, Accounted
<1>3. QED
  BY <1>1, <1>2 DEF MemoryInv

LEMMA ConsolidateInv == ASSUME MemoryInv, Consolidate PROVE MemoryInv'
<1>1. {SceneOf[f] : f \in l0} \subseteq Scenes /\ l0 \subseteq Observations
  BY DEF MemoryInv, MemoryTyped, Scenes
<1>2. Asleep \in Pass
  BY DEF Asleep, Pass
<1>3. pass' \in Pass /\ pass'.answer = {} /\ pass'.wrote = {} /\ pass'.rows \subseteq l0
  BY <1>1, <1>2 DEF Consolidate, Asleep, Pass
<1>4. pass.wrote = {}
  BY DEF Consolidate, PassAt, MemoryInv, PassOK
<1>5. MemoryTyped' /\ PassOK'
  BY <1>3 DEF Consolidate, MemoryInv, MemoryTyped, PassOK
<1>6. QED
  BY <1>4, <1>5, PassTurns DEF Consolidate, MemoryInv, MemoryTyped

LEMMA AnswerInv == ASSUME MemoryInv, Answer PROVE MemoryInv'
<1>1. PICK scene \in pass.scenes : \E facts :
        /\ \A f \in facts : f \in pass.rows /\ SceneOf[f] = scene
        /\ pass' = [pass EXCEPT !.scenes = pass.scenes \ {scene}, !.answer = facts]
  BY Zenon DEF Answer
<1>2. PICK facts :
        /\ \A f \in facts : f \in pass.rows /\ SceneOf[f] = scene
        /\ pass' = [pass EXCEPT !.scenes = pass.scenes \ {scene}, !.answer = facts]
  BY <1>1, Zenon
<1>3. pass \in Pass /\ pass.rows \subseteq Observations
  BY DEF MemoryInv, MemoryTyped, Pass
<1>4. /\ pass' \in Pass /\ pass'.answer = facts /\ pass'.wrote = pass.wrote /\ pass'.rows = pass.rows
      /\ pass'.at = pass.at /\ pass'.scenes = pass.scenes \ {scene}
  <2>1. facts \in SUBSET Observations /\ pass.scenes \ {scene} \in SUBSET Scenes
    BY <1>2, <1>3 DEF Pass
  <2>2. QED
    BY <1>2, <1>3, <2>1 DEF Pass
<1>5. PassOK'
  <2>1. /\ facts \subseteq pass.rows /\ (\A f \in facts : SceneOf[f] = scene)
        /\ pass.answer = {} /\ pass.at = "model" /\ l0' = l0 /\ PassOK
    BY <1>2 DEF Answer, PassAt, MemoryInv
  <2>2. \A f \in facts \cup pass.wrote : SceneOf[f] \notin pass.scenes \ {scene}
    BY <2>1 DEF PassOK
  <2>3. QED
    BY <1>4, <2>1, <2>2 DEF PassOK
<1>6. MemoryTyped'
  BY <1>4 DEF Answer, MemoryInv, MemoryTyped
<1>7. QED
  BY <1>4, <1>5, <1>6, PassTurns DEF Answer, MemoryInv, MemoryTyped

LEMMA WriteAtomInv == ASSUME MemoryInv, WriteAtom PROVE MemoryInv'
<1>1. PICK f \in pass.answer : \E lines \in {{}, {f}} :
        /\ made' = [made EXCEPT ![f] = @ + 1]
        /\ condensed' = [condensed EXCEPT ![f] = IF f \in pass.wrote THEN @ ELSE @ + 1]
        /\ pass' = [pass EXCEPT !.answer = (pass.answer \ {f}) \cup lines, !.wrote = pass.wrote \cup {f}]
  BY Zenon DEF WriteAtom
<1>2. /\ pass \in Pass /\ f \in Observations /\ f \in l0 /\ f \notin unseen
      /\ made \in [Observations -> Nat] /\ condensed \in [Observations -> Nat] /\ torn \in [Observations -> Nat]
  BY DEF MemoryInv, MemoryTyped, PassOK
<1>3. PICK unwritten \in SUBSET pass.answer :
        pass' = [pass EXCEPT !.answer = unwritten, !.wrote = pass.wrote \cup {f}]
  BY <1>1
<1>4. /\ pass' \in Pass /\ pass'.answer = unwritten /\ pass'.wrote = pass.wrote \cup {f}
      /\ pass'.rows = pass.rows /\ pass'.at = pass.at /\ pass'.scenes = pass.scenes
  <2>1. unwritten \in SUBSET Observations /\ pass.wrote \cup {f} \in SUBSET Observations
    BY <1>2 DEF Pass
  <2>2. QED
    BY <1>2, <1>3, <2>1 DEF Pass
<1>5. PassOK'
  BY <1>1, <1>2, <1>4 DEF WriteAtom, PassAt, MemoryInv, PassOK
<1>6. /\ made' \in [Observations -> Nat] /\ condensed' \in [Observations -> Nat]
      /\ condensed'[f] = IF f \in pass.wrote THEN condensed[f] ELSE condensed[f] + 1
      /\ \A g \in Observations \ {f} : condensed'[g] = condensed[g]
  BY <1>1, <1>2
<1>7. MemoryTyped'
  BY <1>4, <1>6 DEF WriteAtom, MemoryInv, MemoryTyped
<1>8. ASSUME NEW g \in Observations PROVE Accounted(g)'
  <2>1. Accounted(g) /\ condensed[g] \in Nat /\ torn[g] \in Nat
    BY DEF MemoryInv, MemoryTyped
  <2>2. QED
    BY <1>2, <1>4, <1>6, <2>1 DEF WriteAtom, Accounted
<1>9. QED
  BY <1>5, <1>7, <1>8 DEF MemoryInv

(* A pass that breaks off counts as torn for what it wrote. *)
LEMMA TornInv == ASSUME MemoryInv, BreaksOff, UNCHANGED <<unseen, l0, made, condensed>>,
                        pass' \in Pass, pass'.rows = {}, pass'.answer = {}, pass'.wrote = {}
                 PROVE  MemoryInv'
<1>1. torn \in [Observations -> Nat] /\ condensed \in [Observations -> Nat]
  BY DEF MemoryInv, MemoryTyped
<1>2. torn' \in [Observations -> Nat]
  BY <1>1 DEF BreaksOff
<1>3. MemoryTyped' /\ PassOK'
  BY <1>2 DEF MemoryInv, MemoryTyped, PassOK
<1>4. \A f \in Observations : torn'[f] >= torn[f] /\ (f \in pass.wrote => torn'[f] >= condensed[f])
  BY <1>1 DEF BreaksOff, MemoryInv, Accounted
<1>5. QED
  BY <1>3, <1>4, PassTurns

LEMMA BrokenPassInv == ASSUME MemoryInv, FallsBack \/ MemoryRestarts PROVE MemoryInv'
<1>1. Asleep \in Pass /\ [Asleep EXCEPT !.at = "sort"] \in Pass
  BY DEF Asleep, Pass
<1>2. pass' \in Pass /\ pass'.rows = {} /\ pass'.answer = {} /\ pass'.wrote = {}
  BY <1>1 DEF FallsBack, MemoryRestarts, Asleep
<1>3. QED
  BY <1>2, TornInv DEF FallsBack, MemoryRestarts

LEMMA ClearInv == ASSUME MemoryInv, Clear \/ SortFails PROVE MemoryInv'
<1>1. pass' \in Pass /\ pass'.rows = {} /\ pass'.answer = {} /\ pass'.wrote = {}
  BY DEF Clear, SortFails, Asleep, Pass
<1>2. MemoryTyped' /\ PassOK'
  BY <1>1 DEF Clear, Cleared, SortFails, MemoryInv, MemoryTyped, PassOK
<1>3. l0' = {} \/ pass.wrote = {}
  BY DEF Clear, Cleared, SortFails, PassAt, MemoryInv, PassOK
<1>4. QED
  BY <1>1, <1>2, <1>3, PassTurns DEF Clear, Cleared, SortFails, MemoryInv, MemoryTyped

LEMMA SortInv == ASSUME MemoryInv, Sort PROVE MemoryInv'
<1>1. pass' \in Pass /\ pass'.rows = {} /\ pass'.answer = {} /\ pass'.wrote = {}
  BY DEF Sort, Asleep, Pass
<1>2. /\ made \in [Observations -> Nat] /\ condensed \in [Observations -> Nat]
      /\ torn \in [Observations -> Nat] /\ pass.wrote = {}
      /\ unseen \cap l0 = {}
  BY DEF Sort, PassAt, MemoryInv, MemoryTyped, PassOK
<1>3. /\ made' \in [Observations -> Nat] /\ condensed' \in [Observations -> Nat]
      /\ \A f \in Observations : condensed'[f] = IF f \in l0 \cap Weighty THEN condensed[f] + 1 ELSE condensed[f]
  BY <1>2 DEF Sort
<1>4. MemoryTyped' /\ PassOK'
  BY <1>1, <1>3 DEF Sort, MemoryInv, MemoryTyped, PassOK
<1>5. ASSUME NEW f \in Observations PROVE Accounted(f)'
  BY <1>2, <1>3 DEF Sort, MemoryInv, Accounted
<1>6. QED
  BY <1>4, <1>5 DEF MemoryInv

LEMMA MemoryStep == ASSUME MemoryInv, [MemoryNext]_memoryVars PROVE MemoryInv'
<1>1. CASE UNCHANGED <<unseen, l0, made, condensed, torn, pass>>
  BY <1>1 DEF MemoryInv, MemoryTyped, PassOK, Accounted
<1>2. QED
  BY <1>1, ObserveInv, ConsolidateInv, AnswerInv, WriteAtomInv, ClearInv, BrokenPassInv, SortInv
     DEF MemoryNext, memoryVars, Touch, Query, Age

(* Whatever is observed while a pass runs, however often it breaks off and *)
(* is begun again: an observation is condensed once more, at most, than    *)
(* passes that wrote of it broke off.                                      *)
THEOREM CondensedOnce == MemorySpec => []OnceUnlessTorn
<1>1. MemorySpec => []MemoryInv
  BY MemoryInitInv, MemoryStep, PTL DEF MemorySpec
<1>2. MemoryInv => OnceUnlessTorn
  BY DEF MemoryInv, Accounted, OnceUnlessTorn
<1>3. QED
  BY <1>1, <1>2, PTL

(* The statements that fail and the atoms that are made are counted, and   *)
(* an atom is numbered as it was made.                                     *)
AtomsNumbered == \A a \in atoms : a[1] \in Observations /\ a[2] \in 1..made[a[1]]
SlipsCounted == slips \in 0..MaxSlips /\ \A f \in Observations : torn[f] <= slips /\ condensed[f] <= made[f] /\ made[f] <= MaxAtoms
MemoryBounds == MemoryInv /\ SlipsCounted /\ AtomsNumbered /\ cold \subseteq atoms

LEMMA MemoryBoundsInit == MemoryInit => MemoryBounds
<1>1. ASSUME MemoryInit PROVE SlipsCounted /\ AtomsNumbered /\ cold \subseteq atoms
  BY <1>1, MemoryAssumption DEF MemoryInit, SlipsCounted, AtomsNumbered
<1>2. QED
  BY <1>1, MemoryInitInv DEF MemoryBounds

LEMMA NewAtomIs == ASSUME NEW f PROVE NewAtom(f)[1] = f /\ NewAtom(f)[2] = made[f] + 1
BY DEF NewAtom

LEMMA WriteAtomBounds == ASSUME MemoryBounds, WriteAtom PROVE SlipsCounted' /\ AtomsNumbered' /\ cold' \subseteq atoms'
<1>1. PICK f \in pass.answer : /\ made[f] < MaxAtoms
                               /\ atoms' = atoms \cup {NewAtom(f)}
                               /\ made' = [made EXCEPT ![f] = made[f] + 1]
                               /\ condensed' = [condensed EXCEPT ![f] = IF f \in pass.wrote THEN @ ELSE @ + 1]
  BY Zenon DEF WriteAtom
<1>2. /\ f \in Observations /\ MaxAtoms \in Nat
      /\ made \in [Observations -> Nat] /\ condensed \in [Observations -> Nat]
      /\ torn \in [Observations -> Nat] /\ slips \in 0..MaxSlips /\ MaxSlips \in Nat
  BY MemoryAssumption DEF MemoryBounds, MemoryInv, MemoryTyped, PassOK, SlipsCounted
<1>3. /\ made'[f] = made[f] + 1 /\ condensed'[f] <= condensed[f] + 1
      /\ \A g \in Observations \ {f} : made'[g] = made[g] /\ condensed'[g] = condensed[g]
  BY <1>1, <1>2
<1>4. slips' = slips /\ torn' = torn /\ cold' = cold
  BY DEF WriteAtom
<1>5. SlipsCounted'
  <2>1. ASSUME NEW g \in Observations PROVE torn'[g] <= slips' /\ condensed'[g] <= made'[g] /\ made'[g] <= MaxAtoms
    <3>1. torn[g] <= slips /\ condensed[g] <= made[g] /\ made[g] <= MaxAtoms
          /\ made[g] \in Nat /\ condensed[g] \in Nat
      BY <1>2 DEF MemoryBounds, SlipsCounted
    <3>2. CASE g = f
      BY <1>1, <1>2, <1>3, <1>4, <3>1, <3>2
    <3>3. CASE g # f
      BY <1>3, <1>4, <3>1, <3>3
    <3>4. QED
      BY <3>2, <3>3
  <2>2. QED
    BY <1>2, <1>4, <2>1 DEF SlipsCounted
<1>6. AtomsNumbered'
  <2>1. ASSUME NEW a \in atoms' PROVE a[1] \in Observations /\ a[2] \in 1..made'[a[1]]
    <3>1. CASE a = NewAtom(f)
      <4>1. a[1] = f /\ a[2] = made[f] + 1
        BY <3>1, NewAtomIs
      <4>2. made[f] + 1 \in 1..(made[f] + 1)
        BY <1>2
      <4>3. QED
        BY <1>2, <1>3, <4>1, <4>2
    <3>2. CASE a \in atoms
      <4>1. a[1] \in Observations /\ a[2] \in 1..made[a[1]]
        BY <3>2 DEF MemoryBounds, AtomsNumbered
      <4>2. made'[a[1]] \in {made[a[1]], made[a[1]] + 1} /\ made[a[1]] \in Nat
        BY <1>2, <1>3, <4>1
      <4>3. QED
        BY <4>1, <4>2
    <3>3. QED
      BY <1>1, <3>1, <3>2
  <2>2. QED
    BY <2>1 DEF AtomsNumbered
<1>7. QED
  BY <1>1, <1>4, <1>5, <1>6 DEF MemoryBounds

LEMMA SortBounds == ASSUME MemoryBounds, Sort PROVE SlipsCounted' /\ AtomsNumbered' /\ cold' \subseteq atoms'
<1> DEFINE now == l0 \cap Weighty
<1>1. /\ MaxAtoms \in Nat /\ l0 \subseteq Observations
      /\ made \in [Observations -> Nat] /\ condensed \in [Observations -> Nat]
      /\ torn \in [Observations -> Nat] /\ slips \in 0..MaxSlips /\ MaxSlips \in Nat
  BY MemoryAssumption DEF MemoryBounds, MemoryInv, MemoryTyped, SlipsCounted
<1>2. /\ \A f \in now : made[f] < MaxAtoms
      /\ atoms' = (atoms \ cold) \cup {NewAtom(f) : f \in now}
      /\ cold' = {} /\ torn' = torn /\ slips' = slips
  BY DEF Sort
<1>3. /\ made' = [f \in Observations |-> IF f \in now THEN made[f] + 1 ELSE made[f]]
      /\ condensed' = [f \in Observations |-> IF f \in now THEN condensed[f] + 1 ELSE condensed[f]]
  BY DEF Sort
<1> HIDE DEF now
<1>4. \A f \in Observations : /\ made'[f] = IF f \in now THEN made[f] + 1 ELSE made[f]
                              /\ condensed'[f] = IF f \in now THEN condensed[f] + 1 ELSE condensed[f]
  BY <1>3
<1>5. SlipsCounted'
  BY <1>1, <1>2, <1>4 DEF MemoryBounds, SlipsCounted
<1>6. ASSUME NEW a \in atoms' PROVE a[1] \in Observations /\ a[2] \in 1..made'[a[1]]
  <2>1. CASE a \in atoms
    <3>1. a[1] \in Observations /\ a[2] \in 1..made[a[1]]
      BY <2>1 DEF MemoryBounds, AtomsNumbered
    <3>2. made'[a[1]] \in {made[a[1]], made[a[1]] + 1} /\ made[a[1]] \in Nat
      BY <1>1, <1>4, <3>1
    <3>3. QED
      BY <3>1, <3>2
  <2>2. CASE \E f \in now : a = NewAtom(f)
    <3>1. PICK f \in now : a = NewAtom(f)
      BY <2>2
    <3>2. f \in Observations
      BY <1>1 DEF now
    <3>3. a[1] = f /\ a[2] = made[f] + 1 /\ made'[f] = made[f] + 1 /\ made[f] \in Nat
      BY <1>1, <1>4, <3>1, <3>2, NewAtomIs
    <3>4. QED
      BY <3>2, <3>3
  <2>3. QED
    BY <1>2, <2>1, <2>2
<1>7. QED
  BY <1>2, <1>5, <1>6 DEF AtomsNumbered

(* A pass that breaks off is a statement that fails. *)
LEMMA BreaksOffBounds ==
    ASSUME MemoryBounds, BreaksOff, slips < MaxSlips, slips' = slips + 1, UNCHANGED <<made, condensed, atoms, cold>>
    PROVE  SlipsCounted' /\ AtomsNumbered' /\ cold' \subseteq atoms'
<1>1. torn \in [Observations -> Nat] /\ slips \in 0..MaxSlips /\ MaxSlips \in Nat
  BY MemoryAssumption DEF MemoryBounds, MemoryInv, MemoryTyped, SlipsCounted
<1>2. \A f \in Observations : torn'[f] \in {torn[f], torn[f] + 1}
  BY DEF BreaksOff
<1>3. ASSUME NEW f \in Observations PROVE torn'[f] <= slips' /\ condensed'[f] <= made'[f] /\ made'[f] <= MaxAtoms
  BY <1>1, <1>2 DEF MemoryBounds, SlipsCounted
<1>4. SlipsCounted'
  BY <1>1, <1>3 DEF SlipsCounted
<1>5. QED
  BY <1>4 DEF MemoryBounds, AtomsNumbered

LEMMA MemoryBoundsStep == ASSUME MemoryBounds, [MemoryNext]_memoryVars PROVE MemoryBounds'
<1>1. MemoryInv'
  BY MemoryStep DEF MemoryBounds
<1>2. slips \in 0..MaxSlips /\ MaxSlips \in Nat /\ cold \subseteq atoms
      /\ torn \in [Observations -> Nat]
  BY MemoryAssumption DEF MemoryBounds, SlipsCounted, MemoryInv, MemoryTyped
<1>3. CASE UNCHANGED <<made, condensed, torn, atoms>> /\ cold' \subseteq atoms /\ slips' = slips
  BY <1>1, <1>3 DEF MemoryBounds, SlipsCounted, AtomsNumbered
<1>4. CASE SortFails
  <2>1. UNCHANGED <<made, condensed, torn, atoms, cold>> /\ slips' \in 0..MaxSlips /\ slips' >= slips
    BY <1>2, <1>4 DEF SortFails
  <2>2. ASSUME NEW f \in Observations PROVE torn'[f] <= slips' /\ condensed'[f] <= made'[f] /\ made'[f] <= MaxAtoms
    BY <1>2, <2>1 DEF MemoryBounds, SlipsCounted
  <2>3. SlipsCounted'
    BY <2>1, <2>2 DEF SlipsCounted
  <2>4. QED
    BY <1>1, <2>1, <2>3 DEF MemoryBounds, AtomsNumbered
<1>5. CASE FallsBack \/ MemoryRestarts
  BY <1>1, <1>5, BreaksOffBounds DEF FallsBack, MemoryRestarts, MemoryBounds
<1>6. CASE WriteAtom \/ Sort
  BY <1>1, <1>6, WriteAtomBounds, SortBounds DEF MemoryBounds
<1>7. QED
  BY <1>2, <1>3, <1>4, <1>5, <1>6
     DEF MemoryNext, memoryVars, Observe, Consolidate, Answer, Clear, Query, Touch, Age

LEMMA MemoryIsTyped == ASSUME MemoryBounds PROVE MemoryTypes
<1>1. MemoryTyped /\ PassOK /\ SlipsCounted /\ AtomsNumbered /\ cold \subseteq atoms
  BY DEF MemoryBounds, MemoryInv
<1>2. made \in [Observations -> 0..MaxAtoms] /\ condensed \in [Observations -> 0..MaxAtoms]
  BY <1>1, MemoryAssumption DEF MemoryTyped, SlipsCounted
<1>3. torn \in [Observations -> 0..MaxSlips]
  <2>1. ASSUME NEW f \in Observations PROVE torn[f] \in 0..MaxSlips
    BY <1>1, MemoryAssumption DEF MemoryTyped, SlipsCounted
  <2>2. QED
    BY <1>1, <2>1 DEF MemoryTyped
<1>4. pass.at \in {"asleep", "model", "sort"}
  BY <1>1 DEF MemoryTyped, Pass
<1>5. QED
  BY <1>1, <1>2, <1>3, <1>4 DEF MemoryTypes, MemoryTyped, PassOK, AtomsNumbered

(* The types of the layers and of the pass (api/agent/memory.py): atoms    *)
(* are numbered as they were made, and none is cold that is not there.     *)
THEOREM MemoryTypeCorrect == MemorySpec => []MemoryTypes
<1>1. MemorySpec => []MemoryBounds
  BY MemoryBoundsInit, MemoryBoundsStep, PTL DEF MemorySpec
<1>2. QED
  BY <1>1, MemoryIsTyped, PTL

-----------------------------------------------------------------------------
(* The mail sources                                                        *)

\* Who is asked next, after n of them.
NextTurn(n) == ask.list[(n % Len(ask.list)) + 1]

MailInv ==
    /\ ask.at # "idle" => Len(ask.list) \in 1..Attempts /\ DOMAIN ask.list = 1..Len(ask.list)
    /\ ask.n \in Nat
    /\ ask.at \in {"asking", "failed"} => \A i \in Nat : i < ask.n => NextTurn(i) \in ask.tried
    /\ ask.at = "failed" => ask.n = Attempts
    /\ kind \in LineUps

\* A pool has as many sources as its line-up names.
LEMMA SourcesAreFew == ASSUME kind \in LineUps
                       PROVE  IsFiniteSet(S) /\ S # {} /\ Cardinality(S) \in 1..Attempts
<1>1. kind \in Seq(STRING) /\ Len(kind) \in 1..Attempts /\ S = 1..Len(kind) /\ Len(kind) \in Nat
  BY MailAssumption, LenProperties DEF S
<1>2. IsFiniteSet(S) /\ Cardinality(S) = Len(kind)
  BY <1>1, FS_Interval
<1>3. QED
  BY <1>1, <1>2

LEMMA MailInitInv == MailInit => MailInv
<1>1. ASSUME MailInit PROVE ask.at = "idle" /\ ask.n = 0 /\ kind \in LineUps
  BY <1>1 DEF MailInit, NoAllocation
<1>2. QED
  BY <1>1 DEF MailInv

LEMMA AllocateInv == ASSUME MailInv, Allocate PROVE MailInv'
<1> DEFINE set == Asked
           n == Cardinality(set)
<1>1. set \subseteq S /\ set # {}
  BY SourcesAreFew DEF Asked, Awake, MailInv
<1>2. IsFiniteSet(set) /\ n \in Nat /\ n # 0 /\ n <= Attempts
  <2>1. IsFiniteSet(S) /\ Cardinality(S) <= Attempts /\ Cardinality(S) \in Nat /\ Attempts \in Nat
    BY SourcesAreFew, MailAssumption DEF MailInv
  <2>2. IsFiniteSet(set) /\ n <= Cardinality(S)
    BY <1>1, <2>1, FS_Subset
  <2>3. n \in Nat /\ n # 0
    <3>1. Cardinality(set) \in Nat
      BY <2>2, FS_CardinalityType
    <3>2. Cardinality(set) # 0
      BY <1>1, <2>2, FS_EmptySet
    <3>3. QED
      BY <3>1, <3>2
  <2>4. QED
    BY <2>1, <2>2, <2>3
<1>3. PICK list \in Ranked(set) : ask' = Asking(list)
  BY DEF Allocate
<1> HIDE DEF set
<1>4. list \in [1..n -> set]
  BY <1>3 DEF Ranked
<1>5. list \in Seq(set) /\ Len(list) = n /\ DOMAIN list = 1..n
  BY <1>2, <1>4, IsASeq, LenProperties
<1>6. ask'.at = "asking" /\ ask'.list = list /\ ask'.n = 0
  BY <1>3 DEF Asking, NoAllocation
<1>7. \A i \in Nat : ~(i < 0)
  OBVIOUS
<1>8. QED
  BY <1>2, <1>5, <1>6, <1>7 DEF Allocate, mailSources, MailInv

(* A source that disappoints is the one whose turn it was. *)
LEMMA DisappointsInv ==
    ASSUME MailInv, NEW s, ask.at = "asking", s = Turn, Disappoints(s), kind' = kind
    PROVE  MailInv'
<1>1. /\ ask'.list = ask.list /\ ask'.n = ask.n + 1 /\ ask'.tried = ask.tried \cup {s} /\ ask'.at = ask.at
  BY DEF Disappoints, MailInv
<1>2. ask.n \in Nat /\ s = NextTurn(ask.n) /\ \A i \in Nat : i < ask.n => NextTurn(i) \in ask.tried
  BY DEF MailInv, Turn, NextTurn
<1>3. \A i : NextTurn(i)' = NextTurn(i)
  BY <1>1 DEF NextTurn
<1>4. ASSUME NEW i \in Nat, i < ask'.n PROVE NextTurn(i) \in ask'.tried
  <2>1. i = ask.n \/ i < ask.n
    BY <1>1, <1>2, <1>4
  <2>2. QED
    BY <1>1, <1>2, <2>1
<1>5. /\ Len(ask'.list) \in 1..Attempts /\ DOMAIN ask'.list = 1..Len(ask'.list)
      /\ ask'.n \in Nat /\ ask'.at = "asking" /\ kind' \in LineUps
  BY <1>1, <1>2 DEF MailInv
<1>6. QED
  BY <1>3, <1>4, <1>5 DEF MailInv

(* Whatever a service answers, its source disappoints or the allocation ends. *)
LEMMA AskAnswered ==
    ASSUME NEW s, Raises(s) \/ Limited(s) \/ \E key \in BOOLEAN : Gives(s, key)
    PROVE  kind' = kind /\ (Disappoints(s) \/ ask' = [ask EXCEPT !.at = "given"])
<1>1. CASE Raises(s) \/ Limited(s)
  BY <1>1 DEF Raises, Limited
<1>2. ASSUME NEW key \in BOOLEAN, Gives(s, key)
      PROVE  kind' = kind /\ (Disappoints(s) \/ ask' = [ask EXCEPT !.at = "given"])
  <2>1. /\ kind' = kind
        /\ \E a \in Names : Disappoints(s) \/ ask' = [ask EXCEPT !.at = "given"]
    BY <1>2, Zenon DEF Gives
  <2>2. QED
    BY <2>1
<1>3. QED
  BY <1>1, <1>2

LEMMA NewAddressInv == ASSUME MailInv, NEW s \in S, NewAddress(s) PROVE MailInv'
<1>1. Raises(s) \/ Limited(s) \/ \E key \in BOOLEAN : Gives(s, key)
  BY Zenon DEF NewAddress, Imap, Linshi, TempTf, MailTm, MailGw, Guerrilla, Do22, TempMail, TempMailIo
<1>2. \E k : Asks(s, k)
  BY Zenon DEF NewAddress, Imap, Linshi, TempTf, MailTm, MailGw, Guerrilla, Do22, TempMail, TempMailIo
<1>3. ask.at = "asking" /\ s = Turn
  BY <1>2, Zenon DEF Asks
<1>4. CASE Disappoints(s)
  BY <1>1, <1>3, <1>4, AskAnswered, DisappointsInv
<1>5. CASE ask' = [ask EXCEPT !.at = "given"]
  BY <1>1, <1>3, <1>5, AskAnswered DEF MailInv
<1>6. QED
  BY <1>1, <1>4, <1>5, AskAnswered

LEMMA MailStep == ASSUME MailInv, [MailNext]_mailVars PROVE MailInv'
<1>1. CASE UNCHANGED <<ask, kind>>
  BY <1>1 DEF MailInv, NextTurn
<1>2. CASE kind' = kind /\ ask' = NoAllocation
  BY <1>2 DEF MailInv, NoAllocation
<1>3. CASE NoneLeft
  <2>1. ask' = [ask EXCEPT !.at = "failed"] /\ ask.at = "asking" /\ ask.n = Attempts /\ kind' = kind
    BY <1>3 DEF NoneLeft, mailSources
  <2>2. /\ ask'.list = ask.list /\ ask'.n = ask.n /\ ask'.tried = ask.tried /\ ask'.at = "failed"
    BY <2>1 DEF MailInv
  <2>3. QED
    BY <2>1, <2>2 DEF MailInv, NextTurn
<1>4. QED
  BY <1>1, <1>2, <1>3, AllocateInv, NewAddressInv
     DEF MailNext, mailVars, mailSources, Arrives, Poll, AllocationEnds, MailRestarts, Tick, ListAges

\* In the first round, source number i is asked after i - 1 others.
LEMMA TurnOf == ASSUME NEW n \in Nat, NEW i \in 1..n PROVE ((i - 1) % n) + 1 = i
<1>1. ASSUME NEW j \in Nat, NEW m \in Nat, j < m PROVE j % m = j
  BY <1>1
<1>2. i - 1 \in Nat /\ i - 1 < n
  OBVIOUS
<1>3. (i - 1) % n = i - 1
  BY <1>1, <1>2
<1>4. QED
  BY <1>3

(* Whatever the line-up, the scores and the failures: an allocation that   *)
(* ends without an address has been disappointed by every source it could  *)
(* ask.                                                                    *)
THEOREM AllAreAsked == MailSpec => []FailsAfterAll
<1>1. MailSpec => []MailInv
  BY MailInitInv, MailStep, PTL DEF MailSpec
<1>2. MailInv => FailsAfterAll
  <2>1. SUFFICES ASSUME MailInv, ask.at = "failed", NEW s \in ToSet(ask.list) PROVE s \in ask.tried
    BY DEF FailsAfterAll
  <2> DEFINE n == Len(ask.list)
  <2>2. n \in Nat /\ n > 0 /\ n <= ask.n /\ DOMAIN ask.list = 1..n
    BY <2>1, MailAssumption DEF MailInv
  <2>3. PICK i \in 1..n : s = ask.list[i]
    BY <2>1, <2>2 DEF ToSet
  <2> HIDE DEF n
  <2>4. i - 1 \in Nat /\ i - 1 < n /\ ((i - 1) % n) + 1 = i
    <3>1. n \in Nat
      BY <2>2
    <3>2. ((i - 1) % n) + 1 = i
      BY <3>1, TurnOf
    <3>3. i - 1 \in Nat /\ i - 1 < n
      BY <2>3, <3>1
    <3>4. QED
      BY <3>2, <3>3
  <2>5. NextTurn(i - 1) = s
    BY <2>3, <2>4, Zenon DEF NextTurn, n
  <2>6. i - 1 < ask.n
    BY <2>1, <2>2, <2>4 DEF MailInv
  <2>7. QED
    BY <2>1, <2>4, <2>5, <2>6 DEF MailInv
<1>3. QED
  BY <1>1, <1>2, PTL

(* The counters of the sources stay within their bounds. *)
SourcesTyped ==
    /\ missed \in [S -> 0..MaxFails] /\ wins \in [S -> 0..MaxFails] /\ rest \in [S -> 0..MaxFails]
    /\ gap \in [S -> 0..Gap] /\ listed \in [S -> BOOLEAN]
AskTyped == ask.at \in {"idle", "asking", "given", "failed"} /\ ask.n \in 0..Attempts
BoxTyped == {"from", "polls"} \subseteq DOMAIN box /\ box.from \in S \cup {0} /\ box.polls \in 0..Polls
MailTyped == MailInv /\ SourcesTyped /\ spent \subseteq Names /\ AskTyped /\ BoxTyped

LEMMA CountedType == ASSUME NEW n \in Nat PROVE Counted(n) \in 0..MaxFails
BY MailAssumption DEF Counted

LEMMA OneChanges == ASSUME NEW D, NEW T, NEW f \in [D -> T], NEW x, NEW v \in T PROVE [f EXCEPT ![x] = v] \in [D -> T]
OBVIOUS

LEMMA StartTyped ==
    ASSUME NEW D PROVE /\ [x \in D |-> 0] \in [D -> 0..MaxFails] /\ [x \in D |-> 0] \in [D -> 0..Gap]
                       /\ [x \in D |-> FALSE] \in [D -> BOOLEAN]
<1>1. 0 \in 0..MaxFails /\ 0 \in 0..Gap
  BY MailAssumption
<1>2. QED
  BY <1>1

LEMMA NobodyTyped == /\ NoAllocation.at = "idle" /\ NoAllocation.n = 0 /\ 0 \in 0..Attempts
                     /\ {"from", "polls"} \subseteq DOMAIN NoBox /\ NoBox.from = 0 /\ NoBox.polls = 0 /\ 0 \in 0..Polls
BY MailAssumption DEF NoAllocation, NoBox

LEMMA MailTypedInit == MailInit => MailTyped
<1> SUFFICES ASSUME MailInit PROVE MailTyped
  OBVIOUS
<1>1. AskTyped /\ BoxTyped
  BY NobodyTyped DEF MailInit, AskTyped, BoxTyped
<1>2. SourcesTyped
  BY StartTyped DEF MailInit, SourcesTyped
<1>3. spent \subseteq Names
  BY MailAssumption DEF MailInit
<1>4. QED
  BY <1>1, <1>2, <1>3, MailInitInv DEF MailTyped

(* A source is blamed: its cooldown is as long as it has failed. *)
LEMMA BlameTyped ==
    ASSUME SourcesTyped, NEW s \in S, NEW n \in {1, 2},
           missed' = [missed EXCEPT ![s] = Counted(missed[s] + n)],
           rest' = [rest EXCEPT ![s] = RestAfter(1, missed'[s])]
    PROVE  missed' \in [S -> 0..MaxFails] /\ rest' \in [S -> 0..MaxFails]
<1>1. missed \in [S -> 0..MaxFails] /\ rest \in [S -> 0..MaxFails] /\ MaxFails \in Nat
  BY MailAssumption DEF SourcesTyped
<1>2. missed[s] + n \in Nat
  BY <1>1
<1>3. Counted(missed[s] + n) \in 0..MaxFails
  BY <1>2, CountedType
<1>4. missed' \in [S -> 0..MaxFails] /\ missed'[s] \in 0..MaxFails
  BY <1>1, <1>3
<1>5. RestAfter(1, missed'[s]) \in 0..MaxFails
  BY <1>1, <1>4 DEF RestAfter
<1>6. QED
  BY <1>1, <1>4, <1>5, OneChanges

(* A source is praised. *)
LEMMA PraiseTyped ==
    ASSUME SourcesTyped, NEW s \in S,
           wins' = [wins EXCEPT ![s] = Counted(@ + 1)],
           missed' = [missed EXCEPT ![s] = IF @ = 0 THEN 0 ELSE @ - 1]
    PROVE  wins' \in [S -> 0..MaxFails] /\ missed' \in [S -> 0..MaxFails]
<1>1. missed \in [S -> 0..MaxFails] /\ wins \in [S -> 0..MaxFails] /\ MaxFails \in Nat
  BY MailAssumption DEF SourcesTyped
<1>2. wins[s] + 1 \in Nat
  BY <1>1
<1>3. Counted(wins[s] + 1) \in 0..MaxFails
  BY <1>2, CountedType
<1>4. (IF missed[s] = 0 THEN 0 ELSE missed[s] - 1) \in 0..MaxFails
  BY <1>1
<1>5. wins' = [wins EXCEPT ![s] = Counted(wins[s] + 1)]
  OBVIOUS
<1>6. missed' = [missed EXCEPT ![s] = IF missed[s] = 0 THEN 0 ELSE missed[s] - 1]
  OBVIOUS
<1>7. QED
  BY <1>1, <1>3, <1>4, <1>5, <1>6, OneChanges

LEMMA DisappointsTyped == ASSUME MailTyped, NEW s, ask.at = "asking", ask.n < Attempts, Disappoints(s) PROVE AskTyped'
<1>1. ask'.n = ask.n + 1 /\ ask'.at = "asking"
  BY DEF Disappoints, MailTyped, AskTyped
<1>2. QED
  BY <1>1, MailAssumption DEF MailTyped, AskTyped

(* Whatever a service answers. *)
LEMMA AnswerTyped ==
    ASSUME MailTyped, NEW s \in S, ask.at = "asking", ask.n < Attempts,
           Raises(s) \/ Limited(s) \/ \E key \in BOOLEAN : Gives(s, key)
    PROVE  /\ kind' = kind /\ spent' \subseteq Names /\ AskTyped' /\ BoxTyped'
           /\ missed' \in [S -> 0..MaxFails] /\ wins' \in [S -> 0..MaxFails] /\ rest' \in [S -> 0..MaxFails]
<1>1. SourcesTyped /\ spent \subseteq Names /\ BoxTyped
      /\ missed \in [S -> 0..MaxFails] /\ wins \in [S -> 0..MaxFails] /\ rest \in [S -> 0..MaxFails]
  BY DEF MailTyped, SourcesTyped
<1>2. ASSUME kind' = kind, box' = box PROVE BoxTyped'
  BY <1>1, <1>2 DEF BoxTyped, S
<1>3. CASE Raises(s)
  <2>1. Disappoints(s) /\ UNCHANGED <<kind, wins, spent, box>>
        /\ missed' = [missed EXCEPT ![s] = Counted(missed[s] + 1)]
        /\ rest' = [rest EXCEPT ![s] = RestAfter(1, missed'[s])]
    BY <1>3 DEF Raises
  <2>2. missed' \in [S -> 0..MaxFails] /\ rest' \in [S -> 0..MaxFails]
    BY <1>1, <2>1, BlameTyped
  <2>3. QED
    BY <1>1, <1>2, <2>1, <2>2, DisappointsTyped
<1>4. CASE Limited(s)
  <2>1. Disappoints(s) /\ UNCHANGED <<kind, wins, spent, box>>
        /\ missed' = [missed EXCEPT ![s] = Counted(missed[s] + 2)]
        /\ rest' = [rest EXCEPT ![s] = RestAfter(1, missed'[s])]
    BY <1>4 DEF Limited
  <2>2. missed' \in [S -> 0..MaxFails] /\ rest' \in [S -> 0..MaxFails]
    BY <1>1, <2>1, BlameTyped
  <2>3. QED
    BY <1>1, <1>2, <2>1, <2>2, DisappointsTyped
<1>5. CASE \E key \in BOOLEAN : Gives(s, key)
  <2>1. PICK key \in BOOLEAN : Gives(s, key)
    BY <1>5
  <2>2. PICK a \in Names :
          IF a \in spent \cup Risky
          THEN Disappoints(s) /\ UNCHANGED <<rest, missed, wins, spent, box>>
          ELSE /\ ask' = [ask EXCEPT !.at = "given"]
               /\ wins' = [wins EXCEPT ![s] = Counted(@ + 1)]
               /\ missed' = [missed EXCEPT ![s] = IF @ = 0 THEN 0 ELSE @ - 1]
               /\ spent' = spent \cup {a}
               /\ box' = [NoBox EXCEPT !.from = s, !.key = key]
               /\ UNCHANGED rest
    BY <2>1, Zenon DEF Gives
  <2>3. kind' = kind
    BY <2>1 DEF Gives
  <2>4. CASE a \in spent \cup Risky
    <3>1. Disappoints(s) /\ UNCHANGED <<rest, missed, wins, spent, box>>
      BY <2>2, <2>4, Zenon
    <3>2. QED
      BY <1>1, <1>2, <2>3, <3>1, DisappointsTyped
  <2>5. CASE a \notin spent \cup Risky
    <3>1. /\ ask' = [ask EXCEPT !.at = "given"]
          /\ wins' = [wins EXCEPT ![s] = Counted(@ + 1)]
          /\ missed' = [missed EXCEPT ![s] = IF @ = 0 THEN 0 ELSE @ - 1]
          /\ spent' = spent \cup {a}
          /\ box' = [NoBox EXCEPT !.from = s, !.key = key]
          /\ rest' = rest
      BY <2>2, <2>5, Zenon
    <3>2. wins' \in [S -> 0..MaxFails] /\ missed' \in [S -> 0..MaxFails]
      BY <1>1, <3>1, PraiseTyped
    <3>3. AskTyped'
      BY <3>1 DEF MailTyped, AskTyped
    <3>4. BoxTyped'
      <4>1. box'.from = s /\ box'.polls = 0 /\ {"from", "polls"} \subseteq DOMAIN box'
        BY <3>1 DEF NoBox
      <4>2. S' = S
        BY <2>3 DEF S
      <4>3. QED
        BY <4>1, <4>2, NobodyTyped DEF BoxTyped
    <3>5. QED
      BY <1>1, <2>3, <3>1, <3>2, <3>3, <3>4
  <2>6. QED
    BY <2>4, <2>5
<1>6. QED
  BY <1>3, <1>4, <1>5

(* The adapters: which of the services that limit them was asked, and      *)
(* whose list is fresh.                                                    *)
LEMMA AdaptersTyped ==
    ASSUME MailTyped, NEW s \in S, NewAddress(s)
    PROVE  gap' \in [S -> 0..Gap] /\ listed' \in [S -> BOOLEAN]
<1>1. gap \in [S -> 0..Gap] /\ listed \in [S -> BOOLEAN]
  BY DEF MailTyped, SourcesTyped
<1>2. gap' = gap \/ gap' = [gap EXCEPT ![s] = Gap]
  BY Zenon DEF NewAddress, Imap, Linshi, TempTf, MailTm, MailGw, Guerrilla, Do22, TempMail, TempMailIo, Spaced
<1>3. listed' = listed \/ listed' = [listed EXCEPT ![s] = TRUE]
  <2>1. MailGw(s) => listed' \in {listed, [listed EXCEPT ![s] = TRUE]}
    BY DEF MailGw
  <2>2. MailGw(s) => listed' = listed \/ listed' = [listed EXCEPT ![s] = TRUE]
    BY <2>1, Zenon
  <2>3. QED
    BY <2>2, Zenon DEF NewAddress, Imap, Linshi, TempTf, MailTm, Guerrilla, Do22, TempMail, TempMailIo, Spaced
<1>4. Gap \in 0..Gap
  BY MailAssumption
<1>5. QED
  BY <1>1, <1>2, <1>3, <1>4, OneChanges, Zenon

LEMMA NewAddressTyped == ASSUME MailTyped, NEW s \in S, NewAddress(s)
                         PROVE  SourcesTyped' /\ spent' \subseteq Names /\ AskTyped' /\ BoxTyped'
<1>1. Raises(s) \/ Limited(s) \/ \E key \in BOOLEAN : Gives(s, key)
  BY Zenon DEF NewAddress, Imap, Linshi, TempTf, MailTm, MailGw, Guerrilla, Do22, TempMail, TempMailIo
<1>2. \E k : Asks(s, k)
  BY Zenon DEF NewAddress, Imap, Linshi, TempTf, MailTm, MailGw, Guerrilla, Do22, TempMail, TempMailIo
<1>3. ask.at = "asking" /\ ask.n < Attempts
  BY <1>2, Zenon DEF Asks
<1>4. /\ kind' = kind /\ spent' \subseteq Names /\ AskTyped' /\ BoxTyped'
      /\ missed' \in [S -> 0..MaxFails] /\ wins' \in [S -> 0..MaxFails] /\ rest' \in [S -> 0..MaxFails]
  BY <1>1, <1>3, AnswerTyped
<1>5. S' = S
  BY <1>4 DEF S
<1>6. QED
  BY <1>4, <1>5, AdaptersTyped DEF SourcesTyped

LEMMA PollTyped == ASSUME MailTyped, Poll
                   PROVE  SourcesTyped' /\ spent' \subseteq Names /\ AskTyped' /\ BoxTyped'
<1>1. UNCHANGED <<kind, rest, gap, listed, spent, ask>> /\ S' = S
  BY DEF Poll, S
<1>2. SourcesTyped /\ BoxTyped /\ missed \in [S -> 0..MaxFails] /\ wins \in [S -> 0..MaxFails]
  BY DEF MailTyped, SourcesTyped
<1>3. box'.from = box.from /\ box'.polls \in 0..Polls /\ {"from", "polls"} \subseteq DOMAIN box'
  <2>1. /\ box.polls \in 0..Polls /\ box.polls < Polls /\ Polls \in Nat
        /\ "from" \in DOMAIN box /\ "polls" \in DOMAIN box
    BY <1>2, MailAssumption DEF Poll, BoxTyped
  <2>2. (\E form : box' = [box EXCEPT !.got = form]) \/ box' = [box EXCEPT !.polls = @ + 1]
    BY DEF Poll
  <2>3. QED
    BY <2>1, <2>2
<1>4. missed' \in [S -> 0..MaxFails] /\ wins' \in [S -> 0..MaxFails]
  <2>1. CASE UNCHANGED <<wins, missed>>
    BY <1>2, <2>1
  <2>2. CASE /\ wins' = [wins EXCEPT ![box.from] = Counted(@ + 1)]
             /\ missed' = [missed EXCEPT ![box.from] = IF @ = 0 THEN 0 ELSE @ - 1]
    <3>1. CASE box.from \in S
      BY <1>2, <2>2, <3>1, PraiseTyped
    <3>2. CASE box.from \notin S
      BY <1>2, <2>2, <3>2
    <3>3. QED
      BY <3>1, <3>2
  <2>3. QED
    BY <2>1, <2>2 DEF Poll
<1>5. BoxTyped'
  BY <1>1, <1>2, <1>3 DEF BoxTyped
<1>6. QED
  BY <1>1, <1>4, <1>5 DEF MailTyped, SourcesTyped, AskTyped

LEMMA MailRestartsTyped == ASSUME MailTyped, MailRestarts
                           PROVE  SourcesTyped' /\ spent' \subseteq Names /\ AskTyped' /\ BoxTyped'
<1>1. S' = S /\ ask' = NoAllocation /\ box' = NoBox
  BY DEF MailRestarts, S
<1>2. /\ rest' = [s \in S |-> 0] /\ missed' = [s \in S |-> 0] /\ wins' = [s \in S |-> 0]
      /\ gap' = [s \in S |-> 0] /\ listed' = [s \in S |-> FALSE]
  BY DEF MailRestarts
<1>3. SourcesTyped'
  BY <1>1, <1>2, StartTyped DEF SourcesTyped
<1>4. spent' \subseteq Names
  BY DEF MailRestarts, MailTyped
<1>5. QED
  BY <1>1, <1>3, <1>4, NobodyTyped DEF AskTyped, BoxTyped

LEMMA TickTyped == ASSUME MailTyped, Tick
                   PROVE  SourcesTyped' /\ spent' \subseteq Names /\ AskTyped' /\ BoxTyped'
<1>1. UNCHANGED <<kind, missed, wins, listed, spent, ask, box>> /\ S' = S
      /\ rest' = [s \in S |-> Less(rest[s])] /\ gap' = [s \in S |-> Less(gap[s])]
  BY DEF Tick, S
<1>2. \A m \in Nat : \A n \in 0..m : Less(n) \in 0..m
  BY DEF Less
<1>3. rest \in [S -> 0..MaxFails] /\ gap \in [S -> 0..Gap] /\ MaxFails \in Nat /\ Gap \in Nat
  BY MailAssumption DEF MailTyped, SourcesTyped
<1>4. rest' \in [S -> 0..MaxFails] /\ gap' \in [S -> 0..Gap]
  <2>1. ASSUME NEW s \in S PROVE Less(rest[s]) \in 0..MaxFails /\ Less(gap[s]) \in 0..Gap
    BY <1>2, <1>3
  <2>2. QED
    BY <1>1, <2>1
<1>5. QED
  BY <1>1, <1>4 DEF MailTyped, SourcesTyped, AskTyped, BoxTyped

LEMMA OthersTyped ==
    ASSUME MailTyped,
           \/ Allocate \/ NoneLeft \/ Arrives \/ AllocationEnds \/ UNCHANGED mailVars
           \/ \E s \in S : ListAges(s)
    PROVE  SourcesTyped' /\ spent' \subseteq Names /\ AskTyped' /\ BoxTyped'
<1>1. UNCHANGED <<kind, rest, missed, wins, gap, spent>> /\ S' = S
  BY DEF Allocate, NoneLeft, Arrives, AllocationEnds, ListAges, mailVars, mailSources, S
<1>2. listed' \in [S -> BOOLEAN]
  <2>1. listed' = listed \/ \E s \in S : listed' = [listed EXCEPT ![s] = FALSE]
    BY DEF Allocate, NoneLeft, Arrives, AllocationEnds, ListAges, mailVars, mailSources
  <2>2. listed \in [S -> BOOLEAN]
    BY DEF MailTyped, SourcesTyped
  <2>3. QED
    BY <2>1, <2>2
<1>3. AskTyped'
  <2>1. CASE Allocate
    <3>1. PICK list : ask' = Asking(list)
      BY <2>1 DEF Allocate
    <3>2. ask'.at = "asking" /\ ask'.n = 0
      BY <3>1 DEF Asking, NoAllocation
    <3>3. QED
      BY <3>2, NobodyTyped DEF AskTyped
  <2>2. CASE NoneLeft
    <3>1. ask'.at = "failed" /\ ask'.n = ask.n
      BY <2>2 DEF NoneLeft, MailTyped, AskTyped
    <3>2. QED
      BY <3>1 DEF MailTyped, AskTyped
  <2>3. CASE AllocationEnds
    BY <2>3, NobodyTyped DEF AllocationEnds, AskTyped
  <2>4. CASE Arrives \/ UNCHANGED mailVars \/ \E s \in S : ListAges(s)
    BY <2>4 DEF Arrives, ListAges, mailVars, MailTyped, AskTyped
  <2>5. QED
    BY <2>1, <2>2, <2>3, <2>4
<1>4. BoxTyped'
  <2>1. CASE box' = NoBox
    BY <2>1, NobodyTyped DEF BoxTyped
  <2>2. CASE box' = box \/ box' = [box EXCEPT !.mail = TRUE]
    <3>1. "from" \in DOMAIN box /\ "polls" \in DOMAIN box
      BY DEF MailTyped, BoxTyped
    <3>2. box'.from = box.from /\ box'.polls = box.polls /\ DOMAIN box' = DOMAIN box
      BY <2>2, <3>1
    <3>3. QED
      BY <1>1, <3>2 DEF MailTyped, BoxTyped
  <2>3. QED
    BY <2>1, <2>2 DEF Allocate, NoneLeft, Arrives, AllocationEnds, ListAges, mailVars
<1>5. QED
  BY <1>1, <1>2, <1>3, <1>4 DEF MailTyped, SourcesTyped

LEMMA MailTypedStep == ASSUME MailTyped, [MailNext]_mailVars PROVE MailTyped'
<1>1. MailInv'
  BY MailStep DEF MailTyped
<1>2. SourcesTyped' /\ spent' \subseteq Names /\ AskTyped' /\ BoxTyped'
  BY NewAddressTyped, PollTyped, MailRestartsTyped, TickTyped, OthersTyped DEF MailNext
<1>3. QED
  BY <1>1, <1>2 DEF MailTyped

LEMMA MailIsTyped == ASSUME MailTyped PROVE MailTypes
BY DEF MailTyped, SourcesTyped, AskTyped, BoxTyped, MailTypes

(* The types of the sources, the allocation and the mailbox                *)
(* (api/email_pool.py): no source rests for longer than its failures count.*)
THEOREM MailTypeCorrect == MailSpec => []MailTypes
<1>1. MailSpec => []MailTyped
  BY MailTypedInit, MailTypedStep, PTL DEF MailSpec
<1>2. QED
  BY <1>1, MailIsTyped, PTL

-----------------------------------------------------------------------------
(* The vectors                                                             *)

Jobs == [at : {"ahead", "looking", "writing", "indexing", "ended"}, of : Finished \cup {NoTask}]

VectorTyped ==
    /\ way \in {"none", "index", "scan"}
    /\ Written \subseteq Finished /\ \A t \in Written : vectors[t] \in Finished \cup {NoTask}
    /\ index \subseteq Written
    /\ upsert \in [Finished -> Jobs]
    /\ before \in [Finished -> SUBSET Finished]

\* Nothing near it stood in the index before it began.
Alone(t) == \A u \in before[t] \cap index : Distance(t, u) > Near

UpsertOK(t) ==
    /\ \A u \in before[t] : JobAt(u, "ended")
    /\ upsert[t].at \in {"ahead", "looking"} => upsert[t].of = NoTask /\ t \notin Written
    /\ upsert[t].at = "writing" => t \notin Written
    /\ upsert[t].at = "writing" /\ upsert[t].of = NoTask => Alone(t)
    /\ t \in Written /\ vectors[t] = NoTask => Alone(t)

VectorInv == VectorTyped /\ \A t \in Finished : UpsertOK(t)

LEMMA Smallest == ASSUME NEW T \in SUBSET Nat, T # {} PROVE \E m \in T : \A n \in T : m <= n
<1> DEFINE R == {ss \in Nat \X Nat : ss[1] < ss[2]}
<1>1. IsWellFoundedOn(R, Nat)
  BY NatLessThanWellFounded, Zenon DEF OpToRel
<1> HIDE DEF R
<1>2. PICK m \in T : \A n \in T : <<n, m>> \notin R
  BY <1>1, WFMin, Zenon
<1>3. ASSUME NEW n \in T PROVE m <= n
  <2>1. m \in Nat /\ n \in Nat /\ <<n, m>> \notin R
    BY <1>2
  <2>2. ~(n < m)
    BY <2>1 DEF R
  <2>3. QED
    BY <2>1, <2>2
<1>4. QED
  BY <1>3

LEMMA DistanceType == ASSUME NEW t \in Finished, NEW u \in Finished PROVE Distance(t, u) \in Nat
BY VectorAssumption DEF Distance

\* Of any tasks one is the nearest.
LEMMA ANearest ==
    ASSUME NEW t \in Finished, NEW A \in SUBSET Finished, A # {}
    PROVE  \E v \in A : \A w \in A : Distance(t, v) <= Distance(t, w)
<1> DEFINE D == {Distance(t, v) : v \in A}
<1>1. D \in SUBSET Nat /\ D # {}
  BY DistanceType
<1>2. PICK m \in D : \A n \in D : m <= n
  BY <1>1, Smallest
<1>3. QED
  BY <1>2

\* The m nearest of A, where there are as many.
Bests(t, m, A) ==
    {best \in SUBSET A : Cardinality(best) = m /\ \A u \in best, v \in A \ best : Distance(t, u) <= Distance(t, v)}

\* From the m nearest to the next.
LEMMA OneNearer ==
    ASSUME NEW t \in Finished, NEW A \in SUBSET Finished, NEW m \in Nat, m < Cardinality(A),
           NEW best \in Bests(t, m, A)
    PROVE  Bests(t, m + 1, A) # {}
<1>1. IsFiniteSet(A) /\ IsFiniteSet(best) /\ best \subseteq A /\ Cardinality(best) = m
  BY VectorAssumption, FS_Subset DEF Bests
<1>2. A \ best # {}
  <2>1. best # A
    BY <1>1
  <2>2. QED
    BY <1>1, <2>1
<1>3. PICK v \in A \ best : \A w \in A \ best : Distance(t, v) <= Distance(t, w)
  BY <1>2, ANearest
<1>4. Cardinality(best \cup {v}) = m + 1
  BY <1>1, <1>3, FS_AddElement
<1>5. ASSUME NEW u \in best \cup {v}, NEW w \in A \ (best \cup {v}) PROVE Distance(t, u) <= Distance(t, w)
  BY <1>3 DEF Bests
<1>6. best \cup {v} \in Bests(t, m + 1, A)
  BY <1>1, <1>4, <1>5 DEF Bests
<1>7. QED
  BY <1>6

\* As many nearest as one asks for: no size is the first to fail.
LEMMA BestsExist ==
    ASSUME NEW t \in Finished, NEW A \in SUBSET Finished, NEW k \in 0..Cardinality(A)
    PROVE  Bests(t, k, A) # {}
<1>1. IsFiniteSet(A) /\ Cardinality(A) \in Nat
  BY VectorAssumption, FS_Subset, FS_CardinalityType
<1> DEFINE Bad == {m \in 0..Cardinality(A) : Bests(t, m, A) = {}}
<1>2. SUFFICES ASSUME Bad # {} PROVE FALSE
  BY <1>2
<1>3. PICK m \in Bad : \A n \in Bad : m <= n
  <2>1. Bad \in SUBSET Nat
    BY <1>1
  <2> HIDE DEF Bad
  <2>2. QED
    BY <1>2, <2>1, Smallest
<1>4. m # 0
  <2>1. {} \in Bests(t, 0, A)
    BY FS_EmptySet DEF Bests
  <2>2. QED
    BY <1>3, <2>1
<1>5. m - 1 \in 0..Cardinality(A) /\ m - 1 \in Nat /\ m - 1 < Cardinality(A) /\ (m - 1) + 1 = m
  BY <1>1, <1>3, <1>4
<1>6. m - 1 \notin Bad
  BY <1>3, <1>5
<1>7. PICK best \in Bests(t, m - 1, A) : TRUE
  BY <1>5, <1>6
<1>8. Bests(t, (m - 1) + 1, A) # {}
  BY <1>5, <1>7, OneNearer
<1>9. QED
  BY <1>3, <1>5, <1>8

(* An index asked for k neighbours has some, and nothing in it is nearer   *)
(* than all of them.                                                       *)
LEMMA NearestFound ==
    ASSUME NEW t \in Finished, NEW A \in SUBSET Finished, NEW k \in Nat \ {0}, NEW u \in A
    PROVE  /\ Nearest(t, k, A) # {}
           /\ \A best \in Nearest(t, k, A) : \E v \in best : Distance(t, v) <= Distance(t, u)
<1> DEFINE n == IF Cardinality(A) < k THEN Cardinality(A) ELSE k
<1>1. IsFiniteSet(A) /\ Cardinality(A) \in Nat /\ Cardinality(A) # 0
  BY VectorAssumption, FS_Subset, FS_CardinalityType, FS_EmptySet
<1>2. n \in 0..Cardinality(A) /\ n # 0
  BY <1>1
<1>3. Nearest(t, k, A) = Bests(t, n, A)
  BY DEF Nearest, Bests
<1>4. Nearest(t, k, A) # {}
  BY <1>2, <1>3, BestsExist
<1>5. ASSUME NEW best \in Nearest(t, k, A) PROVE \E v \in best : Distance(t, v) <= Distance(t, u)
  <2>1. best \subseteq A /\ Cardinality(best) = n
    BY <1>3, <1>5 DEF Bests
  <2>2. best # {}
    BY <1>2, <2>1, FS_EmptySet
  <2>3. \A v \in best : u \notin best => Distance(t, v) <= Distance(t, u)
    BY <1>3, <1>5 DEF Bests
  <2>4. Distance(t, u) <= Distance(t, u)
    BY DistanceType
  <2>5. QED
    BY <2>2, <2>3, <2>4
<1>6. QED
  BY <1>4, <1>5

\* A near one in the index is enough for a task to be a duplicate, found either way.
LEMMA NearIsFound ==
    ASSUME VectorInv, Ready, NEW t \in Finished, NEW u \in index, Distance(t, u) <= Near
    PROVE  Found(t) # {}
<1>1. /\ Indexed \in SUBSET Finished /\ Written \in SUBSET Finished /\ u \in Indexed /\ u \in Written
      /\ way \in {"index", "scan"}
  BY DEF VectorInv, VectorTyped, Indexed, Ready
<1>2. CASE way = "scan"
  <2>1. PICK best \in Nearest(t, 1, Written) : TRUE
    BY <1>1, NearestFound
  <2>2. PICK v \in best : Distance(t, v) <= Distance(t, u)
    BY <1>1, <2>1, NearestFound
  <2>3. best \subseteq Finished /\ Distance(t, v) \in Nat /\ Distance(t, u) \in Nat /\ Near \in Nat
    BY <1>1, <2>1, <2>2, DistanceType, VectorAssumption DEF Nearest
  <2>4. v \in UNION Nearest(t, 1, Written) /\ Distance(t, v) <= Near
    BY <2>1, <2>2, <2>3
  <2>5. v \in FoundByScan(t)
    BY <2>4 DEF FoundByScan
  <2>6. QED
    BY <1>2, <2>5 DEF Found
<1>3. CASE way = "index"
  <2>1. PICK best \in Nearest(t, K, Indexed) : TRUE
    BY <1>1, NearestFound, VectorAssumption
  <2>2. PICK v \in best : Distance(t, v) <= Distance(t, u)
    BY <1>1, <2>1, NearestFound, VectorAssumption
  <2>3. best \subseteq Finished /\ Distance(t, v) \in Nat /\ Distance(t, u) \in Nat /\ Near \in Nat
    BY <1>1, <2>1, <2>2, DistanceType, VectorAssumption DEF Nearest
  <2> DEFINE above == {w \in best : Distance(t, w) <= Near}
             originals == {w \in above : vectors[w] = NoTask}
             asked == IF originals = {} THEN above ELSE originals
  <2>4. asked # {} /\ asked \in SUBSET Finished
    BY <2>2, <2>3
  <2> HIDE DEF asked
  <2>5. PICK w \in asked : TRUE
    BY <2>4
  <2>6. PICK one \in Nearest(t, 1, asked) : TRUE
    BY <2>4, <2>5, NearestFound
  <2>7. PICK z \in one : TRUE
    BY <2>4, <2>5, <2>6, NearestFound
  <2>8. z \in UNION Nearest(t, 1, asked)
    BY <2>6, <2>7
  <2>9. z \in FoundByIndex(t)
    BY <2>1, <2>8 DEF FoundByIndex, asked
  <2>10. QED
    BY <1>3, <2>9 DEF Found
<1>4. QED
  BY <1>1, <1>2, <1>3

LEMMA VectorInitInv == VectorInit => VectorInv
<1> SUFFICES ASSUME VectorInit PROVE VectorInv
  OBVIOUS
<1>1. Written = {}
  BY DEF VectorInit, Written
<1>2. QED
  BY <1>1 DEF VectorInit, VectorInv, VectorTyped, UpsertOK, Alone, JobAt, Jobs

(* An upsert that goes on while the tables and what came before it stay as *)
(* they are disturbs no other.                                             *)
LEMMA OneGoesOn ==
    ASSUME VectorInv, NEW t \in Finished, ~JobAt(t, "ended"), UNCHANGED <<vectors, index, before>>,
           NEW job \in Jobs, upsert' = [upsert EXCEPT ![t] = job], way' \in {"none", "index", "scan"},
           UpsertOK(t)'
    PROVE  VectorInv'
<1>1. upsert \in [Finished -> Jobs]
  BY DEF VectorInv, VectorTyped
<1>2. VectorTyped'
  BY <1>1 DEF VectorInv, VectorTyped, Written
<1>3. ASSUME NEW u \in Finished, u # t PROVE UpsertOK(u)'
  <2>1. upsert'[u] = upsert[u] /\ UpsertOK(u)
    BY <1>1, <1>3 DEF VectorInv
  <2>2. \A v \in before[u] : JobAt(v, "ended") /\ v \in Finished
    BY <2>1 DEF UpsertOK, VectorInv, VectorTyped
  <2>3. \A v \in before[u] : upsert'[v] = upsert[v]
    BY <1>1, <2>2
  <2>4. Alone(u)' <=> Alone(u)
    BY DEF Alone, Distance
  <2>5. QED
    BY <2>1, <2>2, <2>3, <2>4 DEF UpsertOK, JobAt, Written
<1>4. QED
  BY <1>2, <1>3 DEF VectorInv

LEMMA BeginInv == ASSUME VectorInv, NEW t \in Finished, Begin(t) PROVE VectorInv'
<1> DEFINE ended == {u \in Finished : JobAt(u, "ended")}
<1>1. upsert \in [Finished -> Jobs]
      /\ before \in [Finished -> SUBSET Finished]
  BY DEF VectorInv, VectorTyped
<1>2. /\ upsert'[t].at = "looking" /\ upsert'[t].of = upsert[t].of /\ before'[t] = ended
      /\ \A u \in Finished : u # t => upsert'[u] = upsert[u] /\ before'[u] = before[u]
      /\ UNCHANGED <<way, vectors, index>>
  BY <1>1 DEF Begin, JobGoes
<1>3. upsert[t].at = "ahead" /\ upsert[t].of = NoTask /\ t \notin Written
  BY DEF Begin, JobAt, VectorInv, UpsertOK
<1>4. VectorTyped'
  <2>1. [upsert[t] EXCEPT !.at = "looking"] \in Jobs
    BY <1>1 DEF Jobs
  <2>2. upsert' = [upsert EXCEPT ![t] = [upsert[t] EXCEPT !.at = "looking"]]
    BY <1>1 DEF Begin, JobGoes
  <2>3. upsert' \in [Finished -> Jobs]
    BY <1>1, <2>1, <2>2
  <2>4. before' \in [Finished -> SUBSET Finished]
    BY <1>1 DEF Begin
  <2>5. QED
    BY <1>2, <2>3, <2>4 DEF VectorInv, VectorTyped, Written
<1>5. \A u \in Finished : JobAt(u, "ended") => JobAt(u, "ended")'
  BY <1>2, <1>3 DEF JobAt
<1>6. UpsertOK(t)'
  BY <1>2, <1>3, <1>5 DEF UpsertOK, Written
<1>7. ASSUME NEW u \in Finished, u # t PROVE UpsertOK(u)'
  <2>1. upsert'[u] = upsert[u] /\ before'[u] = before[u] /\ UpsertOK(u)
    BY <1>2, <1>7 DEF VectorInv
  <2>2. \A v \in before[u] : JobAt(v, "ended")'
    BY <1>1, <1>5, <2>1 DEF UpsertOK
  <2>3. Alone(u)' <=> Alone(u)
    BY <1>2, <2>1 DEF Alone, Distance
  <2>4. QED
    BY <1>2, <2>1, <2>2, <2>3 DEF UpsertOK, Written
<1>8. QED
  BY <1>4, <1>6, <1>7 DEF VectorInv

LEMMA FoundType == ASSUME VectorInv, NEW t \in Finished PROVE Found(t) \subseteq Finished
<1>1. Written \subseteq Finished /\ Indexed \subseteq Finished
  BY DEF VectorInv, VectorTyped, Indexed
<1>2. FoundByIndex(t) \subseteq Indexed
  BY DEF FoundByIndex, Nearest
<1>3. FoundByScan(t) \subseteq Written
  BY DEF FoundByScan, Nearest
<1>4. QED
  BY <1>1, <1>2, <1>3 DEF Found

LEMMA LooksUpInv == ASSUME VectorInv, NEW t \in Finished, LooksUp(t) PROVE VectorInv'
<1>1. /\ upsert \in [Finished -> Jobs]
      /\ upsert[t].at = "looking" /\ upsert[t].of = NoTask /\ t \notin Written /\ ~JobAt(t, "ended")
      /\ before[t] \subseteq Finished /\ \A u \in before[t] : u # t /\ JobAt(u, "ended")
  BY DEF LooksUp, JobAt, VectorInv, VectorTyped, UpsertOK
<1>2. UNCHANGED <<way, vectors, index, before>> /\ Written' = Written
  BY DEF LooksUp, Written
<1>3. ASSUME NEW of \in Finished \cup {NoTask}, upsert' = [upsert EXCEPT ![t] = [at |-> "writing", of |-> of]],
             of = NoTask => Alone(t)
      PROVE  VectorInv'
  <2>1. /\ upsert'[t].at = "writing" /\ upsert'[t].of = of
        /\ \A u \in before[t] : upsert'[u] = upsert[u]
    BY <1>1, <1>3
  <2>2. Alone(t)' <=> Alone(t)
    BY <1>2 DEF Alone, Distance
  <2>3. UpsertOK(t)'
    BY <1>1, <1>2, <1>3, <2>1, <2>2 DEF UpsertOK, JobAt
  <2>4. way' \in {"none", "index", "scan"}
    BY <1>2 DEF VectorInv, VectorTyped
  <2> DEFINE job == [at |-> "writing", of |-> of]
  <2>5. /\ job \in Jobs
        /\ upsert' = [upsert EXCEPT ![t] = job]
    BY <1>3 DEF Jobs
  <2> HIDE DEF job
  <2>6. ~JobAt(t, "ended") /\ UNCHANGED <<vectors, index, before>>
    BY <1>1, <1>2
  <2>7. QED
    BY <2>3, <2>4, <2>5, <2>6, OneGoesOn
<1>4. CASE Found(t) = {}
  <2>1. Alone(t)
    <3>1. SUFFICES ASSUME NEW u \in before[t] \cap index PROVE Distance(t, u) > Near
      BY DEF Alone
    <3>2. Distance(t, u) \in Nat /\ Near \in Nat
      BY <1>1, DistanceType, VectorAssumption
    <3>3. ~(Distance(t, u) <= Near)
      BY <1>4, NearIsFound DEF LooksUp
    <3>4. QED
      BY <3>2, <3>3
  <2>2. upsert' = [upsert EXCEPT ![t] = [upsert[t] EXCEPT !.at = "writing"]]
    BY <1>1, <1>4 DEF LooksUp, JobGoes
  <2>3. [upsert[t] EXCEPT !.at = "writing"] = [at |-> "writing", of |-> NoTask]
    <3>1. upsert[t] \in Jobs
      BY <1>1
    <3>2. QED
      BY <1>1, <3>1 DEF Jobs
  <2>4. upsert' = [upsert EXCEPT ![t] = [at |-> "writing", of |-> NoTask]]
    BY <2>2, <2>3
  <2>5. QED
    BY <1>3, <2>1, <2>4
<1>5. CASE Found(t) # {}
  <2>1. PICK u \in Found(t) : upsert' = [upsert EXCEPT ![t] = [at |-> "writing", of |-> u]]
    BY <1>5 DEF LooksUp
  <2>2. u \in Finished /\ u # NoTask
    BY FoundType, VectorAssumption
  <2>3. QED
    BY <1>3, <2>1, <2>2
<1>6. QED
  BY <1>4, <1>5

LEMMA PutRowInv == ASSUME VectorInv, NEW t \in Finished, PutRow(t) PROVE VectorInv'
<1> DEFINE next == IF way = "index" THEN "indexing" ELSE "ended"
           job == [upsert[t] EXCEPT !.at = next]
<1>1. /\ upsert \in [Finished -> Jobs]
      /\ before \in [Finished -> SUBSET Finished] /\ Written \subseteq Finished
      /\ \A u \in Written : vectors[u] \in Finished \cup {NoTask}
  BY DEF VectorInv, VectorTyped
<1>2. upsert[t].at = "writing" /\ t \notin Written /\ (upsert[t].of = NoTask => Alone(t))
  BY DEF PutRow, JobAt, VectorInv, UpsertOK
<1>3. /\ upsert' = [upsert EXCEPT ![t] = job] /\ UNCHANGED <<way, index, before>>
      /\ vectors' = [u \in Written \cup {t} |-> IF u = t THEN upsert[t].of ELSE vectors[u]]
  BY <1>1 DEF PutRow, JobGoes
<1>4. /\ upsert[t] \in Jobs
      /\ next \in {"indexing", "ended"}
  BY <1>1
<1>5. /\ job \in Jobs
      /\ job.at \in {"indexing", "ended"}
  BY <1>4 DEF Jobs
<1> HIDE DEF job, next
<1>6. upsert'[t] = job /\ \A u \in Finished : u # t => upsert'[u] = upsert[u]
  BY <1>1, <1>3
<1>7. /\ Written' = Written \cup {t} /\ vectors'[t] = upsert[t].of
      /\ \A u \in Written : vectors'[u] = vectors[u]
  BY <1>2, <1>3 DEF Written
<1>8. VectorTyped'
  <2>1. upsert' \in [Finished -> Jobs]
    BY <1>1, <1>3, <1>5
  <2>2. \A u \in Written' : vectors'[u] \in Finished \cup {NoTask}
    BY <1>1, <1>4, <1>7 DEF Jobs
  <2>3. QED
    BY <1>1, <1>3, <1>7, <2>1, <2>2 DEF VectorInv, VectorTyped
<1>9. ASSUME NEW u \in Finished PROVE UpsertOK(u)'
  <2>1. UpsertOK(u) /\ before'[u] = before[u] /\ before[u] \subseteq Finished
    BY <1>1, <1>3 DEF VectorInv
  <2>2. \A v \in before[u] : JobAt(v, "ended")'
    BY <1>2, <1>6, <2>1 DEF UpsertOK, JobAt
  <2>3. Alone(u)' <=> Alone(u)
    BY <1>3 DEF Alone, Distance
  <2>4. CASE u = t
    <3>1. upsert'[u].at \in {"indexing", "ended"}
      BY <1>5, <1>6, <2>4
    <3>2. vectors'[u] = NoTask => Alone(u)
      BY <1>2, <1>7, <2>4
    <3>3. QED
      BY <2>1, <2>2, <2>3, <3>1, <3>2 DEF UpsertOK
  <2>5. CASE u # t
    <3>1. upsert'[u] = upsert[u] /\ (u \in Written' <=> u \in Written)
      BY <1>6, <1>7, <2>5
    <3>2. u \in Written => vectors'[u] = vectors[u]
      BY <1>7
    <3>3. QED
      BY <2>1, <2>2, <2>3, <3>1, <3>2 DEF UpsertOK
  <2>6. QED
    BY <2>4, <2>5
<1>10. QED
  BY <1>8, <1>9 DEF VectorInv

LEMMA PutVectorInv == ASSUME VectorInv, NEW t \in Finished, PutVector(t) PROVE VectorInv'
<1> DEFINE job == [upsert[t] EXCEPT !.at = "ended"]
<1>1. /\ upsert \in [Finished -> Jobs]
      /\ before \in [Finished -> SUBSET Finished] /\ index \subseteq Written /\ t \in Written
      /\ upsert[t].at = "indexing"
  BY DEF PutVector, JobAt, VectorInv, VectorTyped
<1>2. upsert' = [upsert EXCEPT ![t] = job] /\ index' = index \cup {t} /\ UNCHANGED <<way, vectors, before>>
  BY <1>1 DEF PutVector, JobGoes
<1>3. upsert[t] \in Jobs
  BY <1>1
<1>4. /\ job \in Jobs
      /\ job.at = "ended"
  BY <1>3 DEF Jobs
<1> HIDE DEF job
<1>5. upsert'[t] = job /\ \A u \in Finished : u # t => upsert'[u] = upsert[u]
  BY <1>1, <1>2
<1>6. VectorTyped'
  <2>1. upsert' \in [Finished -> Jobs]
    BY <1>1, <1>2, <1>4
  <2>2. QED
    BY <1>1, <1>2, <2>1 DEF VectorInv, VectorTyped, Written
<1>7. ASSUME NEW u \in Finished PROVE UpsertOK(u)'
  <2>1. UpsertOK(u) /\ before'[u] = before[u] /\ before[u] \subseteq Finished
    BY <1>1, <1>2 DEF VectorInv
  <2>2. t \notin before[u]
    BY <1>1, <2>1 DEF UpsertOK, JobAt
  <2>3. \A v \in before[u] : JobAt(v, "ended")'
    BY <1>5, <2>1, <2>2 DEF UpsertOK, JobAt
  <2>4. Alone(u)' <=> Alone(u)
    BY <1>2, <2>2 DEF Alone, Distance
  <2>5. u # t => upsert'[u] = upsert[u]
    BY <1>5
  <2>6. u = t => upsert'[u].at = "ended"
    BY <1>4, <1>5
  <2>7. QED
    BY <1>2, <2>1, <2>3, <2>4, <2>5, <2>6 DEF UpsertOK, Written
<1>8. QED
  BY <1>6, <1>7 DEF VectorInv

(* The processes end, or a statement fails: upserts end where they are. *)
LEMMA UpsertEndsInv ==
    ASSUME VectorInv, UNCHANGED <<vectors, index, before>>, way' \in {"none", "index", "scan"}, NEW T \in SUBSET Finished,
           upsert' = [t \in Finished |-> IF t \in T THEN upsert[t] ELSE [upsert[t] EXCEPT !.at = "ended"]]
    PROVE  VectorInv'
<1>1. /\ upsert \in [Finished -> Jobs]
      /\ before \in [Finished -> SUBSET Finished]
  BY DEF VectorInv, VectorTyped
<1>2. ASSUME NEW t \in Finished
      PROVE  /\ [upsert[t] EXCEPT !.at = "ended"] \in Jobs
             /\ [upsert[t] EXCEPT !.at = "ended"].at = "ended"
  <2>1. upsert[t] \in Jobs
    BY <1>1
  <2>2. QED
    BY <2>1 DEF Jobs
<1>3. \A t \in Finished : upsert'[t] = upsert[t] \/ upsert'[t].at = "ended"
  BY <1>2
<1>4. upsert' \in [Finished -> Jobs]
  BY <1>1, <1>2
<1>5. VectorTyped'
  BY <1>4 DEF VectorInv, VectorTyped, Written
<1>6. ASSUME NEW u \in Finished PROVE UpsertOK(u)'
  <2>1. UpsertOK(u) /\ before[u] \subseteq Finished
    BY <1>1 DEF VectorInv
  <2>2. \A v \in before[u] : JobAt(v, "ended")'
    BY <1>3, <2>1 DEF UpsertOK, JobAt
  <2>3. Alone(u)' <=> Alone(u)
    BY DEF Alone, Distance
  <2>4. upsert'[u] = upsert[u] \/ upsert'[u].at = "ended"
    BY <1>3
  <2>5. QED
    BY <2>1, <2>2, <2>3, <2>4 DEF UpsertOK, Written
<1>7. QED
  BY <1>5, <1>6 DEF VectorInv

LEMMA UpsertFailsInv == ASSUME VectorInv, NEW t \in Finished, Fails(t) PROVE VectorInv'
<1>1. upsert \in [Finished -> Jobs]
  BY DEF VectorInv, VectorTyped
<1> DEFINE T == Finished \ {t}
<1>2. upsert' = [u \in Finished |-> IF u \in T THEN upsert[u] ELSE [upsert[u] EXCEPT !.at = "ended"]]
  BY <1>1 DEF Fails, JobGoes
<1>3. way' \in {"none", "index", "scan"} /\ UNCHANGED <<vectors, index, before>>
  BY DEF Fails, VectorInv, VectorTyped
<1> HIDE DEF T
<1>4. T \in SUBSET Finished
  BY DEF T
<1>5. QED
  BY <1>2, <1>3, <1>4, UpsertEndsInv

LEMMA VectorRestartsInv == ASSUME VectorInv, VectorRestarts PROVE VectorInv'
<1> DEFINE T == {t \in Finished : JobAt(t, "ahead")}
<1>1. upsert' = [u \in Finished |-> IF u \in T THEN upsert[u] ELSE [upsert[u] EXCEPT !.at = "ended"]]
  BY DEF VectorRestarts
<1>2. way' \in {"none", "index", "scan"} /\ UNCHANGED <<vectors, index, before>>
  BY DEF VectorRestarts
<1>3. T \in SUBSET Finished
  OBVIOUS
<1> HIDE DEF T
<1>4. QED
  BY <1>1, <1>2, <1>3, UpsertEndsInv

LEMMA VectorStep == ASSUME VectorInv, [VectorNext]_vectorVars PROVE VectorInv'
<1>1. ASSUME UNCHANGED <<vectors, index, upsert, before>>, way' \in {"none", "index", "scan"} PROVE VectorInv'
  BY <1>1 DEF VectorInv, VectorTyped, UpsertOK, Alone, JobAt, Written, Distance
<1>2. way \in {"none", "index", "scan"}
  BY DEF VectorInv, VectorTyped
<1>3. CASE UNCHANGED vectorVars \/ Initialize \/ Duplicates \/ \E t \in Finished : Search(t)
  BY <1>1, <1>2, <1>3 DEF vectorVars, Initialize, Duplicates, Search
<1>4. QED
  BY <1>3, BeginInv, LooksUpInv, PutRowInv, PutVectorInv, UpsertFailsInv, VectorRestartsInv DEF VectorNext

(* Whatever the prompts, the index or its absence, failures and restarts:  *)
(* of two near tasks that did not overlap the later one is marked, unless  *)
(* the earlier never got into the index.  What the index answers is enough *)
(* for that though it is asked for K neighbours only.                      *)
THEOREM NearOnesAreMarked == VectorSpec => []OriginalsApart
<1>1. VectorSpec => []VectorInv
  BY VectorInitInv, VectorStep, PTL DEF VectorSpec
<1>2. VectorInv => OriginalsApart
  <2>1. SUFFICES ASSUME VectorInv, NEW t \in Written, NEW u \in before[t] \cap Written,
                        vectors[t] = NoTask, u \in index
                 PROVE  ~(Distance(t, u) <= Near)
    BY DEF OriginalsApart
  <2>2. t \in Finished /\ u \in Finished /\ Distance(t, u) > Near
    BY <2>1 DEF VectorInv, VectorTyped, UpsertOK, Alone
  <2>3. QED
    BY <2>2, DistanceType, VectorAssumption
<1>3. QED
  BY <1>1, <1>2, PTL

(* A task is marked as the duplicate of one whose row is written, and what *)
(* is answered is written.                                                 *)
MarksWritten ==
    /\ \A t \in Finished : upsert[t].of \in Written \cup {NoTask}
    /\ \A t \in Written : vectors[t] \in Written \cup {NoTask}
AnswerWritten == answer.list \subseteq Written /\ answer.to \notin answer.list
VectorMarked == VectorInv /\ MarksWritten /\ AnswerWritten

LEMMA VectorMarkedInit == VectorInit => VectorMarked
<1> SUFFICES ASSUME VectorInit PROVE VectorMarked
  OBVIOUS
<1>1. Written = {}
  BY DEF VectorInit, Written
<1>2. MarksWritten /\ AnswerWritten
  BY <1>1 DEF VectorInit, MarksWritten, AnswerWritten
<1>3. QED
  BY <1>2, VectorInitInv DEF VectorMarked

LEMMA OfStays == ASSUME VectorInv, NEW t \in Finished, NEW label, JobGoes(t, label)
                 PROVE  \A u \in Finished : upsert'[u].of = upsert[u].of
<1>1. upsert \in [Finished -> Jobs]
  BY DEF VectorInv, VectorTyped
<1>2. upsert' = [upsert EXCEPT ![t] = [upsert[t] EXCEPT !.at = label]]
  BY <1>1 DEF JobGoes
<1>3. upsert[t] \in Jobs
  BY <1>1
<1>4. [upsert[t] EXCEPT !.at = label].of = upsert[t].of
  BY <1>3 DEF Jobs
<1>5. ASSUME NEW u \in Finished PROVE upsert'[u].of = upsert[u].of
  BY <1>1, <1>2, <1>4
<1>6. QED
  BY <1>5

LEMMA NearestAreOf == ASSUME NEW t, NEW k, NEW T, NEW best \in Nearest(t, k, T) PROVE best \subseteq T
BY DEF Nearest

LEMMA FoundIsWritten == ASSUME NEW t PROVE Found(t) \subseteq Written
<1>1. FoundByIndex(t) \subseteq Indexed /\ Indexed \subseteq Written
  BY DEF FoundByIndex, Nearest, Indexed
<1>2. FoundByScan(t) \subseteq Written
  BY DEF FoundByScan, Nearest
<1>3. QED
  BY <1>1, <1>2 DEF Found

LEMMA LooksUpMarks == ASSUME VectorMarked, NEW t \in Finished, LooksUp(t) PROVE MarksWritten' /\ AnswerWritten'
<1>1. vectors' = vectors /\ answer' = answer /\ Written' = Written
  BY DEF LooksUp, Written
<1>2. upsert \in [Finished -> Jobs]
  BY DEF VectorMarked, VectorInv, VectorTyped
<1>3. ASSUME NEW u \in Finished PROVE upsert'[u].of \in Written \cup {NoTask}
  <2>1. upsert[u].of \in Written \cup {NoTask}
    BY DEF VectorMarked, MarksWritten
  <2>2. CASE Found(t) = {}
    <3>1. JobGoes(t, "writing") /\ VectorInv
      BY <2>2 DEF LooksUp, VectorMarked
    <3>2. upsert'[u].of = upsert[u].of
      BY <3>1, OfStays
    <3>3. QED
      BY <2>1, <3>2
  <2>3. CASE Found(t) # {}
    <3>1. PICK v \in Found(t) : upsert' = [upsert EXCEPT ![t] = [at |-> "writing", of |-> v]]
      BY <2>3 DEF LooksUp
    <3>2. v \in Written
      BY FoundIsWritten
    <3>3. upsert'[u] = IF u = t THEN [at |-> "writing", of |-> v] ELSE upsert[u]
      BY <1>2, <3>1
    <3>4. QED
      BY <2>1, <3>2, <3>3
  <2>4. QED
    BY <2>2, <2>3
<1>4. QED
  BY <1>1, <1>3 DEF VectorMarked, MarksWritten, AnswerWritten

LEMMA PutRowMarks == ASSUME VectorMarked, NEW t \in Finished, PutRow(t) PROVE MarksWritten' /\ AnswerWritten'
<1>1. /\ vectors' = [u \in Written \cup {t} |-> IF u = t THEN upsert[t].of ELSE vectors[u]]
      /\ answer' = answer
  BY DEF PutRow
<1>2. Written' = Written \cup {t}
  BY <1>1 DEF Written
<1>3. \A u \in Finished : upsert'[u].of = upsert[u].of
  <2>1. PICK label : JobGoes(t, label)
    BY DEF PutRow
  <2>2. QED
    BY <2>1, OfStays DEF VectorMarked
<1>4. \A u \in Finished : upsert'[u].of \in Written' \cup {NoTask}
  BY <1>2, <1>3 DEF VectorMarked, MarksWritten
<1>5. ASSUME NEW u \in Written' PROVE vectors'[u] \in Written' \cup {NoTask}
  <2>1. upsert[t].of \in Written \cup {NoTask} /\ \A v \in Written : vectors[v] \in Written \cup {NoTask}
    BY DEF VectorMarked, MarksWritten
  <2>2. vectors'[u] = IF u = t THEN upsert[t].of ELSE vectors[u]
    BY <1>1, <1>2, <1>5
  <2>3. QED
    BY <1>2, <1>5, <2>1, <2>2
<1>6. QED
  BY <1>1, <1>2, <1>4, <1>5 DEF VectorMarked, MarksWritten, AnswerWritten

LEMMA AskingMarks ==
    ASSUME VectorMarked, Duplicates \/ \E t \in Finished : Search(t)
    PROVE  MarksWritten' /\ AnswerWritten'
<1>1. UNCHANGED <<vectors, upsert>> /\ Written' = Written
  BY DEF Duplicates, Search, Written
<1>2. CASE Duplicates
  <2>1. Written \subseteq Finished /\ NoTask \notin Finished
    BY VectorAssumption DEF VectorMarked, VectorInv, VectorTyped
  <2>2. answer'.to = NoTask /\ answer'.list = {t \in Written : vectors[t] # NoTask}
    BY <1>2 DEF Duplicates
  <2>3. QED
    BY <1>1, <2>1, <2>2 DEF VectorMarked, MarksWritten, AnswerWritten
<1>3. ASSUME NEW t \in Finished, Search(t) PROVE MarksWritten' /\ AnswerWritten'
  <2>1. PICK best : /\ best \in Nearest(t, K, Indexed \ {t}) \/ best \in Nearest(t, K, Written \ {t})
                    /\ answer' = [to |-> t, list |-> best]
    BY <1>3 DEF Search
  <2>2. best \subseteq Written \ {t}
    BY <2>1, NearestAreOf DEF Indexed
  <2>3. answer'.to = t /\ answer'.list = best
    BY <2>1
  <2>4. QED
    BY <1>1, <2>2, <2>3 DEF VectorMarked, MarksWritten, AnswerWritten
<1>4. QED
  BY <1>2, <1>3

LEMMA VectorMarkedStep == ASSUME VectorMarked, [VectorNext]_vectorVars PROVE VectorMarked'
<1>1. VectorInv'
  BY VectorStep DEF VectorMarked
<1>2. ASSUME UNCHANGED <<vectors, answer>>, \A u \in Finished : upsert'[u].of = upsert[u].of
      PROVE  MarksWritten' /\ AnswerWritten'
  BY <1>2 DEF VectorMarked, MarksWritten, AnswerWritten, Written
<1>3. ASSUME NEW t \in Finished, Begin(t) \/ PutVector(t) \/ Fails(t) PROVE MarksWritten' /\ AnswerWritten'
  <2>1. UNCHANGED <<vectors, answer>> /\ \E label : JobGoes(t, label)
    BY <1>3 DEF Begin, PutVector, Fails
  <2>2. QED
    BY <1>2, <2>1, OfStays DEF VectorMarked
<1>4. ASSUME VectorRestarts PROVE MarksWritten' /\ AnswerWritten'
  <2>1. upsert \in [Finished -> Jobs]
    BY DEF VectorMarked, VectorInv, VectorTyped
  <2>2. ASSUME NEW u \in Finished PROVE upsert'[u].of = upsert[u].of
    <3>1. upsert[u] \in Jobs
      BY <2>1
    <3>2. [upsert[u] EXCEPT !.at = "ended"].of = upsert[u].of
      BY <3>1 DEF Jobs
    <3>3. upsert' = [v \in Finished |-> IF JobAt(v, "ahead") THEN upsert[v] ELSE [upsert[v] EXCEPT !.at = "ended"]]
      BY <1>4 DEF VectorRestarts
    <3>4. upsert'[u] = upsert[u] \/ upsert'[u] = [upsert[u] EXCEPT !.at = "ended"]
      BY <3>3, Zenon
    <3>5. QED
      BY <3>2, <3>4
  <2>3. UNCHANGED <<vectors, answer>>
    BY <1>4 DEF VectorRestarts
  <2>4. QED
    BY <1>2, <2>2, <2>3, Zenon
<1>5. ASSUME Initialize \/ UNCHANGED vectorVars PROVE MarksWritten' /\ AnswerWritten'
  <2>1. UNCHANGED <<vectors, answer, upsert>>
    BY <1>5 DEF Initialize, vectorVars
  <2>2. \A u \in Finished : upsert'[u].of = upsert[u].of
    BY <2>1
  <2>3. QED
    BY <1>2, <2>1, <2>2, Zenon
<1>6. MarksWritten' /\ AnswerWritten'
  BY <1>3, <1>4, <1>5, LooksUpMarks, PutRowMarks, AskingMarks, Zenon DEF VectorNext
<1>7. QED
  BY <1>1, <1>6 DEF VectorMarked

LEMMA VectorIsTyped == ASSUME VectorMarked PROVE VectorTypes
<1>1. ASSUME NEW t \in Finished PROVE upsert[t].at \in {"ahead", "looking", "writing", "indexing", "ended"}
  <2>1. upsert[t] \in Jobs
    BY DEF VectorMarked, VectorInv, VectorTyped
  <2>2. QED
    BY <2>1 DEF Jobs
<1>2. QED
  BY <1>1 DEF VectorMarked, VectorInv, VectorTyped, MarksWritten, AnswerWritten, VectorTypes

(* The types of the tables and of the upserts (api/vector/store.py): the   *)
(* original of a duplicate has a row, and a search leaves out its task.    *)
THEOREM VectorTypeCorrect == VectorSpec => []VectorTypes
<1>1. VectorSpec => []VectorMarked
  BY VectorMarkedInit, VectorMarkedStep, PTL DEF VectorSpec
<1>2. QED
  BY <1>1, VectorIsTyped, PTL

-----------------------------------------------------------------------------
(* The reports on the calls of the chats                                   *)

ReportKinds == {"stats", "overview", "forecast", "credits"}
Report == [kind : ReportKinds \cup {Absent}, length : Nat, now : Nat, day : Nat,
           asked : SUBSET Calls, part : Seq(SUBSET SUBSET Calls)]

\* What a query sums over, whatever its groups: of the rows it can see those
\* it is meant to count.
Meant(query, c) ==
    /\ query \in {"calls", "cost", "models", "providers", "month", "used"} =>
           recorded[c] + report.length >= report.now
    /\ query \in {"today", "todayCost"} => DayOf(recorded[c]) >= report.day
    /\ query = "month" \/ (query = "today" /\ report.kind = "overview") => c \in report.asked
    /\ query = "daily" => DayOf(recorded[c]) * Day + Rolling >= report.day * Day
    /\ query = "used" => c \in Good

Nth(i) == Queries[report.kind][i]
Sum(i) == UNION report.part[i]

UsageTyped ==
    /\ clock \in 0 .. MaxClock /\ drops \in Nat
    /\ recorded \in [Calls -> (0 .. MaxClock) \cup {Absent}]
    /\ unsaved \subseteq Calls /\ swapped \subseteq Calls /\ usage \subseteq Calls
    /\ report \in Report
    /\ warned \in [over : BOOLEAN, asked : SUBSET Calls]

ReportShaped ==
    /\ report.kind = Absent => report.part = <<>>
    /\ report.kind # Absent => Len(report.part) <= Len(Queries[report.kind])
    /\ report.kind \in {"overview", "forecast"} => report.length = Rolling
    /\ report.kind \in {"overview", "forecast", "credits"} => report.day = DayOf(report.now)

(* A call that has a row had its time before, and until a flush fails each *)
(* is somewhere on its way to the table.  Once a report has its first      *)
(* part, whose query flushed, no call it was asked about is on that way.   *)
CallsKept ==
    /\ \A c \in unsaved \cup swapped \cup usage \cup report.asked : recorded[c] # Absent
    /\ drops = 0 => \A c \in Calls : recorded[c] # Absent => c \in unsaved \cup swapped \cup usage
    /\ report.part # <<>> => report.asked \cap (unsaved \cup swapped) = {}

(* A part has rows it is meant to count, those of the calls before the     *)
(* report if no flush failed, and, if it is the month, every one there is. *)
PartOK(i) ==
    /\ \A c \in Sum(i) : c \in usage /\ Meant(Nth(i), c)
    /\ drops = 0 => \A c \in report.asked : Meant(Nth(i), c) => c \in Sum(i)
    /\ Nth(i) = "month" => \A c \in usage : Meant(Nth(i), c) => c \in Sum(i)

\* Part j is there and so is part i.
Covers(i, j) == {i, j} \subseteq DOMAIN report.part => Sum(i) \subseteq Sum(j)

PairsOK ==
    /\ report.kind = "stats" => Covers(1, 2) /\ Covers(2, 3) /\ Covers(3, 5) /\ Covers(4, 6)
    /\ report.kind = "overview" => Covers(2, 1) /\ Covers(1, 3) /\ Covers(3, 4) /\ Covers(4, 5)

(* An overview over the budget, and no later day: the calls of the last    *)
(* days are as many, in the table and in the answer of a forecast.         *)
Recent(day) == {c \in usage : DayOf(recorded[c]) * Day + Rolling >= day * Day}
BudgetOK ==
    warned.over =>
        /\ Over(Recent(DayOf(clock)))
        /\ report.kind = "forecast" =>
               /\ report.day = DayOf(clock)
               /\ report.part # <<>> => Over(Sum(1))

UsageInv ==
    /\ UsageTyped /\ ReportShaped /\ CallsKept
    /\ \A i \in DOMAIN report.part : PartOK(i)
    /\ PairsOK /\ BudgetOK

LEMMA QueryLists ==
    /\ DOMAIN Queries = ReportKinds
    /\ Queries["stats"] = StatsQueries /\ Queries["overview"] = OverviewQueries
    /\ Queries["forecast"] = <<"daily">> /\ Queries["credits"] = <<"used">>
BY DEF Queries, ReportKinds

LEMMA StatsList ==
    /\ Len(StatsQueries) = 6 /\ DOMAIN StatsQueries = 1 .. 6
    /\ StatsQueries[1] = "calls" /\ StatsQueries[2] = "models" /\ StatsQueries[3] = "providers"
    /\ StatsQueries[4] = "today" /\ StatsQueries[5] = "cost" /\ StatsQueries[6] = "todayCost"
BY DEF StatsQueries

LEMMA OverviewList ==
    /\ Len(OverviewQueries) = 5 /\ DOMAIN OverviewQueries = 1 .. 5
    /\ OverviewQueries[1] = "month" /\ OverviewQueries[2] = "today" /\ OverviewQueries[3] = "monthly"
    /\ OverviewQueries[4] = "byProvider" /\ OverviewQueries[5] = "byModel"
BY DEF OverviewQueries

LEMMA QueryLengths ==
    ASSUME NEW which \in ReportKinds PROVE Len(Queries[which]) \in Nat /\ Len(Queries[which]) <= 6
<1>1. which = "stats" => Len(Queries[which]) = 6
  BY QueryLists, StatsList
<1>2. which = "overview" => Len(Queries[which]) = 5
  BY QueryLists, OverviewList
<1>3. which = "forecast" \/ which = "credits" => Len(Queries[which]) = 1
  BY QueryLists
<1>4. which = "stats" \/ which = "overview" \/ which = "forecast" \/ which = "credits"
  BY DEF ReportKinds
<1>5. \A n : n = 6 \/ n = 5 \/ n = 1 => n \in Nat /\ n <= 6
  OBVIOUS
<1>6. QED
  BY <1>1, <1>2, <1>3, <1>4, <1>5, Zenon

LEMMA DivBounds ==
    ASSUME NEW a \in Nat, NEW d \in Nat \ {0}
    PROVE  a \div d \in Nat /\ (a \div d) * d <= a /\ a < (a \div d) * d + d
OBVIOUS

\* What was recorded within 30 days of a time was so within 30 days of the
\* beginning of its day, counted in days.
LEMMA DaysOfMonth ==
    ASSUME UsageAssumption, NEW r \in Nat, NEW n \in Nat, r + Rolling >= DayOf(n) * Day
    PROVE  DayOf(r) * Day + Rolling >= DayOf(n) * Day
<1> DEFINE q == r \div Day
           p == n \div Day
           m == Rolling \div Day
<1>1. Day \in Nat \ {0} /\ Rolling \in Nat /\ Rolling % Day = 0
  BY DEF UsageAssumption
<1>2. q * Day <= r /\ r < q * Day + Day /\ q \in Nat /\ p \in Nat
  BY <1>1, DivBounds
<1>3. m \in Nat /\ Rolling = m * Day
  BY <1>1, DivBounds
<1>4. DayOf(n) = p /\ DayOf(r) = q
  BY DEF DayOf
<1> HIDE DEF p, q, m
<1>5. CASE q + m >= p
  <2>1. (q + m) * Day >= p * Day
    BY <1>1, <1>2, <1>3, <1>5
  <2>2. QED
    BY <1>1, <1>2, <1>3, <1>4, <2>1
<1>6. CASE q + m + 1 <= p
  <2>1. (q + m + 1) * Day <= p * Day
    BY <1>1, <1>2, <1>3, <1>6
  <2>2. QED
    BY <1>1, <1>2, <1>3, <1>4, <2>1
<1>7. QED
  BY <1>2, <1>3, <1>5, <1>6

LEMMA UnionOfGroups ==
    ASSUME NEW set, NEW key PROVE UNION Groups(set, key) = set
BY DEF Groups

\* The groups of a query hold the rows it is meant to count.
LEMMA SummedIs ==
    ASSUME NEW set, NEW query,
           query \in {"calls", "models", "providers", "cost", "todayCost", "month", "monthly",
                      "byProvider", "byModel", "daily", "used"}
           \/ (query = "today" /\ report.kind \in {"stats", "overview"})
    PROVE  \A c : c \in UNION Summed(query, set) <=> c \in set /\ Meant(query, c)
<1> DEFINE since == {c \in set : recorded[c] + report.length >= report.now}
<1>1. CASE query \in {"calls", "cost"}
  <2>1. Summed(query, set) = {since}
    BY <1>1 DEF Summed
  <2>2. QED
    BY <1>1, <2>1 DEF Meant
<1>2. CASE query = "models"
  <2>1. Summed(query, set) = PerModel(since)
    BY <1>2 DEF Summed
  <2>2. QED
    <3>1. UNION PerModel(since) = since
      BY UnionOfGroups, Zenon DEF PerModel
    <3>2. QED
      BY <1>2, <2>1, <3>1 DEF Meant
<1>3. CASE query = "providers"
  <2>1. Summed(query, set) = PerProvider(since)
    BY <1>3 DEF Summed
  <2>2. QED
    BY <1>3, <2>1, UnionOfGroups DEF Meant, PerProvider
<1>4. CASE query = "month"
  <2>1. Summed(query, set) = {UntilNow(since)}
    BY <1>4 DEF Summed
  <2>2. QED
    BY <1>4, <2>1 DEF Meant, UntilNow
<1>5. CASE query = "today" /\ report.kind = "overview"
  <2>1. Summed(query, set) = {UntilNow(Today(set))}
    BY <1>5 DEF Summed
  <2>2. QED
    BY <1>5, <2>1 DEF Meant, UntilNow, Today
<1>6. CASE query = "today" /\ report.kind = "stats"
  <2>1. Summed(query, set) = {Today(set)}
    BY <1>6 DEF Summed
  <2>2. QED
    BY <1>6, <2>1 DEF Meant, Today
<1>7. CASE query = "todayCost"
  <2>1. Summed(query, set) = {Today(set)}
    BY <1>7 DEF Summed
  <2>2. QED
    BY <1>7, <2>1 DEF Meant, Today
<1>8. CASE query = "monthly"
  <2>1. Summed(query, set) = PerMonth(set)
    BY <1>8 DEF Summed
  <2>2. QED
    BY <1>8, <2>1, UnionOfGroups DEF Meant, PerMonth
<1>9. CASE query = "byProvider"
  <2>1. Summed(query, set) = PerProvider(set)
    BY <1>9 DEF Summed
  <2>2. QED
    BY <1>9, <2>1, UnionOfGroups DEF Meant, PerProvider
<1>10. CASE query = "byModel"
  <2>1. Summed(query, set) = PerModel(set)
    BY <1>10 DEF Summed
  <2>2. QED
    BY <1>10, <2>1, UnionOfGroups DEF Meant, PerModel
<1>11. CASE query = "daily"
  <2>1. Summed(query, set) = Groups(LastDays(set), [c \in Calls |-> DayOf(recorded[c])])
    BY <1>11 DEF Summed
  <2>2. QED
    <3>1. UNION Groups(LastDays(set), [c \in Calls |-> DayOf(recorded[c])]) = LastDays(set)
      BY UnionOfGroups, Zenon
    <3>2. QED
      BY <1>11, <2>1, <3>1 DEF Meant, LastDays
<1>12. CASE query = "used"
  <2>1. Summed(query, set) = {Successes(since)}
    BY <1>12 DEF Summed
  <2>2. QED
    BY <1>12, <2>1 DEF Meant, Successes
<1>13. QED
  BY <1>1, <1>2, <1>3, <1>4, <1>5, <1>6, <1>7, <1>8, <1>9, <1>10, <1>11, <1>12

LEMMA UsageInitInv == ASSUME UsageAssumption, UsageInit PROVE UsageInv
<1>1. report = NoReport /\ NoReport.kind = Absent /\ NoReport.part = <<>> /\ NoReport.asked = {}
  BY DEF UsageInit, NoReport
<1>2. NoReport \in Report
  BY DEF NoReport, Report
<1>3. UsageTyped
  BY <1>1, <1>2 DEF UsageInit, UsageTyped, UsageAssumption, Untold
<1>4. ReportShaped /\ CallsKept
  BY <1>1, <1>3 DEF UsageInit, ReportShaped, CallsKept, UsageAssumption
<1>5. (\A i \in DOMAIN report.part : PartOK(i)) /\ PairsOK
  BY <1>1 DEF PairsOK, UsageAssumption
<1>6. BudgetOK
  BY DEF UsageInit, Untold, BudgetOK
<1>7. QED
  BY <1>3, <1>4, <1>5, <1>6 DEF UsageInv

LEMMA OverMore ==
    ASSUME UsageAssumption, NEW less, NEW more \in SUBSET Calls, less \subseteq more, Over(less)
    PROVE  Over(more)
<1>1. IsFiniteSet(more)
  BY FS_Subset DEF UsageAssumption
<1>2. IsFiniteSet(less) /\ Cardinality(less) <= Cardinality(more)
  BY <1>1, FS_Subset
<1>3. Cardinality(less) \in Nat /\ Cardinality(more) \in Nat
  BY <1>1, <1>2, FS_CardinalityType
<1>4. QED
  BY <1>2, <1>3 DEF Over, UsageAssumption

(* Nothing but the table, the calls on their way and the clock changes     *)
(* under a report.                                                         *)
LEMMA PartsStay ==
    ASSUME UsageInv, report' = report, usage \subseteq usage', drops' = 0 => drops = 0,
           \A c \in usage' \cup report.asked : recorded'[c] = recorded[c],
           report.part # <<>> => (usage' \ usage) \cap report.asked = {}
    PROVE  (\A i \in DOMAIN report.part : PartOK(i))' /\ PairsOK'
<1>1. \A i : Sum(i)' = Sum(i) /\ Nth(i)' = Nth(i)
  BY DEF Sum, Nth
<1>2. ASSUME NEW c, recorded'[c] = recorded[c], NEW query
      PROVE  Meant(query, c)' <=> Meant(query, c)
  BY <1>2 DEF Meant, DayOf
<1>3. PairsOK'
  BY <1>1 DEF UsageInv, PairsOK, Covers
<1>4. ASSUME NEW i \in DOMAIN report.part PROVE PartOK(i)'
  <2>1. PartOK(i) /\ report.part # <<>>
    BY DEF UsageInv
  <2>2. \A c \in Sum(i)' : c \in usage' /\ Meant(Nth(i), c)'
    BY <1>1, <1>2, <2>1 DEF PartOK
  <2>3. drops' = 0 => \A c \in report.asked : Meant(Nth(i), c)' => c \in Sum(i)'
    BY <1>1, <1>2, <2>1 DEF PartOK
  <2>4. Nth(i) = "month" => \A c \in usage' : Meant(Nth(i), c)' => c \in Sum(i)'
    <3>1. SUFFICES ASSUME Nth(i) = "month", NEW c \in usage', Meant(Nth(i), c) PROVE c \in Sum(i)
      BY <1>1, <1>2
    <3>2. c \in report.asked
      BY <3>1 DEF Meant
    <3>3. c \in usage
      BY <2>1, <3>1, <3>2
    <3>4. QED
      BY <2>1, <3>1, <3>3 DEF PartOK
  <2>5. QED
    BY <1>1, <2>2, <2>3, <2>4 DEF PartOK
<1>5. QED
  BY <1>3, <1>4

LEMMA BudgetStays ==
    ASSUME UsageAssumption, UsageInv, report' = report, warned' = warned, DayOf(clock)' = DayOf(clock),
           usage \subseteq usage', usage' \subseteq Calls, \A c \in usage : recorded'[c] = recorded[c]
    PROVE  BudgetOK'
<1>1. PICK d : d = DayOf(clock)
  OBVIOUS
<1>2. PICK older, newer : older = Recent(d) /\ newer = Recent(d)'
  OBVIOUS
<1>3. older \subseteq newer /\ newer \subseteq Calls
  BY <1>2 DEF Recent, DayOf
<1>4. Over(older) => Over(newer)
  BY <1>3, OverMore
<1>5. (Over(Recent(d)) => Over(Recent(d))') /\ (Over(Sum(1)) => Over(Sum(1))')
  BY <1>2, <1>4 DEF Over, Sum
<1>6. QED
  BY <1>1, <1>5 DEF UsageInv, BudgetOK

LEMMA RecordInv == ASSUME UsageAssumption, UsageInv, NEW c \in Calls, Record(c) PROVE UsageInv'
<1>1. /\ recorded[c] = Absent /\ clock \in 0 .. MaxClock /\ clock # Absent
      /\ c \notin unsaved \cup swapped \cup usage \cup report.asked
  BY DEF Record, UsageInv, UsageTyped, CallsKept, UsageAssumption
<1>2. /\ \A b \in Calls : b # c => recorded'[b] = recorded[b]
      /\ recorded'[c] = clock /\ recorded' \in [Calls -> (0 .. MaxClock) \cup {Absent}]
  BY <1>1 DEF Record, UsageInv, UsageTyped
<1>3. UsageTyped' /\ ReportShaped'
  BY <1>2 DEF Record, UsageInv, UsageTyped, ReportShaped, DayOf
<1>4. report.asked \subseteq Calls /\ usage \subseteq Calls
  BY DEF UsageInv, UsageTyped, Report
<1>5. CallsKept'
  BY <1>1, <1>2, <1>4 DEF Record, UsageInv, CallsKept
<1>6. \A b \in usage \cup report.asked : recorded'[b] = recorded[b]
  BY <1>1, <1>2, <1>4
<1>7. (\A i \in DOMAIN report.part : PartOK(i))' /\ PairsOK'
  BY <1>6, PartsStay DEF Record
<1>8. BudgetOK'
  BY <1>4, <1>6, BudgetStays DEF Record, DayOf
<1>9. QED
  BY <1>3, <1>5, <1>7, <1>8 DEF UsageInv

LEMMA SwapInv == ASSUME UsageAssumption, UsageInv, Swap PROVE UsageInv'
<1>1. UsageTyped' /\ ReportShaped' /\ CallsKept'
  BY DEF Swap, UsageInv, UsageTyped, ReportShaped, CallsKept, DayOf
<1>2. (\A i \in DOMAIN report.part : PartOK(i))' /\ PairsOK'
  BY PartsStay DEF Swap
<1>3. BudgetOK'
  BY BudgetStays DEF Swap, DayOf, UsageInv, UsageTyped
<1>4. QED
  BY <1>1, <1>2, <1>3 DEF UsageInv

LEMMA StoreInv == ASSUME UsageAssumption, UsageInv, Store PROVE UsageInv'
<1>1. /\ usage \subseteq usage' /\ usage' \subseteq usage \cup swapped
      /\ drops \in Nat /\ drops' \in Nat
      /\ drops' = 0 => drops = 0 /\ usage' = usage \cup swapped
  BY DEF Store, UsageInv, UsageTyped
<1>2. UsageTyped' /\ ReportShaped' /\ CallsKept'
  BY <1>1 DEF Store, UsageInv, UsageTyped, ReportShaped, CallsKept, DayOf
<1>3. report.part # <<>> => (usage' \ usage) \cap report.asked = {}
  BY <1>1 DEF UsageInv, CallsKept
<1>4. (\A i \in DOMAIN report.part : PartOK(i))' /\ PairsOK'
  <2>1. report' = report /\ recorded' = recorded
    BY DEF Store
  <2>2. drops' = 0 => drops = 0
    BY <1>1
  <2>3. \A c \in usage' \cup report.asked : recorded'[c] = recorded[c]
    BY <2>1
  <2>4. QED
    BY <1>1, <1>3, <2>1, <2>2, <2>3, PartsStay
<1>5. BudgetOK'
  BY <1>1, <1>2, BudgetStays DEF Store, DayOf, UsageTyped
<1>6. QED
  BY <1>2, <1>4, <1>5 DEF UsageInv

LEMMA ClockTicksInv == ASSUME UsageAssumption, UsageInv, ClockTicks PROVE UsageInv'
<1>1. UsageTyped' /\ ReportShaped' /\ CallsKept'
  <2>1. warned' \in [over : BOOLEAN, asked : SUBSET Calls] /\ clock' \in 0 .. MaxClock
    BY DEF ClockTicks, UsageInv, UsageTyped, Untold, UsageAssumption
  <2>2. UsageTyped'
    BY <2>1 DEF ClockTicks, UsageInv, UsageTyped
  <2>3. ReportShaped' /\ CallsKept'
    BY DEF ClockTicks, UsageInv, ReportShaped, CallsKept, DayOf
  <2>4. QED
    BY <2>2, <2>3
<1>2. (\A i \in DOMAIN report.part : PartOK(i))' /\ PairsOK'
  BY PartsStay DEF ClockTicks
<1>3. BudgetOK'
  <2>1. CASE DayOf(clock') = DayOf(clock)
    BY <2>1, BudgetStays DEF ClockTicks, DayOf, UsageInv, UsageTyped
  <2>2. CASE DayOf(clock') # DayOf(clock)
    BY <2>2 DEF ClockTicks, Untold, BudgetOK
  <2>3. QED
    BY <2>1, <2>2
<1>4. QED
  BY <1>1, <1>2, <1>3 DEF UsageInv

\* A report of which there is nothing yet.
LEMMA EmptyReport ==
    ASSUME report'.part = <<>> PROVE (\A i \in DOMAIN report.part : PartOK(i))' /\ PairsOK'
BY DEF PairsOK, Covers

LEMMA NoReportIs ==
    NoReport \in Report /\ NoReport.kind = Absent /\ NoReport.part = <<>> /\ NoReport.asked = {}
BY DEF NoReport, Report

LEMMA AskReportInv ==
    ASSUME UsageAssumption, UsageInv, NEW which \in DOMAIN Queries, AskReport(which) PROVE UsageInv'
<1>1. PICK length \in {Hour, Day, Rolling} :
          /\ which \in {"overview", "forecast"} => length = Rolling
          /\ report' = [kind |-> which, length |-> length, now |-> clock, day |-> DayOf(clock),
                        asked |-> {c \in Calls : recorded[c] # Absent}, part |-> <<>>]
  BY QueryLists DEF AskReport, ReportKinds
<1>2. UNCHANGED <<clock, recorded, unsaved, swapped, usage, warned, drops>>
  BY DEF AskReport
<1>3. which \in ReportKinds /\ which # Absent /\ length \in Nat /\ clock \in Nat /\ DayOf(clock) \in Nat
  BY QueryLists, DivBounds DEF UsageInv, UsageTyped, UsageAssumption, DayOf, ReportKinds
<1>4. /\ report'.kind = which /\ report'.length = length /\ report'.now = clock
      /\ report'.day = DayOf(clock) /\ report'.part = <<>>
      /\ report'.asked = {c \in Calls : recorded[c] # Absent}
  BY <1>1
<1>5. report' \in Report
  BY <1>1, <1>3 DEF Report
<1>6. UsageTyped'
  BY <1>2, <1>5 DEF UsageInv, UsageTyped
<1>7. ReportShaped'
  <2>1. Len(Queries[which]) \in Nat /\ Len(<<>>) = 0
    BY <1>3, QueryLists, StatsList, OverviewList DEF ReportKinds
  <2>2. QED
    BY <1>1, <1>2, <1>3, <1>4, <2>1 DEF ReportShaped, DayOf, ReportKinds
<1>8. CallsKept'
  BY <1>2, <1>4 DEF UsageInv, CallsKept
<1>9. BudgetOK'
  <2>1. Recent(DayOf(clock))' = Recent(DayOf(clock)) /\ DayOf(clock)' = DayOf(clock)
    BY <1>2 DEF Recent, DayOf
  <2>2. QED
    BY <1>2, <1>4, <2>1 DEF UsageInv, BudgetOK, Over
<1>10. QED
  BY <1>4, <1>6, <1>7, <1>8, <1>9, EmptyReport DEF UsageInv

LEMMA QueryFailsInv == ASSUME UsageAssumption, UsageInv, QueryFails PROVE UsageInv'
<1>1. /\ usage \subseteq usage' /\ usage' \subseteq usage \cup unsaved
      /\ drops \in Nat /\ drops' \in Nat /\ drops' # 0
  BY DEF QueryFails, UsageInv, UsageTyped
<1>2. report' = NoReport
  BY DEF QueryFails
<1>3. UsageTyped'
  BY <1>1, <1>2, NoReportIs DEF QueryFails, UsageInv, UsageTyped
<1>4. ReportShaped'
  BY <1>2, NoReportIs DEF ReportShaped, UsageAssumption, DayOf
<1>5. CallsKept'
  BY <1>1, <1>2, NoReportIs DEF QueryFails, UsageInv, CallsKept
<1>6. BudgetOK'
  <2>1. PICK d : d = DayOf(clock)
    OBVIOUS
  <2>2. PICK older, newer : older = Recent(d) /\ newer = Recent(d)'
    OBVIOUS
  <2>3. older \subseteq newer /\ newer \subseteq Calls
    BY <1>1, <1>3, <2>2 DEF Recent, QueryFails, DayOf, UsageTyped
  <2>4. Over(older) => Over(newer)
    BY <2>3, OverMore
  <2>5. (Over(Recent(d)) => Over(Recent(d))') /\ DayOf(clock)' = d
    BY <2>1, <2>2, <2>4 DEF Over, QueryFails, DayOf
  <2>6. report'.kind # "forecast"
    BY <1>2, NoReportIs DEF UsageAssumption
  <2>7. QED
    BY <2>1, <2>5, <2>6 DEF UsageInv, BudgetOK, QueryFails
<1>7. QED
  BY <1>2, <1>3, <1>4, <1>5, <1>6, EmptyReport, NoReportIs DEF UsageInv

\* The month of an overview is within the last days of its day.
LEMMA MonthIsRecent ==
    ASSUME UsageAssumption, UsageInv, report.kind = "overview", 1 \in DOMAIN report.part
    PROVE  Sum(1) \subseteq Recent(report.day)
<1>1. Nth(1) = "month"
  BY QueryLists, OverviewList DEF Nth
<1>2. report.length = Rolling /\ report.day = DayOf(report.now) /\ report.now \in Nat
  BY DEF UsageInv, ReportShaped, UsageTyped, Report
<1>3. report.now >= DayOf(report.now) * Day /\ DayOf(report.now) \in Nat
  BY <1>2, DivBounds DEF DayOf, UsageAssumption
<1>4. ASSUME NEW c \in Sum(1) PROVE c \in Recent(report.day)
  <2>1. c \in usage /\ recorded[c] + Rolling >= report.now
    BY <1>1, <1>2 DEF UsageInv, PartOK, Meant
  <2>2. recorded[c] \in Nat
    BY <2>1 DEF UsageInv, UsageTyped, CallsKept
  <2>3. recorded[c] + Rolling >= DayOf(report.now) * Day
    BY <1>2, <1>3, <2>1, <2>2 DEF UsageAssumption
  <2>4. DayOf(recorded[c]) * Day + Rolling >= DayOf(report.now) * Day
    BY <1>2, <2>2, <2>3, DaysOfMonth
  <2>5. QED
    BY <1>2, <2>1, <2>4 DEF Recent
<1>5. QED
  BY <1>4

LEMMA ReplyInv == ASSUME UsageAssumption, UsageInv, Reply PROVE UsageInv'
<1>1. report' = NoReport /\ UNCHANGED <<clock, recorded, unsaved, swapped, usage, drops>>
  BY DEF Reply
<1>2. /\ report.kind \in ReportKinds /\ report.asked \subseteq Calls /\ Len(report.part) \in Nat
      /\ DOMAIN report.part = 1 .. Len(report.part)
  BY DEF Reply, UsageInv, UsageTyped, Report
<1>3. \/ warned' = warned \/ warned' = Untold
      \/ /\ warned' = [over |-> TRUE, asked |-> report.asked]
         /\ report.kind = "overview" /\ Over(Sum(1)) /\ report.day = DayOf(clock)
  BY DEF Reply, Sum
<1>4. warned' \in [over : BOOLEAN, asked : SUBSET Calls]
  <2>1. Untold \in [over : BOOLEAN, asked : SUBSET Calls]
    BY DEF Untold
  <2>2. [over |-> TRUE, asked |-> report.asked] \in [over : BOOLEAN, asked : SUBSET Calls]
    BY <1>2
  <2>3. warned \in [over : BOOLEAN, asked : SUBSET Calls]
    BY DEF UsageInv, UsageTyped
  <2>4. QED
    BY <1>3, <2>1, <2>2, <2>3
<1>5. UsageTyped'
  BY <1>1, <1>4, NoReportIs DEF UsageInv, UsageTyped
<1>6. ReportShaped'
  BY <1>1, NoReportIs DEF ReportShaped, UsageAssumption, DayOf
<1>7. CallsKept'
  BY <1>1, NoReportIs DEF UsageInv, CallsKept
<1>8. BudgetOK'
  <2>1. report'.kind # "forecast"
    BY <1>1, NoReportIs DEF UsageAssumption
  <2>2. Over(Recent(DayOf(clock)))' = Over(Recent(DayOf(clock)))
    BY <1>1 DEF Over, Recent, DayOf
  <2>3. CASE warned' = warned \/ warned' = Untold
    BY <2>1, <2>2, <2>3 DEF UsageInv, BudgetOK, Untold
  <2>4. CASE report.kind = "overview" /\ Over(Sum(1)) /\ report.day = DayOf(clock)
    <3>1. Len(report.part) >= 5
      BY <1>2, <2>4, QueryLists, OverviewList DEF Reply, Querying, UsageAssumption
    <3>2. 1 \in DOMAIN report.part
      BY <1>2, <3>1
    <3>3. PICK less, more : less = Sum(1) /\ more = Recent(report.day)
      OBVIOUS
    <3>4. less \subseteq more /\ more \subseteq Calls /\ Over(less)
      BY <2>4, <3>2, <3>3, MonthIsRecent DEF Recent, UsageInv, UsageTyped
    <3>5. Over(more)
      BY <3>4, OverMore
    <3>6. QED
      BY <2>1, <2>2, <2>4, <3>3, <3>5 DEF BudgetOK
  <2>5. QED
    BY <1>3, <2>3, <2>4
<1>9. QED
  BY <1>1, <1>5, <1>6, <1>7, <1>8, EmptyReport, NoReportIs DEF UsageInv

LEMMA NthNames ==
    ASSUME report.kind \in ReportKinds, NEW i \in 1 .. Len(Queries[report.kind])
    PROVE  /\ \/ Nth(i) \in {"calls", "models", "providers", "cost", "todayCost", "month", "monthly",
                             "byProvider", "byModel", "daily", "used"}
              \/ Nth(i) = "today" /\ report.kind \in {"stats", "overview"}
           /\ Nth(i) = "providers" => report.kind = "stats" /\ i = 3
<1>1. CASE report.kind = "stats"
  <2>1. i \in 1 .. 6 /\ Nth(i) = StatsQueries[i]
    BY <1>1, QueryLists, StatsList DEF Nth
  <2>2. i = 1 \/ i = 2 \/ i = 3 \/ i = 4 \/ i = 5 \/ i = 6
    BY <2>1
  <2>3. QED
    BY <1>1, <2>1, <2>2, StatsList
<1>2. CASE report.kind = "overview"
  <2>1. i \in 1 .. 5 /\ Nth(i) = OverviewQueries[i]
    BY <1>2, QueryLists, OverviewList DEF Nth
  <2>2. i = 1 \/ i = 2 \/ i = 3 \/ i = 4 \/ i = 5
    BY <2>1
  <2>3. QED
    BY <1>2, <2>1, <2>2, OverviewList
<1>3. CASE report.kind = "forecast"
  BY <1>3, QueryLists DEF Nth
<1>4. CASE report.kind = "credits"
  BY <1>4, QueryLists DEF Nth
<1>5. QED
  BY <1>1, <1>2, <1>3, <1>4 DEF ReportKinds

\* What the next query does: the part is all that it is meant to count in the
\* table as it is then, and nobody stored since is one it was asked about.
LEMMA NextPartIs ==
    ASSUME UsageAssumption, UsageInv, NextPart
    PROVE  \E k \in 1 .. 6 :
             /\ k = Len(report.part) + 1 /\ k \in 1 .. Len(Queries[report.kind])
             /\ report' \in Report /\ DOMAIN report'.part = 1 .. k /\ report.kind \in ReportKinds
             /\ report'.kind = report.kind /\ report'.length = report.length
             /\ report'.now = report.now /\ report'.asked = report.asked
             /\ report'.day = report.day \/ (Nth(k) = "providers" /\ report.kind = "stats" /\ k = 3)
             /\ \A i \in 1 .. k - 1 : report'.part[i] = report.part[i]
             /\ \A c : c \in Sum(k)' <=> c \in usage' /\ Meant(Nth(k), c)
             /\ usage \subseteq usage' /\ usage' \subseteq Calls
             /\ usage' \subseteq usage \cup unsaved /\ unsaved' \subseteq unsaved
             /\ k = 1 => swapped = {} /\ unsaved' = {} /\ usage' = usage \cup unsaved
             /\ \A c \in unsaved : c \in unsaved' \cup usage'
<1>0. PICK k, q : k = Len(report.part) + 1 /\ q = Nth(k)
  OBVIOUS
<1>1. report \in Report /\ report.kind # Absent /\ report.kind \in ReportKinds
  BY DEF NextPart, Querying, UsageInv, UsageTyped, Report
<1>2. /\ Len(report.part) \in Nat /\ report.part \in Seq(SUBSET SUBSET Calls)
      /\ DOMAIN report.part = 1 .. Len(report.part) /\ report.day \in Nat
  BY <1>1 DEF Report
<1>3. PICK n : n = Len(Queries[report.kind])
  OBVIOUS
<1>4. n \in Nat /\ n <= 6
  BY <1>1, <1>3, QueryLengths
<1>5. k \in 1 .. 6 /\ k \in 1 .. Len(Queries[report.kind])
  <2>1. Len(report.part) < n
    BY <1>3 DEF NextPart, Querying
  <2>2. PICK l \in Nat : l = Len(report.part)
    BY <1>2
  <2>3. k = l + 1 /\ l < n
    BY <1>0, <2>1, <2>2
  <2>4. k \in 1 .. 6 /\ k \in 1 .. n
    BY <1>4, <2>2, <2>3
  <2>5. QED
    BY <1>3, <2>4
<1>6. q = NextQuery
  BY <1>0 DEF NextQuery, Nth
<1>7. q = "providers" => report.kind = "stats" /\ k = 3
  BY <1>0, <1>1, <1>5, NthNames
<1>8. Flushed(q) /\ UNCHANGED <<clock, recorded, swapped, warned, drops>>
  BY <1>6 DEF NextPart
<1>9. /\ usage \subseteq usage' /\ usage' \subseteq Calls
      /\ usage' \subseteq usage \cup unsaved /\ unsaved' \subseteq unsaved
      /\ \A c \in unsaved : c \in unsaved' \cup usage'
  BY <1>8 DEF Flushed, UsageInv, UsageTyped
<1>10. k = 1 => swapped = {} /\ unsaved' = {} /\ usage' = usage \cup unsaved
  BY <1>7, <1>8 DEF Flushed, Unflushed
<1>11. PICK all, sums : all = usage' /\ sums = Summed(q, all)
  OBVIOUS
<1>12. \A c : c \in UNION sums <=> c \in all /\ Meant(q, c)
  BY <1>0, <1>1, <1>5, <1>11, NthNames, SummedIs
<1>13. sums \in SUBSET SUBSET Calls
  BY <1>9, <1>11, <1>12
<1>14. PICK day \in Nat :
          /\ day = report.day \/ q = "providers"
          /\ report' = [kind |-> report.kind, length |-> report.length, now |-> report.now,
                        day |-> day, asked |-> report.asked, part |-> Append(report.part, sums)]
  <2>1. DayOf(clock) \in Nat
    BY DivBounds DEF DayOf, UsageInv, UsageTyped, UsageAssumption
  <2>2. PICK day : day = IF q = "providers" THEN DayOf(clock) ELSE report.day
    OBVIOUS
  <2>3. report' = [report EXCEPT !.part = Append(report.part, sums), !.day = day]
    BY <1>6, <1>11, <2>2 DEF NextPart
  <2>4. report' = [kind |-> report.kind, length |-> report.length, now |-> report.now,
                   day |-> day, asked |-> report.asked, part |-> Append(report.part, sums)]
    BY <1>1, <2>3, Zenon DEF Report
  <2>5. QED
    BY <1>2, <2>1, <2>2, <2>4
<1>15. PICK part : part = Append(report.part, sums)
  OBVIOUS
<1>16. /\ part \in Seq(SUBSET SUBSET Calls) /\ DOMAIN part = 1 .. k /\ part[k] = sums
       /\ \A i \in 1 .. k - 1 : part[i] = report.part[i]
  BY <1>0, <1>2, <1>13, <1>15
<1>17. /\ report'.part = part /\ report'.day = day
       /\ report'.kind = report.kind /\ report'.length = report.length
       /\ report'.now = report.now /\ report'.asked = report.asked
  BY <1>14, <1>15
<1>18. report' \in Report
  BY <1>1, <1>14, <1>15, <1>16 DEF Report
<1>19. Sum(k)' = UNION sums
  BY <1>16, <1>17 DEF Sum
<1>20. \A c : c \in Sum(k)' <=> c \in usage' /\ Meant(Nth(k), c)
  BY <1>0, <1>11, <1>12, <1>19
<1>21. (\A i \in 1 .. k - 1 : report'.part[i] = report.part[i]) /\ DOMAIN report'.part = 1 .. k
  BY <1>16, <1>17
<1>22. report'.day = report.day \/ (Nth(k) = "providers" /\ report.kind = "stats" /\ k = 3)
  BY <1>0, <1>7, <1>14, <1>17
<1>23. QED
  BY <1>0, <1>1, <1>5, <1>9, <1>10, <1>17, <1>18, <1>20, <1>21, <1>22

\* The date a report goes by changes only when no part of it has used it.
LEMMA MeantStays ==
    ASSUME report.kind \in ReportKinds, recorded' = recorded,
           report'.kind = report.kind, report'.length = report.length,
           report'.now = report.now, report'.asked = report.asked,
           NEW k \in 1 .. Len(Queries[report.kind]), NEW i \in 1 .. k, NEW c,
           report'.day = report.day \/ (report.kind = "stats" /\ k = 3)
    PROVE  Nth(i)' = Nth(i) /\ (Meant(Nth(i), c)' <=> Meant(Nth(i), c))
<1>1. Nth(i)' = Nth(i)
  BY DEF Nth
<1>2. CASE report'.day = report.day
  BY <1>1, <1>2 DEF Meant, DayOf
<1>3. CASE report.kind = "stats" /\ k = 3
  <2>1. i = 1 \/ i = 2 \/ i = 3
    BY <1>3
  <2>2. Nth(i) \in {"calls", "models", "providers"}
    BY <1>3, <2>1, QueryLists, StatsList DEF Nth
  <2>3. QED
    BY <1>1, <2>2 DEF Meant
<1>4. QED
  BY <1>2, <1>3

\* Of a month a day is part: the 30 days are longer than one.
LEMMA DayInMonth ==
    ASSUME UsageAssumption, NEW r \in Nat, NEW n \in Nat, DayOf(r) >= DayOf(n)
    PROVE  r + Rolling >= n
<1> DEFINE q == r \div Day
           p == n \div Day
           m == Rolling \div Day
<1>1. Day \in Nat \ {0} /\ Rolling \in Nat \ {0} /\ Rolling % Day = 0
  BY DEF UsageAssumption
<1>2. q \in Nat /\ p \in Nat /\ q * Day <= r /\ n < p * Day + Day /\ q >= p
  BY <1>1, DivBounds DEF DayOf
<1>3. m \in Nat /\ Rolling = m * Day
  BY <1>1, DivBounds
<1> HIDE DEF p, q, m
<1>4. q * Day >= p * Day
  BY <1>1, <1>2
<1>5. Rolling >= Day
  <2>1. m # 0
    BY <1>1, <1>3
  <2>2. m * Day >= 1 * Day
    BY <1>1, <1>3, <2>1
  <2>3. QED
    BY <1>1, <1>3, <2>2
<1>6. q * Day \in Nat /\ p * Day \in Nat
  BY <1>1, <1>2
<1>7. QED
  BY <1>1, <1>2, <1>4, <1>5, <1>6

LEMMA NextPartInv == ASSUME UsageAssumption, UsageInv, NextPart PROVE UsageInv'
<1>1. UNCHANGED <<clock, recorded, swapped, warned, drops>>
  BY DEF NextPart
<1>2. PICK k \in 1 .. 6 :
             /\ k = Len(report.part) + 1 /\ k \in 1 .. Len(Queries[report.kind])
             /\ report' \in Report /\ DOMAIN report'.part = 1 .. k /\ report.kind \in ReportKinds
             /\ report'.kind = report.kind /\ report'.length = report.length
             /\ report'.now = report.now /\ report'.asked = report.asked
             /\ report'.day = report.day \/ (Nth(k) = "providers" /\ report.kind = "stats" /\ k = 3)
             /\ \A i \in 1 .. k - 1 : report'.part[i] = report.part[i]
             /\ \A c : c \in Sum(k)' <=> c \in usage' /\ Meant(Nth(k), c)
             /\ usage \subseteq usage' /\ usage' \subseteq Calls
             /\ usage' \subseteq usage \cup unsaved /\ unsaved' \subseteq unsaved
             /\ k = 1 => swapped = {} /\ unsaved' = {} /\ usage' = usage \cup unsaved
             /\ \A c \in unsaved : c \in unsaved' \cup usage'
  BY NextPartIs
<1>3. /\ report.kind # Absent /\ Len(report.part) \in Nat /\ report.asked \subseteq Calls
      /\ DOMAIN report.part = 1 .. Len(report.part) /\ report.now \in Nat
  BY DEF NextPart, Querying, UsageInv, UsageTyped, Report
<1>4. DOMAIN report.part = 1 .. k - 1
  BY <1>2, <1>3
<1>5. k # 1 => report.part # <<>>
  BY <1>4
<1>6. UsageTyped'
  BY <1>1, <1>2 DEF UsageInv, UsageTyped
<1>7. ReportShaped'
  <2>1. Len(report'.part) = k
    BY <1>2 DEF Report
  <2>2. k <= Len(Queries[report.kind])
    BY <1>2
  <2>3. report.kind \in {"overview", "forecast", "credits"} => report'.day = report.day
    BY <1>2
  <2>4. QED
    BY <1>2, <1>3, <2>1, <2>2, <2>3 DEF UsageInv, ReportShaped, DayOf
<1>8. k # 1 => report.asked \cap (unsaved \cup swapped) = {}
  BY <1>5 DEF UsageInv, CallsKept
<1>9. CallsKept'
  <2>1. \A c \in unsaved' \cup swapped' \cup usage' \cup report'.asked : recorded'[c] # Absent
    BY <1>1, <1>2 DEF UsageInv, CallsKept
  <2>2. drops' = 0 => \A c \in Calls : recorded'[c] # Absent => c \in unsaved' \cup swapped' \cup usage'
    BY <1>1, <1>2 DEF UsageInv, CallsKept
  <2>3. report'.asked \cap (unsaved' \cup swapped') = {}
    BY <1>1, <1>2, <1>8
  <2>4. QED
    BY <2>1, <2>2, <2>3 DEF CallsKept
<1>10. ASSUME NEW i \in 1 .. k, NEW c
       PROVE  Nth(i)' = Nth(i) /\ (Meant(Nth(i), c)' <=> Meant(Nth(i), c))
  BY <1>1, <1>2, MeantStays
<1>11. \A i \in 1 .. k - 1 : Sum(i)' = Sum(i) /\ PartOK(i)
  BY <1>2, <1>4 DEF Sum, UsageInv
<1>12. ASSUME NEW c \in report.asked, drops = 0 PROVE c \in usage'
  BY <1>2, <1>3, <1>8, <1>12 DEF UsageInv, CallsKept
<1>13. ASSUME NEW i \in 1 .. k - 1 PROVE PartOK(i)'
  <2>1. PartOK(i) /\ Sum(i)' = Sum(i) /\ i \in 1 .. k /\ k # 1
    BY <1>11
  <2>2. \A c \in Sum(i)' : c \in usage' /\ Meant(Nth(i), c)'
    BY <1>2, <1>10, <2>1 DEF PartOK
  <2>3. drops' = 0 => \A c \in report'.asked : Meant(Nth(i), c)' => c \in Sum(i)'
    BY <1>1, <1>2, <1>10, <2>1 DEF PartOK
  <2>4. ASSUME Nth(i) = "month", NEW c \in usage', Meant(Nth(i), c) PROVE c \in Sum(i)
    <3>1. c \in report.asked
      BY <2>4 DEF Meant
    <3>2. c \in usage
      BY <1>2, <1>8, <2>1, <2>4, <3>1
    <3>3. QED
      BY <2>1, <2>4, <3>2 DEF PartOK
  <2>5. QED
    BY <1>10, <2>1, <2>2, <2>3, <2>4 DEF PartOK
<1>14. PartOK(k)'
  BY <1>1, <1>2, <1>10, <1>12 DEF PartOK
<1>15. (\A i \in DOMAIN report.part : PartOK(i))'
  <2>1. \A i \in 1 .. k : i = k \/ i \in 1 .. k - 1
    OBVIOUS
  <2>2. \A i \in 1 .. k : PartOK(i)'
    BY <1>13, <1>14, <2>1
  <2>3. QED
    BY <1>2, <2>2
<1>16. ASSUME NEW i \in 1 .. 6, NEW j \in 1 .. 6, i < j, Covers(i, j),
              j = k => \A c \in usage' : Meant(Nth(i), c) => Meant(Nth(j), c)
       PROVE  Covers(i, j)'
  <2>1. SUFFICES ASSUME i \in 1 .. k, j \in 1 .. k PROVE Sum(i)' \subseteq Sum(j)'
    BY <1>2 DEF Covers
  <2>2. i \in 1 .. k - 1 /\ Sum(i)' = Sum(i) /\ PartOK(i)
    BY <1>11, <1>16, <2>1
  <2>3. CASE j = k
    BY <1>2, <1>16, <2>2, <2>3 DEF PartOK
  <2>4. CASE j \in 1 .. k - 1
    BY <1>4, <1>11, <1>16, <2>2, <2>4 DEF Covers
  <2>5. QED
    BY <2>1, <2>3, <2>4
<1>17. PairsOK'
  <2>1. CASE report.kind = "stats"
    <3>1. /\ Nth(1) = "calls" /\ Nth(2) = "models" /\ Nth(3) = "providers"
          /\ Nth(4) = "today" /\ Nth(5) = "cost" /\ Nth(6) = "todayCost"
      BY <2>1, QueryLists, StatsList DEF Nth
    <3>2. Covers(1, 2) /\ Covers(2, 3) /\ Covers(3, 5) /\ Covers(4, 6)
      BY <2>1 DEF UsageInv, PairsOK
    <3>3. \A c : (Meant(Nth(1), c) => Meant(Nth(2), c)) /\ (Meant(Nth(2), c) => Meant(Nth(3), c))
      BY <3>1 DEF Meant
    <3>4. \A c : (Meant(Nth(3), c) => Meant(Nth(5), c)) /\ (Meant(Nth(4), c) => Meant(Nth(6), c))
      BY <2>1, <3>1 DEF Meant
    <3>5. Covers(1, 2)' /\ Covers(2, 3)'
      BY <1>16, <3>2, <3>3
    <3>6. Covers(3, 5)' /\ Covers(4, 6)'
      BY <1>16, <3>2, <3>4
    <3>7. QED
      BY <1>2, <2>1, <3>5, <3>6 DEF PairsOK
  <2>2. CASE report.kind = "overview"
    <3>1. /\ Nth(1) = "month" /\ Nth(2) = "today" /\ Nth(3) = "monthly"
          /\ Nth(4) = "byProvider" /\ Nth(5) = "byModel"
      BY <2>2, QueryLists, OverviewList DEF Nth
    <3>2. Covers(1, 3) /\ Covers(3, 4) /\ Covers(4, 5) /\ Covers(2, 1)
      BY <2>2 DEF UsageInv, PairsOK
    <3>3. \A c : Meant(Nth(3), c) /\ Meant(Nth(4), c) /\ Meant(Nth(5), c)
      BY <3>1 DEF Meant
    <3>4. Covers(1, 3)' /\ Covers(3, 4)' /\ Covers(4, 5)'
      BY <1>16, <3>2, <3>3
    <3>5. Covers(2, 1)'
      <4>1. SUFFICES ASSUME 2 \in 1 .. k, NEW c \in Sum(2)' PROVE c \in Sum(1)'
        BY <1>2 DEF Covers
      <4>2. CASE k # 2
        <5>1. 1 \in 1 .. k - 1 /\ 2 \in 1 .. k - 1
          BY <1>2, <4>1, <4>2
        <5>2. QED
          BY <1>4, <1>11, <3>2, <4>1, <5>1 DEF Covers
      <4>3. CASE k = 2
        <5>1. c \in usage' /\ Meant("today", c)
          BY <1>2, <3>1, <4>1, <4>3
        <5>2. DayOf(recorded[c]) >= report.day /\ c \in report.asked
          BY <2>2, <5>1 DEF Meant
        <5>3. recorded[c] \in Nat
          BY <1>3, <5>2 DEF UsageInv, UsageTyped, CallsKept
        <5>4. report.length = Rolling /\ report.day = DayOf(report.now)
          BY <2>2 DEF UsageInv, ReportShaped
        <5>5. recorded[c] + report.length >= report.now
          <6>1. PICK r \in Nat : r = recorded[c]
            BY <5>3
          <6>2. DayOf(r) >= DayOf(report.now)
            BY <5>2, <5>4, <6>1
          <6>3. r + Rolling >= report.now
            BY <1>3, <6>2, DayInMonth
          <6>4. QED
            BY <5>4, <6>1, <6>3
        <5>6. Meant("month", c)
          BY <5>2, <5>5 DEF Meant
        <5>7. PartOK(1)' /\ Nth(1)' = "month" /\ (Meant("month", c)' <=> Meant("month", c))
          BY <1>10, <1>13, <3>1, <4>3
        <5>8. QED
          BY <5>1, <5>6, <5>7 DEF PartOK
      <4>4. QED
        BY <4>2, <4>3
    <3>6. QED
      BY <1>2, <2>2, <3>4, <3>5 DEF PairsOK
  <2>3. CASE report.kind \notin {"stats", "overview"}
    BY <1>2, <2>3 DEF PairsOK
  <2>4. QED
    BY <2>1, <2>2, <2>3
<1>18. BudgetOK'
  <2>1. SUFFICES ASSUME warned.over PROVE BudgetOK'
    BY <1>1 DEF BudgetOK
  <2>2. PICK d : d = DayOf(clock)
    OBVIOUS
  <2>3. PICK older, newer : older = Recent(d) /\ newer = Recent(d)'
    OBVIOUS
  <2>4. /\ older \subseteq newer /\ newer \subseteq Calls
        /\ newer = {c \in usage' : DayOf(recorded[c]) * Day + Rolling >= d * Day}
    BY <1>1, <1>2, <2>3 DEF Recent, DayOf
  <2>5. Over(older)
    BY <2>1, <2>2, <2>3 DEF UsageInv, BudgetOK
  <2>6. Over(newer)
    BY <2>4, <2>5, OverMore
  <2>7. CASE report.kind = "forecast"
    <3>1. k = 1 /\ Nth(1) = "daily"
      BY <1>2, <2>7, QueryLists DEF Nth
    <3>2. report'.day = d /\ report.day = d
      BY <1>2, <2>1, <2>2, <2>7 DEF UsageInv, BudgetOK
    <3>3. \A c : Meant("daily", c) <=> DayOf(recorded[c]) * Day + Rolling >= d * Day
      BY <3>2 DEF Meant
    <3>4. \A c : c \in Sum(1)' <=> c \in newer
      BY <1>2, <2>4, <3>1, <3>3
    <3>5. PICK sum : sum = Sum(1)'
      OBVIOUS
    <3>6. sum = newer
      BY <3>4, <3>5
    <3>7. Over(Sum(1))' /\ Over(Recent(d))' /\ DayOf(clock)' = d
      BY <1>1, <2>2, <2>3, <2>6, <3>5, <3>6 DEF Over, DayOf
    <3>8. QED
      BY <1>1, <3>2, <3>7 DEF BudgetOK
  <2>8. CASE report.kind # "forecast"
    <3>1. Over(Recent(d))' /\ DayOf(clock)' = d
      BY <1>1, <2>2, <2>3, <2>6 DEF Over, DayOf
    <3>2. QED
      BY <1>2, <2>8, <3>1 DEF BudgetOK
  <2>9. QED
    BY <2>7, <2>8
<1>19. QED
  BY <1>6, <1>7, <1>9, <1>15, <1>17, <1>18 DEF UsageInv

LEMMA UsageStep == ASSUME UsageAssumption, UsageInv, [UsageNext]_usageVars PROVE UsageInv'
<1>1. CASE UNCHANGED usageVars
  <2>1. UNCHANGED <<clock, recorded, unsaved, swapped, usage, report, warned, drops>>
    BY <1>1 DEF usageVars
  <2>2. UsageTyped' /\ ReportShaped' /\ CallsKept'
    BY <2>1 DEF UsageInv, UsageTyped, ReportShaped, CallsKept, DayOf
  <2>3. (\A i \in DOMAIN report.part : PartOK(i))' /\ PairsOK'
    BY <2>1, PartsStay
  <2>4. BudgetOK'
    <3>1. usage \subseteq Calls /\ DayOf(clock)' = DayOf(clock)
      BY <2>1 DEF UsageInv, UsageTyped, DayOf
    <3>2. QED
      BY <2>1, <3>1, BudgetStays
  <2>5. QED
    BY <2>2, <2>3, <2>4 DEF UsageInv
<1>2. CASE UsageNext
  BY <1>2, RecordInv, SwapInv, StoreInv, AskReportInv, NextPartInv, QueryFailsInv, ReplyInv,
     ClockTicksInv DEF UsageNext
<1>3. QED
  BY <1>1, <1>2

\* The name of a query stands for the part of its number.
LEMMA PartIs ==
    ASSUME report.kind \in ReportKinds, report.part \in Seq(SUBSET SUBSET Calls),
           NEW n \in Nat, n = Len(Queries[report.kind]), Len(report.part) <= n, NEW i \in 1 .. n,
           \A j \in 1 .. n : Nth(j) = Nth(i) => j = i
    PROVE  /\ HasPart(Nth(i)) <=> i \in DOMAIN report.part
           /\ HasPart(Nth(i)) => Part(Nth(i)) = Sum(i)
<1>1. DOMAIN report.part = 1 .. Len(report.part) /\ Len(report.part) \in Nat
  OBVIOUS
<1>2. \A j \in DOMAIN report.part : Queries[report.kind][j] = Nth(i) <=> j = i
  BY <1>1 DEF Nth
<1>3. HasPart(Nth(i)) <=> i \in DOMAIN report.part
  BY <1>2 DEF HasPart
<1>4. ASSUME HasPart(Nth(i)) PROVE Part(Nth(i)) = Sum(i)
  <2>1. (CHOOSE j \in DOMAIN report.part : Queries[report.kind][j] = Nth(i)) = i
    BY <1>2, <1>3, <1>4
  <2>2. QED
    BY <2>1 DEF Part, Sum
<1>5. QED
  BY <1>3, <1>4

LEMMA WithinIs ==
    ASSUME report.kind \in ReportKinds, report.part \in Seq(SUBSET SUBSET Calls),
           NEW n \in Nat, n = Len(Queries[report.kind]), Len(report.part) <= n,
           \A i, j \in 1 .. n : Nth(j) = Nth(i) => j = i,
           NEW i \in 1 .. n, NEW j \in 1 .. n, Covers(i, j)
    PROVE  Within(Nth(i), Nth(j))
<1>1. /\ HasPart(Nth(i)) <=> i \in DOMAIN report.part
      /\ HasPart(Nth(i)) => Part(Nth(i)) = Sum(i)
  BY PartIs
<1>2. /\ HasPart(Nth(j)) <=> j \in DOMAIN report.part
      /\ HasPart(Nth(j)) => Part(Nth(j)) = Sum(j)
  BY PartIs
<1>3. QED
  BY <1>1, <1>2 DEF Within, Covers

LEMMA PartsDoAgree == ASSUME UsageAssumption, UsageInv PROVE PartsAgree
<1>1. report.part \in Seq(SUBSET SUBSET Calls)
  BY DEF UsageInv, UsageTyped, Report
<1>2. ASSUME report.kind = "stats"
      PROVE  /\ Within("calls", "models") /\ Within("models", "providers")
             /\ Within("providers", "cost") /\ Within("today", "todayCost")
  <2>1. /\ Nth(1) = "calls" /\ Nth(2) = "models" /\ Nth(3) = "providers"
        /\ Nth(4) = "today" /\ Nth(5) = "cost" /\ Nth(6) = "todayCost"
    BY <1>2, QueryLists, StatsList DEF Nth
  <2>2. report.kind \in ReportKinds /\ 6 = Len(Queries[report.kind]) /\ Len(report.part) <= 6
    BY <1>2, QueryLists, StatsList DEF UsageInv, ReportShaped, ReportKinds, UsageAssumption
  <2>3. \A i \in 1 .. 6 : i = 1 \/ i = 2 \/ i = 3 \/ i = 4 \/ i = 5 \/ i = 6
    OBVIOUS
  <2>4. \A i, j \in 1 .. 6 : Nth(j) = Nth(i) => j = i
    BY <2>1, <2>3
  <2>5. Covers(1, 2) /\ Covers(2, 3) /\ Covers(3, 5) /\ Covers(4, 6)
    BY <1>2 DEF UsageInv, PairsOK
  <2>6. ASSUME NEW i \in 1 .. 6, NEW j \in 1 .. 6, Covers(i, j) PROVE Within(Nth(i), Nth(j))
    <3>1. PICK n \in Nat : n = 6
      OBVIOUS
    <3>2. /\ n = Len(Queries[report.kind]) /\ Len(report.part) <= n /\ i \in 1 .. n /\ j \in 1 .. n
          /\ \A k, l \in 1 .. n : Nth(l) = Nth(k) => l = k
      BY <2>2, <2>4, <3>1
    <3>3. QED
      BY <1>1, <2>2, <2>6, <3>2, WithinIs
  <2>7. /\ Within(Nth(1), Nth(2)) /\ Within(Nth(2), Nth(3))
        /\ Within(Nth(3), Nth(5)) /\ Within(Nth(4), Nth(6))
    BY <2>5, <2>6
  <2>8. QED
    BY <2>1, <2>7
<1>3. ASSUME report.kind = "overview"
      PROVE  /\ Within("today", "month") /\ Within("month", "monthly")
             /\ Within("monthly", "byProvider") /\ Within("byProvider", "byModel")
  <2>1. /\ Nth(1) = "month" /\ Nth(2) = "today" /\ Nth(3) = "monthly"
        /\ Nth(4) = "byProvider" /\ Nth(5) = "byModel"
    BY <1>3, QueryLists, OverviewList DEF Nth
  <2>2. report.kind \in ReportKinds /\ 5 = Len(Queries[report.kind]) /\ Len(report.part) <= 5
    BY <1>3, QueryLists, OverviewList DEF UsageInv, ReportShaped, ReportKinds, UsageAssumption
  <2>3. \A i \in 1 .. 5 : i = 1 \/ i = 2 \/ i = 3 \/ i = 4 \/ i = 5
    OBVIOUS
  <2>4. \A i, j \in 1 .. 5 : Nth(j) = Nth(i) => j = i
    BY <2>1, <2>3
  <2>5. Covers(2, 1) /\ Covers(1, 3) /\ Covers(3, 4) /\ Covers(4, 5)
    BY <1>3 DEF UsageInv, PairsOK
  <2>6. ASSUME NEW i \in 1 .. 5, NEW j \in 1 .. 5, Covers(i, j) PROVE Within(Nth(i), Nth(j))
    <3>1. PICK n \in Nat : n = 5
      OBVIOUS
    <3>2. /\ n = Len(Queries[report.kind]) /\ Len(report.part) <= n /\ i \in 1 .. n /\ j \in 1 .. n
          /\ \A k, l \in 1 .. n : Nth(l) = Nth(k) => l = k
      BY <2>2, <2>4, <3>1
    <3>3. QED
      BY <1>1, <2>2, <2>6, <3>2, WithinIs
  <2>7. /\ Within(Nth(2), Nth(1)) /\ Within(Nth(1), Nth(3))
        /\ Within(Nth(3), Nth(4)) /\ Within(Nth(4), Nth(5))
    BY <2>5, <2>6
  <2>8. QED
    BY <2>1, <2>7
<1>4. QED
  BY <1>2, <1>3 DEF PartsAgree

LEMMA EarlierAreCounted == ASSUME UsageAssumption, UsageInv PROVE CountsEarlierCalls
<1> SUFFICES ASSUME drops = 0, NEW i \in DOMAIN report.part,
                    NEW c \in UNION Summed(Queries[report.kind][i], report.asked)
             PROVE  c \in UNION report.part[i]
  BY DEF CountsEarlierCalls
<1>1. /\ report.part # <<>> /\ DOMAIN report.part = 1 .. Len(report.part)
      /\ Len(report.part) \in Nat /\ report.kind \in ReportKinds \cup {Absent}
  BY DEF UsageInv, UsageTyped, Report
<1>2. report.kind # Absent /\ report.kind \in ReportKinds /\ Len(report.part) <= Len(Queries[report.kind])
  BY <1>1 DEF UsageInv, ReportShaped
<1>3. PICK n : n = Len(Queries[report.kind])
  OBVIOUS
<1>4. n \in Nat
  BY <1>2, <1>3, QueryLengths
<1>5. i \in 1 .. Len(Queries[report.kind])
  BY <1>1, <1>2, <1>3, <1>4
<1>6. PICK asked, query : asked = report.asked /\ query = Nth(i)
  OBVIOUS
<1>7. c \in asked /\ Meant(query, c)
  <2>1. c \in UNION Summed(query, asked)
    BY <1>6 DEF Nth
  <2>2. \A d : d \in UNION Summed(query, asked) <=> d \in asked /\ Meant(query, d)
    BY <1>2, <1>5, <1>6, NthNames, SummedIs
  <2>3. QED
    BY <2>1, <2>2
<1>8. PartOK(i)
  BY DEF UsageInv
<1>9. c \in Sum(i)
  BY <1>6, <1>7, <1>8 DEF PartOK
<1>10. QED
  BY <1>9 DEF Sum

LEMMA ForecastAgrees == ASSUME UsageAssumption, UsageInv PROVE ForecastNotRosier
<1> SUFFICES ASSUME report.kind = "forecast", HasPart("daily"), warned.over
             PROVE  DaysLeft(Part("daily")) = 0
  BY DEF ForecastNotRosier
<1>1. /\ Nth(1) = "daily" /\ report.kind \in ReportKinds /\ 1 = Len(Queries[report.kind])
      /\ Len(report.part) <= 1 /\ report.part \in Seq(SUBSET SUBSET Calls)
  BY QueryLists DEF Nth, UsageInv, UsageTyped, Report, ReportShaped, ReportKinds, UsageAssumption
<1>2. PICK n \in Nat : n = 1
  OBVIOUS
<1>3. /\ HasPart(Nth(1)) <=> 1 \in DOMAIN report.part
      /\ HasPart(Nth(1)) => Part(Nth(1)) = Sum(1)
  <2>1. PICK i \in 1 .. n : i = 1
    BY <1>2
  <2>2. \A j \in 1 .. n : Nth(j) = Nth(i) => j = i
    BY <1>2, <2>1
  <2>3. n = Len(Queries[report.kind]) /\ Len(report.part) <= n
    BY <1>1, <1>2
  <2>4. /\ HasPart(Nth(i)) <=> i \in DOMAIN report.part
        /\ HasPart(Nth(i)) => Part(Nth(i)) = Sum(i)
    BY <1>1, <2>2, <2>3, PartIs
  <2>5. QED
    BY <2>1, <2>4
<1>4. Part("daily") = Sum(1) /\ 1 \in DOMAIN report.part
  BY <1>1, <1>3
<1>5. report.part # <<>>
  BY <1>4
<1>6. Over(Sum(1)) /\ Sum(1) \subseteq Calls
  BY <1>1, <1>4, <1>5 DEF UsageInv, BudgetOK, Sum
<1>7. IsFiniteSet(Sum(1))
  BY <1>6, FS_Subset DEF UsageAssumption
<1>8. PICK m \in Nat : m = Cardinality(Sum(1))
  BY <1>7, FS_CardinalityType
<1>9. Budget > 0 /\ m >= Budget /\ Budget \in Nat
  BY <1>6, <1>8 DEF Over, UsageAssumption
<1>10. QED
  BY <1>4, <1>8, <1>9 DEF DaysLeft

\* What the reports say of the chat calls is one account of them, however the
\* queries of a report, the records and the flushes of the buffer come between
\* each other: the parts of a report agree, calls recorded before it was asked
\* for are in it, and a forecast does not contradict an overview of its day
\* (api/chat_usage.py:76, api/routes/admin/query.py:95, api/cost_forecast.py:7).
THEOREM ReportsAreOneAccount == UsageSpec => []ReportsAgree
<1>1. UsageInit => UsageInv
  BY UsageInitInv, UsageAssumption
<1>2. UsageInv /\ [UsageNext]_usageVars => UsageInv'
  BY UsageStep, UsageAssumption
<1>3. UsageInv => ReportsAgree
  BY PartsDoAgree, EarlierAreCounted, ForecastAgrees, UsageAssumption DEF ReportsAgree
<1>4. QED
  BY <1>1, <1>2, <1>3, PTL DEF UsageSpec

(* The flushes that fail are counted. *)
DropsCounted == UsageInv /\ drops \in 0 .. MaxDrops

LEMMA DropsInit == ASSUME UsageAssumption, UsageInit PROVE DropsCounted
<1>1. drops = 0 /\ MaxDrops \in Nat
  BY DEF UsageInit, UsageAssumption
<1>2. QED
  BY <1>1, UsageInitInv DEF DropsCounted

LEMMA DropsStep == ASSUME UsageAssumption, DropsCounted, [UsageNext]_usageVars PROVE DropsCounted'
<1>1. UsageInv'
  BY UsageStep DEF DropsCounted
<1>2. drops' = drops \/ (drops < MaxDrops /\ drops' = drops + 1)
  BY DEF UsageNext, usageVars, Record, Swap, Store, AskReport, NextPart, QueryFails, Reply, ClockTicks
<1>3. drops' \in 0 .. MaxDrops
  BY <1>2 DEF DropsCounted, UsageAssumption
<1>4. QED
  BY <1>1, <1>3 DEF DropsCounted

LEMMA UsageIsTyped == ASSUME DropsCounted PROVE UsageTypes
<1>1. UsageTyped /\ ReportShaped /\ drops \in 0 .. MaxDrops
  BY DEF DropsCounted, UsageInv
<1>2. report.kind \in ReportKinds \cup {Absent} /\ report.part \in Seq(SUBSET SUBSET Calls)
  BY <1>1 DEF UsageTyped, Report
<1>3. Len(report.part) <= 6
  <2>1. CASE report.kind = Absent
    <3>1. report.part = <<>>
      BY <1>1, <2>1 DEF ReportShaped
    <3>2. QED
      BY <3>1
  <2>2. CASE report.kind # Absent
    <3>1. /\ Len(Queries[report.kind]) \in Nat /\ Len(Queries[report.kind]) <= 6
      BY <1>2, <2>2, QueryLengths
    <3>2. Len(report.part) <= Len(Queries[report.kind]) /\ Len(report.part) \in Nat
      BY <1>1, <1>2, <2>2 DEF ReportShaped
    <3>3. QED
      BY <3>1, <3>2
  <2>3. QED
    BY <2>1, <2>2
<1>4. report.kind \in DOMAIN Queries \cup {Absent}
  BY <1>2, QueryLists
<1>5. QED
  BY <1>1, <1>3, <1>4 DEF UsageTypes, UsageTyped

(* The types of the records and of the report that is being made           *)
(* (api/chat_usage.py): it has no more parts than queries.                 *)
THEOREM UsageTypeCorrect == UsageSpec => []UsageTypes
<1>1. UsageSpec => []DropsCounted
  BY UsageAssumption, DropsInit, DropsStep, PTL DEF UsageSpec
<1>2. QED
  BY <1>1, UsageIsTyped, PTL
=============================================================================
