---------------------------- MODULE AgentMemory -----------------------------
(***************************************************************************)
(* The memory of the chat agent, api/agent/memory.py: what was observed    *)
(* (L0) is condensed into atoms (L1) by a loop that asks a model scene by  *)
(* scene, or sorts by importance when there is no model or it fails.  Each *)
(* statement is a transaction of its own under the lock; the whole pass is *)
(* not.  Nothing writes the layers L2 and L3.  An atom is known by the     *)
(* observation it comes from.                                              *)
(***************************************************************************)
EXTENDS Naturals, FiniteSets

CONSTANTS Observations, SceneOf,
          Weighty,   \* importance of 0.6 or more
          MaxAtoms,  \* bound: atoms made of one observation
          MaxSlips   \* bound: statements that fail

ASSUME MemoryAssumption == MaxAtoms \in Nat /\ MaxSlips \in Nat /\ SceneOf \in [Observations -> Nat]

VARIABLES unseen,  \* what is yet to be observed
          l0,      \* mem_observations
          atoms,   \* mem_atoms: observation and number
          cold,    \* those not asked for in 30 days
          made,    \* atoms made of an observation, ever
          condensed, \* passes that made atoms of it
          torn,    \* those of them that broke off
          pass,    \* the pass: what it has read, the scenes left, the answer of the model, what it wrote
          shown,   \* atoms a query has read and not yet touched
          slips

memoryVars == <<unseen, l0, atoms, cold, made, condensed, torn, pass, shown, slips>>

Asleep == [at |-> "asleep", rows |-> {}, scenes |-> {}, answer |-> {}, wrote |-> {}]

MemoryInit ==
    /\ unseen = Observations /\ l0 = {} /\ atoms = {} /\ cold = {}
    /\ made = [f \in Observations |-> 0] /\ condensed = [f \in Observations |-> 0] /\ torn = [f \in Observations |-> 0]
    /\ pass = Asleep /\ shown = {} /\ slips = 0

PassAt(label) == pass.at = label

Observe(f) ==
    /\ f \in unseen
    /\ unseen' = unseen \ {f} /\ l0' = l0 \cup {f}
    /\ UNCHANGED <<atoms, cold, made, condensed, torn, pass, shown, slips>>

\* consolidate: what there is, is read under the lock.  Without a model, or
\* with IF_MOCK_UPSTREAM, it is sorted at once.
Consolidate ==
    /\ PassAt("asleep") /\ l0 # {}
    /\ \/ pass' = [Asleep EXCEPT !.at = "model", !.rows = l0, !.scenes = {SceneOf[f] : f \in l0}]
       \/ pass' = [Asleep EXCEPT !.at = "sort"]
    /\ UNCHANGED <<unseen, l0, atoms, cold, made, condensed, torn, shown, slips>>

\* The model condenses the observations of a scene: each of them becomes none, one
\* or several lines, and a line becomes an atom.
Answer ==
    /\ PassAt("model") /\ pass.answer = {}
    /\ \E scene \in pass.scenes :
       \E facts \in SUBSET {f \in pass.rows : SceneOf[f] = scene} :
          pass' = [pass EXCEPT !.scenes = @ \ {scene}, !.answer = facts]
    /\ UNCHANGED <<unseen, l0, atoms, cold, made, condensed, torn, shown, slips>>

NewAtom(f) == <<f, made[f] + 1>>

\* In a pass an observation counts once, however many atoms it becomes.
WriteAtom ==
    /\ PassAt("model")
    /\ \E f \in pass.answer :
          /\ made[f] < MaxAtoms
          /\ atoms' = atoms \cup {NewAtom(f)}
          /\ made' = [made EXCEPT ![f] = @ + 1]
          /\ condensed' = [condensed EXCEPT ![f] = IF f \in pass.wrote THEN @ ELSE @ + 1]
          /\ \E lines \in {{}, {f}} :  \* the lines still to come about it
                /\ made'[f] = MaxAtoms => lines = {}
                /\ pass' = [pass EXCEPT !.answer = (@ \ {f}) \cup lines, !.wrote = @ \cup {f}]
    /\ UNCHANGED <<unseen, l0, cold, torn, shown, slips>>

\* mutant: the connection that deletes is not the one that commits
Uncommitted == l0

\* DELETE FROM mem_observations: all of them, also those observed meanwhile.
Cleared == {}

Clear ==
    /\ PassAt("model") /\ pass.scenes = {} /\ pass.answer = {}
    /\ l0' = Cleared
    /\ pass' = Asleep
    /\ UNCHANGED <<unseen, atoms, cold, made, condensed, torn, shown, slips>>

BreaksOff == torn' = [f \in Observations |-> IF f \in pass.wrote THEN torn[f] + 1 ELSE torn[f]]

\* The model, or a statement, fails: what is left is sorted by importance.
FallsBack ==
    /\ PassAt("model") /\ slips < MaxSlips
    /\ BreaksOff /\ pass' = [Asleep EXCEPT !.at = "sort"]
    /\ slips' = slips + 1
    /\ UNCHANGED <<unseen, l0, atoms, cold, made, condensed, shown>>

\* _consolidate_mock, one transaction: the weighty ones become atoms, L0 is
\* emptied, and atoms nobody has asked for are forgotten.
Sort ==
    /\ PassAt("sort") /\ \A f \in l0 \cap Weighty : made[f] < MaxAtoms
    /\ atoms' = (atoms \ cold) \cup {NewAtom(f) : f \in l0 \cap Weighty}
    /\ made' = [f \in Observations |-> IF f \in l0 \cap Weighty THEN made[f] + 1 ELSE made[f]]
    /\ condensed' = [f \in Observations |-> IF f \in l0 \cap Weighty THEN condensed[f] + 1 ELSE condensed[f]]
    /\ l0' = {} /\ cold' = {}
    /\ pass' = Asleep
    /\ UNCHANGED <<unseen, torn, shown, slips>>

\* Rolled back; the loop logs it and sleeps.
SortFails ==
    /\ PassAt("sort") /\ slips < MaxSlips
    /\ pass' = Asleep /\ slips' = slips + 1
    /\ UNCHANGED <<unseen, l0, atoms, cold, made, condensed, torn, shown>>

\* The process ends, by a stop of the loop or by a crash, and starts again.
MemoryRestarts ==
    /\ ~PassAt("asleep") /\ slips < MaxSlips
    /\ BreaksOff /\ pass' = Asleep /\ shown' = {}
    /\ slips' = slips + 1
    /\ UNCHANGED <<unseen, l0, atoms, cold, made, condensed>>

\* query reads the atoms of a scene and touches them afterwards.
Query(scene) ==
    /\ shown = {}
    /\ shown' = {a \in atoms : SceneOf[a[1]] = scene} /\ shown' # {}
    /\ UNCHANGED <<unseen, l0, atoms, cold, made, condensed, torn, pass, slips>>

Touch ==
    /\ shown # {} /\ shown' = {}
    /\ cold' = cold \ shown
    /\ UNCHANGED <<unseen, l0, atoms, made, condensed, torn, pass, slips>>

Age(a) ==
    /\ a \in atoms \ cold /\ cold' = cold \cup {a}
    /\ UNCHANGED <<unseen, l0, atoms, made, condensed, torn, pass, shown, slips>>

MemoryNext ==
    \/ \E f \in Observations : Observe(f)
    \/ Consolidate \/ Answer \/ WriteAtom \/ Clear \/ FallsBack \/ Sort \/ SortFails \/ MemoryRestarts \/ Touch
    \/ \E scene \in {SceneOf[f] : f \in Observations} : Query(scene)
    \/ \E a \in atoms : Age(a)

MemorySpec == MemoryInit /\ [][MemoryNext]_memoryVars

-----------------------------------------------------------------------------
\* Types of the layers and of the pass; the atoms are numbered as they were made
\* (api/agent/memory.py).
MemoryTypes ==
    /\ unseen \subseteq Observations /\ l0 \subseteq Observations \ unseen
    /\ cold \subseteq atoms /\ \A a \in atoms : a[2] \in 1..made[a[1]]
    /\ made \in [Observations -> 0..MaxAtoms] /\ condensed \in [Observations -> 0..MaxAtoms]
    /\ torn \in [Observations -> 0..MaxSlips]
    /\ pass.at \in {"asleep", "model", "sort"}
    /\ pass.answer \subseteq pass.rows /\ pass.wrote \subseteq pass.rows

\* "避免重复巩固" (api/agent/memory.py:240, 330): an observation is condensed by a
\* second pass only when one that had made atoms of it broke off.
OnceUnlessTorn == \A f \in Observations : condensed[f] <= torn[f] + 1
=============================================================================
