---------------------------- MODULE MCTaskEngine ----------------------------
(* Small instances of TaskEngine for TLC. *)
EXTENDS TaskEngine

CONSTANTS w1, w2

TwoWorkers == <<w1, w2>>
OneEach == [p \in Priorities |-> 1]

\* Only the order in which start() creates them tells the workers apart; while
\* the process is down none of them holds anything.
WorkersAlike == Permutations(Workers)

\* Bound: at most two of a crash, a dead-letter retry and a database error.
AtMostTwo == crashes + requeues + dbErrors <= 2
=============================================================================
