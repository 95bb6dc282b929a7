---------------------------- MODULE MCEditLease -----------------------------
(* Small instances of EditLease for TLC. *)
EXTENDS EditLease

CONSTANTS j1, j2, j3, p, q

\* Two jobs share a process, the third comes from another one.
Posted == [j \in Jobs |-> IF j = j3 THEN q ELSE p]
=============================================================================
