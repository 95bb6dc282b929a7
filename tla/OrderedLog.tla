----------------------------- MODULE OrderedLog -----------------------------
(***************************************************************************)
(* What the write buffer of the database promises, whatever its locks,     *)
(* timer and readers do: a statement that was accepted into the buffer     *)
(* reaches the database once, in the order of acceptance, unless a failure *)
(* drops the oldest of those that wait; a direct statement may overtake    *)
(* the ones that wait.                                                     *)
(***************************************************************************)
EXTENDS Naturals, Sequences

VARIABLES count,    \* statements numbered so far
          pending,  \* accepted, not yet in the database, oldest first
          log       \* the statements of the database, in their order

vars == <<count, pending, log>>

Init == count = 0 /\ pending = <<>> /\ log = <<>>

Accept ==
    /\ count' = count + 1
    /\ pending' = Append(pending, count')
    /\ UNCHANGED log

Direct ==
    /\ count' = count + 1
    /\ log' = Append(log, count')
    /\ UNCHANGED pending

Land ==
    /\ pending # <<>>
    /\ log' = Append(log, Head(pending))
    /\ pending' = Tail(pending)
    /\ UNCHANGED count

\* The k oldest are gone; the first of them may have landed.
Drop ==
    \E k \in 1 .. Len(pending) :
        /\ pending' = SubSeq(pending, k + 1, Len(pending))
        /\ log' \in {log, Append(log, Head(pending))}
        /\ UNCHANGED count

Next == Accept \/ Direct \/ Land \/ Drop

Spec == Init /\ [][Next]_vars
=============================================================================
