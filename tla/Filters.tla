------------------------------ MODULE Filters ------------------------------
(***************************************************************************)
(* What a list keeps of its members.  It is SelectSeq of a set, as a       *)
(* recursive function: of that one theorems can be proved for every list.  *)
(***************************************************************************)
EXTENDS Naturals, Sequences

Keeping(s, T) ==
    LET Kept[i \in 0 .. Len(s)] ==
            IF i = 0 THEN <<>> ELSE IF s[i] \in T THEN Append(Kept[i - 1], s[i]) ELSE Kept[i - 1]
    IN  Kept[Len(s)]
=============================================================================
