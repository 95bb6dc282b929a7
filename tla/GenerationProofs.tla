-------------------------- MODULE GenerationProofs --------------------------
(***************************************************************************)
(* Proofs about what a generation passes on its way to a site and back,    *)
(* for all downloads and slots, tasks, loops and batch sizes, generations, *)
(* deployments and sniffs, edits and exits: no image carries a piece of    *)
(* another, a batch keeps every outcome and leaves no task, an action id   *)
(* gives way to later ones only and is refused for a reason, edits of one  *)
(* exit do not meet at the site, and of the requests with one key one      *)
(* generates.                                                              *)
(***************************************************************************)
EXTENDS Downloads, BatchWorker, ActionSniffer, EditExits, Dispatch,
        SequenceTheorems, FunctionTheorems, FiniteSetTheorems, WellFoundedInduction, TLAPS

-----------------------------------------------------------------------------
(* Lists                                                                   *)

\* A set of numbers has a least one.
LEMMA LeastNumber == ASSUME NEW T \in SUBSET Nat, T # {} PROVE \E m \in T : \A n \in T : m <= n
<1> DEFINE R == {ss \in Nat \X Nat : ss[1] < ss[2]}
<1>1. IsWellFoundedOn(R, Nat)
  BY NatLessThanWellFounded, Zenon DEF OpToRel
<1> HIDE DEF R
<1>2. PICK m \in T : \A n \in T : <<n, m>> \notin R
  BY <1>1, WFMin, Zenon
<1>3. ASSUME NEW n \in T PROVE m <= n
  <2>1. m \in Nat /\ n \in Nat /\ <<n, m>> \notin R
    BY <1>2
  <2>2. ~(n < m)
    BY <2>1 DEF R
  <2>3. QED
    BY <2>1, <2>2
<1>4. QED
  BY <1>3

\* Every set of numbers with zero and the next of each up to n.
LEMMA AllUpTo == ASSUME NEW n \in Nat, NEW G \in SUBSET Nat, 0 \in G, \A m \in 0 .. n - 1 : m \in G => m + 1 \in G
              PROVE  n \in G
<1> SUFFICES ASSUME n \notin G PROVE FALSE
  OBVIOUS
<1> DEFINE T == {m \in 0 .. n : m \notin G}
<1>1. T \in SUBSET Nat /\ T # {}
  OBVIOUS
<1>2. PICK m \in T : \A k \in T : m <= k
  BY <1>1, LeastNumber, Zenon
<1>3. m \in 1 .. n /\ m - 1 \in 0 .. n /\ ~(m <= m - 1)
  OBVIOUS
<1>4. m - 1 \in G
  BY <1>2, <1>3
<1>5. m - 1 + 1 = m /\ m - 1 \in 0 .. n - 1
  BY <1>3
<1>6. QED
  BY <1>4, <1>5

\* The lists that Keeping builds, one for each beginning of the list, exist.
LEMMA KeptExists ==
    ASSUME NEW s, NEW T, Len(s) \in Nat
    PROVE  \E f : f = [i \in 0 .. Len(s) |->
              IF i = 0 THEN <<>> ELSE IF s[i] \in T THEN Append(f[i - 1], s[i]) ELSE f[i - 1]]
<1> DEFINE Is(f, n) == f = [i \in 0 .. n |->
              IF i = 0 THEN <<>> ELSE IF s[i] \in T THEN Append(f[i - 1], s[i]) ELSE f[i - 1]]
           G == {n \in Nat : \E f : Is(f, n)}
<1>1. 0 \in G
  <2>1. Is([i \in 0 .. 0 |-> <<>>], 0)
    OBVIOUS
  <2>2. QED
    BY <2>1, Zenon
<1>2. ASSUME NEW m \in Nat, m \in G PROVE m + 1 \in G
  <2>1. PICK f : Is(f, m)
    BY <1>2
  <2>2. PICK x : x = IF s[m + 1] \in T THEN Append(f[m], s[m + 1]) ELSE f[m]
    OBVIOUS
  <2>3. PICK g : g = [i \in 0 .. m + 1 |-> IF i = m + 1 THEN x ELSE f[i]]
    OBVIOUS
  <2>4. \A i \in 0 .. m + 1 : g[i] = IF i = 0 THEN <<>> ELSE IF s[i] \in T THEN Append(g[i - 1], s[i]) ELSE g[i - 1]
    <3>1. SUFFICES ASSUME NEW i \in 0 .. m + 1
                   PROVE  g[i] = IF i = 0 THEN <<>> ELSE IF s[i] \in T THEN Append(g[i - 1], s[i]) ELSE g[i - 1]
      OBVIOUS
    <3>2. CASE i = m + 1
      <4>1. g[i] = x /\ i # 0 /\ i - 1 = m /\ g[m] = f[m]
        BY <2>3, <3>2
      <4>2. QED
        BY <2>2, <3>2, <4>1
    <3>3. CASE i = 0
      BY <2>1, <2>3, <3>3
    <3>4. CASE i \in 1 .. m
      <4>1. g[i] = f[i] /\ g[i - 1] = f[i - 1] /\ i # 0 /\ i \in 0 .. m
        BY <2>3, <3>4
      <4>2. f[i] = IF i = 0 THEN <<>> ELSE IF s[i] \in T THEN Append(f[i - 1], s[i]) ELSE f[i - 1]
        BY <2>1, <4>1, Zenon
      <4>3. QED
        BY <4>1, <4>2, Zenon
    <3>5. QED
      BY <3>2, <3>3, <3>4
  <2>5. g = [i \in 0 .. m + 1 |-> g[i]]
    BY <2>3
  <2>6. Is(g, m + 1)
    BY <2>4, <2>5
  <2>7. QED
    BY <2>6, SMTT(30)
<1> HIDE DEF Is, G
<1>3. G \in SUBSET Nat
  BY DEF G
<1>4. Len(s) \in G
  BY <1>1, <1>2, <1>3, AllUpTo
<1>5. QED
  BY <1>4, Zenon DEF G, Is


LEMMA KeptIs ==
    ASSUME NEW s, NEW T, NEW n \in Nat, Len(s) = n
    PROVE  \E f : /\ Keeping(s, T) = f[n] /\ f[0] = <<>>
                  /\ \A i \in 1 .. n : f[i] = IF s[i] \in T THEN Append(f[i - 1], s[i]) ELSE f[i - 1]
<1> DEFINE Is(f) == f = [i \in 0 .. Len(s) |->
                           IF i = 0 THEN <<>> ELSE IF s[i] \in T THEN Append(f[i - 1], s[i]) ELSE f[i - 1]]
<1>1. \E f : Is(f)
  BY KeptExists, ZenonT(40)
<1>2. PICK f : f = CHOOSE g : Is(g)
  OBVIOUS
<1>3. Is(f)
  BY <1>1, <1>2, Zenon
<1>4. Keeping(s, T) = f[n]
  BY <1>2, Zenon DEF Keeping
<1>5. f[0] = <<>>
  <2>1. 0 \in 0 .. Len(s)
    OBVIOUS
  <2>2. QED
    BY <1>3, <2>1, Zenon
<1>6. ASSUME NEW i \in 1 .. n PROVE f[i] = IF s[i] \in T THEN Append(f[i - 1], s[i]) ELSE f[i - 1]
  <2>1. i \in 0 .. Len(s) /\ i # 0
    OBVIOUS
  <2>2. QED
    BY <1>3, <2>1, Zenon
<1>7. QED
  BY <1>4, <1>5, <1>6, Zenon

\* One more, that is not yet there.
LEMMA OneAppended ==
    ASSUME NEW S, NEW s \in Seq(S), NEW x \in S
    PROVE  /\ Append(s, x) \in Seq(S) /\ Len(Append(s, x)) = Len(s) + 1
           /\ ToSet(Append(s, x)) = ToSet(s) \cup {x}
           /\ IsInjective(s) /\ x \notin ToSet(s) => IsInjective(Append(s, x))
<1>1. PICK t : t = Append(s, x)
  OBVIOUS
<1>2. /\ t \in Seq(S) /\ Len(t) = Len(s) + 1 /\ Len(s) \in Nat /\ t[Len(s) + 1] = x
      /\ \A i \in 1 .. Len(s) : t[i] = s[i]
      /\ DOMAIN t = 1 .. Len(s) + 1 /\ DOMAIN s = 1 .. Len(s)
  BY <1>1, AppendProperties, LenProperties
<1>3. \A i \in 1 .. Len(s) + 1 : i \in 1 .. Len(s) \/ i = Len(s) + 1
  BY <1>2
<1>4. ToSet(t) = ToSet(s) \cup {x}
  <2>1. ASSUME NEW y \in ToSet(t) PROVE y \in ToSet(s) \cup {x}
    BY <1>2, <1>3, <2>1 DEF ToSet
  <2>2. Len(s) + 1 \in 1 .. Len(s) + 1 /\ \A i \in 1 .. Len(s) : i \in 1 .. Len(s) + 1
    BY <1>2
  <2>3. x \in ToSet(t)
    BY <1>2, <2>2, Zenon DEF ToSet
  <2>4. ASSUME NEW y \in ToSet(s) PROVE y \in ToSet(t)
    BY <1>2, <2>2, <2>4, Zenon DEF ToSet
  <2>5. QED
    BY <2>1, <2>3, <2>4
<1>5. ASSUME IsInjective(s), x \notin ToSet(s) PROVE IsInjective(t)
  <2>1. \A i, j \in 1 .. Len(s) : s[i] = s[j] => i = j
    BY <1>2, <1>5 DEF IsInjective
  <2>2. \A i \in 1 .. Len(s) : s[i] # x
    BY <1>5 DEF ToSet
  <2>3. ASSUME NEW i \in 1 .. Len(s) + 1, NEW j \in 1 .. Len(s) + 1, t[i] = t[j] PROVE i = j
    BY <1>2, <1>3, <2>1, <2>2, <2>3
  <2>4. QED
    BY <1>2, <2>3 DEF IsInjective
<1>6. QED
  BY <1>1, <1>2, <1>4, <1>5

\* What is kept: those of the set, no more than there were, and none twice.
LEMMA KeepingIs ==
    ASSUME NEW S, NEW s \in Seq(S), NEW T
    PROVE  /\ Keeping(s, T) \in Seq(S) /\ Len(Keeping(s, T)) <= Len(s)
           /\ ToSet(Keeping(s, T)) = ToSet(s) \cap T
           /\ IsInjective(s) => IsInjective(Keeping(s, T))
<1>1. Len(s) \in Nat /\ DOMAIN s = 1 .. Len(s) /\ \A i \in 1 .. Len(s) : s[i] \in S
  BY ElementOfSeq, LenProperties
<1>2. PICK f : /\ Keeping(s, T) = f[Len(s)] /\ f[0] = <<>>
               /\ \A i \in 1 .. Len(s) : f[i] = IF s[i] \in T THEN Append(f[i - 1], s[i]) ELSE f[i - 1]
  <2>1. Len(s) \in Nat /\ Len(s) = Len(s)
    BY <1>1
  <2>2. QED
    BY <2>1, KeptIs
<1>3. f[0] = <<>> /\ \A i \in 1 .. Len(s) : f[i] = IF s[i] \in T THEN Append(f[i - 1], s[i]) ELSE f[i - 1]
  BY <1>2
<1> DEFINE Prefix(m) == {s[j] : j \in 1 .. m}
           Good(m) == /\ f[m] \in Seq(S) /\ Len(f[m]) <= m
                      /\ ToSet(f[m]) = Prefix(m) \cap T
                      /\ IsInjective(s) => IsInjective(f[m])
           G == {m \in Nat : m <= Len(s) /\ Good(m)}
<1>4. Good(0)
  <2>1. f[0] \in Seq(S) /\ Len(f[0]) = 0 /\ ToSet(f[0]) = {} /\ IsInjective(f[0])
    <3>1. <<>> \in Seq(S) /\ Len(<<>>) = 0 /\ DOMAIN <<>> = {}
      BY EmptySeq
    <3>2. QED
      BY <1>3, <3>1, Zenon DEF ToSet, IsInjective
  <2>2. Prefix(0) = {}
    OBVIOUS
  <2>3. QED
    BY <2>1, <2>2
<1>5. ASSUME NEW m \in 0 .. Len(s) - 1, Good(m) PROVE Good(m + 1)
  <2>1. m + 1 \in 1 .. Len(s) /\ m + 1 - 1 = m /\ m \in Nat
    BY <1>1
  <2>2. Prefix(m + 1) = Prefix(m) \cup {s[m + 1]}
    BY <2>1
  <2>3. f[m + 1] = IF s[m + 1] \in T THEN Append(f[m], s[m + 1]) ELSE f[m]
    BY <1>3, <2>1
  <2>4. s[m + 1] \in S /\ f[m] \in Seq(S) /\ Len(f[m]) \in Nat
    BY <1>1, <1>5, <2>1, LenProperties
  <2>5. IsInjective(s) => s[m + 1] \notin Prefix(m)
    <3>1. ASSUME IsInjective(s), NEW j \in 1 .. m, s[j] = s[m + 1] PROVE FALSE
      <4>1. j \in DOMAIN s /\ m + 1 \in DOMAIN s /\ j # m + 1
        BY <1>1, <2>1
      <4>2. QED
        BY <3>1, <4>1 DEF IsInjective
    <3>2. QED
      BY <3>1
  <2> HIDE DEF Prefix
  <2>6. CASE s[m + 1] \in T
    <3>1. /\ Append(f[m], s[m + 1]) \in Seq(S) /\ Len(Append(f[m], s[m + 1])) = Len(f[m]) + 1
          /\ ToSet(Append(f[m], s[m + 1])) = ToSet(f[m]) \cup {s[m + 1]}
          /\ IsInjective(f[m]) /\ s[m + 1] \notin ToSet(f[m]) => IsInjective(Append(f[m], s[m + 1]))
      BY <2>4, OneAppended
    <3>2. f[m + 1] = Append(f[m], s[m + 1])
      BY <2>3, <2>6
    <3>3. QED
      BY <1>5, <2>1, <2>2, <2>4, <2>5, <2>6, <3>1, <3>2
  <2>7. CASE s[m + 1] \notin T
    <3>1. f[m + 1] = f[m]
      BY <2>3, <2>7
    <3>2. QED
      BY <1>5, <2>1, <2>2, <2>4, <2>7, <3>1
  <2>8. QED
    BY <2>6, <2>7
<1> HIDE DEF Good
<1>6. Len(s) \in G
  <2>1. 0 \in G
    BY <1>1, <1>4
  <2>2. ASSUME NEW m \in 0 .. Len(s) - 1, m \in G PROVE m + 1 \in G
    BY <1>1, <1>5, <2>2
  <2> HIDE DEF G
  <2>3. G \in SUBSET Nat
    BY DEF G
  <2>4. QED
    BY <1>1, <2>1, <2>2, <2>3, AllUpTo
<1>7. Prefix(Len(s)) = ToSet(s)
  BY <1>1 DEF ToSet
<1>8. QED
  BY <1>2, <1>6, <1>7 DEF Good

-----------------------------------------------------------------------------
(* Downloads                                                               *)

-----------------------------------------------------------------------------
(* The inductive invariant.                                                *)

\* A slot is in the deque once at most, and only if it is free.
FreeOnce ==
    /\ \A i \in 1 .. Len(deque) : idle[deque[i]]
    /\ \A i, j \in 1 .. Len(deque) : deque[i] = deque[j] => i = j

Reading(d) == load[d].at = "reading"

\* The buffer of a download is taken, nobody else's, and holds its pieces.
Mine(d) ==
    Reading(d) =>
        /\ load[d].buf \in Slots \cup {d}
        /\ load[d].buf \in Slots => ~idle[load[d].buf]
        /\ held[load[d].buf] \in Seq({d, Zeros})

Apart == \A d, e \in Loads : Reading(d) /\ Reading(e) /\ d # e => load[d].buf # load[e].buf

Own(d) == load[d].image \in Seq({d, Zeros})

DownloadInv == DownloadTypes /\ FreeOnce /\ (\A d \in Loads : Mine(d) /\ Own(d)) /\ Apart

Loading == [at : {"waiting", "reading", "done", "failed"},
         buf : Slots \cup Pieces, len : 0 .. (Most + 1), image : Seq(Pieces)]

-----------------------------------------------------------------------------
(* Sequences.                                                              *)

\* What is left when the first is gone.
LEMMA RestListed ==
    ASSUME NEW S, NEW s \in Seq(S), s # <<>> PROVE Tail(s) \in Seq(S) /\ ToSet(Tail(s)) \subseteq ToSet(s)
<1>1. Len(s) \in Nat /\ DOMAIN s = 1 .. Len(s)
  BY LenProperties
<1>2. /\ Tail(s) \in Seq(S) /\ Len(Tail(s)) = Len(s) - 1 /\ \A i \in 1 .. Len(s) - 1 : Tail(s)[i] = s[i + 1]
  BY <1>1, HeadTailProperties, EmptySeq
<1>3. DOMAIN Tail(s) = 1 .. Len(s) - 1
  BY <1>2, LenProperties
<1>4. \A i \in 1 .. Len(s) - 1 : i + 1 \in 1 .. Len(s)
  BY <1>1
<1>5. QED
  BY <1>1, <1>2, <1>3, <1>4 DEF ToSet

\* The members of a finite set in some order, none of them twice.
LEMMA MembersInOrder ==
    ASSUME NEW S, IsFiniteSet(S)
    PROVE  /\ SetToSeq(S) \in Seq(S) /\ Len(SetToSeq(S)) = Cardinality(S)
           /\ ToSet(SetToSeq(S)) = S /\ IsInjective(SetToSeq(S))
<1>1. PICK n : n = Cardinality(S)
  OBVIOUS
<1>2. n \in Nat /\ \E f \in [1 .. n -> S] : IsInjective(f)
  <2>1. n \in Nat /\ ExistsBijection(1 .. n, S)
    BY <1>1, FS_CardinalityType
  <2>2. QED
    BY <2>1 DEF ExistsBijection, Bijection, Injection
<1>3. PICK f : f = SetToSeq(S)
  OBVIOUS
<1>4. f \in [1 .. n -> S] /\ IsInjective(f)
  BY <1>1, <1>2, <1>3 DEF SetToSeq
<1>5. f \in Seq(S) /\ Len(f) = n
  BY <1>2, <1>4, IsASeq, LenProperties
<1>6. ToSet(f) = S
  <2>1. Cardinality(1 .. n) = n
    BY <1>2, FS_Interval
  <2>2. f \in Injection(1 .. n, S)
    BY <1>4 DEF Injection
  <2>3. f \in Surjection(1 .. n, S)
    BY <1>1, <2>1, <2>2, FS_Injection
  <2>4. QED
    BY <1>4, <2>3 DEF Surjection, ToSet
<1>7. QED
  BY <1>1, <1>3, <1>4, <1>5, <1>6

LEMMA SlotsInOrder ==
    /\ SetToSeq(Slots) \in Seq(Slots)
    /\ \A i, j \in 1 .. Len(SetToSeq(Slots)) : SetToSeq(Slots)[i] = SetToSeq(Slots)[j] => i = j
<1>1. PICK s : s = SetToSeq(Slots)
  OBVIOUS
<1>2. s \in Seq(Slots) /\ IsInjective(s)
  BY <1>1, DownloadAssumption, MembersInOrder
<1>3. QED
  BY <1>1, <1>2, LenProperties DEF IsInjective

\* A piece of its own, the start of its buffer.
LEMMA StartOf ==
    ASSUME NEW S, NEW s \in Seq(S), NEW k \in Nat
    PROVE  SubSeq(s, 1, Min({k, Len(s)})) \in Seq(S)
<1> DEFINE m == Min({k, Len(s)})
<1>1. Len(s) \in Nat
  BY LenProperties
<1>2. \E x \in {k, Len(s)} : \A y \in {k, Len(s)} : x <= y
  <2>1. CASE k <= Len(s)
    BY <2>1, <1>1
  <2>2. CASE Len(s) <= k
    BY <2>2, <1>1
  <2>3. QED
    BY <1>1, <2>1, <2>2
<1>3. m \in Nat /\ m <= Len(s)
  BY <1>1, <1>2 DEF Min
<1> HIDE DEF m
<1>4. \A i \in 1 .. m : s[i] \in S
  BY <1>1, <1>3, ElementOfSeq
<1>5. SubSeq(s, 1, m) \in Seq(S)
  BY <1>3, <1>4, SubSeqProperties
<1>6. QED
  BY <1>5 DEF m

LEMMA DownloadInitInv == ASSUME DownloadInit PROVE DownloadInv
<1>1. deque \in Seq(Slots) /\ \A i, j \in 1 .. Len(deque) : deque[i] = deque[j] => i = j
  BY SlotsInOrder DEF DownloadInit
<1>2. \A i \in 1 .. Len(deque) : deque[i] \in Slots
  BY <1>1, ElementOfSeq
<1>3. FreeOnce
  BY <1>1, <1>2 DEF FreeOnce, DownloadInit
<1>4. DownloadTypes
  BY DownloadAssumption, <1>1 DEF DownloadInit, New, DownloadTypes, Pieces
<1>5. \A d \in Loads : Mine(d) /\ Own(d)
  <2>1. \A d \in Loads : load[d].at = "waiting" /\ load[d].image = <<>>
    BY DEF DownloadInit, New
  <2>2. QED
    BY <2>1, EmptySeq DEF Mine, Reading, Own
<1>6. Apart
  BY DEF DownloadInit, New, Apart, Reading
<1>7. QED
  BY <1>3, <1>4, <1>5, <1>6 DEF DownloadInv

\* What an acquired buffer starts as.
LEMMA NewTurn ==
    ASSUME NEW d \in Loads, NEW b \in Slots \cup Loads
    PROVE  LET turn == [New EXCEPT !.at = "reading", !.buf = b]
           IN  /\ turn \in Loading /\ turn.at = "reading" /\ turn.buf = b
               /\ turn.image \in Seq({d, Zeros})
<1>1. 0 \in 0 .. (Most + 1)
  BY DownloadAssumption
<1>2. <<>> \in Seq(Pieces) /\ <<>> \in Seq({d, Zeros})
  BY EmptySeq
<1>3. New \in Loading
  BY <1>1, <1>2 DEF New, Loading, Pieces
<1>4. New.image = <<>>
  BY DEF New
<1>5. QED
  BY <1>2, <1>3, <1>4 DEF Loading, Pieces

-----------------------------------------------------------------------------
(* The steps of a download.                                                *)

\* A step of one download leaves the buffers of the others alone.
LEMMA OneSteps ==
    ASSUME DownloadInv, NEW d \in Loads, NEW turn \in Loading, load' = [load EXCEPT ![d] = turn],
           DownloadTypes', FreeOnce', Mine(d)', turn.image \in Seq({d, Zeros}),
           \A e \in Loads \ {d} : Reading(e) =>
                /\ turn.at = "reading" => load[e].buf # turn.buf
                /\ load[e].buf \in Slots => ~idle'[load[e].buf]
                /\ held'[load[e].buf] = held[load[e].buf]
    PROVE  DownloadInv'
<1>1. load'[d] = turn /\ \A e \in Loads \ {d} : load'[e] = load[e]
  BY DEF DownloadInv, DownloadTypes
<1>2. Own(d)'
  BY <1>1 DEF Own
<1>3. \A e \in Loads \ {d} : Mine(e)' /\ Own(e)'
  BY <1>1 DEF DownloadInv, Mine, Own, Reading
<1>4. Apart'
  BY <1>1 DEF DownloadInv, Apart, Reading
<1>5. QED
  BY <1>2, <1>3, <1>4 DEF DownloadInv

LEMMA TypesOfOne ==
    ASSUME DownloadTypes, NEW d \in Loads, NEW turn \in Loading, load' = [load EXCEPT ![d] = turn],
           idle' \in [Slots -> BOOLEAN], deque' \in Seq(Slots),
           held' \in [Slots \cup Loads -> Seq(Pieces)]
    PROVE  DownloadTypes'
<1>1. load \in [Loads -> Loading]
  BY DEF DownloadTypes, Loading
<1>2. load' \in [Loads -> Loading]
  BY <1>1
<1>3. QED
  BY <1>2 DEF DownloadTypes, Loading

LEMMA AcquireInv == ASSUME DownloadInv, NEW d \in Loads, AcquireBuffer(d) PROVE DownloadInv'
<1>1. CASE deque = <<>>
  <2> DEFINE turn == [New EXCEPT !.at = "reading", !.buf = d]
  <2>1. /\ load' = [load EXCEPT ![d] = turn] /\ held' = [held EXCEPT ![d] = <<Zeros>>]
        /\ UNCHANGED <<idle, deque>>
    BY <1>1 DEF AcquireBuffer, Lease
  <2>2. /\ turn \in Loading /\ turn.at = "reading" /\ turn.buf = d
        /\ turn.image \in Seq({d, Zeros})
    BY NewTurn
  <2> HIDE DEF turn
  <2>3. held' \in [Slots \cup Loads -> Seq(Pieces)] /\ held'[d] \in Seq({d, Zeros})
    BY <2>1 DEF DownloadInv, DownloadTypes, Pieces
  <2>4. DownloadTypes'
    BY <2>1, <2>2, <2>3, TypesOfOne DEF DownloadInv, DownloadTypes
  <2>5. FreeOnce'
    BY <2>1 DEF DownloadInv, FreeOnce
  <2>6. load'[d] = turn /\ d \notin Slots
    BY DownloadAssumption, <2>1 DEF DownloadInv, DownloadTypes
  <2>7. Mine(d)'
    BY <2>2, <2>3, <2>6 DEF Mine
  <2>8. ASSUME NEW e \in Loads \ {d}, Reading(e)
        PROVE  /\ load[e].buf # d /\ load[e].buf \in Slots \cup Loads
               /\ load[e].buf \in Slots => ~idle[load[e].buf]
    BY <2>6, <2>8 DEF DownloadInv, Mine
  <2>9. QED
    BY <2>1, <2>2, <2>4, <2>5, <2>7, <2>8, OneSteps, ZenonT(30) DEF DownloadInv, DownloadTypes
<1>2. CASE deque # <<>>
  <2> DEFINE s == Head(deque)
             turn == [New EXCEPT !.at = "reading", !.buf = s]
  <2>1. /\ load' = [load EXCEPT ![d] = turn] /\ held' = [held EXCEPT ![s] = <<>>]
        /\ deque' = Tail(deque) /\ idle' = [idle EXCEPT ![s] = FALSE]
    BY <1>2 DEF AcquireBuffer, Lease, Popped
  <2>2. /\ deque \in Seq(Slots) /\ s \in Slots /\ deque' \in Seq(Slots) /\ s = deque[1]
        /\ Len(deque) \in Nat /\ Len(deque') = Len(deque) - 1 /\ 1 \in 1 .. Len(deque)
        /\ \A i \in 1 .. Len(deque') : deque'[i] = deque[i + 1]
    <3>1. deque \in Seq(Slots) /\ Len(deque) \in Nat /\ Len(deque) # 0
      BY <1>2, EmptySeq, LenProperties DEF DownloadInv, DownloadTypes
    <3>2. QED
      BY <1>2, <2>1, <3>1, HeadTailProperties
  <2>3. idle[s] /\ \A i \in 1 .. Len(deque') : deque'[i] \in Slots /\ idle[deque'[i]] /\ deque'[i] # s
    <3>1. ASSUME NEW i \in 1 .. Len(deque') PROVE i + 1 \in 1 .. Len(deque) /\ i + 1 # 1
      BY <2>2
    <3>2. QED
      BY <2>2, <3>1, ElementOfSeq DEF DownloadInv, FreeOnce
  <2>4. \A i, j \in 1 .. Len(deque') : deque'[i] = deque'[j] => i = j
    BY <2>2 DEF DownloadInv, FreeOnce
  <2>5. /\ turn \in Loading /\ turn.at = "reading" /\ turn.buf = s
        /\ turn.image \in Seq({d, Zeros})
    BY <2>2, NewTurn
  <2> HIDE DEF turn, s
  <2>6. idle' \in [Slots -> BOOLEAN] /\ ~idle'[s] /\ \A b \in Slots \ {s} : idle'[b] = idle[b]
    BY <2>1, <2>2 DEF DownloadInv, DownloadTypes
  <2>7. /\ held' \in [Slots \cup Loads -> Seq(Pieces)] /\ held'[s] \in Seq({d, Zeros})
        /\ \A b \in (Slots \cup Loads) \ {s} : held'[b] = held[b]
    BY <2>1, <2>2, EmptySeq DEF DownloadInv, DownloadTypes
  <2>8. DownloadTypes'
    BY <2>1, <2>2, <2>5, <2>6, <2>7, TypesOfOne DEF DownloadInv
  <2>9. FreeOnce'
    BY <2>2, <2>3, <2>4, <2>6 DEF FreeOnce
  <2>10. load'[d] = turn
    BY <2>1 DEF DownloadInv, DownloadTypes
  <2>11. Mine(d)'
    BY <2>2, <2>5, <2>6, <2>7, <2>10 DEF Mine
  <2>12. ASSUME NEW e \in Loads \ {d}, Reading(e)
         PROVE  /\ load[e].buf # s /\ load[e].buf \in Slots \cup Loads
                /\ load[e].buf \in Slots => ~idle[load[e].buf]
    BY <2>2, <2>3, <2>12 DEF DownloadInv, Mine
  <2>13. QED
    BY <2>1, <2>5, <2>6, <2>7, <2>8, <2>9, <2>11, <2>12, OneSteps
<1>3. QED
  BY <1>1, <1>2

LEMMA DownloadReadInv == ASSUME DownloadInv, NEW d \in Loads, Extend(d) PROVE DownloadInv'
<1> DEFINE b == load[d].buf
           turn == [load[d] EXCEPT !.len = @ + 1]
<1>1. /\ held' = [held EXCEPT ![b] = Append(@, d)] /\ load' = [load EXCEPT ![d] = turn]
      /\ UNCHANGED <<idle, deque>>
  BY DEF Extend
<1>2. /\ load[d] \in Loading /\ Reading(d) /\ b \in Slots \cup Loads
      /\ b \in Slots \cup {d} /\ (b \in Slots => ~idle[b])
      /\ held[b] \in Seq({d, Zeros}) /\ held[b] \in Seq(Pieces) /\ Own(d)
  BY DEF DownloadInv, DownloadTypes, Loading, Extend, Reading, Mine
<1>3. turn \in Loading /\ turn.at = "reading" /\ turn.buf = b /\ turn.image = load[d].image
  <2>1. load[d].len \in 0 .. (Most + 1) /\ load[d].len < Most + 1 /\ Most \in Nat
    BY DownloadAssumption, <1>2 DEF Loading, Extend
  <2>2. load[d].len + 1 \in 0 .. (Most + 1)
    BY <2>1
  <2>3. QED
    BY <1>2, <2>2 DEF Loading, Reading
<1> HIDE DEF turn, b
<1>4. Append(held[b], d) \in Seq({d, Zeros}) /\ Append(held[b], d) \in Seq(Pieces)
  BY <1>2, AppendProperties DEF Pieces
<1>5. /\ held' \in [Slots \cup Loads -> Seq(Pieces)] /\ held'[b] \in Seq({d, Zeros})
      /\ \A c \in (Slots \cup Loads) \ {b} : held'[c] = held[c]
  BY <1>1, <1>2, <1>4 DEF DownloadInv, DownloadTypes
<1>6. DownloadTypes'
  BY <1>1, <1>3, <1>5, TypesOfOne DEF DownloadInv, DownloadTypes
<1>7. FreeOnce'
  BY <1>1 DEF DownloadInv, FreeOnce
<1>8. load'[d] = turn
  BY <1>1 DEF DownloadInv, DownloadTypes
<1>9. Mine(d)'
  BY <1>1, <1>2, <1>3, <1>5, <1>8 DEF Mine
<1>10. ASSUME NEW e \in Loads \ {d}, Reading(e)
       PROVE  /\ load[e].buf # b /\ load[e].buf \in Slots \cup Loads
              /\ load[e].buf \in Slots => ~idle[load[e].buf]
  BY <1>2, <1>10 DEF DownloadInv, Mine, Apart, b
<1>11. QED
  BY <1>1, <1>2, <1>3, <1>5, <1>6, <1>7, <1>9, <1>10, OneSteps DEF Own

\* A slot that is given back was not in the deque, and is nobody else's buffer.
LEMMA Releases ==
    ASSUME DownloadInv, NEW d \in Loads, Reading(d), Release(d)
    PROVE  /\ idle' \in [Slots -> BOOLEAN] /\ deque' \in Seq(Slots) /\ FreeOnce'
           /\ \A e \in Loads \ {d} :
                Reading(e) /\ load[e].buf \in Slots => ~idle'[load[e].buf]
<1> DEFINE s == load[d].buf
<1>1. CASE s \in Slots /\ ~idle[s]
  <2>1. idle' = [idle EXCEPT ![s] = TRUE] /\ deque' = Append(deque, s)
    BY <1>1 DEF Release
  <2>2. /\ deque \in Seq(Slots) /\ Len(deque) \in Nat
        /\ \A i \in 1 .. Len(deque) : deque[i] \in Slots /\ deque[i] # s /\ idle[deque[i]]
        /\ \A i, j \in 1 .. Len(deque) : deque[i] = deque[j] => i = j
    BY <1>1, ElementOfSeq, LenProperties DEF DownloadInv, DownloadTypes, FreeOnce
  <2>3. /\ deque' \in Seq(Slots) /\ Len(deque') = Len(deque) + 1 /\ deque'[Len(deque) + 1] = s
        /\ \A i \in 1 .. Len(deque) : deque'[i] = deque[i]
    BY <1>1, <2>1, <2>2, AppendProperties
  <2>4. idle' \in [Slots -> BOOLEAN] /\ idle'[s] /\ \A b \in Slots \ {s} : idle'[b] = idle[b]
    BY <1>1, <2>1 DEF DownloadInv, DownloadTypes
  <2> HIDE DEF s
  <2>5. \A i \in 1 .. Len(deque') : i = Len(deque) + 1 \/ i \in 1 .. Len(deque)
    BY <2>2, <2>3
  <2>6. FreeOnce'
    BY <2>2, <2>3, <2>4, <2>5 DEF FreeOnce
  <2>7. ASSUME NEW e \in Loads \ {d}, Reading(e), load[e].buf \in Slots
        PROVE  ~idle'[load[e].buf]
    BY <2>4, <2>7 DEF DownloadInv, Mine, Apart, s
  <2>8. QED
    BY <2>3, <2>4, <2>6, <2>7
<1>2. CASE ~(s \in Slots /\ ~idle[s])
  <2>1. UNCHANGED <<idle, deque>>
    BY <1>2 DEF Release
  <2>2. QED
    BY <2>1 DEF DownloadInv, DownloadTypes, FreeOnce, Mine
<1>3. QED
  BY <1>1, <1>2

\* A download that ends, with an image or none.
LEMMA EndsInv ==
    ASSUME DownloadInv, NEW d \in Loads, Reading(d), Release(d), UNCHANGED held,
           NEW turn \in Loading, load' = [load EXCEPT ![d] = turn], turn.at # "reading",
           turn.image \in Seq({d, Zeros})
    PROVE  DownloadInv'
<1>1. /\ idle' \in [Slots -> BOOLEAN] /\ deque' \in Seq(Slots) /\ FreeOnce'
      /\ \A e \in Loads \ {d} : Reading(e) /\ load[e].buf \in Slots => ~idle'[load[e].buf]
  BY Releases
<1>2. held' \in [Slots \cup Loads -> Seq(Pieces)]
  BY DEF DownloadInv, DownloadTypes
<1>3. DownloadTypes'
  BY <1>1, <1>2, TypesOfOne DEF DownloadInv
<1>4. load'[d] = turn
  BY DEF DownloadInv, DownloadTypes
<1>5. Mine(d)'
  BY <1>4 DEF Mine, Reading
<1>6. QED
  BY <1>1, <1>3, <1>5, OneSteps

LEMMA DoneInv == ASSUME DownloadInv, NEW d \in Loads, Done(d) PROVE DownloadInv'
<1> DEFINE buf == held[load[d].buf]
           image == SubSeq(buf, 1, Min({load[d].len, Len(buf)}))
           turn == [load[d] EXCEPT !.at = "done", !.image = image]
<1>1. /\ load' = [load EXCEPT ![d] = turn] /\ Reading(d) /\ Release(d) /\ UNCHANGED held
  BY DEF Done, Reading
<1>2. load[d] \in Loading /\ buf \in Seq({d, Zeros}) /\ load[d].len \in Nat
  BY DownloadAssumption, <1>1 DEF DownloadInv, DownloadTypes, Loading, Mine
<1> HIDE DEF buf
<1>3. image \in Seq({d, Zeros})
  BY <1>2, StartOf
<1> HIDE DEF image
<1>4. image \in Seq(Pieces)
  <2>1. {d, Zeros} \subseteq Pieces
    BY DEF Pieces
  <2>2. QED
    BY <1>3, <2>1, SeqMonotonic
<1>5. turn \in Loading /\ turn.at = "done" /\ turn.image = image
  BY <1>2, <1>4 DEF Loading
<1>6. QED
  BY <1>1, <1>3, <1>5, EndsInv

LEMMA FailsInv == ASSUME DownloadInv, NEW d \in Loads, DownloadFails(d) PROVE DownloadInv'
<1> DEFINE turn == [New EXCEPT !.at = "failed"]
<1>1. /\ load' = [load EXCEPT ![d] = turn] /\ Reading(d) /\ Release(d) /\ UNCHANGED held
  BY DEF DownloadFails, Reading
<1>2. <<>> \in Seq(Pieces) /\ <<>> \in Seq({d, Zeros}) /\ 0 \in 0 .. (Most + 1)
  BY DownloadAssumption, EmptySeq
<1>3. New \in Loading /\ New.image = <<>>
  BY <1>2 DEF New, Loading, Pieces
<1>4. turn \in Loading /\ turn.at = "failed" /\ turn.image = <<>>
  BY <1>3 DEF Loading
<1>5. QED
  BY <1>1, <1>2, <1>4, EndsInv

LEMMA DownloadInvariance == DownloadSpec => []DownloadInv
<1>1. DownloadInit => DownloadInv
  BY DownloadInitInv
<1>2. DownloadInv /\ [DownloadNext]_loadVars => DownloadInv'
  <2>1. CASE DownloadNext
    BY <2>1, AcquireInv, DownloadReadInv, DoneInv, FailsInv DEF DownloadNext
  <2>2. CASE UNCHANGED loadVars
    BY <2>2 DEF loadVars, DownloadInv, DownloadTypes, FreeOnce, Reading, Mine, Apart, Own
  <2>3. QED
    BY <2>1, <2>2
<1>3. QED
  BY <1>1, <1>2, PTL DEF DownloadSpec

-----------------------------------------------------------------------------
(* What follows.                                                           *)

\* Every variable keeps its type, whatever the downloads and slots.
THEOREM DownloadTypeCorrect == DownloadSpec => []DownloadTypes
<1>1. DownloadInv => DownloadTypes
  BY DEF DownloadInv
<1>2. QED
  BY <1>1, DownloadInvariance, PTL

\* However many downloads share however many buffers, no image carries a piece
\* of another one.
THEOREM ImagesApart == DownloadSpec => []NoForeignPiece
<1>1. DownloadInv => NoForeignPiece
  <2>1. ASSUME DownloadInv, NEW d \in Loads, NEW i \in DOMAIN load[d].image
        PROVE  load[d].image[i] \in {d, Zeros}
    <3>1. load[d].image \in Seq({d, Zeros})
      BY <2>1 DEF DownloadInv, Own
    <3>2. QED
      BY <2>1, <3>1, LenProperties, ElementOfSeq
  <2>2. QED
    BY <2>1 DEF NoForeignPiece, ToSet
<1>2. QED
  BY <1>1, DownloadInvariance, PTL

-----------------------------------------------------------------------------
(* Batches                                                                 *)

-----------------------------------------------------------------------------
(* The inductive invariant.                                                *)

TaskStatus == {"completed", "error", "pending", "processing", Unset}
ProcessStep == {"start", "work", "wrote", "returned", "raised", "cut", Unset}
Bunch == [at : {"idle", "wait", "look", "get", "off"}, batch : SUBSET Tasks,
         done : SUBSET Tasks, late : SUBSET Tasks, now : Tasks \cup {Unset}]

TypesOfBatches ==
    /\ queued \subseteq Tasks /\ orphans \subseteq Tasks /\ cuts \in 0 .. MaxCuts
    /\ status \in [Tasks -> TaskStatus] /\ process \in [Tasks -> ProcessStep] /\ bunch \in [Loops -> Bunch]

\* A task that waits has no process; one whose process may still write its
\* outcome has none, and one whose process has written it has one.
TaskOK(t) ==
    /\ t \in queued => process[t] = Unset /\ status[t] = "pending"
    /\ status[t] = Unset => process[t] = Unset
    /\ process[t] \in {"start", "work"} => status[t] \notin Terminal
    /\ process[t] \in {"wrote", "returned"} => status[t] \in Terminal

\* What a loop has no longer to look at has an outcome.
Seen(l) == bunch[l].batch \ (bunch[l].done \cup bunch[l].late)

LoopOK(l) ==
    /\ bunch[l].done \cup bunch[l].late \subseteq bunch[l].batch
    /\ bunch[l].at \in {"idle", "off"} => bunch[l].batch = {}
    /\ \A t \in bunch[l].batch : process[t] # Unset
    /\ bunch[l].at = "wait" => \A t \in bunch[l].batch : process[t] # "cut"
    /\ \A t \in bunch[l].done : process[t] = "raised"
    /\ bunch[l].at = "get" => bunch[l].now \in bunch[l].batch /\ process[bunch[l].now] \notin Running
    /\ bunch[l].at = "look" => \A t \in Seen(l) : status[t] \in Terminal
    /\ bunch[l].at = "get" => \A t \in Seen(l) : t = bunch[l].now \/ status[t] \in Terminal

\* No task is in two batches.
BatchesApart == \A l, m \in Loops : l # m => bunch[l].batch \cap bunch[m].batch = {}

BatchInv == TypesOfBatches /\ (\A t \in Tasks : TaskOK(t)) /\ (\A l \in Loops : LoopOK(l)) /\ BatchesApart

LEMMA BatchInitInv == ASSUME BatchInit PROVE BatchInv
BY BatchAssumption DEF BatchInit, BatchInv, TypesOfBatches, TaskOK, LoopOK, Seen, BatchesApart, NoBatch,
       Bunch, TaskStatus, ProcessStep, Terminal

-----------------------------------------------------------------------------
(* The tasks and their processes: the loops stand still.                   *)

\* A step of one process that leaves it in a place a loop may find it in, and
\* takes no outcome away.
LEMMA TaskStep ==
    ASSUME BatchInv, NEW t \in Tasks, UNCHANGED bunch,
           \A u \in Tasks : u # t => process'[u] = process[u] /\ status'[u] = status[u],
           process[t] \in Running \cup {Unset},
           process[t] = Unset => process'[t] = Unset,
           process'[t] # "cut", process[t] # Unset => process'[t] # Unset,
           status[t] \in Terminal => status'[t] \in Terminal
    PROVE  (\A l \in Loops : LoopOK(l)') /\ BatchesApart'
<1>1. BatchesApart'
  BY DEF BatchInv, BatchesApart
<1>2. ASSUME NEW l \in Loops PROVE LoopOK(l)'
  <2>1. LoopOK(l) /\ bunch[l] \in Bunch
    BY DEF BatchInv, TypesOfBatches
  <2>2. /\ bunch[l].batch \subseteq Tasks /\ bunch[l].done \subseteq bunch[l].batch
        /\ t \notin bunch[l].done
        /\ bunch[l].at = "get" => bunch[l].now # t \/ process[t] = Unset
    BY <2>1 DEF LoopOK, Bunch, Running
  <2>3. bunch[l].at = "get" => bunch[l].now # t
    BY <2>1, <2>2 DEF LoopOK
  <2>4. /\ \A u \in bunch[l].batch : process'[u] # Unset
        /\ bunch[l].at = "wait" => \A u \in bunch[l].batch : process'[u] # "cut"
        /\ \A u \in bunch[l].done : process'[u] = "raised"
    BY <2>1, <2>2 DEF LoopOK
  <2>5. bunch[l].at = "get" => process'[bunch[l].now] \notin Running
    BY <2>1, <2>2, <2>3 DEF LoopOK
  <2>6. \A u \in Tasks : status[u] \in Terminal => status'[u] \in Terminal
    OBVIOUS
  <2>7. Seen(l)' = Seen(l) /\ Seen(l) \subseteq Tasks
    BY <2>2 DEF Seen
  <2>8. QED
    BY <2>1, <2>4, <2>5, <2>6, <2>7 DEF LoopOK
<1>3. QED
  BY <1>1, <1>2

LEMMA SubmitInv == ASSUME BatchInv, NEW t \in Tasks, SubmitTask(t) PROVE BatchInv'
<1>1. TypesOfBatches'
  BY DEF BatchInv, TypesOfBatches, SubmitTask, TaskStatus
<1>2. process[t] = Unset
  BY DEF BatchInv, TaskOK, SubmitTask
<1>3. \A u \in Tasks : TaskOK(u)'
  BY BatchAssumption, <1>2 DEF BatchInv, TypesOfBatches, TaskOK, SubmitTask, Terminal
<1>4. (\A l \in Loops : LoopOK(l)') /\ BatchesApart'
  BY BatchAssumption, <1>2, TaskStep DEF BatchInv, TypesOfBatches, SubmitTask, Terminal
<1>5. QED
  BY <1>1, <1>3, <1>4 DEF BatchInv

LEMMA StartInv == ASSUME BatchInv, NEW t \in Tasks, Start(t) PROVE BatchInv'
<1>1. TypesOfBatches'
  BY DEF BatchInv, TypesOfBatches, Start, TaskStatus, ProcessStep
<1>2. status[t] \notin Terminal /\ t \notin queued
  BY BatchAssumption DEF BatchInv, TaskOK, Start
<1>3. \A u \in Tasks : TaskOK(u)'
  BY BatchAssumption, <1>2 DEF BatchInv, TypesOfBatches, TaskOK, Start, Terminal
<1>4. (\A l \in Loops : LoopOK(l)') /\ BatchesApart'
  BY BatchAssumption, <1>2, TaskStep DEF BatchInv, TypesOfBatches, Start, Running
<1>5. QED
  BY <1>1, <1>3, <1>4 DEF BatchInv

LEMMA FinishInv == ASSUME BatchInv, NEW t \in Tasks, Finish(t) PROVE BatchInv'
<1>1. PICK outcome \in Terminal : status' = [status EXCEPT ![t] = outcome]
  BY DEF Finish
<1>2. TypesOfBatches'
  BY <1>1 DEF BatchInv, TypesOfBatches, Finish, TaskStatus, ProcessStep, Terminal
<1>3. status[t] \notin Terminal /\ t \notin queued
  BY BatchAssumption DEF BatchInv, TaskOK, Finish
<1>4. \A u \in Tasks : TaskOK(u)'
  BY BatchAssumption, <1>1, <1>3 DEF BatchInv, TypesOfBatches, TaskOK, Finish, Terminal
<1>5. (\A l \in Loops : LoopOK(l)') /\ BatchesApart'
  BY BatchAssumption, <1>3, TaskStep DEF BatchInv, TypesOfBatches, Finish, Running
<1>6. QED
  BY <1>2, <1>4, <1>5 DEF BatchInv

LEMMA ReturnInv == ASSUME BatchInv, NEW t \in Tasks, Return(t) PROVE BatchInv'
<1>1. TypesOfBatches'
  BY DEF BatchInv, TypesOfBatches, Return, ProcessStep
<1>2. \A u \in Tasks : TaskOK(u)'
  BY BatchAssumption DEF BatchInv, TypesOfBatches, TaskOK, Return
<1>3. (\A l \in Loops : LoopOK(l)') /\ BatchesApart'
  BY BatchAssumption, TaskStep DEF BatchInv, TypesOfBatches, Return, Running
<1>4. QED
  BY <1>1, <1>2, <1>3 DEF BatchInv

LEMMA RaiseInv == ASSUME BatchInv, NEW t \in Tasks, Raise(t) PROVE BatchInv'
<1>1. TypesOfBatches'
  BY DEF BatchInv, TypesOfBatches, Raise, ProcessStep
<1>2. \A u \in Tasks : TaskOK(u)'
  BY BatchAssumption DEF BatchInv, TypesOfBatches, TaskOK, Raise, Running
<1>3. (\A l \in Loops : LoopOK(l)') /\ BatchesApart'
  BY BatchAssumption, TaskStep DEF BatchInv, TypesOfBatches, Raise, Running
<1>4. QED
  BY <1>1, <1>2, <1>3 DEF BatchInv

-----------------------------------------------------------------------------
(* The loops.                                                              *)

\* A step of one loop that gives it no task of another, and changes rows and
\* processes of its own tasks only.
LEMMA LoopStep ==
    ASSUME BatchInv, NEW l \in Loops, NEW turn \in Bunch, bunch' = [bunch EXCEPT ![l] = turn],
           \A m \in Loops \ {l} : turn.batch \cap bunch[m].batch = {},
           \A t \in Tasks : t \notin turn.batch => process'[t] = process[t] /\ status'[t] = status[t],
           LoopOK(l)'
    PROVE  (\A m \in Loops : LoopOK(m)') /\ BatchesApart'
<1>1. bunch'[l] = turn /\ \A m \in Loops \ {l} : bunch'[m] = bunch[m]
  BY DEF BatchInv, TypesOfBatches
<1>2. BatchesApart'
  BY <1>1 DEF BatchInv, BatchesApart
<1>3. ASSUME NEW m \in Loops, m # l PROVE LoopOK(m)'
  <2>1. LoopOK(m) /\ bunch[m] \in Bunch /\ bunch'[m] = bunch[m]
    BY <1>1, <1>3 DEF BatchInv, TypesOfBatches
  <2>2. \A t \in bunch[m].batch : process'[t] = process[t] /\ status'[t] = status[t]
    BY <1>3, <2>1 DEF Bunch
  <2>3. Seen(m)' = Seen(m) /\ Seen(m) \subseteq bunch[m].batch
    BY <2>1 DEF Seen
  <2>4. QED
    BY <2>1, <2>2, <2>3 DEF LoopOK
<1>4. QED
  BY <1>2, <1>3

LEMMA TakeInv == ASSUME BatchInv, NEW l \in Loops, Take(l) PROVE BatchInv'
<1>1. PICK batch \in SUBSET queued :
          /\ queued' = queued \ batch
          /\ process' = [t \in Tasks |-> IF t \in batch THEN "start" ELSE process[t]]
          /\ bunch' = [bunch EXCEPT ![l] = [NoBatch EXCEPT !.at = "wait", !.batch = batch]]
          /\ UNCHANGED <<status, orphans, cuts>>
  BY DEF Take
<1> DEFINE turn == [NoBatch EXCEPT !.at = "wait", !.batch = batch]
<1>2. batch \subseteq Tasks /\ turn \in Bunch
  BY DEF BatchInv, TypesOfBatches, Bunch, NoBatch
<1>3. turn.at = "wait" /\ turn.batch = batch /\ turn.done = {} /\ turn.late = {}
  BY DEF NoBatch
<1> HIDE DEF turn
<1>4. TypesOfBatches'
  <2>1. bunch' \in [Loops -> Bunch]
    BY <1>1, <1>2 DEF BatchInv, TypesOfBatches, turn
  <2>2. QED
    BY <1>1, <2>1 DEF BatchInv, TypesOfBatches, ProcessStep
<1>5. \A t \in Tasks : TaskOK(t)'
  BY BatchAssumption, <1>1, <1>2 DEF BatchInv, TypesOfBatches, TaskOK, Terminal
<1>6. \A m \in Loops \ {l} : turn.batch \cap bunch[m].batch = {}
  BY <1>2, <1>3 DEF BatchInv, TaskOK, LoopOK
<1>7. bunch' = [bunch EXCEPT ![l] = turn] /\ bunch'[l] = turn
  BY <1>1 DEF BatchInv, TypesOfBatches, turn
<1>8. LoopOK(l)'
  BY BatchAssumption, <1>1, <1>2, <1>3, <1>7 DEF LoopOK
<1>9. (\A m \in Loops : LoopOK(m)') /\ BatchesApart'
  BY <1>1, <1>2, <1>3, <1>6, <1>7, <1>8, LoopStep
<1>10. QED
  BY <1>4, <1>5, <1>9 DEF BatchInv

LEMMA WaitInv == ASSUME BatchInv, NEW l \in Loops, WaitForAll(l) PROVE BatchInv'
<1> DEFINE ended == {t \in bunch[l].batch : process[t] \notin Running}
           raised == {t \in ended : process[t] = "raised"}
           turn == [bunch[l] EXCEPT !.at = "look", !.done = raised, !.late = bunch[l].batch \ ended]
<1>1. bunch' = [bunch EXCEPT ![l] = turn] /\ UNCHANGED <<queued, status, process, orphans, cuts>>
  BY DEF WaitForAll
<1>2. bunch[l] \in Bunch /\ LoopOK(l) /\ bunch[l].at = "wait" /\ bunch[l].batch \subseteq Tasks
  BY DEF BatchInv, TypesOfBatches, Bunch, WaitForAll
<1>3. turn \in Bunch /\ turn.batch = bunch[l].batch
  BY <1>2 DEF Bunch
<1>4. turn.at = "look" /\ turn.done = raised /\ turn.late = bunch[l].batch \ ended
  BY <1>2 DEF Bunch
<1> HIDE DEF turn
<1>5. \A t \in ended \ raised : status[t] \in Terminal
  <2>1. SUFFICES ASSUME NEW t \in ended \ raised PROVE status[t] \in Terminal
    OBVIOUS
  <2>2. t \in Tasks /\ process[t] # Unset /\ process[t] # "cut" /\ process[t] # "raised" /\ process[t] \notin Running
    BY <1>2 DEF LoopOK
  <2>3. process[t] = "returned"
    BY <2>2 DEF BatchInv, TypesOfBatches, ProcessStep, Running
  <2>4. QED
    BY <2>2, <2>3 DEF BatchInv, TaskOK
<1>6. bunch'[l] = turn
  BY <1>1 DEF BatchInv, TypesOfBatches
<1>7. TypesOfBatches'
  BY <1>1, <1>3 DEF BatchInv, TypesOfBatches
<1>8. \A t \in Tasks : TaskOK(t)'
  BY <1>1 DEF BatchInv, TaskOK
<1>9. LoopOK(l)'
  <2>1. Seen(l)' \subseteq ended \ raised
    BY <1>3, <1>4, <1>6 DEF Seen
  <2>2. QED
    BY <1>1, <1>2, <1>3, <1>4, <1>5, <1>6, <2>1 DEF LoopOK
<1>10. \A m \in Loops \ {l} : turn.batch \cap bunch[m].batch = {}
  BY <1>3 DEF BatchInv, BatchesApart
<1>11. (\A m \in Loops : LoopOK(m)') /\ BatchesApart'
  BY <1>1, <1>3, <1>9, <1>10, LoopStep
<1>12. QED
  BY <1>7, <1>8, <1>11 DEF BatchInv

LEMMA LookInv == ASSUME BatchInv, NEW l \in Loops, Look(l) PROVE BatchInv'
<1>1. PICK t \in Next1(l) :
          /\ bunch' = [bunch EXCEPT ![l].at = "get", ![l].now = t, ![l].done = @ \ {t},
                                  ![l].late = IF bunch[l].done = {} THEN @ \ {t} ELSE @]
          /\ process' = [process EXCEPT ![t] = IF @ \in Running THEN "cut" ELSE @]
          /\ UNCHANGED <<queued, status, orphans, cuts>>
  BY DEF Look
<1> DEFINE turn == [bunch[l] EXCEPT !.at = "get", !.now = t, !.done = @ \ {t},
                                   !.late = IF bunch[l].done = {} THEN @ \ {t} ELSE @]
<1>2. bunch[l] \in Bunch /\ LoopOK(l) /\ bunch[l].at = "look" /\ bunch[l].batch \subseteq Tasks
  BY DEF BatchInv, TypesOfBatches, Bunch, Look
<1>3. t \in bunch[l].batch /\ t \in Tasks /\ process[t] # Unset
  BY <1>2 DEF LoopOK, Next1
<1>4. turn \in Bunch /\ turn.batch = bunch[l].batch /\ turn.at = "get" /\ turn.now = t
  BY <1>2, <1>3 DEF Bunch
<1>5. /\ turn.done = bunch[l].done \ {t}
      /\ turn.late \subseteq bunch[l].late
      /\ bunch[l].late \ turn.late \subseteq {t}
  BY <1>2 DEF Bunch
<1>6. bunch' = [bunch EXCEPT ![l] = turn]
  BY <1>1, <1>2 DEF Bunch, BatchInv, TypesOfBatches
<1> HIDE DEF turn
<1>7. bunch'[l] = turn
  BY <1>6 DEF BatchInv, TypesOfBatches
<1>8. /\ process' \in [Tasks -> ProcessStep]
      /\ \A u \in Tasks \ {t} : process'[u] = process[u]
      /\ process'[t] \notin Running /\ process'[t] # Unset
      /\ process'[t] # process[t] => process'[t] = "cut" /\ process[t] \in Running
  BY BatchAssumption, <1>1, <1>3 DEF BatchInv, TypesOfBatches, ProcessStep, Running
<1>9. TypesOfBatches'
  <2>1. bunch \in [Loops -> Bunch] /\ queued \subseteq Tasks /\ orphans \subseteq Tasks
        /\ cuts \in 0 .. MaxCuts /\ status \in [Tasks -> TaskStatus]
    BY DEF BatchInv, TypesOfBatches
  <2>2. bunch' \in [Loops -> Bunch]
    BY <1>4, <1>6, <2>1
  <2>3. QED
    BY <1>1, <1>8, <2>1, <2>2 DEF TypesOfBatches
<1>10. \A u \in Tasks : TaskOK(u)'
  BY BatchAssumption, <1>1, <1>3, <1>8 DEF BatchInv, TaskOK
<1>11. LoopOK(l)'
  <2>1. /\ turn.done \cup turn.late \subseteq turn.batch
        /\ \A u \in turn.batch : process'[u] # Unset
        /\ \A u \in turn.done : process'[u] = "raised"
    BY <1>2, <1>4, <1>5, <1>8 DEF LoopOK
  <2>2. \A u \in Seen(l)' : u = t \/ status'[u] \in Terminal
    BY <1>1, <1>2, <1>4, <1>5, <1>7 DEF LoopOK, Seen
  <2>3. bunch[l]'.now = t /\ bunch[l]'.at = "get" /\ bunch[l]'.batch = turn.batch
    BY <1>4, <1>7
  <2>4. /\ bunch[l]'.at # "idle" /\ bunch[l]'.at # "off"
        /\ bunch[l]'.at # "wait" /\ bunch[l]'.at # "look"
    BY <2>3
  <2>5. QED
    BY <1>3, <1>4, <1>7, <1>8, <2>1, <2>2, <2>3, <2>4 DEF LoopOK
<1>12. \A m \in Loops \ {l} : turn.batch \cap bunch[m].batch = {}
  BY <1>4 DEF BatchInv, BatchesApart
<1>13. (\A m \in Loops : LoopOK(m)') /\ BatchesApart'
  <2>1. \A u \in Tasks : u \notin turn.batch => process'[u] = process[u] /\ status'[u] = status[u]
    BY <1>1, <1>3, <1>4, <1>8
  <2>2. QED
    BY <1>4, <1>6, <1>11, <1>12, <2>1, LoopStep
<1>14. QED
  BY <1>9, <1>10, <1>13 DEF BatchInv

LEMMA MarkInv == ASSUME BatchInv, NEW l \in Loops, Mark(l) PROVE BatchInv'
<1> DEFINE t == bunch[l].now
           turn == [bunch[l] EXCEPT !.at = "look", !.now = Unset]
<1>1. /\ status' = [status EXCEPT ![t] = Marked(@)]
      /\ bunch' = [bunch EXCEPT ![l] = turn]
      /\ UNCHANGED <<queued, process, orphans, cuts>>
  BY DEF Mark
<1>2. /\ bunch[l] \in Bunch /\ LoopOK(l) /\ bunch[l].at = "get" /\ bunch[l].batch \subseteq Tasks
      /\ t \in bunch[l].batch /\ t \in Tasks /\ process[t] \notin Running /\ process[t] # Unset
  BY DEF BatchInv, TypesOfBatches, Bunch, Mark, LoopOK
<1>3. /\ turn \in Bunch /\ turn.batch = bunch[l].batch /\ turn.at = "look"
      /\ turn.done = bunch[l].done /\ turn.late = bunch[l].late
  BY <1>2 DEF Bunch
<1> HIDE DEF turn, t
<1>4. bunch'[l] = turn
  BY <1>1 DEF BatchInv, TypesOfBatches
<1>5. status'[t] \in Terminal /\ \A u \in Tasks \ {t} : status'[u] = status[u]
  BY <1>1, <1>2 DEF BatchInv, TypesOfBatches, Marked, Terminal
<1>6. TypesOfBatches'
  BY <1>1, <1>3 DEF BatchInv, TypesOfBatches, Marked, TaskStatus, Terminal
<1>7. \A u \in Tasks : TaskOK(u)'
  BY BatchAssumption, <1>1, <1>2, <1>5 DEF BatchInv, TaskOK, Running, Terminal
<1>8. LoopOK(l)'
  <2>1. Seen(l)' = Seen(l) /\ Seen(l) \subseteq Tasks
    BY <1>2, <1>3, <1>4 DEF Seen
  <2>2. \A u \in Seen(l) : status'[u] \in Terminal
    BY <1>2, <1>5, <2>1 DEF LoopOK, t
  <2>3. QED
    BY <1>1, <1>2, <1>3, <1>4, <2>1, <2>2 DEF LoopOK
<1>9. \A m \in Loops \ {l} : turn.batch \cap bunch[m].batch = {}
  BY <1>3 DEF BatchInv, BatchesApart
<1>10. (\A m \in Loops : LoopOK(m)') /\ BatchesApart'
  BY <1>1, <1>2, <1>3, <1>5, <1>8, <1>9, LoopStep
<1>11. QED
  BY <1>6, <1>7, <1>10 DEF BatchInv

\* The steps after which a loop has no batch.
LEMMA BareInv ==
    ASSUME BatchInv, NEW l \in Loops, NEW at \in {"idle", "off"},
           bunch' = [bunch EXCEPT ![l] = [NoBatch EXCEPT !.at = at]],
           UNCHANGED <<queued, status, process>>,
           orphans' \subseteq Tasks, cuts' \in 0 .. MaxCuts
    PROVE  BatchInv'
<1> DEFINE turn == [NoBatch EXCEPT !.at = at]
<1>1. /\ turn \in Bunch /\ turn.batch = {} /\ turn.done = {} /\ turn.late = {} /\ turn.at = at
  BY DEF Bunch, NoBatch
<1> HIDE DEF turn
<1>2. bunch' = [bunch EXCEPT ![l] = turn] /\ bunch'[l] = turn
  BY DEF BatchInv, TypesOfBatches, turn
<1>3. TypesOfBatches'
  BY <1>1, <1>2 DEF BatchInv, TypesOfBatches
<1>4. \A t \in Tasks : TaskOK(t)'
  BY DEF BatchInv, TaskOK
<1>5. LoopOK(l)'
  BY <1>1, <1>2 DEF LoopOK, Seen
<1>6. (\A m \in Loops : LoopOK(m)') /\ BatchesApart'
  BY <1>1, <1>2, <1>5, LoopStep
<1>7. QED
  BY <1>3, <1>4, <1>6 DEF BatchInv

LEMMA LetGoInv == ASSUME BatchInv, NEW l \in Loops, LetGo(l) \/ LoopBegins(l) PROVE BatchInv'
<1>1. NoBatch = [NoBatch EXCEPT !.at = "idle"]
  BY DEF NoBatch
<1>2. orphans' \subseteq Tasks /\ cuts' \in 0 .. MaxCuts
  BY DEF BatchInv, TypesOfBatches, LetGo, LoopBegins
<1>3. QED
  BY <1>1, <1>2, BareInv DEF LetGo, LoopBegins

LEMMA LoopEndsInv == ASSUME BatchInv, NEW l \in Loops, LoopEnds(l) PROVE BatchInv'
<1>1. orphans' \subseteq Tasks /\ cuts' \in 0 .. MaxCuts
  BY BatchAssumption DEF BatchInv, TypesOfBatches, Bunch, LoopEnds
<1>2. QED
  BY <1>1, BareInv DEF LoopEnds

LEMMA BatchStep == ASSUME BatchInv, [BatchNext]_bunchVars PROVE BatchInv'
<1>1. CASE UNCHANGED bunchVars
  BY <1>1 DEF bunchVars, BatchInv, TypesOfBatches, TaskOK, LoopOK, Seen, BatchesApart
<1>2. CASE \E t \in Tasks : SubmitTask(t) \/ Start(t) \/ Finish(t) \/ Return(t) \/ Raise(t)
  BY <1>2, SubmitInv, StartInv, FinishInv, ReturnInv, RaiseInv
<1>3. CASE \E l \in Loops : Take(l) \/ WaitForAll(l) \/ Look(l) \/ Mark(l) \/ LetGo(l) \/ LoopEnds(l) \/ LoopBegins(l)
  BY <1>3, TakeInv, WaitInv, LookInv, MarkInv, LetGoInv, LoopEndsInv
<1>4. QED
  BY <1>1, <1>2, <1>3 DEF BatchNext

LEMMA BatchInvariance == BatchSpec => []BatchInv
<1>1. BatchInit => BatchInv
  BY BatchInitInv
<1>2. BatchInv /\ [BatchNext]_bunchVars => BatchInv'
  BY BatchStep
<1>3. QED
  BY <1>1, <1>2, PTL DEF BatchSpec

-----------------------------------------------------------------------------
(* What follows.                                                           *)

\* Every variable keeps its type, whatever the tasks, loops and batch size.
THEOREM BatchTypeCorrect == BatchSpec => []BatchTypes
<1>1. BatchInv => BatchTypes
  BY DEF BatchInv, TypesOfBatches, LoopOK, BatchTypes, TaskStatus, ProcessStep, Bunch, Terminal, Running
<1>2. QED
  BY <1>1, BatchInvariance, PTL

\* Only the wait for a late or failed task looks at its row, and an outcome
\* there stays.
LEMMA KeepsImages ==
    ASSUME BatchInv, [BatchNext]_bunchVars, NEW t \in Tasks, status[t] = "completed"
    PROVE  status'[t] = "completed"
<1>1. ASSUME NEW u \in Tasks, SubmitTask(u) \/ Start(u) \/ Finish(u) PROVE status'[t] = "completed"
  <2>1. status[u] # "completed" /\ u # t
    BY BatchAssumption, <1>1 DEF BatchInv, TaskOK, SubmitTask, Start, Finish, Terminal
  <2>2. QED
    BY <1>1, <2>1 DEF BatchInv, TypesOfBatches, SubmitTask, Start, Finish
<1>2. ASSUME NEW l \in Loops, Mark(l) PROVE status'[t] = "completed"
  BY <1>2 DEF BatchInv, TypesOfBatches, Mark, Marked, Terminal
<1>3. CASE UNCHANGED status
  BY <1>3
<1>4. QED
  BY <1>1, <1>2, <1>3 DEF BatchNext, bunchVars, Return, Raise, Take, WaitForAll, Look, LetGo, LoopEnds, LoopBegins

\* A task is let go with its batch, when nothing is left to look at, or with
\* the loop that ends.
LEMMA LeavesNone ==
    ASSUME BatchInv, [BatchNext]_bunchVars, NEW t \in Tasks, Held(t), ~Held(t)'
    PROVE  status'[t] \in Terminal \/ t \in orphans'
<1>1. PICK l \in Loops : t \in bunch[l].batch
  BY DEF Held
<1>2. bunch'[l] # bunch[l] /\ t \notin bunch'[l].batch
  BY <1>1 DEF Held
<1>3. bunch \in [Loops -> Bunch] /\ bunch[l] \in Bunch /\ LoopOK(l)
  BY DEF BatchInv, TypesOfBatches
<1>4. CASE LetGo(l)
  BY <1>1, <1>3, <1>4 DEF LetGo, Next1, LoopOK, Seen
<1>5. CASE LoopEnds(l)
  BY <1>1, <1>5 DEF LoopEnds
<1>6. ~Take(l) /\ ~LoopBegins(l)
  BY <1>1, <1>3 DEF LoopOK, Take, LoopBegins
<1>7. ~WaitForAll(l) /\ ~Look(l) /\ ~Mark(l)
  <2>1. CASE WaitForAll(l)
    BY <1>1, <1>2, <1>3, <2>1 DEF Bunch, WaitForAll
  <2>2. CASE Look(l)
    <3>1. PICK u \in Next1(l) :
            bunch' = [bunch EXCEPT ![l].at = "get", ![l].now = u, ![l].done = @ \ {u},
                                 ![l].late = IF bunch[l].done = {} THEN @ \ {u} ELSE @]
      BY <2>2 DEF Look
    <3>2. bunch'[l].batch = bunch[l].batch
      BY <1>3, <3>1 DEF Bunch
    <3>3. QED
      BY <1>1, <1>2, <3>2
  <2>3. CASE Mark(l)
    BY <1>1, <1>2, <1>3, <2>3 DEF Bunch, Mark
  <2>4. QED
    BY <2>1, <2>2, <2>3
<1>8. ASSUME NEW m \in Loops \ {l},
             Take(m) \/ WaitForAll(m) \/ Look(m) \/ Mark(m) \/ LetGo(m) \/ LoopEnds(m) \/ LoopBegins(m)
      PROVE  FALSE
  BY <1>2, <1>3, <1>8 DEF Take, WaitForAll, Look, Mark, LetGo, LoopEnds, LoopBegins
<1>9. UNCHANGED bunch => FALSE
  BY <1>2
<1>10. QED
  BY <1>4, <1>5, <1>6, <1>7, <1>8, <1>9 DEF BatchNext, bunchVars, SubmitTask, Start, Finish, Return, Raise

\* Whatever the tasks, loops and faults: the looks at a batch overwrite no
\* image, and when a loop lets a task go it has its end, or the loop ended.
THEOREM BatchesSettle == BatchSpec => BatchSettles
<1>1. BatchInv /\ [BatchNext]_bunchVars =>
        [\A t \in Tasks :
            /\ status[t] = "completed" => status'[t] = "completed"
            /\ Held(t) /\ ~Held(t)' => status'[t] \in Terminal \/ t \in orphans']_bunchVars
  <2>1. SUFFICES ASSUME BatchInv, [BatchNext]_bunchVars, NEW t \in Tasks
                 PROVE  /\ status[t] = "completed" => status'[t] = "completed"
                        /\ Held(t) /\ ~Held(t)' => status'[t] \in Terminal \/ t \in orphans'
    OBVIOUS
  <2>2. QED
    BY <2>1, KeepsImages, LeavesNone
<1>2. QED
  BY <1>1, BatchInvariance, PTL DEF BatchSpec, BatchSettles

-----------------------------------------------------------------------------
(* Server actions                                                          *)

(* No sniff overtakes another, so no id that is known or about to be       *)
(* cached is newer than the site or older than the cache.                  *)
Orderly ==
    /\ Static <= site /\ ids <= site /\ saved <= site
    /\ \A a \in Actors : Sniffing(a) => sniffer = a
    /\ \A a \in Actors : /\ seen[a] <= site
                         /\ seen[a] # 0 => Sniffing(a) /\ ids <= seen[a]

(* A second attempt looks for a later id than the one that was refused; it *)
(* posts an old one only if its sniff was in vain or the site moved on.    *)
Justified(g) ==
    /\ poster[g].id <= site
    /\ poster[g].again =>
        /\ poster[g].at \in {"waiting", "sniffing"} => poster[g].id < site
        /\ seen[g] # 0 => poster[g].id < seen[g] /\ (g \in moved \/ seen[g] = site)
        /\ poster[g].at = "posting" => g \in moved \cup blind \/ poster[g].id = site
    /\ poster[g].at = "stale" => g \in moved \cup blind

ActionInv == ActionTypes /\ Orderly /\ \A g \in Posters : Justified(g)

Place == [at : {"idle", "waiting", "sniffing", "posting", "ok", "stale"}, id : Ids, again : BOOLEAN]

LEMMA IdsAreNumbers ==
    /\ Ids \subseteq Nat /\ 0 \in Ids /\ Static \in Ids /\ Static > 0
    /\ Idle \in Place /\ \A label \in {"ok", "stale"} : [Idle EXCEPT !.at = label] \in Place
<1>1. Ids \subseteq Nat /\ 0 \in Ids /\ Static \in Ids /\ Static > 0
  BY ActionAssumption DEF Ids
<1>2. Idle \in Place
  BY <1>1 DEF Idle, Place
<1>3. QED
  BY <1>1, <1>2 DEF Place

LEMMA ActionInitInv == ActionInit => ActionInv
<1>1. ASSUME ActionInit PROVE ActionTypes
  <2>1. /\ poster \in [Posters -> Place] /\ seen \in [Actors -> Ids]
        /\ site \in Ids /\ ids \in Ids /\ saved \in Ids /\ outages \in 0..MaxOutages
    BY <1>1, IdsAreNumbers, ActionAssumption DEF ActionInit
  <2>2. QED
    BY <1>1, <2>1 DEF ActionInit, ActionTypes, Place
<1>2. ASSUME ActionInit PROVE Orderly
  BY <1>2, ActionAssumption DEF ActionInit, Orderly, Sniffing, Idle, Actors
<1>3. ASSUME ActionInit PROVE \A g \in Posters : Justified(g)
  BY <1>3, ActionAssumption DEF ActionInit, Justified, Idle
<1>4. QED
  BY <1>1, <1>2, <1>3 DEF ActionInv

(* One generation moves, and nothing is learnt of the site. *)
LEMMA OneMoves ==
    ASSUME ActionInv, NEW g \in Posters, ActionTypes', UNCHANGED <<site, ids, saved, seen>>,
           \A h \in Posters \ {g} : /\ poster'[h] = poster[h]
                                    /\ h \in moved => h \in moved'
                                    /\ h \in blind => h \in blind',
           \A a \in Actors : Sniffing(a)' => sniffer' = a,
           \A a \in Actors : seen[a] # 0 => Sniffing(a)',
           Justified(g)'
    PROVE  ActionInv'
<1>1. Orderly'
  BY DEF ActionInv, Orderly
<1>2. \A h \in Posters \ {g} : Justified(h)'
  BY DEF ActionInv, Justified
<1>3. QED
  BY <1>1, <1>2 DEF ActionInv

LEMMA AskInv == ASSUME ActionInv, NEW g \in Posters, Ask(g) PROVE ActionInv'
<1>1. ActionTypes'
  BY DEF Ask, ActionInv, ActionTypes, Ids, idVars
<1>2. /\ poster'[g].again = FALSE /\ poster'[g].at \in {"posting", "waiting"} /\ poster'[g].id <= site
      /\ \A h \in Posters \ {g} : poster'[h] = poster[h]
  BY ActionAssumption DEF Ask, ActionInv, ActionTypes, Ids, Orderly
<1>3. \A a \in Actors : Sniffing(a)' <=> Sniffing(a)
  BY <1>2 DEF Ask, Sniffing, Actors
<1>4. Justified(g)'
  BY <1>2 DEF Justified, Ask
<1>5. QED
  BY <1>1, <1>2, <1>3, <1>4, OneMoves DEF Ask, idVars, ActionInv, Orderly

LEMMA EnterInv == ASSUME ActionInv, NEW g \in Posters, Enter(g) PROVE ActionInv'
<1>1. ActionTypes'
  BY DEF Enter, Posting, Goes, ActionInv, ActionTypes, Ids, idVars, actionHistory, Actors
<1>2. g # Keepalive /\ sniffer = NoSniffer /\ g \in Actors /\ seen[g] = 0 /\ \A a \in Actors : ~Sniffing(a)
  BY ActionAssumption DEF Enter, Unlocked, ActionInv, Orderly, Actors, Sniffing
<1>3. /\ poster'[g].again = poster[g].again
      /\ \A h \in Posters \ {g} : poster'[h] = poster[h]
      /\ \/ poster'[g].at = "posting" /\ poster'[g].id = ids /\ ~poster[g].again
         \/ poster'[g].at = "sniffing" /\ poster'[g].id = poster[g].id /\ sniffer' = g
  BY DEF Enter, Known, Posting, Goes, ActionInv, ActionTypes
<1>4. \A a \in Actors : Sniffing(a)' => a = g /\ sniffer' = g
  BY <1>2, <1>3 DEF Enter, Sniffing, Actors
<1>5. Justified(g)'
  BY <1>2, <1>3 DEF Justified, Enter, ActionInv, Orderly, actionHistory, idVars
<1>6. QED
  BY <1>1, <1>2, <1>3, <1>4, <1>5, OneMoves DEF Enter, idVars, actionHistory, ActionInv, Orderly

LEMMA PostInv == ASSUME ActionInv, NEW g \in Posters, Post(g) PROVE ActionInv'
<1>1. ActionTypes'
  <2>1. poster \in [Posters -> Place] /\ moved \subseteq Posters
    BY DEF ActionInv, ActionTypes, Place
  <2>2. poster' \in [Posters -> Place] /\ moved' \subseteq Posters
    BY <2>1, IdsAreNumbers DEF Post, Ends, Place
  <2>3. QED
    BY <2>2 DEF Post, ActionInv, ActionTypes, Place, idVars
<1>2. g # Keepalive /\ g \in Actors /\ poster[g].id \in Nat /\ site \in Nat
  BY ActionAssumption DEF Actors, ActionInv, ActionTypes, Ids
<1>3. \A h \in Posters \ {g} : poster'[h] = poster[h]
  BY DEF Post, Ends, ActionInv, ActionTypes
<1>4. /\ ~Sniffing(g) /\ ~Sniffing(g)'
      /\ \A a \in Actors \ {g} : Sniffing(a)' <=> Sniffing(a)
  <2>1. poster[g].at = "posting"
    BY DEF Post
  <2>2. poster'[g].at \in {"ok", "stale", "waiting"}
    BY DEF Post, Ends, Idle, ActionInv, ActionTypes
  <2>3. QED
    BY <1>2, <1>3, <2>1, <2>2 DEF Post, Sniffing, Actors
<1>5. seen[g] = 0
  BY <1>2, <1>4 DEF ActionInv, Orderly
<1>6. Justified(g)
  BY DEF ActionInv
<1>7. Justified(g)'
  <2>1. CASE poster[g].id = site /\ Ends(g, "ok")
    BY <1>2, <2>1 DEF Ends, Idle, Justified, Post, ActionInv, ActionTypes
  <2>2. CASE poster[g].id # site /\ poster[g].again /\ Ends(g, "stale") /\ UNCHANGED moved
    BY <1>2, <1>6, <2>2 DEF Ends, Idle, Justified, Post, ActionInv, ActionTypes
  <2>3. CASE /\ poster[g].id # site
             /\ poster' = [poster EXCEPT ![g].at = "waiting", ![g].again = TRUE]
    <3>1. poster'[g].at = "waiting" /\ poster'[g].id = poster[g].id
      BY <2>3 DEF ActionInv, ActionTypes
    <3>2. poster[g].id < site
      BY <1>2, <1>6, <2>3 DEF Justified
    <3>3. QED
      BY <1>5, <1>6, <3>1, <3>2 DEF Justified, Post
  <2>4. QED
    BY <2>1, <2>2, <2>3 DEF Post
<1>8. QED
  BY <1>1, <1>3, <1>4, <1>7, OneMoves DEF Post, idVars, ActionInv, Orderly

LEMMA ReadPageInv == ASSUME ActionInv, NEW a \in Actors, ReadPage(a) PROVE ActionInv'
<1>1. ActionTypes'
  BY DEF ReadPage, ActionInv, ActionTypes, Ids, idVars
<1>2. seen'[a] = site /\ \A b \in Actors \ {a} : seen'[b] = seen[b]
  BY DEF ReadPage, ActionInv, ActionTypes
<1>3. Orderly'
  BY <1>1, <1>2 DEF ReadPage, ActionInv, ActionTypes, Ids, Orderly, Sniffing, idVars
<1>4. ASSUME NEW g \in Posters PROVE Justified(g)'
  <2>1. Justified(g) /\ (g = a => poster[g].at = "sniffing" /\ seen[a] = 0)
    BY ActionAssumption DEF ActionInv, ReadPage, Sniffing
  <2>2. QED
    BY <1>2, <2>1 DEF ReadPage, Justified, Actors
<1>5. QED
  BY <1>1, <1>3, <1>4 DEF ActionInv

(* The end of a sniff: an older page is not read meanwhile. *)
LEMMA SniffedOrderly ==
    ASSUME ActionInv, NEW a \in Actors, Sniffed(a), UNCHANGED site,
           \A b \in Actors \ {a} : Sniffing(b)' <=> Sniffing(b), ~Sniffing(a)'
    PROVE  /\ Orderly' /\ ids \in Ids /\ ids' >= ids
           /\ {ids', saved'} \subseteq Ids /\ seen' \in [Actors -> Ids] /\ sniffer' = NoSniffer
           /\ \A b \in Actors : seen'[b] = 0
<1>1. /\ ids \in Ids /\ saved \in Ids /\ seen \in [Actors -> Ids] /\ site \in Ids /\ 0 \in Ids
      /\ Ids \subseteq Nat /\ Static \in Nat
  BY ActionAssumption DEF ActionInv, ActionTypes, Ids
<1>2. sniffer = a /\ \A b \in Actors \ {a} : ~Sniffing(b) /\ seen[b] = 0
  BY DEF Sniffed, ActionInv, Orderly
<1>3. ids' \in Ids /\ saved' \in Ids /\ ids <= ids' /\ ids' <= site /\ saved' <= site
  BY <1>1 DEF Sniffed, ActionInv, Orderly
<1>4. seen' \in [Actors -> Ids] /\ (\A b \in Actors : seen'[b] = 0) /\ sniffer' = NoSniffer
  BY <1>1, <1>2 DEF Sniffed
<1>5. Orderly'
  BY <1>1, <1>2, <1>3, <1>4 DEF ActionInv, Orderly
<1>6. QED
  BY <1>1, <1>3, <1>4, <1>5

LEMMA FinishForInv == ASSUME ActionInv, NEW g \in Posters, FinishFor(g) PROVE ActionInv' /\ ids' >= ids
<1> DEFINE id == IF ids' = 0 THEN Static ELSE ids'
<1>1. /\ g # Keepalive /\ g \in Actors /\ Sniffed(g) /\ UNCHANGED <<site, awake, outages, moved>>
      /\ blind' = IF seen[g] = 0 THEN blind \cup {g} ELSE blind \ {g}
      /\ IF poster[g].again /\ id = poster[g].id THEN Ends(g, "stale") ELSE Posting(g, id)
      /\ recent' \in BOOLEAN
  BY ActionAssumption DEF FinishFor, Actors, ActionInv, ActionTypes
<1> HIDE DEF id
<1>2. /\ \A h \in Posters \ {g} : poster'[h] = poster[h]
      /\ poster'[g].at \in {"stale", "posting"}
      /\ poster'[g].again => poster[g].again
      /\ poster'[g].at = "stale" => poster[g].again /\ id = poster[g].id /\ poster'[g].id = 0
                                    /\ ~poster'[g].again
      /\ poster'[g].at = "posting" => poster'[g].id = id
  BY <1>1 DEF Ends, Posting, Idle, ActionInv, ActionTypes
<1>3. ~Sniffing(g)' /\ \A a \in Actors \ {g} : Sniffing(a)' <=> Sniffing(a)
  BY <1>1, <1>2 DEF Sniffing, Actors
<1>4. /\ Orderly' /\ ids \in Ids /\ ids' >= ids
      /\ {ids', saved'} \subseteq Ids /\ seen' \in [Actors -> Ids] /\ sniffer' = NoSniffer
      /\ \A b \in Actors : seen'[b] = 0
  BY <1>1, <1>3, SniffedOrderly
<1>5. /\ id \in Ids /\ id <= site /\ (seen[g] # 0 => id = seen[g])
      /\ poster[g].id \in Nat /\ seen[g] \in Nat /\ site \in Nat
  BY <1>1, <1>4, ActionAssumption DEF id, Sniffed, ActionInv, ActionTypes, Ids, Orderly
<1>6. ActionTypes'
  <2>1. poster \in [Posters -> Place]
    BY DEF ActionInv, ActionTypes, Place
  <2>2. poster' \in [Posters -> Place]
    BY <1>1, <1>5, <2>1, IdsAreNumbers DEF Ends, Posting, Place
  <2>3. QED
    BY <1>1, <1>4, <2>2 DEF ActionInv, ActionTypes, Place
<1>7. Justified(g)'
  <2>1. Justified(g) /\ poster[g].at = "sniffing"
    BY <1>1 DEF ActionInv, Sniffed, Sniffing
  <2>2. seen[g] # 0 => g \in blind' \/ poster'[g].at # "stale"
    BY <1>2, <1>5, <2>1 DEF Justified
  <2>3. seen[g] = 0 => g \in blind'
    BY <1>1
  <2>4. poster'[g].id <= site /\ seen'[g] = 0
    BY <1>1, <1>2, <1>4, <1>5
  <2>5. poster'[g].at = "posting" /\ poster'[g].again => g \in moved \cup blind' \/ id = site
    BY <1>2, <1>5, <2>1, <2>3 DEF Justified
  <2>6. QED
    BY <1>1, <1>2, <2>2, <2>3, <2>4, <2>5 DEF Justified
<1>8. ASSUME NEW h \in Posters \ {g} PROVE Justified(h)'
  BY <1>1, <1>2, <1>4 DEF ActionInv, Justified, Actors
<1>9. QED
  BY <1>4, <1>6, <1>7, <1>8 DEF ActionInv

LEMMA FinishRoundInv == ASSUME ActionInv, FinishRound PROVE ActionInv' /\ ids' >= ids
<1>1. ~Sniffing(Keepalive)' /\ \A a \in Actors \ {Keepalive} : Sniffing(a)' <=> Sniffing(a)
  BY DEF FinishRound, Sniffing
<1>2. /\ Orderly' /\ ids' >= ids
      /\ {ids', saved'} \subseteq Ids /\ seen' \in [Actors -> Ids] /\ sniffer' = NoSniffer
      /\ \A b \in Actors : seen'[b] = 0
  BY <1>1, SniffedOrderly DEF FinishRound, Actors
<1>3. ActionTypes'
  BY <1>2 DEF FinishRound, ActionInv, ActionTypes, actionHistory, Ids
<1>4. ASSUME NEW g \in Posters PROVE Justified(g)'
  BY <1>2 DEF FinishRound, ActionInv, Justified, actionHistory, Actors
<1>5. QED
  BY <1>2, <1>3, <1>4 DEF ActionInv

LEMMA RoundInv == ASSUME ActionInv, RoundBegins \/ KeepaliveEnters PROVE ActionInv'
<1>1. ActionTypes'
  BY DEF RoundBegins, SkipRound, KeepaliveEnters, ActionInv, ActionTypes, Ids, Actors, idVars, actionHistory
<1>2. Orderly'
  <2>1. CASE RoundBegins
    BY <2>1, ActionAssumption DEF RoundBegins, ActionInv, ActionTypes, Orderly, Sniffing, Actors
  <2>2. CASE KeepaliveEnters
    <3>1. \A a \in Actors : ~Sniffing(a) /\ seen[a] = 0
      BY <2>2, ActionAssumption DEF KeepaliveEnters, Unlocked, ActionInv, Orderly
    <3>2. \A a \in Actors : Sniffing(a)' => a = Keepalive
      BY <2>2, <3>1 DEF KeepaliveEnters, Sniffing
    <3>3. QED
      BY <2>2, <3>1, <3>2 DEF KeepaliveEnters, ActionInv, Orderly, idVars
  <2>3. QED
    BY <2>1, <2>2
<1>3. ASSUME NEW g \in Posters PROVE Justified(g)'
  BY DEF RoundBegins, KeepaliveEnters, ActionInv, Justified, actionHistory
<1>4. QED
  BY <1>1, <1>2, <1>3 DEF ActionInv

LEMMA DeployInv == ASSUME ActionInv, Deploy PROVE ActionInv'
<1>1. /\ site \in Nat /\ site' = site + 1 /\ site' \in Ids
      /\ UNCHANGED <<idVars, sniffer, seen, poster, awake, outages, blind>>
  BY ActionAssumption DEF Deploy, ActionInv, ActionTypes, Ids
<1>2. ActionTypes'
  BY <1>1 DEF Deploy, ActionInv, ActionTypes, Ids, idVars
<1>3. /\ ids \in Nat /\ saved \in Nat /\ Static \in Nat /\ (\A a \in Actors : seen[a] \in Nat)
      /\ \A g \in Posters : poster[g].id \in Nat
  BY ActionAssumption DEF ActionInv, ActionTypes, Ids
<1>4. Orderly'
  BY <1>1, <1>3 DEF ActionInv, Orderly, Sniffing, idVars
<1>5. ASSUME NEW g \in Posters PROVE Justified(g)'
  <2>1. Justified(g) /\ (g \in moved => g \in moved') /\ (poster[g].again => g \in moved')
    BY DEF ActionInv, Deploy
  <2>2. QED
    BY <1>1, <1>3, <2>1 DEF Justified
<1>6. QED
  BY <1>2, <1>4, <1>5 DEF ActionInv

LEMMA RestartInv == ASSUME ActionInv, Restart PROVE ActionInv'
<1>1. /\ \A g \in Posters : poster'[g] = Idle
      /\ (\A a \in Actors : seen'[a] = 0) /\ awake' = "asleep"
  BY DEF Restart
<1>2. ActionTypes'
  <2>1. /\ poster' \in [Posters -> Place] /\ seen' \in [Actors -> Ids] /\ outages' \in 0..MaxOutages
        /\ {site', ids', saved'} \subseteq Ids
    BY IdsAreNumbers, ActionAssumption DEF Restart, ActionInv, ActionTypes
  <2>2. QED
    BY <2>1 DEF Restart, ActionTypes, Place
<1>3. \A a \in Actors : ~Sniffing(a)'
  BY <1>1 DEF Sniffing, Idle, Actors
<1>4. Orderly'
  BY <1>1, <1>3, ActionAssumption DEF Restart, ActionInv, ActionTypes, Ids, Orderly
<1>5. \A g \in Posters : Justified(g)'
  BY <1>1, ActionAssumption DEF Restart, Justified, Idle, ActionInv, ActionTypes, Ids
<1>6. QED
  BY <1>2, <1>4, <1>5 DEF ActionInv

LEMMA ActionStep == ASSUME ActionInv, [ActionNext]_actionVars PROVE ActionInv'
<1>1. CASE UNCHANGED actionVars
  <2>1. \A a \in Actors : Sniffing(a)' <=> Sniffing(a)
    BY <1>1 DEF actionVars, Sniffing
  <2>2. QED
    BY <1>1, <2>1 DEF actionVars, idVars, actionHistory, ActionInv, ActionTypes, Orderly, Justified
<1>2. QED
  BY <1>1, AskInv, EnterInv, FinishForInv, PostInv, ReadPageInv, RoundInv, FinishRoundInv, DeployInv, RestartInv
     DEF ActionNext

LEMMA ActionInvariance == ActionSpec => []ActionInv
BY ActionInitInv, ActionStep, PTL DEF ActionSpec

(* Every variable of the sniffer keeps its type. *)
THEOREM ActionTypeCorrect == ActionSpec => []ActionTypes
<1>1. ActionInv => ActionTypes
  BY DEF ActionInv
<1>2. QED
  BY <1>1, ActionInvariance, PTL

(* However many generations, sniffs and deployments interleave, an id is   *)
(* refused twice only if the sniff between was in vain, or the site was    *)
(* deployed once more.                                                     *)
THEOREM RefusalsAreExplained == ActionSpec => []StaleExplained
<1>1. ActionInv => StaleExplained
  BY DEF ActionInv, Justified, StaleExplained
<1>2. QED
  BY <1>1, ActionInvariance, PTL

(* While the service runs, no sniff, however slow, puts an id back that a  *)
(* later one has replaced.                                                 *)
THEOREM IdsNeverGoBack == ActionSpec => NeverBack
<1>1. ActionInv /\ [ActionNext]_actionVars => [ids' < ids => outages' # outages]_actionVars
  <2>1. SUFFICES ASSUME ActionInv, ActionNext, ids' < ids PROVE outages' # outages
    OBVIOUS
  <2>2. ids \in Nat /\ outages \in Nat
    <3>1. ids \in Ids /\ outages \in 0..MaxOutages /\ MaxOutages \in Nat
      BY <2>1, ActionAssumption DEF ActionInv, ActionTypes
    <3>2. QED
      BY <3>1, IdsAreNumbers
  <2>3. CASE ids' = ids
    BY <2>1, <2>2, <2>3
  <2>4. CASE \E g \in Posters : FinishFor(g)
    BY <2>1, <2>2, <2>4, FinishForInv DEF ActionInv, ActionTypes, Ids
  <2>5. CASE FinishRound
    BY <2>1, <2>2, <2>5, FinishRoundInv DEF ActionInv, ActionTypes, Ids
  <2>6. CASE Restart
    BY <2>2, <2>6 DEF Restart
  <2>7. QED
    BY <2>1, <2>3, <2>4, <2>5, <2>6
       DEF ActionNext, Ask, Enter, Post, ReadPage, RoundBegins, KeepaliveEnters, Deploy, idVars
<1>2. QED
  BY <1>1, ActionInvariance, PTL DEF ActionSpec, NeverBack

-----------------------------------------------------------------------------
(* Exits                                                                   *)

Stands == [at : {"idle", "slot", "lock", "solving", "submitting", "pausing", "polling", "left"},
           exit : 0..Exits, try : 0..Tries]
Inside(j) == edit[j].at \in {"solving", "submitting", "pausing", "polling"}

ExitTypes ==
    /\ edit \in [Edits -> Stands] /\ exitTurn \in E /\ exitLine \in [E -> Seq(Edits)]
    /\ upstream \in [E -> Edits \cup {Vacant}]

\* Who is behind the lock of an exit is the first of its line.
Holds(j) ==
    /\ edit[j].at \notin {"idle", "slot"} => Exit(j) \in E
    /\ Inside(j) => First(j)
    /\ edit[j].at = "pausing" => edit[j].try < Tries

\* The site runs edits of those who poll for them or have given up.
Runs(e) == upstream[e] # Vacant => Exit(upstream[e]) = e /\ edit[upstream[e]].at \in {"polling", "left"}

ExitsInv == ExitTypes /\ (\A j \in Edits : Holds(j)) /\ \A e \in E : Runs(e)

LEMMA ExitsInitInv == ExitsInit => ExitsInv
<1>1. ASSUME ExitsInit PROVE ExitTypes
  <2>1. [ForSlot EXCEPT !.at = "idle"] \in Stands
    BY ExitsAssumption DEF ForSlot, Stands
  <2>2. QED
    BY <1>1, <2>1, EmptySeq, ExitsAssumption DEF ExitsInit, ExitTypes, E
<1>2. ASSUME ExitsInit, NEW j \in Edits PROVE Holds(j)
  BY <1>2 DEF ExitsInit, Holds, Inside, ForSlot
<1>3. ASSUME ExitsInit, NEW e \in E PROVE Runs(e)
  BY <1>3 DEF ExitsInit, Runs
<1>4. QED
  BY <1>1, <1>2, <1>3 DEF ExitsInv

(* One job moves; those behind a lock stay the first of their lines. *)
LEMMA JobMoves ==
    ASSUME ExitsInv, NEW j \in Edits, NEW s \in Stands, edit' = [edit EXCEPT ![j] = s],
           exitTurn' \in E, exitLine' \in [E -> Seq(Edits)],
           s.at \in {"polling", "left"} \/ edit[j].at \notin {"polling", "left"},
           s.at \notin {"idle", "slot"} => s.exit \in E,
           s.at = "pausing" => s.try < Tries,
           edit[j].at \in {"polling", "left"} => s.exit = Exit(j),
           Inside(j)' => First(j)',
           \A k \in Edits \ {j} : Inside(k) => First(k)',
           upstream' \in [E -> Edits \cup {Vacant}],
           \A e \in E : upstream'[e] # upstream[e] =>
                upstream'[e] = Vacant \/ (upstream'[e] = j /\ s.exit = e /\ s.at \in {"polling", "left"})
    PROVE  ExitsInv'
<1>1. edit \in [Edits -> Stands] /\ edit'[j] = s /\ \A k \in Edits \ {j} : edit'[k] = edit[k]
  BY DEF ExitsInv, ExitTypes
<1>2. ExitTypes'
  BY <1>1 DEF ExitTypes
<1>3. Holds(j)'
  BY <1>1 DEF Holds, Inside, Exit
<1>4. ASSUME NEW k \in Edits \ {j} PROVE Holds(k)'
  <2>1. Holds(k)
    BY DEF ExitsInv
  <2>2. QED
    BY <1>1, <2>1 DEF Holds, Inside, Exit
<1>5. ASSUME NEW e \in E PROVE Runs(e)'
  <2>1. Runs(e) /\ upstream[e] \in Edits \cup {Vacant}
    BY DEF ExitsInv, ExitTypes
  <2>2. CASE upstream'[e] # upstream[e]
    BY <1>1, <2>2 DEF Runs, Exit
  <2>3. CASE upstream'[e] = upstream[e] /\ upstream[e] = j
    BY <1>1, <2>1, <2>3 DEF Runs, Exit
  <2>4. CASE upstream'[e] = upstream[e] /\ upstream[e] # j
    BY <1>1, <2>1, <2>4 DEF Runs, Exit
  <2>5. QED
    BY <2>2, <2>3, <2>4
<1>6. QED
  BY <1>2, <1>3, <1>4, <1>5 DEF ExitsInv

LEMMA ArriveInv == ASSUME ExitsInv, NEW j \in Edits, Arrive(j) PROVE ExitsInv'
<1>1. ForSlot \in Stands /\ ForSlot.at = "slot"
  BY ExitsAssumption DEF ForSlot, Stands
<1>2. edit' = [edit EXCEPT ![j] = ForSlot] /\ edit[j].at = "idle" /\ UNCHANGED <<exitTurn, exitLine, upstream>>
  BY DEF Arrive, At
<1>3. ~Inside(j)' /\ \A k \in Edits \ {j} : Inside(k) => First(k)'
  <2>1. \A k \in Edits \ {j} : edit'[k] = edit[k] /\ edit'[j] = ForSlot
    BY <1>2 DEF ExitsInv, ExitTypes
  <2>2. edit'[j] = ForSlot
    BY <1>2 DEF ExitsInv, ExitTypes
  <2>3. QED
    BY <1>1, <1>2, <2>1, <2>2 DEF ExitsInv, Holds, Inside, First, Exit
<1>4. QED
  BY <1>1, <1>2, <1>3, JobMoves DEF ExitsInv, ExitTypes

LEMMA TakeExitInv == ASSUME ExitsInv, NEW j \in Edits, TakeExit(j) PROVE ExitsInv'
<1> DEFINE s == [edit[j] EXCEPT !.at = "lock", !.exit = exitTurn']
<1>1. /\ edit' = [edit EXCEPT ![j] = s] /\ edit[j].at = "slot" /\ UNCHANGED upstream
      /\ exitLine' = [exitLine EXCEPT ![exitTurn'] = Append(@, j)]
  BY DEF TakeExit, At
<1>2. exitTurn' \in E
  <2>1. exitTurn' = (exitTurn % Exits) + 1 /\ exitTurn \in Nat /\ Exits \in Nat /\ Exits > 0
    BY ExitsAssumption DEF TakeExit, ExitsInv, ExitTypes, E
  <2>2. exitTurn % Exits \in 0..(Exits - 1)
    BY <2>1
  <2>3. QED
    BY <2>1, <2>2 DEF E
<1>3. s \in Stands /\ s.at = "lock" /\ s.exit = exitTurn'
  <2>1. exitTurn' \in 0..Exits
    BY <1>2, ExitsAssumption DEF E
  <2>2. QED
    BY <2>1 DEF ExitsInv, ExitTypes, Stands
<1> HIDE DEF s
<1>4. exitLine' \in [E -> Seq(Edits)]
  BY <1>1, <1>2, AppendProperties DEF ExitsInv, ExitTypes
<1>5. edit'[j] = s /\ \A k \in Edits \ {j} : edit'[k] = edit[k]
  BY <1>1 DEF ExitsInv, ExitTypes
<1>6. ASSUME NEW k \in Edits \ {j}, Inside(k) PROVE First(k)'
  <2>1. First(k) /\ Exit(k) \in E /\ Exit(k)' = Exit(k) /\ exitLine[Exit(k)] \in Seq(Edits)
    BY <1>5, <1>6 DEF ExitsInv, Holds, ExitTypes, Exit, Inside
  <2>2. CASE Exit(k) = exitTurn'
    <3>1. exitLine'[Exit(k)] = Append(exitLine[Exit(k)], j)
      BY <1>1, <2>1, <2>2 DEF ExitsInv, ExitTypes
    <3>2. Append(exitLine[Exit(k)], j) # <<>> /\ Head(Append(exitLine[Exit(k)], j)) = Head(exitLine[Exit(k)])
      BY <2>1, AppendProperties, HeadTailProperties, EmptySeq, LenProperties DEF First
    <3>3. QED
      BY <2>1, <3>1, <3>2 DEF First
  <2>3. CASE Exit(k) # exitTurn'
    BY <1>1, <2>1, <2>3 DEF First, ExitsInv, ExitTypes
  <2>4. QED
    BY <2>2, <2>3
<1>7. ~Inside(j)'
  BY <1>3, <1>5 DEF Inside
<1>8. QED
  BY <1>1, <1>2, <1>3, <1>4, <1>6, <1>7, JobMoves DEF ExitsInv, ExitTypes

(* A job goes on behind its lock. *)
LEMMA GoesOn ==
    ASSUME ExitsInv, NEW j \in Edits, First(j), Exit(j) \in E, NEW s \in Stands,
           edit' = [edit EXCEPT ![j] = s], s.exit = Exit(j), s.at = "pausing" => s.try < Tries,
           s.at # "left", s.at \notin {"idle", "slot"},
           edit[j].at \notin {"polling", "left"},
           UNCHANGED <<exitTurn, exitLine>>, upstream' \in [E -> Edits \cup {Vacant}],
           \A e \in E : upstream'[e] # upstream[e] =>
                upstream'[e] = j /\ s.exit = e /\ s.at \in {"polling", "left"}
    PROVE  ExitsInv'
<1>1. edit'[j] = s /\ \A k \in Edits \ {j} : edit'[k] = edit[k]
  BY DEF ExitsInv, ExitTypes
<1>2. First(j)'
  BY <1>1 DEF First, Exit
<1>3. \A k \in Edits \ {j} : Inside(k) => First(k)'
  BY <1>1 DEF ExitsInv, Holds, First, Exit
<1>4. exitTurn' \in E /\ exitLine' \in [E -> Seq(Edits)]
  BY DEF ExitsInv, ExitTypes
<1>5. /\ s.at \in {"polling", "left"} \/ edit[j].at \notin {"polling", "left"}
      /\ s.exit \in E /\ (edit[j].at \in {"polling", "left"} => s.exit = Exit(j))
      /\ \A e \in E : upstream'[e] # upstream[e] =>
            upstream'[e] = Vacant \/ (upstream'[e] = j /\ s.exit = e /\ s.at \in {"polling", "left"})
  OBVIOUS
<1>6. QED
  BY <1>2, <1>3, <1>4, <1>5, JobMoves

(* The lock is handed on by the first of its line, and no other job is     *)
(* behind it.                                                              *)
LEMMA LeaveInv ==
    ASSUME ExitsInv, NEW j \in Edits, Inside(j), NEW outcome \in Settled, Leave(j, outcome),
           upstream' \in [E -> Edits \cup {Vacant}],
           \A e \in E : upstream'[e] # upstream[e] => upstream'[e] = j /\ e = Exit(j)
    PROVE  ExitsInv'
<1> DEFINE s == [edit[j] EXCEPT !.at = "left"]
<1>1. /\ edit' = [edit EXCEPT ![j] = s] /\ UNCHANGED exitTurn
      /\ exitLine' = [exitLine EXCEPT ![Exit(j)] = Tail(@)]
  BY DEF Leave
<1>2. s \in Stands /\ s.at = "left" /\ s.exit = Exit(j)
  BY DEF ExitsInv, ExitTypes, Stands, Exit
<1> HIDE DEF s
<1>3. First(j) /\ Exit(j) \in E /\ exitLine[Exit(j)] \in Seq(Edits) /\ exitLine[Exit(j)] # <<>>
  BY DEF ExitsInv, ExitTypes, Holds, Inside, First
<1>4. exitLine' \in [E -> Seq(Edits)]
  BY <1>1, <1>3, HeadTailProperties DEF ExitsInv, ExitTypes
<1>5. edit'[j] = s /\ \A k \in Edits \ {j} : edit'[k] = edit[k]
  BY <1>1 DEF ExitsInv, ExitTypes
<1>6. ASSUME NEW k \in Edits \ {j}, Inside(k) PROVE First(k)'
  <2>1. First(k) /\ Exit(k)' = Exit(k) /\ Exit(k) \in E
    BY <1>5, <1>6 DEF ExitsInv, Holds, Exit, Inside
  <2>2. Exit(k) # Exit(j)
    BY <1>3, <2>1 DEF First
  <2>3. exitLine'[Exit(k)] = exitLine[Exit(k)]
    BY <1>1, <2>1, <2>2 DEF ExitsInv, ExitTypes
  <2>4. QED
    BY <2>1, <2>3 DEF First
<1>7. ~Inside(j)'
  BY <1>2, <1>5 DEF Inside
<1>8. exitTurn' \in E
  BY <1>1 DEF ExitsInv, ExitTypes
<1>9. /\ s.at \in {"polling", "left"} /\ s.exit \in E /\ s.at # "pausing"
      /\ \A e \in E : upstream'[e] # upstream[e] =>
            upstream'[e] = Vacant \/ (upstream'[e] = j /\ s.exit = e /\ s.at \in {"polling", "left"})
  BY <1>2, <1>3
<1>10. QED
  BY <1>1, <1>2, <1>4, <1>6, <1>7, <1>8, <1>9, JobMoves

LEMMA EnterExitInv == ASSUME ExitsInv, NEW j \in Edits, EnterExit(j) PROVE ExitsInv'
<1> DEFINE s == [edit[j] EXCEPT !.at = "solving", !.try = 1]
<1>1. edit' = [edit EXCEPT ![j] = s] /\ First(j) /\ edit[j].at = "lock"
  BY DEF EnterExit, At
<1>2. s \in Stands /\ s.exit = Exit(j) /\ s.at = "solving" /\ Exit(j) \in E
  <2>1. edit[j] \in Stands /\ Exit(j) \in E
    BY <1>1 DEF ExitsInv, ExitTypes, Holds
  <2>2. 1 \in 0..Tries
    BY ExitsAssumption
  <2>3. QED
    BY <2>1, <2>2 DEF Stands, Exit
<1> HIDE DEF s
<1>3. UNCHANGED <<exitTurn, exitLine, upstream>> /\ upstream' \in [E -> Edits \cup {Vacant}]
  BY DEF EnterExit, ExitsInv, ExitTypes
<1>4. QED
  BY <1>1, <1>2, <1>3, GoesOn

LEMMA InsideInv ==
    ASSUME ExitsInv, NEW j \in Edits, Uploaded(j) \/ SubmitEdit(j) \/ Wedged(j) \/ Again(j) PROVE ExitsInv'
<1>1. Inside(j) /\ edit[j].at # "polling" /\ First(j) /\ Exit(j) \in E
  BY DEF ExitsInv, Holds, Inside, Uploaded, SubmitEdit, Wedged, Again, At
<1>2. ASSUME NEW label \in {"submitting", "polling", "pausing"}, edit' = [edit EXCEPT ![j].at = label],
             label = "pausing" => edit[j].try < Tries,
             UNCHANGED <<exitTurn, exitLine>>, upstream' \in [E -> Edits \cup {Vacant}],
             \A e \in E : upstream'[e] # upstream[e] => upstream'[e] = j /\ Exit(j) = e /\ label = "polling"
      PROVE  ExitsInv'
  <2> DEFINE s == [edit[j] EXCEPT !.at = label]
  <2>1. s \in Stands /\ s.exit = Exit(j) /\ s.at = label /\ s.try = edit[j].try
    BY DEF ExitsInv, ExitTypes, Stands, Exit
  <2>2. edit' = [edit EXCEPT ![j] = s]
    BY <1>2
  <2> HIDE DEF s
  <2>3. /\ edit[j].at \notin {"polling", "left"} /\ s.at \notin {"idle", "slot", "left"}
        /\ \A e \in E : upstream'[e] # upstream[e] =>
              upstream'[e] = j /\ s.exit = e /\ s.at \in {"polling", "left"}
    BY <1>1, <1>2, <2>1 DEF Inside
  <2>4. QED
    BY <1>1, <1>2, <2>1, <2>2, <2>3, GoesOn
<1>3. CASE Uploaded(j)
  BY <1>2, <1>3 DEF Uploaded, Moves, ExitsInv, ExitTypes
<1>4. CASE SubmitEdit(j)
  <2>1. /\ upstream' \in [E -> Edits \cup {Vacant}]
        /\ \A e \in E : upstream'[e] # upstream[e] => upstream'[e] = j /\ Exit(j) = e
    BY <1>4 DEF SubmitEdit, ExitsInv, ExitTypes
  <2>2. CASE Moves(j, "polling") /\ UNCHANGED <<exitTurn, exitLine, editRow>>
    BY <1>2, <2>1, <2>2 DEF Moves
  <2>3. CASE Leave(j, "error")
    BY <1>1, <2>1, <2>3, LeaveInv DEF Settled
  <2>4. QED
    BY <1>4, <2>2, <2>3 DEF SubmitEdit
<1>5. CASE Wedged(j)
  <2>1. CASE edit[j].try < Tries /\ Moves(j, "pausing") /\ UNCHANGED <<exitTurn, exitLine, editRow>>
    BY <1>2, <1>5, <2>1 DEF Wedged, Moves, ExitsInv, ExitTypes
  <2>2. CASE Leave(j, "error")
    BY <1>1, <1>5, <2>2, LeaveInv DEF Wedged, Settled, ExitsInv, ExitTypes
  <2>3. QED
    BY <1>5, <2>1, <2>2 DEF Wedged
<1>6. CASE Again(j)
  <2> DEFINE s == [edit[j] EXCEPT !.at = "solving", !.try = @ + 1]
  <2>1. edit' = [edit EXCEPT ![j] = s]
    BY <1>6 DEF Again
  <2>2. s \in Stands /\ s.exit = Exit(j) /\ s.at = "solving"
    <3>1. edit[j] \in Stands /\ edit[j].try < Tries
      BY <1>6 DEF ExitsInv, ExitTypes, Holds, Again, At
    <3>2. edit[j].try + 1 \in 0..Tries
      BY <3>1, ExitsAssumption DEF Stands
    <3>3. QED
      BY <3>1, <3>2 DEF Stands, Exit
  <2> HIDE DEF s
  <2>3. UNCHANGED <<exitTurn, exitLine, upstream>> /\ upstream' \in [E -> Edits \cup {Vacant}]
    BY <1>6 DEF Again, ExitsInv, ExitTypes
  <2>4. edit[j].at \notin {"polling", "left"}
    BY <1>6 DEF Again, At
  <2>5. QED
    BY <1>1, <2>1, <2>2, <2>3, <2>4, GoesOn
<1>7. QED
  BY <1>3, <1>4, <1>5, <1>6

LEMMA GivenUpInv ==
    ASSUME ExitsInv, NEW j \in Edits, Stumbles(j) \/ SubmitFails(j) \/ EditAnswered(j) \/ GivesUp(j)
    PROVE  ExitsInv'
<1>1. Inside(j) /\ UNCHANGED upstream /\ \E outcome \in Settled : Leave(j, outcome)
  BY DEF Inside, Stumbles, SubmitFails, EditAnswered, GivesUp, At, Settled
<1>2. upstream' \in [E -> Edits \cup {Vacant}] /\ \A e \in E : upstream'[e] = upstream[e]
  BY <1>1 DEF ExitsInv, ExitTypes
<1>3. QED
  BY <1>1, <1>2, LeaveInv

LEMMA SiteEndsInv == ASSUME ExitsInv, NEW e \in E, SiteEnds(e) PROVE ExitsInv'
BY DEF SiteEnds, ExitsInv, ExitTypes, Holds, Inside, First, Exit, Runs

LEMMA ExitsInvariance == ExitsSpec => []ExitsInv
<1>1. ExitsInv /\ UNCHANGED exitVars => ExitsInv'
  BY DEF exitVars, ExitsInv, ExitTypes, Holds, Inside, First, Exit, Runs
<1>2. ExitsInv /\ [ExitsNext]_exitVars => ExitsInv'
  BY <1>1, ArriveInv, TakeExitInv, EnterExitInv, InsideInv, GivenUpInv, SiteEndsInv DEF ExitsNext
<1>3. QED
  BY <1>2, ExitsInitInv, PTL DEF ExitsSpec

(* However many edits share however many exits, wait, fail, give up and    *)
(* try again: a job that finds its exit in use at the site finds an edit   *)
(* there that was given up, never one of a job that still polls for it.    *)
THEOREM EditsDoNotMeet == ExitsSpec => []BusyExplained
<1>1. ExitsInv => BusyExplained
  <2>1. SUFFICES ASSUME ExitsInv, NEW j \in Edits, At(j, "submitting"), upstream[Exit(j)] # Vacant
                 PROVE  At(upstream[Exit(j)], "left")
    BY DEF BusyExplained
  <2> DEFINE k == upstream[Exit(j)]
  <2>2. Exit(j) \in E /\ First(j)
    BY <2>1 DEF ExitsInv, Holds, Inside, At
  <2>3. k \in Edits /\ Exit(k) = Exit(j) /\ edit[k].at \in {"polling", "left"}
    BY <2>1, <2>2 DEF ExitsInv, ExitTypes, Runs
  <2> HIDE DEF k
  <2>4. edit[k].at = "polling" => First(k)
    <3>1. Holds(k)
      BY <2>1, <2>3 DEF ExitsInv
    <3>2. QED
      BY <3>1 DEF Holds, Inside
  <2>5. edit[k].at # "polling"
    <3>1. j # k
      BY <2>1, <2>3 DEF At
    <3>2. First(k) => k = j
      BY <2>2, <2>3 DEF First
    <3>3. QED
      BY <2>4, <3>1, <3>2
  <2>6. QED
    BY <2>3, <2>5 DEF k, At
<1>2. QED
  BY <1>1, ExitsInvariance, PTL

(* Who is in a line was given its exit, and keeps it.                      *)
LinesTyped ==
    /\ editRow \in [Edits -> Settled \cup {"pending", Vacant}]
    /\ \A e \in E : \A j \in ToSet(exitLine[e]) : Exit(j) = e /\ edit[j].at \notin {"idle", "slot"}

LEMMA LinesShrink ==
    ASSUME ExitsInv, LinesTyped, NEW j \in Edits, NEW s \in Stands, edit' = [edit EXCEPT ![j] = s],
           s.exit = Exit(j), s.at \notin {"idle", "slot"},
           exitLine' = exitLine \/ (exitLine[Exit(j)] # <<>> /\ Exit(j) \in E /\ exitLine' = [exitLine EXCEPT ![Exit(j)] = Tail(@)]),
           editRow' = editRow \/ \E outcome \in Settled : editRow' = [editRow EXCEPT ![j] = outcome]
    PROVE  LinesTyped'
<1>1. \A k \in Edits : k # j => edit'[k] = edit[k]
  BY DEF ExitsInv, ExitTypes
<1>2. edit'[j] = s
  BY DEF ExitsInv, ExitTypes
<1>3. \A e \in E : exitLine[e] \in Seq(Edits)
  BY DEF ExitsInv, ExitTypes
<1>4. ASSUME NEW e \in E PROVE ToSet(exitLine'[e]) \subseteq ToSet(exitLine[e]) /\ ToSet(exitLine[e]) \subseteq Edits
  <2>1. ToSet(exitLine[e]) \subseteq Edits
    BY <1>3, LenProperties, ElementOfSeq DEF ToSet
  <2>2. exitLine'[e] = exitLine[e] \/ (exitLine[e] # <<>> /\ exitLine'[e] = Tail(exitLine[e]))
    BY DEF ExitsInv, ExitTypes
  <2>3. QED
    BY <1>3, <2>1, <2>2, RestListed
<1>5. ASSUME NEW e \in E, NEW k \in ToSet(exitLine'[e]) PROVE Exit(k)' = e /\ edit'[k].at \notin {"idle", "slot"}
  <2>1. k \in ToSet(exitLine[e]) /\ k \in Edits
    BY <1>4
  <2>2. Exit(k) = e /\ edit[k].at \notin {"idle", "slot"}
    BY <2>1 DEF LinesTyped
  <2>3. CASE k = j
    BY <1>2, <2>2, <2>3 DEF Exit
  <2>4. CASE k # j
    BY <1>1, <2>1, <2>2, <2>4 DEF Exit
  <2>5. QED
    BY <2>3, <2>4
<1>6. editRow' \in [Edits -> Settled \cup {"pending", Vacant}]
  BY DEF LinesTyped
<1>7. QED
  BY <1>5, <1>6 DEF LinesTyped

LEMMA LinesGoOn ==
    ASSUME ExitsInv, LinesTyped, [ExitsNext]_exitVars
    PROVE  LinesTyped'
<1>1. edit \in [Edits -> Stands] /\ exitLine \in [E -> Seq(Edits)] /\ exitTurn \in E
  BY DEF ExitsInv, ExitTypes
<1>2. \A e \in E : ToSet(exitLine[e]) \subseteq Edits
  BY <1>1, LenProperties, ElementOfSeq DEF ToSet
<1>3. CASE UNCHANGED exitVars \/ \E e \in E : SiteEnds(e)
  <2>1. UNCHANGED <<edit, exitLine, editRow>>
    BY <1>3 DEF exitVars, SiteEnds
  <2>2. QED
    BY <2>1 DEF LinesTyped, Exit
<1>4. ASSUME NEW j \in Edits, Arrive(j) PROVE LinesTyped'
  <2>1. edit' = [edit EXCEPT ![j] = ForSlot] /\ edit[j].at = "idle" /\ exitLine' = exitLine
        /\ editRow' = [editRow EXCEPT ![j] = "pending"]
    BY <1>4 DEF Arrive, At
  <2>2. ASSUME NEW e \in E, NEW k \in ToSet(exitLine[e]) PROVE Exit(k)' = e /\ edit'[k].at \notin {"idle", "slot"}
    <3>1. Exit(k) = e /\ edit[k].at \notin {"idle", "slot"} /\ k \in Edits
      BY <1>2 DEF LinesTyped
    <3>2. edit'[k] = edit[k]
      BY <1>1, <2>1, <3>1
    <3>3. QED
      BY <3>1, <3>2 DEF Exit
  <2>3. editRow' \in [Edits -> Settled \cup {"pending", Vacant}]
    BY <2>1 DEF LinesTyped
  <2>4. QED
    BY <2>1, <2>2, <2>3 DEF LinesTyped
<1>5. ASSUME NEW j \in Edits, TakeExit(j) PROVE LinesTyped'
  <2>1. PICK n : n = exitTurn'
    OBVIOUS
  <2>2. PICK s : s = [edit[j] EXCEPT !.at = "lock", !.exit = n]
    OBVIOUS
  <2>3. /\ edit[j].at = "slot" /\ edit' = [edit EXCEPT ![j].at = "lock", ![j].exit = n]
        /\ exitLine' = [exitLine EXCEPT ![n] = Append(@, j)] /\ editRow' = editRow
        /\ n = (exitTurn % Exits) + 1
    BY <1>5, <2>1 DEF TakeExit, At
  <2>4. edit' = [edit EXCEPT ![j] = s]
    BY <2>2, <2>3, Zenon
  <2>5. s.at = "lock" /\ s.exit = n /\ edit'[j] = s
    BY <1>1, <2>2, <2>4 DEF Stands
  <2>6. n \in E
    BY <1>1, <2>3, ExitsAssumption DEF E
  <2>7. ASSUME NEW e \in E, NEW k \in ToSet(exitLine'[e]) PROVE Exit(k)' = e /\ edit'[k].at \notin {"idle", "slot"}
    <3>1. CASE k \in ToSet(exitLine[e])
      <4>1. Exit(k) = e /\ edit[k].at \notin {"idle", "slot"} /\ k \in Edits
        BY <1>2, <3>1 DEF LinesTyped
      <4>2. edit'[k] = edit[k]
        BY <1>1, <2>3, <2>4, <4>1
      <4>3. QED
        BY <4>1, <4>2 DEF Exit
    <3>2. CASE k \notin ToSet(exitLine[e])
      <4>1. e = n
        BY <1>1, <2>3, <3>2
      <4>2. exitLine[n] \in Seq(Edits) /\ exitLine'[n] = Append(exitLine[n], j)
        BY <1>1, <2>3, <2>6
      <4>3. ToSet(exitLine'[n]) = ToSet(exitLine[n]) \cup {j}
        BY <4>2, OneAppended
      <4>4. k = j
        BY <3>2, <4>1, <4>3
      <4>5. QED
        BY <2>5, <4>1, <4>4 DEF Exit
    <3>3. QED
      BY <3>1, <3>2
  <2>8. QED
    BY <2>3, <2>7 DEF LinesTyped
<1>6. ASSUME NEW j \in Edits, edit[j].at \notin {"idle", "slot"},
             \/ \E at \in {"solving", "submitting", "pausing", "polling"}, m \in 0 .. Tries :
                    edit' = [edit EXCEPT ![j].at = at, ![j].try = m] /\ UNCHANGED <<exitLine, editRow>>
             \/ Inside(j) /\ \E outcome \in Settled : Leave(j, outcome)
      PROVE  LinesTyped'
  <2>1. PICK w : w = edit[j]
    OBVIOUS
  <2>2. w \in Stands /\ Exit(j) = w.exit
    BY <1>1, <2>1 DEF Exit
  <2>3. ASSUME NEW at \in {"solving", "submitting", "pausing", "polling"}, NEW m \in 0 .. Tries,
               edit' = [edit EXCEPT ![j].at = at, ![j].try = m], UNCHANGED <<exitLine, editRow>>
        PROVE  LinesTyped'
    <3>1. PICK s : s = [w EXCEPT !.at = at, !.try = m]
      OBVIOUS
    <3>2. s \in Stands /\ s.exit = Exit(j) /\ s.at \notin {"idle", "slot"}
      BY <2>2, <3>1 DEF Stands
    <3>3. edit' = [edit EXCEPT ![j] = s]
      BY <2>1, <2>3, <3>1, Zenon
    <3>4. QED
      BY <2>3, <3>2, <3>3, LinesShrink
  <2>4. ASSUME Inside(j), NEW outcome \in Settled, Leave(j, outcome) PROVE LinesTyped'
    <3>1. PICK s : s = [w EXCEPT !.at = "left"]
      OBVIOUS
    <3>2. s \in Stands /\ s.exit = Exit(j) /\ s.at \notin {"idle", "slot"}
      BY <2>2, <3>1 DEF Stands
    <3>3. edit' = [edit EXCEPT ![j] = s] /\ editRow' = [editRow EXCEPT ![j] = outcome]
          /\ exitLine' = [exitLine EXCEPT ![Exit(j)] = Tail(@)]
      BY <2>1, <2>4, <3>1, Zenon DEF Leave
    <3>4. Exit(j) \in E /\ exitLine[Exit(j)] # <<>>
      BY <2>4 DEF ExitsInv, Holds, Inside, First
    <3>5. QED
      BY <3>2, <3>3, <3>4, LinesShrink
  <2>5. QED
    BY <1>6, <2>3, <2>4
<1>7. ASSUME NEW j \in Edits,
             \/ EnterExit(j) \/ Stumbles(j) \/ Uploaded(j) \/ SubmitEdit(j) \/ SubmitFails(j)
             \/ Wedged(j) \/ Again(j) \/ EditAnswered(j) \/ GivesUp(j)
      PROVE  LinesTyped'
  <2>1. edit[j].at \notin {"idle", "slot"}
    BY <1>7 DEF EnterExit, Stumbles, Uploaded, SubmitEdit, SubmitFails, Wedged, Again, EditAnswered, GivesUp, At
  <2>2. edit[j] \in Stands /\ edit[j].try \in 0 .. Tries /\ Tries \in Nat /\ Tries >= 1
    BY <1>1, ExitsAssumption DEF Stands
  <2>3. ASSUME NEW at \in {"submitting", "pausing", "polling"}, Moves(j, at), UNCHANGED <<exitLine, editRow>> PROVE LinesTyped'
    <3>1. edit' = [edit EXCEPT ![j].at = at, ![j].try = edit[j].try]
      BY <1>1, <2>3 DEF Moves, Stands
    <3>2. QED
      BY <1>6, <2>1, <2>2, <2>3, <3>1
  <2>4. CASE EnterExit(j)
    <3>1. edit' = [edit EXCEPT ![j].at = "solving", ![j].try = 1] /\ UNCHANGED <<exitLine, editRow>> /\ 1 \in 0 .. Tries
      BY <2>2, <2>4 DEF EnterExit
    <3>2. QED
      BY <1>6, <2>1, <3>1
  <2>5. CASE Again(j)
    <3>1. edit[j].try < Tries
      BY <2>5 DEF Again, At, ExitsInv, Holds
    <3>2. edit[j].try + 1 \in 0 .. Tries
      BY <2>2, <3>1
    <3>3. edit' = [edit EXCEPT ![j].at = "solving", ![j].try = edit[j].try + 1] /\ UNCHANGED <<exitLine, editRow>>
      BY <2>5 DEF Again
    <3>4. QED
      BY <1>6, <2>1, <3>2, <3>3
  <2>6. CASE Uploaded(j) \/ SubmitEdit(j) \/ Wedged(j) \/ Stumbles(j) \/ SubmitFails(j) \/ EditAnswered(j) \/ GivesUp(j)
    <3>1. Inside(j)
      BY <2>6 DEF Inside, Uploaded, SubmitEdit, Wedged, Stumbles, SubmitFails, EditAnswered, GivesUp, At
    <3>2. \/ \E at \in {"submitting", "pausing", "polling"} : Moves(j, at) /\ UNCHANGED <<exitLine, editRow>>
          \/ \E outcome \in Settled : Leave(j, outcome)
      BY <2>6 DEF Uploaded, SubmitEdit, Wedged, Stumbles, SubmitFails, EditAnswered, GivesUp, Settled
    <3>3. QED
      BY <1>6, <2>1, <2>3, <3>1, <3>2
  <2>7. QED
    BY <1>7, <2>4, <2>5, <2>6
<1>8. QED
  BY <1>3, <1>4, <1>5, <1>7 DEF ExitsNext

(* Who is in the line of an exit has been given it.                        *)
THEOREM ExitsTypeCorrect == ExitsSpec => []ExitsTypes
<1>1. ExitsInit => LinesTyped
  <2>1. ToSet(<<>>) = {}
    BY DEF ToSet
  <2>2. QED
    BY <2>1 DEF ExitsInit, LinesTyped
<1>2. ExitsInv /\ LinesTyped => ExitsTypes
  <2> SUFFICES ASSUME ExitsInv, LinesTyped PROVE ExitsTypes
    OBVIOUS
  <2>1. \A e \in E : \A j \in ToSet(exitLine[e]) : Exit(j) = e
    BY DEF LinesTyped
  <2>2. QED
    BY <2>1 DEF ExitsInv, ExitTypes, LinesTyped, ExitsTypes, Stands
<1>3. QED
  BY <1>1, <1>2, ExitsInvariance, LinesGoOn, PTL DEF ExitsSpec

-----------------------------------------------------------------------------
(* Dispatch                                                                *)

(* Every start of a provider's task under a key is paid for: by the claim  *)
(* that stands, or by one that expired.                                    *)

Started(k) == {r \in Requests : Key(r) = k /\ Route(r) = "provider" /\ run[r] # "none"}
Claimed(k) == IF claim[k] = None THEN 0 ELSE 1

RequestsShaped ==
    req = [r \in Requests |-> [at |-> req[r].at, ask |-> req[r].ask, id |-> req[r].id]]
ClaimsShaped ==
    /\ DOMAIN claim = Keys /\ DOMAIN run = Requests
    /\ lapsed \in [Keys -> Nat]

PaidFor == \A k \in Keys : Cardinality(Started(k)) <= lapsed[k] + Claimed(k)

DispatchInv == RequestsShaped /\ ClaimsShaped /\ PaidFor

AsksKept == \A r \in Requests : Key(r)' = Key(r) /\ Route(r)' = Route(r)

\* One request at most more has started.
LEMMA OneMore ==
    ASSUME NEW k, NEW r, Started(k)' \subseteq Started(k) \cup {r}
    PROVE  /\ Cardinality(Started(k)) \in Nat /\ Cardinality(Started(k)') \in Nat
           /\ Cardinality(Started(k)') <= Cardinality(Started(k)) + 1
<1> DEFINE A == Started(k)
           B == Started(k)'
<1>1. IsFiniteSet(A)
  BY FS_Subset, DispatchAssumption DEF Started
<1>2. B \subseteq A \cup {r}
  OBVIOUS
<1> HIDE DEF A, B
<1>3. IsFiniteSet(A \cup {r}) /\ Cardinality(A) \in Nat
      /\ Cardinality(A \cup {r}) \in {Cardinality(A), Cardinality(A) + 1}
  BY <1>1, FS_AddElement, FS_CardinalityType
<1>4. IsFiniteSet(B) /\ Cardinality(B) <= Cardinality(A \cup {r}) /\ Cardinality(B) \in Nat
  BY <1>2, <1>3, FS_Subset, FS_CardinalityType
<1>5. Cardinality(A) \in Nat /\ Cardinality(B) \in Nat /\ Cardinality(B) <= Cardinality(A) + 1
  BY <1>3, <1>4
<1>6. QED
  BY <1>5 DEF A, B

LEMMA NoMore ==
    ASSUME NEW k, Started(k)' \subseteq Started(k)
    PROVE  /\ Cardinality(Started(k)) \in Nat /\ Cardinality(Started(k)') \in Nat
           /\ Cardinality(Started(k)') <= Cardinality(Started(k))
<1> DEFINE A == Started(k)
           B == Started(k)'
<1>1. IsFiniteSet(A)
  BY FS_Subset, DispatchAssumption DEF Started
<1>2. B \subseteq A
  OBVIOUS
<1> HIDE DEF A, B
<1>3. IsFiniteSet(B) /\ Cardinality(B) <= Cardinality(A) /\ Cardinality(A) \in Nat /\ Cardinality(B) \in Nat
  BY <1>1, <1>2, FS_Subset, FS_CardinalityType
<1>4. QED
  BY <1>3 DEF A, B

\* A step after which no task runs that did not before, while the price of a
\* key does not fall, pays for every start.
LEMMA NobodyStarts ==
    ASSUME DispatchInv, AsksKept, ClaimsShaped',
           \A r \in Requests : run[r] = "none" => run'[r] = "none" \/ Route(r) # "provider" \/ Key(r) \notin Keys,
           \A k \in Keys : lapsed'[k] + Claimed(k)' >= lapsed[k] + Claimed(k)
    PROVE  PaidFor'
<1> SUFFICES ASSUME NEW k \in Keys PROVE (Cardinality(Started(k)) <= lapsed[k] + Claimed(k))'
  BY DEF PaidFor
<1>1. Started(k)' \subseteq Started(k)
  BY DEF Started, AsksKept
<1>2. /\ Cardinality(Started(k)) \in Nat /\ Cardinality(Started(k)') \in Nat
      /\ Cardinality(Started(k)') <= Cardinality(Started(k))
  BY <1>1, NoMore
<1>3. Cardinality(Started(k)) <= lapsed[k] + Claimed(k)
  BY DEF DispatchInv, PaidFor
<1>4. lapsed[k] \in Nat /\ lapsed'[k] \in Nat /\ Claimed(k) \in Nat /\ Claimed(k)' \in Nat
  BY DEF DispatchInv, ClaimsShaped, Claimed
<1> HIDE DEF DispatchInv, ClaimsShaped, PaidFor, Started, Claimed
<1>5. QED
  BY <1>2, <1>3, <1>4

\* What a request is told, and where it goes next, changes nothing it asked.
LEMMA MovesKeep ==
    ASSUME RequestsShaped, NEW r, NEW at, NEW t, GoesOnTo(r, at) \/ Tells(r, t)
    PROVE  RequestsShaped' /\ AsksKept
<1> DEFINE now(u) == [at |-> req'[u].at, ask |-> req'[u].ask, id |-> req'[u].id]
<1>1. DOMAIN req = Requests /\ req' = [u \in Requests |-> req'[u]]
  BY DEF GoesOnTo, Tells, RequestsShaped
<1>2. ASSUME NEW u \in Requests PROVE req'[u] = now(u) /\ req'[u].ask = req[u].ask
  <2>1. req[u] = [at |-> req[u].at, ask |-> req[u].ask, id |-> req[u].id]
    BY DEF RequestsShaped
  <2> DEFINE old == req[u]
  <2>2. CASE u # r
    <3>1. req'[u] = req[u]
      BY <1>1, <2>2 DEF GoesOnTo, Tells
    <3>2. QED
      BY <2>1, <3>1
  <2>3. CASE u = r /\ GoesOnTo(r, at)
    <3>1. req'[u] = [old EXCEPT !.at = at]
      BY <1>1, <2>3 DEF GoesOnTo
    <3>2. QED
      BY <2>1, <3>1
  <2>4. CASE u = r /\ Tells(r, t)
    <3>1. req'[u] = [old EXCEPT !.at = "told", !.id = t]
      BY <1>1, <2>4 DEF Tells
    <3>2. QED
      BY <2>1, <3>1
  <2>5. QED
    BY <2>2, <2>3, <2>4
<1>3. RequestsShaped'
  <2> HIDE DEF now
  <2>1. req' = [u \in Requests |-> now(u)]
    BY <1>1, <1>2
  <2>2. QED
    BY <2>1 DEF now, RequestsShaped
<1>4. QED
  BY <1>2, <1>3 DEF AsksKept, Key, Route

LEMMA SameAsks == ASSUME RequestsShaped, req' = req PROVE RequestsShaped' /\ AsksKept
BY DEF RequestsShaped, AsksKept, Key, Route

\* A start touches nothing but the task's own run and the lines.
LEMMA StartsOne ==
    ASSUME ClaimsShaped, NEW t \in Requests, StartRun(t)
    PROVE  DOMAIN run' = Requests /\ \A r \in Requests : r # t => run'[r] = run[r]
BY DEF StartRun, ClaimsShaped

\* The winner of a claim starts, and its claim pays.
LEMMA WinsInv ==
    ASSUME DispatchInv, NEW r \in Requests, claim[Key(r)] = None, Wins(r), UNCHANGED lapsed
    PROVE  DispatchInv'
<1>1. RequestsShaped' /\ AsksKept
  <2>1. Tells(r, r)
    BY DEF Wins
  <2>2. QED
    BY <2>1, MovesKeep DEF DispatchInv
<1>2. ClaimsShaped' /\ \A u \in Requests : u # r => run'[u] = run[u]
  <2>1. DOMAIN run' = Requests /\ \A u \in Requests : u # r => run'[u] = run[u]
    BY StartsOne DEF Wins, DispatchInv, ClaimsShaped
  <2>2. claim' = [claim EXCEPT ![Key(r)] = r]
    BY DEF Wins
  <2>3. QED
    BY <2>1, <2>2 DEF DispatchInv, ClaimsShaped
<1>3. claim' = [claim EXCEPT ![Key(r)] = r]
  BY DEF Wins
<1>4. ASSUME NEW k \in Keys PROVE (Cardinality(Started(k)) <= lapsed[k] + Claimed(k))'
  <2>1. Cardinality(Started(k)) <= lapsed[k] + Claimed(k) /\ lapsed[k] \in Nat /\ lapsed' = lapsed
    BY DEF DispatchInv, PaidFor, ClaimsShaped
  <2>2. CASE k = Key(r)
    <3>1. Claimed(k) = 0 /\ Claimed(k)' = 1
      BY <2>2, <1>3, DispatchAssumption DEF Claimed, DispatchInv, ClaimsShaped
    <3>2. Started(k)' \subseteq Started(k) \cup {r}
      BY <1>1, <1>2 DEF Started, AsksKept
    <3>3. /\ Cardinality(Started(k)) \in Nat /\ Cardinality(Started(k)') \in Nat
          /\ Cardinality(Started(k)') <= Cardinality(Started(k)) + 1
      BY <3>2, OneMore
    <3> HIDE DEF Started, Claimed
    <3>4. QED
      BY <2>1, <3>1, <3>3
  <2>3. CASE k # Key(r)
    <3>1. Claimed(k)' = Claimed(k) /\ Claimed(k) \in Nat
      BY <2>3, <1>3 DEF Claimed, DispatchInv, ClaimsShaped
    <3>2. Started(k)' \subseteq Started(k)
      BY <2>3, <1>1, <1>2 DEF Started, AsksKept
    <3>3. /\ Cardinality(Started(k)) \in Nat /\ Cardinality(Started(k)') \in Nat
          /\ Cardinality(Started(k)') <= Cardinality(Started(k))
      BY <3>2, NoMore
    <3> HIDE DEF Started, Claimed
    <3>4. QED
      BY <2>1, <3>1, <3>3
  <2>4. QED
    BY <2>2, <2>3
<1>5. QED
  BY <1>1, <1>2, <1>4 DEF DispatchInv, PaidFor

LEMMA DispatchInitInv == ASSUME DispatchInit PROVE DispatchInv
<1>1. RequestsShaped
  <2>1. PICK ask : req = [r \in Requests |-> [at |-> "idle", ask |-> ask[r], id |-> None]]
    BY DEF DispatchInit
  <2>2. QED
    BY <2>1 DEF RequestsShaped
<1>2. ClaimsShaped
  BY DEF DispatchInit, ClaimsShaped
<1>3. ASSUME NEW k \in Keys PROVE Cardinality(Started(k)) <= lapsed[k] + Claimed(k)
  <2>1. Started(k) = {} /\ lapsed[k] = 0 /\ Claimed(k) = 0
    BY DEF DispatchInit, Started, Claimed
  <2>2. Cardinality(Started(k)) = 0
    BY <2>1, FS_EmptySet
  <2>3. QED
    BY <2>1, <2>2
<1>4. QED
  BY <1>1, <1>2, <1>3 DEF DispatchInv, PaidFor

LEMMA SubmissionInv ==
    ASSUME DispatchInv, NEW r \in Requests, Submission(r)
    PROVE  DispatchInv'
<1>1. ASSUME UNCHANGED <<claim, lapsed>>, DOMAIN run' = Requests,
             \A u \in Requests : run[u] = "none" => run'[u] = "none" \/ Route(u) # "provider" \/ Key(u) \notin Keys,
             NEW at, NEW t, GoesOnTo(r, at) \/ Tells(r, t)
      PROVE  DispatchInv'
  <2>1. RequestsShaped' /\ AsksKept
    BY <1>1, MovesKeep DEF DispatchInv
  <2>2. ClaimsShaped'
    BY <1>1 DEF DispatchInv, ClaimsShaped
  <2>3. \A k \in Keys : lapsed'[k] + Claimed(k)' >= lapsed[k] + Claimed(k)
    BY <1>1 DEF DispatchInv, ClaimsShaped, Claimed
  <2>4. PaidFor'
    BY <1>1, <2>1, <2>2, <2>3, NobodyStarts
  <2>5. QED
    BY <2>1, <2>2, <2>4 DEF DispatchInv
<1>2. CASE Receive(r) \/ LookUp(r)
  <2>1. UNCHANGED <<run, claim, lapsed>>
    BY <1>2 DEF Receive, LookUp
  <2>2. \E at, t : GoesOnTo(r, at) \/ Tells(r, t)
    BY <1>2 DEF Receive, LookUp
  <2>3. QED
    BY <1>1, <2>1, <2>2 DEF DispatchInv, ClaimsShaped
<1>3. CASE PostToEngine(r)
  <2>1. UNCHANGED <<claim, lapsed>> /\ Route(r) # "provider"
        /\ (run' = [run EXCEPT ![r] = "engine"] \/ run' = run)
    BY <1>3 DEF PostToEngine
  <2>2. \E at, t : GoesOnTo(r, at) \/ Tells(r, t)
    BY <1>3 DEF PostToEngine
  <2>3. DOMAIN run' = Requests /\ \A u \in Requests : run[u] = "none" => run'[u] = "none" \/ Route(u) # "provider"
    BY <2>1 DEF DispatchInv, ClaimsShaped
  <2>4. QED
    BY <1>1, <2>1, <2>2, <2>3
<1>4. CASE PostToProvider(r) \/ PostEdit(r)
  <2>1. /\ UNCHANGED <<claim, lapsed>>
        /\ run' = run \/ (StartRun(r) /\ (Route(r) # "provider" \/ Key(r) = None))
    BY <1>4 DEF PostToProvider, PostEdit
  <2>2. \E at, t : GoesOnTo(r, at) \/ Tells(r, t)
    BY <1>4 DEF PostToProvider, PostEdit
  <2>3. /\ DOMAIN run' = Requests
        /\ \A u \in Requests : run[u] = "none" => run'[u] = "none" \/ Route(u) # "provider" \/ Key(u) \notin Keys
    <3>1. CASE run' = run
      BY <3>1 DEF DispatchInv, ClaimsShaped
    <3>2. CASE StartRun(r) /\ (Route(r) # "provider" \/ Key(r) = None)
      <4>1. DOMAIN run' = Requests /\ \A u \in Requests : u # r => run'[u] = run[u]
        BY <3>2, StartsOne DEF DispatchInv
      <4>2. QED
        BY <3>2, <4>1, DispatchAssumption
    <3>3. QED
      BY <2>1, <3>1, <3>2
  <2>4. QED
    BY <1>1, <2>1, <2>2, <2>3
<1>5. CASE Claim(r) \/ Reread(r) \/ ClaimAgain(r)
  <2>1. UNCHANGED lapsed
    BY <1>5 DEF Claim, Reread, ClaimAgain
  <2>2. CASE claim[Key(r)] = None /\ Wins(r)
    BY <2>1, <2>2, WinsInv
  <2>3. CASE UNCHANGED <<claim, run>> /\ \E at, t : GoesOnTo(r, at) \/ Tells(r, t)
    BY <1>1, <2>1, <2>3 DEF DispatchInv, ClaimsShaped
  <2>4. Loses(r) => UNCHANGED <<claim, run>> /\ \E at, t : GoesOnTo(r, at) \/ Tells(r, t)
    BY DEF Loses
  <2>5. QED
    BY <1>5, <2>2, <2>3, <2>4 DEF Claim, Reread, ClaimAgain
<1>6. CASE ClaimRaises(r)
  <2>1. GoesOnTo(r, "failed") /\ UNCHANGED <<run, lapsed>>
        /\ (claim' = claim \/ (claim[Key(r)] = None /\ claim' = [claim EXCEPT ![Key(r)] = r]))
    BY <1>6 DEF ClaimRaises
  <2>2. RequestsShaped' /\ AsksKept
    BY <2>1, MovesKeep DEF DispatchInv
  <2>3. ClaimsShaped'
    BY <2>1 DEF DispatchInv, ClaimsShaped
  <2>4. \A k \in Keys : lapsed'[k] + Claimed(k)' >= lapsed[k] + Claimed(k)
    BY <2>1, DispatchAssumption DEF DispatchInv, ClaimsShaped, Claimed
  <2>5. PaidFor'
    BY <2>1, <2>2, <2>3, <2>4, NobodyStarts
  <2>6. QED
    BY <2>2, <2>3, <2>5 DEF DispatchInv
<1>7. QED
  BY <1>2, <1>3, <1>4, <1>5, <1>6 DEF Submission

\* Of the requests to a provider with one key one generates, and one more for
\* every time the key expires (api/dispatch.py:230).
THEOREM KeysRunOnce == DispatchSpec => []RunsOncePerKey
<1>1. DispatchInv /\ [DispatchNext]_dispatchVars => DispatchInv'
  <2> SUFFICES ASSUME DispatchInv, [DispatchNext]_dispatchVars PROVE DispatchInv'
    OBVIOUS
  <2>1. ASSUME UNCHANGED <<req, claim, lapsed>>, DOMAIN run' = Requests,
               \A u \in Requests : run[u] = "none" => run'[u] = "none"
        PROVE  DispatchInv'
    <3>1. RequestsShaped' /\ AsksKept
      BY <2>1, SameAsks DEF DispatchInv
    <3>2. ClaimsShaped'
      BY <2>1 DEF DispatchInv, ClaimsShaped
    <3>3. \A k \in Keys : lapsed'[k] + Claimed(k)' >= lapsed[k] + Claimed(k)
      BY <2>1 DEF DispatchInv, ClaimsShaped, Claimed
    <3>4. PaidFor'
      BY <2>1, <3>1, <3>2, <3>3, NobodyStarts
    <3>5. QED
      BY <3>1, <3>2, <3>4 DEF DispatchInv
  <2>2. ASSUME NEW t \in Requests, RunStep(t) PROVE DispatchInv'
    <3>1. UNCHANGED <<req, claim, lapsed>> /\ run[t] # "none" /\ \E s : run' = [run EXCEPT ![t] = s]
      BY <2>2 DEF RunStep, ToGate, Call, Completes, RunEnds, Errs, EditCall, EditReturns, EditSettles, EngineEnds, Marks
    <3>2. DOMAIN run' = Requests /\ \A u \in Requests : run[u] = "none" => run'[u] = "none"
      BY <3>1 DEF DispatchInv, ClaimsShaped
    <3>3. QED
      BY <2>1, <3>1, <3>2
  <2>3. ASSUME NEW k \in Keys, KeyExpires(k) PROVE DispatchInv'
    <3>1. /\ UNCHANGED <<req, run>> /\ claim' = [claim EXCEPT ![k] = None]
          /\ lapsed' = [lapsed EXCEPT ![k] = @ + 1]
      BY <2>3 DEF KeyExpires
    <3>2. RequestsShaped' /\ AsksKept
      BY <3>1, SameAsks DEF DispatchInv
    <3>3. ClaimsShaped'
      BY <3>1 DEF DispatchInv, ClaimsShaped
    <3>4. \A j \in Keys : lapsed'[j] + Claimed(j)' >= lapsed[j] + Claimed(j)
      BY <3>1 DEF DispatchInv, ClaimsShaped, Claimed
    <3>5. PaidFor'
      BY <3>1, <3>2, <3>3, <3>4, NobodyStarts
    <3>6. QED
      BY <3>2, <3>3, <3>5 DEF DispatchInv
  <2>4. CASE ProcessStops
    <3>1. DOMAIN run' = Requests /\ \A u \in Requests : run[u] = "none" => run'[u] = "none"
      BY <2>4 DEF ProcessStops, Active
    <3>2. QED
      BY <2>1, <2>4, <3>1 DEF ProcessStops
  <2>5. CASE UNCHANGED dispatchVars
    BY <2>1, <2>5 DEF dispatchVars, DispatchInv, ClaimsShaped
  <2>6. QED
    BY <2>2, <2>3, <2>4, <2>5, SubmissionInv DEF DispatchNext
<1>2. DispatchInv => RunsOncePerKey
  <2> SUFFICES ASSUME DispatchInv, NEW k \in Keys PROVE Cardinality(Started(k)) <= lapsed[k] + 1
    BY DEF RunsOncePerKey, Started
  <2>1. Started(k) \subseteq Requests
    BY DEF Started
  <2>2. Cardinality(Started(k)) \in Nat
    <3> DEFINE A == Started(k)
    <3>1. IsFiniteSet(A)
      BY <2>1, FS_Subset, DispatchAssumption
    <3> HIDE DEF A
    <3>2. Cardinality(A) \in Nat
      BY <3>1, FS_CardinalityType
    <3>3. QED
      BY <3>2 DEF A
  <2>3. Cardinality(Started(k)) <= lapsed[k] + Claimed(k) /\ lapsed[k] \in Nat
    BY DEF DispatchInv, PaidFor, ClaimsShaped
  <2>4. Claimed(k) \in 0 .. 1
    BY DEF Claimed
  <2> HIDE DEF Started, Claimed
  <2>5. QED
    BY <2>2, <2>3, <2>4
<1>3. QED
  BY <1>1, <1>2, DispatchInitInv, PTL DEF DispatchSpec

-----------------------------------------------------------------------------
(* A task is in the lines it should be in, and in no line twice.  `LinedUp` *)
(* says it of lines and of the pairs of a task and a line.                 *)
Wishes == [key : Keys \cup {None}, route : {"engine", "provider", "edit"}, priority : 0 .. 3]
Stages == {"idle", "look", "submit", "claim", "reread", "again", "told", "refused", "failed"}
RunPlaces == {"none", "done", "unmarked", "cut"} \cup Active

LinedUp(ln, W) ==
    /\ ln \in [1 .. Gate -> Seq(Requests)]
    /\ \A l \in 1 .. Gate : IsInjective(ln[l]) /\ \A u \in Requests : u \in ToSet(ln[l]) <=> <<u, l>> \in W

ShouldStand(u, l) ==
    \/ l = Gate /\ run[u] \in {"gate", "call"} /\ Lane(u) # EditLane
    \/ l = EditLane /\ run[u] \in {"lane", "call"} /\ Lane(u) = EditLane
    \/ l \in 1 .. 2 /\ l = Lane(u) /\ run[u] \in {"lane", "gate", "call", "after"}
Standing == {w \in Requests \X (1 .. Gate) : ShouldStand(w[1], w[2])}

DispatchTyped ==
    /\ req \in [Requests -> [at : Stages, ask : Wishes, id : Requests \cup {None}]]
    /\ row \in [Requests -> {"none", "pending"} \cup Outcomes]
    /\ run \in [Requests -> RunPlaces]
    /\ claim \in [Keys -> Requests \cup {None}]
    /\ up \in BOOLEAN

\* Who has a claim to make has a key; nobody is started twice.
Ordered ==
    \A r \in Requests :
        /\ req[r].at \in {"look", "claim", "reread", "again"} => Key(r) \in Keys
        /\ req[r].at \in {"idle", "look", "submit"} => run[r] = "none"
        /\ req[r].at \in {"claim", "reread", "again"} /\ Route(r) = "provider" => run[r] = "none"

LinesStand == \E W : LinedUp(line, W) /\ (up => W = Standing)

LinesInv == DispatchTyped /\ Ordered /\ LinesStand

LEMMA JoinedStands ==
    ASSUME NEW ln, NEW W, LinedUp(ln, W), NEW t \in Requests, NEW l \in 1 .. Gate, <<t, l>> \notin W
    PROVE  LinedUp(Joined(ln, t, l), W \cup {<<t, l>>})
<1>1. ln \in [1 .. Gate -> Seq(Requests)] /\ ln[l] \in Seq(Requests) /\ IsInjective(ln[l]) /\ t \notin ToSet(ln[l])
  BY DEF LinedUp
<1>2. PICK j, s : j = Joined(ln, t, l) /\ s = Append(ln[l], t)
  OBVIOUS
<1>3. s \in Seq(Requests) /\ IsInjective(s) /\ ToSet(s) = ToSet(ln[l]) \cup {t}
  BY <1>1, <1>2, OneAppended
<1>4. j \in [1 .. Gate -> Seq(Requests)] /\ j[l] = s /\ \A m \in 1 .. Gate : m # l => j[m] = ln[m]
  BY <1>1, <1>2, <1>3 DEF Joined
<1>5. ASSUME NEW m \in 1 .. Gate
      PROVE  IsInjective(j[m]) /\ \A u \in Requests : u \in ToSet(j[m]) <=> <<u, m>> \in W \cup {<<t, l>>}
  <2>1. IsInjective(ln[m]) /\ \A u \in Requests : u \in ToSet(ln[m]) <=> <<u, m>> \in W
    BY DEF LinedUp
  <2>2. CASE m = l
    BY <1>3, <1>4, <2>1, <2>2
  <2>3. CASE m # l
    BY <1>4, <2>1, <2>3
  <2>4. QED
    BY <2>2, <2>3
<1>6. QED
  BY <1>2, <1>4, <1>5 DEF LinedUp

LEMMA LeftStands ==
    ASSUME NEW ln, NEW W, LinedUp(ln, W), NEW t \in Requests, NEW l \in 1 .. Gate
    PROVE  LinedUp(Left(ln, t, l), W \ {<<t, l>>})
<1>1. ln \in [1 .. Gate -> Seq(Requests)] /\ ln[l] \in Seq(Requests) /\ IsInjective(ln[l])
  BY DEF LinedUp
<1>2. PICK j, s : j = Left(ln, t, l) /\ s = Keeping(ln[l], Requests \ {t})
  OBVIOUS
<1>3. s \in Seq(Requests) /\ IsInjective(s) /\ ToSet(s) = ToSet(ln[l]) \cap (Requests \ {t})
  BY <1>1, <1>2, KeepingIs
<1>4. j \in [1 .. Gate -> Seq(Requests)] /\ j[l] = s /\ \A m \in 1 .. Gate : m # l => j[m] = ln[m]
  BY <1>1, <1>2, <1>3 DEF Left
<1>5. ASSUME NEW m \in 1 .. Gate
      PROVE  IsInjective(j[m]) /\ \A u \in Requests : u \in ToSet(j[m]) <=> <<u, m>> \in W \ {<<t, l>>}
  <2>1. IsInjective(ln[m]) /\ \A u \in Requests : u \in ToSet(ln[m]) <=> <<u, m>> \in W
    BY DEF LinedUp
  <2>2. CASE m = l
    BY <1>3, <1>4, <2>1, <2>2
  <2>3. CASE m # l
    BY <1>4, <2>1, <2>3
  <2>4. QED
    BY <2>2, <2>3
<1>6. QED
  BY <1>2, <1>4, <1>5 DEF LinedUp

\* A step of one task: the others stand where they stood.
LEMMA OneStands ==
    ASSUME DispatchTyped, up, NEW t \in Requests, NEW W, LinedUp(line', W),
           \A u \in Requests : Lane(u)' = Lane(u) /\ (u # t => run'[u] = run[u]),
           \A u \in Requests, l \in 1 .. Gate : u # t => (<<u, l>> \in W <=> <<u, l>> \in Standing),
           \A l \in 1 .. Gate : <<t, l>> \in W <=> ShouldStand(t, l)'
    PROVE  LinedUp(line', Standing')
<1>1. ASSUME NEW u \in Requests, NEW l \in 1 .. Gate PROVE <<u, l>> \in W <=> <<u, l>> \in Standing'
  <2>1. <<u, l>> \in Standing' <=> ShouldStand(u, l)'
    BY DEF Standing
  <2>2. CASE u = t
    BY <2>1, <2>2
  <2>3. CASE u # t
    <3>1. ShouldStand(u, l)' <=> ShouldStand(u, l)
      BY <2>3 DEF ShouldStand
    <3>2. <<u, l>> \in Standing <=> ShouldStand(u, l)
      BY DEF Standing
    <3>3. QED
      BY <2>1, <2>3, <3>1, <3>2
  <2>4. QED
    BY <2>2, <2>3
<1> HIDE DEF Standing
<1>2. QED
  BY <1>1 DEF LinedUp

\* What a step of a submission does to its own request.
LEMMA RequestMoves ==
    ASSUME DispatchTyped, NEW r \in Requests, NEW at \in Stages, NEW i \in Requests \cup {None},
           req' = [req EXCEPT ![r].at = at] \/ req' = [req EXCEPT ![r].at = at, ![r].id = i]
    PROVE  /\ req' \in [Requests -> [at : Stages, ask : Wishes, id : Requests \cup {None}]]
           /\ req'[r].at = at
           /\ \A u \in Requests : req'[u].ask = req[u].ask /\ (u # r => req'[u] = req[u])
<1> DEFINE D == [at : Stages, ask : Wishes, id : Requests \cup {None}]
<1>1. req \in [Requests -> D]
  BY DEF DispatchTyped
<1>2. PICK w \in D : w = req[r]
  BY <1>1
<1>3. CASE req' = [req EXCEPT ![r].at = at]
  <2>1. PICK x : x = [w EXCEPT !.at = at]
    OBVIOUS
  <2>2. x \in D /\ x.at = at /\ x.ask = w.ask
    BY <2>1
  <2>3. req' = [req EXCEPT ![r] = x]
    BY <1>2, <1>3, <2>1
  <2> HIDE DEF D
  <2>4. QED
    BY <1>1, <1>2, <2>2, <2>3 DEF D
<1>4. CASE req' = [req EXCEPT ![r].at = at, ![r].id = i]
  <2>1. PICK x : x = [w EXCEPT !.at = at, !.id = i]
    OBVIOUS
  <2>2. x \in D /\ x.at = at /\ x.ask = w.ask
    BY <2>1
  <2>3. req' = [req EXCEPT ![r] = x]
    BY <1>2, <1>4, <2>1, Zenon
  <2> HIDE DEF D
  <2>4. QED
    BY <1>1, <1>2, <2>2, <2>3 DEF D
<1>5. QED
  BY <1>3, <1>4

\* A run that starts joins the line of its lane, or of the gate.
LEMMA StartStands ==
    ASSUME LinesInv, up, NEW t \in Requests, run[t] = "none", StartRun(t),
           \A u \in Requests : Lane(u)' = Lane(u)
    PROVE  run' \in [Requests -> RunPlaces] /\ (\A u \in Requests : u # t => run'[u] = run[u])
           /\ LinedUp(line', Standing')
<1>1. LinedUp(line, Standing) /\ DispatchTyped
  BY DEF LinesInv, LinesStand
<1>2. Lane(t) \in 0 .. 3 /\ Gate \in 1 .. Gate
  BY <1>1 DEF DispatchTyped, Wishes, Lane, Gate
<1>3. \A l \in 1 .. Gate : <<t, l>> \notin Standing
  BY DEF Standing, ShouldStand
<1>4. PICK s \in RunPlaces, l \in 1 .. Gate :
        /\ run' = [run EXCEPT ![t] = s] /\ line' = Joined(line, t, l)
        /\ (Lane(t) = 0 /\ s = "gate" /\ l = Gate) \/ (Lane(t) # 0 /\ s = "lane" /\ l = Lane(t))
  <2>1. CASE Lane(t) = 0
    BY <1>2, <2>1 DEF StartRun, RunPlaces, Active
  <2>2. CASE Lane(t) # 0
    <3>1. Lane(t) \in 1 .. Gate
      BY <1>2, <2>2 DEF Gate
    <3>2. QED
      BY <2>2, <3>1 DEF StartRun, RunPlaces, Active
  <2>3. QED
    BY <2>1, <2>2
<1>5. run' \in [Requests -> RunPlaces] /\ run'[t] = s /\ \A u \in Requests : u # t => run'[u] = run[u]
  BY <1>1, <1>4 DEF DispatchTyped
<1>6. LinedUp(line', Standing \cup {<<t, l>>})
  BY <1>1, <1>3, <1>4, JoinedStands
<1>7. ASSUME NEW m \in 1 .. Gate PROVE <<t, m>> \in Standing \cup {<<t, l>>} <=> ShouldStand(t, m)'
  <2>1. <<t, m>> \in Standing \cup {<<t, l>>} <=> m = l
    BY <1>3
  <2>2. run'[t] = s /\ Lane(t)' = Lane(t)
    BY <1>5
  <2>3. ShouldStand(t, m)' <=> m = l
    BY <1>2, <1>4, <2>2 DEF ShouldStand, Gate, EditLane
  <2>4. QED
    BY <2>1, <2>3
<1>8. \A u \in Requests, m \in 1 .. Gate : u # t => (<<u, m>> \in Standing \cup {<<t, l>>} <=> <<u, m>> \in Standing)
  OBVIOUS
<1>9. LinedUp(line', Standing')
  BY <1>1, <1>5, <1>6, <1>7, <1>8, OneStands
<1>10. QED
  BY <1>5, <1>9

\* One step of a submission, whatever it is.
LEMMA SubmissionStands ==
    ASSUME LinesInv, up, up' = up, NEW r \in Requests, NEW at \in Stages, NEW i \in Requests \cup {None},
           req' = [req EXCEPT ![r].at = at] \/ req' = [req EXCEPT ![r].at = at, ![r].id = i],
           row' \in [Requests -> {"none", "pending"} \cup Outcomes],
           claim' \in [Keys -> Requests \cup {None}],
           \/ UNCHANGED <<run, line>>
           \/ run[r] = "none" /\ (StartRun(r) \/ (run' = [run EXCEPT ![r] = "engine"] /\ line' = line)),
           at \in {"look", "claim", "reread", "again"} => Key(r) \in Keys,
           at \in {"idle", "look", "submit"} => run'[r] = "none",
           at \in {"claim", "reread", "again"} /\ Route(r) = "provider" => run'[r] = "none"
    PROVE  LinesInv'
<1>1. DispatchTyped /\ Ordered /\ LinedUp(line, Standing)
  BY DEF LinesInv, LinesStand
<1>2. /\ req' \in [Requests -> [at : Stages, ask : Wishes, id : Requests \cup {None}]]
      /\ req'[r].at = at
      /\ \A u \in Requests : req'[u].ask = req[u].ask /\ (u # r => req'[u] = req[u])
  BY <1>1, RequestMoves
<1>3. \A u \in Requests : Lane(u)' = Lane(u) /\ Key(u)' = Key(u) /\ Route(u)' = Route(u)
  BY <1>2 DEF Lane, Key, Route
<1>4. /\ run' \in [Requests -> RunPlaces] /\ (\A u \in Requests : u # r => run'[u] = run[u])
      /\ LinedUp(line', Standing')
  <2>1. CASE UNCHANGED <<run, line>>
    <3>1. \A u \in Requests, l \in 1 .. Gate : ShouldStand(u, l)' <=> ShouldStand(u, l)
      BY <1>3, <2>1 DEF ShouldStand
    <3>2. Standing' = Standing
      BY <3>1 DEF Standing
    <3>3. QED
      BY <1>1, <2>1, <3>2 DEF DispatchTyped
  <2>2. CASE run[r] = "none" /\ StartRun(r)
    BY <1>3, <2>2, StartStands
  <2>3. CASE run[r] = "none" /\ run' = [run EXCEPT ![r] = "engine"] /\ line' = line
    <3>1. run' \in [Requests -> RunPlaces] /\ run'[r] = "engine" /\ \A u \in Requests : u # r => run'[u] = run[u]
      BY <1>1, <2>3 DEF DispatchTyped, RunPlaces, Active
    <3>2. \A l \in 1 .. Gate : <<r, l>> \in Standing <=> ShouldStand(r, l)'
      BY <2>3, <3>1 DEF Standing, ShouldStand
    <3>3. LinedUp(line', Standing)
      BY <1>1, <2>3
    <3>4. LinedUp(line', Standing')
      BY <1>1, <1>3, <3>1, <3>2, <3>3, OneStands
    <3>5. QED
      BY <3>1, <3>4
  <2>4. QED
    BY <2>1, <2>2, <2>3
<1>5. Ordered'
  BY <1>1, <1>2, <1>3, <1>4 DEF Ordered
<1>6. DispatchTyped'
  BY <1>1, <1>2, <1>4 DEF DispatchTyped
<1>7. QED
  BY <1>4, <1>5, <1>6 DEF LinesInv, LinesStand

LEMMA SubmissionLines == ASSUME LinesInv, NEW r \in Requests, Submission(r) PROVE LinesInv'
<1>1. /\ DispatchTyped /\ Ordered
      /\ row \in [Requests -> {"none", "pending"} \cup Outcomes] /\ claim \in [Keys -> Requests \cup {None}]
      /\ run \in [Requests -> RunPlaces] /\ Key(r) \in Keys \cup {None}
      /\ None \in Requests \cup {None} /\ r \in Requests \cup {None}
  BY DEF LinesInv, DispatchTyped, Key, Wishes
<1>2. /\ req[r].at \in {"look", "claim", "reread", "again"} => Key(r) \in Keys
      /\ req[r].at \in {"idle", "look", "submit"} => run[r] = "none"
      /\ req[r].at \in {"claim", "reread", "again"} /\ Route(r) = "provider" => run[r] = "none"
  BY <1>1 DEF Ordered
<1> USE DEF Stages
<1>3. CASE Receive(r)
  <2>1. PICK at \in {"submit", "look"} : GoesOnTo(r, at) /\ (at = "look" => Key(r) # None)
    BY <1>3 DEF Receive
  <2>2. UNCHANGED <<row, claim, run, line, up>> /\ up /\ run[r] = "none"
    BY <1>2, <1>3 DEF Receive, IsAt
  <2>3. at \in Stages /\ (at = "look" => Key(r) \in Keys)
    BY <1>1, <2>1
  <2>4. QED
    BY <1>1, <2>1, <2>2, <2>3, SubmissionStands DEF GoesOnTo
<1>4. CASE LookUp(r)
  <2>1. UNCHANGED <<row, claim, run, line, up>> /\ up /\ run[r] = "none" /\ Key(r) \in Keys
    BY <1>2, <1>4 DEF LookUp, IsAt
  <2>2. claim[Key(r)] \in Requests \cup {None}
    BY <1>1, <2>1
  <2>3. CASE Tells(r, claim[Key(r)])
    BY <1>1, <2>1, <2>2, <2>3, SubmissionStands DEF Tells
  <2>4. CASE GoesOnTo(r, "submit")
    BY <1>1, <2>1, <2>4, SubmissionStands DEF GoesOnTo
  <2>5. QED
    BY <1>4, <2>3, <2>4 DEF LookUp
<1>5. CASE PostToEngine(r)
  <2>1. UNCHANGED <<claim, line, up>> /\ up /\ run[r] = "none" /\ Route(r) # "provider"
    BY <1>2, <1>5 DEF PostToEngine, IsAt
  <2>2. CASE GoesOnTo(r, "refused") /\ UNCHANGED <<row, run>>
    BY <1>1, <2>1, <2>2, SubmissionStands DEF GoesOnTo
  <2>3. CASE row' = [row EXCEPT ![r] = "pending"] /\ run' = [run EXCEPT ![r] = "engine"]
    <3>1. row' \in [Requests -> {"none", "pending"} \cup Outcomes]
      BY <1>1, <2>3
    <3>2. CASE Tells(r, r)
      BY <1>1, <2>1, <2>3, <3>1, <3>2, SubmissionStands DEF Tells
    <3>3. CASE GoesOnTo(r, "claim") /\ Key(r) # None
      <4>1. Key(r) \in Keys
        BY <1>1, <3>3
      <4>2. QED
        BY <1>1, <2>1, <2>3, <3>1, <3>3, <4>1, SubmissionStands DEF GoesOnTo
    <3>4. QED
      BY <1>5, <2>2, <3>2, <3>3 DEF PostToEngine
  <2>4. QED
    BY <1>5, <2>2, <2>3 DEF PostToEngine
<1>6. CASE PostToProvider(r) \/ PostEdit(r)
  <2>1. UNCHANGED <<claim, up>> /\ up /\ run[r] = "none" /\ row' = [row EXCEPT ![r] = "pending"]
    BY <1>2, <1>6 DEF PostToProvider, PostEdit, IsAt
  <2>2. row' \in [Requests -> {"none", "pending"} \cup Outcomes]
    BY <1>1, <2>1
  <2>3. CASE Tells(r, r) /\ StartRun(r)
    BY <1>1, <2>1, <2>2, <2>3, SubmissionStands DEF Tells
  <2>4. CASE GoesOnTo(r, "claim") /\ UNCHANGED <<run, line>> /\ Key(r) # None
    <3>1. Key(r) \in Keys
      BY <1>1, <2>4
    <3>2. QED
      BY <1>1, <2>1, <2>2, <2>4, <3>1, SubmissionStands DEF GoesOnTo
  <2>5. QED
    BY <1>6, <2>3, <2>4 DEF PostToProvider, PostEdit
<1>7. CASE Claim(r) \/ Reread(r) \/ ClaimAgain(r)
  <2>1. up' = up /\ up /\ Key(r) \in Keys /\ (Route(r) = "provider" => run[r] = "none")
    BY <1>2, <1>7 DEF Claim, Reread, ClaimAgain, IsAt
  <2>2. CASE Wins(r)
    <3>1. claim' \in [Keys -> Requests \cup {None}] /\ row' \in [Requests -> {"none", "pending"} \cup Outcomes]
      BY <1>1, <2>2 DEF Wins
    <3>2. Tells(r, r) /\ (UNCHANGED <<run, line>> \/ (run[r] = "none" /\ StartRun(r)))
      BY <2>1, <2>2 DEF Wins
    <3>3. QED
      BY <1>1, <2>1, <3>1, <3>2, SubmissionStands DEF Tells
  <2>3. CASE Loses(r)
    <3>1. claim' \in [Keys -> Requests \cup {None}] /\ row' \in [Requests -> {"none", "pending"} \cup Outcomes]
      BY <1>1, <2>3 DEF Loses, Outcomes
    <3>2. PICK i \in Requests \cup {None} : Tells(r, i)
      BY <1>1, <2>1, <2>3 DEF Loses
    <3>3. UNCHANGED <<run, line>>
      BY <2>3 DEF Loses
    <3>4. QED
      BY <1>1, <2>1, <3>1, <3>2, <3>3, SubmissionStands DEF Tells
  <2>4. CASE UNCHANGED <<row, claim, run, line>> /\ \E at \in {"reread", "again", "failed"} : GoesOnTo(r, at)
    <3>1. PICK at \in {"reread", "again", "failed"} : GoesOnTo(r, at)
      BY <2>4
    <3>2. at \in Stages
      OBVIOUS
    <3>3. QED
      BY <1>1, <2>1, <2>4, <3>1, <3>2, SubmissionStands DEF GoesOnTo
  <2>5. QED
    BY <1>7, <2>2, <2>3, <2>4 DEF Claim, Reread, ClaimAgain
<1>8. CASE ClaimRaises(r)
  <2>1. UNCHANGED <<row, run, line, up>> /\ up /\ GoesOnTo(r, "failed")
    BY <1>8 DEF ClaimRaises, IsAt
  <2>2. claim' = claim \/ claim' = [claim EXCEPT ![Key(r)] = r]
    BY <1>8 DEF ClaimRaises
  <2>3. claim' \in [Keys -> Requests \cup {None}]
    BY <1>1, <2>2
  <2>4. QED
    BY <1>1, <2>1, <2>3, SubmissionStands DEF GoesOnTo
<1>9. QED
  BY <1>3, <1>4, <1>5, <1>6, <1>7, <1>8 DEF Submission

\* One step of a run.
LEMMA RunStands ==
    ASSUME LinesInv, up, NEW t \in Requests, NEW at \in RunPlaces, run[t] # "none",
           run' = [run EXCEPT ![t] = at], UNCHANGED <<req, claim, up>>,
           row' \in [Requests -> {"none", "pending"} \cup Outcomes],
           NEW W, LinedUp(line', W),
           \A u \in Requests, l \in 1 .. Gate : u # t => (<<u, l>> \in W <=> <<u, l>> \in Standing),
           \A l \in 1 .. Gate : <<t, l>> \in W <=> ShouldStand(t, l)'
    PROVE  LinesInv'
<1>1. DispatchTyped /\ Ordered
  BY DEF LinesInv
<1>2. run' \in [Requests -> RunPlaces] /\ \A u \in Requests : u # t => run'[u] = run[u]
  BY <1>1 DEF DispatchTyped
<1>3. \A u \in Requests : Lane(u)' = Lane(u) /\ Key(u)' = Key(u) /\ Route(u)' = Route(u)
  BY DEF Lane, Key, Route
<1>4. LinedUp(line', Standing')
  BY <1>1, <1>2, <1>3, OneStands
<1>5. DispatchTyped'
  BY <1>1, <1>2 DEF DispatchTyped
<1>6. Ordered'
  BY <1>1, <1>2, <1>3 DEF Ordered
<1>7. QED
  BY <1>4, <1>5, <1>6 DEF LinesInv, LinesStand

\* A row that is marked, or is not.
LEMMA MarksRow ==
    ASSUME DispatchTyped, NEW t \in Requests, NEW s \in Outcomes, Marks(t, s)
    PROVE  /\ row' \in [Requests -> {"none", "pending"} \cup Outcomes]
           /\ \E at \in {"done", "unmarked"} : run' = [run EXCEPT ![t] = at]
BY DEF Marks, DispatchTyped

LEMMA RunLines == ASSUME LinesInv, NEW t \in Requests, RunStep(t) PROVE LinesInv'
<1>1. up /\ UNCHANGED <<req, claim, up>>
  BY DEF RunStep, ToGate, Call, Completes, RunEnds, Errs, EditCall, EditReturns, EditSettles, EngineEnds
<1>2. DispatchTyped /\ LinedUp(line, Standing) /\ row \in [Requests -> {"none", "pending"} \cup Outcomes]
  BY <1>1 DEF LinesInv, LinesStand, DispatchTyped
<1>3. run \in [Requests -> RunPlaces] /\ Lane(t) \in 0 .. 3 /\ Lane(t)' = Lane(t)
  BY <1>1, <1>2 DEF DispatchTyped, Wishes, Lane
<1> DEFINE Stays(W) == \A u \in Requests, l \in 1 .. Gate : u # t => (<<u, l>> \in W <=> <<u, l>> \in Standing)
<1>4. ASSUME NEW at \in RunPlaces, run' = [run EXCEPT ![t] = at], NEW l \in 1 .. Gate
      PROVE  /\ run'[t] = at
             /\ <<t, l>> \in Standing <=> ShouldStand(t, l)
             /\ ShouldStand(t, l)' <=>
                    \/ l = Gate /\ at \in {"gate", "call"} /\ Lane(t) # EditLane
                    \/ l = EditLane /\ at \in {"lane", "call"} /\ Lane(t) = EditLane
                    \/ l \in 1 .. 2 /\ l = Lane(t) /\ at \in {"lane", "gate", "call", "after"}
  <2>1. run'[t] = at
    BY <1>3, <1>4
  <2>2. QED
    BY <1>3, <2>1 DEF Standing, ShouldStand
<1>5. /\ EditLane \in 1 .. Gate /\ Gate \in 1 .. Gate /\ EditLane # Gate /\ EditLane \notin 1 .. 2 /\ Gate \notin 1 .. 2
      /\ Lane(t) # 0 => Lane(t) \in 1 .. Gate /\ Lane(t) # Gate
      /\ Lane(t) \in 0 .. 3 /\ (Lane(t) # EditLane /\ Lane(t) # 0 => Lane(t) \in 1 .. 2)
  BY <1>3 DEF EditLane, Gate
<1>6. {"gate", "call", "after", "done", "unmarked", "settle"} \subseteq RunPlaces
  BY DEF RunPlaces, Active
<1>7. CASE ToGate(t)
  <2>1. run' = [run EXCEPT ![t] = "gate"] /\ run[t] = "lane" /\ Lane(t) # EditLane /\ line' = Joined(line, t, Gate) /\ row' = row
    BY <1>7 DEF ToGate
  <2>2. <<t, Gate>> \notin Standing
    BY <1>5, <2>1 DEF Standing, ShouldStand
  <2>3. LinedUp(line', Standing \cup {<<t, Gate>>})
    BY <1>2, <1>5, <2>1, <2>2, JoinedStands
  <2>4. ASSUME NEW l \in 1 .. Gate PROVE <<t, l>> \in Standing \cup {<<t, Gate>>} <=> ShouldStand(t, l)'
    <3>1. "gate" \in RunPlaces
      BY <1>6
    <3>2. ShouldStand(t, l)' <=> l = Gate \/ (l \in 1 .. 2 /\ l = Lane(t))
      BY <1>4, <1>5, <2>1, <3>1
    <3>3. <<t, l>> \in Standing <=> (l \in 1 .. 2 /\ l = Lane(t))
      BY <1>5, <2>1 DEF Standing, ShouldStand
    <3>4. QED
      BY <3>2, <3>3
  <2>5. Stays(Standing \cup {<<t, Gate>>})
    OBVIOUS
  <2>6. QED
    BY <1>1, <1>2, <1>6, <2>1, <2>3, <2>4, <2>5, RunStands
<1>8. ASSUME NEW at \in {"call", "done", "unmarked"}, run' = [run EXCEPT ![t] = at], UNCHANGED line, run[t] # "none",
             row' \in [Requests -> {"none", "pending"} \cup Outcomes],
             \A l \in 1 .. Gate : <<t, l>> \in Standing <=> ShouldStand(t, l)'
      PROVE  LinesInv'
  <2>1. LinedUp(line', Standing) /\ Stays(Standing) /\ at \in RunPlaces
    BY <1>2, <1>6, <1>8
  <2>2. QED
    BY <1>1, <1>8, <2>1, RunStands
<1>9. CASE Call(t) \/ EditCall(t)
  <2>1. /\ run' = [run EXCEPT ![t] = "call"] /\ row' = row /\ line' = line
        /\ (Call(t) /\ run[t] = "gate" /\ HasSlot(t, Gate)) \/ (run[t] = "lane" /\ Lane(t) = EditLane)
    BY <1>9 DEF Call, EditCall
  <2>2. Call(t) => Lane(t) # EditLane
    <3>1. SUFFICES ASSUME Call(t) PROVE t \in ToSet(line[Gate]) /\ run[t] = "gate"
      BY <1>2, <1>5 DEF LinedUp, Standing, ShouldStand
    <3>2. HasSlot(t, Gate) /\ run[t] = "gate"
      BY <3>1 DEF Call
    <3>3. line[Gate] \in Seq(Requests)
      BY <1>2, <1>5 DEF LinedUp
    <3>4. QED
      BY <3>2, <3>3, LenProperties DEF HasSlot, ToSet
  <2>3. ASSUME NEW l \in 1 .. Gate PROVE <<t, l>> \in Standing <=> ShouldStand(t, l)'
    <3>1. "call" \in RunPlaces
      BY <1>6
    <3>2. QED
      BY <1>4, <1>5, <2>1, <2>2, <3>1 DEF Standing, ShouldStand
  <2>4. QED
    BY <1>2, <1>8, <2>1, <2>3
<1>10. CASE EditSettles(t) \/ EngineEnds(t)
  <2>1. /\ line' = line /\ run[t] \in {"settle", "engine"}
        /\ row' \in [Requests -> {"none", "pending"} \cup Outcomes]
        /\ \E at \in {"done", "unmarked"} : run' = [run EXCEPT ![t] = at]
    <3>1. CASE EditSettles(t)
      BY <1>2, <3>1, MarksRow DEF EditSettles
    <3>2. CASE EngineEnds(t)
      BY <1>2, <3>2 DEF EngineEnds
    <3>3. QED
      BY <1>10, <3>1, <3>2
  <2>2. PICK at \in {"done", "unmarked"} : run' = [run EXCEPT ![t] = at]
    BY <2>1
  <2>3. ASSUME NEW l \in 1 .. Gate PROVE <<t, l>> \in Standing <=> ShouldStand(t, l)'
    <3>1. at \in RunPlaces /\ at \notin {"lane", "gate", "call", "after"}
      BY <1>6
    <3>2. QED
      BY <1>4, <1>5, <2>1, <2>2, <3>1 DEF Standing, ShouldStand
  <2>4. QED
    BY <1>8, <2>1, <2>2, <2>3
<1>11. CASE Completes(t)
  <2>1. run' = [run EXCEPT ![t] = "after"] /\ run[t] = "call" /\ Lane(t) # EditLane
        /\ line' = Left(line, t, Gate) /\ row' = [row EXCEPT ![t] = "completed"]
    BY <1>11 DEF Completes
  <2>2. row' \in [Requests -> {"none", "pending"} \cup Outcomes]
    BY <1>2, <2>1 DEF Outcomes
  <2>3. LinedUp(line', Standing \ {<<t, Gate>>})
    BY <1>2, <1>5, <2>1, LeftStands
  <2>4. ASSUME NEW l \in 1 .. Gate PROVE <<t, l>> \in Standing \ {<<t, Gate>>} <=> ShouldStand(t, l)'
    <3>1. "after" \in RunPlaces
      BY <1>6
    <3>2. ShouldStand(t, l)' <=> (l \in 1 .. 2 /\ l = Lane(t))
      BY <1>4, <1>5, <2>1, <3>1
    <3>3. <<t, l>> \in Standing <=> l = Gate \/ (l \in 1 .. 2 /\ l = Lane(t))
      BY <1>5, <2>1 DEF Standing, ShouldStand
    <3>4. QED
      BY <1>5, <3>2, <3>3
  <2>5. Stays(Standing \ {<<t, Gate>>})
    OBVIOUS
  <2>6. QED
    BY <1>1, <1>6, <2>1, <2>2, <2>3, <2>4, <2>5, RunStands
<1>12. CASE RunEnds(t)
  <2>1. run' = [run EXCEPT ![t] = "done"] /\ run[t] = "after" /\ line' = Leaves(TRUE, line, t) /\ row' = row
    BY <1>12 DEF RunEnds
  <2>2. PICK W : LinedUp(line', W) /\ (W = IF Lane(t) = 0 THEN Standing ELSE Standing \ {<<t, Lane(t)>>})
    BY <1>2, <1>5, <2>1, LeftStands DEF Leaves
  <2>3. ASSUME NEW l \in 1 .. Gate PROVE <<t, l>> \in W <=> ShouldStand(t, l)'
    <3>1. "done" \in RunPlaces
      BY <1>6
    <3>2. ~ShouldStand(t, l)'
      BY <1>4, <2>1, <3>1
    <3>3. <<t, l>> \in Standing => l \in 1 .. 2 /\ l = Lane(t)
      BY <2>1 DEF Standing, ShouldStand
    <3>4. QED
      BY <1>5, <2>2, <3>2, <3>3
  <2>4. Stays(W)
    BY <2>2
  <2>5. QED
    BY <1>1, <1>2, <1>6, <2>1, <2>2, <2>3, <2>4, RunStands
<1>13. CASE Errs(t)
  <2>1. /\ run[t] = "call" /\ Lane(t) # EditLane /\ line' = Leaves(FALSE, Left(line, t, Gate), t)
        /\ Marks(t, "error") /\ "error" \in Outcomes
    BY <1>13 DEF Errs, Outcomes
  <2>2. /\ row' \in [Requests -> {"none", "pending"} \cup Outcomes]
        /\ \E at \in {"done", "unmarked"} : run' = [run EXCEPT ![t] = at]
    BY <1>2, <2>1, MarksRow
  <2> PICK at \in {"done", "unmarked"} : run' = [run EXCEPT ![t] = at]
    BY <2>2
  <2>3. PICK ln, V : ln = Left(line, t, Gate) /\ V = Standing \ {<<t, Gate>>}
    OBVIOUS
  <2>4. LinedUp(ln, V)
    BY <1>2, <1>5, <2>3, LeftStands
  <2>5. PICK W : LinedUp(line', W) /\ (W = IF Lane(t) = 0 THEN V ELSE V \ {<<t, Lane(t)>>})
    BY <1>5, <2>1, <2>3, <2>4, LeftStands DEF Leaves
  <2>6. ASSUME NEW l \in 1 .. Gate PROVE <<t, l>> \in W <=> ShouldStand(t, l)'
    <3>1. at \in RunPlaces /\ at \notin {"lane", "gate", "call", "after"}
      BY <1>6
    <3>2. ~ShouldStand(t, l)'
      BY <1>4, <2>1, <3>1
    <3>3. <<t, l>> \in Standing => l = Gate \/ (l \in 1 .. 2 /\ l = Lane(t))
      BY <2>1 DEF Standing, ShouldStand
    <3>4. QED
      BY <1>5, <2>3, <2>5, <3>2, <3>3
  <2>7. Stays(W)
    BY <2>3, <2>5
  <2>8. at \in RunPlaces /\ run[t] # "none" /\ run' = [run EXCEPT ![t] = at] /\ LinedUp(line', W)
    BY <1>6, <2>1, <2>5
  <2>9. QED
    BY <1>1, <2>2, <2>6, <2>7, <2>8, RunStands
<1>14. CASE EditReturns(t)
  <2>1. run' = [run EXCEPT ![t] = "settle"] /\ run[t] = "call" /\ Lane(t) = EditLane
        /\ line' = Left(line, t, EditLane) /\ row' = row
    BY <1>14 DEF EditReturns
  <2>2. LinedUp(line', Standing \ {<<t, EditLane>>})
    BY <1>2, <1>5, <2>1, LeftStands
  <2>3. ASSUME NEW l \in 1 .. Gate PROVE <<t, l>> \in Standing \ {<<t, EditLane>>} <=> ShouldStand(t, l)'
    <3>1. "settle" \in RunPlaces
      BY <1>6
    <3>2. ~ShouldStand(t, l)'
      BY <1>4, <2>1, <3>1
    <3>3. <<t, l>> \in Standing => l = EditLane
      BY <1>5, <2>1 DEF Standing, ShouldStand
    <3>4. QED
      BY <3>2, <3>3
  <2>4. Stays(Standing \ {<<t, EditLane>>})
    OBVIOUS
  <2>5. QED
    BY <1>1, <1>2, <1>6, <2>1, <2>2, <2>3, <2>4, RunStands
<1>15. QED
  BY <1>7, <1>9, <1>10, <1>11, <1>12, <1>13, <1>14 DEF RunStep

LEMMA LinesStart == ASSUME DispatchInit PROVE LinesInv
<1>1. PICK ask \in [Requests -> UNION {AsksOf[r] : r \in Requests}] :
        /\ \A r \in Requests : ask[r] \in AsksOf[r]
        /\ req = [r \in Requests |-> [at |-> "idle", ask |-> ask[r], id |-> None]]
  BY DEF DispatchInit
<1>2. \A r \in Requests : ask[r] \in Wishes
  BY <1>1, DispatchAssumption DEF Wishes
<1>3. req \in [Requests -> [at : Stages, ask : Wishes, id : Requests \cup {None}]]
  <2>1. ASSUME NEW r \in Requests
        PROVE  [at |-> "idle", ask |-> ask[r], id |-> None] \in [at : Stages, ask : Wishes, id : Requests \cup {None}]
    BY <1>2 DEF Stages
  <2>2. QED
    BY <1>1, <2>1
<1>4. \A r \in Requests : req[r].at = "idle" /\ run[r] = "none"
  BY <1>1 DEF DispatchInit
<1>5. DispatchTyped
  BY <1>3 DEF DispatchInit, DispatchTyped, RunPlaces
<1>6. Ordered
  BY <1>4 DEF Ordered
<1>7. LinedUp(line, Standing)
  <2>1. Standing = {}
    BY <1>4 DEF Standing, ShouldStand
  <2>2. <<>> \in Seq(Requests) /\ ToSet(<<>>) = {} /\ IsInjective(<<>>)
    BY EmptySeq DEF ToSet, IsInjective
  <2>3. QED
    BY <2>1, <2>2 DEF DispatchInit, LinedUp
<1>8. QED
  BY <1>5, <1>6, <1>7 DEF LinesInv, LinesStand

LEMMA LinesStep == ASSUME LinesInv, [DispatchNext]_dispatchVars PROVE LinesInv'
<1>1. CASE UNCHANGED dispatchVars
  BY <1>1 DEF dispatchVars, LinesInv, DispatchTyped, Ordered, LinesStand, Standing, ShouldStand, Lane, Key, Route
<1>2. ASSUME NEW k \in Keys, KeyExpires(k) PROVE LinesInv'
  <2>1. claim' = [claim EXCEPT ![k] = None] /\ UNCHANGED <<req, row, run, line, up>>
    BY <1>2 DEF KeyExpires
  <2>2. claim' \in [Keys -> Requests \cup {None}]
    BY <2>1 DEF LinesInv, DispatchTyped
  <2>3. Standing' = Standing
    BY <2>1 DEF Standing, ShouldStand, Lane
  <2>4. QED
    BY <2>1, <2>2, <2>3 DEF LinesInv, DispatchTyped, Ordered, LinesStand, Key, Route
<1>3. CASE ProcessStops
  <2>1. /\ up' = FALSE /\ UNCHANGED <<req, row, claim, line>>
        /\ run' = [t \in Requests |-> IF run[t] \in Active THEN "cut" ELSE run[t]]
    BY <1>3 DEF ProcessStops
  <2>2. run' \in [Requests -> RunPlaces] /\ \A t \in Requests : run[t] = "none" => run'[t] = "none"
    BY <2>1 DEF LinesInv, DispatchTyped, RunPlaces, Active
  <2>3. QED
    BY <2>1, <2>2 DEF LinesInv, DispatchTyped, Ordered, LinesStand, Key, Route
<1>4. QED
  BY <1>1, <1>2, <1>3, SubmissionLines, RunLines DEF DispatchNext

\* A task is in the line of its lane and of the gate exactly while it waits
\* there or has a slot, and never twice (api/dispatch.py:230).
THEOREM DispatchTypeCorrect == DispatchSpec => []DispatchTypes
<1>1. DispatchInit => LinesInv
  BY LinesStart
<1>2. LinesInv /\ [DispatchNext]_dispatchVars => LinesInv'
  BY LinesStep
<1>3. LinesInv => DispatchTypes
  <2> SUFFICES ASSUME LinesInv PROVE DispatchTypes
    OBVIOUS
  <2>1. PICK W : LinedUp(line, W) /\ (up => W = Standing)
    BY DEF LinesInv, LinesStand
  <2>2. ASSUME NEW r \in Requests
        PROVE  /\ req[r].at \in Stages /\ req[r].id \in Requests \cup {None}
               /\ row[r] \in {"none", "pending"} \cup Outcomes /\ run[r] \in {"none", "done", "unmarked", "cut"} \cup Active
    BY DEF LinesInv, DispatchTyped, RunPlaces
  <2>3. ASSUME up, NEW t \in Requests
        PROVE  /\ t \in ToSet(line[Gate]) <=> run[t] \in {"gate", "call"} /\ Lane(t) # EditLane
               /\ t \in ToSet(line[EditLane]) <=> run[t] \in {"lane", "call"} /\ Lane(t) = EditLane
               /\ \A l \in 1 .. 2 : t \in ToSet(line[l]) <=> l = Lane(t) /\ run[t] \in {"lane", "gate", "call", "after"}
    <3>1. \A l \in 1 .. Gate : t \in ToSet(line[l]) <=> ShouldStand(t, l)
      BY <2>1, <2>3 DEF LinedUp, Standing
    <3>2. EditLane \in 1 .. Gate /\ Gate \in 1 .. Gate /\ 1 .. 2 \subseteq 1 .. Gate /\ EditLane # Gate
          /\ EditLane \notin 1 .. 2 /\ Gate \notin 1 .. 2
      BY DEF EditLane, Gate
    <3>3. QED
      BY <3>1, <3>2 DEF ShouldStand
  <2>4. (\A l \in 1 .. Gate : IsInjective(line[l])) /\ claim \in [Keys -> Requests \cup {None}]
    BY <2>1 DEF LinedUp, LinesInv, DispatchTyped
  <2>5. QED
    BY <2>2, <2>3, <2>4 DEF DispatchTypes, Stages
<1>4. QED
  BY <1>1, <1>2, <1>3, PTL DEF DispatchSpec
=============================================================================
