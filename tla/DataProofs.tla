----------------------------- MODULE DataProofs -----------------------------
(***************************************************************************)
(* Proofs about the components between the requests and what is kept, for  *)
(* every value of their constants: WriteBuffer with its flushes implements *)
(* the ordered log, and a reader sees what was issued before it came;      *)
(* TaskEvents sends a client no event twice or out of order.  And about    *)
(* where captcha tokens come from: the prefetch loop of TokenPool does not *)
(* sleep through a shortage, and the pool of pages of SolverService holds  *)
(* none of a context that was given up.                                    *)
(***************************************************************************)
EXTENDS WriteBuffer, TaskEvents, TokenPool, SolverService, SequenceTheorems, FiniteSetTheorems, WellFoundedInduction,
        TLAPS

-----------------------------------------------------------------------------
(* Lists of statements.                                                    *)

\* What a flush that is cut off leaves of the statements in memory.
LEMMA RestAfterCut ==
    ASSUME NEW s \in Seq(Nat), NEW t \in Seq(Nat), s # <<>>
    PROVE  /\ Len(s) \in 1 .. Len(s \o t)
           /\ SubSeq(s \o t, Len(s) + 1, Len(s \o t)) = t
           /\ Head(s \o t) = Head(s)
           /\ Tail(s \o t) = Tail(s) \o t
           /\ s \o t # <<>>
<1>1. /\ s \o t \in Seq(Nat) /\ Len(s \o t) = Len(s) + Len(t)
      /\ \A i \in 1 .. Len(s) + Len(t) : (s \o t)[i] = IF i <= Len(s) THEN s[i] ELSE t[i - Len(s)]
  BY ConcatProperties
<1>2. Len(s) \in Nat \ {0} /\ Len(t) \in Nat
  BY EmptySeq, LenProperties
<1>3. s \o t # <<>>
  BY <1>1, <1>2, EmptySeq
<1>4. SubSeq(s \o t, Len(s) + 1, Len(s \o t)) = t
  <2> DEFINE u == SubSeq(s \o t, Len(s) + 1, Len(s) + Len(t))
  <2>1. \A i \in Len(s) + 1 .. Len(s) + Len(t) : (s \o t)[i] \in Nat
    BY <1>1, <1>2, ElementOfSeq
  <2>2. /\ u \in Seq(Nat) /\ Len(u) = Len(t)
        /\ \A i \in 1 .. Len(t) : u[i] = (s \o t)[Len(s) + i]
    <3>1. /\ u \in Seq(Nat)
          /\ Len(u) = IF Len(s) + 1 <= Len(s) + Len(t) THEN Len(s) + Len(t) - (Len(s) + 1) + 1 ELSE 0
          /\ \A i \in 1 .. Len(s) + Len(t) - (Len(s) + 1) + 1 : u[i] = (s \o t)[Len(s) + 1 + i - 1]
      BY <2>1, <1>2, SubSeqProperties, Len(s) + 1 \in Int, Len(s) + Len(t) \in Int
    <3> HIDE DEF u
    <3>2. Len(u) = Len(t)
      BY <3>1, <1>2
    <3>3. ASSUME NEW i \in 1 .. Len(t) PROVE u[i] = (s \o t)[Len(s) + i]
      <4>1. i \in 1 .. Len(s) + Len(t) - (Len(s) + 1) + 1 /\ Len(s) + 1 + i - 1 = Len(s) + i
        BY <1>2
      <4>2. QED
        BY <3>1, <4>1
    <3>4. QED
      BY <3>1, <3>2, <3>3
  <2>3. \A i \in 1 .. Len(t) : u[i] = t[i]
    <3> HIDE DEF u
    <3>1. SUFFICES ASSUME NEW i \in 1 .. Len(t) PROVE u[i] = t[i]
      OBVIOUS
    <3>2. u[i] = (s \o t)[Len(s) + i]
      BY <2>2
    <3>3. Len(s) + i \in 1 .. Len(s) + Len(t) /\ ~(Len(s) + i <= Len(s)) /\ (Len(s) + i) - Len(s) = i
      BY <1>2
    <3>4. QED
      BY <1>1, <3>2, <3>3
  <2> HIDE DEF u
  <2>4. u = t
    BY <2>2, <2>3, SeqEqual
  <2>5. QED
    BY <2>4, <1>1 DEF u
<1>5. Head(s \o t) = Head(s)
  <2>1. Head(s \o t) = (s \o t)[1] /\ Head(s) = s[1]
    BY <1>1, <1>3
  <2>2. QED
    BY <2>1, <1>1, <1>2
<1>6. Tail(s \o t) = Tail(s) \o t
  <2>1. /\ Tail(s) \in Seq(Nat) /\ Len(Tail(s)) = Len(s) - 1
        /\ \A i \in 1 .. Len(Tail(s)) : Tail(s)[i] = s[i + 1]
    BY HeadTailProperties
  <2>2. /\ Tail(s \o t) \in Seq(Nat) /\ Len(Tail(s \o t)) = Len(s \o t) - 1
        /\ \A i \in 1 .. Len(Tail(s \o t)) : Tail(s \o t)[i] = (s \o t)[i + 1]
    BY <1>1, <1>3, HeadTailProperties
  <2>3. /\ Tail(s) \o t \in Seq(Nat) /\ Len(Tail(s) \o t) = Len(Tail(s)) + Len(t)
        /\ \A i \in 1 .. Len(Tail(s)) + Len(t) :
              (Tail(s) \o t)[i] = IF i <= Len(Tail(s)) THEN Tail(s)[i] ELSE t[i - Len(Tail(s))]
    BY <2>1, ConcatProperties
  <2>4. Len(Tail(s \o t)) = Len(Tail(s) \o t)
    BY <2>1, <2>2, <2>3, <1>1, <1>2
  <2>5. ASSUME NEW i \in 1 .. Len(Tail(s \o t)) PROVE Tail(s \o t)[i] = (Tail(s) \o t)[i]
    <3>1. i \in Nat /\ 1 <= i /\ i <= Len(s) - 1 + Len(t)
      BY <2>2, <1>1, <1>2
    <3>2. Tail(s \o t)[i] = IF i + 1 <= Len(s) THEN s[i + 1] ELSE t[(i + 1) - Len(s)]
      BY <2>2, <1>1, <1>2, <3>1
    <3>3. (Tail(s) \o t)[i] = IF i <= Len(s) - 1 THEN Tail(s)[i] ELSE t[i - (Len(s) - 1)]
      BY <2>3, <2>1, <1>2, <3>1
    <3>4. CASE i <= Len(s) - 1
      BY <3>1, <3>2, <3>3, <3>4, <2>1, <1>2
    <3>5. CASE ~(i <= Len(s) - 1)
      <4>1. (i + 1) - Len(s) = i - (Len(s) - 1) /\ ~(i + 1 <= Len(s))
        BY <3>1, <3>5, <1>2
      <4>2. QED
        BY <4>1, <3>2, <3>3, <3>5
    <3>6. QED
      BY <3>4, <3>5
  <2>6. QED
    BY <2>2, <2>3, <2>4, <2>5, SeqEqual
<1>7. QED
  BY <1>1, <1>2, <1>3, <1>4, <1>5, <1>6

LEMMA AppendBehind ==
    ASSUME NEW s \in Seq(Nat), NEW t \in Seq(Nat), NEW n \in Nat
    PROVE  s \o Append(t, n) = Append(s \o t, n)
<1>1. Append(t, n) = t \o <<n>> /\ <<n>> \in Seq(Nat)
  BY AppendIsConcat
<1>2. Append(s \o t, n) = (s \o t) \o <<n>>
  BY AppendIsConcat, ConcatProperties
<1>3. (s \o t) \o <<n>> = s \o (t \o <<n>>)
  BY <1>1, ConcatAssociative
<1>4. QED
  BY <1>1, <1>2, <1>3

\* What a list names.
LEMMA Named ==
    ASSUME NEW s \in Seq(Nat), NEW t \in Seq(Nat), NEW n \in Nat
    PROVE  /\ ToSet(s \o t) = ToSet(s) \cup ToSet(t)
           /\ ToSet(Append(s, n)) = ToSet(s) \cup {n}
           /\ s # <<>> => ToSet(Tail(s)) \subseteq ToSet(s)
           /\ ToSet(<<>>) = {}
<1>1. \A u : ToSet(u) = Range(u)
  BY DEF ToSet, Range
<1>2. ToSet(s \o t) = ToSet(s) \cup ToSet(t)
  BY <1>1, RangeConcatenation
<1>3. ToSet(Append(s, n)) = ToSet(s) \cup {n}
  <2>1. Append(s, n) = s \o <<n>> /\ <<n>> \in Seq(Nat)
    BY AppendIsConcat
  <2>2. ToSet(<<n>>) = {n}
    BY DEF ToSet
  <2>3. Range(s \o <<n>>) = Range(s) \cup Range(<<n>>)
    BY <2>1, RangeConcatenation, ZenonT(40)
  <2>4. QED
    BY <1>1, <2>1, <2>2, <2>3
<1>4. s # <<>> => ToSet(Tail(s)) \subseteq ToSet(s)
  <2>1. SUFFICES ASSUME s # <<>>, NEW i \in DOMAIN Tail(s) PROVE Tail(s)[i] \in ToSet(s)
    BY DEF ToSet
  <2>2. i \in 1 .. Len(s) - 1 /\ Tail(s)[i] = s[i + 1]
    BY <2>1, HeadTailProperties, LenProperties
  <2>3. i + 1 \in DOMAIN s
    BY <2>2, LenProperties
  <2>4. QED
    BY <2>2, <2>3 DEF ToSet
<1>5. ToSet(<<>>) = {}
  BY DEF ToSet
<1>6. QED
  BY <1>2, <1>3, <1>4, <1>5

-----------------------------------------------------------------------------
(* The inductive invariant.                                                *)

AllPlaces == Places.idle \cup Places.timer \cup Places.stop

Types ==
    /\ issued \in Nat
    /\ buffer \in Seq(Nat) /\ batch \in Seq(Nat) /\ stored \in Seq(Nat)
    /\ place \in [Flushers -> AllPlaces]
    /\ \A c \in Callers : place[c] \in Places.idle
    /\ asked \in [Callers -> Nat]

\* Only the flush that has the lock has a batch; it stands where a flush stands.
Locked ==
    /\ holder = Nobody => batch = <<>>
    /\ \A p \in Flushers : place[p] \in {"flush", "final"} => holder = p
    /\ \A c \in Callers : holder = c => place[c] = "flush"

\* The statements before a read: when its flush has the lock they have left
\* the list, and when it is over they have left memory.
Drained ==
    \A c \in Callers :
        /\ asked[c] <= issued
        /\ \A n \in 1 .. asked[c] :
            /\ place[c] = "flush" => n \notin ToSet(buffer)
            /\ place[c] = "read" => n \notin ToSet(buffer) /\ n \notin ToSet(batch)

BufferInv == Types /\ Locked /\ Drained

\* A flush that ends early: whatever it had is gone.
LEMMA CutOffEmpties ==
    ASSUME Types, CutOff
    PROVE  batch' = <<>> /\ holder' = Nobody /\ stored' \in Seq(Nat)
<1>1. batch # <<>> => Head(batch) \in Nat
  BY HeadTailProperties DEF Types
<1>2. batch # <<>> => Append(stored, Head(batch)) \in Seq(Nat)
  BY <1>1, AppendProperties DEF Types
<1>3. QED
  BY <1>2 DEF CutOff, Types

\* A step after which memory holds no more than before, no caller has asked
\* anew or come closer to its read, and the lock is kept or free.
Calm ==
    /\ UNCHANGED <<issued, buffer, asked>>
    /\ batch' \in {batch, <<>>}
    /\ \A c \in Callers : place'[c] \in {place[c], "idle"}

LEMMA CalmWaits == ASSUME Types, Drained, Calm PROVE Drained'
<1>1. ToSet(batch') \subseteq ToSet(batch)
  BY DEF Calm, ToSet
<1>2. QED
  BY <1>1 DEF Drained, Calm

LEMMA BufferInitInv == ASSUME BufferInit PROVE BufferInv
<1>1. Types
  BY BufferAssumption DEF BufferInit, Types, AllPlaces, Places, Flushers, CallersApart, Timer, Stop
<1>2. Locked
  BY BufferAssumption DEF BufferInit, Locked, CallersApart, Flushers
<1>3. Drained
  BY BufferAssumption DEF BufferInit, Drained, Flushers, CallersApart
<1>4. QED
  BY <1>1, <1>2, <1>3 DEF BufferInv

-----------------------------------------------------------------------------
(* Callers.                                                                *)

LEMMA WriteInv == ASSUME BufferInv, NEW c \in Callers, Write(c) PROVE BufferInv'
<1>1. issued' = issued + 1 /\ issued' \in Nat /\ buffer' = Append(buffer, issued')
  BY DEF BufferInv, Types, Write
<1>2. Types' /\ Locked'
  BY <1>1, AppendProperties DEF BufferInv, Types, Locked, Write
<1>3. ToSet(buffer') = ToSet(buffer) \cup {issued + 1}
  BY <1>1, Named DEF BufferInv, Types
<1>4. Drained'
  <2>1. SUFFICES ASSUME NEW d \in Callers
                 PROVE  /\ asked[d] <= issued + 1
                        /\ \A n \in 1 .. asked[d] : n # issued + 1
    BY <1>1, <1>3 DEF Drained, Write, BufferInv
  <2>2. asked[d] \in Nat /\ issued \in Nat /\ asked[d] <= issued
    BY DEF BufferInv, Types, Drained
  <2>3. QED
    BY <2>2
<1>5. QED
  BY <1>2, <1>4 DEF BufferInv

LEMMA WriteDirectInv == ASSUME BufferInv, NEW c \in Callers, WriteDirect(c) PROVE BufferInv'
<1>1. issued' = issued + 1 /\ issued' \in Nat
  BY DEF BufferInv, Types, WriteDirect
<1>2. Types' /\ Locked'
  BY <1>1, AppendProperties DEF BufferInv, Types, Locked, WriteDirect
<1>3. Drained'
  <2>1. SUFFICES ASSUME NEW d \in Callers PROVE asked[d] <= issued + 1
    BY <1>1 DEF Drained, WriteDirect, BufferInv
  <2>2. asked[d] \in Nat /\ issued \in Nat /\ asked[d] <= issued
    BY DEF BufferInv, Types, Drained
  <2>3. QED
    BY <2>2
<1>4. QED
  BY <1>2, <1>3 DEF BufferInv

LEMMA AskReadInv == ASSUME BufferInv, NEW c \in Callers, AskRead(c) PROVE BufferInv'
<1>1. Types'
  BY DEF BufferInv, Types, AskRead, Steps, AllPlaces, Places, Flushers
<1>2. Locked'
  BY DEF BufferInv, Types, Locked, AskRead, Steps, Flushers
<1>3. Drained'
  BY DEF BufferInv, Types, Drained, AskRead, Steps, Flushers
<1>4. QED
  BY <1>1, <1>2, <1>3 DEF BufferInv

LEMMA ReaderInv == ASSUME BufferInv, NEW c \in Callers, Read(c) PROVE BufferInv'
<1>1. Types'
  BY DEF BufferInv, Types, Read, Steps, AllPlaces, Places, Flushers
<1>2. Locked'
  BY DEF BufferInv, Types, Locked, Read, Steps, Flushers
<1>3. Calm
  BY DEF BufferInv, Types, Calm, Read, Steps, Flushers
<1>4. QED
  BY <1>1, <1>2, <1>3, CalmWaits DEF BufferInv

LEMMA CancelInv == ASSUME BufferInv, NEW c \in Callers, Cancel(c) PROVE BufferInv'
<1>1. place' = [place EXCEPT ![c] = "idle"] /\ c \in Flushers
      /\ UNCHANGED <<issued, buffer, asked>>
  BY DEF Cancel, Steps, Flushers
<1>2. CASE place[c] = "wait" /\ UNCHANGED <<batch, holder, stored>>
  <2>1. Types' /\ Calm
    BY <1>1, <1>2 DEF BufferInv, Types, Calm, AllPlaces, Places, Flushers
  <2>2. Locked'
    BY <1>1, <1>2 DEF BufferInv, Types, Locked, Flushers
  <2>3. QED
    BY <2>1, <2>2, CalmWaits DEF BufferInv
<1>3. CASE place[c] = "flush" /\ CutOff
  <2>1. batch' = <<>> /\ holder' = Nobody /\ stored' \in Seq(Nat) /\ holder = c
    BY <1>1, <1>3, CutOffEmpties DEF BufferInv, Locked
  <2>2. Types' /\ Calm
    BY <1>1, <2>1, EmptySeq DEF BufferInv, Types, Calm, AllPlaces, Places, Flushers
  <2>3. Locked'
    BY BufferAssumption, <1>1, <2>1 DEF BufferInv, Types, Locked, Flushers, CallersApart
  <2>4. QED
    BY <2>2, <2>3, CalmWaits DEF BufferInv
<1>4. QED
  BY <1>2, <1>3 DEF Cancel

-----------------------------------------------------------------------------
(* Flushes.                                                                *)

LEMMA SwapOutInv == ASSUME BufferInv, NEW p \in Flushers, SwapOut(p) PROVE BufferInv'
<1>1. /\ place' = [place EXCEPT ![p] = IF place[p] = "last" THEN "final" ELSE "flush"]
      /\ holder = Nobody /\ holder' = p /\ batch' = buffer /\ buffer' = <<>>
      /\ place[p] \in {"wait", "last"}
      /\ UNCHANGED <<issued, stored, asked>>
  BY DEF SwapOut, Steps
<1>2. Types'
  BY <1>1, EmptySeq DEF BufferInv, Types, AllPlaces, Places
<1>3. p \in Callers => place[p] = "wait"
  BY <1>1 DEF BufferInv, Types, Places
<1>4. Locked'
  BY BufferAssumption, <1>1, <1>3 DEF BufferInv, Types, Locked, CallersApart, Flushers, Timer, Stop, Nobody
<1>5. ToSet(buffer') = {}
  BY <1>1 DEF ToSet
<1>6. Drained'
  BY <1>1, <1>5 DEF BufferInv, Types, Drained, Flushers
<1>7. QED
  BY <1>2, <1>4, <1>6 DEF BufferInv

LEMMA ExecuteInv == ASSUME BufferInv, Execute PROVE BufferInv'
<1>1. /\ Head(batch) \in Nat /\ Tail(batch) \in Seq(Nat)
      /\ batch' = Tail(batch) /\ stored' = Append(stored, Head(batch))
      /\ UNCHANGED <<issued, buffer, holder, place, asked>>
  BY HeadTailProperties DEF BufferInv, Types, Execute
<1>2. Types'
  BY <1>1, AppendProperties DEF BufferInv, Types
<1>3. Locked'
  BY <1>1 DEF BufferInv, Locked, Execute
<1>4. ToSet(batch') \subseteq ToSet(batch)
  BY <1>1, Named, 0 \in Nat DEF BufferInv, Types, Execute
<1>5. Drained'
  BY <1>1, <1>4 DEF BufferInv, Drained
<1>6. QED
  BY <1>2, <1>3, <1>5 DEF BufferInv

LEMMA CommitInv == ASSUME BufferInv, Commit PROVE BufferInv'
<1>1. PICK p \in Flushers :
          /\ holder = p /\ batch = <<>> /\ holder' = Nobody
          /\ place' = [place EXCEPT ![p] = After(p)]
          /\ UNCHANGED <<issued, buffer, batch, stored, asked>>
  BY DEF Commit, Steps
<1>2. After(p) \in {"read", "off", "sleep"} /\ (p \in Callers <=> After(p) = "read")
  BY BufferAssumption DEF After, Flushers, CallersApart, Timer, Stop
<1>3. Types'
  BY <1>1, <1>2 DEF BufferInv, Types, AllPlaces, Places
<1>4. Locked'
  BY BufferAssumption, <1>1, <1>2 DEF BufferInv, Types, Locked, CallersApart, Flushers, Nobody
<1>5. Drained'
  <2>1. SUFFICES ASSUME NEW c \in Callers, NEW n \in 1 .. asked[c]
                 PROVE  /\ place'[c] = "flush" => n \notin ToSet(buffer)
                        /\ place'[c] = "read" => n \notin ToSet(buffer) /\ n \notin ToSet(batch)
    BY <1>1 DEF Drained, BufferInv
  <2>2. CASE c = p
    <3>1. place[c] = "flush" /\ ToSet(batch) = {}
      BY <1>1, <2>2 DEF BufferInv, Locked, ToSet
    <3>2. place'[c] = "read"
      BY <1>1, <1>2, <2>2 DEF BufferInv, Types
    <3>3. QED
      BY <3>1, <3>2 DEF BufferInv, Drained
  <2>3. CASE c # p
    BY <1>1, <2>3 DEF BufferInv, Types, Drained, Flushers
  <2>4. QED
    BY <2>2, <2>3
<1>6. QED
  BY <1>3, <1>4, <1>5 DEF BufferInv

LEMMA FlushFailsInv == ASSUME BufferInv, FlushFails PROVE BufferInv'
<1>1. PICK p \in Flushers :
          /\ holder = p /\ batch' = <<>> /\ holder' = Nobody
          /\ Steps(p, CASE p \in Callers -> "idle" [] p = Timer -> "dead" [] p = Stop -> "off")
          /\ UNCHANGED <<issued, buffer, stored, asked, phase>>
  BY DEF FlushFails
<1>2. PICK to \in {"idle", "dead", "off"} :
          place' = [place EXCEPT ![p] = to] /\ (p \in Callers => to = "idle")
  <2>1. CASE p \in Callers
    <3>1. place' = [place EXCEPT ![p] = "idle"]
      BY BufferAssumption, <1>1, <2>1 DEF Steps, CallersApart
    <3>2. QED
      BY <3>1
  <2>2. CASE p = Timer
    <3>1. place' = [place EXCEPT ![p] = "dead"] /\ p \notin Callers
      BY BufferAssumption, <1>1, <2>2 DEF Steps, CallersApart, Timer, Stop
    <3>2. QED
      BY <3>1
  <2>3. CASE p = Stop
    <3>1. place' = [place EXCEPT ![p] = "off"] /\ p \notin Callers
      BY BufferAssumption, <1>1, <2>3 DEF Steps, CallersApart, Timer, Stop
    <3>2. QED
      BY <3>1
  <2>4. QED
    BY <2>1, <2>2, <2>3 DEF Flushers
<1>3. Types'
  BY <1>1, <1>2, EmptySeq DEF BufferInv, Types, AllPlaces, Places
<1>4. Locked'
  BY BufferAssumption, <1>1, <1>2 DEF BufferInv, Types, Locked, CallersApart, Flushers
<1>5. Calm
  BY <1>1, <1>2 DEF BufferInv, Types, Calm, Flushers
<1>6. QED
  BY <1>3, <1>4, <1>5, CalmWaits DEF BufferInv

-----------------------------------------------------------------------------
(* The timer and the shutdown.                                             *)

LEMMA TimerWakesInv == ASSUME BufferInv, TimerWakes PROVE BufferInv'
<1>1. Types' /\ Calm
  BY BufferAssumption DEF BufferInv, Types, TimerWakes, Steps, Calm, AllPlaces, Places, Flushers, CallersApart
<1>2. Locked'
  BY BufferAssumption DEF BufferInv, Types, Locked, TimerWakes, Steps, Flushers, CallersApart
<1>3. QED
  BY <1>1, <1>2, CalmWaits DEF BufferInv

\* The step moves one flusher that is no caller out of its flush, which keeps
\* the batch and the lock unless it had them.
LEMMA LeavesFlush ==
    ASSUME BufferInv, NEW p \in {Timer, Stop}, NEW new,
           new \in [Flushers -> AllPlaces],
           \A c \in Callers : new[c] = place[c],
           \A q \in {Timer, Stop} : new[q] \in {"flush", "final"} => new[q] = place[q] /\ q # p,
           place' = new, UNCHANGED <<issued, buffer, asked>>,
           \/ UNCHANGED <<batch, holder, stored>>
           \/ CutOff /\ place[p] \in {"flush", "final"}
    PROVE  BufferInv'
<1>1. CASE UNCHANGED <<batch, holder, stored>>
  <2>1. Types' /\ Calm
    BY <1>1 DEF BufferInv, Types, Calm
  <2>2. Locked'
    BY <1>1 DEF BufferInv, Locked, Flushers
  <2>3. QED
    BY <2>1, <2>2, CalmWaits DEF BufferInv
<1>2. CASE CutOff /\ place[p] \in {"flush", "final"}
  <2>1. batch' = <<>> /\ holder' = Nobody /\ stored' \in Seq(Nat)
    BY <1>2, CutOffEmpties DEF BufferInv
  <2>2. holder = p /\ p \notin Callers
    BY BufferAssumption, <1>2 DEF BufferInv, Locked, Flushers, CallersApart
  <2>3. Types' /\ Calm
    BY <2>1, EmptySeq DEF BufferInv, Types, Calm
  <2>4. \A q \in Flushers : q # p => place[q] \notin {"flush", "final"}
    BY <2>2 DEF BufferInv, Locked
  <2>5. Locked'
    BY BufferAssumption, <2>1, <2>2, <2>4 DEF Locked, Flushers, CallersApart
  <2>6. QED
    BY <2>3, <2>5, CalmWaits DEF BufferInv
<1>3. QED
  BY <1>1, <1>2

LEMMA StopTasksInv == ASSUME BufferInv, StopTasks PROVE BufferInv'
<1>1. PICK to \in {"dead", "last"} : place' = [place EXCEPT ![Timer] = to]
  BY DEF StopTasks, Steps
<1>2. UNCHANGED <<issued, buffer, asked>>
  BY DEF StopTasks
<1>3. \/ UNCHANGED <<batch, holder, stored>>
      \/ CutOff /\ place[Timer] \in {"flush", "final"}
  BY DEF StopTasks
<1>4. place' \in [Flushers -> AllPlaces] /\ \A c \in Callers : place'[c] = place[c]
  BY BufferAssumption, <1>1 DEF BufferInv, Types, AllPlaces, Places, Flushers, CallersApart
<1>5. \A q \in {Timer, Stop} :
          place'[q] \in {"flush", "final"} => place'[q] = place[q] /\ q # Timer
  BY <1>1 DEF BufferInv, Types, Flushers, Timer, Stop
<1>6. QED
  BY <1>2, <1>3, <1>4, <1>5, LeavesFlush

LEMMA PhaseEndsCuts ==
    ASSUME NEW p, PhaseEnds(p)
    PROVE  \/ UNCHANGED <<batch, holder, stored>>
           \/ CutOff /\ place[p] \in {"flush", "final"}
BY DEF PhaseEnds

LEMMA FlushPhaseInv == ASSUME BufferInv, FlushPhase PROVE BufferInv'
<1>1. place' = [place EXCEPT ![Timer] = "off", ![Stop] = "wait"]
      /\ UNCHANGED <<issued, buffer, asked>> /\ PhaseEnds(Timer)
  BY DEF FlushPhase
<1>2. place' \in [Flushers -> AllPlaces] /\ \A c \in Callers : place'[c] = place[c]
  BY BufferAssumption, <1>1 DEF BufferInv, Types, AllPlaces, Places, Flushers, CallersApart
<1>3. \A q \in {Timer, Stop} : place'[q] \notin {"flush", "final"}
  BY <1>1 DEF BufferInv, Types, Flushers, Timer, Stop
<1>4. QED
  BY <1>1, <1>2, <1>3, PhaseEndsCuts, LeavesFlush

LEMMA DrainPhaseInv == ASSUME BufferInv, DrainPhase PROVE BufferInv'
<1>1. place' = [place EXCEPT ![Stop] = "off"]
      /\ UNCHANGED <<issued, buffer, asked>> /\ PhaseEnds(Stop)
  BY DEF DrainPhase, Steps
<1>2. place' \in [Flushers -> AllPlaces] /\ \A c \in Callers : place'[c] = place[c]
  BY BufferAssumption, <1>1 DEF BufferInv, Types, AllPlaces, Places, Flushers, CallersApart
<1>3. \A q \in {Timer, Stop} :
          place'[q] \in {"flush", "final"} => place'[q] = place[q] /\ q # Stop
  BY <1>1 DEF BufferInv, Types, Flushers, Timer, Stop
<1>4. QED
  BY <1>1, <1>2, <1>3, PhaseEndsCuts, LeavesFlush

LEMMA CloseInv == ASSUME BufferInv, CloseDown PROVE BufferInv'
<1>1. /\ batch' = <<>> /\ holder' = Nobody
      /\ place' = [p \in Flushers |-> IF p \in Callers THEN "idle" ELSE "off"]
      /\ UNCHANGED <<issued, buffer, stored, asked>>
  BY DEF CloseDown
<1>2. Types'
  <2>1. "idle" \in AllPlaces /\ "off" \in AllPlaces /\ "idle" \in Places.idle
    BY DEF AllPlaces, Places
  <2>2. place' \in [Flushers -> AllPlaces] /\ \A c \in Callers : place'[c] \in Places.idle
    BY <1>1, <2>1 DEF Flushers
  <2>3. QED
    BY <1>1, <2>2, EmptySeq DEF BufferInv, Types
<1>3. Locked' /\ Calm
  BY BufferAssumption, <1>1 DEF Locked, Calm, Flushers, CallersApart
<1>4. QED
  BY <1>2, <1>3, CalmWaits DEF BufferInv

-----------------------------------------------------------------------------
(* The theorems.                                                           *)

LEMMA BufferStep == ASSUME BufferInv, [BufferNext]_bufferVars PROVE BufferInv'
<1>1. ASSUME NEW c \in Callers, CallerNext(c) PROVE BufferInv'
  BY <1>1, WriteInv, WriteDirectInv, AskReadInv, ReaderInv, CancelInv DEF CallerNext
<1>2. ASSUME FlushNext PROVE BufferInv'
  BY <1>2, SwapOutInv, ExecuteInv, CommitInv, FlushFailsInv DEF FlushNext
<1>3. ASSUME PhaseNext PROVE BufferInv'
  BY <1>3, TimerWakesInv, StopTasksInv, FlushPhaseInv, DrainPhaseInv, CloseInv DEF PhaseNext
<1>4. ASSUME UNCHANGED bufferVars PROVE BufferInv'
  BY <1>4 DEF bufferVars, BufferInv, Types, Locked, Drained
<1>5. QED
  BY <1>1, <1>2, <1>3, <1>4 DEF BufferNext

LEMMA BufferInvariance == BufferSpec => []BufferInv
<1>1. BufferInit => BufferInv
  BY BufferInitInv
<1>2. BufferInv /\ [BufferNext]_bufferVars => BufferInv'
  BY BufferStep
<1>3. QED
  BY <1>1, <1>2, PTL DEF BufferSpec

\* A reader queries after everything issued before it came has left memory,
\* whoever flushed it (`_ensure_flushed`, api/db/core.py:355).
THEOREM ReadersSeeEarlierWrites == BufferSpec => []ReadsSeeEarlierWrites
<1>1. BufferInv => ReadsSeeEarlierWrites
  BY Named, 0 \in Nat DEF BufferInv, Types, Drained, ReadsSeeEarlierWrites
<1>2. QED
  BY <1>1, BufferInvariance, PTL

\* A flush that ends early drops the oldest statements, if it has any.
LEMMA CutDrops ==
    ASSUME BufferInv, CutOff, UNCHANGED <<issued, buffer>>
    PROVE  [Log!Next]_(Log!vars)
<1>1. CASE batch = <<>>
  BY <1>1 DEF CutOff, Log!vars
<1>2. CASE batch # <<>>
  <2>1. /\ Len(batch) \in 1 .. Len(batch \o buffer)
        /\ SubSeq(batch \o buffer, Len(batch) + 1, Len(batch \o buffer)) = buffer
        /\ Head(batch \o buffer) = Head(batch)
    BY <1>2, RestAfterCut DEF BufferInv, Types
  <2>2. batch' \o buffer' = buffer
    BY ConcatEmptySeq DEF CutOff, BufferInv, Types
  <2>3. stored' \in {stored, Append(stored, Head(batch \o buffer))}
    BY <1>2, <2>1 DEF CutOff
  <2>4. Log!Drop
    BY <2>1, <2>2, <2>3 DEF Log!Drop
  <2>5. QED
    BY <2>4 DEF Log!Next
<1>3. QED
  BY <1>1, <1>2

\* Every step of the buffer is a step of the ordered log, or none.
LEMMA StepRefines == ASSUME BufferInv, BufferNext PROVE [Log!Next]_(Log!vars)
<1>1. ASSUME NEW c \in Callers, Write(c) PROVE Log!Accept
  <2>1. issued' = issued + 1 /\ issued' \in Nat /\ buffer' = Append(buffer, issued')
        /\ UNCHANGED <<batch, stored>>
    BY <1>1 DEF Write, BufferInv, Types
  <2>2. batch' \o buffer' = Append(batch \o buffer, issued')
    BY <2>1, AppendBehind DEF BufferInv, Types
  <2>3. QED
    BY <2>1, <2>2 DEF Log!Accept
<1>2. ASSUME NEW c \in Callers, WriteDirect(c) PROVE Log!Direct
  BY <1>2 DEF WriteDirect, Log!Direct
<1>3. ASSUME NEW c \in Callers, AskRead(c) \/ Read(c) PROVE UNCHANGED Log!vars
  BY <1>3 DEF AskRead, Read, Log!vars
<1>4. ASSUME NEW c \in Callers, Cancel(c) PROVE [Log!Next]_(Log!vars)
  <2>1. UNCHANGED <<issued, buffer>> /\ (UNCHANGED <<batch, stored>> \/ CutOff)
    BY <1>4 DEF Cancel
  <2>2. QED
    BY <2>1, CutDrops DEF Log!vars
<1>5. ASSUME NEW p \in Flushers, SwapOut(p) PROVE UNCHANGED Log!vars
  <2>1. batch = <<>> /\ batch' = buffer /\ buffer' = <<>> /\ UNCHANGED <<issued, stored>>
    BY <1>5 DEF SwapOut, BufferInv, Locked
  <2>2. batch \o buffer = buffer /\ batch' \o buffer' = buffer
    BY <2>1, ConcatEmptySeq DEF BufferInv, Types
  <2>3. QED
    BY <2>1, <2>2 DEF Log!vars
<1>6. ASSUME Execute PROVE Log!Land
  <2>1. batch # <<>> /\ batch' = Tail(batch) /\ stored' = Append(stored, Head(batch))
        /\ UNCHANGED <<issued, buffer>>
    BY <1>6 DEF Execute
  <2>2. /\ Head(batch \o buffer) = Head(batch) /\ batch \o buffer # <<>>
        /\ Tail(batch \o buffer) = Tail(batch) \o buffer
    BY <2>1, RestAfterCut DEF BufferInv, Types
  <2>3. QED
    BY <2>1, <2>2 DEF Log!Land
<1>7. ASSUME Commit PROVE UNCHANGED Log!vars
  BY <1>7 DEF Commit, Log!vars
<1>8. ASSUME FlushFails PROVE [Log!Next]_(Log!vars)
  <2>1. batch' = <<>> /\ holder' = Nobody /\ UNCHANGED <<issued, buffer, stored>>
    BY <1>8 DEF FlushFails
  <2>2. CutOff
    BY <2>1 DEF CutOff
  <2>3. QED
    BY <2>1, <2>2, CutDrops
<1>9. ASSUME PhaseNext PROVE [Log!Next]_(Log!vars)
  <2>1. CASE TimerWakes
    BY <2>1 DEF TimerWakes, Log!vars
  <2>2. CASE StopTasks \/ FlushPhase \/ DrainPhase
    <3>1. UNCHANGED <<issued, buffer>> /\ (UNCHANGED <<batch, stored>> \/ CutOff)
      BY <2>2 DEF StopTasks, FlushPhase, DrainPhase, PhaseEnds
    <3>2. QED
      BY <3>1, CutDrops DEF Log!vars
  <2>3. CASE CloseDown
    <3>1. batch' = <<>> /\ holder' = Nobody /\ UNCHANGED <<issued, buffer, stored>>
      BY <2>3 DEF CloseDown
    <3>2. CutOff
      BY <3>1 DEF CutOff
    <3>3. QED
      BY <3>1, <3>2, CutDrops
  <2>4. QED
    BY <1>9, <2>1, <2>2, <2>3 DEF PhaseNext
<1>10. QED
  BY <1>1, <1>2, <1>3, <1>4, <1>5, <1>6, <1>7, <1>8, <1>9
  DEF BufferNext, CallerNext, FlushNext, Log!Next

\* The buffer with its timer, readers, failures and shutdown implements the
\* ordered log: no statement is stored twice or out of order, and only the
\* oldest that wait are dropped (api/db/core.py:275).
THEOREM BufferImplementsLog == BufferSpec => ImplementsOrderedLog
<1>1. BufferInit => Log!Init
  BY ConcatEmptySeq, EmptySeq DEF BufferInit, Log!Init
<1>2. BufferInv /\ [BufferNext]_bufferVars => [Log!Next]_(Log!vars)
  <2>1. ASSUME UNCHANGED bufferVars PROVE UNCHANGED Log!vars
    BY <2>1 DEF bufferVars, Log!vars
  <2>2. QED
    BY <2>1, StepRefines
<1>3. QED
  BY <1>1, <1>2, BufferInvariance, PTL DEF BufferSpec, ImplementsOrderedLog, Log!Spec

-----------------------------------------------------------------------------
(* Two lists of the numbers up to n, each with no number twice and none in *)
(* common: what has landed and what waits.                                 *)
Once(s, p, n) ==
    /\ s \in Seq(1 .. n) /\ p \in Seq(1 .. n)
    /\ \A i, j \in 1 .. Len(s) : s[i] = s[j] => i = j
    /\ \A i, j \in 1 .. Len(p) : p[i] = p[j] => i = j
    /\ \A i \in 1 .. Len(s), j \in 1 .. Len(p) : s[i] # p[j]

\* One more at the end.
LEMMA OneMoreClear ==
    ASSUME NEW m \in Nat, NEW f, NEW g, NEW x, NEW T, \A i \in 1 .. m : g[i] = f[i], g[m + 1] = x,
           \A i \in 1 .. m : f[i] \notin T, x \notin T
    PROVE  \A i \in 1 .. m + 1 : g[i] \notin T
<1>1. SUFFICES ASSUME NEW i \in 1 .. m + 1 PROVE g[i] \notin T
  OBVIOUS
<1>2. i \in 1 .. m \/ i = m + 1
  OBVIOUS
<1>3. QED
  BY <1>1, <1>2, Zenon

\* A number that is new, at the end of either.
LEMMA OnceMore ==
    ASSUME NEW n \in Nat, NEW s, NEW p, Once(s, p, n)
    PROVE  Once(s, Append(p, n + 1), n + 1) /\ Once(Append(s, n + 1), p, n + 1)
<1>1. s \in Seq(1 .. n) /\ p \in Seq(1 .. n)
  BY DEF Once
<1>2. ASSUME NEW q \in Seq(1 .. n)
      PROVE  /\ Len(q) \in Nat /\ \A i \in 1 .. Len(q) : q[i] \in 1 .. n
             /\ q \in Seq(1 .. n + 1) /\ Append(q, n + 1) \in Seq(1 .. n + 1)
             /\ Len(Append(q, n + 1)) = Len(q) + 1 /\ Append(q, n + 1)[Len(q) + 1] = n + 1
             /\ \A i \in 1 .. Len(q) : Append(q, n + 1)[i] = q[i]
  <2>1. Len(q) \in Nat /\ \A i \in 1 .. Len(q) : q[i] \in 1 .. n
    BY ElementOfSeq, LenProperties
  <2>2. q \in Seq(1 .. n + 1)
    BY <2>1, SeqDef
  <2>3. n + 1 \in 1 .. n + 1
    OBVIOUS
  <2>4. QED
    BY <2>1, <2>2, <2>3, AppendProperties
<1>3. \A i \in 1 .. Len(s) : s[i] # n + 1
  BY <1>1, <1>2
<1>4. \A i \in 1 .. Len(p) : p[i] # n + 1
  BY <1>1, <1>2
<1>5. PICK q, t : q = Append(p, n + 1) /\ t = Append(s, n + 1)
  OBVIOUS
<1>6. /\ Len(q) = Len(p) + 1 /\ q[Len(p) + 1] = n + 1 /\ \A i \in 1 .. Len(p) : q[i] = p[i]
      /\ Len(t) = Len(s) + 1 /\ t[Len(s) + 1] = n + 1 /\ \A i \in 1 .. Len(s) : t[i] = s[i]
      /\ q \in Seq(1 .. n + 1) /\ t \in Seq(1 .. n + 1) /\ p \in Seq(1 .. n + 1) /\ s \in Seq(1 .. n + 1)
      /\ Len(p) \in Nat /\ Len(s) \in Nat
  BY <1>1, <1>2, <1>5
<1>7. \A i \in 1 .. Len(q) : i = Len(p) + 1 \/ i \in 1 .. Len(p)
  BY <1>6
<1>8. \A i \in 1 .. Len(t) : i = Len(s) + 1 \/ i \in 1 .. Len(s)
  BY <1>6
<1>9. /\ \A i, j \in 1 .. Len(s) : s[i] = s[j] => i = j
      /\ \A i, j \in 1 .. Len(p) : p[i] = p[j] => i = j
      /\ \A i \in 1 .. Len(s), j \in 1 .. Len(p) : s[i] # p[j]
  BY DEF Once
<1> DEFINE S == {s[i] : i \in 1 .. Len(s)}
           P == {p[i] : i \in 1 .. Len(p)}
<1>10. /\ \A i \in 1 .. Len(p) : p[i] \notin S
       /\ \A i \in 1 .. Len(s) : s[i] \notin P
       /\ n + 1 \notin S /\ n + 1 \notin P
  BY <1>3, <1>4, <1>9, Zenon
<1> HIDE DEF S, P
<1>11. (\A i, j \in 1 .. Len(q) : q[i] = q[j] => i = j) /\ \A i \in 1 .. Len(q) : q[i] \notin S
  <2>1. \A i, j \in 1 .. Len(p) + 1 : q[i] = q[j] => i = j
    <3>1. Len(p) \in Nat /\ q[Len(p) + 1] = n + 1
      BY <1>6
    <3>2. \A i \in 1 .. Len(p) : q[i] = p[i]
      BY <1>6
    <3>3. \A i, j \in 1 .. Len(p) : p[i] = p[j] => i = j
      BY <1>9
    <3>4. ASSUME NEW i \in 1 .. Len(p) + 1, NEW j \in 1 .. Len(p) + 1, q[i] = q[j] PROVE i = j
      <4>1. (i \in 1 .. Len(p) \/ i = Len(p) + 1) /\ (j \in 1 .. Len(p) \/ j = Len(p) + 1)
        BY <3>1
      <4>2. QED
        BY <1>4, <3>1, <3>2, <3>3, <3>4, <4>1, Zenon
    <3>5. QED
      BY <3>4
  <2>2. \A i \in 1 .. Len(p) + 1 : q[i] \notin S
    BY <1>6, <1>10, OneMoreClear, Zenon
  <2>3. QED
    BY <1>6, <2>1, <2>2, Zenon
<1>12. (\A i, j \in 1 .. Len(t) : t[i] = t[j] => i = j) /\ \A i \in 1 .. Len(t) : t[i] \notin P
  <2>1. \A i, j \in 1 .. Len(s) + 1 : t[i] = t[j] => i = j
    <3>1. Len(s) \in Nat /\ t[Len(s) + 1] = n + 1
      BY <1>6
    <3>2. \A i \in 1 .. Len(s) : t[i] = s[i]
      BY <1>6
    <3>3. \A i, j \in 1 .. Len(s) : s[i] = s[j] => i = j
      BY <1>9
    <3>4. ASSUME NEW i \in 1 .. Len(s) + 1, NEW j \in 1 .. Len(s) + 1, t[i] = t[j] PROVE i = j
      <4>1. (i \in 1 .. Len(s) \/ i = Len(s) + 1) /\ (j \in 1 .. Len(s) \/ j = Len(s) + 1)
        BY <3>1
      <4>2. QED
        BY <1>3, <3>1, <3>2, <3>3, <3>4, <4>1, Zenon
    <3>5. QED
      BY <3>4
  <2>2. \A i \in 1 .. Len(s) + 1 : t[i] \notin P
    BY <1>6, <1>10, OneMoreClear, Zenon
  <2>3. QED
    BY <1>6, <2>1, <2>2, Zenon
<1>13. Once(s, q, n + 1) /\ Once(t, p, n + 1)
  <2>1. /\ \A i \in 1 .. Len(s), j \in 1 .. Len(q) : s[i] # q[j]
        /\ \A i \in 1 .. Len(t), j \in 1 .. Len(p) : t[i] # p[j]
    BY <1>11, <1>12 DEF S, P
  <2>2. /\ s \in Seq(1 .. n + 1) /\ q \in Seq(1 .. n + 1)
        /\ t \in Seq(1 .. n + 1) /\ p \in Seq(1 .. n + 1)
    BY <1>6
  <2>3. QED
    BY <1>9, <1>11, <1>12, <2>1, <2>2, Zenon DEF Once
<1>14. QED
  BY <1>5, <1>13

\* The oldest of those that wait leave; the first of them may have landed.
LEMMA OnceLess ==
    ASSUME NEW n \in Nat, NEW s, NEW p, Once(s, p, n), NEW k \in 1 .. Len(p),
           NEW t \in {s, Append(s, Head(p))}
    PROVE  Once(t, SubSeq(p, k + 1, Len(p)), n)
<1>1. /\ s \in Seq(1 .. n) /\ p \in Seq(1 .. n) /\ Len(s) \in Nat /\ Len(p) \in Nat
      /\ \A i \in 1 .. Len(p) : p[i] \in 1 .. n
  BY ElementOfSeq, LenProperties DEF Once
<1>2. PICK q : q = SubSeq(p, k + 1, Len(p))
  OBVIOUS
<1>3. /\ q \in Seq(1 .. n) /\ Len(q) = Len(p) - k
      /\ \A i \in 1 .. Len(q) : q[i] = p[k + i]
  <2>1. \A i \in k + 1 .. Len(p) : p[i] \in 1 .. n
    BY <1>1
  <2>2. k + 1 \in Int /\ Len(p) \in Int
    BY <1>1
  <2>3. /\ q \in Seq(1 .. n)
        /\ Len(q) = IF k + 1 <= Len(p) THEN Len(p) - (k + 1) + 1 ELSE 0
        /\ \A i \in 1 .. Len(p) - (k + 1) + 1 : q[i] = p[(k + 1) + i - 1]
    BY <1>2, <2>1, <2>2, SubSeqProperties
  <2>4. Len(q) = Len(p) - k
    BY <1>1, <2>3
  <2>5. ASSUME NEW i \in 1 .. Len(q) PROVE q[i] = p[k + i]
    <3>1. i \in 1 .. Len(p) - (k + 1) + 1 /\ (k + 1) + i - 1 = k + i
      BY <1>1, <2>4
    <3>2. QED
      BY <2>3, <3>1
  <2>6. QED
    BY <2>3, <2>4, <2>5
<1>4. Head(p) = p[1] /\ 1 \in 1 .. Len(p) /\ Head(p) \in 1 .. n
  BY <1>1
<1>0. /\ \A i, j \in 1 .. Len(s) : s[i] = s[j] => i = j
      /\ \A i, j \in 1 .. Len(p) : p[i] = p[j] => i = j
      /\ \A i \in 1 .. Len(s), j \in 1 .. Len(p) : s[i] # p[j]
  BY DEF Once
<1>5. /\ t \in Seq(1 .. n) /\ Len(t) \in {Len(s), Len(s) + 1}
      /\ \A i \in 1 .. Len(s) : t[i] = s[i]
      /\ Len(t) = Len(s) + 1 => t[Len(s) + 1] = p[1]
  <2>1. CASE t = s
    BY <1>1, <2>1
  <2>2. CASE t = Append(s, Head(p))
    <3>1. PICK h : h = Head(p)
      OBVIOUS
    <3>2. /\ Append(s, h) \in Seq(1 .. n) /\ Len(Append(s, h)) = Len(s) + 1 /\ Append(s, h)[Len(s) + 1] = h
          /\ \A i \in 1 .. Len(s) : Append(s, h)[i] = s[i]
      BY <1>1, <1>4, <3>1, AppendProperties
    <3>3. QED
      BY <1>4, <2>2, <3>1, <3>2
  <2>3. QED
    BY <2>1, <2>2
<1>6. \A i \in 1 .. Len(q) : k + i \in 1 .. Len(p) /\ k + i # 1
  BY <1>1, <1>3
<1>7. ASSUME NEW i \in 1 .. Len(t) PROVE i \in 1 .. Len(s) \/ (i = Len(s) + 1 /\ Len(t) = Len(s) + 1)
  <2>1. PICK m, l : m = Len(s) /\ l = Len(t)
    OBVIOUS
  <2>2. m \in Nat /\ l \in {m, m + 1} /\ i \in 1 .. l
    BY <1>1, <1>5, <2>1
  <2>3. i \in 1 .. m \/ (i = m + 1 /\ l = m + 1)
    BY <2>2
  <2>4. QED
    BY <2>1, <2>3
<1>8. \A i, j \in 1 .. Len(q) : q[i] = q[j] => i = j
  <2>1. SUFFICES ASSUME NEW i \in 1 .. Len(q), NEW j \in 1 .. Len(q), q[i] = q[j] PROVE i = j
    OBVIOUS
  <2>2. k + i = k + j
    BY <1>3, <1>6, <2>1 DEF Once
  <2>3. QED
    BY <2>2
<1>9. ASSUME NEW i \in 1 .. Len(t), NEW j \in 1 .. Len(t), t[i] = t[j] PROVE i = j
  <2>1. CASE Len(t) = Len(s)
    BY <1>0, <1>5, <1>9, <2>1, ZenonT(40)
  <2>2. CASE Len(t) = Len(s) + 1
    <3>1. \A k1 \in 1 .. Len(s) : s[k1] # p[1]
      BY <1>0, <1>4, Zenon
    <3>2. \A k1 \in 1 .. Len(s) : t[k1] = s[k1]
      BY <1>5
    <3>3. Len(s) \in Nat /\ t[Len(s) + 1] = p[1]
      BY <1>1, <1>5, <2>2
    <3>4. \A k1, k2 \in 1 .. Len(s) : s[k1] = s[k2] => k1 = k2
      BY <1>0
    <3>5. (i \in 1 .. Len(s) \/ i = Len(s) + 1) /\ (j \in 1 .. Len(s) \/ j = Len(s) + 1)
      BY <2>2, <3>3
    <3>6. QED
      BY <1>9, <3>1, <3>2, <3>3, <3>4, <3>5, Zenon
  <2>3. QED
    BY <1>5, <2>1, <2>2
<1>10. \A i \in 1 .. Len(t), j \in 1 .. Len(q) : t[i] # q[j]
  <2>1. SUFFICES ASSUME NEW i \in 1 .. Len(t), NEW j \in 1 .. Len(q) PROVE t[i] # q[j]
    OBVIOUS
  <2>2. q[j] = p[k + j] /\ k + j \in 1 .. Len(p) /\ k + j # 1
    BY <1>3, <1>6
  <2>3. CASE i \in 1 .. Len(s)
    <3>1. t[i] = s[i]
      BY <1>5, <2>3
    <3>2. s[i] # p[k + j]
      BY <1>0, <2>2, <2>3, Zenon
    <3>3. QED
      BY <2>2, <3>1, <3>2, Zenon
  <2>4. CASE i = Len(s) + 1 /\ Len(t) = Len(s) + 1
    <3>1. t[i] = p[1]
      BY <1>5, <2>4
    <3>2. p[1] # p[k + j]
      BY <1>0, <1>4, <2>2
    <3>3. QED
      BY <2>2, <3>1, <3>2, Zenon
  <2>5. QED
    BY <1>7, <2>3, <2>4
<1>11. Once(t, q, n)
  BY <1>3, <1>5, <1>8, <1>9, <1>10 DEF Once
<1>12. QED
  BY <1>2, <1>11

LEMMA OnceJoined ==
    ASSUME NEW n \in Nat, NEW s, NEW p, Once(s, p, n) PROVE IsInjective(s \o p)
<1>1. s \in Seq(1 .. n) /\ p \in Seq(1 .. n) /\ Len(s) \in Nat /\ Len(p) \in Nat
  BY LenProperties DEF Once
<1>2. PICK a : a = s \o p
  OBVIOUS
<1>3. /\ DOMAIN a = 1 .. Len(s) + Len(p)
      /\ \A i \in 1 .. Len(s) + Len(p) : a[i] = IF i <= Len(s) THEN s[i] ELSE p[i - Len(s)]
  BY <1>1, <1>2, ConcatProperties, LenProperties
<1>4. ASSUME NEW i \in 1 .. Len(s) + Len(p)
      PROVE  \/ i \in 1 .. Len(s) /\ a[i] = s[i]
             \/ i - Len(s) \in 1 .. Len(p) /\ a[i] = p[i - Len(s)]
  <2>1. CASE i <= Len(s)
    <3>1. i \in 1 .. Len(s)
      BY <1>1, <2>1
    <3>2. a[i] = s[i]
      BY <1>3, <2>1
    <3>3. QED
      BY <3>1, <3>2
  <2>2. CASE ~(i <= Len(s))
    <3>1. i - Len(s) \in 1 .. Len(p)
      BY <1>1, <2>2
    <3>2. a[i] = p[i - Len(s)]
      BY <1>3, <2>2
    <3>3. QED
      BY <3>1, <3>2, Zenon
  <2>3. QED
    BY <2>1, <2>2
<1>5. ASSUME NEW i \in 1 .. Len(s) + Len(p), NEW j \in 1 .. Len(s) + Len(p), a[i] = a[j] PROVE i = j
  <2>1. CASE i \in 1 .. Len(s) /\ a[i] = s[i] /\ j \in 1 .. Len(s) /\ a[j] = s[j]
    BY <1>5, <2>1 DEF Once
  <2>2. CASE i - Len(s) \in 1 .. Len(p) /\ a[i] = p[i - Len(s)] /\ j - Len(s) \in 1 .. Len(p) /\ a[j] = p[j - Len(s)]
    <3>1. i - Len(s) = j - Len(s)
      BY <1>5, <2>2 DEF Once
    <3>2. QED
      BY <1>1, <3>1
  <2>3. CASE i \in 1 .. Len(s) /\ a[i] = s[i] /\ j - Len(s) \in 1 .. Len(p) /\ a[j] = p[j - Len(s)]
    BY <1>5, <2>3 DEF Once
  <2>4. CASE i - Len(s) \in 1 .. Len(p) /\ a[i] = p[i - Len(s)] /\ j \in 1 .. Len(s) /\ a[j] = s[j]
    BY <1>5, <2>4 DEF Once
  <2>5. QED
    BY <1>4, <2>1, <2>2, <2>3, <2>4
<1>6. IsInjective(a)
  BY <1>3, <1>5 DEF IsInjective
<1>7. QED
  BY <1>2, <1>6

\* The promise of the log: what has landed and what waits has no statement
\* twice.
LogInv == issued \in Nat /\ Once(stored, batch \o buffer, issued)

LEMMA LogStep == LogInv /\ [Log!Next]_(Log!vars) => LogInv'
<1> SUFFICES ASSUME LogInv, [Log!Next]_(Log!vars) PROVE LogInv'
  OBVIOUS
<1>1. PICK s, p, n : s = stored /\ p = batch \o buffer /\ n = issued
  OBVIOUS
<1>2. PICK s2, p2, n2 : s2 = stored' /\ p2 = batch' \o buffer' /\ n2 = issued'
  OBVIOUS
<1>3. n \in Nat /\ Once(s, p, n) /\ p \in Seq(1 .. n) /\ Len(p) \in Nat
  BY <1>1, LenProperties DEF LogInv, Once
<1>4. CASE Log!Accept \/ Log!Direct
  <2>1. n2 = n + 1 /\ ((p2 = Append(p, n + 1) /\ s2 = s) \/ (p2 = p /\ s2 = Append(s, n + 1)))
    <3>1. CASE Log!Accept
      <4>1. issued' = issued + 1 /\ batch' \o buffer' = Append(batch \o buffer, issued') /\ stored' = stored
        BY <3>1, Zenon DEF Log!Accept
      <4>2. QED
        BY <1>1, <1>2, <4>1
    <3>2. CASE Log!Direct
      <4>1. issued' = issued + 1 /\ batch' \o buffer' = batch \o buffer /\ stored' = Append(stored, issued')
        BY <3>2, Zenon DEF Log!Direct
      <4>2. QED
        BY <1>1, <1>2, <4>1
    <3>3. QED
      BY <1>4, <3>1, <3>2
  <2>2. n2 \in Nat /\ Once(s2, p2, n2)
    <3>1. Once(s, Append(p, n + 1), n + 1) /\ Once(Append(s, n + 1), p, n + 1)
      BY <1>3, OnceMore
    <3>2. CASE p2 = Append(p, n + 1) /\ s2 = s
      BY <1>3, <2>1, <3>1, <3>2
    <3>3. CASE p2 = p /\ s2 = Append(s, n + 1)
      BY <1>3, <2>1, <3>1, <3>3
    <3>4. QED
      BY <2>1, <3>2, <3>3
  <2>3. QED
    BY <1>2, <2>2 DEF LogInv
<1>5. CASE Log!Drop
  <2>1. PICK k \in 1 .. Len(p) :
          p2 = SubSeq(p, k + 1, Len(p)) /\ s2 \in {s, Append(s, Head(p))} /\ n2 = n
    BY <1>1, <1>2, <1>5 DEF Log!Drop
  <2>2. Once(s2, p2, n2)
    BY <1>3, <2>1, OnceLess
  <2>3. QED
    BY <1>2, <1>3, <2>1, <2>2 DEF LogInv
<1>6. CASE Log!Land
  <2>1. p # <<>> /\ p2 = Tail(p) /\ s2 = Append(s, Head(p)) /\ n2 = n
    BY <1>1, <1>2, <1>6 DEF Log!Land
  <2>2. 1 \in 1 .. Len(p) /\ Tail(p) = SubSeq(p, 1 + 1, Len(p))
    BY <1>3, <2>1, EmptySeq, HeadTailProperties
  <2>3. Once(s2, p2, n2)
    BY <1>3, <2>1, <2>2, OnceLess
  <2>4. QED
    BY <1>2, <1>3, <2>1, <2>3 DEF LogInv
<1>7. CASE UNCHANGED Log!vars
  BY <1>7 DEF Log!vars, LogInv
<1>8. QED
  BY <1>4, <1>5, <1>6, <1>7 DEF Log!Next

LEMMA LogStarts == Log!Init => LogInv
<1> SUFFICES ASSUME Log!Init PROVE LogInv
  OBVIOUS
<1>1. <<>> \in Seq(1 .. 0) /\ Len(<<>>) = 0
  BY EmptySeq
<1>2. Once(<<>>, <<>>, 0)
  BY <1>1 DEF Once
<1>3. QED
  BY <1>2 DEF Log!Init, LogInv

\* Bounds and places.
BufferBounds ==
    /\ issued <= MaxWrites /\ faults \in 0 .. MaxFaults /\ phase \in Phases
    /\ place[Timer] \in Places.timer /\ place[Stop] \in Places.stop
    /\ holder \in Flushers \cup {Nobody}

LEMMA BoundsStep == ASSUME BufferInv, BufferBounds, [BufferNext]_bufferVars PROVE BufferBounds'
<1>1. /\ issued \in Nat /\ Timer \in Flushers /\ Stop \in Flushers /\ Timer # Stop
      /\ Timer \notin Callers /\ Stop \notin Callers /\ place \in [Flushers -> AllPlaces]
      /\ MaxWrites \in Nat /\ MaxFaults \in Nat
  BY BufferAssumption DEF BufferInv, Types, Flushers, CallersApart, Timer, Stop
<1>2. Fault => faults' \in 0 .. MaxFaults
  BY <1>1 DEF BufferBounds, Fault
<1> USE <1>1, <1>2 DEF BufferBounds, Places, Phases
<1>3. ASSUME NEW c \in Callers, CallerNext(c) PROVE BufferBounds'
  <2>1. c # Timer /\ c # Stop
    OBVIOUS
  <2>2. CASE Write(c) \/ WriteDirect(c)
    BY <2>2 DEF Write, WriteDirect
  <2>3. CASE AskRead(c) \/ Read(c) \/ Cancel(c)
    BY <2>1, <2>3 DEF AskRead, Read, Cancel, Steps, CutOff, Nobody
  <2>4. QED
    BY <1>3, <2>2, <2>3 DEF CallerNext
<1>4. ASSUME NEW p \in Flushers, SwapOut(p) PROVE BufferBounds'
  BY <1>4 DEF SwapOut, Steps
<1>5. CASE Execute
  BY <1>5 DEF Execute
<1>6. ASSUME Commit \/ FlushFails PROVE BufferBounds'
  <2>1. PICK p \in Flushers :
          /\ place' = [place EXCEPT ![p] = place'[p]]
          /\ (p = Timer => place'[p] \in {"off", "sleep", "dead"})
          /\ (p = Stop => place'[p] = "off")
          /\ holder' = Nobody /\ UNCHANGED <<issued, phase>> /\ faults' \in 0 .. MaxFaults
    <3>1. CASE Commit
      <4>1. PICK p \in Flushers : /\ place' = [place EXCEPT ![p] = After(p)] /\ holder' = Nobody
                                  /\ UNCHANGED <<issued, phase, faults>>
        BY <3>1 DEF Commit, Steps
      <4>2. place'[p] = After(p)
        BY <1>1, <4>1
      <4>3. (p = Timer => After(p) \in {"off", "sleep", "dead"}) /\ (p = Stop => After(p) = "off")
        BY <1>1 DEF After
      <4>4. QED
        BY <4>1, <4>2, <4>3
    <3>2. CASE FlushFails
      <4> DEFINE to(p) == CASE p \in Callers -> "idle" [] p = Timer -> "dead" [] p = Stop -> "off"
      <4>1. PICK p \in Flushers : /\ place' = [place EXCEPT ![p] = to(p)] /\ holder' = Nobody
                                  /\ UNCHANGED <<issued, phase>> /\ Fault
        BY <3>2 DEF FlushFails, Steps
      <4>2. (p = Timer => to(p) \in {"off", "sleep", "dead"}) /\ (p = Stop => to(p) = "off")
        BY <1>1
      <4> HIDE DEF to
      <4>3. place'[p] = to(p)
        BY <1>1, <4>1
      <4>4. QED
        BY <4>1, <4>2, <4>3
    <3>3. QED
      BY <1>6, <3>1, <3>2
  <2>2. place'[Timer] \in {place[Timer], "off", "sleep", "dead"} /\ place'[Stop] \in {place[Stop], "off"}
    <3>1. CASE p = Timer
      BY <1>1, <2>1, <3>1
    <3>2. CASE p = Stop
      BY <1>1, <2>1, <3>2
    <3>3. CASE p # Timer /\ p # Stop
      BY <1>1, <2>1, <3>3
    <3>4. QED
      BY <3>1, <3>2, <3>3
  <2>3. QED
    BY <2>1, <2>2 DEF BufferBounds
<1>7. CASE TimerWakes \/ StopTasks \/ CloseDown
  BY <1>7 DEF TimerWakes, StopTasks, CloseDown, Steps, CutOff
<1>8. CASE FlushPhase \/ DrainPhase
  BY <1>8 DEF FlushPhase, DrainPhase, PhaseEnds, Steps, CutOff
<1>9. CASE UNCHANGED bufferVars
  BY <1>9 DEF bufferVars
<1>10. QED
  BY <1>3, <1>4, <1>5, <1>6, <1>7, <1>8, <1>9 DEF BufferNext, FlushNext, PhaseNext

LEMMA BufferTyped == ASSUME BufferInv, LogInv, BufferBounds PROVE BufferTypes
<1>1. PICK n : n = issued
  OBVIOUS
<1>2. n \in Nat /\ n <= MaxWrites /\ MaxWrites \in Nat /\ issued = n
  BY <1>1, BufferAssumption DEF LogInv, BufferBounds
<1>3. ASSUME NEW q \in Seq(1 .. n) PROVE q \in Seq(1 .. MaxWrites)
  <2>1. Len(q) \in Nat /\ \A i \in 1 .. Len(q) : q[i] \in 1 .. n
    BY ElementOfSeq, LenProperties
  <2>2. \A i \in 1 .. Len(q) : q[i] \in 1 .. MaxWrites
    BY <1>2, <2>1
  <2>3. q = [i \in 1 .. Len(q) |-> q[i]]
    BY LenProperties
  <2>4. q \in [1 .. Len(q) -> 1 .. MaxWrites]
    BY <2>2, <2>3
  <2>5. ASSUME NEW T, NEW m \in Nat, NEW r \in [1 .. m -> T] PROVE r \in Seq(T)
    BY SeqDef
  <2>6. QED
    BY <2>1, <2>4, <2>5
<1>4. batch \in Seq(Nat) /\ buffer \in Seq(Nat) /\ stored \in Seq(Nat)
  BY DEF BufferInv, Types
<1>5. PICK p : p = batch \o buffer
  OBVIOUS
<1>6. p \in Seq(1 .. n) /\ stored \in Seq(1 .. n) /\ Once(stored, p, n)
  BY <1>2, <1>5 DEF LogInv, Once
<1>7. batch \in Seq(1 .. n) /\ buffer \in Seq(1 .. n)
  <2>1. /\ Len(p) = Len(batch) + Len(buffer) /\ Len(batch) \in Nat /\ Len(buffer) \in Nat
        /\ \A i \in 1 .. Len(batch) + Len(buffer) :
              p[i] = IF i <= Len(batch) THEN batch[i] ELSE buffer[i - Len(batch)]
    BY <1>4, <1>5, ConcatProperties, LenProperties
  <2>2. \A i \in 1 .. Len(p) : p[i] \in 1 .. n
    BY <1>6, ElementOfSeq
  <2>3. ASSUME NEW i \in 1 .. Len(batch) PROVE batch[i] \in 1 .. n
    BY <2>1, <2>2
  <2>4. ASSUME NEW i \in 1 .. Len(buffer) PROVE buffer[i] \in 1 .. n
    <3>1. i + Len(batch) \in 1 .. Len(p) /\ ~(i + Len(batch) <= Len(batch)) /\ (i + Len(batch)) - Len(batch) = i
      BY <2>1
    <3>2. p[i + Len(batch)] = buffer[i]
      BY <2>1, <3>1
    <3>3. QED
      BY <2>2, <3>1, <3>2
  <2>5. batch = [i \in 1 .. Len(batch) |-> batch[i]] /\ buffer = [i \in 1 .. Len(buffer) |-> buffer[i]]
    BY <1>4, LenProperties
  <2>6. batch \in [1 .. Len(batch) -> 1 .. n] /\ buffer \in [1 .. Len(buffer) -> 1 .. n]
    BY <2>3, <2>4, <2>5
  <2>7. ASSUME NEW q, NEW m \in Nat, q \in [1 .. m -> 1 .. n] PROVE q \in Seq(1 .. n)
    BY <2>7, SeqDef
  <2>8. QED
    BY <2>1, <2>6, <2>7
<1>8. IsInjective(stored \o batch \o buffer)
  <2>1. IsInjective(stored \o p)
    BY <1>2, <1>6, OnceJoined
  <2>2. (stored \o batch) \o buffer = stored \o (batch \o buffer)
    BY <1>4, ConcatAssociative
  <2>3. QED
    BY <1>5, <2>1, <2>2
<1>9. /\ stored \in Seq(1 .. MaxWrites) /\ batch \in Seq(1 .. MaxWrites) /\ buffer \in Seq(1 .. MaxWrites)
      /\ holder = Nobody => batch = <<>>
  BY <1>3, <1>6, <1>7 DEF BufferInv, Locked
<1>10. \A c \in Callers : place[c] \in Places.idle /\ asked[c] \in 0 .. MaxWrites
  BY <1>2 DEF BufferInv, Types, Drained
<1>11. QED
  BY <1>2, <1>8, <1>9, <1>10 DEF BufferTypes, BufferBounds

\* No statement is in the database or in memory twice, only the flush that
\* has the lock has a batch, and the places of the callers, the timer and the
\* shutdown are theirs (api/db/core.py:275, api/lifespan.py).
THEOREM BufferTypeCorrect == BufferSpec => []BufferTypes
<1>1. BufferInit => LogInv /\ BufferBounds
  <2> SUFFICES ASSUME BufferInit PROVE LogInv /\ BufferBounds
    OBVIOUS
  <2>1. Log!Init
    BY ConcatEmptySeq, EmptySeq DEF BufferInit, Log!Init
  <2>2. BufferBounds
    BY BufferAssumption DEF BufferInit, BufferBounds, Places, Phases, Flushers, Timer, Stop
  <2>3. QED
    BY <2>1, <2>2, LogStarts
<1>2. BufferInv /\ LogInv /\ BufferBounds /\ [BufferNext]_bufferVars => LogInv' /\ BufferBounds'
  <2> SUFFICES ASSUME BufferInv, LogInv, BufferBounds, [BufferNext]_bufferVars PROVE LogInv' /\ BufferBounds'
    OBVIOUS
  <2>1. [Log!Next]_(Log!vars)
    <3>1. ASSUME UNCHANGED bufferVars PROVE UNCHANGED Log!vars
      BY <3>1 DEF bufferVars, Log!vars
    <3>2. QED
      BY <3>1, StepRefines
  <2>2. QED
    BY <2>1, LogStep, BoundsStep
<1>3. BufferInv /\ LogInv /\ BufferBounds => BufferTypes
  BY BufferTyped
<1>4. QED
  BY <1>1, <1>2, <1>3, BufferInvariance, PTL DEF BufferSpec

-----------------------------------------------------------------------------
(* The events of a task.  Each client has a past, the events it was sent,  *)
(* and a future, those that wait in its replay or in its queue.  All three *)
(* ascend, the future lies beyond the past, and nothing lies beyond the    *)
(* events that went through the hub: the next event fits any of them.      *)

Ascends(s) == \A i, j \in 1 .. Len(s) : i < j => s[i] < s[j]
UpTo(s, d) == \A i \in 1 .. Len(s) : 0 < s[i] /\ s[i] <= d
Beyond(g, r) == \A i \in 1 .. Len(g), j \in 1 .. Len(r) : g[i] < r[j]

\* A list of event numbers that went through the hub, in order.
Numbered(s, d) == s \in Seq(Nat) /\ Ascends(s) /\ UpTo(s, d)

Connections == [at : {"off", "replay", "live"}, replay : Seq(Nat), queue : Seq(Nat), missed : BOOLEAN, connects : Nat]

EventsTyped ==
    /\ published \in 0 .. Len(Script) /\ delivered \in 0 .. published
    /\ Len(history) <= Keep
    /\ watcher \in [Watchers -> Connections]
    /\ got \in [Watchers -> Seq(Nat)]

FlowOK(g, w, d) ==
    /\ Numbered(g, d) /\ Numbered(w.replay, d) /\ Numbered(w.queue, d)
    /\ Len(w.queue) <= MaxQueue /\ w.connects <= MaxConnects
    /\ Beyond(g, w.replay) /\ Beyond(g, w.queue)
    /\ w.at = "live" \/ w.queue = <<>>
    /\ w.at = "replay" \/ w.replay = <<>>

EventsInv ==
    /\ EventsTyped
    /\ Numbered(history, delivered)
    /\ \A c \in Watchers : FlowOK(got[c], watcher[c], delivered)

LEMMA NothingNumbered ==
    ASSUME NEW d \in Nat PROVE Numbered(<<>>, d) /\ \A s : Beyond(s, <<>>) /\ Beyond(<<>>, s)
BY EmptySeq DEF Numbered, Ascends, UpTo, Beyond

LEMMA StillNumbered ==
    ASSUME NEW d \in Nat, NEW s, Numbered(s, d) PROVE Numbered(s, d + 1)
<1>1. \A i \in 1 .. Len(s) : s[i] \in Nat
  BY ElementOfSeq DEF Numbered
<1>2. QED
  BY <1>1 DEF Numbered, UpTo

LEMMA NextNumbered ==
    ASSUME NEW d \in Nat, NEW s, Numbered(s, d), NEW e \in 1 .. d, \A i \in 1 .. Len(s) : s[i] < e
    PROVE  Numbered(Append(s, e), d)
<1>1. s \in Seq(Nat) /\ Ascends(s) /\ UpTo(s, d)
  BY DEF Numbered
<1>2. /\ Append(s, e) \in Seq(Nat) /\ Len(Append(s, e)) = Len(s) + 1
      /\ \A i \in 1 .. Len(s) : Append(s, e)[i] = s[i]
      /\ Append(s, e)[Len(s) + 1] = e
  BY <1>1, AppendProperties, e \in Nat
<1>3. Len(s) \in Nat /\ \A i \in 1 .. Len(s) : s[i] \in Nat
  BY <1>1, ElementOfSeq, LenProperties
<1>4. UpTo(Append(s, e), d)
  BY <1>1, <1>2, <1>3 DEF UpTo
<1> DEFINE t == Append(s, e)
<1>5. Ascends(t)
  <2> HIDE DEF t
  <2>1. SUFFICES ASSUME NEW i \in 1 .. Len(t), NEW j \in 1 .. Len(t), i < j PROVE t[i] < t[j]
    BY <2>1 DEF Ascends
  <2>2. i \in 1 .. Len(s) /\ t[i] = s[i] /\ s[i] \in Nat /\ s[i] < e
    BY <1>2, <1>3, <2>1 DEF t
  <2>3. CASE j = Len(s) + 1
    BY <1>2, <2>2, <2>3 DEF t
  <2>4. CASE j \in 1 .. Len(s)
    BY <1>1, <1>2, <2>1, <2>2, <2>4 DEF t, Ascends
  <2>5. QED
    BY <1>2, <1>3, <2>3, <2>4 DEF t
<1>6. QED
  BY <1>2, <1>4, <1>5 DEF Numbered

\* Every part of such a list is one.
LEMMA PartNumbered ==
    ASSUME NEW d \in Nat, NEW s, Numbered(s, d), NEW m \in Int, m >= 1
    PROVE  LET t == SubSeq(s, m, Len(s))
           IN  Numbered(t, d) /\ \A i \in 1 .. Len(t) : m + i - 1 \in m .. Len(s) /\ t[i] = s[m + i - 1]
<1> DEFINE t == SubSeq(s, m, Len(s))
<1>1. s \in Seq(Nat) /\ Ascends(s) /\ UpTo(s, d) /\ Len(s) \in Nat
  BY LenProperties DEF Numbered
<1>2. \A i \in 1 .. Len(s) : s[i] \in Nat
  BY <1>1, ElementOfSeq
<1>3. \A i \in m .. Len(s) : s[i] \in Nat
  BY <1>1, <1>2
<1>4. /\ t \in Seq(Nat)
      /\ Len(t) = IF m <= Len(s) THEN Len(s) - m + 1 ELSE 0
      /\ \A i \in 1 .. Len(s) - m + 1 : t[i] = s[m + i - 1]
  BY <1>1, <1>3, SubSeqProperties, Len(s) \in Int
<1> HIDE DEF t
<1>5. \A i \in 1 .. Len(t) : m + i - 1 \in m .. Len(s) /\ t[i] = s[m + i - 1]
  BY <1>1, <1>4
<1>6. Ascends(t)
  <2>1. SUFFICES ASSUME NEW i \in 1 .. Len(t), NEW j \in 1 .. Len(t), i < j PROVE t[i] < t[j]
    BY <2>1 DEF Ascends
  <2>2. t[i] = s[m + i - 1] /\ t[j] = s[m + j - 1]
    BY <1>5
  <2>3. m + i - 1 \in 1 .. Len(s) /\ m + j - 1 \in 1 .. Len(s) /\ m + i - 1 < m + j - 1
    BY <1>1, <1>5, <2>1
  <2>4. s[m + i - 1] < s[m + j - 1]
    BY <1>1, <2>3 DEF Ascends
  <2>5. QED
    BY <2>2, <2>4
<1>7. UpTo(t, d)
  <2>1. SUFFICES ASSUME NEW i \in 1 .. Len(t) PROVE 0 < t[i] /\ t[i] <= d
    BY <2>1 DEF UpTo
  <2>2. t[i] = s[m + i - 1] /\ m + i - 1 \in 1 .. Len(s)
    BY <1>1, <1>5
  <2>3. 0 < s[m + i - 1] /\ s[m + i - 1] <= d
    BY <1>1, <2>2 DEF UpTo
  <2>4. QED
    BY <2>2, <2>3
<1>8. Numbered(t, d) /\ \A i \in 1 .. Len(t) : m + i - 1 \in m .. Len(s) /\ t[i] = s[m + i - 1]
  BY <1>4, <1>5, <1>6, <1>7 DEF Numbered
<1>9. QED
  BY <1>8 DEF t

LEMMA KeptNumbered ==
    ASSUME NEW d \in Nat, NEW s, Numbered(s, d) PROVE Numbered(Kept(s), d) /\ Len(Kept(s)) <= Keep
<1>1. s \in Seq(Nat) /\ Len(s) \in Nat /\ Keep \in Nat \ {0}
  BY LenProperties, EventsAssumption DEF Numbered
<1>2. CASE Len(s) > Keep
  <2> DEFINE m == Len(s) - Keep + 1
             t == SubSeq(s, m, Len(s))
  <2>1. m \in Int /\ m >= 1 /\ m <= Len(s) /\ Kept(s) = t
    BY <1>1, <1>2 DEF Kept
  <2>2. \A i \in m .. Len(s) : s[i] \in Nat
    BY <1>1, <2>1, ElementOfSeq
  <2>3. Len(t) = Len(s) - m + 1
    BY <1>1, <2>1, <2>2, SubSeqProperties
  <2>4. Numbered(t, d)
    BY <2>1, PartNumbered
  <2>5. QED
    BY <1>1, <2>1, <2>3, <2>4
<1>3. CASE ~(Len(s) > Keep)
  BY <1>1, <1>3 DEF Kept
<1>4. QED
  BY <1>2, <1>3

LEMMA FirstOf == ASSUME NEW T \in SUBSET Nat, T # {} PROVE Min(T) \in T /\ \A n \in T : Min(T) <= n
<1> DEFINE R == {ss \in Nat \X Nat : ss[1] < ss[2]}
<1>1. IsWellFoundedOn(R, Nat)
  BY NatLessThanWellFounded, Zenon DEF OpToRel
<1> HIDE DEF R
<1>2. PICK m \in T : \A n \in T : <<n, m>> \notin R
  BY <1>1, WFMin, Zenon
<1>3. ASSUME NEW n \in T PROVE m <= n
  <2>1. m \in Nat /\ n \in Nat /\ <<n, m>> \notin R
    BY <1>2
  <2>2. ~(n < m)
    BY <2>1 DEF R
  <2>3. QED
    BY <2>1, <2>2
<1>4. \E x \in T : \A y \in T : x <= y
  BY <1>3
<1>5. QED
  BY <1>4, Zenon DEF Min

\* What is stored after n are events beyond n.
LEMMA StoredBeyond ==
    ASSUME NEW d \in Nat, NEW b, Numbered(b, d), NEW n \in Nat
    PROVE  Numbered(StoredAfter(b, n), d) /\ \A i \in 1 .. Len(StoredAfter(b, n)) : n < StoredAfter(b, n)[i]
<1> DEFINE later == {i \in 1 .. Len(b) : b[i] > n}
<1>1. b \in Seq(Nat) /\ Ascends(b) /\ Len(b) \in Nat /\ \A i \in 1 .. Len(b) : b[i] \in Nat
  BY LenProperties, ElementOfSeq DEF Numbered
<1>2. CASE later = {}
  <2>1. StoredAfter(b, n) = <<>>
    BY <1>2 DEF StoredAfter
  <2>2. QED
    BY <2>1, NothingNumbered, EmptySeq
<1>3. CASE later # {}
  <2>1. StoredAfter(b, n) = SubSeq(b, Min(later), Len(b))
    BY <1>3 DEF StoredAfter
  <2>2. later \in SUBSET Nat /\ \A i \in later : i \in 1 .. Len(b) /\ b[i] > n
    BY <1>1
  <2> HIDE DEF later
  <2>3. Min(later) \in later
    BY <1>3, <2>2, FirstOf
  <2> DEFINE m == Min(later)
             t == SubSeq(b, m, Len(b))
  <2>4. m \in 1 .. Len(b) /\ b[m] > n
    BY <2>2, <2>3
  <2> HIDE DEF m
  <2>5. Numbered(t, d) /\ \A i \in 1 .. Len(t) : m + i - 1 \in m .. Len(b) /\ t[i] = b[m + i - 1]
    BY <1>1, <2>4, PartNumbered
  <2>6. Len(t) \in Nat
    BY <2>5, LenProperties DEF Numbered
  <2> HIDE DEF t
  <2>7. ASSUME NEW i \in 1 .. Len(t) PROVE n < t[i]
    <3>1. m + i - 1 \in m .. Len(b) /\ t[i] = b[m + i - 1]
      BY <2>5
    <3> DEFINE k == m + i - 1
    <3>2. k \in 1 .. Len(b) /\ (k = m \/ m < k)
      BY <1>1, <2>4, <3>1
    <3> HIDE DEF k
    <3>3. b[m] <= b[k] /\ b[k] \in Nat /\ b[m] \in Nat
      <4>1. b[k] \in Nat /\ b[m] \in Nat
        BY <1>1, <2>4, <3>2
      <4>2. m < k => b[m] < b[k]
        BY <1>1, <2>4, <3>2 DEF Ascends
      <4>3. QED
        BY <3>2, <4>1, <4>2
    <3>4. n < b[k]
      BY <2>4, <3>3
    <3>5. QED
      BY <3>1, <3>4 DEF k
  <2>8. QED
    BY <2>1, <2>5, <2>7 DEF m, t
<1>4. QED
  BY <1>2, <1>3

\* The next event fits the future of a client,
LEMMA NextBeyond ==
    ASSUME NEW d \in Nat, NEW g, Numbered(g, d), NEW r, Numbered(r, d), Beyond(g, r)
    PROVE  Numbered(Append(r, d + 1), d + 1) /\ Beyond(g, Append(r, d + 1))
<1>1. Numbered(r, d + 1) /\ g \in Seq(Nat) /\ r \in Seq(Nat) /\ UpTo(g, d) /\ UpTo(r, d)
  BY StillNumbered DEF Numbered
<1>2. /\ \A i \in 1 .. Len(g) : g[i] \in Nat /\ g[i] < d + 1
      /\ \A i \in 1 .. Len(r) : r[i] \in Nat /\ r[i] < d + 1
  BY <1>1, ElementOfSeq, SMTT(30) DEF UpTo
<1>3. Numbered(Append(r, d + 1), d + 1)
  <2> DEFINE e == d + 1
  <2>1. e \in Nat /\ e \in 1 .. e /\ Numbered(r, e) /\ \A i \in 1 .. Len(r) : r[i] < e
    BY <1>1, <1>2
  <2> HIDE DEF e
  <2>2. Numbered(Append(r, e), e)
    BY <2>1, NextNumbered
  <2>3. QED
    BY <2>2 DEF e
<1>4. /\ Len(Append(r, d + 1)) = Len(r) + 1
      /\ \A i \in 1 .. Len(r) : Append(r, d + 1)[i] = r[i]
      /\ Append(r, d + 1)[Len(r) + 1] = d + 1
  BY <1>1, AppendProperties, d + 1 \in Nat
<1>5. Len(r) \in Nat
  BY <1>1, LenProperties
<1> DEFINE t == Append(r, d + 1)
<1>6. Beyond(g, t)
  <2> HIDE DEF t
  <2>1. SUFFICES ASSUME NEW i \in 1 .. Len(g), NEW j \in 1 .. Len(t) PROVE g[i] < t[j]
    BY <2>1 DEF Beyond
  <2>2. CASE j = Len(r) + 1
    BY <1>2, <1>4, <2>2 DEF t
  <2>3. CASE j \in 1 .. Len(r)
    BY <1>4, <2>3 DEF t, Beyond
  <2>4. QED
    BY <1>4, <1>5, <2>2, <2>3 DEF t
<1>7. QED
  BY <1>3, <1>6

\* and the first of the future becomes the last of the past.
LEMMA SendKeepsOrder ==
    ASSUME NEW d \in Nat, NEW g, Numbered(g, d), NEW r, Numbered(r, d), Beyond(g, r), r # <<>>
    PROVE  Numbered(Append(g, Head(r)), d) /\ Numbered(Tail(r), d) /\ Beyond(Append(g, Head(r)), Tail(r))
<1> DEFINE h == Head(r)
           t == Tail(r)
           p == Append(g, h)
<1>1. g \in Seq(Nat) /\ r \in Seq(Nat) /\ Ascends(r) /\ UpTo(r, d) /\ Len(r) \in Nat \ {0}
  BY LenProperties, EmptySeq DEF Numbered
<1>2. h = r[1] /\ h \in Nat /\ 1 \in 1 .. Len(r)
  BY <1>1, HeadTailProperties, ElementOfSeq
<1>3. t \in Seq(Nat) /\ Len(t) = Len(r) - 1 /\ \A i \in 1 .. Len(t) : t[i] = r[i + 1]
  BY <1>1, HeadTailProperties
<1> HIDE DEF h, t
<1>4. h \in 1 .. d /\ \A i \in 1 .. Len(g) : g[i] < h
  BY <1>2 , <1>1 DEF UpTo, Beyond
<1>5. Numbered(p, d)
  BY <1>4, NextNumbered
<1>6. \A i \in 1 .. Len(t) : i + 1 \in 1 .. Len(r) /\ 1 < i + 1 /\ t[i] = r[i + 1]
  BY <1>1, <1>3
<1>7. Numbered(t, d)
  <2>1. UpTo(t, d)
    <3>1. SUFFICES ASSUME NEW i \in 1 .. Len(t) PROVE 0 < t[i] /\ t[i] <= d
      BY <3>1 DEF UpTo
    <3>2. QED
      BY <1>1, <1>6 DEF UpTo
  <2>2. Ascends(t)
    <3>1. SUFFICES ASSUME NEW i \in 1 .. Len(t), NEW j \in 1 .. Len(t), i < j PROVE t[i] < t[j]
      BY <3>1 DEF Ascends
    <3>2. i + 1 < j + 1
      BY <3>1
    <3>3. r[i + 1] < r[j + 1]
      BY <1>1, <1>6, <3>2 DEF Ascends
    <3>4. QED
      BY <1>6, <3>3
  <2>3. QED
    BY <1>3, <2>1, <2>2 DEF Numbered
<1>8. Beyond(p, t)
  <2>1. Len(p) = Len(g) + 1 /\ p[Len(g) + 1] = h /\ \A i \in 1 .. Len(g) : p[i] = g[i]
    BY <1>1, <1>2, AppendProperties
  <2>2. Len(g) \in Nat
    BY <1>1, LenProperties
  <2> HIDE DEF p
  <2>3. SUFFICES ASSUME NEW i \in 1 .. Len(p), NEW j \in 1 .. Len(t) PROVE p[i] < t[j]
    BY <2>3 DEF Beyond
  <2>4. j + 1 \in 1 .. Len(r) /\ t[j] = r[j + 1]
    BY <1>6
  <2>5. CASE i = Len(g) + 1
    <3>1. r[1] < r[j + 1]
      BY <1>1, <1>2, <1>6 DEF Ascends
    <3>2. QED
      BY <1>2, <2>1, <2>4, <2>5, <3>1
  <2>6. CASE i \in 1 .. Len(g)
    <3>1. g[i] < r[j + 1]
      BY <2>4, <2>6 DEF Beyond
    <3>2. QED
      BY <2>1, <2>4, <2>6, <3>1
  <2>7. QED
    BY <2>1, <2>2, <2>5, <2>6
<1>9. QED
  BY <1>5, <1>7, <1>8 DEF h, t

\* What is stored after the last event a client has is its future.
LEMMA ResumesBeyond ==
    ASSUME NEW d \in Nat, NEW b, Numbered(b, d), NEW g, Numbered(g, d), g # <<>>
    PROVE  Numbered(StoredAfter(b, Last(g)), d) /\ Beyond(g, StoredAfter(b, Last(g)))
<1> DEFINE n == Last(g)
           t == StoredAfter(b, n)
<1>1. g \in Seq(Nat) /\ Ascends(g) /\ Len(g) \in Nat \ {0}
  BY LenProperties, EmptySeq DEF Numbered
<1>2. n = g[Len(g)] /\ n \in Nat /\ \A i \in 1 .. Len(g) : g[i] \in Nat
  BY <1>1, ElementOfSeq DEF Last
<1>3. Numbered(t, d) /\ \A i \in 1 .. Len(t) : n < t[i]
  BY <1>2, StoredBeyond
<1>4. t \in Seq(Nat) /\ \A i \in 1 .. Len(t) : t[i] \in Nat
  BY <1>3, ElementOfSeq DEF Numbered
<1> HIDE DEF n, t
<1>5. \A i \in 1 .. Len(g) : g[i] <= n
  <2>1. SUFFICES ASSUME NEW i \in 1 .. Len(g) PROVE g[i] <= n
    OBVIOUS
  <2>2. i < Len(g) => g[i] < g[Len(g)]
    BY <1>1 DEF Ascends
  <2>3. i = Len(g) \/ i < Len(g)
    BY <1>1
  <2>4. QED
    BY <1>2, <2>2, <2>3
<1>6. Beyond(g, t)
  <2>1. SUFFICES ASSUME NEW i \in 1 .. Len(g), NEW j \in 1 .. Len(t) PROVE g[i] < t[j]
    BY <2>1 DEF Beyond
  <2>2. g[i] <= n /\ g[i] \in Nat
    BY <1>2, <1>5
  <2>3. n < t[j] /\ t[j] \in Nat
    BY <1>3, <1>4
  <2>4. QED
    BY <1>2, <2>2, <2>3
<1>7. QED
  BY <1>3, <1>6 DEF n, t

-----------------------------------------------------------------------------
(* The steps of the hub and of the streams keep the invariant.             *)

LEMMA EventsStart == EventsInit => EventsInv
<1> SUFFICES ASSUME EventsInit PROVE EventsInv
  OBVIOUS
<1>1. NoStream \in Connections /\ <<>> \in Seq(Nat)
  BY EmptySeq DEF NoStream, Connections
<1>2. EventsTyped
  BY <1>1, EventsAssumption DEF EventsInit, EventsTyped
<1>3. \A c \in Watchers : watcher[c] = NoStream /\ got[c] = <<>>
  BY DEF EventsInit
<1>4. Numbered(<<>>, 0) /\ Beyond(<<>>, <<>>)
  BY NothingNumbered
<1>5. delivered = 0 /\ history = <<>>
  BY DEF EventsInit
<1>6. \A c \in Watchers : FlowOK(got[c], watcher[c], delivered)
  BY <1>3, <1>4, <1>5, EventsAssumption DEF FlowOK, NoStream
<1>7. QED
  BY <1>2, <1>4, <1>5, <1>6 DEF EventsInv

\* What a change of one field of a stream makes of it.
Stream(at, replay, queue, missed, connects) ==
    [at |-> at, replay |-> replay, queue |-> queue, missed |-> missed, connects |-> connects]

LEMMA StreamFields ==
    ASSUME NEW s \in Connections
    PROVE  /\ s = Stream(s.at, s.replay, s.queue, s.missed, s.connects)
           /\ s.at \in {"off", "replay", "live"} /\ s.replay \in Seq(Nat) /\ s.queue \in Seq(Nat)
           /\ s.missed \in BOOLEAN /\ s.connects \in Nat
BY DEF Connections, Stream

LEMMA StreamType ==
    ASSUME NEW a \in {"off", "replay", "live"}, NEW r, NEW q, NEW m \in BOOLEAN, NEW n \in Nat,
           NEW g, NEW d \in Nat,
           Numbered(g, d), Numbered(r, d), Numbered(q, d), Beyond(g, r), Beyond(g, q),
           a = "live" \/ q = <<>>, a = "replay" \/ r = <<>>, Len(q) <= MaxQueue, n <= MaxConnects
    PROVE  Stream(a, r, q, m, n) \in Connections /\ FlowOK(g, Stream(a, r, q, m, n), d)
<1>1. r \in Seq(Nat) /\ q \in Seq(Nat)
  BY DEF Numbered
<1>2. QED
  BY <1>1 DEF Connections, Stream, FlowOK

LEMMA StreamChanges ==
    ASSUME NEW s \in Connections, NEW x
    PROVE  /\ [s EXCEPT !.queue = x] = Stream(s.at, s.replay, x, s.missed, s.connects)
           /\ [s EXCEPT !.replay = x] = Stream(s.at, x, s.queue, s.missed, s.connects)
           /\ [s EXCEPT !.at = x] = Stream(x, s.replay, s.queue, s.missed, s.connects)
           /\ [s EXCEPT !.missed = x] = Stream(s.at, s.replay, s.queue, x, s.connects)
           /\ [s EXCEPT !.connects = x] = Stream(s.at, s.replay, s.queue, s.missed, x)
<1>1. s = [at |-> s.at, replay |-> s.replay, queue |-> s.queue, missed |-> s.missed, connects |-> s.connects]
  BY StreamFields, Zenon DEF Stream
<1>2. PICK a, r, q, m, n : s = [at |-> a, replay |-> r, queue |-> q, missed |-> m, connects |-> n]
  BY <1>1, Zenon
<1>3. s.at = a /\ s.replay = r /\ s.queue = q /\ s.missed = m /\ s.connects = n
  BY <1>2
<1>4. [s EXCEPT !.queue = x] = Stream(a, r, x, m, n)
  BY <1>2 DEF Stream
<1>5. [s EXCEPT !.replay = x] = Stream(a, x, q, m, n)
  BY <1>2 DEF Stream
<1>6. [s EXCEPT !.at = x] = Stream(x, r, q, m, n)
  BY <1>2 DEF Stream
<1>7. [s EXCEPT !.missed = x] = Stream(a, r, q, x, n)
  BY <1>2 DEF Stream
<1>8. [s EXCEPT !.connects = x] = Stream(a, r, q, m, x)
  BY <1>2 DEF Stream
<1>9. QED
  BY <1>3, <1>4, <1>5, <1>6, <1>7, <1>8, Zenon

\* A stream that is off opens with a replay.
LEMMA StreamOpens ==
    ASSUME NEW s \in Connections, NEW x, NEW w, w = [s EXCEPT !.at = "replay", !.connects = @ + 1, !.replay = x]
    PROVE  w = Stream("replay", x, s.queue, s.missed, s.connects + 1)
<1>1. s = [at |-> s.at, replay |-> s.replay, queue |-> s.queue, missed |-> s.missed, connects |-> s.connects]
  BY StreamFields, Zenon DEF Stream
<1>2. PICK a, r, q, m, n : s = [at |-> a, replay |-> r, queue |-> q, missed |-> m, connects |-> n]
  BY <1>1, Zenon
<1>3. s.queue = q /\ s.missed = m /\ s.connects = n
  BY <1>2
<1>4. [s EXCEPT !.at = "replay"] = [at |-> "replay", replay |-> r, queue |-> q, missed |-> m, connects |-> n]
  BY <1>2
<1>5. [[at |-> "replay", replay |-> r, queue |-> q, missed |-> m, connects |-> n] EXCEPT !.connects = n + 1]
      = [at |-> "replay", replay |-> r, queue |-> q, missed |-> m, connects |-> n + 1]
  OBVIOUS
<1>6. [[at |-> "replay", replay |-> r, queue |-> q, missed |-> m, connects |-> n + 1] EXCEPT !.replay = x]
      = Stream("replay", x, q, m, n + 1)
  BY DEF Stream
<1>7. QED
  BY <1>3, <1>4, <1>5, <1>6, Zenon

\* A step of one client: it is enough to look at that one.
LEMMA OneStream ==
    ASSUME EventsInv, NEW c \in Watchers, NEW w \in Connections, NEW g \in Seq(Nat),
           watcher' = [watcher EXCEPT ![c] = w], got' = [got EXCEPT ![c] = g],
           FlowOK(g, w, delivered), delivered' = delivered, published' = published,
           Numbered(history', delivered), Len(history') <= Keep
    PROVE  EventsInv'
<1>1. EventsTyped /\ \A x \in Watchers : FlowOK(got[x], watcher[x], delivered)
  BY DEF EventsInv
<1>2. EventsTyped'
  BY <1>1 DEF EventsTyped
<1>3. \A x \in Watchers : /\ watcher'[x] = IF x = c THEN w ELSE watcher[x]
                          /\ got'[x] = IF x = c THEN g ELSE got[x]
  BY <1>1 DEF EventsTyped
<1>4. ASSUME NEW x \in Watchers PROVE FlowOK(got'[x], watcher'[x], delivered)
  <2>1. CASE x = c
    BY <1>3, <2>1, Zenon
  <2>2. CASE x # c
    BY <1>1, <1>3, <2>2, Zenon
  <2>3. QED
    BY <2>1, <2>2
<1>5. QED
  BY <1>2, <1>4 DEF EventsInv

\* hub.publish: one more event in the history and in the queues.
LEMMA DeliverOK == ASSUME EventsInv, Deliver PROVE EventsInv'
<1> DEFINE d == delivered
<1>1. /\ d \in Nat /\ delivered' = d + 1 /\ got' = got /\ Numbered(history, d)
      /\ published' = published /\ published \in 0 .. Len(Script) /\ d < published
  BY DEF EventsInv, EventsTyped, Deliver
<1>2. \A c \in Watchers : watcher[c] \in Connections /\ got[c] \in Seq(Nat) /\ FlowOK(got[c], watcher[c], d)
  BY DEF EventsInv, EventsTyped
<1>3. watcher' = [c \in Watchers |-> Pushed(watcher[c], d + 1)] /\ history' = Kept(Append(history, d + 1))
  BY DEF Deliver
<1> HIDE DEF d
<1>4. Numbered(history', d + 1) /\ Len(history') <= Keep
  <2>1. Beyond(<<>>, history) /\ Numbered(<<>>, d)
    BY <1>1, NothingNumbered
  <2>2. Numbered(Append(history, d + 1), d + 1)
    BY <1>1, <2>1, NextBeyond
  <2>3. QED
    BY <1>1, <1>3, <2>2, KeptNumbered, d + 1 \in Nat
<1>5. ASSUME NEW c \in Watchers
      PROVE  watcher'[c] \in Connections /\ FlowOK(got'[c], watcher'[c], d + 1)
  <2> DEFINE s == watcher[c]
             g == got[c]
  <2>1. s \in Connections /\ FlowOK(g, s, d) /\ watcher'[c] = Pushed(s, d + 1) /\ got'[c] = g
    BY <1>1, <1>2, <1>3
  <2> HIDE DEF s, g
  <2>2. /\ Numbered(g, d + 1) /\ Numbered(s.replay, d + 1) /\ Numbered(s.queue, d + 1)
        /\ Beyond(g, s.replay) /\ Beyond(g, s.queue)
    BY <1>1, <2>1, StillNumbered DEF FlowOK
  <2>3. CASE s.at # "live"
    <3>1. Pushed(s, d + 1) = s
      BY <2>3 DEF Pushed
    <3>2. FlowOK(g, s, d + 1)
      BY <2>1, <2>2 DEF FlowOK
    <3>3. QED
      BY <2>1, <3>1, <3>2
  <2>4. CASE s.at = "live" /\ Len(s.queue) < MaxQueue
    <3> DEFINE q == Append(s.queue, d + 1)
               w == Stream(s.at, s.replay, q, s.missed, s.connects)
    <3>1. Pushed(s, d + 1) = [s EXCEPT !.queue = q]
      BY <2>4 DEF Pushed
    <3>2. Numbered(q, d + 1) /\ Beyond(g, q) /\ Len(q) <= MaxQueue /\ s.connects <= MaxConnects
      <4>1. Numbered(q, d + 1) /\ Beyond(g, q)
        BY <1>1, <2>1, NextBeyond DEF FlowOK
      <4>2. Len(q) = Len(s.queue) + 1 /\ Len(s.queue) \in Nat
        BY <2>1, StreamFields
      <4>3. QED
        BY <2>1, <2>4, <4>1, <4>2, EventsAssumption DEF FlowOK
    <3> HIDE DEF q
    <3>3. [s EXCEPT !.queue = q] = w
      BY <2>1, StreamChanges, Zenon
    <3>4. s.replay = <<>>
      BY <2>1, <2>4 DEF FlowOK
    <3>5. w \in Connections /\ FlowOK(g, w, d + 1)
      <4>1. /\ s.at \in {"off", "replay", "live"} /\ s.replay \in Seq(Nat) /\ q \in Seq(Nat)
            /\ s.missed \in BOOLEAN /\ s.connects \in Nat
        BY <2>1, <3>2, StreamFields DEF Numbered
      <4>2. QED
        BY <1>1, <2>2, <2>4, <3>2, <3>4, <4>1, StreamType, d + 1 \in Nat
    <3>6. QED
      BY <2>1, <3>1, <3>3, <3>5, Zenon
  <2>5. CASE s.at = "live" /\ ~(Len(s.queue) < MaxQueue)
    <3> DEFINE w == Stream(s.at, s.replay, s.queue, TRUE, s.connects)
    <3>1. Pushed(s, d + 1) = [s EXCEPT !.missed = TRUE]
      BY <2>5 DEF Pushed
    <3>2. [s EXCEPT !.missed = TRUE] = w
      BY <2>1, StreamChanges, Zenon
    <3>3. s.replay = <<>> /\ Len(s.queue) <= MaxQueue /\ s.connects <= MaxConnects
      BY <2>1, <2>5 DEF FlowOK
    <3>4. w \in Connections /\ FlowOK(g, w, d + 1)
      <4>1. /\ s.at \in {"off", "replay", "live"} /\ s.replay \in Seq(Nat) /\ s.queue \in Seq(Nat)
            /\ TRUE \in BOOLEAN /\ s.connects \in Nat
        BY <2>1, StreamFields
      <4>2. QED
        BY <1>1, <2>2, <2>5, <3>3, <4>1, StreamType, d + 1 \in Nat
    <3>5. QED
      BY <2>1, <3>1, <3>2, <3>4, Zenon
  <2>6. QED
    BY <2>3, <2>4, <2>5
<1>6. EventsTyped'
  <2>1. watcher' \in [Watchers -> Connections]
    BY <1>3, <1>5
  <2>2. got' \in [Watchers -> Seq(Nat)]
    BY <1>1 DEF EventsInv, EventsTyped
  <2>3. QED
    BY <1>1, <1>4, <2>1, <2>2 DEF EventsTyped
<1>7. QED
  BY <1>1, <1>4, <1>5, <1>6 DEF EventsInv

LEMMA ConnectOK == ASSUME EventsInv, NEW c \in Watchers, Connect(c) PROVE EventsInv'
<1> DEFINE d == delivered
           s == watcher[c]
<1>1. d \in Nat /\ s \in Connections /\ got[c] \in Seq(Nat) /\ FlowOK(got[c], s, d) /\ Numbered(history, d)
  BY DEF EventsInv, EventsTyped
<1>2. watcher \in [Watchers -> Connections] /\ got \in [Watchers -> Seq(Nat)]
  BY DEF EventsInv, EventsTyped
<1>3. s.at = "off" /\ published' = published /\ delivered' = d /\ history' = history
  BY DEF Connect
<1>4. PICK resume \in BOOLEAN :
        /\ resume => got[c] # <<>>
        /\ got' = [got EXCEPT ![c] = IF resume THEN @ ELSE <<>>]
        /\ watcher' = [watcher EXCEPT ![c].at = "replay", ![c].connects = @ + 1,
                          ![c].replay = StoredAfter(history, IF resume THEN Last(got[c]) ELSE 0)]
  BY Zenon DEF Connect
<1> DEFINE g == IF resume THEN got[c] ELSE <<>>
           r == StoredAfter(history, IF resume THEN Last(got[c]) ELSE 0)
<1>5. Numbered(g, d) /\ Numbered(r, d) /\ Beyond(g, r)
  <2>1. CASE resume
    BY <1>1, <1>4, <2>1, ResumesBeyond DEF FlowOK
  <2>2. CASE ~resume
    BY <1>1, <2>2, StoredBeyond, NothingNumbered
  <2>3. QED
    BY <2>1, <2>2
<1>6. got' = [got EXCEPT ![c] = g]
  BY <1>2, <1>4
<1> HIDE DEF g
<1>7. watcher' = [watcher EXCEPT ![c].at = "replay", ![c].connects = @ + 1, ![c].replay = r]
  BY <1>4, Zenon
<1> HIDE DEF r
<1> DEFINE w == [s EXCEPT !.at = "replay", !.connects = @ + 1, !.replay = r]
<1>8. watcher' = [watcher EXCEPT ![c] = w] /\ w = Stream("replay", r, s.queue, s.missed, s.connects + 1)
  <2>1. watcher' = [watcher EXCEPT ![c] = w]
    BY <1>2, <1>7, Zenon
  <2>2. w = Stream("replay", r, s.queue, s.missed, s.connects + 1)
    BY <1>1, StreamOpens, Zenon
  <2>3. QED
    BY <2>1, <2>2, Zenon
<1> HIDE DEF w
<1>9. s.queue = <<>> /\ Numbered(s.queue, d) /\ Beyond(g, s.queue) /\ Len(s.queue) <= MaxQueue
  BY <1>1, <1>3, NothingNumbered DEF FlowOK
<1>10. w \in Connections /\ FlowOK(g, w, d) /\ g \in Seq(Nat)
  <2>0. s.connects + 1 <= MaxConnects
    BY <1>1, StreamFields, EventsAssumption DEF Connect
  <2>1. /\ s.queue \in Seq(Nat) /\ s.missed \in BOOLEAN /\ s.connects + 1 \in Nat
        /\ "replay" \in {"off", "replay", "live"} /\ r \in Seq(Nat) /\ g \in Seq(Nat)
    BY <1>1, <1>5, StreamFields DEF Numbered
  <2>2. QED
    BY <1>1, <1>5, <1>8, <1>9, <2>0, <2>1, StreamType
<1>11. Numbered(history', d) /\ Len(history') <= Keep
  BY <1>1, <1>3 DEF EventsInv, EventsTyped
<1>12. QED
  BY <1>3, <1>6, <1>8, <1>10, <1>11, OneStream

\* An event goes from the replay to the client,
LEMMA SendReplayOK == ASSUME EventsInv, NEW c \in Watchers, SendReplay(c) PROVE EventsInv'
<1> DEFINE d == delivered
           g == got[c]
<1>1. d \in Nat /\ watcher[c] \in Connections /\ g \in Seq(Nat) /\ FlowOK(g, watcher[c], d) /\ Numbered(history, d)
  BY DEF EventsInv, EventsTyped
<1>2. PICK s \in Connections : s = watcher[c]
  BY <1>1
<1> DEFINE p == Append(g, Head(s.replay))
           t == Tail(s.replay)
           w == Stream(s.at, t, s.queue, s.missed, s.connects)
<1>3. /\ s.at = "replay" /\ s.replay # <<>> /\ delivered' = d /\ published' = published /\ history' = history
      /\ got' = [got EXCEPT ![c] = p] /\ watcher' = [watcher EXCEPT ![c] = [s EXCEPT !.replay = t]]
  BY <1>2 DEF SendReplay
<1>4. FlowOK(g, s, d)
  BY <1>1, <1>2
<1>5. Numbered(p, d) /\ Numbered(t, d) /\ Beyond(p, t)
  BY <1>1, <1>3, <1>4, SendKeepsOrder DEF FlowOK
<1> HIDE DEF p, t
<1>6. [s EXCEPT !.replay = t] = w
  BY StreamChanges, Zenon
<1>7. /\ s.queue = <<>> /\ Numbered(s.queue, d) /\ Beyond(p, s.queue)
      /\ Len(s.queue) <= MaxQueue /\ s.connects <= MaxConnects
  BY <1>1, <1>3, <1>4, NothingNumbered DEF FlowOK
<1>8. s.at \in {"off", "replay", "live"} /\ s.missed \in BOOLEAN /\ s.connects \in Nat /\ p \in Seq(Nat)
  BY <1>5, StreamFields DEF Numbered
<1>9. w \in Connections /\ FlowOK(p, w, d)
  BY <1>1, <1>3, <1>5, <1>7, <1>8, StreamType
<1> HIDE DEF w
<1>10. watcher' = [watcher EXCEPT ![c] = w] /\ Numbered(history', d) /\ Len(history') <= Keep
  BY <1>1, <1>3, <1>6 DEF EventsInv, EventsTyped
<1>11. QED
  BY <1>3, <1>8, <1>9, <1>10, OneStream

\* and from the queue of a live one.
LEMMA SendEventOK == ASSUME EventsInv, NEW c \in Watchers, SendEvent(c) PROVE EventsInv'
<1> DEFINE d == delivered
           g == got[c]
<1>1. d \in Nat /\ watcher[c] \in Connections /\ g \in Seq(Nat) /\ FlowOK(g, watcher[c], d) /\ Numbered(history, d)
  BY DEF EventsInv, EventsTyped
<1>2. PICK s \in Connections : s = watcher[c]
  BY <1>1
<1> DEFINE p == Append(g, Head(s.queue))
           t == Tail(s.queue)
           w == Stream(s.at, s.replay, t, s.missed, s.connects)
<1>3. /\ s.at = "live" /\ s.queue # <<>> /\ delivered' = d /\ published' = published /\ history' = history
      /\ got' = [got EXCEPT ![c] = p] /\ watcher' = [watcher EXCEPT ![c] = [s EXCEPT !.queue = t]]
  BY <1>2 DEF SendEvent
<1>4. FlowOK(g, s, d)
  BY <1>1, <1>2
<1>5. Numbered(p, d) /\ Numbered(t, d) /\ Beyond(p, t)
  BY <1>1, <1>3, <1>4, SendKeepsOrder DEF FlowOK
<1> HIDE DEF p, t
<1>6. [s EXCEPT !.queue = t] = w
  BY StreamChanges, Zenon
<1>7. /\ s.replay = <<>> /\ Numbered(s.replay, d) /\ Beyond(p, s.replay)
      /\ Len(t) <= MaxQueue /\ s.connects <= MaxConnects
  <2>1. Len(t) <= Len(s.queue) /\ Len(t) \in Nat /\ Len(s.queue) \in Nat
    BY <1>3, StreamFields, HeadTailProperties, LenProperties DEF t
  <2>2. QED
    BY <1>1, <1>3, <1>4, <2>1, EventsAssumption, NothingNumbered DEF FlowOK
<1>8. s.at \in {"off", "replay", "live"} /\ s.missed \in BOOLEAN /\ s.connects \in Nat /\ p \in Seq(Nat)
  BY <1>5, StreamFields DEF Numbered
<1>9. w \in Connections /\ FlowOK(p, w, d)
  BY <1>1, <1>3, <1>5, <1>7, <1>8, StreamType
<1> HIDE DEF w
<1>10. watcher' = [watcher EXCEPT ![c] = w] /\ Numbered(history', d) /\ Len(history') <= Keep
  BY <1>1, <1>3, <1>6 DEF EventsInv, EventsTyped
<1>11. QED
  BY <1>3, <1>8, <1>9, <1>10, OneStream

LEMMA SubscribeOK == ASSUME EventsInv, NEW c \in Watchers, Subscribe(c) PROVE EventsInv'
<1> DEFINE d == delivered
           g == got[c]
<1>1. d \in Nat /\ watcher[c] \in Connections /\ g \in Seq(Nat) /\ FlowOK(g, watcher[c], d) /\ Numbered(history, d)
  BY DEF EventsInv, EventsTyped
<1>2. PICK s \in Connections : s = watcher[c]
  BY <1>1
<1> DEFINE w == Stream("live", s.replay, s.queue, s.missed, s.connects)
<1>3. /\ s.replay = <<>> /\ delivered' = d /\ published' = published /\ history' = history /\ got' = got
      /\ watcher' = [watcher EXCEPT ![c] = [s EXCEPT !.at = "live"]]
  BY <1>2 DEF Subscribe
<1>4. FlowOK(g, s, d)
  BY <1>1, <1>2
<1>5. [s EXCEPT !.at = "live"] = w
  BY StreamChanges, Zenon
<1>6. "live" \in {"off", "replay", "live"} /\ s.missed \in BOOLEAN /\ s.connects \in Nat
  BY StreamFields
<1>7. w \in Connections /\ FlowOK(g, w, d)
  <2>1. /\ Numbered(g, d) /\ Numbered(s.replay, d) /\ Numbered(s.queue, d)
        /\ Beyond(g, s.replay) /\ Beyond(g, s.queue)
        /\ Len(s.queue) <= MaxQueue /\ s.connects <= MaxConnects
    BY <1>4 DEF FlowOK
  <2>2. QED
    BY <1>1, <1>3, <1>6, <2>1, StreamType
<1> HIDE DEF w
<1>8. watcher' = [watcher EXCEPT ![c] = w] /\ Numbered(history', d) /\ Len(history') <= Keep
  BY <1>1, <1>3, <1>5 DEF EventsInv, EventsTyped
<1>9. got' = [got EXCEPT ![c] = g]
  BY <1>3 DEF EventsInv, EventsTyped
<1>10. QED
  BY <1>1, <1>3, <1>7, <1>8, <1>9, OneStream

\* A stream that ends forgets its future, and perhaps the history.
LEMMA EndOK ==
    ASSUME EventsInv, NEW c \in Watchers,
           watcher' = [watcher EXCEPT ![c] = [NoStream EXCEPT !.connects = watcher[c].connects]],
           history' \in {history, <<>>}, delivered' = delivered, published' = published, got' = got
    PROVE  EventsInv'
<1> DEFINE d == delivered
           g == got[c]
           n == watcher[c].connects
           w == Stream("off", <<>>, <<>>, FALSE, n)
<1>1. d \in Nat /\ watcher[c] \in Connections /\ g \in Seq(Nat) /\ FlowOK(g, watcher[c], d) /\ Numbered(history, d)
  BY DEF EventsInv, EventsTyped
<1>2. n \in Nat /\ n <= MaxConnects /\ Len(<<>>) <= MaxQueue /\ Len(<<>>) <= Keep /\ "off" \in {"off", "replay", "live"} /\ FALSE \in BOOLEAN
  BY <1>1, StreamFields, EmptySeq, EventsAssumption DEF FlowOK
<1>3. Numbered(g, d) /\ Numbered(<<>>, d) /\ Beyond(g, <<>>)
  BY <1>1, NothingNumbered DEF FlowOK
<1> HIDE DEF n
<1>4. w \in Connections /\ FlowOK(g, w, d)
  BY <1>1, <1>2, <1>3, StreamType
<1>5. [NoStream EXCEPT !.connects = n] = w
  <2>1. PICK s \in Connections : s = NoStream
    BY EmptySeq DEF NoStream, Connections
  <2>2. s.at = "off" /\ s.replay = <<>> /\ s.queue = <<>> /\ s.missed = FALSE
    BY <2>1 DEF NoStream
  <2>3. [s EXCEPT !.connects = n] = Stream(s.at, s.replay, s.queue, s.missed, n)
    BY StreamChanges, Zenon
  <2>4. QED
    BY <2>1, <2>2, <2>3, Zenon
<1> HIDE DEF w
<1>6. watcher' = [watcher EXCEPT ![c] = w]
  BY <1>5 DEF n
<1>7. got' = [got EXCEPT ![c] = g] /\ Numbered(history', d) /\ Len(history') <= Keep
  BY <1>1, <1>2, <1>3 DEF EventsInv, EventsTyped
<1>8. QED
  BY <1>1, <1>4, <1>6, <1>7, OneStream

LEMMA EventsInvariant == EventsSpec => []EventsInv
<1>1. EventsInv /\ [EventsNext]_eventVars => EventsInv'
  <2> SUFFICES ASSUME EventsInv, [EventsNext]_eventVars PROVE EventsInv'
    OBVIOUS
  <2>1. CASE Publish \/ UNCHANGED eventVars
    BY <2>1 DEF Publish, eventVars, EventsInv, EventsTyped
  <2>2. CASE Deliver
    BY <2>2, DeliverOK
  <2>3. ASSUME NEW c \in Watchers, ClientNext(c) PROVE EventsInv'
    <3>1. CASE SocketFails(c) \/ WatcherLeaves(c)
      <4>1. /\ watcher' = [watcher EXCEPT ![c] = [NoStream EXCEPT !.connects = watcher[c].connects]]
            /\ history' \in {history, <<>>} /\ delivered' = delivered /\ published' = published /\ got' = got
        BY <3>1, Zenon DEF SocketFails, WatcherLeaves, Closes
      <4>2. QED
        BY <4>1, EndOK
    <3>2. QED
      BY <2>3, <3>1, ConnectOK, SendReplayOK, SendEventOK, SubscribeOK DEF ClientNext
  <2>4. QED
    BY <2>1, <2>2, <2>3 DEF EventsNext
<1>2. QED
  BY EventsStart, <1>1, PTL DEF EventsSpec

LEMMA NumbersOf == ASSUME NEW d \in Nat, NEW s, Numbered(s, d) PROVE ToSet(s) \subseteq 1 .. d
BY ElementOfSeq DEF Numbered, UpTo, ToSet

\* No history and no queue outgrows its bound, and only a stream that is live
\* has a queue (api/sse_events.py:25, 95).
THEOREM EventTypeCorrect == EventsSpec => []EventTypes
<1>1. EventsInv => EventTypes
  <2> SUFFICES ASSUME EventsInv PROVE EventTypes
    OBVIOUS
  <2>1. delivered \in Nat /\ Numbered(history, delivered)
    BY DEF EventsInv, EventsTyped
  <2>2. ASSUME NEW c \in Watchers
        PROVE  /\ watcher[c].at \in {"off", "replay", "live"} /\ Len(watcher[c].queue) <= MaxQueue
               /\ watcher[c].at # "live" => watcher[c].queue = <<>>
               /\ watcher[c].connects \in 0 .. MaxConnects
               /\ ToSet(got[c]) \subseteq 1 .. delivered
    <3>1. watcher[c] \in Connections /\ FlowOK(got[c], watcher[c], delivered)
      BY DEF EventsInv, EventsTyped
    <3>2. ToSet(got[c]) \subseteq 1 .. delivered
      BY <2>1, <3>1, NumbersOf DEF FlowOK
    <3>3. QED
      BY <3>1, <3>2, EventsAssumption, StreamFields DEF FlowOK
  <2>3. QED
    BY <2>1, <2>2, NumbersOf DEF EventsInv, EventsTyped, EventTypes
<1>2. QED
  BY <1>1, EventsInvariant, PTL

\* A client is sent every event at most once and in order, through replay,
\* subscription and reconnection, whatever the other clients do to the history
\* (api/sse_events.py).
THEOREM EventsAreSeenInOrder == EventsSpec => []SeenInOrder
<1>1. EventsInv => SeenInOrder
  <2> SUFFICES ASSUME EventsInv, NEW c \in Watchers
               PROVE  Ascends(got[c] \o watcher[c].replay \o watcher[c].queue)
    BY DEF SeenInOrder, Ascends
  <2> DEFINE g == got[c]
             s == watcher[c]
  <2>1. s \in Connections /\ FlowOK(g, s, delivered)
    BY DEF EventsInv, EventsTyped
  <2> HIDE DEF g, s
  <2>2. g \in Seq(Nat) /\ s.replay \in Seq(Nat) /\ s.queue \in Seq(Nat)
    BY <2>1 DEF FlowOK, Numbered
  <2>3. ASSUME NEW r \in Seq(Nat), Ascends(r), Beyond(g, r) PROVE Ascends(g \o r)
    <3> DEFINE a == g \o r
    <3>1. /\ Len(a) = Len(g) + Len(r) /\ Len(g) \in Nat /\ Len(r) \in Nat
          /\ \A i \in 1 .. Len(g) + Len(r) : a[i] = IF i <= Len(g) THEN g[i] ELSE r[i - Len(g)]
      BY <2>2, ConcatProperties, LenProperties
    <3>2. Ascends(g)
      BY <2>1 DEF FlowOK, Numbered
    <3> HIDE DEF a
    <3>3. SUFFICES ASSUME NEW i \in 1 .. Len(a), NEW j \in 1 .. Len(a), i < j PROVE a[i] < a[j]
      BY <3>3 DEF Ascends, a
    <3>4. CASE j <= Len(g)
      <4>1. a[i] = g[i] /\ a[j] = g[j] /\ i \in 1 .. Len(g) /\ j \in 1 .. Len(g)
        BY <3>1, <3>3, <3>4
      <4>2. QED
        BY <3>2, <3>3, <4>1 DEF Ascends
    <3>5. CASE ~(j <= Len(g)) /\ i <= Len(g)
      <4>1. a[i] = g[i] /\ a[j] = r[j - Len(g)] /\ i \in 1 .. Len(g) /\ j - Len(g) \in 1 .. Len(r)
        BY <3>1, <3>3, <3>5
      <4>2. QED
        BY <2>3, <4>1 DEF Beyond
    <3>6. CASE ~(i <= Len(g))
      <4>1. /\ a[i] = r[i - Len(g)] /\ a[j] = r[j - Len(g)]
            /\ i - Len(g) \in 1 .. Len(r) /\ j - Len(g) \in 1 .. Len(r) /\ i - Len(g) < j - Len(g)
        BY <3>1, <3>3, <3>6
      <4>2. QED
        BY <2>3, <4>1 DEF Ascends
    <3>7. QED
      BY <3>4, <3>5, <3>6
  <2>4. CASE s.at = "live"
    <3>1. s.replay = <<>>
      BY <2>1, <2>4 DEF FlowOK
    <3>2. g \o s.replay = g
      BY <2>2, <3>1, ConcatEmptySeq
    <3>3. Ascends(g \o s.queue)
      BY <2>1, <2>2, <2>3 DEF FlowOK, Numbered
    <3>4. QED
      BY <3>2, <3>3 DEF g, s
  <2>5. CASE s.at # "live"
    <3>1. s.queue = <<>>
      BY <2>1, <2>5 DEF FlowOK
    <3>2. g \o s.replay \in Seq(Nat) /\ Ascends(g \o s.replay)
      BY <2>1, <2>2, <2>3, ConcatProperties DEF FlowOK, Numbered
    <3>3. (g \o s.replay) \o s.queue = g \o s.replay
      BY <3>1, <3>2, ConcatEmptySeq
    <3>4. QED
      BY <3>2, <3>3 DEF g, s
  <2>6. QED
    BY <2>4, <2>5
<1>2. QED
  BY <1>1, EventsInvariant, PTL

-----------------------------------------------------------------------------
(* The token pool                                                          *)

LEMMA Capacity == BufferCap \in Nat \ {0}
BY PoolAssumption DEF BufferCap, Larger

-----------------------------------------------------------------------------
(* The inductive invariant: a buffer as a whole stays within its capacity. *)

Bounded == \A k \in Buffers : Size(buf, k) <= BufferCap

Stock == [Buffers -> [stale : Nat, fresh : Nat]]

TokenInv == TypeOK /\ Bounded /\ RefillNoticed

\* Two buffers of the declared type within the capacity.
WithinCap(b) == b \in Stock /\ \A k \in Buffers : Size(b, k) <= BufferCap

LEMMA WithinType ==
    ASSUME NEW b, WithinCap(b)
    PROVE  b \in [Buffers -> [stale : 0..BufferCap, fresh : 0..BufferCap]]
<1>1. ASSUME NEW k \in Buffers PROVE b[k] \in [stale : 0..BufferCap, fresh : 0..BufferCap]
  <2>1. b[k] \in [stale : Nat, fresh : Nat] /\ Size(b, k) <= BufferCap
    BY DEF WithinCap, Stock
  <2>2. b[k].stale <= BufferCap /\ b[k].fresh <= BufferCap
    BY <2>1, Capacity DEF Size
  <2>3. QED
    BY <2>1, <2>2, Capacity
<1>2. QED
  BY <1>1 DEF WithinCap, Stock

LEMMA PoolWithin == TokenInv => WithinCap(buf)
BY Capacity DEF TokenInv, TypeOK, Bounded, WithinCap, Stock

LEMMA PrunedWithin ==
    ASSUME NEW b, WithinCap(b)
    PROVE  /\ WithinCap(Pruned(b))
           /\ \A k \in Buffers : Pruned(b)[k] = [stale |-> 0, fresh |-> b[k].fresh]
BY Capacity DEF WithinCap, Stock, Pruned, Size

\* A buffer to which a token is added or from which one is taken.
LEMMA TakenWithin ==
    ASSUME NEW b, WithinCap(b), NEW k \in Buffers, b[k].fresh > 0
    PROVE  WithinCap([b EXCEPT ![k].fresh = @ - 1])
BY Capacity DEF WithinCap, Stock, Size

LEMMA StoredWithin ==
    ASSUME NEW b, WithinCap(b), NEW k \in Buffers, ~Full(b, k)
    PROVE  WithinCap(Stored(b, k))
BY Capacity DEF WithinCap, Stock, Size, Stored, Full

LEMMA DroppedWithin ==
    ASSUME NEW b, WithinCap(b), NEW k \in Buffers
    PROVE  WithinCap([b EXCEPT ![k] = [stale |-> 0, fresh |-> b[k].fresh]])
<1> DEFINE new == [stale |-> 0, fresh |-> b[k].fresh]
<1>1. b \in Stock /\ b[k].stale \in Nat /\ b[k].fresh \in Nat
  BY DEF WithinCap, Stock
<1>2. new \in [stale : Nat, fresh : Nat]
  BY <1>1
<1>3. new.stale + new.fresh <= b[k].stale + b[k].fresh
  BY <1>1
<1> HIDE DEF new
<1>4. new.stale + new.fresh <= BufferCap
  BY <1>1, <1>2, <1>3, Capacity DEF WithinCap, Size
<1>5. [b EXCEPT ![k] = new] \in Stock
  BY <1>1, <1>2 DEF Stock
<1>6. WithinCap([b EXCEPT ![k] = new])
  BY <1>1, <1>4, <1>5 DEF WithinCap, Size, Stock
<1>7. QED
  BY <1>6 DEF new

-----------------------------------------------------------------------------
(* The steps.                                                              *)

\* What a client keeps by taking a token, and by finding none.
LEMMA ServeStep ==
    ASSUME TokenInv, NEW c \in Clients, NEW b, WithinCap(b), NEW k \in Buffers,
           NEW a \in Buffers, b[k].fresh > 0, Serve(c, b, k, a), UNCHANGED <<loop, aim>>
    PROVE  TokenInv'
<1>1. WithinCap(buf')
  BY TakenWithin DEF Serve
<1>2. TypeOK'
  BY <1>1, WithinType DEF Serve, Answered, Rest, TokenInv, TypeOK
<1>3. Bounded'
  BY <1>1 DEF WithinCap, Bounded, Size
<1>4. RefillNoticed'
  <2>1. need' \/ (a = active /\ ~Low(buf', a))
    BY DEF Serve
  <2>2. Size(buf', active') \in Nat /\ Size(buf', Other(active')) \in Nat /\ active' = a
    BY <1>1 DEF WithinCap, Stock, Size, Serve, Other, Buffers
  <2>3. QED
    BY <2>1, <2>2 DEF RefillNoticed, Low, Standby, Size
<1>5. QED
  BY <1>2, <1>3, <1>4 DEF TokenInv

LEMMA AttemptStep ==
    ASSUME TokenInv, NEW c \in Clients, NEW late \in BOOLEAN, Attempt(c, late),
           UNCHANGED <<loop, aim>>
    PROVE  TokenInv'
<1> DEFINE left == Pruned(buf)
<1>1. WithinCap(left)
  BY PoolWithin, PrunedWithin
<1>2. active \in Buffers /\ Standby \in Buffers
  BY DEF TokenInv, TypeOK, Standby, Other, Buffers
<1>3. CASE \E k \in Buffers : left[k].fresh > 0 /\ Serve(c, left, k, k)
  BY <1>1, <1>3, ServeStep
<1>4. CASE buf' = left /\ need' = TRUE /\ UNCHANGED active
           /\ (Answered(c, active) \/ Answered(c, "refused"))
  <2>1. TypeOK'
    BY <1>1, <1>2, <1>4, WithinType DEF Answered, Rest, TokenInv, TypeOK
  <2>2. Bounded' /\ RefillNoticed'
    BY <1>1, <1>4 DEF WithinCap, Bounded, Size, RefillNoticed
  <2>3. QED
    BY <2>1, <2>2 DEF TokenInv
<1>5. QED
  BY <1>2, <1>3, <1>4 DEF Attempt

LEMMA ClientStep ==
    ASSUME TokenInv, NEW c \in Clients, Client(c)
    PROVE  TokenInv'
<1>1. CASE Acquire(c)
  BY <1>1, AttemptStep DEF Acquire
<1>2. CASE CircuitRefuses(c)
  BY <1>2 DEF CircuitRefuses, Answered, Rest, TokenInv, TypeOK, Bounded, RefillNoticed,
       Size, Full, Standby
<1>3. CASE Resume(c)
  <2>1. WithinCap(buf) /\ client[c] \in Buffers /\ active \in Buffers
    BY <1>3, PoolWithin DEF Resume, TokenInv, TypeOK
  <2>2. CASE buf[client[c]].stale = 0
    <3>1. buf[client[c]].fresh > 0
      BY <1>3, <2>1, <2>2 DEF Resume, Size, WithinCap, Stock
    <3>2. QED
      BY <1>3, <2>1, <2>2, <3>1, ServeStep DEF Resume
  <2>3. CASE buf[client[c]].stale # 0
    BY <1>3, <2>3, AttemptStep DEF Resume
  <2>4. QED
    BY <2>2, <2>3
<1>4. CASE TimesOut(c)
  <2>1. WithinCap(buf) /\ active \in Buffers /\ Standby \in Buffers /\ Standby # active
    BY PoolWithin DEF TokenInv, TypeOK, Standby, Other, Buffers
  <2>2. CASE buf[Standby].fresh > 0
    <3>1. WithinCap(Pruned(buf)) /\ Pruned(buf)[Standby].fresh > 0
      <4>1. Pruned(buf)[Standby] = [stale |-> 0, fresh |-> buf[Standby].fresh]
        BY <2>1, PrunedWithin
      <4>2. QED
        BY <2>1, <2>2, <4>1, PrunedWithin
    <3>2. QED
      BY <1>4, <2>1, <2>2, <3>1, ServeStep DEF TimesOut
  <2>3. CASE ~(buf[Standby].fresh > 0)
    <3>1. /\ buf' = [buf EXCEPT ![Standby] = [stale |-> 0, fresh |-> buf[Standby].fresh]] /\ Answered(c, "refused")
          /\ UNCHANGED <<active, need, loop, aim>>
      BY <1>4, <2>3 DEF TimesOut
    <3>2. WithinCap(buf')
      BY <2>1, <3>1, DroppedWithin
    <3>3. TypeOK'
      BY <3>1, <3>2, WithinType DEF Answered, Rest, TokenInv, TypeOK
    <3>4. loop = "parked" => need
      <4>1. \E k \in Buffers : Size(buf, k) = 0
        BY <1>4 DEF TimesOut
      <4>2. buf[Standby].fresh = 0
        BY <2>1, <2>3 DEF WithinCap, Stock
      <4>3. \A k \in Buffers : k = active \/ k = Standby
        BY <2>1 DEF Standby, Other, Buffers
      <4>4. ~(\A k \in Buffers : Full(buf, k))
        BY <4>1, Capacity DEF Full
      <4>5. ~(Size(buf, active) >= 2 /\ Size(buf, Standby) > 0)
        BY <4>1, <4>3
      <4>6. QED
        BY <4>4, <4>5 DEF TokenInv, RefillNoticed, TypeOK
    <3>5. Bounded' /\ RefillNoticed'
      BY <3>1, <3>2, <3>4 DEF WithinCap, Bounded, Size, RefillNoticed
    <3>6. QED
      BY <3>3, <3>5 DEF TokenInv
  <2>4. QED
    BY <2>2, <2>3
<1>5. QED
  BY <1>1, <1>2, <1>3, <1>4 DEF Client

\* Steps of the loop that leave it at work.
LEMMA AtWork ==
    ASSUME TokenInv, WithinCap(buf'), UNCHANGED <<active, client>>, aim' \in Buffers,
           need' \in BOOLEAN, loop' \in LoopState \ {"parked"}
    PROVE  TokenInv'
<1>1. TypeOK'
  BY WithinType DEF TokenInv, TypeOK
<1>2. Bounded' /\ RefillNoticed'
  BY DEF WithinCap, Bounded, Size, RefillNoticed
<1>3. QED
  BY <1>1, <1>2 DEF TokenInv

LEMMA BatchWithin ==
    ASSUME TokenInv, NEW n \in 0..Batch, BatchSolved(n)
    PROVE  WithinCap(buf')
<1>1. WithinCap(buf) /\ active \in Buffers /\ Standby \in Buffers /\ Standby # active
  BY PoolWithin DEF TokenInv, TypeOK, Standby, Other, Buffers
<1>2. n \in Nat
  BY PoolAssumption
<1> DEFINE room == BufferCap - Size(buf, active)
           inActive == IF n < room THEN n ELSE room
           space == BufferCap - Size(buf, Standby)
           inStandby == IF n - inActive < space THEN n - inActive ELSE space
<1>3. room \in Nat /\ space \in Nat
  BY <1>1, Capacity DEF WithinCap, Stock, Size
<1>4. /\ inActive \in Nat /\ inActive <= room
      /\ inStandby \in Nat /\ inStandby <= space
  <2> HIDE DEF room, space
  <2>1. inActive \in Nat /\ inActive <= room /\ inActive <= n
    BY <1>2, <1>3
  <2> HIDE DEF inActive
  <2>2. QED
    BY <1>2, <1>3, <2>1
<1>5. buf' = [buf EXCEPT ![active].fresh = @ + inActive, ![Standby].fresh = @ + inStandby]
  BY DEF BatchSolved
<1>6. /\ Size(buf, active) + inActive <= BufferCap
      /\ Size(buf, Standby) + inStandby <= BufferCap
  <2>1. Size(buf, active) \in Nat /\ Size(buf, Standby) \in Nat
    BY <1>1 DEF WithinCap, Stock, Size
  <2> HIDE DEF inActive, inStandby
  <2>2. QED
    BY <1>4, <2>1, Capacity
<1> HIDE DEF inActive, inStandby
<1>7. \A k \in Buffers : k = active \/ k = Standby
  BY <1>1 DEF Standby, Other, Buffers
<1>8. /\ buf' \in Stock
      /\ Size(buf', active) = Size(buf, active) + inActive
      /\ Size(buf', Standby) = Size(buf, Standby) + inStandby
  BY <1>1, <1>4, <1>5 DEF WithinCap, Stock, Size
<1>9. QED
  BY <1>6, <1>7, <1>8 DEF WithinCap

LEMMA PrefetchStep ==
    ASSUME TokenInv, Prefetch
    PROVE  TokenInv'
<1>1. /\ WithinCap(buf) /\ WithinCap(Pruned(buf)) /\ active \in Buffers /\ Standby \in Buffers
      /\ aim \in Buffers /\ need \in BOOLEAN
  BY PoolWithin, PrunedWithin DEF TokenInv, TypeOK, Standby, Other, Buffers
<1>2. CASE Pause
  BY <1>1, <1>2, AtWork DEF Pause, LoopState
<1>3. CASE Park
  <2>1. /\ WithinCap(buf') /\ need' = FALSE /\ UNCHANGED <<active, client, aim>>
        /\ loop' \in LoopState /\ \A k \in Buffers : Full(buf', k)
    BY <1>1, <1>3 DEF Park, Enough, LoopState
  <2>2. TypeOK'
    BY <2>1, WithinType DEF TokenInv, TypeOK
  <2>3. Bounded' /\ RefillNoticed'
    BY <2>1 DEF WithinCap, Bounded, Size, Full, RefillNoticed
  <2>4. QED
    BY <2>2, <2>3 DEF TokenInv
<1>4. CASE Unpark
  BY <1>1, <1>4, AtWork DEF Unpark, LoopState
<1>5. CASE StartSolve
  BY <1>1, <1>5, AtWork DEF StartSolve, Aim, LoopState
<1>6. CASE Solved
  BY <1>1, <1>6, StoredWithin, AtWork DEF Solved, LoopState
<1>7. CASE SolveFails
  BY <1>1, <1>7, AtWork DEF SolveFails, LoopState
<1>8. CASE StartBatch
  BY <1>1, <1>8, AtWork DEF StartBatch, LoopState
<1>9. CASE \E n \in 0..Batch : BatchSolved(n)
  BY <1>1, <1>9, BatchWithin, AtWork DEF BatchSolved, LoopState
<1>10. CASE Wake
  BY <1>1, <1>10, AtWork DEF Wake, LoopState
<1>11. QED
  BY <1>2, <1>3, <1>4, <1>5, <1>6, <1>7, <1>8, <1>9, <1>10 DEF Prefetch

\* An expired token still takes its place.
LEMMA ExpireStep ==
    ASSUME TokenInv, NEW k \in Buffers, Expire(k)
    PROVE  TokenInv'
<1>1. WithinCap(buf)
  BY PoolWithin
<1>2. /\ buf' \in Stock
      /\ \A i \in Buffers : Size(buf', i) = Size(buf, i)
  <2>1. buf \in Stock /\ buf[k].stale \in Nat /\ buf[k].fresh \in Nat /\ buf[k].fresh > 0
    BY <1>1 DEF WithinCap, Stock, Expire
  <2> DEFINE new == [stale |-> buf[k].stale + 1, fresh |-> buf[k].fresh - 1]
  <2>2. new \in [stale : Nat, fresh : Nat]
    BY <2>1
  <2>3. new.stale + new.fresh = buf[k].stale + buf[k].fresh
    BY <2>1
  <2>4. buf' = [buf EXCEPT ![k] = new]
    BY DEF Expire
  <2> HIDE DEF new
  <2>5. QED
    BY <2>1, <2>2, <2>3, <2>4 DEF Stock, Size
<1>3. WithinCap(buf')
  BY <1>1, <1>2 DEF WithinCap
<1>4. UNCHANGED <<active, need, client, loop, aim>>
  BY DEF Expire
<1>5. TypeOK'
  BY <1>3, <1>4, WithinType DEF TokenInv, TypeOK
<1>6. Bounded'
  BY <1>3 DEF WithinCap, Bounded, Size
<1>7. RefillNoticed'
  <2>1. active \in Buffers /\ Standby \in Buffers /\ Standby' = Standby
    BY <1>4 DEF TokenInv, TypeOK, Standby, Other, Buffers
  <2>2. RefillNoticed
    BY DEF TokenInv
  <2>3. /\ Size(buf', active) = Size(buf, active) /\ Size(buf', Standby) = Size(buf, Standby)
        /\ \A i \in Buffers : Full(buf, i) => Full(buf', i)
    BY <1>2, <2>1 DEF Full
  <2>4. QED
    BY <1>4, <2>1, <2>2, <2>3 DEF RefillNoticed, Full, Size
<1>8. QED
  BY <1>5, <1>6, <1>7 DEF TokenInv

-----------------------------------------------------------------------------
LEMMA IInit == Init => TokenInv
<1> SUFFICES ASSUME Init PROVE TokenInv
  OBVIOUS
<1>1. WithinCap(buf)
  BY Capacity DEF Init, WithinCap, Stock, Size
<1>2. TypeOK
  BY <1>1, WithinType DEF Init, TypeOK, Buffers, Rest, LoopState
<1>3. Bounded /\ RefillNoticed
  BY <1>1 DEF Init, WithinCap, Bounded, RefillNoticed
<1>4. QED
  BY <1>2, <1>3 DEF TokenInv

LEMMA IStep == TokenInv /\ [Next]_vars => TokenInv'
<1> SUFFICES ASSUME TokenInv, [Next]_vars PROVE TokenInv'
  OBVIOUS
<1>1. CASE Next
  BY <1>1, ClientStep, PrefetchStep, ExpireStep DEF Next
<1>2. CASE UNCHANGED vars
  BY <1>2 DEF vars, TokenInv, TypeOK, Bounded, RefillNoticed, Size, Full, Standby
<1>3. QED
  BY <1>1, <1>2

LEMMA TokenInvariance == Spec => []TokenInv
BY IInit, IStep, PTL DEF Spec

(* Every buffer stays within its capacity, and everything is of its type.  *)
THEOREM TypeCorrect == Spec => []TypeOK
<1>1. TokenInv => TypeOK
  BY DEF TokenInv
<1>2. QED
  BY <1>1, TokenInvariance, PTL

(* The prefetch loop never waits for need_event with the event unset and a *)
(* buffer run low.                                                         *)
THEOREM RefillIsNoticed == Spec => []RefillNoticed
<1>1. TokenInv => RefillNoticed
  BY DEF TokenInv
<1>2. QED
  BY <1>1, TokenInvariance, PTL

-----------------------------------------------------------------------------
(* The solver service                                                      *)

(* While nothing broke, every page of the pool is of a context that counts *)
(* except in the moment of the restart between giving the contexts up and  *)
(* throwing away what came in meanwhile; and what is being built is built  *)
(* in such a context.                                                      *)

CleanerShaped ==
    /\ cleaner = [at |-> cleaner.at, taken |-> cleaner.taken, old |-> cleaner.old,
                  new |-> cleaner.new, left |-> cleaner.left, again |-> cleaner.again]
    /\ cleaner.left \in Nat
    /\ cleaner.at \in {"sleep", "await", "close"} => cleaner.left = 0

Crashed ==
    /\ broken \in Nat
    /\ ~browser \/ cleaner.at = "restart" => broken > 0

BuildsInside == broken = 0 /\ cleaner.left > 0 => cleaner.new \in contexts

PagesLive == broken = 0 /\ cleaner.at # "close" => spare \in Seq(contexts)

SolverInv == CleanerShaped /\ Crashed /\ BuildsInside /\ PagesLive

\* The pool that is built first has pages of the first contexts only.
LEMMA FirstPages == FullPool \in Seq(1 .. Threads)
<1>1. AllPages \in Nat
  BY SolverAssumption DEF AllPages
<1>2. ASSUME NEW i \in 1 .. AllPages PROVE 1 + (i - 1) \div PagesPer \in 1 .. Threads
  <2> DEFINE q == (i - 1) \div PagesPer
             m == (i - 1) % PagesPer
  <2>1. Threads \in Nat /\ PagesPer \in Nat /\ PagesPer > 0 /\ i - 1 \in Nat /\ i - 1 < Threads * PagesPer
    BY <1>1, SolverAssumption DEF AllPages
  <2>2. q \in Int /\ m \in 0 .. PagesPer - 1 /\ i - 1 = q * PagesPer + m
    BY <2>1
  <2> HIDE DEF q, m
  <2>3. q >= 0
    <3>1. CASE q <= -1
      <4>1. q * PagesPer <= -1 * PagesPer
        BY <2>1, <2>2, <3>1
      <4>2. QED
        BY <2>1, <2>2, <4>1
    <3>2. QED
      BY <2>2, <3>1
  <2>4. q < Threads
    <3>1. CASE q >= Threads
      <4>1. q * PagesPer >= Threads * PagesPer
        BY <2>1, <2>2, <3>1
      <4>2. QED
        BY <2>1, <2>2, <4>1
    <3>2. QED
      BY <2>1, <2>2, <3>1
  <2>5. 1 + q \in 1 .. Threads
    BY <2>1, <2>2, <2>3, <2>4
  <2>6. QED
    BY <2>5 DEF q
<1>3. QED
  BY <1>1, <1>2 DEF FullPool

LEMMA SolverInitInv == ASSUME SolverInit PROVE SolverInv
<1>1. cleaner = Sleeping /\ broken = 0 /\ browser = TRUE /\ contexts = 1 .. Threads /\ spare = FullPool
  BY DEF SolverInit
<1>2. QED
  BY <1>1, FirstPages DEF SolverInv, CleanerShaped, Crashed, BuildsInside, PagesLive, Sleeping

\* A step of a captcha takes a page from the pool or brings one back.
LEMMA CaptchaInv ==
    ASSUME SolverInv, NEW t \in Captchas, TaskNext(t) PROVE SolverInv'
<1>1. UNCHANGED <<contexts, browser, cleaner, broken>>
  BY DEF TaskNext, Request, TakePage, Open, Rotate, Solve, SolveTurnstile, SolveClearance, SolveAwsToken,
         SolveRecaptcha, Settle, LeavePage, PollResult, AgeResult
<1>2. CleanerShaped' /\ Crashed' /\ BuildsInside'
  BY <1>1 DEF SolverInv, CleanerShaped, Crashed, BuildsInside
<1>3. \/ spare' = spare
      \/ spare # <<>> /\ spare' = Tail(spare)
      \/ \E c \in contexts : spare' = Append(spare, c)
  BY DEF TaskNext, Request, TakePage, Open, Rotate, Solve, SolveTurnstile, SolveClearance, SolveAwsToken,
         SolveRecaptcha, Settle, LeavePage, PollResult, AgeResult, Dropped
<1>4. spare \in Seq(contexts) => spare' \in Seq(contexts)
  BY <1>3, HeadTailProperties, AppendProperties
<1>5. PagesLive'
  BY <1>1, <1>4 DEF SolverInv, PagesLive
<1>6. QED
  BY <1>2, <1>5 DEF SolverInv

\* The restart, step by step.
LEMMA CleanerInv == ASSUME SolverInv, CleanerNext PROVE SolverInv'
<1> USE DEF SolverInv, CleanerShaped, Crashed, BuildsInside, PagesLive
<1>1. CASE CleanerWakes
  <2>1. cleaner' = [at |-> "await", taken |-> Len(spare), old |-> {}, new |-> Private,
                    left |-> 0, again |-> FALSE]
    BY <1>1 DEF CleanerWakes, Sleeping
  <2>2. spare' = <<>> /\ UNCHANGED <<contexts, browser, broken>>
    BY <1>1 DEF CleanerWakes
  <2>3. spare' \in Seq(contexts')
    BY <2>2
  <2>4. QED
    BY <2>1, <2>2, <2>3
<1>2. CASE Collect
  <2>1. spare \in Seq(contexts) => spare' \in Seq(contexts)
    BY <1>2, HeadTailProperties DEF Collect
  <2>2. cleaner' = [cleaner EXCEPT !.taken = @ + 1] /\ cleaner.at = "await" /\ UNCHANGED <<contexts, browser, broken>>
    BY <1>2 DEF Collect
  <2>3. QED
    BY <2>1, <2>2
<1>3. CASE Invalidate
  <2>1. cleaner' = [cleaner EXCEPT !.at = "close", !.old = contexts] /\ cleaner.at = "await"
        /\ UNCHANGED <<browser, broken>>
    BY <1>3 DEF Invalidate
  <2>2. cleaner' = [at |-> "close", taken |-> cleaner.taken, old |-> contexts,
                    new |-> cleaner.new, left |-> cleaner.left, again |-> cleaner.again]
    BY <2>1
  <2>3. CleanerShaped'
    BY <2>1, <2>2
  <2>4. cleaner'.at = "close" /\ cleaner'.left = 0
    BY <2>1, <2>2
  <2>5. QED
    BY <2>1, <2>3, <2>4
<1>4. ASSUME NEW c, CloseOld(c) PROVE SolverInv'
  BY <1>4 DEF CloseOld
<1>5. CASE Discard
  BY <1>5 DEF Discard
<1>6. CASE AddContext
  <2>1. /\ cleaner' = [cleaner EXCEPT !.new = Fresh, !.left = PagesPer]
        /\ contexts' = contexts \cup {Fresh} /\ cleaner.at = "build"
        /\ UNCHANGED <<spare, browser, broken>>
    BY <1>6 DEF AddContext
  <2>2. /\ cleaner' = [at |-> "build", taken |-> cleaner.taken, old |-> cleaner.old,
                       new |-> Fresh, left |-> PagesPer, again |-> cleaner.again]
    BY <2>1
  <2>3. spare \in Seq(contexts) => spare' \in Seq(contexts')
    BY <2>1
  <2> HIDE DEF Fresh
  <2>4. QED
    BY <2>1, <2>2, <2>3, SolverAssumption
<1>7. CASE AddPage
  <2>1. /\ cleaner.at = "build" /\ cleaner.left > 0 /\ spare' = Append(spare, cleaner.new)
        /\ cleaner' = [cleaner EXCEPT !.left = @ - 1] /\ UNCHANGED <<contexts, browser, broken>>
    BY <1>7 DEF AddPage
  <2>2. broken = 0 => spare' \in Seq(contexts)
    BY <2>1, AppendProperties
  <2>3. QED
    BY <2>1, <2>2
<1>8. CASE Built
  BY <1>8 DEF Built, Sleeping
<1>9. CASE BuildFails
  <2>1. broken' > 0 /\ broken' \in Nat /\ UNCHANGED browser
    BY <1>9 DEF BuildFails
  <2>2. CASE cleaner.again
    BY <1>9, <2>1, <2>2 DEF BuildFails, Sleeping
  <2>3. CASE ~cleaner.again
    <3>1. cleaner' = [cleaner EXCEPT !.at = "restart", !.left = 0]
      BY <1>9, <2>3 DEF BuildFails
    <3>2. cleaner' = [at |-> "restart", taken |-> cleaner.taken, old |-> cleaner.old,
                      new |-> cleaner.new, left |-> 0, again |-> cleaner.again]
      BY <3>1
    <3>3. QED
      BY <2>1, <3>2
  <2>4. QED
    BY <2>2, <2>3
<1>10. CASE RestartBrowser
  <2>1. broken > 0 /\ broken' \in Nat /\ broken' > 0
    BY <1>10 DEF RestartBrowser
  <2>2. CASE cleaner' = Sleeping
    BY <2>1, <2>2 DEF Sleeping
  <2>3. CASE browser' = TRUE /\ cleaner' = [cleaner EXCEPT !.at = "build", !.again = TRUE]
    <3>1. cleaner' = [at |-> "build", taken |-> cleaner.taken, old |-> cleaner.old,
                      new |-> cleaner.new, left |-> cleaner.left, again |-> TRUE]
      BY <2>3
    <3>2. CleanerShaped'
      BY <3>1
    <3>3. cleaner'.at = "build"
      BY <3>1
    <3>4. QED
      BY <2>1, <2>3, <3>2, <3>3
  <2>4. QED
    BY <1>10, <2>2, <2>3 DEF RestartBrowser
<1>11. QED
  BY <1>1, <1>2, <1>3, <1>4, <1>5, <1>6, <1>7, <1>8, <1>9, <1>10 DEF CleanerNext

\* As long as the browser does its work, a captcha that outlives a restart
\* brings no page of an old context into the new pool (api_server.py:248).
THEOREM NoPageIsStale == SolverSpec => []NoStalePage
<1>1. SolverInv /\ [SolverNext]_solverVars => SolverInv'
  <2> SUFFICES ASSUME SolverInv, [SolverNext]_solverVars PROVE SolverInv'
    OBVIOUS
  <2>1. CASE UNCHANGED solverVars \/ Sweep
    <3>1. UNCHANGED <<contexts, spare, browser, cleaner, broken>>
      BY <2>1 DEF solverVars, Sweep
    <3>2. QED
      BY <3>1 DEF SolverInv, CleanerShaped, Crashed, BuildsInside, PagesLive
  <2>2. QED
    BY <2>1, CaptchaInv, CleanerInv DEF SolverNext
<1>2. SolverInv => NoStalePage
  BY DEF SolverInv, PagesLive, NoStalePage, ToSet
<1>3. QED
  BY <1>1, <1>2, SolverInitInv, PTL DEF SolverSpec

-----------------------------------------------------------------------------
(* The pages of a context in a list of pages.                              *)
PagesIn(s, c) == {i \in 1 .. Len(s) : s[i] = c}

LEMMA PagesFinite == ASSUME NEW S, NEW s \in Seq(S), NEW c
                     PROVE  IsFiniteSet(PagesIn(s, c)) /\ Cardinality(PagesIn(s, c)) \in Nat
<1>1. Len(s) \in Nat
  BY LenProperties
<1>2. IsFiniteSet(1 .. Len(s)) /\ PagesIn(s, c) \in SUBSET (1 .. Len(s))
  BY <1>1, FS_Interval DEF PagesIn
<1>3. IsFiniteSet(PagesIn(s, c))
  BY <1>2, FS_Subset
<1>4. QED
  BY <1>3, FS_CardinalityType

LEMMA PageAppended ==
    ASSUME NEW S, NEW s \in Seq(S), NEW x \in S, NEW c
    PROVE  Cardinality(PagesIn(Append(s, x), c)) = Cardinality(PagesIn(s, c)) + (IF x = c THEN 1 ELSE 0)
<1>1. PICK n, m, t : n = Len(s) /\ m = n + 1 /\ t = Append(s, x)
  OBVIOUS
<1>2. n \in Nat /\ Len(t) = m /\ t[m] = x /\ \A i \in 1 .. n : t[i] = s[i]
  BY <1>1, AppendProperties, LenProperties
<1>3. \A i \in 1 .. m : i \in 1 .. n \/ i = m
  BY <1>1, <1>2
<1>4. m \in 1 .. m /\ m \notin 1 .. n /\ \A i \in 1 .. n : i \in 1 .. m
  BY <1>1, <1>2
<1>5. PagesIn(t, c) = PagesIn(s, c) \cup (IF x = c THEN {m} ELSE {}) /\ m \notin PagesIn(s, c)
  BY <1>1, <1>2, <1>3, <1>4 DEF PagesIn
<1>6. IsFiniteSet(PagesIn(s, c)) /\ Cardinality(PagesIn(s, c)) \in Nat
  BY PagesFinite
<1>7. Cardinality(PagesIn(s, c) \cup {m}) = Cardinality(PagesIn(s, c)) + 1
  <2>1. PICK P : P = PagesIn(s, c)
    OBVIOUS
  <2>2. IsFiniteSet(P) /\ m \notin P
    BY <1>5, <1>6, <2>1
  <2>3. Cardinality(P \cup {m}) = Cardinality(P) + 1
    BY <2>2, FS_AddElement
  <2>4. QED
    BY <2>1, <2>3
<1>8. CASE x = c
  BY <1>1, <1>5, <1>7, <1>8
<1>9. CASE x # c
  <2>1. PagesIn(t, c) = PagesIn(s, c)
    BY <1>5, <1>9
  <2>2. QED
    BY <1>1, <1>6, <1>9, <2>1
<1>10. QED
  BY <1>8, <1>9

LEMMA PageTaken ==
    ASSUME NEW S, NEW s \in Seq(S), s # <<>>, NEW c
    PROVE  Cardinality(PagesIn(s, c)) = Cardinality(PagesIn(Tail(s), c)) + (IF Head(s) = c THEN 1 ELSE 0)
<1>1. PICK n, t : n = Len(Tail(s)) /\ t = Tail(s)
  OBVIOUS
<1>2. /\ n \in Nat /\ Len(s) = n + 1 /\ t \in Seq(S) /\ Head(s) = s[1]
      /\ \A i \in 1 .. n : t[i] = s[i + 1]
  BY <1>1, HeadTailProperties, LenProperties, EmptySeq
<1>3. PICK f : f = [i \in PagesIn(t, c) |-> i + 1]
  OBVIOUS
<1> DEFINE T == PagesIn(s, c) \ {1}
<1>4. f \in [PagesIn(t, c) -> T]
  BY <1>1, <1>2, <1>3 DEF PagesIn
<1>5. \A i, j \in PagesIn(t, c) : f[i] = f[j] => i = j
  BY <1>1, <1>2, <1>3 DEF PagesIn
<1>6. ASSUME NEW j \in T PROVE \E i \in PagesIn(t, c) : f[i] = j
  <2>1. j \in 1 .. n + 1 /\ j # 1 /\ s[j] = c
    BY <1>2 DEF PagesIn
  <2>2. PICK i : i = j - 1
    OBVIOUS
  <2>3. i \in 1 .. n /\ i + 1 = j
    BY <1>2, <2>1, <2>2
  <2>4. i \in PagesIn(t, c) /\ f[i] = j
    BY <1>1, <1>2, <1>3, <2>1, <2>3 DEF PagesIn
  <2>5. QED
    BY <2>4
<1> HIDE DEF T
<1>7. f \in Bijection(PagesIn(t, c), T)
  <2>1. f \in Injection(PagesIn(t, c), T)
    BY <1>4, <1>5, Zenon DEF Injection, IsInjective
  <2>2. f \in Surjection(PagesIn(t, c), T)
    BY <1>4, <1>6, Zenon DEF Surjection
  <2>3. QED
    BY <2>1, <2>2 DEF Bijection
<1>8. Cardinality(T) = Cardinality(PagesIn(t, c))
  <2>1. IsFiniteSet(PagesIn(t, c)) /\ ExistsBijection(PagesIn(t, c), T)
    BY <1>2, <1>7, PagesFinite, Zenon DEF ExistsBijection
  <2>2. QED
    BY <2>1, FS_Bijection
<1>9. 1 \in PagesIn(s, c) <=> Head(s) = c
  BY <1>2 DEF PagesIn
<1>10. Cardinality(T) = Cardinality(PagesIn(s, c)) - (IF 1 \in PagesIn(s, c) THEN 1 ELSE 0)
  <2>1. IsFiniteSet(PagesIn(s, c))
    BY PagesFinite
  <2>2. QED
    <3>1. PICK P : P = PagesIn(s, c)
      OBVIOUS
    <3>2. Cardinality(P \ {1}) = IF 1 \in P THEN Cardinality(P) - 1 ELSE Cardinality(P)
      BY <2>1, <3>1, FS_RemoveElement
    <3>3. Cardinality(P) \in Nat
      BY <3>1, PagesFinite
    <3>4. QED
      BY <3>1, <3>2, <3>3 DEF T
<1>11. Cardinality(PagesIn(s, c)) \in Nat /\ Cardinality(PagesIn(t, c)) \in Nat
  BY <1>2, PagesFinite
<1>12. QED
  BY <1>1, <1>8, <1>9, <1>10, <1>11

\* Each context has its share of the pool that is built first.
LEMMA FirstShares == ASSUME NEW c \in 1 .. Threads PROVE Cardinality(PagesIn(FullPool, c)) <= PagesPer
<1>1. Threads \in Nat /\ PagesPer \in Nat /\ PagesPer > 0 /\ AllPages \in Nat /\ Len(FullPool) = AllPages
  BY SolverAssumption DEF AllPages, FullPool
<1>2. PICK a, b : a = (c - 1) * PagesPer /\ b = c * PagesPer
  OBVIOUS
<1>3. a \in Int /\ b \in Int /\ b = a + PagesPer
  BY <1>1, <1>2
<1>4. ASSUME NEW i \in PagesIn(FullPool, c) PROVE i \in a + 1 .. b
  <2>1. i \in 1 .. AllPages /\ 1 + (i - 1) \div PagesPer = c
    BY <1>1, <1>4 DEF PagesIn, FullPool
  <2>2. PICK m : m = (i - 1) % PagesPer
    OBVIOUS
  <2>3. m \in 0 .. PagesPer - 1 /\ i - 1 = ((i - 1) \div PagesPer) * PagesPer + m
    BY <1>1, <2>1, <2>2
  <2>4. (i - 1) \div PagesPer = c - 1
    BY <1>1, <2>1
  <2>5. i - 1 = a + m
    BY <1>2, <2>3, <2>4
  <2>6. QED
    BY <1>1, <1>3, <2>1, <2>3, <2>5
<1>5. a + 1 \in Int
  BY <1>3
<1>6. IsFiniteSet(a + 1 .. b) /\ Cardinality(a + 1 .. b) = IF a + 1 > b THEN 0 ELSE b - (a + 1) + 1
  BY <1>3, <1>5, FS_Interval
<1>7. PagesIn(FullPool, c) \in SUBSET (a + 1 .. b)
  BY <1>4
<1>8. Cardinality(PagesIn(FullPool, c)) <= Cardinality(a + 1 .. b)
  BY <1>6, <1>7, FS_Subset
<1>9. Cardinality(PagesIn(FullPool, c)) \in Nat
  BY FirstPages, PagesFinite
<1>10. QED
  BY <1>1, <1>3, <1>6, <1>8, <1>9

(* Nothing leaves its type, and no context gets more pages than its share: *)
(* while one is built, the pages to come count too.  What is left of older *)
(* contexts is few enough for a new one to get a number of its own.        *)
CaptchaPlaces == {"idle", "refused", "wait", "open", "hold", "leave", "done"}
CaptchaSorts == {"turnstile", "proxied", "clearance", "aws", "recaptcha"}
Captcha == [at : CaptchaPlaces, kind : CaptchaSorts, ctx : ContextIds \cup {Private}, proxy : BOOLEAN]

ServiceTyped ==
    /\ contexts \in SUBSET ContextIds /\ spare \in Seq(ContextIds)
    /\ browser \in BOOLEAN /\ broken \in 0 .. MaxCrashes
    /\ task \in [Captchas -> Captcha]
    /\ \A t \in Captchas : task[t].at \notin {"hold", "leave"} => task[t].ctx = Private
    /\ result \in [Captchas -> {"none", "process", "late", "final"}] /\ age \in [Captchas -> 0 .. 2]
    /\ cleaner \in [at : {"sleep", "await", "close", "build", "restart"}, taken : Nat, old : SUBSET ContextIds,
                    new : ContextIds \cup {Private}, left : Nat, again : BOOLEAN]

Toll(c) == IF c = cleaner.new THEN cleaner.left ELSE 0
Share(c) == Cardinality(PagesIn(spare, c)) + Cardinality(Holding(c)) + Toll(c) <= PagesPer
Shares == \A c \in contexts : Share(c)

Rebuilds ==
    /\ Cardinality(contexts) <= Threads
    /\ cleaner.left > 0 => cleaner.at = "build" /\ cleaner.new \in contexts
    /\ cleaner.at = "restart" => ~cleaner.again
    /\ cleaner.at \in {"build", "restart"} => cleaner.old = {}

Leftovers ==
    cleaner.at \in {"build", "restart"} =>
        \E stale \in SUBSET ContextIds :
            /\ Cardinality(stale) <= Threads /\ ToSet(spare) \subseteq contexts \cup stale
            /\ ~cleaner.again => stale = {}

ServiceInv == ServiceTyped /\ Shares /\ Rebuilds /\ Leftovers

LEMMA IdsFinite ==
    /\ IsFiniteSet(ContextIds) /\ Private \notin ContextIds /\ Cardinality(Captchas) \in Nat
    /\ Cardinality(ContextIds) = 3 * Threads + Cardinality(Captchas)
    /\ 1 .. Threads \subseteq ContextIds
<1>1. Cardinality(Captchas) \in Nat
  BY SolverAssumption, FS_CardinalityType
<1>2. PICK n : n = 3 * Threads + Cardinality(Captchas)
  OBVIOUS
<1>3. n \in Nat /\ n >= 1 /\ n >= Threads /\ Threads \in Nat
  BY <1>1, <1>2, SolverAssumption
<1>4. IsFiniteSet(1 .. n) /\ Cardinality(1 .. n) = IF 1 > n THEN 0 ELSE n - 1 + 1
  BY <1>3, FS_Interval
<1>5. QED
  BY <1>1, <1>2, <1>3, <1>4 DEF ContextIds, Private

LEMMA HoldersFinite == ASSUME NEW c PROVE IsFiniteSet(Holding(c)) /\ Cardinality(Holding(c)) \in Nat
<1>1. Holding(c) \in SUBSET Captchas
  BY DEF Holding
<1>2. IsFiniteSet(Holding(c))
  BY <1>1, SolverAssumption, FS_Subset
<1>3. QED
  BY <1>2, FS_CardinalityType

\* A new context gets a number that nobody refers to.
LEMMA FreshIsNew ==
    ASSUME ServiceInv, cleaner.at = "build", Cardinality(contexts) < Threads
    PROVE  Fresh \in ContextIds /\ Fresh \notin Referred
<1> SUFFICES ASSUME ContextIds \subseteq Referred PROVE FALSE
  BY DEF Fresh
<1>1. PICK f : f = [t \in Captchas |-> task[t].ctx]
  OBVIOUS
<1>2. PICK C : C = {task[t].ctx : t \in Captchas}
  OBVIOUS
<1>3. f \in Surjection(Captchas, C)
  BY <1>1, <1>2 DEF Surjection
<1>4. IsFiniteSet(C) /\ Cardinality(C) <= Cardinality(Captchas)
  BY <1>3, FS_Surjection, SolverAssumption
<1>5. PICK stale \in SUBSET ContextIds : Cardinality(stale) <= Threads /\ ToSet(spare) \subseteq contexts \cup stale
  BY DEF ServiceInv, Leftovers
<1>6. IsFiniteSet(stale) /\ IsFiniteSet(contexts)
  BY <1>5, IdsFinite, FS_Subset DEF ServiceInv, ServiceTyped
<1>7. ContextIds \subseteq (contexts \cup stale) \cup C
  BY <1>2, <1>5 DEF Referred, ServiceInv, Rebuilds
<1>8. PICK D : D = contexts \cup stale
  OBVIOUS
<1>9. IsFiniteSet(D) /\ Cardinality(D) = Cardinality(contexts) + Cardinality(stale) - Cardinality(contexts \cap stale)
  BY <1>6, <1>8, FS_Union
<1>10. IsFiniteSet(D \cup C) /\ Cardinality(D \cup C) = Cardinality(D) + Cardinality(C) - Cardinality(D \cap C)
  BY <1>4, <1>9, FS_Union
<1>11. Cardinality(ContextIds) <= Cardinality(D \cup C)
  BY <1>7, <1>8, <1>10, FS_Subset
<1>12. Cardinality(contexts \cap stale) \in Nat /\ Cardinality(D \cap C) \in Nat
  <2>1. IsFiniteSet(contexts \cap stale) /\ IsFiniteSet(D \cap C)
    BY <1>6, <1>9, FS_Intersection
  <2>2. QED
    BY <2>1, FS_CardinalityType
<1>13. /\ Cardinality(contexts) \in Nat /\ Cardinality(stale) \in Nat /\ Cardinality(C) \in Nat
       /\ Cardinality(D) \in Nat /\ Cardinality(D \cup C) \in Nat
  BY <1>4, <1>6, <1>9, <1>10, FS_CardinalityType
<1>14. QED
  BY <1>4, <1>5, <1>9, <1>10, <1>11, <1>12, <1>13, IdsFinite, SolverAssumption

LEMMA ServiceStart == SolverInit => ServiceInv
<1> SUFFICES ASSUME SolverInit PROVE ServiceInv
  OBVIOUS
<1>1. /\ contexts = 1 .. Threads /\ spare = FullPool /\ browser = TRUE /\ broken = 0
      /\ task = [t \in Captchas |-> NotAsked] /\ cleaner = Sleeping
      /\ result = [t \in Captchas |-> "none"] /\ age = [t \in Captchas |-> 0]
  BY DEF SolverInit
<1>2. FullPool \in Seq(ContextIds)
  <2>1. Len(FullPool) \in Nat /\ \A i \in 1 .. Len(FullPool) : FullPool[i] \in 1 .. Threads
    BY FirstPages, ElementOfSeq, LenProperties
  <2>2. \A i \in 1 .. Len(FullPool) : FullPool[i] \in ContextIds
    BY <2>1, IdsFinite
  <2>3. FullPool = [i \in 1 .. Len(FullPool) |-> FullPool[i]]
    BY FirstPages, LenProperties
  <2>4. QED
    BY <2>1, <2>2, <2>3, SeqDef
<1>3. ServiceTyped
  <2>1. NotAsked \in Captcha /\ NotAsked.at = "idle" /\ NotAsked.ctx = Private
    BY DEF NotAsked, Captcha, CaptchaPlaces, CaptchaSorts
  <2>2. cleaner \in [at : {"sleep", "await", "close", "build", "restart"}, taken : Nat, old : SUBSET ContextIds,
                     new : ContextIds \cup {Private}, left : Nat, again : BOOLEAN]
    BY <1>1 DEF Sleeping
  <2>3. QED
    BY <1>1, <1>2, <2>1, <2>2, IdsFinite, SolverAssumption DEF ServiceTyped
<1>4. ASSUME NEW c \in contexts PROVE Share(c)
  <2>1. Holding(c) = {}
    BY <1>1 DEF Holding, NotAsked
  <2>2. Cardinality(Holding(c)) = 0 /\ Toll(c) = 0
    BY <1>1, <2>1, FS_EmptySet DEF Toll, Sleeping
  <2>3. Cardinality(PagesIn(spare, c)) <= PagesPer /\ Cardinality(PagesIn(spare, c)) \in Nat
    BY <1>1, FirstShares, FirstPages, PagesFinite
  <2>4. QED
    BY <2>2, <2>3 DEF Share
<1>5. Cardinality(contexts) <= Threads
  <2>1. Threads \in Nat
    BY SolverAssumption
  <2>2. Cardinality(1 .. Threads) = IF 1 > Threads THEN 0 ELSE Threads - 1 + 1
    BY <2>1, FS_Interval
  <2>3. QED
    BY <1>1, <2>1, <2>2
<1>6. QED
  BY <1>1, <1>3, <1>4, <1>5 DEF ServiceInv, Shares, Rebuilds, Leftovers, Sleeping

LEMMA PagesListed ==
    ASSUME NEW S, NEW s \in Seq(S)
    PROVE  /\ ToSet(s) \subseteq S /\ ToSet(<<>>) = {}
           /\ \A x \in S : Append(s, x) \in Seq(S) /\ ToSet(Append(s, x)) \subseteq ToSet(s) \cup {x}
           /\ s # <<>> => Tail(s) \in Seq(S) /\ ToSet(Tail(s)) \subseteq ToSet(s) /\ Head(s) \in ToSet(s)
<1>1. Len(s) \in Nat /\ DOMAIN s = 1 .. Len(s) /\ \A i \in 1 .. Len(s) : s[i] \in S
  BY LenProperties, ElementOfSeq
<1>2. ToSet(s) \subseteq S /\ ToSet(<<>>) = {}
  BY <1>1 DEF ToSet
<1>3. ASSUME NEW x \in S PROVE Append(s, x) \in Seq(S) /\ ToSet(Append(s, x)) \subseteq ToSet(s) \cup {x}
  <2>1. PICK t : t = Append(s, x)
    OBVIOUS
  <2>2. /\ t \in Seq(S) /\ Len(t) = Len(s) + 1 /\ t[Len(s) + 1] = x /\ \A i \in 1 .. Len(s) : t[i] = s[i]
        /\ DOMAIN t = 1 .. Len(t)
    BY <2>1, AppendProperties, LenProperties
  <2>3. \A i \in 1 .. Len(s) + 1 : i \in 1 .. Len(s) \/ i = Len(s) + 1
    BY <1>1
  <2>4. ToSet(t) \subseteq ToSet(s) \cup {x}
    BY <1>1, <2>2, <2>3 DEF ToSet
  <2>5. QED
    BY <2>1, <2>2, <2>4
<1>4. ASSUME s # <<>> PROVE Tail(s) \in Seq(S) /\ ToSet(Tail(s)) \subseteq ToSet(s) /\ Head(s) \in ToSet(s)
  <2>1. /\ Tail(s) \in Seq(S) /\ Len(Tail(s)) = Len(s) - 1 /\ \A i \in 1 .. Len(s) - 1 : Tail(s)[i] = s[i + 1]
        /\ Head(s) = s[1] /\ Len(s) > 0
    BY <1>1, <1>4, HeadTailProperties, EmptySeq
  <2>2. DOMAIN Tail(s) = 1 .. Len(s) - 1
    BY <2>1, LenProperties
  <2>3. \A i \in 1 .. Len(s) - 1 : i + 1 \in 1 .. Len(s)
    BY <1>1
  <2>4. 1 \in 1 .. Len(s)
    BY <1>1, <2>1
  <2>5. QED
    BY <1>1, <2>1, <2>2, <2>3, <2>4 DEF ToSet
<1>5. QED
  BY <1>2, <1>3, <1>4

\* Who changes is the only one who changes what it holds.
LEMMA CaptchaChanges ==
    ASSUME ServiceTyped, NEW t \in Captchas, NEW x \in Captcha, task' = [task EXCEPT ![t] = x],
           x.at \notin {"hold", "leave"} => x.ctx = Private
    PROVE  /\ task' \in [Captchas -> Captcha]
           /\ \A u \in Captchas : task'[u].at \notin {"hold", "leave"} => task'[u].ctx = Private
           /\ \A c : Holding(c)' = (Holding(c) \ {t}) \cup (IF x.at \in {"hold", "leave"} /\ x.ctx = c THEN {t} ELSE {})
<1>1. task'[t] = x /\ \A u \in Captchas \ {t} : task'[u] = task[u]
  BY DEF ServiceTyped
<1>2. ASSUME NEW c PROVE Holding(c)' = (Holding(c) \ {t}) \cup (IF x.at \in {"hold", "leave"} /\ x.ctx = c THEN {t} ELSE {})
  BY <1>1 DEF Holding
<1>3. QED
  BY <1>1, <1>2 DEF ServiceTyped

\* A step of a captcha puts no page into the pool but one of a context that
\* counts, and what the pool has less its holders have more at most.
LEMMA CaptchaServes ==
    ASSUME ServiceInv, UNCHANGED <<contexts, cleaner, browser, broken>>, ServiceTyped',
           ToSet(spare') \subseteq ToSet(spare) \cup contexts,
           \A c \in contexts : Cardinality(PagesIn(spare', c)) + Cardinality(Holding(c)')
                                   <= Cardinality(PagesIn(spare, c)) + Cardinality(Holding(c))
    PROVE  ServiceInv'
<1>1. Shares'
  <2>1. SUFFICES ASSUME NEW c \in contexts PROVE Share(c)'
    BY DEF Shares
  <2>2. Share(c) /\ Toll(c)' = Toll(c)
    BY DEF ServiceInv, Shares, Toll
  <2>3. spare \in Seq(ContextIds) /\ spare' \in Seq(ContextIds)
    BY DEF ServiceInv, ServiceTyped
  <2>4. /\ Cardinality(PagesIn(spare, c)) \in Nat /\ Cardinality(PagesIn(spare', c)) \in Nat
        /\ Cardinality(Holding(c)) \in Nat
    BY <2>3, PagesFinite, HoldersFinite
  <2>5. Cardinality(Holding(c)') \in Nat
    <3>1. Holding(c)' \in SUBSET Captchas
      BY DEF Holding
    <3>2. QED
      BY <3>1, SolverAssumption, FS_Subset, FS_CardinalityType
  <2>6. Toll(c) \in Nat /\ PagesPer \in Nat
    BY SolverAssumption DEF Toll, ServiceInv, ServiceTyped
  <2>7. Share(c)' <=> Cardinality(PagesIn(spare', c)) + Cardinality(Holding(c)') + Toll(c) <= PagesPer
    BY <2>2 DEF Share
  <2>8. QED
    BY <2>2, <2>4, <2>5, <2>6, <2>7 DEF Share
<1>2. Rebuilds'
  BY DEF ServiceInv, Rebuilds
<1>3. Leftovers'
  <2>1. SUFFICES ASSUME cleaner.at \in {"build", "restart"}
                 PROVE  \E stale \in SUBSET ContextIds :
                            /\ Cardinality(stale) <= Threads /\ ToSet(spare') \subseteq contexts \cup stale
                            /\ ~cleaner.again => stale = {}
    BY DEF Leftovers
  <2>2. PICK stale \in SUBSET ContextIds :
            /\ Cardinality(stale) <= Threads /\ ToSet(spare) \subseteq contexts \cup stale
            /\ ~cleaner.again => stale = {}
    BY <2>1 DEF ServiceInv, Leftovers
  <2>3. QED
    BY <2>2
<1>4. QED
  BY <1>1, <1>2, <1>3 DEF ServiceInv

\* What is answered or aged changes no page.
LEMMA PollsTouchNothing ==
    ASSUME ServiceInv, UNCHANGED <<contexts, spare, browser, task, cleaner, broken>>,
           result' \in [Captchas -> {"none", "process", "late", "final"}], age' \in [Captchas -> 0 .. 2]
    PROVE  ServiceInv'
<1>1. ServiceTyped'
  BY DEF ServiceInv, ServiceTyped
<1>2. \A c : Holding(c)' = Holding(c) /\ Toll(c)' = Toll(c)
  BY DEF Holding, Toll
<1>3. Shares'
  BY <1>2 DEF ServiceInv, Shares, Share
<1>4. Rebuilds' /\ Leftovers'
  BY DEF ServiceInv, Rebuilds, Leftovers
<1>5. QED
  BY <1>1, <1>3, <1>4 DEF ServiceInv

LEMMA CaptchaShares ==
    ASSUME ServiceInv, NEW t \in Captchas, TaskNext(t)
    PROVE  ServiceInv'
<1> USE DEF ServiceInv
<1>1. PICK w : w = task[t]
  OBVIOUS
<1>2. /\ w \in Captcha /\ (w.at \notin {"hold", "leave"} => w.ctx = Private)
      /\ spare \in Seq(ContextIds) /\ contexts \subseteq ContextIds
  BY <1>1 DEF ServiceTyped
<1>3. \A c : IsFiniteSet(Holding(c)) /\ Cardinality(Holding(c)) \in Nat
  BY HoldersFinite
<1>4. \A c : Cardinality(PagesIn(spare, c)) \in Nat
  BY <1>2, PagesFinite
<1>5. ASSUME NEW x \in Captcha, task' = [task EXCEPT ![t] = x], x.at \notin {"hold", "leave"} => x.ctx = Private,
             x.ctx = w.ctx \/ x.ctx = Private, x.at \in {"hold", "leave"} => w.at \in {"hold", "leave"} \/ x.ctx = Private,
             UNCHANGED <<contexts, cleaner, browser, broken, spare>>,
             result' \in [Captchas -> {"none", "process", "late", "final"}], age' = age
      PROVE  ServiceInv'
  <2>1. ServiceTyped'
    BY <1>5, CaptchaChanges DEF ServiceTyped
  <2>2. ASSUME NEW c \in contexts
        PROVE  Cardinality(PagesIn(spare', c)) + Cardinality(Holding(c)') <= Cardinality(PagesIn(spare, c)) + Cardinality(Holding(c))
    <3>1. c # Private
      BY <1>2, IdsFinite
    <3>2. Holding(c)' = (Holding(c) \ {t}) \cup (IF x.at \in {"hold", "leave"} /\ x.ctx = c THEN {t} ELSE {})
      BY <1>5, CaptchaChanges
    <3>3. Holding(c)' \in SUBSET Holding(c)
      BY <1>1, <1>5, <3>1, <3>2 DEF Holding
    <3>4. Cardinality(Holding(c)') <= Cardinality(Holding(c))
      BY <1>3, <3>3, FS_Subset
    <3>5. Cardinality(Holding(c)') \in Nat
      BY <1>3, <3>3, FS_Subset, FS_CardinalityType
    <3>6. QED
      BY <1>3, <1>4, <1>5, <3>4, <3>5
  <2>3. ToSet(spare') \subseteq ToSet(spare) \cup contexts
    BY <1>5
  <2>4. QED
    BY <1>5, <2>1, <2>2, <2>3, CaptchaServes
<1>6. CASE Request(t)
  <2>1. PICK kind \in CaptchaKinds[t], at \in {"refused", "open", "wait"} :
            /\ w.at = "idle" /\ task' = [task EXCEPT ![t].at = at, ![t].kind = kind]
            /\ result' \in {result, [result EXCEPT ![t] = "process"]}
            /\ UNCHANGED <<contexts, spare, closed, browser, age, cleaner, broken>>
    BY <1>1, <1>6 DEF Request, Is
  <2>2. PICK x : x = [w EXCEPT !.at = at, !.kind = kind]
    OBVIOUS
  <2>3. kind \in CaptchaSorts
    BY SolverAssumption DEF CaptchaSorts
  <2>4. x \in Captcha /\ x.ctx = w.ctx /\ x.at = at
    BY <1>2, <2>2, <2>3 DEF Captcha, CaptchaPlaces
  <2>5. task' = [task EXCEPT ![t] = x]
    BY <1>1, <2>1, <2>2, Zenon
  <2>6. result' \in [Captchas -> {"none", "process", "late", "final"}]
    BY <2>1 DEF ServiceTyped
  <2>7. QED
    BY <1>2, <1>5, <2>1, <2>4, <2>5, <2>6
<1>7. CASE Open(t)
  <2>1. PICK x : x = IF task' = [task EXCEPT ![t].at = "hold", ![t].proxy = TRUE]
                     THEN [w EXCEPT !.at = "hold", !.proxy = TRUE] ELSE [w EXCEPT !.at = "done"]
    OBVIOUS
  <2>2. /\ w.at = "open" /\ result' \in {result, [result EXCEPT ![t] = "final"]}
        /\ task' = [task EXCEPT ![t].at = "hold", ![t].proxy = TRUE] \/ task' = [task EXCEPT ![t].at = "done"]
        /\ UNCHANGED <<contexts, spare, closed, browser, age, cleaner, broken>>
    BY <1>1, <1>7 DEF Open, Is, CaptchaGoes
  <2>3. x \in Captcha /\ x.ctx = w.ctx /\ x.at \in {"hold", "done"} /\ w.ctx = Private
    BY <1>2, <2>1, <2>2 DEF Captcha, CaptchaPlaces
  <2>4. task' = [task EXCEPT ![t] = x]
    BY <1>1, <2>1, <2>2, Zenon
  <2>5. result' \in [Captchas -> {"none", "process", "late", "final"}]
    BY <2>2 DEF ServiceTyped
  <2>6. QED
    BY <1>2, <1>5, <2>2, <2>3, <2>4, <2>5
<1>8. CASE Rotate(t)
  <2>1. PICK changed \in BOOLEAN :
            /\ w.at = "hold"
            /\ task' = [task EXCEPT ![t].proxy = TRUE, ![t].ctx = IF changed THEN Private ELSE @]
            /\ UNCHANGED <<contexts, spare, cleaner, browser, result, age, broken>>
    BY <1>1, <1>8 DEF Rotate, Is
  <2>2. PICK d : d = IF changed THEN Private ELSE w.ctx
    OBVIOUS
  <2>3. PICK x : x = [w EXCEPT !.proxy = TRUE, !.ctx = d]
    OBVIOUS
  <2>4. x \in Captcha /\ x.ctx \in {Private, w.ctx} /\ x.at = "hold"
    BY <1>2, <2>1, <2>2, <2>3 DEF Captcha
  <2>5. task' = [task EXCEPT ![t] = x]
    BY <1>1, <2>1, <2>2, <2>3, Zenon
  <2>6. result' \in [Captchas -> {"none", "process", "late", "final"}]
    BY <2>1 DEF ServiceTyped
  <2>7. QED
    BY <1>2, <1>5, <2>1, <2>4, <2>5, <2>6
<1>9. CASE Solve(t)
  <2>1. /\ w.at = "hold" /\ result' = [result EXCEPT ![t] = "final"] /\ task' = [task EXCEPT ![t].at = "leave"]
        /\ UNCHANGED <<contexts, spare, closed, browser, age, cleaner, broken>>
    BY <1>1, <1>9 DEF Solve, SolveTurnstile, SolveClearance, SolveAwsToken, SolveRecaptcha, Settle, Is, CaptchaGoes
  <2>2. PICK x : x = [w EXCEPT !.at = "leave"]
    OBVIOUS
  <2>3. x \in Captcha /\ x.ctx = w.ctx /\ x.at = "leave"
    BY <1>2, <2>2 DEF Captcha, CaptchaPlaces
  <2>4. task' = [task EXCEPT ![t] = x]
    BY <1>1, <2>1, <2>2, Zenon
  <2>5. result' \in [Captchas -> {"none", "process", "late", "final"}]
    BY <2>1 DEF ServiceTyped
  <2>6. QED
    BY <1>2, <1>5, <2>1, <2>3, <2>4, <2>5
<1>10. CASE TakePage(t)
  <2>1. PICK d : d = Head(spare)
    OBVIOUS
  <2>2. /\ w.at = "wait" /\ spare # <<>> /\ spare' = Tail(spare)
        /\ task' = [task EXCEPT ![t].at = "hold", ![t].ctx = d]
        /\ UNCHANGED <<contexts, closed, browser, result, age, cleaner, broken>>
    BY <1>1, <1>10, <2>1 DEF TakePage, Is
  <2>3. PICK x : x = [w EXCEPT !.at = "hold", !.ctx = d]
    OBVIOUS
  <2>4. spare' \in Seq(ContextIds) /\ ToSet(spare') \subseteq ToSet(spare) /\ d \in ContextIds
    BY <1>2, <2>1, <2>2, PagesListed
  <2>5. x \in Captcha /\ x.ctx = d /\ x.at = "hold"
    BY <1>2, <2>3, <2>4 DEF Captcha, CaptchaPlaces
  <2>6. task' = [task EXCEPT ![t] = x]
    BY <1>1, <2>2, <2>3, Zenon
  <2>7. ServiceTyped'
    BY <2>2, <2>4, <2>5, <2>6, CaptchaChanges DEF ServiceTyped
  <2>8. ASSUME NEW c \in contexts
        PROVE  Cardinality(PagesIn(spare', c)) + Cardinality(Holding(c)') <= Cardinality(PagesIn(spare, c)) + Cardinality(Holding(c))
    <3>1. PICK H : H = Holding(c)
      OBVIOUS
    <3>2. t \notin H
      BY <1>1, <2>2, <3>1 DEF Holding
    <3>3. Holding(c)' = (Holding(c) \ {t}) \cup (IF x.at \in {"hold", "leave"} /\ x.ctx = c THEN {t} ELSE {})
      BY <2>5, <2>6, CaptchaChanges
    <3>4. IsFiniteSet(H) /\ Cardinality(H) \in Nat
      BY <1>3, <3>1
    <3>5. Cardinality(H \cup {t}) = Cardinality(H) + 1
      BY <3>2, <3>4, FS_AddElement
    <3>6. Cardinality(PagesIn(spare, c)) = Cardinality(PagesIn(spare', c)) + (IF d = c THEN 1 ELSE 0)
      BY <1>2, <2>1, <2>2, PageTaken
    <3>7. Cardinality(PagesIn(spare', c)) \in Nat
      BY <2>4, PagesFinite
    <3>8. CASE d = c
      <4>1. Holding(c)' = H \cup {t}
        BY <2>5, <3>1, <3>2, <3>3, <3>8
      <4>2. QED
        BY <3>1, <3>4, <3>5, <3>6, <3>7, <3>8, <4>1
    <3>9. CASE d # c
      <4>1. Holding(c)' = H
        BY <2>5, <3>1, <3>2, <3>3, <3>9
      <4>2. QED
        BY <3>1, <3>4, <3>6, <3>7, <3>9, <4>1
    <3>10. QED
      BY <3>8, <3>9
  <2>9. ToSet(spare') \subseteq ToSet(spare) \cup contexts
    BY <2>4
  <2>10. QED
    BY <2>2, <2>7, <2>8, <2>9, CaptchaServes
<1>11. CASE LeavePage(t)
  <2>1. PICK d : d = w.ctx
    OBVIOUS
  <2>2. /\ w.at = "leave" /\ task' = [task EXCEPT ![t].at = "done", ![t].ctx = Private]
        /\ spare' = spare \/ (d \in contexts /\ spare' = Append(spare, d))
        /\ UNCHANGED <<contexts, browser, result, age, cleaner, broken>>
    BY <1>1, <1>11, <2>1 DEF LeavePage, Is, Dropped
  <2>3. PICK x : x = [w EXCEPT !.at = "done", !.ctx = Private]
    OBVIOUS
  <2>4. x \in Captcha /\ x.ctx = Private /\ x.at = "done"
    BY <1>2, <2>3 DEF Captcha, CaptchaPlaces
  <2>5. task' = [task EXCEPT ![t] = x]
    BY <1>1, <2>2, <2>3, Zenon
  <2>6. spare' \in Seq(ContextIds) /\ ToSet(spare') \subseteq ToSet(spare) \cup contexts
    <3>1. CASE spare' = spare
      BY <1>2, <3>1
    <3>2. CASE d \in contexts /\ spare' = Append(spare, d)
      <4>1. d \in ContextIds
        BY <1>2, <3>2
      <4>2. Append(spare, d) \in Seq(ContextIds) /\ ToSet(Append(spare, d)) \subseteq ToSet(spare) \cup {d}
        BY <1>2, <4>1, PagesListed
      <4>3. QED
        BY <3>2, <4>2
    <3>3. QED
      BY <2>2, <3>1, <3>2
  <2>7. ServiceTyped'
    <3>1. x.at \notin {"hold", "leave"} => x.ctx = Private
      BY <2>4
    <3>2. /\ task' \in [Captchas -> Captcha]
          /\ \A u \in Captchas : task'[u].at \notin {"hold", "leave"} => task'[u].ctx = Private
      BY <2>4, <2>5, <3>1, CaptchaChanges
    <3>3. QED
      BY <2>2, <2>6, <3>2 DEF ServiceTyped
  <2>8. ASSUME NEW c \in contexts
        PROVE  Cardinality(PagesIn(spare', c)) + Cardinality(Holding(c)') <= Cardinality(PagesIn(spare, c)) + Cardinality(Holding(c))
    <3>1. PICK H : H = Holding(c)
      OBVIOUS
    <3>2. d = c => t \in H
      BY <1>1, <2>1, <2>2, <3>1 DEF Holding
    <3>3. Holding(c)' = H \ {t}
      <4>1. x.at \notin {"hold", "leave"} => x.ctx = Private
        BY <2>4
      <4>2. Holding(c)' = (Holding(c) \ {t}) \cup (IF x.at \in {"hold", "leave"} /\ x.ctx = c THEN {t} ELSE {})
        BY <2>4, <2>5, <4>1, CaptchaChanges
      <4>3. QED
        BY <2>4, <3>1, <4>2
    <3>4. IsFiniteSet(H) /\ Cardinality(H) \in Nat
      BY <1>3, <3>1
    <3>5. Cardinality(H \ {t}) = IF t \in H THEN Cardinality(H) - 1 ELSE Cardinality(H)
      BY <3>4, FS_RemoveElement
    <3>6. CASE spare' = spare
      BY <1>4, <3>1, <3>3, <3>4, <3>5, <3>6
    <3>7. CASE d \in contexts /\ spare' = Append(spare, d)
      <4>1. d \in ContextIds
        BY <1>2, <3>7
      <4>2. Cardinality(PagesIn(spare', c)) = Cardinality(PagesIn(spare, c)) + (IF d = c THEN 1 ELSE 0)
        BY <1>2, <3>7, <4>1, PageAppended
      <4>3. CASE d = c
        BY <1>4, <3>1, <3>2, <3>3, <3>4, <3>5, <4>2, <4>3
      <4>4. CASE d # c
        BY <1>4, <3>1, <3>3, <3>4, <3>5, <4>2, <4>4
      <4>5. QED
        BY <4>3, <4>4
    <3>8. QED
      BY <2>2, <3>6, <3>7
  <2>9. QED
    BY <2>2, <2>6, <2>7, <2>8, CaptchaServes
<1>12. CASE PollResult(t) \/ AgeResult(t)
  <2>1. /\ UNCHANGED <<contexts, spare, browser, task, cleaner, broken>>
        /\ result' \in {result, [result EXCEPT ![t] = "none"]}
        /\ age' = age \/ (age[t] < 2 /\ age' = [age EXCEPT ![t] = @ + 1])
    BY <1>12 DEF PollResult, AgeResult
  <2>2. result' \in [Captchas -> {"none", "process", "late", "final"}] /\ age' \in [Captchas -> 0 .. 2]
    BY <2>1 DEF ServiceTyped
  <2>3. QED
    BY <2>1, <2>2, PollsTouchNothing
<1>13. QED
  BY <1>6, <1>7, <1>8, <1>9, <1>10, <1>11, <1>12 DEF TaskNext

Cleaning == [at : {"sleep", "await", "close", "build", "restart"}, taken : Nat, old : SUBSET ContextIds,
             new : ContextIds \cup {Private}, left : Nat, again : BOOLEAN]

\* Nobody's page changes hands with the cleaner.
LEMMA PagesFewer ==
    ASSUME ServiceInv, task' = task, spare' \in Seq(ContextIds), NEW c \in contexts, Toll(c)' \in Nat,
           Cardinality(PagesIn(spare', c)) + Toll(c)' <= Cardinality(PagesIn(spare, c)) + Toll(c)
    PROVE  Share(c)'
<1>1. Share(c) /\ Holding(c)' = Holding(c)
  BY DEF ServiceInv, Shares, Holding
<1>2. spare \in Seq(ContextIds)
  BY DEF ServiceInv, ServiceTyped
<1>3. /\ Cardinality(PagesIn(spare, c)) \in Nat /\ Cardinality(PagesIn(spare', c)) \in Nat
      /\ Cardinality(Holding(c)) \in Nat
  BY <1>2, PagesFinite, HoldersFinite
<1>4. Toll(c) \in Nat /\ PagesPer \in Nat
  BY SolverAssumption DEF Toll, ServiceInv, ServiceTyped
<1>5. Share(c)' <=> Cardinality(PagesIn(spare', c)) + Cardinality(Holding(c)) + Toll(c)' <= PagesPer
  BY <1>1 DEF Share
<1>6. QED
  BY <1>1, <1>3, <1>4, <1>5 DEF Share

LEMMA NoPages == ASSUME NEW c PROVE Cardinality(PagesIn(<<>>, c)) = 0
<1>1. PagesIn(<<>>, c) = {}
  BY DEF PagesIn
<1>2. QED
  BY <1>1, FS_EmptySet

LEMMA CleanerShares ==
    ASSUME ServiceInv, CleanerNext
    PROVE  ServiceInv'
<1> USE DEF ServiceInv
<1>1. PICK k : k = cleaner
  OBVIOUS
<1>2. /\ k \in Cleaning /\ spare \in Seq(ContextIds) /\ contexts \subseteq ContextIds
      /\ (k.left > 0 => k.at = "build" /\ k.new \in contexts)
  BY <1>1 DEF ServiceTyped, Rebuilds, Cleaning
<1>3. /\ \A c : Cardinality(PagesIn(spare, c)) \in Nat /\ Toll(c) \in Nat
      /\ \A c : Cardinality(PagesIn(<<>>, c)) = 0
      /\ <<>> \in Seq(ContextIds) /\ Threads \in Nat /\ ToSet(<<>>) = {}
      /\ Cardinality({}) = 0
  <2>1. \A c : Toll(c) \in Nat
    BY <1>1, <1>2 DEF Toll, Cleaning
  <2>2. ToSet(<<>>) = {}
    BY DEF ToSet
  <2>3. QED
    BY <1>2, <2>1, <2>2, PagesFinite, NoPages, FS_EmptySet, SolverAssumption
<1>4. ASSUME NEW j \in Cleaning, cleaner' = j, spare' \in Seq(ContextIds), contexts' \in SUBSET ContextIds, browser' \in BOOLEAN,
             broken' \in 0 .. MaxCrashes, UNCHANGED <<task, result, age>>
      PROVE  ServiceTyped' /\ \A c : Toll(c)' = (IF c = j.new THEN j.left ELSE 0) /\ Toll(c)' \in Nat
  BY <1>4 DEF ServiceTyped, Cleaning, Toll
<1>5. \A c : k.left = 0 => Toll(c) = 0
  BY <1>1 DEF Toll
<1>6. CASE CleanerWakes
  <2>1. PICK j : j = [Sleeping EXCEPT !.at = "await", !.taken = Len(spare)]
    OBVIOUS
  <2>2. k.at = "sleep" /\ cleaner' = j /\ spare' = <<>> /\ UNCHANGED <<contexts, closed, browser, task, result, age, broken>>
    BY <1>1, <1>6, <2>1 DEF CleanerWakes
  <2>3. j \in Cleaning /\ j.left = 0 /\ j.at = "await"
    BY <1>2, <2>1, LenProperties DEF Sleeping, Cleaning
  <2>4. ServiceTyped' /\ \A c : Toll(c)' = 0
    BY <1>3, <1>4, <2>2, <2>3 DEF ServiceTyped
  <2>5. ASSUME NEW c \in contexts PROVE Share(c)'
    BY <1>3, <2>2, <2>4, <2>5, PagesFewer
  <2>6. Rebuilds' /\ Leftovers'
    BY <2>2, <2>3 DEF Rebuilds, Leftovers
  <2>7. QED
    BY <2>2, <2>4, <2>5, <2>6 DEF Shares
<1>7. CASE Collect
  <2>1. PICK j : j = [k EXCEPT !.taken = @ + 1]
    OBVIOUS
  <2>2. /\ k.at = "await" /\ cleaner' = j /\ spare # <<>> /\ spare' = Tail(spare)
        /\ UNCHANGED <<contexts, closed, browser, task, result, age, broken>>
    BY <1>1, <1>7, <2>1 DEF Collect
  <2>3. j \in Cleaning /\ j.left = 0 /\ j.at = "await"
    BY <1>2, <2>1, <2>2, SMTT(30) DEF Cleaning
  <2>4. spare' \in Seq(ContextIds)
    BY <1>2, <2>2, PagesListed
  <2>5. ServiceTyped' /\ \A c : Toll(c)' = 0
    BY <1>4, <2>2, <2>3, <2>4 DEF ServiceTyped
  <2>6. ASSUME NEW c \in contexts PROVE Share(c)'
    <3>1. Cardinality(PagesIn(spare, c)) = Cardinality(PagesIn(spare', c)) + (IF Head(spare) = c THEN 1 ELSE 0)
      BY <1>2, <2>2, PageTaken
    <3>2. Cardinality(PagesIn(spare', c)) \in Nat
      BY <2>4, PagesFinite
    <3>3. Cardinality(PagesIn(spare', c)) <= Cardinality(PagesIn(spare, c))
      BY <1>3, <3>1, <3>2
    <3>4. Cardinality(PagesIn(spare', c)) + Toll(c)' <= Cardinality(PagesIn(spare, c)) + Toll(c)
      BY <1>3, <2>5, <3>2, <3>3
    <3>5. QED
      BY <2>2, <2>4, <2>5, <2>6, <3>4, PagesFewer
  <2>7. Rebuilds' /\ Leftovers'
    BY <2>2, <2>3 DEF Rebuilds, Leftovers
  <2>8. QED
    BY <2>2, <2>5, <2>6, <2>7 DEF Shares
<1>8. CASE Invalidate
  <2>1. PICK j : j = [k EXCEPT !.at = "close", !.old = contexts]
    OBVIOUS
  <2>2. k.at = "await" /\ cleaner' = j /\ contexts' = {} /\ UNCHANGED <<spare, closed, browser, task, result, age, broken>>
    BY <1>1, <1>8, <2>1 DEF Invalidate
  <2>3. j \in Cleaning /\ j.left = 0 /\ j.at = "close"
    <3>1. PICK cs : cs = contexts
      OBVIOUS
    <3>2. cs \in SUBSET ContextIds /\ j = [k EXCEPT !.at = "close", !.old = cs]
      BY <1>2, <2>1, <3>1
    <3>3. k.left = 0
      BY <1>2, <2>2 DEF Cleaning
    <3>4. PICK i : i = [k EXCEPT !.at = "close"]
      OBVIOUS
    <3>5. i \in Cleaning /\ i.left = 0 /\ i.at = "close"
      BY <1>2, <3>3, <3>4 DEF Cleaning
    <3>6. j = [i EXCEPT !.old = cs]
      BY <3>2, <3>4
    <3>7. QED
      BY <3>2, <3>5, <3>6 DEF Cleaning
  <2>4. ServiceTyped'
    BY <1>2, <1>4, <2>2, <2>3 DEF ServiceTyped
  <2>5. Shares' /\ Rebuilds' /\ Leftovers'
    BY <1>3, <2>2, <2>3 DEF Shares, Rebuilds, Leftovers
  <2>6. QED
    BY <2>4, <2>5
<1>9. ASSUME NEW c \in ContextIds, CloseOld(c) PROVE ServiceInv'
  <2>1. PICK j : j = [k EXCEPT !.old = @ \ {c}]
    OBVIOUS
  <2>2. k.at = "close" /\ cleaner' = j /\ UNCHANGED <<contexts, spare, task, browser, result, age, broken>>
    BY <1>1, <1>9, <2>1 DEF CloseOld
  <2>3. j \in Cleaning /\ j.left = 0 /\ j.at = "close"
    BY <1>2, <2>1, <2>2 DEF Cleaning
  <2>4. ServiceTyped' /\ \A d : Toll(d)' = 0
    BY <1>2, <1>4, <2>2, <2>3 DEF ServiceTyped
  <2>5. ASSUME NEW d \in contexts PROVE Share(d)'
    BY <1>2, <1>3, <2>2, <2>4, <2>5, PagesFewer
  <2>6. Rebuilds' /\ Leftovers'
    BY <2>2, <2>3 DEF Rebuilds, Leftovers
  <2>7. QED
    BY <2>2, <2>4, <2>5, <2>6 DEF Shares
<1>10. CASE Discard
  <2>1. PICK j : j = [k EXCEPT !.at = "build"]
    OBVIOUS
  <2>2. /\ k.at = "close" /\ k.old = {} /\ cleaner' = j /\ spare' = <<>>
        /\ UNCHANGED <<contexts, task, browser, result, age, broken>>
    BY <1>1, <1>10, <2>1 DEF Discard
  <2>3. j \in Cleaning /\ j.left = 0 /\ j.at = "build" /\ j.old = {}
    BY <1>2, <2>1, <2>2 DEF Cleaning
  <2>4. ServiceTyped' /\ \A d : Toll(d)' = 0
    BY <1>2, <1>3, <1>4, <2>2, <2>3 DEF ServiceTyped
  <2>5. ASSUME NEW d \in contexts PROVE Share(d)'
    BY <1>3, <2>2, <2>4, <2>5, PagesFewer
  <2>6. Rebuilds'
    BY <2>2, <2>3 DEF Rebuilds
  <2>7. Leftovers'
    <3>1. Cardinality({}) <= Threads /\ ToSet(spare') \subseteq contexts' \cup {}
      BY <1>3, <2>2
    <3>2. QED
      BY <3>1 DEF Leftovers
  <2>8. QED
    BY <2>2, <2>4, <2>5, <2>6, <2>7 DEF Shares
<1>11. CASE AddContext
  <2>1. PICK n : n = Fresh
    OBVIOUS
  <2>2. PICK j : j = [k EXCEPT !.new = n, !.left = PagesPer]
    OBVIOUS
  <2>3. /\ k.at = "build" /\ k.left = 0 /\ Cardinality(contexts) < Threads /\ contexts' = contexts \cup {n}
        /\ cleaner' = j /\ UNCHANGED <<spare, closed, browser, task, result, age, broken>>
    BY <1>1, <1>11, <2>1, <2>2 DEF AddContext
  <2>4. n \in ContextIds /\ n \notin Referred
    BY <1>1, <2>1, <2>3, FreshIsNew
  <2>5. n \notin contexts /\ n \notin ToSet(spare) /\ \A t \in Captchas : task[t].ctx # n
    BY <2>4, IdsFinite DEF Referred
  <2>6. j \in Cleaning /\ j.left = PagesPer /\ j.new = n /\ j.at = "build" /\ j.old = k.old /\ j.again = k.again
    BY <1>2, <2>2, <2>3, <2>4, SolverAssumption DEF Cleaning
  <2>7. ServiceTyped' /\ \A c : Toll(c)' = (IF c = n THEN PagesPer ELSE 0)
    BY <1>2, <1>4, <2>3, <2>4, <2>6 DEF ServiceTyped
  <2>8. ASSUME NEW c \in contexts PROVE Share(c)'
    <3>1. Toll(c)' = 0 /\ spare' = spare
      BY <2>3, <2>5, <2>7
    <3>2. QED
      BY <1>2, <1>3, <2>3, <3>1, PagesFewer
  <2>9. Share(n)'
    <3>1. PagesIn(spare', n) = {}
      BY <1>2, <2>3, <2>5, LenProperties DEF PagesIn, ToSet
    <3>2. Holding(n)' = {}
      BY <2>3, <2>5 DEF Holding
    <3>3. QED
      BY <1>3, <2>7, <3>1, <3>2, SolverAssumption DEF Share
  <2>10. Rebuilds'
    <3>1. IsFiniteSet(contexts)
      BY <1>2, IdsFinite, FS_Subset
    <3>2. Cardinality(contexts') = Cardinality(contexts) + 1 /\ Cardinality(contexts) \in Nat
      BY <2>3, <2>5, <3>1, FS_AddElement, FS_CardinalityType
    <3>3. Cardinality(contexts') <= Threads
      BY <1>3, <2>3, <3>2
    <3>4. k.old = {}
      BY <1>1, <2>3 DEF Rebuilds
    <3>5. QED
      BY <2>3, <2>6, <3>3, <3>4 DEF Rebuilds
  <2>11. Leftovers'
    <3>1. PICK stale \in SUBSET ContextIds :
              /\ Cardinality(stale) <= Threads /\ ToSet(spare) \subseteq contexts \cup stale
              /\ ~k.again => stale = {}
      BY <1>1, <2>3 DEF Leftovers
    <3>2. ToSet(spare') \subseteq contexts' \cup stale /\ (~cleaner'.again => stale = {})
      BY <2>3, <2>6, <3>1
    <3>3. QED
      BY <3>1, <3>2 DEF Leftovers
  <2>12. QED
    BY <2>3, <2>7, <2>8, <2>9, <2>10, <2>11 DEF Shares
<1>12. CASE AddPage
  <2>1. PICK n : n = k.new
    OBVIOUS
  <2>2. PICK j : j = [k EXCEPT !.left = @ - 1]
    OBVIOUS
  <2>3. /\ k.at = "build" /\ k.left > 0 /\ spare' = Append(spare, n) /\ cleaner' = j
        /\ UNCHANGED <<contexts, closed, browser, task, result, age, broken>>
    BY <1>1, <1>12, <2>1, <2>2 DEF AddPage
  <2>4. n \in contexts /\ n \in ContextIds
    BY <1>2, <2>1, <2>3
  <2>5. /\ j \in Cleaning /\ j.left = k.left - 1 /\ j.new = n /\ j.at = "build" /\ j.old = k.old /\ j.again = k.again
        /\ k.left \in Nat
    BY <1>2, <2>1, <2>2, <2>3 DEF Cleaning
  <2>6. Append(spare, n) \in Seq(ContextIds) /\ ToSet(Append(spare, n)) \subseteq ToSet(spare) \cup {n}
    BY <1>2, <2>4, PagesListed
  <2>7. ServiceTyped' /\ \A c : Toll(c)' = (IF c = n THEN k.left - 1 ELSE 0) /\ Toll(c)' \in Nat
    BY <1>2, <1>4, <2>3, <2>5, <2>6 DEF ServiceTyped
  <2>8. ASSUME NEW c \in contexts PROVE Share(c)'
    <3>1. Cardinality(PagesIn(spare', c)) = Cardinality(PagesIn(spare, c)) + (IF n = c THEN 1 ELSE 0)
      BY <1>2, <2>3, <2>4, PageAppended
    <3>2. Toll(c) = IF c = n THEN k.left ELSE 0
      BY <1>1, <2>1 DEF Toll
    <3>3. Cardinality(PagesIn(spare', c)) + Toll(c)' <= Cardinality(PagesIn(spare, c)) + Toll(c)
      <4>1. CASE c = n
        BY <1>3, <2>5, <2>7, <3>1, <3>2, <4>1
      <4>2. CASE c # n
        BY <1>3, <2>7, <3>1, <3>2, <4>2
      <4>3. QED
        BY <4>1, <4>2
    <3>4. QED
      BY <2>3, <2>6, <2>7, <2>8, <3>3, PagesFewer
  <2>9. Rebuilds'
    BY <1>1, <2>3, <2>4, <2>5 DEF Rebuilds
  <2>10. Leftovers'
    <3>1. PICK stale \in SUBSET ContextIds :
              /\ Cardinality(stale) <= Threads /\ ToSet(spare) \subseteq contexts \cup stale
              /\ ~k.again => stale = {}
      BY <1>1, <2>3 DEF Leftovers
    <3>2. ToSet(spare') \subseteq contexts' \cup stale /\ (~cleaner'.again => stale = {})
      BY <2>3, <2>4, <2>5, <2>6, <3>1
    <3>3. QED
      BY <3>1, <3>2 DEF Leftovers
  <2>11. QED
    BY <2>3, <2>7, <2>8, <2>9, <2>10 DEF Shares
<1>13. ASSUME cleaner' = Sleeping, UNCHANGED <<contexts, spare, task, result, age>>, browser' \in BOOLEAN, broken' \in 0 .. MaxCrashes
       PROVE  ServiceInv'
  <2>1. Sleeping \in Cleaning /\ Sleeping.left = 0 /\ Sleeping.at = "sleep"
    BY DEF Sleeping, Cleaning
  <2>2. ServiceTyped' /\ \A c : Toll(c)' = 0
    BY <1>2, <1>4, <1>13, <2>1
  <2>3. ASSUME NEW c \in contexts PROVE Share(c)'
    BY <1>2, <1>3, <1>13, <2>2, <2>3, PagesFewer
  <2>4. Rebuilds' /\ Leftovers'
    BY <1>13, <2>1 DEF Rebuilds, Leftovers
  <2>5. QED
    BY <1>13, <2>2, <2>3, <2>4 DEF Shares
<1>14. browser \in BOOLEAN /\ broken \in 0 .. MaxCrashes /\ MaxCrashes \in Nat
  BY SolverAssumption DEF ServiceTyped
<1>15. CASE Built
  BY <1>13, <1>14, <1>15 DEF Built
<1>16. CASE BuildFails
  <2>1. PICK j : j = [k EXCEPT !.at = "restart", !.left = 0]
    OBVIOUS
  <2>2. /\ k.at = "build" /\ cleaner' = IF k.again THEN Sleeping ELSE j
        /\ UNCHANGED <<contexts, spare, closed, browser, task, result, age>> /\ broken' \in 0 .. MaxCrashes
    BY <1>1, <1>14, <1>16, <2>1 DEF BuildFails
  <2>3. CASE k.again
    BY <1>13, <1>14, <2>2, <2>3
  <2>4. CASE ~k.again
    <3>1. j \in Cleaning /\ j.left = 0 /\ j.at = "restart" /\ j.old = k.old /\ j.again = k.again /\ cleaner' = j
      BY <1>2, <2>1, <2>2, <2>4 DEF Cleaning
    <3>2. ServiceTyped' /\ \A c : Toll(c)' = 0
      BY <1>2, <1>4, <1>14, <2>2, <3>1
    <3>3. ASSUME NEW c \in contexts PROVE Share(c)'
      BY <1>2, <1>3, <2>2, <3>2, <3>3, PagesFewer
    <3>4. Rebuilds'
      BY <1>1, <2>2, <2>4, <3>1 DEF Rebuilds
    <3>5. PICK stale \in SUBSET ContextIds :
              /\ Cardinality(stale) <= Threads /\ ToSet(spare) \subseteq contexts \cup stale
              /\ ~k.again => stale = {}
      BY <1>1, <2>2 DEF Leftovers
    <3>6. Leftovers'
      BY <2>2, <2>4, <3>5 DEF Leftovers
    <3>7. QED
      BY <2>2, <3>2, <3>3, <3>4, <3>6 DEF Shares
  <2>5. QED
    BY <2>3, <2>4
<1>17. CASE RestartBrowser
  <2>1. PICK j : j = [k EXCEPT !.at = "build", !.again = TRUE]
    OBVIOUS
  <2>2. /\ k.at = "restart" /\ UNCHANGED <<spare, task, result, age>> /\ browser' \in BOOLEAN /\ broken' \in 0 .. MaxCrashes
        /\ \/ contexts' = {} /\ cleaner' = j
           \/ contexts' = contexts /\ cleaner' = Sleeping
    <3>1. k.at = "restart" /\ UNCHANGED <<spare, task, result, age>>
      BY <1>1, <1>17 DEF RestartBrowser
    <3>2. CASE browser' = TRUE /\ broken' = broken /\ contexts' = {} /\ cleaner' = [cleaner EXCEPT !.at = "build", !.again = TRUE]
      <4>1. cleaner' = j
        BY <1>1, <2>1, <3>2, Zenon
      <4>2. browser' \in BOOLEAN
        BY <3>2, Zenon
      <4>3. broken' \in 0 .. MaxCrashes
        BY <1>14, <3>2, Zenon
      <4>4. QED
        BY <3>1, <3>2, <4>1, <4>2, <4>3
    <3>3. CASE broken < MaxCrashes /\ broken' = broken + 1 /\ browser' = FALSE /\ contexts' = contexts /\ cleaner' = Sleeping
      <4>1. broken' \in 0 .. MaxCrashes
        BY <1>14, <3>3
      <4>2. browser' \in BOOLEAN
        BY <3>3, Zenon
      <4>3. QED
        BY <3>1, <3>3, <4>1, <4>2, Zenon
    <3>4. QED
      BY <1>17, <3>2, <3>3 DEF RestartBrowser
  <2>3. CASE contexts' = contexts /\ cleaner' = Sleeping
    BY <1>13, <2>2, <2>3
  <2>4. CASE contexts' = {} /\ cleaner' = j
    <3>1. j \in Cleaning /\ j.left = 0 /\ j.at = "build" /\ j.old = {} /\ j.again
      <4>1. k.old = {}
        BY <1>1, <2>2 DEF Rebuilds
      <4>2. k.left = 0
        BY <1>2, <2>2 DEF Cleaning
      <4>3. PICK i : i = [k EXCEPT !.at = "build"]
        OBVIOUS
      <4>4. i \in Cleaning /\ i.left = 0 /\ i.old = {} /\ i.at = "build"
        BY <1>2, <4>1, <4>2, <4>3 DEF Cleaning
      <4>5. j = [i EXCEPT !.again = TRUE]
        BY <2>1, <4>3
      <4>6. QED
        BY <4>4, <4>5 DEF Cleaning
    <3>2. ServiceTyped'
      BY <1>2, <1>4, <2>2, <2>4, <3>1
    <3>3. Shares' /\ Rebuilds'
      BY <1>3, <2>2, <2>4, <3>1 DEF Shares, Rebuilds
    <3>4. ToSet(spare) \subseteq contexts /\ Cardinality(contexts) <= Threads
      BY <1>1, <2>2 DEF Leftovers, Rebuilds
    <3>5. Leftovers'
      BY <1>2, <2>2, <2>4, <3>1, <3>4 DEF Leftovers
    <3>6. QED
      BY <3>2, <3>3, <3>5
  <2>5. QED
    BY <2>2, <2>3, <2>4
<1>18. QED
  BY <1>6, <1>7, <1>8, <1>9, <1>10, <1>11, <1>12, <1>15, <1>16, <1>17 DEF CleanerNext

LEMMA ServiceStep == ServiceInv /\ [SolverNext]_solverVars => ServiceInv'
<1> SUFFICES ASSUME ServiceInv, [SolverNext]_solverVars PROVE ServiceInv'
  OBVIOUS
<1>1. CASE Sweep
  <2>1. /\ UNCHANGED <<contexts, spare, browser, task, cleaner, broken, age>>
        /\ result' = [t \in Captchas |-> Swept(t)]
    BY <1>1 DEF Sweep
  <2>2. ASSUME NEW t \in Captchas PROVE Swept(t) \in {"none", "process", "late", "final"}
    BY DEF Swept, ServiceInv, ServiceTyped
  <2>3. result' \in [Captchas -> {"none", "process", "late", "final"}] /\ age' \in [Captchas -> 0 .. 2]
    BY <2>1, <2>2 DEF ServiceInv, ServiceTyped
  <2>4. QED
    BY <2>1, <2>3, PollsTouchNothing
<1>2. CASE UNCHANGED solverVars
  <2>1. /\ UNCHANGED <<contexts, spare, browser, task, cleaner, broken, age>> /\ result' = result
    BY <1>2 DEF solverVars
  <2>2. result' \in [Captchas -> {"none", "process", "late", "final"}] /\ age' \in [Captchas -> 0 .. 2]
    BY <2>1 DEF ServiceInv, ServiceTyped
  <2>3. QED
    BY <2>1, <2>2, PollsTouchNothing
<1>3. QED
  BY <1>1, <1>2, CaptchaShares, CleanerShares DEF SolverNext

\* What is closed and still referred to is a context.
LEMMA ClosedIsReferred == ASSUME ServiceInv', closed \subseteq ContextIds, [SolverNext]_solverVars PROVE closed' \subseteq ContextIds
<1>1. Referred' \subseteq ContextIds
  <2>1. contexts' \cup cleaner'.old \cup {task'[t].ctx : t \in Captchas} \subseteq ContextIds \cup {Private}
    BY DEF ServiceInv, ServiceTyped, Captcha
  <2>2. ToSet(spare') \subseteq ContextIds
    BY PagesListed DEF ServiceInv, ServiceTyped
  <2>3. QED
    BY <2>1, <2>2 DEF Referred
<1>2. closed' = closed \/ \E cs : Close(cs)
  <2>1. ASSUME NEW t \in Captchas, TaskNext(t) PROVE closed' = closed \/ \E cs : Close(cs)
    <3>1. CASE Rotate(t)
      BY <3>1 DEF Rotate
    <3>2. CASE LeavePage(t)
      BY <3>2 DEF LeavePage
    <3>3. QED
      BY <2>1, <3>1, <3>2 DEF TaskNext, Request, TakePage, Open, Solve, SolveTurnstile, SolveClearance, SolveAwsToken,
                              SolveRecaptcha, Settle, PollResult, AgeResult
  <2>2. ASSUME CleanerNext PROVE closed' = closed \/ \E cs : Close(cs)
    <3>1. ASSUME NEW c \in ContextIds, CloseOld(c) PROVE \E cs : Close(cs)
      BY <3>1 DEF CloseOld
    <3>2. CASE Discard
      BY <3>2 DEF Discard
    <3>3. CASE RestartBrowser
      BY <3>3 DEF RestartBrowser
    <3>4. QED
      BY <2>2, <3>1, <3>2, <3>3 DEF CleanerNext, CleanerWakes, Collect, Invalidate, AddContext, AddPage, Built, BuildFails
  <2>3. QED
    BY <2>1, <2>2 DEF SolverNext, Sweep, solverVars
<1>3. QED
  BY <1>1, <1>2 DEF Close

(* Every variable keeps its type, and no context that counts has more      *)
(* pages in the pool and in use than were opened in it.                    *)
THEOREM SolverTypeCorrect == SolverSpec => []SolverTypes
<1> DEFINE I == ServiceInv /\ closed \subseteq ContextIds
<1>1. SolverInit => I
  BY ServiceStart DEF SolverInit
<1>2. I /\ [SolverNext]_solverVars => I'
  BY ServiceStep, ClosedIsReferred
<1>3. I => SolverTypes
  <2> SUFFICES ASSUME I PROVE SolverTypes
    OBVIOUS
  <2>1. spare \in Seq(ContextIds)
    BY DEF ServiceInv, ServiceTyped
  <2>2. ToSet(spare) \subseteq ContextIds
    BY <2>1, PagesListed
  <2>3. ASSUME NEW c \in contexts PROVE Cardinality(PagesOf(c)) + Cardinality(Holding(c)) <= PagesPer
    <3>1. Cardinality(PagesIn(spare, c)) \in Nat /\ Cardinality(Holding(c)) \in Nat
      BY <2>1, PagesFinite, HoldersFinite
    <3>2. Toll(c) \in Nat
      BY DEF Toll, ServiceInv, ServiceTyped
    <3>3. Cardinality(PagesIn(spare, c)) + Cardinality(Holding(c)) + Toll(c) <= PagesPer
      BY DEF ServiceInv, Shares, Share
    <3>4. PagesOf(c) = PagesIn(spare, c)
      BY DEF PagesOf, PagesIn
    <3>5. QED
      BY <3>1, <3>2, <3>3, <3>4, SolverAssumption
  <2>4. QED
    BY <2>2, <2>3 DEF SolverTypes, ServiceInv, ServiceTyped, Captcha, CaptchaPlaces
<1> HIDE DEF I
<1>4. QED
  BY <1>1, <1>2, <1>3, PTL DEF SolverSpec
=============================================================================
