-------------------------- MODULE TaskEngineProofs --------------------------
(***************************************************************************)
(* Proofs about TaskEngine, for every set of tasks and workers, every      *)
(* limit and every bound: the type invariant; that no task is lost; and,   *)
(* until a dead letter is retried, that a task has one runner, that every  *)
(* entry of the queue has its durable row, and that results are kept.      *)
(***************************************************************************)
EXTENDS TaskEngine, FiniteSetTheorems, SequenceTheorems, TLAPS

-----------------------------------------------------------------------------
(* The operators.                                                          *)

LEMMA InsertedType ==
    ASSUME NEW d \in Database, NEW t \in Tasks, NEW s \in RowStatus
    PROVE  /\ Inserted(d, t, s) \in Database
           /\ Inserted(d, t, s).rows = [d.rows EXCEPT ![t] = s]
BY DEF Inserted, Database

LEMMA UpdatedType ==
    ASSUME NEW d \in Database, NEW t \in Tasks, NEW s \in RowStatus
    PROVE  /\ Updated(d, t, s) \in Database
           /\ Updated(d, t, s).rows[t] = IF d.rows[t] = "none" THEN "none" ELSE s
           /\ \A u \in Tasks \ {t} : Updated(d, t, s).rows[u] = d.rows[u]
BY InsertedType DEF Updated, Inserted, Database

LEMMA RecoveredType ==
    ASSUME NEW d \in Database, NEW t \in Tasks
    PROVE  /\ Recovered(d, t) \in Database
           /\ Recovered(d, t).rows[t] \in Terminal \cup {"none"}
           /\ \A u \in Tasks \ {t} : Recovered(d, t).rows[u] = d.rows[u]
<1>1. "error" \in RowStatus /\ "error" \in Terminal
  BY DEF RowStatus, Terminal
<1>2. QED
  BY <1>1, UpdatedType DEF Recovered

LEMMA CountOfType ==
    ASSUME NEW q, IsFiniteSet(q)
    PROVE  CountOf(q) \in [Priorities -> Nat]
<1>1. ASSUME NEW p \in Priorities
      PROVE  Cardinality({i \in q : i.prio = p}) \in Nat
  BY FS_Subset, FS_CardinalityType
<1>2. QED
  BY <1>1 DEF CountOf

LEMMA CountsType ==
    ASSUME NEW c \in [Priorities -> Nat], NEW p \in Priorities
    PROVE  /\ CountsAfterPut(c, p) \in [Priorities -> Nat]
           /\ CountsAfterGet(c, p) \in [Priorities -> Nat]
<1>1. ASSUME NEW d \in [Priorities -> Nat]
      PROVE  CountsAfterGetNowait(d, p) \in [Priorities -> Nat]
  BY DEF CountsAfterGetNowait
<1>2. QED
  BY <1>1 DEF CountsAfterPut, CountsAfterGet

\* The rows an UPDATE touches, and the entries resumed from rows, are finite.
LEMMA FiniteRows ==
    ASSUME IsFiniteSet(store), store \subseteq QueueRow, NEW t \in Tasks
    PROVE  /\ IsFiniteSet(MarkedProcessing(t))
           /\ MarkedProcessing(t) \subseteq QueueRow
           /\ IsFiniteSet(Removed(t)) /\ Removed(t) \subseteq QueueRow
<1> DEFINE S == store \ Removed(t)
           T == {[r EXCEPT !.st = "processing"] : r \in S}
           f == [r \in S |-> [r EXCEPT !.st = "processing"]]
<1>1. IsFiniteSet(Removed(t)) /\ IsFiniteSet(S)
  BY FS_Subset DEF Removed
<1>2. f \in Surjection(S, T)
  BY DEF Surjection
<1>3. IsFiniteSet(T)
  BY <1>1, <1>2, FS_Surjection DEF ExistsSurjection
<1>4. IsFiniteSet(MarkedProcessing(t))
  BY <1>1, <1>3, FS_Union DEF MarkedProcessing
<1>5. MarkedProcessing(t) \subseteq QueueRow
  BY DEF MarkedProcessing, Removed, QueueRow
<1>6. QED
  BY <1>1, <1>4, <1>5 DEF Removed

LEMMA SavedType ==
    ASSUME IsFiniteSet(store), store \subseteq QueueRow, NEW i \in Item
    PROVE  IsFiniteSet(Saved(i)) /\ Saved(i) \subseteq QueueRow
<1>1. i.task \in Tasks /\ i.prio \in Priorities /\ i.seq \in Nat
  BY DEF Item
<1>2. IsFiniteSet(Removed(i.task)) /\ Removed(i.task) \subseteq QueueRow
  BY <1>1, FiniteRows
<1> DEFINE row == [task |-> i.task, prio |-> i.prio, seq |-> i.seq, st |-> "pending"]
<1>3. row \in QueueRow
  BY <1>1 DEF QueueRow
<1>4. IsFiniteSet(Removed(i.task) \cup {row})
  BY <1>2, FS_AddElement
<1>5. QED
  BY <1>2, <1>3, <1>4 DEF Saved

LEMMA WaitingType ==
    ASSUME IsFiniteSet(store), store \subseteq QueueRow
    PROVE  /\ IsFiniteSet(Restored(Waiting))
           /\ Restored(Waiting) \subseteq Item
<1> DEFINE S == {s \in store : s.st = "pending"}
           f == [r \in S |-> [prio |-> r.prio, seq |-> r.seq, task |-> r.task,
                              resumed |-> TRUE]]
<1>1. IsFiniteSet(S)
  BY FS_Subset
<1>2. f \in Surjection(S, Waiting)
  BY DEF Surjection, Waiting
<1>3. IsFiniteSet(Waiting)
  BY <1>1, <1>2, FS_Surjection DEF ExistsSurjection
<1>4. Waiting \subseteq Item
  <2>1. ASSUME NEW r \in QueueRow
        PROVE  [prio |-> r.prio, seq |-> r.seq, task |-> r.task, resumed |-> TRUE] \in Item
    BY DEF QueueRow, Item
  <2>2. QED
    BY <2>1 DEF Waiting
<1>5. Restored(Waiting) \subseteq Waiting
  BY DEF Restored
<1>6. QED
  BY <1>3, <1>4, <1>5, FS_Subset

LEMMA TouchedType ==
    ASSUME pool \in Seq(Workers), NEW w \in Workers
    PROVE  Touched(w) \in Seq(Workers)
<1>1. CASE \E k \in DOMAIN pool : pool[k] = w
  <2> DEFINE k == CHOOSE k \in DOMAIN pool : pool[k] = w
  <2>1. k \in 1..Len(pool) /\ Len(pool) \in Nat
    BY <1>1, LenProperties
  <2>6. \A i \in 1..Len(pool) : pool[i] \in Workers
    BY ElementOfSeq
  <2> HIDE DEF k
  <2>2. SubSeq(pool, 1, k - 1) \in Seq(Workers)
    <3>1. \A i \in 1..(k - 1) : pool[i] \in Workers
      BY <2>1, <2>6
    <3>2. QED
      BY <2>1, <3>1, SubSeqProperties
  <2>3. SubSeq(pool, k + 1, Len(pool)) \in Seq(Workers)
    <3>1. \A i \in (k + 1)..Len(pool) : pool[i] \in Workers
      BY <2>1, <2>6
    <3>2. QED
      BY <2>1, <3>1, SubSeqProperties
  <2>4. RemoveAt(pool, k) \in Seq(Workers)
    BY <2>2, <2>3, ConcatProperties DEF RemoveAt
  <2>5. QED
    BY <1>1, <2>4, AppendProperties DEF Touched, k
<1>2. CASE ~\E k \in DOMAIN pool : pool[k] = w
  BY <1>2 DEF Touched
<1>3. QED
  BY <1>1, <1>2
-----------------------------------------------------------------------------
(* The type invariant.  The sets whose sizes the counters and the capacity *)
(* are computed from are finite in every state.                            *)

TypeInv == TypeOK /\ IsFiniteSet(store) /\ IsFiniteSet(kept) /\ IsFiniteSet(queue)

LEMMA TypeInit == Init => TypeInv
<1> SUFFICES ASSUME Init PROVE TypeInv
  OBVIOUS
<1> USE DEF Init
<1>1. EmptyDatabase \in Database
  BY DEF EmptyDatabase, Database, RowStatus
<1>2. IsFiniteSet({}) /\ CountOf({}) \in [Priorities -> Nat]
  BY FS_EmptySet, CountOfType
<1>3. pc \in [Workers -> WorkerState]
  BY DEF WorkerState
<1>4. job \in [Workers -> Tasks \cup {None}] /\ attempt \in [Workers -> 0..RetryMax]
  BY EngineAssumption
<1>5. pool \in Seq(Workers)
  BY EngineAssumption
<1>6. crashes \in 0..MaxCrashes /\ requeues \in 0..MaxRequeues /\ dbErrors \in 0..MaxDbErrors
  BY EngineAssumption
<1>7. QED
  BY <1>1, <1>2, <1>3, <1>4, <1>5, <1>6 DEF TypeOK, TypeInv, QueueRow, Item

LEMMA EntryType ==
    ASSUME TypeInv, NEW p \in Priorities, NEW t \in Tasks
    PROVE  Entry(p, t) \in Item /\ Entry(p, t).task = t /\ Entry(p, t).prio = p
BY DEF Entry, Item, TypeInv, TypeOK

\* What put_nowait leaves is a queue again.
LEMMA PutType ==
    ASSUME TypeInv, NEW i \in Item, Put(i)
    PROVE  /\ queue' \subseteq Item /\ IsFiniteSet(queue')
           /\ counts' \in [Priorities -> Nat]
<1>1. i.prio \in Priorities
  BY DEF Item
<1>2. QED
  BY <1>1, CountsType, FS_AddElement DEF Put, TypeInv, TypeOK

\* A refused write leaves its entry among the unsaved.
LEMMA RefusedType ==
    ASSUME TypeInv, NEW i \in Item, Refused(i)
    PROVE  unsaved' \subseteq Item /\ dbErrors' \in 0..MaxDbErrors
BY EngineAssumption DEF Refused, TypeInv, TypeOK

LEMMA CallersType ==
    ASSUME TypeInv, Callers
    PROVE  TypeInv'
<1> USE DEF tables, entries, callers, crew, bounds
<1>0. {"pending", "error"} \subseteq RowStatus
  BY DEF RowStatus, Terminal
<1>1. ASSUME NEW t \in Tasks, NEW p \in Priorities, Submit(t, p)
      PROVE  TypeInv'
  <2>1. Entry(p, t) \in Item
    BY EntryType
  <2>2. db' \in Database
    BY <1>0, <1>1, InsertedType DEF Submit, TypeInv, TypeOK
  <2>3. queue' \subseteq Item /\ IsFiniteSet(queue') /\ counts' \in [Priorities -> Nat]
    BY <1>1, <2>1, PutType DEF Submit
  <2>4. store' \subseteq QueueRow /\ IsFiniteSet(store')
    BY <1>1, <2>1, SavedType DEF Submit, TypeInv, TypeOK
  <2>5. /\ unsaved' \subseteq Item /\ saving' \subseteq Item
        /\ dbErrors' \in 0..MaxDbErrors
    BY <1>1, <2>1, RefusedType DEF Submit, TypeInv, TypeOK
  <2>6. QED
    BY <1>1, <2>1, <2>2, <2>3, <2>4, <2>5 DEF Submit, TypeInv, TypeOK
<1>2. ASSUME NEW t \in Tasks, NEW p \in Priorities, SubmitRejected(t, p)
      PROVE  TypeInv'
  <2>1. db' \in Database
    BY <1>0, <1>2, InsertedType DEF SubmitRejected, TypeInv, TypeOK
  <2>2. QED
    BY <1>2, <2>1 DEF SubmitRejected, TypeInv, TypeOK
<1>3. ASSUME NEW i \in saving, SubmitSaved(i) \/ SubmitNotSaved(i)
      PROVE  TypeInv'
  <2>1. CASE SubmitSaved(i)
    BY <2>1 DEF SubmitSaved, TypeInv, TypeOK
  <2>2. CASE SubmitNotSaved(i)
    <3>1. unsaved' \subseteq Item /\ dbErrors' \in 0..MaxDbErrors
      BY <2>2, RefusedType DEF SubmitNotSaved, TypeInv, TypeOK
    <3>2. QED
      BY <2>2, <3>1 DEF SubmitNotSaved, TypeInv, TypeOK
  <2>3. QED
    BY <1>3, <2>1, <2>2
<1>4. ASSUME NEW t \in Tasks, Requeue(t)
      PROVE  TypeInv'
  <2> DEFINE i == Entry(NormalPriority, t)
  <2>1. i \in Item
    BY EntryType, EngineAssumption
  <2>2. requeues' \in 0..MaxRequeues
    BY <1>4, EngineAssumption DEF Requeue, TypeInv, TypeOK
  <2>3. CASE CanPut(queue, counts, NormalPriority)
    <3>1. db' \in Database /\ Put(i)
      BY <1>0, <1>4, <2>3, UpdatedType DEF Requeue, TypeInv, TypeOK
    <3>2. queue' \subseteq Item /\ IsFiniteSet(queue') /\ counts' \in [Priorities -> Nat]
      BY <3>1, <2>1, PutType
    <3>3. requeueing' \subseteq Item /\ stranded' \subseteq Tasks
      BY <1>4, <2>1, <2>3 DEF Requeue, TypeInv, TypeOK
    <3>4. store' \subseteq QueueRow /\ IsFiniteSet(store')
      BY <1>4, <2>1, <2>3, SavedType DEF Requeue, TypeInv, TypeOK
    <3>5. unsaved' \subseteq Item /\ dbErrors' \in 0..MaxDbErrors
      BY <1>4, <2>1, <2>3, RefusedType DEF Requeue, TypeInv, TypeOK
    <3>6. QED
      BY <1>4, <2>2, <3>1, <3>2, <3>3, <3>4, <3>5 DEF Requeue, TypeInv, TypeOK
  <2>4. CASE ~CanPut(queue, counts, NormalPriority)
    <3>1. db' \in Database
      BY <1>0, <1>4, <2>4, UpdatedType DEF Requeue, RolledBack, TypeInv, TypeOK
    <3>2. UNCHANGED <<store, queue, counts, requeueing, unsaved, stranded, dbErrors>>
      BY <1>4, <2>4 DEF Requeue
    <3>3. QED
      BY <1>4, <2>2, <3>1, <3>2 DEF Requeue, TypeInv, TypeOK
  <2>5. QED
    BY <2>3, <2>4
<1>5. ASSUME NEW i \in requeueing, RequeueSaved(i) \/ RequeueNotSaved(i)
      PROVE  TypeInv'
  <2>1. CASE RequeueSaved(i)
    <3>1. db' \in Database
      BY <2>1 DEF RequeueSaved, Database, TypeInv, TypeOK
    <3>2. QED
      BY <2>1, <3>1 DEF RequeueSaved, TypeInv, TypeOK
  <2>2. CASE RequeueNotSaved(i)
    <3>1. unsaved' \subseteq Item /\ dbErrors' \in 0..MaxDbErrors
      BY <2>2, RefusedType DEF RequeueNotSaved, TypeInv, TypeOK
    <3>2. QED
      BY <2>2, <3>1 DEF RequeueNotSaved, TypeInv, TypeOK
  <2>3. QED
    BY <1>5, <2>1, <2>2
<1>6. QED
  BY <1>1, <1>2, <1>3, <1>4, <1>5 DEF Callers
LEMMA LetGoType ==
    ASSUME TypeInv, NEW w \in Workers, NEW label \in WorkerState, LetGo(w, label)
    PROVE  /\ pc' \in [Workers -> WorkerState]
           /\ job' \in [Workers -> Tasks \cup {None}]
           /\ attempt' \in [Workers -> 0..RetryMax]
           /\ processing' \in Int
<1>1. 0 \in 0..RetryMax
  BY EngineAssumption
<1>2. QED
  BY <1>1 DEF LetGo, Goto, TypeInv, TypeOK

LEMMA GotoType ==
    ASSUME TypeInv, NEW w \in Workers, NEW label \in WorkerState, Goto(w, label)
    PROVE  pc' \in [Workers -> WorkerState]
BY DEF Goto, TypeInv, TypeOK

\* A worker that is busy holds a task.
Holding == \A w \in Workers : pc[w] \in Busy => job[w] \in Tasks

LEMMA ProcessType ==
    ASSUME TypeInv, Holding, NEW w \in Workers, Process(w)
    PROVE  TypeInv'
<1> USE DEF tables, entries, callers, crew, bounds
<1>0. /\ {"idle", "mark", "token", "gen", "unqueue", "post_completed", "post_error"}
             \subseteq WorkerState
      /\ \A status \in Terminal : Cleaning(status) \in WorkerState
      /\ {"processing", "error"} \cup Terminal \subseteq RowStatus
  BY DEF WorkerState, Busy, InProcess, InHandler, Cleaning, RowStatus, Terminal
<1>h. pc[w] \in Busy => job[w] \in Tasks
  BY DEF Holding
<1>1. CASE ReadRow(w)
  <2>1. job[w] \in Tasks
    BY <1>h, <1>1 DEF ReadRow, Busy, InProcess
  <2>2. CASE db.rows[job[w]] = "none"
    <3>1. LetGo(w, "idle") /\ UNCHANGED <<db, store>>
      BY <1>1, <2>2 DEF ReadRow
    <3>2. QED
      BY <1>0, <1>1, <3>1, LetGoType DEF ReadRow, TypeInv, TypeOK
  <2>3. CASE db.rows[job[w]] # "none"
    <3>1. /\ db' = Updated(db, job[w], "processing") /\ Goto(w, "mark")
          /\ store' = MarkedProcessing(job[w])
          /\ UNCHANGED <<job, attempt, processing>>
      BY <1>1, <2>3 DEF ReadRow
    <3>2. db' \in Database /\ pc' \in [Workers -> WorkerState]
      BY <1>0, <2>1, <3>1, UpdatedType, GotoType DEF TypeInv, TypeOK
    <3>3. store' \subseteq QueueRow /\ IsFiniteSet(store')
      BY <2>1, <3>1, FiniteRows DEF TypeInv, TypeOK
    <3>4. QED
      BY <1>1, <3>1, <3>2, <3>3 DEF ReadRow, TypeInv, TypeOK
  <2>4. QED
    BY <2>2, <2>3
<1>2. CASE MarkProcessing(w)
  <2>1. pc' \in [Workers -> WorkerState] /\ attempt' \in [Workers -> 0..RetryMax]
    BY <1>0, <1>2, GotoType, EngineAssumption, SMTT(30) DEF MarkProcessing, TypeInv, TypeOK
  <2>2. QED
    BY <1>2, <2>1 DEF MarkProcessing, Committed, TypeInv, TypeOK
<1>3. CASE GetToken(w)
  BY <1>0, <1>3, GotoType DEF GetToken, TypeInv, TypeOK
<1>4. CASE Retry(w)
  <2>1. attempt[w] + 1 \in 0..RetryMax
    BY <1>4, EngineAssumption DEF Retry, TypeInv, TypeOK
  <2>2. attempt' \in [Workers -> 0..RetryMax]
    BY <1>4, <2>1 DEF Retry, NextAttempt, TypeInv, TypeOK
  <2>3. QED
    BY <1>0, <1>4, <2>2, GotoType DEF Retry, TypeInv, TypeOK
<1>5. ASSUME NEW status \in Terminal, Finish(w, status)
      PROVE  TypeInv'
  <2>1. job[w] \in Tasks
    BY <1>h, <1>5 DEF Finish, Busy, InProcess
  <2>2. db' \in Database
    BY <1>0, <1>5, <2>1, UpdatedType DEF Finish, TypeInv, TypeOK
  <2>3. store' \subseteq QueueRow /\ IsFiniteSet(store')
    BY <1>5, <2>1, FiniteRows DEF Finish, TypeInv, TypeOK
  <2>4. QED
    BY <1>0, <1>5, <2>2, <2>3, GotoType DEF Finish, TypeInv, TypeOK
<1>6. ASSUME NEW status \in Terminal, Clean(w, status)
      PROVE  TypeInv'
  BY <1>0, <1>6, GotoType DEF Clean, Committed, TypeInv, TypeOK
<1>7. CASE EndCompleted(w)
  BY <1>0, <1>7, LetGoType DEF EndCompleted, TypeInv, TypeOK
<1>8. CASE EndError(w)
  <2>1. job[w] \in Tasks
    BY <1>h, <1>8 DEF EndError, Busy, InProcess
  <2>2. db' \in Database
    BY <1>8, <2>1 DEF EndError, Database, TypeInv, TypeOK
  <2>3. QED
    BY <1>0, <1>8, <2>2, LetGoType DEF EndError, TypeInv, TypeOK
<1>9. CASE Recover(w)
  <2>1. job[w] \in Tasks
    BY <1>h, <1>9 DEF Recover, Busy, InHandler
  <2>2. db' \in Database
    BY <1>9, <2>1, RecoveredType DEF Recover, TypeInv, TypeOK
  <2>3. store' \subseteq QueueRow /\ IsFiniteSet(store')
    BY <1>9, <2>1, FiniteRows DEF Recover, TypeInv, TypeOK
  <2>4. QED
    BY <1>0, <1>9, <2>2, <2>3, GotoType DEF Recover, TypeInv, TypeOK
<1>10. CASE Unqueue(w)
  BY <1>0, <1>10, LetGoType DEF Unqueue, Committed, TypeInv, TypeOK
<1>11. QED
  BY <1>1, <1>2, <1>3, <1>4, <1>5, <1>6, <1>7, <1>8, <1>9, <1>10 DEF Process

LEMMA GetType ==
    ASSUME TypeInv, NEW w \in Workers, Get(w)
    PROVE  TypeInv'
<1>1. PICK i \in Heads(queue) : Take(i) /\ job' = [job EXCEPT ![w] = i.task]
  BY DEF Get
<1>2. i \in queue /\ i.task \in Tasks /\ i.prio \in Priorities
  BY DEF Heads, Item, TypeInv, TypeOK
<1>3. queue' \subseteq Item /\ IsFiniteSet(queue') /\ counts' \in [Priorities -> Nat]
  BY <1>1, <1>2, CountsType, FS_RemoveElement DEF Take, TypeInv, TypeOK
<1>4. job' \in [Workers -> Tasks \cup {None}]
  BY <1>1, <1>2 DEF TypeInv, TypeOK
<1>5. pool' \in Seq(Workers) /\ processing' \in Int
  BY TouchedType DEF Get, TypeInv, TypeOK
<1>6. pc' \in [Workers -> WorkerState]
  BY GotoType DEF Get, WorkerState, Busy, InProcess
<1>7. QED
  BY <1>3, <1>4, <1>5, <1>6 DEF Get, TypeInv, TypeOK, tables, callers, bounds

LEMMA CutType ==
    ASSUME TypeInv, Holding, NEW w \in Workers, Abort(w) \/ HandlerRaises(w)
    PROVE  TypeInv'
<1> USE DEF tables, entries, callers, crew, bounds
<1>1. CASE Abort(w)
  BY <1>1, GotoType DEF Abort, WorkerState, Busy, InHandler, TypeInv, TypeOK
<1>2. CASE HandlerRaises(w)
  <2>1. job[w] \in Tasks
    BY <1>2 DEF HandlerRaises, Holding, Busy
  <2>2. dbErrors' \in 0..MaxDbErrors /\ "dead" \in WorkerState
    BY <1>2, EngineAssumption DEF HandlerRaises, WorkerState, TypeInv, TypeOK
  <2>3. db' \in Database /\ disk' \in Database
    BY <1>2, <2>1, RecoveredType DEF HandlerRaises, TypeInv, TypeOK
  <2>4. QED
    BY <1>2, <2>1, <2>2, <2>3, LetGoType DEF HandlerRaises, TypeInv, TypeOK
<1>3. QED
  BY <1>1, <1>2
LEMMA ScaleType ==
    ASSUME TypeInv, Holding, ScaleUp \/ Shrink
    PROVE  TypeInv'
<1> USE DEF tables, entries, callers, crew, bounds
<1>0. {"idle", "off"} \subseteq WorkerState
  BY DEF WorkerState
<1>1. CASE ScaleUp
  <2> DEFINE room == Cardinality(Workers) - Len(pool)
             free == {w \in Workers : pc[w] = "off"}
  <2>1. PICK new \in [1..Smaller(2, room) -> free] :
           /\ pool' = pool \o new
           /\ pc' = [w \in Workers |-> IF w \in {new[k] : k \in DOMAIN new}
                                       THEN "idle" ELSE pc[w]]
    BY <1>1 DEF ScaleUp
  <2>2. room \in Int /\ room > 0
    BY <1>1, EngineAssumption, FS_CardinalityType, LenProperties DEF ScaleUp, TypeInv, TypeOK
  <2>3. Smaller(2, room) \in Nat
    BY <2>2 DEF Smaller
  <2>4. new \in Seq(Workers)
    BY <2>3
  <2>5. pool' \in Seq(Workers)
    BY <2>1, <2>4, ConcatProperties DEF TypeInv, TypeOK
  <2>6. pc' \in [Workers -> WorkerState]
    BY <1>0, <2>1 DEF TypeInv, TypeOK
  <2>7. QED
    BY <1>1, <2>5, <2>6 DEF ScaleUp, TypeInv, TypeOK
<1>2. CASE Shrink
  <2> DEFINE w == Head(pool)
  <2>1. w \in Workers /\ pool' \in Seq(Workers)
    BY <1>2, HeadTailProperties DEF Shrink, TypeInv, TypeOK
  <2>2. CASE pc[w] \in Busy
    <3>1. LetGo(w, "off") /\ stranded' = stranded \cup {job[w]}
      BY <1>2, <2>2 DEF Shrink
    <3>2. job[w] \in Tasks
      BY <2>1, <2>2 DEF Holding
    <3>3. QED
      BY <1>0, <1>2, <2>1, <3>1, <3>2, LetGoType DEF Shrink, TypeInv, TypeOK
  <2>3. CASE pc[w] \notin Busy
    <3>1. Goto(w, "off") /\ UNCHANGED <<job, attempt, processing, stranded>>
      BY <1>2, <2>3 DEF Shrink
    <3>2. QED
      BY <1>0, <1>2, <2>1, <3>1, GotoType DEF Shrink, TypeInv, TypeOK
  <2>4. QED
    BY <2>2, <2>3
<1>3. QED
  BY <1>1, <1>2

LEMMA CrashType ==
    ASSUME TypeInv, Crash
    PROVE  TypeInv'
<1>1. IsFiniteSet({}) /\ CountOf({}) \in [Priorities -> Nat]
  BY FS_EmptySet, CountOfType
<1>2. crashes' \in 0..MaxCrashes
  BY EngineAssumption DEF Crash, TypeInv, TypeOK
<1>3. 0 \in 0..RetryMax /\ "off" \in WorkerState /\ <<>> \in Seq(Workers)
  BY EngineAssumption DEF WorkerState
<1>4. Unfinished(disk) \subseteq Tasks
  BY DEF Unfinished
<1>5. /\ pc' \in [Workers -> WorkerState]
      /\ job' \in [Workers -> Tasks \cup {None}]
      /\ attempt' \in [Workers -> 0..RetryMax]
  BY <1>3 DEF Crash
<1>6. /\ up' = FALSE /\ db' = disk /\ queue' = {} /\ counts' = CountOf({})
      /\ lastSeq' = 0 /\ saving' = {} /\ requeueing' = {} /\ unsaved' = {} /\ pool' = <<>>
      /\ processing' = 0 /\ stranded' = Unfinished(disk)
      /\ store' = kept /\ UNCHANGED <<disk, kept, submitted, requeues, dbErrors>>
  BY DEF Crash
<1>7. up' \in BOOLEAN /\ db' \in Database /\ disk' \in Database
  BY <1>6 DEF TypeInv, TypeOK
<1>8. /\ IsFiniteSet(store') /\ IsFiniteSet(kept') /\ IsFiniteSet(queue')
      /\ store' \subseteq QueueRow /\ kept' \subseteq QueueRow
  BY <1>1, <1>6 DEF TypeInv, TypeOK
<1>9. /\ queue' \subseteq Item /\ saving' \subseteq Item /\ requeueing' \subseteq Item
      /\ unsaved' \subseteq Item
      /\ lastSeq' \in Nat /\ processing' \in Int
  BY <1>6
<1>10. counts' \in [Priorities -> Nat] /\ pool' \in Seq(Workers)
  BY <1>1, <1>3, <1>6
<1>11. submitted' \subseteq Tasks /\ stranded' \subseteq Tasks
  BY <1>4, <1>6 DEF TypeInv, TypeOK
<1>12. requeues' \in 0..MaxRequeues /\ dbErrors' \in 0..MaxDbErrors
  BY <1>6 DEF TypeInv, TypeOK
<1>13. QED
  BY <1>2, <1>5, <1>7, <1>8, <1>9, <1>10, <1>11, <1>12 DEF TypeInv, TypeOK

LEMMA StartType ==
    ASSUME TypeInv, Start
    PROVE  TypeInv'
<1>1. db' \in Database
  <2>1. PICK old \in SUBSET Unfinished(db) :
          db' = [db EXCEPT !.rows = [t \in Tasks |-> IF t \in old THEN "error" ELSE @[t]]]
    BY DEF Start
  <2>2. "error" \in RowStatus
    BY DEF RowStatus, Terminal
  <2>3. QED
    BY <2>1, <2>2 DEF Database, TypeInv, TypeOK
<1>2. queue' \subseteq Item /\ IsFiniteSet(queue')
  BY WaitingType DEF Start, TypeInv, TypeOK
<1>3. counts' \in [Priorities -> Nat]
  BY <1>2, CountOfType DEF Start
<1>4. pc' \in [Workers -> WorkerState] /\ pool' \in Seq(Workers)
  BY EngineAssumption DEF Start, WorkerState
<1>5. stranded' \subseteq Tasks
  BY DEF Start, Unfinished
<1>6. QED
  BY <1>1, <1>2, <1>3, <1>4, <1>5 DEF Start, TypeInv, TypeOK, callers, bounds

LEMMA TypeStep ==
    ASSUME TypeInv, Holding, [Next]_vars
    PROVE  TypeInv'
<1>1. CASE Callers
  BY <1>1, CallersType
<1>2. CASE Flush
  BY <1>2 DEF Flush, TypeInv, TypeOK, entries, callers, crew, bounds
<1>3. ASSUME NEW w \in Workers, Get(w) \/ Process(w) \/ Abort(w) \/ HandlerRaises(w)
      PROVE  TypeInv'
  BY <1>3, GetType, ProcessType, CutType
<1>4. CASE ScaleUp \/ Shrink
  BY <1>4, ScaleType
<1>5. CASE Crash
  BY <1>5, CrashType
<1>6. CASE Start
  BY <1>6, StartType
<1>7. CASE UNCHANGED vars
  BY <1>7 DEF vars, tables, entries, callers, crew, bounds, TypeInv, TypeOK
<1>8. QED
  BY <1>1, <1>2, <1>3, <1>4, <1>5, <1>6, <1>7 DEF Next

-----------------------------------------------------------------------------
(* A busy worker holds a task.                                             *)

LEMMA HoldingProcess ==
    ASSUME TypeInv, Holding, NEW w \in Workers, Process(w)
    PROVE  Holding'
<1> USE DEF Holding, Goto, LetGo, TypeInv, TypeOK, Busy, InProcess, InHandler
<1>1. CASE ReadRow(w)
  BY <1>1 DEF ReadRow
<1>2. CASE MarkProcessing(w)
  BY <1>2 DEF MarkProcessing
<1>3. CASE GetToken(w)
  BY <1>3 DEF GetToken
<1>4. CASE Retry(w)
  BY <1>4 DEF Retry
<1>5. ASSUME NEW status \in Terminal, Finish(w, status)
      PROVE  Holding'
  BY <1>5 DEF Finish
<1>6. ASSUME NEW status \in Terminal, Clean(w, status)
      PROVE  Holding'
  BY <1>6 DEF Clean, Cleaning
<1>7. CASE EndCompleted(w)
  BY <1>7 DEF EndCompleted
<1>8. CASE EndError(w)
  BY <1>8 DEF EndError
<1>9. CASE Recover(w)
  BY <1>9 DEF Recover
<1>10. CASE Unqueue(w)
  BY <1>10 DEF Unqueue
<1>11. QED
  BY <1>1, <1>2, <1>3, <1>4, <1>5, <1>6, <1>7, <1>8, <1>9, <1>10 DEF Process

LEMMA HoldingStep ==
    ASSUME TypeInv, Holding, [Next]_vars
    PROVE  Holding'
<1> USE DEF Holding, Busy, InProcess, InHandler, tables, entries, callers, crew, bounds
<1>1. CASE Callers
  BY <1>1 DEF Callers, Submit, SubmitRejected, SubmitSaved, SubmitNotSaved, Requeue,
              RequeueSaved, RequeueNotSaved
<1>2. CASE Flush
  BY <1>2 DEF Flush
<1>3. ASSUME NEW w \in Workers, Get(w)
      PROVE  Holding'
  <2>1. PICK i \in Heads(queue) : job' = [job EXCEPT ![w] = i.task]
    BY <1>3 DEF Get
  <2>2. i.task \in Tasks
    BY DEF Heads, Item, TypeInv, TypeOK
  <2>3. pc' = [pc EXCEPT ![w] = "fetched"]
    BY <1>3 DEF Get, Goto
  <2>4. QED
    BY <2>1, <2>2, <2>3 DEF TypeInv, TypeOK
<1>4. ASSUME NEW w \in Workers, Process(w)
      PROVE  Holding'
  BY <1>4, HoldingProcess
<1>5. ASSUME NEW w \in Workers, Abort(w) \/ HandlerRaises(w)
      PROVE  Holding'
  BY <1>5 DEF Abort, HandlerRaises, LetGo, Goto, TypeInv, TypeOK
<1>6. CASE ScaleUp
  <2>1. /\ job' = job
        /\ \A w \in Workers : pc'[w] = "idle" \/ pc'[w] = pc[w]
    BY <1>6 DEF ScaleUp
  <2>2. QED
    BY <2>1
<1>7. CASE Shrink
  BY <1>7 DEF Shrink, LetGo, Goto, TypeInv, TypeOK
<1>8. CASE Crash \/ Start
  BY <1>8 DEF Crash, Start, TypeInv, TypeOK
<1>9. CASE UNCHANGED vars
  BY <1>9 DEF vars
<1>10. QED
  BY <1>1, <1>2, <1>3, <1>4, <1>5, <1>6, <1>7, <1>8, <1>9 DEF Next

(* Every step leaves a well-typed state, for any number of tasks, workers, *)
(* priorities, crashes, dead-letter retries and database errors.           *)
THEOREM TypeCorrect == Spec => []TypeOK
<1>1. Init => TypeInv /\ Holding
  BY TypeInit DEF Init, Holding, Busy, InProcess, InHandler
<1>2. TypeInv /\ Holding /\ [Next]_vars => (TypeInv /\ Holding)'
  BY TypeStep, HoldingStep
<1>3. TypeInv => TypeOK
  BY DEF TypeInv
<1>4. QED
  BY <1>1, <1>2, <1>3, PTL DEF Spec
-----------------------------------------------------------------------------
(* No task is lost.  NoLostTask is not inductive: a worker that has written *)
(* the outcome still holds its task, and letting go of it must not matter. *)
(* What must keep an unfinished task alive is a holder that has yet to     *)
(* write an outcome.                                                       *)

Undecided == {"fetched", "mark", "token", "gen", "recover"}
Carried(t) == \E w \in Workers : pc[w] \in Undecided /\ job[w] = t
Handed == \A t \in Unfinished(db) : Queued(t) \/ Carried(t) \/ t \in stranded

LEMMA HandedCallers ==
    ASSUME TypeInv, Handed, Callers
    PROVE  Handed'
<1> USE DEF tables, entries, callers, crew, bounds
<1>0. /\ {"pending", "error"} \subseteq RowStatus
      /\ "error" \notin {"pending", "processing"}
  BY DEF RowStatus, Terminal
<1>1. ASSUME NEW t \in Tasks, NEW p \in Priorities, Submit(t, p)
      PROVE  Handed'
  <2>1. db'.rows = [db.rows EXCEPT ![t] = "pending"]
    BY <1>0, <1>1, InsertedType DEF Submit, TypeInv, TypeOK
  <2>2. queue' = queue \cup {Entry(p, t)} /\ Entry(p, t).task = t
    BY <1>1, EntryType DEF Submit, Put
  <2>3. UNCHANGED <<pc, job, stranded>>
    BY <1>1 DEF Submit
  <2>4. QED
    BY <2>1, <2>2, <2>3 DEF Handed, Unfinished, Queued, Carried, TypeInv, TypeOK, Database
<1>2. ASSUME NEW t \in Tasks, NEW p \in Priorities, SubmitRejected(t, p)
      PROVE  Handed'
  <2>1. db'.rows = [db.rows EXCEPT ![t] = "error"]
    BY <1>0, <1>2, InsertedType DEF SubmitRejected, TypeInv, TypeOK
  <2>2. UNCHANGED <<queue, pc, job, stranded>>
    BY <1>2 DEF SubmitRejected
  <2>3. QED
    BY <1>0, <2>1, <2>2 DEF Handed, Unfinished, Queued, Carried, TypeInv, TypeOK, Database
<1>3. ASSUME NEW i \in saving, SubmitSaved(i) \/ SubmitNotSaved(i)
      PROVE  Handed'
  BY <1>3 DEF SubmitSaved, SubmitNotSaved, Handed, Unfinished, Queued, Carried
<1>4. ASSUME NEW t \in Tasks, Requeue(t)
      PROVE  Handed'
  <2> DEFINE i == Entry(NormalPriority, t)
  <2>1. i.task = t /\ UNCHANGED <<pc, job>>
    BY <1>4, EntryType, EngineAssumption DEF Requeue
  <2>2. CASE CanPut(queue, counts, NormalPriority)
    <3>1. /\ db' = Updated(db, t, "pending")
          /\ queue' = queue \cup {i} /\ stranded' = stranded \ {t}
      BY <1>4, <2>2 DEF Requeue, Put
    <3>2. \A u \in Tasks \ {t} : db'.rows[u] = db.rows[u]
      BY <1>0, <3>1, UpdatedType DEF TypeInv, TypeOK
    <3>3. QED
      BY <2>1, <3>1, <3>2 DEF Handed, Unfinished, Queued, Carried
  <2>3. CASE ~CanPut(queue, counts, NormalPriority)
    <3>1. db' = Updated(db, t, "error") /\ UNCHANGED <<queue, stranded>>
      BY <1>4, <2>3 DEF Requeue, RolledBack
    <3>2. /\ db'.rows[t] \in {"none", "error"}
          /\ \A u \in Tasks \ {t} : db'.rows[u] = db.rows[u]
      BY <1>0, <3>1, UpdatedType DEF TypeInv, TypeOK
    <3>3. QED
      BY <2>1, <3>1, <3>2 DEF Handed, Unfinished, Queued, Carried
  <2>4. QED
    BY <2>2, <2>3
<1>5. ASSUME NEW i \in requeueing, RequeueSaved(i) \/ RequeueNotSaved(i)
      PROVE  Handed'
  <2>1. db'.rows = db.rows /\ UNCHANGED <<queue, pc, job, stranded>>
    BY <1>5 DEF RequeueSaved, RequeueNotSaved, TypeInv, TypeOK, Database
  <2>2. QED
    BY <2>1 DEF Handed, Unfinished, Queued, Carried
<1>6. QED
  BY <1>1, <1>2, <1>3, <1>4, <1>5 DEF Callers

\* A worker that leaves the undecided states has decided its task's row.
LEMMA Decided ==
    ASSUME TypeInv, Handed, NEW w \in Workers, job[w] \in Tasks,
           UNCHANGED <<queue, stranded>>,
           \A v \in Workers \ {w} : pc'[v] = pc[v] /\ job'[v] = job[v],
           db'.rows[job[w]] \notin {"pending", "processing"},
           \A u \in Tasks \ {job[w]} : db'.rows[u] = db.rows[u]
    PROVE  Handed'
BY DEF Handed, Unfinished, Queued, Carried

\* A worker that was past its decision, or stays undecided, lets nothing go.
LEMMA NothingLetGo ==
    ASSUME TypeInv, Handed, NEW w \in Workers,
           UNCHANGED <<queue, stranded>>,
           \A v \in Workers \ {w} : pc'[v] = pc[v] /\ job'[v] = job[v],
           \/ pc[w] \notin Undecided
           \/ pc'[w] \in Undecided /\ job'[w] = job[w],
           db'.rows = db.rows
    PROVE  Handed'
BY DEF Handed, Unfinished, Queued, Carried

LEMMA HandedProcess ==
    ASSUME TypeInv, Holding, Handed, NEW w \in Workers, Process(w)
    PROVE  Handed'
<1> USE DEF tables, entries, callers, crew, bounds
<1>0. /\ {"processing"} \cup Terminal \subseteq RowStatus
      /\ \A s \in Terminal \cup {"none"} : s \notin {"pending", "processing"}
  BY DEF RowStatus, Terminal
<1>h. pc[w] \in Busy => job[w] \in Tasks
  BY DEF Holding
<1>g. ASSUME NEW label, Goto(w, label) \/ LetGo(w, label)
      PROVE  \A v \in Workers \ {w} : pc'[v] = pc[v]
  BY <1>g DEF Goto, LetGo, TypeInv, TypeOK
<1>l. ASSUME NEW label, LetGo(w, label)
      PROVE  \A v \in Workers \ {w} : job'[v] = job[v]
  BY <1>l DEF LetGo, TypeInv, TypeOK
<1>1. CASE ReadRow(w)
  <2>1. job[w] \in Tasks /\ UNCHANGED <<queue, stranded>>
    BY <1>h, <1>1 DEF ReadRow, Busy, InProcess
  <2>2. CASE db.rows[job[w]] = "none"
    <3>1. LetGo(w, "idle") /\ UNCHANGED db
      BY <1>1, <2>2 DEF ReadRow
    <3>2. QED
      BY <1>g, <1>l, <2>1, <2>2, <3>1, Decided
  <2>3. CASE db.rows[job[w]] # "none"
    <3>1. db' = Updated(db, job[w], "processing") /\ Goto(w, "mark") /\ UNCHANGED job
      BY <1>1, <2>3 DEF ReadRow
    <3>2. \A u \in Tasks \ {job[w]} : db'.rows[u] = db.rows[u]
      BY <1>0, <2>1, <3>1, UpdatedType DEF TypeInv, TypeOK
    <3>3. pc'[w] \in Undecided
      BY <3>1 DEF Goto, Undecided, TypeInv, TypeOK
    <3>4. QED
      BY <1>g, <2>1, <3>1, <3>2, <3>3 DEF Handed, Unfinished, Queued, Carried
  <2>4. QED
    BY <2>2, <2>3
<1>2. CASE MarkProcessing(w) \/ GetToken(w) \/ Retry(w)
  <2>1. pc'[w] \in Undecided /\ UNCHANGED <<db, job, queue, stranded>>
    BY <1>2 DEF MarkProcessing, GetToken, Retry, Goto, Undecided, TypeInv, TypeOK
  <2>2. \A v \in Workers \ {w} : pc'[v] = pc[v]
    BY <1>2, <1>g DEF MarkProcessing, GetToken, Retry
  <2>3. QED
    BY <2>1, <2>2, NothingLetGo
<1>3. ASSUME NEW status \in Terminal, Finish(w, status)
      PROVE  Handed'
  <2>1. job[w] \in Tasks /\ UNCHANGED <<job, queue, stranded>>
    BY <1>h, <1>3 DEF Finish, Busy, InProcess
  <2>2. /\ db'.rows[job[w]] \in {"none", status}
        /\ \A u \in Tasks \ {job[w]} : db'.rows[u] = db.rows[u]
    BY <1>0, <1>3, <2>1, UpdatedType DEF Finish, TypeInv, TypeOK
  <2>3. \A v \in Workers \ {w} : pc'[v] = pc[v]
    BY <1>3, <1>g DEF Finish
  <2>4. QED
    BY <1>0, <2>1, <2>2, <2>3, Decided
<1>4. ASSUME NEW status \in Terminal, Clean(w, status)
      PROVE  Handed'
  <2>1. pc[w] \notin Undecided /\ UNCHANGED <<db, job, queue, stranded>>
    BY <1>4 DEF Clean, Cleaning, Undecided
  <2>2. \A v \in Workers \ {w} : pc'[v] = pc[v]
    BY <1>4, <1>g DEF Clean
  <2>3. QED
    BY <2>1, <2>2, NothingLetGo
<1>5. CASE EndCompleted(w) \/ EndError(w) \/ Unqueue(w)
  <2>1. pc[w] \notin Undecided /\ UNCHANGED <<queue, stranded>> /\ LetGo(w, "idle")
    BY <1>5 DEF EndCompleted, EndError, Unqueue, Undecided
  <2>2. db'.rows = db.rows
    BY <1>5 DEF EndCompleted, EndError, Unqueue, TypeInv, TypeOK, Database
  <2>3. QED
    BY <1>g, <1>l, <2>1, <2>2, NothingLetGo
<1>6. CASE Recover(w)
  <2>1. job[w] \in Tasks /\ UNCHANGED <<job, queue, stranded>>
    BY <1>h, <1>6 DEF Recover, Busy, InHandler
  <2>2. /\ db'.rows[job[w]] \in Terminal \cup {"none"}
        /\ \A u \in Tasks \ {job[w]} : db'.rows[u] = db.rows[u]
    BY <1>6, <2>1, RecoveredType DEF Recover, TypeInv, TypeOK
  <2>3. \A v \in Workers \ {w} : pc'[v] = pc[v]
    BY <1>6, <1>g DEF Recover
  <2>4. QED
    BY <1>0, <2>1, <2>2, <2>3, Decided
<1>7. QED
  BY <1>1, <1>2, <1>3, <1>4, <1>5, <1>6 DEF Process

LEMMA HandedStep ==
    ASSUME TypeInv, Holding, Handed, [Next]_vars
    PROVE  Handed'
<1> USE DEF tables, entries, callers, crew, bounds
<1>1. CASE Callers
  BY <1>1, HandedCallers
<1>2. CASE Flush
  BY <1>2 DEF Flush, Handed, Unfinished, Queued, Carried
<1>3. ASSUME NEW w \in Workers, Get(w)
      PROVE  Handed'
  <2>1. PICK i \in Heads(queue) : queue' = queue \ {i} /\ job' = [job EXCEPT ![w] = i.task]
    BY <1>3 DEF Get, Take
  <2>2. pc' = [pc EXCEPT ![w] = "fetched"] /\ pc[w] = "idle" /\ UNCHANGED <<db, stranded>>
    BY <1>3 DEF Get, Goto
  <2>3. pc'[w] \in Undecided /\ job'[w] = i.task /\ pc[w] \notin Undecided
    BY <2>1, <2>2 DEF Undecided, TypeInv, TypeOK
  <2>4. \A v \in Workers \ {w} : pc'[v] = pc[v] /\ job'[v] = job[v]
    BY <2>1, <2>2 DEF TypeInv, TypeOK
  <2>5. QED
    BY <2>1, <2>2, <2>3, <2>4 DEF Handed, Unfinished, Queued, Carried
<1>4. ASSUME NEW w \in Workers, Process(w)
      PROVE  Handed'
  BY <1>4, HandedProcess
<1>5. ASSUME NEW w \in Workers, Abort(w)
      PROVE  Handed'
  <2>1. pc' = [pc EXCEPT ![w] = "recover"] /\ UNCHANGED <<db, job, queue, stranded>>
    BY <1>5 DEF Abort, Goto
  <2>2. pc'[w] \in Undecided /\ \A v \in Workers \ {w} : pc'[v] = pc[v]
    BY <2>1 DEF Undecided, TypeInv, TypeOK
  <2>3. QED
    BY <2>1, <2>2, NothingLetGo
<1>6. ASSUME NEW w \in Workers, NEW label, LetGo(w, label),
             stranded' = stranded \cup {job[w]}, UNCHANGED <<db, queue>>
      PROVE  Handed'
  <2>1. \A v \in Workers \ {w} : pc'[v] = pc[v] /\ job'[v] = job[v]
    BY <1>6 DEF LetGo, Goto, TypeInv, TypeOK
  <2>2. QED
    BY <1>6, <2>1 DEF Handed, Unfinished, Queued, Carried
<1>7. ASSUME NEW w \in Workers, HandlerRaises(w)
      PROVE  Handed'
  <2>1. CASE UNCHANGED db
    BY <1>6, <1>7, <2>1 DEF HandlerRaises
  <2>2. CASE db' = Recovered(db, job[w])
    <3>1. /\ job[w] \in Tasks /\ UNCHANGED queue
          /\ LetGo(w, "dead") /\ stranded' = stranded \cup {job[w]}
      BY <1>7 DEF HandlerRaises, Holding, Busy
    <3>2. \A v \in Workers \ {w} : pc'[v] = pc[v] /\ job'[v] = job[v]
      BY <3>1 DEF LetGo, Goto, TypeInv, TypeOK
    <3>3. \A u \in Tasks \ {job[w]} : db'.rows[u] = db.rows[u]
      BY <2>2, <3>1, RecoveredType DEF TypeInv, TypeOK
    <3>4. QED
      BY <3>1, <3>2, <3>3 DEF Handed, Unfinished, Queued, Carried
  <2>3. QED
    BY <1>7, <2>1, <2>2 DEF HandlerRaises
<1>8. CASE ScaleUp
  <2>1. UNCHANGED <<db, queue, job, stranded>>
    BY <1>8 DEF ScaleUp
  <2>2. \A w \in Workers : pc[w] # "off" => pc'[w] = pc[w]
    BY <1>8 DEF ScaleUp
  <2>3. "off" \notin Undecided
    BY DEF Undecided
  <2>4. QED
    BY <2>1, <2>2, <2>3 DEF Handed, Unfinished, Queued, Carried
<1>9. CASE Shrink
  <2> DEFINE w == Head(pool)
  <2>1. w \in Workers /\ UNCHANGED <<db, queue>>
    BY <1>9, HeadTailProperties DEF Shrink, TypeInv, TypeOK
  <2>2. CASE pc[w] \in Busy
    <3>1. LetGo(w, "off") /\ stranded' = stranded \cup {job[w]}
      BY <1>9, <2>2 DEF Shrink
    <3>2. QED
      BY <1>6, <2>1, <3>1
  <2>3. CASE pc[w] \notin Busy
    <3>1. Goto(w, "off") /\ UNCHANGED <<job, stranded>>
      BY <1>9, <2>3 DEF Shrink
    <3>2. pc[w] \notin Undecided
      BY <2>3 DEF Undecided, Busy, InProcess, InHandler
    <3>3. \A v \in Workers \ {w} : pc'[v] = pc[v]
      BY <3>1 DEF Goto, TypeInv, TypeOK
    <3>4. QED
      BY <2>1, <3>1, <3>2, <3>3, NothingLetGo
  <2>4. QED
    BY <2>2, <2>3
<1>10. CASE Crash
  BY <1>10 DEF Crash, Handed, Unfinished
<1>11. CASE Start
  <2>1. stranded' = Unfinished(db') \ {i.task : i \in queue'}
    BY <1>11 DEF Start
  <2>2. \A t \in Unfinished(db') : t \in stranded' \/ \E i \in queue' : i.task = t
    BY <2>1
  <2>3. QED
    BY <2>2 DEF Handed, Unfinished, Queued
<1>12. CASE UNCHANGED vars
  BY <1>12 DEF vars, Handed, Unfinished, Queued, Carried
<1>13. QED
  BY <1>1, <1>2, <1>3, <1>4, <1>5, <1>7, <1>8, <1>9, <1>10, <1>11, <1>12 DEF Next

(* No retry, timeout, exception, rejection or dead-letter retry loses a    *)
(* task: only a cancellation, a failing handler or a restart strands one.  *)
THEOREM NoTaskIsLost == Spec => []NoLostTask
<1> DEFINE IInv == TypeInv /\ Holding /\ Handed
<1>1. Init => IInv
  <2>1. Init => Holding
    BY DEF Init, Holding, Busy, InProcess, InHandler
  <2>2. Init => Handed
    BY DEF Init, Handed, Unfinished, EmptyDatabase
  <2>3. QED
    BY <2>1, <2>2, TypeInit
<1>2. IInv /\ [Next]_vars => IInv'
  BY TypeStep, HoldingStep, HandedStep
<1>3. IInv => NoLostTask
  BY DEF Handed, NoLostTask, Carried, Held, Undecided, Busy, InProcess, InHandler
<1>4. QED
  BY <1>1, <1>2, <1>3, PTL DEF Spec
-----------------------------------------------------------------------------
(* One runner, a durable row for every entry, and results that stay.  The  *)
(* three hold together or not at all: that a result is not overwritten     *)
(* needs the task to have one runner, that a restart makes no second       *)
(* runner needs the rows of task_queue to be one per task, and that those  *)
(* rows cover the queue needs nobody to delete the row of a queued task.   *)
(* A dead-letter retry breaks all of it by design, so the invariant is     *)
(* about the time before the first one.                                    *)

Starting == {"fetched", "mark", "token", "gen"}

\* What the engine and its tables know of is what was submitted.
Known ==
    /\ \A i \in queue : i.task \in submitted
    /\ \A w \in Workers : pc[w] \in Busy => job[w] \in submitted
    /\ \A r \in store \cup kept : r.task \in submitted
    /\ \A t \in Tasks : db.rows[t] # "none" \/ disk.rows[t] # "none" => t \in submitted

Solo ==
    /\ \A i, j \in queue : i.task = j.task => i = j
    /\ \A v, w \in Workers : pc[v] \in Busy /\ pc[w] \in Busy /\ job[v] = job[w] => v = w
    /\ \A i \in queue : \A w \in Workers : pc[w] \in Busy => job[w] # i.task

OneRow ==
    /\ \A r, s \in store : r.task = s.task => r = s
    /\ \A r, s \in kept : r.task = s.task => r = s

HasRow(rows, i) == \E r \in rows : r.task = i.task /\ r.prio = i.prio /\ r.st = "pending"

Backed ==
    /\ \A i \in queue : i \in unsaved \/ HasRow(store, i)
    /\ \A i \in queue : i \in saving \cup unsaved \/ HasRow(kept, i)
    /\ ~up => store = kept

\* No row of task_queue says that finished work is still to be done.
NoPending(rows, t) == \A r \in rows : r.task = t => r.st # "pending"

Fresh ==
    /\ \A t \in Tasks : disk.rows[t] = "completed" => db.rows[t] = "completed"
    /\ \A i \in queue : db.rows[i.task] # "completed"
    /\ \A r \in store \cup kept : r.st = "pending" => db.rows[r.task] # "completed"
    /\ \A w \in Workers :
        /\ pc[w] \in Starting => db.rows[job[w]] # "completed"
        /\ pc[w] \in Starting \ {"fetched"} => NoPending(store, job[w])
        /\ pc[w] \in Starting \ {"fetched", "mark"} => NoPending(kept, job[w])

Alone == Known /\ Solo /\ OneRow /\ Backed /\ Fresh

ResultsStay == \A t \in Tasks : db.rows[t] = "completed" => db'.rows[t] = "completed"

LEMMA BusyStates ==
    /\ Starting \subseteq Busy /\ "recover" \in Busy
    /\ \A s \in {"idle", "off", "dead"} : s \notin Busy
BY DEF Starting, Busy, InProcess, InHandler

(* A step of a busy worker, seen from the others: it touches the rows of   *)
(* its own task, moves the row to "completed" from "gen" only, and leaves  *)
(* no pending row behind it.                                               *)
LEMMA WorkerStep ==
    ASSUME TypeInv, Holding, Alone, up, NEW w \in Workers, pc[w] \in Busy,
           UNCHANGED <<up, queue, saving, unsaved, submitted>>,
           \A v \in Workers \ {w} : pc'[v] = pc[v] /\ job'[v] = job[v],
           pc'[w] \in Busy => job'[w] = job[w],
           \A u \in Tasks \ {job[w]} : db'.rows[u] = db.rows[u],
           disk' \in {disk, db},
           \A r \in store' : r \in store \/ (r.task = job[w] /\ r.st = "processing"),
           \A r \in store : r \in store' \/ r.task = job[w],
           \A r, s \in store' : r.task = s.task => r = s,
           kept' \in {kept, store},
           db.rows[job[w]] = "completed" => db'.rows[job[w]] = "completed",
           db'.rows[job[w]] = "completed" => db.rows[job[w]] = "completed" \/ pc[w] = "gen",
           pc'[w] \in Starting =>
              /\ db'.rows[job[w]] # "completed"
              /\ pc'[w] # "fetched" => NoPending(store', job[w])
              /\ pc'[w] \notin {"fetched", "mark"} => NoPending(kept', job[w])
    PROVE  Alone' /\ ResultsStay
<1>0. job[w] \in Tasks /\ job[w] \in submitted
  BY DEF Holding, Alone, Known
<1>1. \A i \in queue : i.task # job[w]
  BY DEF Alone, Solo
<1>2. \A v \in Workers \ {w} : pc[v] \in Busy => job[v] # job[w]
  BY DEF Alone, Solo
<1>3. \A r \in store' \cup kept' : r \in store \cup kept \/ (r.task = job[w] /\ r.st = "processing")
  OBVIOUS
<1>4. ResultsStay
  BY <1>0 DEF ResultsStay
<1>5. Known'
  <2>1. \A t \in Tasks : db'.rows[t] # "none" => t \in submitted
    BY <1>0 DEF Alone, Known
  <2>2. \A t \in Tasks : disk'.rows[t] # "none" => t \in submitted
    BY DEF Alone, Known
  <2>3. \A r \in store' \cup kept' : r.task \in submitted
    BY <1>0, <1>3 DEF Alone, Known
  <2>4. \A v \in Workers : pc'[v] \in Busy => job'[v] \in submitted
    BY <1>0 DEF Alone, Known
  <2>5. QED
    BY <2>1, <2>2, <2>3, <2>4 DEF Alone, Known
<1>6. Solo'
  <2>1. \A v \in Workers : pc'[v] \in Busy => pc[v] \in Busy /\ job'[v] = job[v]
    OBVIOUS
  <2>2. QED
    BY <2>1 DEF Alone, Solo
<1>7. OneRow'
  BY DEF Alone, OneRow
<1>8. Backed'
  <2>1. ASSUME NEW i \in queue
        PROVE  /\ i \in unsaved \/ HasRow(store', i)
               /\ i \in saving \cup unsaved \/ HasRow(kept', i)
    <3>1. i \in saving \cup unsaved \/ HasRow(kept, i)
      BY DEF Alone, Backed
    <3>2. CASE i \notin unsaved
      <4>1. PICK r \in store : r.task = i.task /\ r.prio = i.prio /\ r.st = "pending"
        BY <3>2 DEF Alone, Backed, HasRow
      <4>2. r \in store'
        BY <1>1, <4>1
      <4>3. QED
        BY <3>1, <4>1, <4>2 DEF HasRow
    <3>3. QED
      BY <3>2
  <2>2. QED
    BY <2>1 DEF Backed
<1>9. Fresh'
  <2>1. \A t \in Tasks : disk'.rows[t] = "completed" => db'.rows[t] = "completed"
    BY <1>4 DEF Alone, Fresh, ResultsStay
  <2>2. ASSUME NEW r \in store' \cup kept', r.st = "pending"
        PROVE  db'.rows[r.task] # "completed"
    <3>1. r \in store \cup kept /\ r.task \in Tasks
      BY <1>3, <2>2 DEF TypeInv, TypeOK, QueueRow
    <3>2. db.rows[r.task] # "completed"
      BY <2>2, <3>1 DEF Alone, Fresh
    <3>3. CASE r.task = job[w]
      <4>1. pc[w] # "gen"
        BY <2>2, <3>1, <3>3 DEF Alone, Fresh, NoPending, Starting
      <4>2. QED
        BY <3>2, <3>3, <4>1
    <3>4. CASE r.task # job[w]
      BY <3>1, <3>2, <3>4
    <3>5. QED
      BY <3>3, <3>4
  <2>3. ASSUME NEW v \in Workers, pc'[v] \in Starting
        PROVE  /\ db'.rows[job'[v]] # "completed"
               /\ pc'[v] # "fetched" => NoPending(store', job'[v])
               /\ pc'[v] \notin {"fetched", "mark"} => NoPending(kept', job'[v])
    <3>1. CASE v = w
      BY <2>3, <3>1, BusyStates
    <3>2. CASE v # w
      <4>1. /\ pc'[v] = pc[v] /\ job'[v] = job[v] /\ pc[v] \in Busy /\ pc[v] \in Starting
            /\ job[v] \in Tasks /\ job[v] # job[w]
        BY <1>2, <2>3, <3>2, BusyStates DEF Holding
      <4>2. /\ db.rows[job[v]] # "completed"
            /\ pc[v] # "fetched" => NoPending(store, job[v])
            /\ pc[v] \notin {"fetched", "mark"} => NoPending(kept, job[v])
        BY <4>1 DEF Alone, Fresh
      <4>3. NoPending(store, job[v]) => NoPending(store', job[v])
        BY <4>1 DEF NoPending
      <4>4. QED
        BY <4>1, <4>2, <4>3
    <3>3. QED
      BY <3>1, <3>2
  <2>4. ASSUME NEW i \in queue'
        PROVE  db'.rows[i.task] # "completed"
    <3>1. i \in queue /\ i.task \in Tasks \ {job[w]}
      BY <1>1 DEF TypeInv, TypeOK, Item
    <3>2. db.rows[i.task] # "completed"
      BY <3>1 DEF Alone, Fresh
    <3>3. QED
      BY <3>1, <3>2
  <2>5. QED
    BY <2>1, <2>2, <2>3, <2>4 DEF Fresh
<1>10. QED
  BY <1>4, <1>5, <1>6, <1>7, <1>8, <1>9 DEF Alone

LEMMA ClaimedRow ==
    ASSUME TypeInv, OneRow, NEW t \in Tasks
    PROVE  /\ \A r \in MarkedProcessing(t) : r \in store \/ (r.task = t /\ r.st = "processing")
           /\ \A r \in store : r \in MarkedProcessing(t) \/ r.task = t
           /\ \A r, s \in MarkedProcessing(t) : r.task = s.task => r = s
           /\ NoPending(MarkedProcessing(t), t)
<1> DEFINE Mark(r) == [r EXCEPT !.st = "processing"]
<1>1. ASSUME NEW r \in store
      PROVE  Mark(r).task = r.task /\ Mark(r).st = "processing"
  BY DEF TypeInv, TypeOK, QueueRow
<1>2. \A r \in store \ Removed(t) : r.task = t
  BY DEF Removed
<1>3. \A m \in MarkedProcessing(t) :
        \/ m \in store /\ m.task # t
        \/ \E r \in store : r.task = t /\ m = Mark(r)
  BY <1>2 DEF MarkedProcessing, Removed
<1> HIDE DEF Mark
<1>4. ASSUME NEW r \in MarkedProcessing(t), NEW s \in MarkedProcessing(t), r.task = s.task
      PROVE  r = s
  <2>1. CASE r.task = t
    <3>1. PICK r0 \in store : r0.task = t /\ r = Mark(r0)
      BY <1>3, <2>1
    <3>2. PICK s0 \in store : s0.task = t /\ s = Mark(s0)
      BY <1>3, <1>4, <2>1
    <3>3. r0 = s0
      BY <3>1, <3>2 DEF OneRow
    <3>4. QED
      BY <3>1, <3>2, <3>3
  <2>2. CASE r.task # t
    BY <1>1, <1>3, <1>4, <2>2 DEF OneRow
  <2>3. QED
    BY <2>1, <2>2
<1>5. NoPending(MarkedProcessing(t), t)
  BY <1>1, <1>3 DEF NoPending
<1>6. \A r \in store : r \in MarkedProcessing(t) \/ r.task = t
  BY DEF MarkedProcessing, Removed
<1>7. \A r \in MarkedProcessing(t) : r \in store \/ (r.task = t /\ r.st = "processing")
  BY <1>1, <1>3
<1>8. QED
  BY <1>4, <1>5, <1>6, <1>7

LEMMA AloneProcess ==
    ASSUME TypeInv, Holding, Alone, NEW w \in Workers, Process(w)
    PROVE  Alone' /\ ResultsStay
<1> USE DEF tables, entries, callers, crew, bounds
<1>0. "processing" \in RowStatus /\ "error" \in RowStatus /\ Terminal \subseteq RowStatus
  BY DEF RowStatus, Terminal
<1>1. pc[w] \in Busy /\ up
  BY DEF Process, ReadRow, MarkProcessing, GetToken, Retry, Finish, Clean, Cleaning,
         EndCompleted, EndError, Recover, Unqueue, Busy, InProcess, InHandler
<1>2. job[w] \in Tasks /\ job[w] \in submitted
  BY <1>1 DEF Holding, Alone, Known
<1>3. OneRow /\ (\A r, s \in Removed(job[w]) : r.task = s.task => r = s)
  BY DEF Removed, OneRow, Alone
<1>4. /\ "mark" \in Busy
      /\ \A s \in {"idle", "clean_completed", "clean_error", "unqueue",
                   "post_completed", "post_error"} : s \notin Starting
      /\ "idle" \notin Busy
  BY DEF Busy, InProcess, InHandler, Starting
<1>g. ASSUME NEW label, Goto(w, label)
      PROVE  (\A v \in Workers \ {w} : pc'[v] = pc[v]) /\ pc'[w] = label
  BY <1>g DEF Goto, TypeInv, TypeOK
<1>l. ASSUME NEW label, LetGo(w, label)
      PROVE  (\A v \in Workers \ {w} : pc'[v] = pc[v] /\ job'[v] = job[v]) /\ pc'[w] = label
  BY <1>l DEF LetGo, Goto, TypeInv, TypeOK
<1>5. CASE ReadRow(w)
  <2>1. CASE db.rows[job[w]] = "none"
    <3>1. LetGo(w, "idle") /\ UNCHANGED <<db, store, kept, up, queue, saving, unsaved, submitted>> /\ disk' = db
      BY <1>5, <2>1 DEF ReadRow
    <3>2. QED
      BY <1>1, <1>3, <1>4, <1>l, <3>1, WorkerStep DEF OneRow
  <2>2. CASE db.rows[job[w]] # "none"
    <3>1. /\ db' = Updated(db, job[w], "processing") /\ Goto(w, "mark") /\ disk' = db
          /\ store' = MarkedProcessing(job[w])
          /\ UNCHANGED <<kept, up, queue, saving, unsaved, submitted, job>>
      BY <1>5, <2>2 DEF ReadRow
    <3>2. db'.rows[job[w]] = "processing" /\ \A u \in Tasks \ {job[w]} : db'.rows[u] = db.rows[u]
      BY <1>0, <1>2, <2>2, <3>1, UpdatedType, SMTT(30) DEF TypeInv, TypeOK
    <3>3. db.rows[job[w]] # "completed"
      BY <1>5 DEF ReadRow, Alone, Fresh, Starting
    <3>4. /\ \A r \in store' : r \in store \/ (r.task = job[w] /\ r.st = "processing")
          /\ \A r \in store : r \in store' \/ r.task = job[w]
          /\ \A r, s \in store' : r.task = s.task => r = s
          /\ NoPending(store', job[w])
      BY <1>2, <1>3, <3>1, ClaimedRow
    <3>5. pc'[w] = "mark" /\ \A v \in Workers \ {w} : pc'[v] = pc[v] /\ job'[v] = job[v]
      BY <1>g, <3>1
    <3>6. QED
      BY <1>1, <3>1, <3>2, <3>3, <3>4, <3>5, WorkerStep
  <2>3. QED
    BY <2>1, <2>2
<1>6. CASE MarkProcessing(w)
  <2>1. /\ pc[w] = "mark" /\ kept' = store /\ Goto(w, "token")
        /\ UNCHANGED <<db, disk, store, up, queue, saving, unsaved, submitted, job>>
    BY <1>6 DEF MarkProcessing, Committed
  <2>2. db.rows[job[w]] # "completed" /\ NoPending(store, job[w])
    BY <2>1 DEF Alone, Fresh, Starting
  <2>3. QED
    BY <1>1, <1>3, <1>g, <2>1, <2>2, WorkerStep DEF OneRow
<1>7. CASE GetToken(w) \/ Retry(w)
  <2>1. /\ pc[w] \in {"token", "gen"} /\ pc'[w] \in {"token", "gen"}
        /\ UNCHANGED <<db, disk, store, kept, up, queue, saving, unsaved, submitted, job>>
        /\ \A v \in Workers \ {w} : pc'[v] = pc[v]
    BY <1>7, <1>g DEF GetToken, Retry
  <2>2. /\ db.rows[job[w]] # "completed"
        /\ NoPending(store, job[w]) /\ NoPending(kept, job[w])
    BY <2>1 DEF Alone, Fresh, Starting
  <2>3. QED
    BY <1>1, <1>3, <2>1, <2>2, WorkerStep DEF OneRow
<1>8. ASSUME NEW status \in Terminal, Finish(w, status)
      PROVE  Alone' /\ ResultsStay
  <2>1. /\ pc[w] = "gen" \/ (pc[w] = "token" /\ status = "error")
        /\ db' = Updated(db, job[w], status) /\ store' = Removed(job[w])
        /\ Goto(w, Cleaning(status))
        /\ UNCHANGED <<disk, kept, up, queue, saving, unsaved, submitted, job>>
    BY <1>8 DEF Finish
  <2>2. /\ db'.rows[job[w]] \in {"none", status}
        /\ \A u \in Tasks \ {job[w]} : db'.rows[u] = db.rows[u]
    BY <1>0, <1>2, <2>1, UpdatedType DEF TypeInv, TypeOK
  <2>3. db.rows[job[w]] # "completed"
    BY <2>1 DEF Alone, Fresh, Starting
  <2>4. db'.rows[job[w]] = "completed" => pc[w] = "gen"
    BY <2>1, <2>2
  <2>5. /\ \A r \in store' : r \in store
        /\ \A r \in store : r \in store' \/ r.task = job[w]
    BY <2>1 DEF Removed
  <2>6. pc'[w] \notin Starting /\ \A v \in Workers \ {w} : pc'[v] = pc[v]
    BY <1>4, <1>g, <2>1 DEF Cleaning
  <2>7. QED
    BY <1>1, <1>3, <2>1, <2>2, <2>3, <2>4, <2>5, <2>6, WorkerStep
<1>9. ASSUME NEW status \in Terminal, Clean(w, status)
      PROVE  Alone' /\ ResultsStay
  <2>1. /\ kept' = store /\ pc'[w] \in {"post_completed", "post_error"}
        /\ UNCHANGED <<db, disk, store, up, queue, saving, unsaved, submitted, job>>
        /\ \A v \in Workers \ {w} : pc'[v] = pc[v]
    BY <1>9, <1>g DEF Clean, Committed
  <2>2. QED
    BY <1>1, <1>3, <1>4, <2>1, WorkerStep DEF OneRow
<1>10. CASE EndCompleted(w) \/ EndError(w) \/ Unqueue(w)
  <2>1. /\ kept' \in {kept, store} /\ disk' \in {disk, db} /\ LetGo(w, "idle")
        /\ UNCHANGED <<store, up, queue, saving, unsaved, submitted>>
    BY <1>10 DEF EndCompleted, EndError, Unqueue, Committed
  <2>2. db'.rows = db.rows
    BY <1>10 DEF EndCompleted, EndError, Unqueue, TypeInv, TypeOK, Database
  <2>3. QED
    BY <1>1, <1>3, <1>4, <1>l, <2>1, <2>2, WorkerStep DEF OneRow
<1>11. CASE Recover(w)
  <2>1. /\ db' = Recovered(db, job[w]) /\ store' = Removed(job[w]) /\ disk' = db
        /\ Goto(w, "unqueue")
        /\ UNCHANGED <<kept, up, queue, saving, unsaved, submitted, job>>
    BY <1>11 DEF Recover
  <2>2. /\ (db'.rows[job[w]] = "completed") <=> (db.rows[job[w]] = "completed")
        /\ \A u \in Tasks \ {job[w]} : db'.rows[u] = db.rows[u]
    <3>1. CASE db.rows[job[w]] \in Terminal
      BY <2>1, <3>1 DEF Recovered
    <3>2. CASE db.rows[job[w]] \notin Terminal
      <4>1. db' = Updated(db, job[w], "error")
        BY <2>1, <3>2 DEF Recovered
      <4>2. /\ db'.rows[job[w]] \in {"none", "error"}
            /\ \A u \in Tasks \ {job[w]} : db'.rows[u] = db.rows[u]
        BY <1>0, <1>2, <4>1, UpdatedType DEF TypeInv, TypeOK
      <4>3. db.rows[job[w]] # "completed"
        BY <3>2 DEF Terminal
      <4>4. QED
        BY <4>2, <4>3
    <3>3. QED
      BY <3>1, <3>2
  <2>3. /\ \A r \in store' : r \in store
        /\ \A r \in store : r \in store' \/ r.task = job[w]
    BY <2>1 DEF Removed
  <2>4. QED
    BY <1>1, <1>3, <1>4, <1>g, <2>1, <2>2, <2>3, WorkerStep
<1>12. QED
  BY <1>5, <1>6, <1>7, <1>8, <1>9, <1>10, <1>11 DEF Process

(* The other ways a worker stops: the timeout, a failing handler, the      *)
(* scaler that cancels it.                                                 *)
LEMMA AloneCut ==
    ASSUME TypeInv, Holding, Alone, NEW w \in Workers, Abort(w) \/ HandlerRaises(w)
    PROVE  Alone' /\ ResultsStay
<1> USE DEF tables, entries, callers, crew, bounds
<1>0. OneRow /\ "error" \in RowStatus
  BY DEF Alone, RowStatus, Terminal
<1>1. pc[w] \in Busy /\ up
  BY DEF Abort, HandlerRaises, Busy
<1>2. job[w] \in Tasks
  BY <1>1 DEF Holding
<1>3. CASE Abort(w)
  <2>1. /\ pc'[w] = "recover" /\ \A v \in Workers \ {w} : pc'[v] = pc[v]
        /\ UNCHANGED <<db, disk, store, kept, up, queue, saving, unsaved, submitted, job>>
    BY <1>3 DEF Abort, Goto, TypeInv, TypeOK
  <2>2. "recover" \notin Starting
    BY DEF Starting
  <2>3. QED
    BY <1>0, <1>1, <2>1, <2>2, WorkerStep DEF OneRow
<1>4. CASE HandlerRaises(w)
  <2>1. /\ pc'[w] = "dead" /\ \A v \in Workers \ {w} : pc'[v] = pc[v] /\ job'[v] = job[v]
        /\ UNCHANGED <<store, kept, up, queue, saving, unsaved, submitted>>
    BY <1>4 DEF HandlerRaises, LetGo, Goto, TypeInv, TypeOK
  <2>2. /\ disk' \in {disk, db}
        /\ db' = db \/ db' = Recovered(db, job[w])
    BY <1>4 DEF HandlerRaises
  <2>3. /\ (db'.rows[job[w]] = "completed") <=> (db.rows[job[w]] = "completed")
        /\ \A u \in Tasks \ {job[w]} : db'.rows[u] = db.rows[u]
    <3>1. CASE db' = Updated(db, job[w], "error") /\ db.rows[job[w]] \notin Terminal
      <4>1. /\ db'.rows[job[w]] \in {"none", "error"}
            /\ \A u \in Tasks \ {job[w]} : db'.rows[u] = db.rows[u]
        BY <1>0, <1>2, <3>1, UpdatedType DEF TypeInv, TypeOK
      <4>2. db.rows[job[w]] # "completed"
        BY <3>1 DEF Terminal
      <4>3. QED
        BY <4>1, <4>2
    <3>2. CASE db' = db
      BY <3>2
    <3>3. QED
      BY <2>2, <3>1, <3>2 DEF Recovered
  <2>4. "dead" \notin Starting /\ "dead" \notin Busy
    BY DEF Starting, Busy, InProcess, InHandler
  <2>5. QED
    BY <1>0, <1>1, <2>1, <2>2, <2>3, <2>4, WorkerStep DEF OneRow
<1>5. QED
  BY <1>3, <1>4

\* A worker that starts or stops with nothing in its hands changes nothing.
LEMMA AlonePool ==
    ASSUME TypeInv, Alone, NEW new \in SUBSET Workers, NEW at,
           at \in {"idle", "off"}, \A w \in new : pc[w] \notin Busy,
           \A w \in Workers : pc'[w] = IF w \in new THEN at ELSE pc[w],
           UNCHANGED <<up, db, disk, store, kept, queue, saving, unsaved, submitted, job>>
    PROVE  Alone' /\ ResultsStay
<1>1. at \notin Busy /\ at \notin Starting
  BY BusyStates
<1>2. \A w \in Workers : pc'[w] \in Busy \/ pc'[w] \in Starting => pc'[w] = pc[w]
  BY <1>1, BusyStates
<1>3. Known' /\ Solo'
  BY <1>1, <1>2 DEF Alone, Known, Solo
<1>4. OneRow' /\ Backed'
  BY DEF Alone, OneRow, Backed, HasRow
<1>5. Fresh'
  BY <1>2 DEF Alone, Fresh, NoPending
<1>6. QED
  BY <1>3, <1>4, <1>5 DEF Alone, ResultsStay

LEMMA AloneScaler ==
    ASSUME TypeInv, Holding, Alone, ScaleUp \/ Shrink
    PROVE  Alone' /\ ResultsStay
<1> USE DEF tables, entries, callers, crew, bounds
<1>1. CASE ScaleUp
  <2> DEFINE free == {w \in Workers : pc[w] = "off"}
             room == Cardinality(Workers) - Len(pool)
  <2>1. PICK new \in [1..Smaller(2, room) -> free] :
           pc' = [w \in Workers |-> IF w \in {new[k] : k \in DOMAIN new} THEN "idle" ELSE pc[w]]
    BY <1>1 DEF ScaleUp
  <2> DEFINE Started == {new[k] : k \in DOMAIN new}
  <2>2. Started \subseteq Workers /\ \A w \in Started : pc[w] \notin Busy
    BY BusyStates
  <2>3. UNCHANGED <<up, db, disk, store, kept, queue, saving, unsaved, submitted, job>>
    BY <1>1 DEF ScaleUp
  <2>4. \A w \in Workers : pc'[w] = IF w \in Started THEN "idle" ELSE pc[w]
    BY <2>1
  <2> HIDE DEF Started
  <2>5. QED
    BY <2>2, <2>3, <2>4, AlonePool
<1>2. CASE Shrink
  <2> DEFINE w == Head(pool)
  <2>1. w \in Workers /\ up /\ UNCHANGED <<up, db, disk, store, kept, queue, saving, unsaved, submitted>>
    BY <1>2, HeadTailProperties DEF Shrink, TypeInv, TypeOK
  <2>2. CASE pc[w] \in Busy
    <3>1. LetGo(w, "off")
      BY <1>2, <2>2 DEF Shrink
    <3>2. pc'[w] = "off" /\ \A v \in Workers \ {w} : pc'[v] = pc[v] /\ job'[v] = job[v]
      BY <2>1, <3>1 DEF LetGo, Goto, TypeInv, TypeOK
    <3>3. "off" \notin Busy /\ "off" \notin Starting /\ OneRow
      BY BusyStates DEF Alone
    <3>4. QED
      BY <2>1, <2>2, <3>2, <3>3, WorkerStep DEF OneRow
  <2>3. CASE pc[w] \notin Busy
    <3>1. Goto(w, "off") /\ UNCHANGED job
      BY <1>2, <2>3 DEF Shrink
    <3>2. \A v \in Workers : pc'[v] = IF v \in {w} THEN "off" ELSE pc[v]
      BY <2>1, <3>1 DEF Goto, TypeInv, TypeOK
    <3>3. QED
      BY <2>1, <2>3, <3>1, <3>2, AlonePool
  <2>4. QED
    BY <2>2, <2>3
<1>3. QED
  BY <1>1, <1>2

LEMMA AloneGet ==
    ASSUME TypeInv, Alone, NEW w \in Workers, Get(w)
    PROVE  Alone' /\ ResultsStay
<1>1. PICK i \in queue : queue' = queue \ {i} /\ job' = [job EXCEPT ![w] = i.task]
  BY DEF Get, Heads, Take
<1>2. /\ up /\ pc[w] = "idle" /\ pc' = [pc EXCEPT ![w] = "fetched"]
      /\ UNCHANGED <<up, db, disk, store, kept, saving, unsaved, submitted>>
  BY DEF Get, Goto, tables, callers
<1>3. /\ pc'[w] = "fetched" /\ job'[w] = i.task /\ pc[w] \notin Busy
      /\ \A v \in Workers \ {w} : pc'[v] = pc[v] /\ job'[v] = job[v]
  BY <1>1, <1>2, BusyStates DEF TypeInv, TypeOK
<1>4. i.task \in Tasks /\ i.task \in submitted
  BY DEF TypeInv, TypeOK, Item, Alone, Known
<1>5. Known'
  BY <1>1, <1>2, <1>3, <1>4 DEF Alone, Known
<1>6. Solo'
  <2>1. \A j \in queue' : j \in queue /\ j.task # i.task
    BY <1>1 DEF Alone, Solo
  <2>2. \A v \in Workers \ {w} : pc'[v] \in Busy => job'[v] # i.task
    BY <1>3 DEF Alone, Solo
  <2>3. QED
    BY <1>3, <2>1, <2>2 DEF Alone, Solo
<1>7. OneRow' /\ Backed'
  BY <1>1, <1>2 DEF Alone, OneRow, Backed, HasRow
<1>8. Fresh'
  <2>1. db.rows[i.task] # "completed"
    BY DEF Alone, Fresh
  <2>2. ASSUME NEW v \in Workers, pc'[v] \in Starting
        PROVE  /\ db'.rows[job'[v]] # "completed"
               /\ pc'[v] # "fetched" => NoPending(store', job'[v])
               /\ pc'[v] \notin {"fetched", "mark"} => NoPending(kept', job'[v])
    BY <1>2, <1>3, <2>1, <2>2 DEF Alone, Fresh
  <2>3. QED
    BY <1>1, <1>2, <2>2 DEF Alone, Fresh
<1>9. QED
  BY <1>2, <1>5, <1>6, <1>7, <1>8 DEF Alone, ResultsStay

(* Callers.  Submit and SubmitRejected give the engine a task nobody knew. *)
LEMMA AloneSubmit ==
    ASSUME TypeInv, Holding, Alone, NEW t \in Tasks, NEW p \in Priorities, Submit(t, p)
    PROVE  Alone' /\ ResultsStay
<1> DEFINE e == Entry(p, t)
           row == [task |-> t, prio |-> p, seq |-> e.seq, st |-> "pending"]
<1>1. /\ e.task = t /\ e.prio = p /\ t \notin submitted /\ "pending" \in RowStatus
  BY EntryType DEF Submit, RowStatus
<1>2. /\ up /\ db' = Inserted(db, t, "pending") /\ queue' = queue \cup {e}
      /\ submitted' = submitted \cup {t}
      /\ UNCHANGED <<up, disk, kept, pc, job>>
  BY DEF Submit, Put, crew
<1>3. \/ store' = Removed(t) \cup {row} /\ saving' = saving \cup {e} /\ unsaved' = unsaved
      \/ store' = store /\ saving' = saving /\ unsaved' = unsaved \cup {e}
  BY <1>1 DEF Submit, Saved, Refused
<1> HIDE DEF e
<1>4. db'.rows[t] = "pending" /\ \A u \in Tasks \ {t} : db'.rows[u] = db.rows[u]
  <2>1. db \in Database /\ db.rows \in [Tasks -> RowStatus]
    BY DEF TypeInv, TypeOK, Database
  <2>2. db'.rows = [db.rows EXCEPT ![t] = "pending"]
    BY <1>1, <1>2, <2>1, InsertedType
  <2>3. QED
    BY <2>1, <2>2
<1>5. db.rows[t] = "none" /\ disk.rows[t] = "none"
  BY <1>1 DEF Alone, Known
<1>6. /\ \A i \in queue : i.task # t
      /\ \A w \in Workers : pc[w] \in Busy => job[w] # t
      /\ \A r \in store \cup kept : r.task # t
  BY <1>1 DEF Alone, Known
<1>7. /\ store' = store \cup {row} \/ (store' = store /\ unsaved' = unsaved \cup {e})
      /\ row.task = t /\ row.prio = p /\ row.st = "pending"
  BY <1>3, <1>6 DEF Removed
<1> HIDE DEF row
<1>8. Known'
  BY <1>1, <1>2, <1>4, <1>7 DEF Alone, Known
<1>9. Solo'
  BY <1>1, <1>2, <1>6 DEF Alone, Solo
<1>10. OneRow'
  BY <1>2, <1>6, <1>7 DEF Alone, OneRow
<1>11. Backed'
  <2>1. /\ saving \subseteq saving' /\ unsaved \subseteq unsaved' /\ e \in saving' \cup unsaved'
        /\ store \subseteq store' /\ (e \in unsaved' \/ row \in store')
    BY <1>3, <1>7
  <2>2. \A i \in queue' : i \in unsaved' \/ HasRow(store', i)
    BY <1>1, <1>2, <1>7, <2>1 DEF Alone, Backed, HasRow
  <2>3. \A i \in queue' : i \in saving' \cup unsaved' \/ HasRow(kept', i)
    BY <1>2, <2>1 DEF Alone, Backed
  <2>4. QED
    BY <1>2, <2>2, <2>3 DEF Backed
<1>12. Fresh'
  <2>1. \A u \in Tasks : disk'.rows[u] = "completed" => db'.rows[u] = "completed"
    BY <1>2, <1>4, <1>5 DEF Alone, Fresh
  <2>2. \A r \in store' \cup kept' : r.st = "pending" => db'.rows[r.task] # "completed"
    BY <1>2, <1>4, <1>6, <1>7, ZenonT(30) DEF Alone, Fresh, TypeInv, TypeOK, QueueRow
  <2>3. ASSUME NEW w \in Workers, pc'[w] \in Starting
        PROVE  /\ db'.rows[job'[w]] # "completed"
               /\ pc'[w] # "fetched" => NoPending(store', job'[w])
               /\ pc'[w] \notin {"fetched", "mark"} => NoPending(kept', job'[w])
    <3>1. job[w] \in Tasks \ {t}
      BY <1>2, <1>6, <2>3, BusyStates DEF Holding
    <3>2. QED
      BY <1>2, <1>4, <1>7, <2>3, <3>1 DEF Alone, Fresh, NoPending
  <2>4. \A i \in queue' : db'.rows[i.task] # "completed"
    BY <1>1, <1>2, <1>4, <1>6 DEF Alone, Fresh, TypeInv, TypeOK, Item
  <2>5. QED
    BY <2>1, <2>2, <2>3, <2>4 DEF Fresh
<1>13. QED
  BY <1>4, <1>5, <1>8, <1>9, <1>10, <1>11, <1>12 DEF Alone, ResultsStay

\* A commit, or a step that leaves the rows of the database as they are.
LEMMA AloneCommit ==
    ASSUME TypeInv, Alone, up,
           UNCHANGED <<up, store, queue, submitted, pc, job>>,
           db'.rows = db.rows, disk' \in {disk, db}, kept' \in {kept, store},
           unsaved \subseteq unsaved', saving' \subseteq saving,
           kept' = store \/ saving \subseteq saving' \cup unsaved'
    PROVE  Alone' /\ ResultsStay
<1>1. Known' /\ Solo'
  BY DEF Alone, Known, Solo
<1>2. OneRow' /\ Backed'
  BY DEF Alone, OneRow, Backed, HasRow
<1>3. \A r \in kept' : r \in store \cup kept
  OBVIOUS
<1>4. ASSUME NEW w \in Workers, pc[w] \in Starting \ {"fetched", "mark"}
      PROVE  NoPending(kept', job[w])
  BY <1>4 DEF Alone, Fresh
<1>5. Fresh'
  BY <1>3, <1>4 DEF Alone, Fresh, NoPending
<1>6. QED
  BY <1>1, <1>2, <1>5 DEF Alone, ResultsStay

LEMMA AloneCallers ==
    ASSUME TypeInv, Holding, Alone, requeues' = 0, Callers
    PROVE  Alone' /\ ResultsStay
<1> USE DEF tables, entries, callers, crew, bounds
<1>1. ASSUME NEW t \in Tasks, NEW p \in Priorities, Submit(t, p)
      PROVE  Alone' /\ ResultsStay
  BY <1>1, AloneSubmit
<1>2. ASSUME NEW t \in Tasks, NEW p \in Priorities, SubmitRejected(t, p)
      PROVE  Alone' /\ ResultsStay
  <2>1. /\ t \notin submitted /\ submitted' = submitted \cup {t}
        /\ db' = Inserted(db, t, "error")
        /\ UNCHANGED <<up, disk, store, kept, queue, saving, unsaved, pc, job>>
    BY <1>2 DEF SubmitRejected
  <2>2. db'.rows[t] = "error" /\ \A u \in Tasks \ {t} : db'.rows[u] = db.rows[u]
    <3>1. db \in Database /\ db.rows \in [Tasks -> RowStatus] /\ "error" \in RowStatus
      BY DEF TypeInv, TypeOK, Database, RowStatus, Terminal
    <3>2. db'.rows = [db.rows EXCEPT ![t] = "error"]
      BY <2>1, <3>1, InsertedType
    <3>3. QED
      BY <3>1, <3>2
  <2>3. db.rows[t] = "none" /\ disk.rows[t] = "none"
    BY <2>1 DEF Alone, Known
  <2>4. /\ \A r \in store \cup kept : r.task \in Tasks /\ r.task # t
        /\ \A i \in queue : i.task \in Tasks /\ i.task # t
        /\ \A w \in Workers : pc[w] \in Busy => job[w] \in Tasks /\ job[w] # t
    BY <2>1 DEF Alone, Known, Holding, TypeInv, TypeOK, QueueRow, Item
  <2>5. Known' /\ Solo'
    BY <2>1, <2>2 DEF Alone, Known, Solo
  <2>6. OneRow' /\ Backed'
    BY <2>1 DEF Alone, OneRow, Backed, HasRow
  <2>7. Fresh'
    <3>1. \A i \in queue' : db'.rows[i.task] # "completed"
      BY <2>1, <2>2, <2>4 DEF Alone, Fresh
    <3>2. QED
      BY <2>1, <2>2, <2>3, <2>4, <3>1, BusyStates DEF Alone, Fresh, NoPending
  <2>8. QED
    BY <2>2, <2>3, <2>5, <2>6, <2>7 DEF Alone, ResultsStay
<1>3. ASSUME NEW i \in saving, SubmitSaved(i) \/ SubmitNotSaved(i)
      PROVE  Alone' /\ ResultsStay
  <2>1. CASE SubmitSaved(i)
    BY <2>1, AloneCommit DEF SubmitSaved
  <2>2. CASE SubmitNotSaved(i)
    BY <2>2, AloneCommit DEF SubmitNotSaved, Refused
  <2>3. QED
    BY <1>3, <2>1, <2>2
<1>4. ASSUME NEW t \in Tasks, Requeue(t)
      PROVE  FALSE
  BY <1>4 DEF Requeue, TypeInv, TypeOK
<1>5. ASSUME NEW i \in requeueing, RequeueSaved(i) \/ RequeueNotSaved(i)
      PROVE  Alone' /\ ResultsStay
  <2>1. CASE RequeueSaved(i)
    <3>1. db'.rows = db.rows
      BY <2>1 DEF RequeueSaved, TypeInv, TypeOK, Database
    <3>2. QED
      BY <2>1, <3>1, AloneCommit DEF RequeueSaved
  <2>2. CASE RequeueNotSaved(i)
    BY <2>2, AloneCommit DEF RequeueNotSaved, Refused
  <2>3. QED
    BY <1>5, <2>1, <2>2
<1>6. QED
  BY <1>1, <1>2, <1>3, <1>4, <1>5 DEF Callers

LEMMA AloneCrash ==
    ASSUME TypeInv, Alone, Crash
    PROVE  Alone'
<1>1. /\ up' = FALSE /\ db' = disk /\ store' = kept /\ queue' = {}
      /\ \A w \in Workers : pc'[w] = "off"
      /\ UNCHANGED <<disk, kept, submitted>>
  BY DEF Crash
<1>2. \A w \in Workers : pc'[w] \notin Busy /\ pc'[w] \notin Starting
  BY <1>1, BusyStates
<1>3. Known' /\ Solo'
  BY <1>1, <1>2 DEF Alone, Known, Solo
<1>4. OneRow' /\ Backed'
  BY <1>1 DEF Alone, OneRow, Backed
<1>5. Fresh'
  BY <1>1, <1>2 DEF Alone, Fresh, TypeInv, TypeOK, QueueRow
<1>6. QED
  BY <1>3, <1>4, <1>5 DEF Alone

(* start() resumes one entry per pending row.                              *)
LEMMA AloneStart ==
    ASSUME TypeInv, Alone, Start
    PROVE  Alone'
<1>1. PICK old \in SUBSET Unfinished(db) :
          db' = [db EXCEPT !.rows = [t \in Tasks |-> IF t \in old THEN "error" ELSE @[t]]]
  BY DEF Start
<1>2. /\ ~up /\ up' /\ disk' = db' /\ queue' = Restored(Waiting)
      /\ \A w \in Workers : pc'[w] \in {"idle", "off"}
      /\ UNCHANGED <<store, kept, submitted, saving>>
  BY DEF Start, callers
<1>3. store = kept
  BY <1>2 DEF Alone, Backed
<1>4. ASSUME NEW i \in queue'
      PROVE  \E r \in store : /\ r.st = "pending"
                              /\ i = [prio |-> r.prio, seq |-> r.seq, task |-> r.task, resumed |-> TRUE]
  BY <1>2, <1>4 DEF Restored, Waiting
<1>5. \A w \in Workers : pc'[w] \notin Busy /\ pc'[w] \notin Starting
  BY <1>2, BusyStates
<1>6. /\ \A t \in Tasks : db'.rows[t] # "none" => db.rows[t] # "none"
      /\ \A t \in Tasks : db'.rows[t] = "completed" => db.rows[t] = "completed"
  BY <1>1 DEF Unfinished, TypeInv, TypeOK, Database
<1>7. \A i \in queue' : i.task \in submitted
  <2>1. ASSUME NEW i \in queue' PROVE \E r \in store : i.task = r.task
    BY <1>4
  <2>2. QED
    BY <2>1 DEF Alone, Known
<1>8. Known'
  BY <1>2, <1>5, <1>6, <1>7 DEF Alone, Known
<1>9. Solo'
  <2>1. ASSUME NEW i \in queue', NEW j \in queue', i.task = j.task
        PROVE  i = j
    <3>1. PICK r \in store :
             i = [prio |-> r.prio, seq |-> r.seq, task |-> r.task, resumed |-> TRUE]
      BY <1>4
    <3>2. PICK s \in store :
             j = [prio |-> s.prio, seq |-> s.seq, task |-> s.task, resumed |-> TRUE]
      BY <1>4
    <3>3. r = s
      BY <2>1, <3>1, <3>2 DEF Alone, OneRow
    <3>4. QED
      BY <3>1, <3>2, <3>3
  <2>2. QED
    BY <1>5, <2>1 DEF Solo
<1>10. OneRow'
  BY <1>2 DEF Alone, OneRow
<1>11. Backed'
  <2>1. ASSUME NEW i \in queue' PROVE HasRow(store, i)
    BY <1>4 DEF HasRow
  <2>2. QED
    BY <1>2, <1>3, <2>1 DEF Backed, HasRow
<1>12. Fresh'
  <2>1. \A r \in store' \cup kept' : r.st = "pending" => db'.rows[r.task] # "completed"
    BY <1>2, <1>6 DEF Alone, Fresh, TypeInv, TypeOK, QueueRow
  <2>2. \A i \in queue' : db'.rows[i.task] # "completed"
    <3>1. ASSUME NEW i \in queue' PROVE \E r \in store : i.task = r.task /\ r.st = "pending"
      BY <1>4
    <3>2. QED
      BY <1>2, <2>1, <3>1
  <2>3. QED
    BY <1>2, <1>5, <2>1, <2>2 DEF Fresh
<1>13. QED
  BY <1>8, <1>9, <1>10, <1>11, <1>12 DEF Alone

LEMMA AloneStep ==
    ASSUME TypeInv, Holding, Alone, requeues' = 0, [Next]_vars
    PROVE  Alone' /\ (up /\ up' => ResultsStay)
<1>1. CASE Callers
  BY <1>1, AloneCallers
<1>2. CASE Flush
  BY <1>2, AloneCommit DEF Flush, entries, callers, crew
<1>3. ASSUME NEW w \in Workers, Get(w) \/ Process(w) \/ Abort(w) \/ HandlerRaises(w)
      PROVE  Alone' /\ ResultsStay
  BY <1>3, AloneGet, AloneProcess, AloneCut
<1>4. CASE ScaleUp \/ Shrink
  BY <1>4, AloneScaler
<1>5. CASE Crash
  BY <1>5, AloneCrash DEF Crash
<1>6. CASE Start
  BY <1>6, AloneStart DEF Start
<1>7. CASE UNCHANGED vars
  <2> USE DEF vars, tables, entries, callers, crew
  <2>1. Known' /\ Solo' /\ OneRow' /\ Backed' /\ Fresh'
    BY <1>7 DEF Alone, Known, Solo, OneRow, Backed, HasRow, Fresh, NoPending
  <2>2. QED
    BY <1>7, <2>1 DEF Alone, ResultsStay
<1>8. QED
  BY <1>1, <1>2, <1>3, <1>4, <1>5, <1>6, <1>7 DEF Next

AloneInv == TypeInv /\ Holding /\ (requeues = 0 => Alone)

\* No step takes a dead-letter retry back.
LEMMA RequeuesGrow ==
    ASSUME TypeInv, [Next]_vars, requeues' = 0
    PROVE  requeues = 0
<1> USE DEF tables, entries, callers, crew, bounds
<1>1. CASE Callers
  BY <1>1 DEF Callers, Submit, SubmitRejected, SubmitSaved, SubmitNotSaved, Requeue,
              RequeueSaved, RequeueNotSaved, TypeInv, TypeOK
<1>2. ASSUME NEW w \in Workers, Get(w) \/ Process(w) \/ Abort(w) \/ HandlerRaises(w)
      PROVE  requeues = 0
  BY <1>2 DEF Get, Process, ReadRow, MarkProcessing, GetToken, Retry, Finish, Clean,
              EndCompleted, EndError, Recover, Unqueue, Abort, HandlerRaises
<1>3. CASE Flush \/ ScaleUp \/ Shrink \/ Crash \/ Start
  BY <1>3 DEF Flush, ScaleUp, Shrink, Crash, Start
<1>4. CASE UNCHANGED vars
  BY <1>4 DEF vars
<1>5. QED
  BY <1>1, <1>2, <1>3, <1>4 DEF Next

LEMMA AloneAlways == Spec => []AloneInv
<1>1. Init => AloneInv
  <2>1. SUFFICES ASSUME Init PROVE AloneInv
    OBVIOUS
  <2>2. TypeInv /\ Holding
    BY <2>1, TypeInit DEF Init, Holding, Busy, InProcess, InHandler
  <2>3. \A w \in Workers : pc[w] \notin Busy /\ pc[w] \notin Starting
    BY <2>1, BusyStates DEF Init
  <2>4. Known /\ Solo /\ OneRow
    BY <2>1, <2>3 DEF Init, Known, Solo, OneRow, EmptyDatabase
  <2>5. Backed /\ Fresh
    BY <2>1, <2>3 DEF Init, Backed, Fresh, EmptyDatabase
  <2>6. QED
    BY <2>2, <2>4, <2>5 DEF AloneInv, Alone
<1>2. AloneInv /\ [Next]_vars => AloneInv'
  BY TypeStep, HoldingStep, AloneStep, RequeuesGrow DEF AloneInv
<1>3. QED
  BY <1>1, <1>2, PTL DEF Spec

(* Until a dead letter is retried, a task has at most one runner: not two  *)
(* workers, not two entries, not one of each, whatever is aborted,         *)
(* cancelled, crashed and resumed.                                         *)
THEOREM OneRunnerPerTask == Spec => []SingleRunner
<1>1. AloneInv => SingleRunner
  BY DEF AloneInv, Alone, Solo, SingleRunner, Queued, Held
<1>2. QED
  BY <1>1, AloneAlways, PTL

(* Until a dead letter is retried, every entry of the queue in memory has  *)
(* a durable pending row a restart resumes it from, unless its caller      *)
(* still awaits the commit or was told that it failed.                     *)
THEOREM QueueIsDurable == Spec => []StoreCoversQueue
<1>1. AloneInv => StoreCoversQueue
  BY DEF AloneInv, Alone, Backed, HasRow, StoreCoversQueue
<1>2. QED
  BY <1>1, AloneAlways, PTL

(* Until a dead letter is retried, no step of the running engine takes a   *)
(* completed row back: no late timeout, no failing handler, no worker that *)
(* was given a task resumed after a crash.                                 *)
THEOREM ResultsAreKept == Spec => ResultKept
<1>1. AloneInv /\ [Next]_vars => [up /\ up' /\ requeues' = 0 => ResultsStay]_vars
  BY AloneStep, RequeuesGrow DEF AloneInv
<1>2. [up /\ up' /\ requeues' = 0 => ResultsStay]_vars
         => [up /\ up' /\ requeues' = 0 => \A t \in Tasks :
                 db.rows[t] = "completed" => db'.rows[t] = "completed"]_vars
  BY DEF ResultsStay
<1>3. QED
  BY <1>1, <1>2, AloneAlways, PTL DEF Spec, ResultKept
=============================================================================
