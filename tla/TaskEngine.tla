----------------------------- MODULE TaskEngine -----------------------------
(***************************************************************************)
(* The generation engine (api/worker/engine.py) with the two stores it     *)
(* writes: the requests and dead_letter_queue tables behind a batched      *)
(* write buffer (api/db), and the task_queue table of the persistent queue *)
(* (api/db/queue_store.py), where every call is a statement and a commit.  *)
(*                                                                         *)
(* Everything runs on one event loop: a step of this model is what a       *)
(* coroutine does between two awaits.  An await inside a worker can also   *)
(* end in the hard timeout, in an exception or in a cancellation.          *)
(*                                                                         *)
(* The connection of task_queue executes statements in the order of the    *)
(* calls, so a statement is part of the step that makes the call; what it  *)
(* wrote is durable when the caller goes on, after the commit it awaited.  *)
(***************************************************************************)
EXTENDS CountedQueue, Sequences, SequencesExt

CONSTANTS
    Workers,                              \* worker identities; as many as IF_WORKERS_MAX
    StartPool,                            \* the workers start() creates, in order
    MinWorkers,                           \* IF_WORKERS_MIN
    NormalPriority,                       \* the priority a dead letter is put back with
    RetryMax,                             \* IF_TXT_RETRY_MAX
    None,                                 \* the task of a worker that has none
    MaxCrashes, MaxRequeues, MaxDbErrors  \* bounds of the model

ASSUME EngineAssumption ==
    /\ IsFiniteSet(Workers)
    /\ StartPool \in Seq(Workers) /\ IsInjective(StartPool)
    /\ MinWorkers \in Nat
    /\ NormalPriority \in Priorities
    /\ RetryMax \in Nat \ {0}
    /\ None \notin Tasks
    /\ {MaxCrashes, MaxRequeues, MaxDbErrors} \subseteq Nat

VARIABLES
    up,                          \* the process is running
    db,                          \* the database every read sees: each read flushes first
    disk,                        \* the database a crash leaves: db without the buffered writes
    store,                       \* rows of task_queue, as its connection sees them
    kept,                        \* the rows a crash leaves
    queue,                       \* entries of the in-memory priority queue
    counts,                      \* its counters
    lastSeq,                     \* _seq
    submitted,                   \* ids already given to a request
    saving,                      \* entries whose submitter awaits the commit of its INSERT
    requeueing,                  \* the same for dead-letter retries
    unsaved,                     \* entries whose INSERT or commit raised to the caller
    pc,                          \* where each worker's coroutine stands
    job,                         \* the task it holds
    attempt,                     \* the attempt it is in
    pool,                        \* _workers, the least recently active first
    processing,                  \* the counter of running tasks
    stranded,                    \* tasks whose processing was cut short and not handed on
    crashes, requeues, dbErrors  \* what the bounds count

tables  == <<db, disk, store, kept>>
entries == <<queue, counts, lastSeq>>
callers == <<submitted, saving, requeueing, unsaved>>
crew    == <<pc, job, attempt, pool, processing>>
bounds  == <<crashes, requeues, dbErrors>>
vars    == <<up, tables, entries, callers, crew, stranded, bounds>>

-----------------------------------------------------------------------------
(* The tables.                                                             *)

Terminal == {"completed", "error"}
RowStatus == Terminal \cup {"none", "pending", "processing"}
Database == [rows : [Tasks -> RowStatus], dlq : SUBSET Tasks]
QueueRow == [task : Tasks, prio : Priorities, seq : Nat, st : {"pending", "processing"}]

EmptyDatabase == [rows |-> [t \in Tasks |-> "none"], dlq |-> {}]

Unfinished(d) == {t \in Tasks : d.rows[t] \in {"pending", "processing"}}

\* create_request inserts; the UPDATEs touch an existing row only.
Inserted(d, t, status) == [d EXCEPT !.rows[t] = status]
Updated(d, t, status) == IF d.rows[t] = "none" THEN d ELSE Inserted(d, t, status)

Removed(t) == {r \in store : r.task # t}
Saved(i) == Removed(i.task) \cup
            {[task |-> i.task, prio |-> i.prio, seq |-> i.seq, st |-> "pending"]}
\* mutant: the UPDATE without its WHERE
AllMarkedProcessing(t) == {[r EXCEPT !.st = "processing"] : r \in store}

MarkedProcessing(t) ==
    Removed(t) \cup {[r EXCEPT !.st = "processing"] : r \in store \ Removed(t)}

\* The batch timer commits the buffered writes.
Flush ==
    /\ up /\ disk # db
    /\ disk' = db
    /\ UNCHANGED <<up, db, store, kept, entries, callers, crew, stranded, bounds>>

-----------------------------------------------------------------------------
(* Callers.                                                                *)

Entry(p, t) == [prio |-> p, seq |-> lastSeq + 1, task |-> t, resumed |-> FALSE]

Put(i) ==
    /\ queue' = queue \cup {i}
    /\ counts' = CountsAfterPut(counts, i.prio)

\* mutant: the entry is read and left in the queue
Peek(i) ==
    /\ queue' = queue
    /\ counts' = CountsAfterGet(counts, i.prio)

Take(i) ==
    /\ queue' = queue \ {i}
    /\ counts' = CountsAfterGet(counts, i.prio)

\* A call of task_queue raises to its caller, of an entry already queued.
Refused(i) ==
    /\ dbErrors < MaxDbErrors
    /\ dbErrors' = dbErrors + 1
    /\ unsaved' = unsaved \cup {i}

(* submit_priority up to its first await: the INSERT works or raises.      *)
Submit(t, p) ==
    /\ up /\ t \notin submitted
    /\ CanPut(queue, counts, p)
    /\ db' = Inserted(db, t, "pending")
    /\ Put(Entry(p, t))
    /\ lastSeq' = lastSeq + 1
    /\ submitted' = submitted \cup {t}
    /\ \/ /\ store' = Saved(Entry(p, t))
          /\ saving' = saving \cup {Entry(p, t)}
          /\ UNCHANGED <<unsaved, dbErrors>>
       \/ /\ Refused(Entry(p, t))
          /\ UNCHANGED <<store, saving>>
    /\ UNCHANGED <<up, disk, kept, requeueing, crew, stranded, crashes, requeues>>

SubmitRejected(t, p) ==
    /\ up /\ t \notin submitted
    /\ ~CanPut(queue, counts, p)
    /\ db' = Inserted(db, t, "error")
    /\ lastSeq' = lastSeq + 1
    /\ submitted' = submitted \cup {t}
    /\ UNCHANGED <<up, disk, store, kept, queue, counts, saving, requeueing, unsaved, crew,
                   stranded, bounds>>

SubmitSaved(i) ==
    /\ up /\ i \in saving
    /\ kept' = store
    /\ saving' = saving \ {i}
    /\ UNCHANGED <<up, db, disk, store, entries, submitted, requeueing, unsaved, crew,
                   stranded, bounds>>

\* The commit raises: what the connection wrote waits for the next commit.
SubmitNotSaved(i) ==
    /\ up /\ i \in saving
    /\ Refused(i)
    /\ saving' = saving \ {i}
    /\ UNCHANGED <<up, tables, entries, submitted, requeueing, crew, stranded, crashes,
                   requeues>>

\* mutant: a refused retry stays pending
NotRolledBack(d, t) == Updated(d, t, "pending")

RolledBack(d, t) == Updated(d, t, "error")

(* requeue_dlq_task: any task with a row, whatever its status.             *)
Requeue(t) ==
    LET i == Entry(NormalPriority, t) IN
    /\ up /\ requeues < MaxRequeues
    /\ db.rows[t] # "none"
    /\ disk' = db
    /\ IF CanPut(queue, counts, NormalPriority)
       THEN /\ db' = Updated(db, t, "pending")
            /\ Put(i)
            /\ \/ /\ store' = Saved(i)
                  /\ requeueing' = requeueing \cup {i}
                  /\ UNCHANGED <<unsaved, dbErrors>>
               \/ /\ Refused(i)
                  /\ UNCHANGED <<store, requeueing>>
            /\ stranded' = stranded \ {t}
       ELSE /\ db' = RolledBack(db, t)
            /\ UNCHANGED <<store, queue, counts, requeueing, unsaved, stranded, dbErrors>>
    /\ lastSeq' = lastSeq + 1
    /\ requeues' = requeues + 1
    /\ UNCHANGED <<up, kept, submitted, saving, crew, crashes>>

\* The endpoint then removes the task's dead letter (retry_dlq).
RequeueSaved(i) ==
    /\ up /\ i \in requeueing
    /\ kept' = store
    /\ requeueing' = requeueing \ {i}
    /\ db' = [db EXCEPT !.dlq = @ \ {i.task}]
    /\ UNCHANGED <<up, disk, store, entries, submitted, saving, unsaved, crew, stranded, bounds>>

\* Or the commit raises through the endpoint, and the dead letter stays.
RequeueNotSaved(i) ==
    /\ up /\ i \in requeueing
    /\ Refused(i)
    /\ requeueing' = requeueing \ {i}
    /\ UNCHANGED <<up, tables, entries, submitted, saving, crew, stranded, crashes, requeues>>

-----------------------------------------------------------------------------
(* Workers: _worker_loop, _process and _finish.  "done" is the outcome a   *)
(* worker has written and is still cleaning up after.                      *)

InProcess == {"fetched", "mark", "token", "gen", "clean_completed", "clean_error",
              "post_completed", "post_error"}
InHandler == {"recover", "unqueue"}
Busy == InProcess \cup InHandler
WorkerState == Busy \cup {"off", "idle", "dead"}

Cleaning(status) == IF status = "completed" THEN "clean_completed" ELSE "clean_error"

Goto(w, label) == pc' = [pc EXCEPT ![w] = label]

\* The finally clause of the worker loop: the task is let go.
LetGo(w, label) ==
    /\ Goto(w, label)
    /\ job' = [job EXCEPT ![w] = None]
    /\ attempt' = [attempt EXCEPT ![w] = 0]
    /\ processing' = processing - 1

\* last_active: the worker becomes the most recently active one.
Touched(w) ==
    IF \E k \in DOMAIN pool : pool[k] = w
    THEN LET k == CHOOSE k \in DOMAIN pool : pool[k] = w
         IN  Append(RemoveAt(pool, k), w)
    ELSE pool

Get(w) ==
    /\ up /\ pc[w] = "idle"
    /\ \E i \in Heads(queue) :
         /\ Take(i)
         /\ job' = [job EXCEPT ![w] = i.task]
    /\ Goto(w, "fetched")
    /\ pool' = Touched(w)
    /\ processing' = processing + 1
    /\ UNCHANGED <<up, tables, lastSeq, callers, attempt, stranded, bounds>>

(* _process: db.get, then mark_started whatever the row's status, and the  *)
(* UPDATE of task_queue; a missing row is let go, and its task_queue row   *)
(* stays.                                                                  *)
ReadRow(w) ==
    /\ up /\ pc[w] = "fetched"
    /\ disk' = db
    /\ IF db.rows[job[w]] = "none"
       THEN LetGo(w, "idle") /\ UNCHANGED <<db, store>>
       ELSE /\ db' = Updated(db, job[w], "processing")
            /\ store' = MarkedProcessing(job[w])
            /\ Goto(w, "mark")
            /\ UNCHANGED <<job, attempt, processing>>
    /\ UNCHANGED <<up, kept, entries, callers, pool, stranded, bounds>>

(* A commit the worker awaits.  The commit of the task's INSERT, asked for  *)
(* before, returned before.                                                *)
Committed(w) ==
    /\ \A i \in saving \cup requeueing : i.task # job[w]
    /\ kept' = store

MarkProcessing(w) ==
    /\ up /\ pc[w] = "mark"
    /\ Committed(w)
    /\ Goto(w, "token")
    /\ attempt' = [attempt EXCEPT ![w] = 1]
    /\ UNCHANGED <<up, db, disk, store, entries, callers, job, pool, processing,
                   stranded, bounds>>

GetToken(w) ==
    /\ up /\ pc[w] = "token"
    /\ Goto(w, "gen")
    /\ UNCHANGED <<up, tables, entries, callers, job, attempt, pool, processing,
                   stranded, bounds>>

\* mutant: the loop does not count its attempts
SameAttempt(n) == n

NextAttempt(n) == n + 1

\* A transient error with attempts left: back off and try again.
Retry(w) ==
    /\ up /\ pc[w] = "gen" /\ attempt[w] < RetryMax
    /\ Goto(w, "token")
    /\ attempt' = [attempt EXCEPT ![w] = NextAttempt(@)]
    /\ UNCHANGED <<up, tables, entries, callers, job, pool, processing, stranded, bounds>>

(* The end of the retry loop: a result, a permanent or last error, or no   *)
(* token.  _finish writes the outcome and deletes the task_queue row.      *)
Finish(w, status) ==
    /\ up
    /\ \/ pc[w] = "gen"
       \/ pc[w] = "token" /\ status = "error"
    /\ db' = Updated(db, job[w], status)
    /\ store' = Removed(job[w])
    /\ Goto(w, Cleaning(status))
    /\ UNCHANGED <<up, disk, kept, entries, callers, job, attempt, pool, processing,
                   stranded, bounds>>

Clean(w, status) ==
    /\ up /\ pc[w] = Cleaning(status)
    /\ Committed(w)
    /\ Goto(w, IF status = "completed" THEN "post_completed" ELSE "post_error")
    /\ UNCHANGED <<up, db, disk, store, entries, callers, job, attempt, pool, processing,
                   stranded, bounds>>

\* The rest of _finish awaits a broadcast and writes nothing.
EndCompleted(w) ==
    /\ up /\ pc[w] = "post_completed"
    /\ LetGo(w, "idle")
    /\ UNCHANGED <<up, tables, entries, callers, pool, stranded, bounds>>

\* push_dlq_on_exhaust: db.get, then the dead letter.
EndError(w) ==
    /\ up /\ pc[w] = "post_error"
    /\ disk' = db
    /\ db' = [db EXCEPT !.dlq = @ \cup {job[w]}]
    /\ LetGo(w, "idle")
    /\ UNCHANGED <<up, store, kept, entries, callers, pool, stranded, bounds>>

\* asyncio.timeout(TASK_HARD_TIMEOUT) expires, or an await of _process raises.
Abort(w) ==
    /\ up /\ pc[w] \in InProcess
    /\ Goto(w, "recover")
    /\ UNCHANGED <<up, tables, entries, callers, job, attempt, pool, processing,
                   stranded, bounds>>

\* mutant: the terminal guard is missing
RecoveredBlindly(d, t) == Updated(d, t, "error")

\* Both handlers write "error" unless the row is terminal.
Recovered(d, t) == IF d.rows[t] \in Terminal THEN d ELSE Updated(d, t, "error")

Recover(w) ==
    /\ up /\ pc[w] = "recover"
    /\ disk' = db
    /\ db' = Recovered(db, job[w])
    /\ store' = Removed(job[w])
    /\ Goto(w, "unqueue")
    /\ UNCHANGED <<up, kept, entries, callers, job, attempt, pool, processing,
                   stranded, bounds>>

Unqueue(w) ==
    /\ up /\ pc[w] = "unqueue"
    /\ Committed(w)
    /\ LetGo(w, "idle")
    /\ UNCHANGED <<up, db, disk, store, entries, callers, pool, stranded, bounds>>

(* A database error inside a handler ends the worker's coroutine: db.get   *)
(* or the commit fails, or the DELETE does when the row is written.        *)
HandlerRaises(w) ==
    /\ up /\ pc[w] \in InHandler
    /\ dbErrors < MaxDbErrors
    /\ dbErrors' = dbErrors + 1
    /\ stranded' = stranded \cup {job[w]}
    /\ \/ UNCHANGED <<db, disk>>
       \/ pc[w] = "recover" /\ disk' = db /\ db' = Recovered(db, job[w])
    /\ LetGo(w, "dead")
    /\ UNCHANGED <<up, store, kept, entries, callers, pool, crashes, requeues>>

-----------------------------------------------------------------------------
(* The scaler (worker/scaler.py).  Its score depends on load, latency,     *)
(* tokens and memory and may be anything; its limits are kept.             *)

Smaller(a, b) == IF a < b THEN a ELSE b

ScaleUp ==
    LET room == Cardinality(Workers) - Len(pool)
        free == {w \in Workers : pc[w] = "off"}
    IN  /\ up /\ room > 0
        /\ \E new \in [1..Smaller(2, room) -> free] :
             /\ IsInjective(new)
             /\ pool' = pool \o new
             /\ pc' = [w \in Workers |-> IF w \in {new[k] : k \in DOMAIN new}
                                         THEN "idle" ELSE pc[w]]
        /\ UNCHANGED <<up, tables, entries, callers, job, attempt, processing,
                       stranded, bounds>>

(* _shrink_one_worker cancels the worker that was active least recently:   *)
(* the CancelledError passes through the worker loop without a write.      *)
Shrink ==
    /\ up /\ Len(pool) > MinWorkers /\ pool # <<>>
    /\ LET w == Head(pool) IN
         IF pc[w] \in Busy
         THEN LetGo(w, "off") /\ stranded' = stranded \cup {job[w]}
         ELSE Goto(w, "off") /\ UNCHANGED <<job, attempt, processing, stranded>>
    /\ pool' = Tail(pool)
    /\ UNCHANGED <<up, tables, entries, callers, bounds>>

-----------------------------------------------------------------------------
(* The process stops -- a crash, or stop() cancelling every worker -- and  *)
(* starts again.                                                           *)

Crash ==
    /\ up /\ crashes < MaxCrashes
    /\ up' = FALSE
    /\ crashes' = crashes + 1
    /\ db' = disk /\ store' = kept
    /\ queue' = {} /\ counts' = CountOf({}) /\ lastSeq' = 0
    /\ saving' = {} /\ requeueing' = {} /\ unsaved' = {}
    /\ pc' = [w \in Workers |-> "off"]
    /\ job' = [w \in Workers |-> None]
    /\ attempt' = [w \in Workers |-> 0]
    /\ pool' = <<>> /\ processing' = 0
    /\ stranded' = Unfinished(disk)
    /\ UNCHANGED <<disk, kept, submitted, requeues, dbErrors>>

Waiting == {[prio |-> r.prio, seq |-> r.seq, task |-> r.task, resumed |-> TRUE] :
                r \in {s \in store : s.st = "pending"}}

(* start(): recover_stale_tasks turns the rows older than TASK_HARD_TIMEOUT *)
(* + 60 s into errors -- which ones are so old is up to the clock -- and    *)
(* _resume_from_queue puts the pending task_queue rows back.               *)
Start ==
    /\ ~up
    /\ up' = TRUE
    /\ \E old \in SUBSET Unfinished(db) :
         db' = [db EXCEPT !.rows = [t \in Tasks |-> IF t \in old THEN "error" ELSE @[t]]]
    /\ disk' = db'
    /\ queue' = Restored(Waiting)
    /\ counts' = CountOf(queue')
    /\ pool' = StartPool
    /\ pc' = [w \in Workers |-> IF \E k \in DOMAIN StartPool : StartPool[k] = w
                                THEN "idle" ELSE "off"]
    /\ stranded' = Unfinished(db') \ {i.task : i \in queue'}
    /\ UNCHANGED <<store, kept, lastSeq, callers, job, attempt, processing, bounds>>

-----------------------------------------------------------------------------
Init ==
    /\ up = TRUE
    /\ db = EmptyDatabase /\ disk = EmptyDatabase /\ store = {} /\ kept = {}
    /\ queue = {} /\ counts = CountOf({}) /\ lastSeq = 0
    /\ submitted = {} /\ saving = {} /\ requeueing = {} /\ unsaved = {}
    /\ pc = [w \in Workers |-> IF \E k \in DOMAIN StartPool : StartPool[k] = w
                               THEN "idle" ELSE "off"]
    /\ job = [w \in Workers |-> None]
    /\ attempt = [w \in Workers |-> 0]
    /\ pool = StartPool /\ processing = 0
    /\ stranded = {}
    /\ crashes = 0 /\ requeues = 0 /\ dbErrors = 0

Process(w) ==
    \/ ReadRow(w) \/ MarkProcessing(w) \/ GetToken(w) \/ Retry(w)
    \/ \E status \in Terminal : Finish(w, status)
    \/ \E status \in Terminal : Clean(w, status)
    \/ EndCompleted(w) \/ EndError(w)
    \/ Recover(w) \/ Unqueue(w)

Callers ==
    \/ \E t \in Tasks, p \in Priorities : Submit(t, p) \/ SubmitRejected(t, p)
    \/ \E i \in saving : SubmitSaved(i) \/ SubmitNotSaved(i)
    \/ \E t \in Tasks : Requeue(t)
    \/ \E i \in requeueing : RequeueSaved(i) \/ RequeueNotSaved(i)

Next ==
    \/ Callers
    \/ Flush
    \/ \E w \in Workers : Get(w) \/ Process(w) \/ Abort(w) \/ HandlerRaises(w)
    \/ ScaleUp \/ Shrink
    \/ Crash \/ Start

Spec == Init /\ [][Next]_vars

(* A ready coroutine of the event loop runs: whoever takes the head of the *)
(* queue, every commit returns, every await of a worker ends (the hard     *)
(* timeout bounds them all), and a stopped process is started again.       *)
FairSpec ==
    /\ Spec
    /\ WF_vars(\E w \in Workers : Get(w))
    /\ WF_vars(\E i \in saving : SubmitSaved(i) \/ SubmitNotSaved(i))
    /\ WF_vars(\E i \in requeueing : RequeueSaved(i) \/ RequeueNotSaved(i))
    /\ \A w \in Workers : WF_vars(Process(w))
    /\ WF_vars(Start)

-----------------------------------------------------------------------------
(* Properties.                                                             *)

TypeOK ==
    /\ up \in BOOLEAN
    /\ db \in Database /\ disk \in Database
    /\ store \subseteq QueueRow /\ kept \subseteq QueueRow
    /\ queue \subseteq Item /\ counts \in [Priorities -> Nat] /\ lastSeq \in Nat
    /\ submitted \subseteq Tasks /\ saving \subseteq Item /\ requeueing \subseteq Item
    /\ unsaved \subseteq Item
    /\ pc \in [Workers -> WorkerState]
    /\ job \in [Workers -> Tasks \cup {None}]
    /\ attempt \in [Workers -> 0..RetryMax]
    /\ pool \in Seq(Workers)
    /\ processing \in Int
    /\ stranded \subseteq Tasks
    /\ crashes \in 0..MaxCrashes /\ requeues \in 0..MaxRequeues
    /\ dbErrors \in 0..MaxDbErrors

Queued(t) == \E i \in queue : i.task = t
Held(t) == \E w \in Workers : pc[w] \in Busy /\ job[w] = t

(* No task is lost: a row that says pending or processing belongs to a     *)
(* task that is in the queue or in a worker's hands, or whose processing   *)
(* was cut by a cancellation, a handler's own failure or a restart.  No    *)
(* retry, timeout, exception, rejection or dead-letter retry strands one.  *)
NoLostTask ==
    \A t \in Unfinished(db) : Queued(t) \/ Held(t) \/ t \in stranded

(* Without dead-letter retries one task has at most one runner: it is not  *)
(* held twice, nor queued twice, nor queued while it is held.              *)
SingleRunner ==
    requeues = 0 => \A t \in Tasks :
        /\ \A i, j \in queue : i.task = t /\ j.task = t => i = j
        /\ \A v, w \in Workers : pc[v] \in Busy /\ pc[w] \in Busy
                                 /\ job[v] = t /\ job[w] = t => v = w
        /\ ~(Queued(t) /\ Held(t))

(* The persistent queue covers the one in memory: an entry a crash would   *)
(* wipe has a durable pending row to resume it from, unless its caller     *)
(* still awaits the commit or was told that it failed.  (A dead-letter     *)
(* retry of a running task loses its row when the run it doubles ends.)    *)
StoreCoversQueue ==
    requeues = 0 => \A i \in queue :
        \/ i \in saving \cup unsaved
        \/ \E r \in kept : r.task = i.task /\ r.prio = i.prio /\ r.st = "pending"

(* A result that reached the row is not overwritten, by a late timeout (the *)
(* handlers' guard, "不得把真实结果二次覆盖成 error 并抹掉 image_url") or by a   *)
(* restart that resumes the task, unless a dead-letter retry asked for it. *)
ResultKept ==
    [][up /\ up' /\ requeues' = 0 => \A t \in Tasks :
           db.rows[t] = "completed" => db'.rows[t] = "completed"]_vars

(* A submitted task settles, saved to task_queue or not, unless its         *)
(* processing was cut short, or a worker died in a handler: the pool does  *)
(* not replace it, and with the last one nobody is left to take a task.    *)
EveryTaskSettles ==
    \A t \in Tasks : db.rows[t] = "pending" ~>
                        \/ db.rows[t] \in Terminal \/ t \in stranded
                        \/ \E w \in Workers : pc[w] = "dead"
=============================================================================
