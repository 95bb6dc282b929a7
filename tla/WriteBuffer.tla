---------------------------- MODULE WriteBuffer ----------------------------
(***************************************************************************)
(* The batched writes of api/db/core.py: `_enqueue_write` puts a statement *)
(* in a list; a timer, every reader and the shutdown empty the list under  *)
(* one asyncio lock.  A flush swaps the list out first and then executes   *)
(* its statements one by one, each durable at once (autocommit); whatever  *)
(* ends the flush early drops the rest.  Statements are numbered in the    *)
(* order of their issue; the database is the sequence of those that took   *)
(* effect.  Shutdown is the order of phases of api/lifespan.py.            *)
(***************************************************************************)
EXTENDS Naturals, SequencesExt

CONSTANTS Callers,    \* coroutines of requests, workers and provider tasks
          MaxWrites,  \* bound: statements issued
          MaxFaults   \* bound: failing or cancelled flushes, timeouts of phases

Timer == "timer"
Stop == "stop"
Nobody == "nobody"
Flushers == Callers \cup {Timer, Stop}

\* A coroutine is neither the timer nor the shutdown.
CallersApart == Timer \notin Callers /\ Stop \notin Callers /\ Nobody \notin Callers

ASSUME BufferAssumption == CallersApart /\ MaxWrites \in Nat /\ MaxFaults \in Nat

VARIABLES issued,   \* number of statements issued
          buffer,   \* _write_buffer
          batch,    \* buf of the flush that runs
          stored,   \* the statements that took effect, in order
          place,    \* where each caller, the timer and the shutdown stand
          asked,    \* per caller: the statements issued before its read
          holder,   \* who holds _lock
          phase,    \* phase of the lifespan
          faults    \* faults so far

bufferVars == <<issued, buffer, batch, holder, stored, place, asked, phase, faults>>

Places == [idle |-> {"idle", "wait", "flush", "read"},
           timer |-> {"sleep", "wait", "flush", "last", "final", "dead", "off"},
           stop |-> {"idle", "wait", "flush", "off"}]
Phases == {"serve", "tasks", "flush", "drain", "closed"}

BufferInit ==
    /\ issued = 0 /\ buffer = <<>> /\ batch = <<>> /\ stored = <<>>
    /\ holder = Nobody
    /\ place = [p \in Flushers |-> IF p = Timer THEN "sleep" ELSE "idle"]
    /\ asked = [c \in Callers |-> 0]
    /\ phase = "serve" /\ faults = 0

Steps(p, to) == place' = [place EXCEPT ![p] = to]
Fault == faults < MaxFaults /\ faults' = faults + 1

-----------------------------------------------------------------------------
(* Callers                                                                 *)

\* _enqueue_write in batch mode: no await, so nothing can come between.
Write(c) ==
    /\ phase # "closed" /\ place[c] = "idle" /\ issued < MaxWrites
    /\ issued' = issued + 1
    /\ buffer' = Append(buffer, issued')
    /\ UNCHANGED <<batch, holder, stored, place, asked, phase, faults>>

\* claim_idempotency and the cleaners take a connection and execute at once.
WriteDirect(c) ==
    /\ phase # "closed" /\ place[c] = "idle" /\ issued < MaxWrites
    /\ issued' = issued + 1
    /\ stored' = Append(stored, issued')
    /\ UNCHANGED <<buffer, batch, holder, place, asked, phase, faults>>

\* mutant: a reader that finds the list empty does not wait for the lock.
AskReadFast(c) ==
    /\ phase # "closed" /\ place[c] = "idle"
    /\ Steps(c, IF buffer = <<>> THEN "read" ELSE "wait")
    /\ asked' = [asked EXCEPT ![c] = issued]
    /\ UNCHANGED <<issued, buffer, batch, holder, stored, phase, faults>>

\* A reader comes to _ensure_flushed.
AskRead(c) ==
    /\ phase # "closed" /\ place[c] = "idle"
    /\ Steps(c, "wait")
    /\ asked' = [asked EXCEPT ![c] = issued]
    /\ UNCHANGED <<issued, buffer, batch, holder, stored, phase, faults>>

\* The query of the reader, after its flush.
Read(c) ==
    /\ place[c] = "read"
    /\ Steps(c, "idle")
    /\ UNCHANGED <<issued, buffer, batch, holder, stored, asked, phase, faults>>

-----------------------------------------------------------------------------
(* A flush, whoever runs it                                                *)

\* The lock is taken and the list swapped out; a connection is awaited next.
SwapOut(p) ==
    /\ holder = Nobody
    /\ place[p] \in {"wait", "last"}
    /\ holder' = p
    /\ batch' = buffer
    /\ buffer' = <<>>
    /\ Steps(p, IF place[p] = "last" THEN "final" ELSE "flush")
    /\ UNCHANGED <<issued, stored, asked, phase, faults>>

\* One `await conn.execute`.
Execute ==
    /\ holder # Nobody /\ batch # <<>>
    /\ stored' = Append(stored, Head(batch))
    /\ batch' = Tail(batch)
    /\ UNCHANGED <<issued, buffer, holder, place, asked, phase, faults>>

\* Where a flusher goes when its flush has ended well.
After(p) ==
    CASE p \in Callers -> "read"
      [] p = Timer -> IF place[p] = "final" THEN "off" ELSE "sleep"
      [] p = Stop -> "off"

\* All executed: commit, and the lock is released.
Commit ==
    \E p \in Flushers :
        /\ holder = p /\ batch = <<>>
        /\ holder' = Nobody
        /\ Steps(p, After(p))
        /\ UNCHANGED <<issued, buffer, batch, stored, asked, phase, faults>>

\* The statement under way when a flush is cut off may still take effect: it
\* runs in the thread of the connection.
CutOff ==
    /\ stored' \in {stored} \cup (IF batch = <<>> THEN {} ELSE {Append(stored, Head(batch))})
    /\ batch' = <<>>
    /\ holder' = Nobody

\* mutant: a flush that fails puts its statements back, behind the newer ones.
FlushPutsBack ==
    \E p \in Flushers :
        /\ Fault
        /\ holder = p /\ batch # <<>>
        /\ holder' = Nobody /\ batch' = <<>> /\ buffer' = buffer \o batch
        /\ Steps(p, CASE p \in Callers -> "idle" [] p = Timer -> "dead" [] p = Stop -> "off")
        /\ UNCHANGED <<issued, stored, asked, phase>>

\* mutant: a flush that fails leaves the lock without its batch.
FlushKeepsBatch ==
    \E p \in Flushers :
        /\ Fault
        /\ holder = p /\ batch # <<>>
        /\ holder' = Nobody
        /\ Steps(p, CASE p \in Callers -> "idle" [] p = Timer -> "dead" [] p = Stop -> "off")
        /\ UNCHANGED <<issued, buffer, batch, stored, asked, phase>>

\* A connection or a statement fails: the call of the reader fails, the task of
\* the timer ends, the shutdown goes on.
FlushFails ==
    \E p \in Flushers :
        /\ Fault
        /\ holder = p /\ batch # <<>>
        /\ holder' = Nobody /\ batch' = <<>>
        /\ Steps(p, CASE p \in Callers -> "idle" [] p = Timer -> "dead" [] p = Stop -> "off")
        /\ UNCHANGED <<issued, buffer, stored, asked, phase>>

\* A hard timeout or a client that leaves cancels a reader.
Cancel(c) ==
    /\ Fault
    /\ Steps(c, "idle")
    /\ \/ place[c] = "wait" /\ UNCHANGED <<batch, holder, stored>>
       \/ place[c] = "flush" /\ CutOff
    /\ UNCHANGED <<issued, buffer, asked, phase>>

-----------------------------------------------------------------------------
(* The timer and the shutdown                                              *)

TimerWakes ==
    /\ phase = "serve" /\ place[Timer] = "sleep"
    /\ Steps(Timer, "wait")
    /\ UNCHANGED <<issued, buffer, batch, holder, stored, asked, phase, faults>>

\* Phase 1 cancels the timer, which flushes once more.
StopTasks ==
    /\ phase = "serve"
    /\ phase' = "tasks"
    /\ IF place[Timer] = "flush" THEN CutOff ELSE UNCHANGED <<batch, holder, stored>>
    /\ Steps(Timer, IF place[Timer] = "dead" THEN "dead" ELSE "last")
    /\ UNCHANGED <<issued, buffer, asked, faults>>

\* A phase ends when its task has, or cancels it at its timeout.
PhaseEnds(p) ==
    \/ place[p] \in {"off", "dead"} /\ UNCHANGED <<batch, holder, stored, faults>>
    \/ /\ Fault
       /\ \/ place[p] \in {"last", "wait"} /\ UNCHANGED <<batch, holder, stored>>
          \/ place[p] \in {"final", "flush"} /\ CutOff

FlushPhase ==
    /\ phase = "tasks" /\ PhaseEnds(Timer)
    /\ phase' = "flush"
    /\ place' = [place EXCEPT ![Timer] = "off", ![Stop] = "wait"]
    /\ UNCHANGED <<issued, buffer, asked>>

DrainPhase ==
    /\ phase = "flush" /\ PhaseEnds(Stop)
    /\ phase' = "drain"
    /\ Steps(Stop, "off")
    /\ UNCHANGED <<issued, buffer, asked>>

\* The connections are closed when the workers and the provider tasks have
\* ended, or when the timeouts of their phases have passed.
CloseDown ==
    /\ phase = "drain"
    /\ \/ (\A c \in Callers : place[c] = "idle") /\ UNCHANGED faults
       \/ (\E c \in Callers : place[c] # "idle") /\ Fault
    /\ phase' = "closed"
    /\ batch' = <<>> /\ holder' = Nobody
    /\ place' = [p \in Flushers |-> IF p \in Callers THEN "idle" ELSE "off"]
    /\ UNCHANGED <<issued, buffer, stored, asked>>

CallerNext(c) == Write(c) \/ WriteDirect(c) \/ AskRead(c) \/ Read(c) \/ Cancel(c)
FlushNext == (\E p \in Flushers : SwapOut(p)) \/ Execute \/ Commit \/ FlushFails
PhaseNext == TimerWakes \/ StopTasks \/ FlushPhase \/ DrainPhase \/ CloseDown

BufferNext == (\E c \in Callers : CallerNext(c)) \/ FlushNext \/ PhaseNext

BufferSpec == BufferInit /\ [][BufferNext]_bufferVars

\* The event loop runs what is ready, the timer's sleep ends, and the lock is
\* handed out in order.
BufferFairSpec ==
    /\ BufferSpec
    /\ WF_bufferVars(TimerWakes) /\ WF_bufferVars(Execute) /\ WF_bufferVars(Commit)
    /\ \A c \in Callers : WF_bufferVars(Read(c))
    /\ \A p \in Flushers : SF_bufferVars(SwapOut(p))

-----------------------------------------------------------------------------
(* Properties                                                              *)

\* Every variable stays in its type, the batch of a flush that does not run is
\* empty, and each statement is in one place at most (api/db/core.py).
BufferTypes ==
    /\ issued \in 0 .. MaxWrites
    /\ buffer \in Seq(1 .. MaxWrites) /\ batch \in Seq(1 .. MaxWrites)
    /\ stored \in Seq(1 .. MaxWrites)
    /\ holder \in Flushers \cup {Nobody}
    /\ \A c \in Callers : place[c] \in Places.idle /\ asked[c] \in 0 .. MaxWrites
    /\ place[Timer] \in Places.timer /\ place[Stop] \in Places.stop
    /\ phase \in Phases /\ faults \in 0 .. MaxFaults
    /\ holder = Nobody => batch = <<>>
    /\ IsInjective(stored \o batch \o buffer)

\* A reader queries after everything issued before it came has left memory,
\* also what another flush had already swapped out (`_ensure_flushed`).
ReadsSeeEarlierWrites ==
    \A c \in Callers : place[c] = "read" =>
        \A n \in 1 .. asked[c] : n \notin ToSet(batch \o buffer)

\* The buffer, its flushes and its failures implement the ordered log: nothing
\* is stored twice or out of order, and only the oldest are ever dropped.
Log == INSTANCE OrderedLog WITH count <- issued, pending <- batch \o buffer, log <- stored
ImplementsOrderedLog == Log!Spec

\* "stop 时调用确保数据不丢" (the comment of `flush`): after a shutdown without a
\* fault no accepted statement is left in memory.
ClosedKeepsAll == phase = "closed" /\ faults = 0 => buffer = <<>>
=============================================================================
