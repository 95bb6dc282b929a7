---------------------------- MODULE BatchWorker ----------------------------
(***************************************************************************)
(* The batch loop of the engine (api/worker/engine.py, used when           *)
(* IF_WORKER_BATCH_ENABLED is set): a loop takes several tasks at once,    *)
(* runs a _process for each in an asyncio task of its own and waits for    *)
(* them together.  What the wait returns is looked at one by one, with an  *)
(* await for each that has no outcome, while the others run on.  Cancelling *)
(* a loop does not cancel its processes: they become orphans.              *)
(* The tables behind it, crashes and dead letters are in TaskEngine.       *)
(***************************************************************************)
EXTENDS Naturals, FiniteSets

CONSTANTS Tasks, Loops,
          BatchSize,  \* IF_WORKER_BATCH_SIZE
          Unset,
          MaxCuts     \* bound: database errors in a loop, loops taken away

\* Unset is no status and no place of a process.
ASSUME BatchAssumption ==
    /\ Unset \notin {"completed", "error", "pending", "processing"}
    /\ Unset \notin {"start", "work", "wrote", "returned", "raised", "cut"}
    /\ MaxCuts \in Nat

VARIABLES queued,   \* tasks that wait
          status,   \* per task the status in the database
          process,  \* per task where its _process stands
          bunch,    \* per loop where it stands, its batch and what of it is still to be looked at
          orphans,  \* tasks whose loop ended before them
          cuts

bunchVars == <<queued, status, process, bunch, orphans, cuts>>

Terminal == {"completed", "error"}
Running == {"start", "work", "wrote"}
NoBatch == [at |-> "idle", batch |-> {}, done |-> {}, late |-> {}, now |-> Unset]

BatchInit ==
    /\ queued = {} /\ orphans = {} /\ cuts = 0
    /\ status = [t \in Tasks |-> Unset]
    /\ process = [t \in Tasks |-> Unset]
    /\ bunch = [l \in Loops |-> NoBatch]

-----------------------------------------------------------------------------
(* A task and its _process                                                 *)

SubmitTask(t) ==
    /\ status[t] = Unset
    /\ status' = [status EXCEPT ![t] = "pending"]
    /\ queued' = queued \cup {t}
    /\ UNCHANGED <<process, bunch, orphans, cuts>>

Start(t) ==
    /\ process[t] = "start"
    /\ process' = [process EXCEPT ![t] = "work"]
    /\ status' = [status EXCEPT ![t] = "processing"]
    /\ UNCHANGED <<queued, bunch, orphans, cuts>>

\* _finish writes the outcome; events, the cache and a dead letter follow.
Finish(t) ==
    /\ process[t] = "work"
    /\ process' = [process EXCEPT ![t] = "wrote"]
    /\ \E outcome \in Terminal : status' = [status EXCEPT ![t] = outcome]
    /\ UNCHANGED <<queued, bunch, orphans, cuts>>

Return(t) ==
    /\ process[t] = "wrote"
    /\ process' = [process EXCEPT ![t] = "returned"]
    /\ UNCHANGED <<queued, status, bunch, orphans, cuts>>

Raise(t) ==
    /\ process[t] \in Running
    /\ process' = [process EXCEPT ![t] = "raised"]
    /\ UNCHANGED <<queued, status, bunch, orphans, cuts>>

-----------------------------------------------------------------------------
(* The loop                                                                *)

Take(l) ==
    /\ bunch[l].at = "idle"
    /\ \E batch \in SUBSET queued :
          /\ Cardinality(batch) \in 1 .. BatchSize
          /\ queued' = queued \ batch
          /\ process' = [t \in Tasks |-> IF t \in batch THEN "start" ELSE process[t]]
          /\ bunch' = [bunch EXCEPT ![l] = [NoBatch EXCEPT !.at = "wait", !.batch = batch]]
    /\ UNCHANGED <<status, orphans, cuts>>

\* asyncio.wait: all have ended, or TASK_HARD_TIMEOUT is over.
WaitForAll(l) ==
    LET ended == {t \in bunch[l].batch : process[t] \notin Running}
    IN  /\ bunch[l].at = "wait"
        /\ bunch' = [bunch EXCEPT ![l].at = "look", ![l].done = {t \in ended : process[t] = "raised"},
                                ![l].late = bunch[l].batch \ ended]
        /\ UNCHANGED <<queued, status, process, orphans, cuts>>

\* The next one without an outcome: those that raised come first, a late one is
\* cancelled.  The cancellation reaches it before the answer of db.get comes.
Next1(l) == IF bunch[l].done # {} THEN bunch[l].done ELSE bunch[l].late

Look(l) ==
    /\ bunch[l].at = "look"
    /\ \E t \in Next1(l) :
          /\ bunch' = [bunch EXCEPT ![l].at = "get", ![l].now = t,
                                  ![l].done = @ \ {t}, ![l].late = IF bunch[l].done = {} THEN @ \ {t} ELSE @]
          /\ process' = [process EXCEPT ![t] = IF @ \in Running THEN "cut" ELSE @]
    /\ UNCHANGED <<queued, status, orphans, cuts>>

\* mutant: no look at the row
MarkedBlindly(outcome) == "error"

\* An outcome that is there stays.
Marked(outcome) == IF outcome \in Terminal THEN outcome ELSE "error"

Mark(l) ==
    /\ bunch[l].at = "get"
    /\ status' = [status EXCEPT ![bunch[l].now] = Marked(@)]
    /\ bunch' = [bunch EXCEPT ![l].at = "look", ![l].now = Unset]
    /\ UNCHANGED <<queued, process, orphans, cuts>>

LetGo(l) ==
    /\ bunch[l].at = "look" /\ Next1(l) = {}
    /\ bunch' = [bunch EXCEPT ![l] = NoBatch]
    /\ UNCHANGED <<queued, status, process, orphans, cuts>>

\* The scaler or the shutdown cancels the loop, or db.get raises in it: the
\* `finally` counts its batch as processed, whatever became of it.
LoopEnds(l) ==
    /\ cuts < MaxCuts /\ bunch[l].at # "off"
    /\ cuts' = cuts + 1
    /\ orphans' = orphans \cup bunch[l].batch
    /\ bunch' = [bunch EXCEPT ![l] = [NoBatch EXCEPT !.at = "off"]]
    /\ UNCHANGED <<queued, status, process>>

\* The scaler adds a loop.
LoopBegins(l) ==
    /\ bunch[l].at = "off"
    /\ bunch' = [bunch EXCEPT ![l] = NoBatch]
    /\ UNCHANGED <<queued, status, process, orphans, cuts>>

BatchNext ==
    \/ \E t \in Tasks : SubmitTask(t) \/ Start(t) \/ Finish(t) \/ Return(t) \/ Raise(t)
    \/ \E l \in Loops : Take(l) \/ WaitForAll(l) \/ Look(l) \/ Mark(l) \/ LetGo(l) \/ LoopEnds(l) \/ LoopBegins(l)

BatchSpec == BatchInit /\ [][BatchNext]_bunchVars

-----------------------------------------------------------------------------
(* Properties                                                              *)

BatchTypes ==
    /\ queued \subseteq Tasks /\ orphans \subseteq Tasks /\ cuts \in 0 .. MaxCuts
    /\ \A t \in Tasks : status[t] \in Terminal \cup {"pending", "processing", Unset}
    /\ \A t \in Tasks : process[t] \in Running \cup {"returned", "raised", "cut", Unset}
    /\ \A l \in Loops :
        /\ bunch[l].at \in {"idle", "wait", "look", "get", "off"}
        /\ bunch[l].done \cup bunch[l].late \subseteq bunch[l].batch

Held(t) == \E l \in Loops : t \in bunch[l].batch

\* "已是终态则不覆盖" (api/worker/engine.py:376): the looks at a batch, each of which
\* awaits while the rest of the batch runs, neither overwrite an image nor
\* leave a task behind: when the loop lets a batch go every task has its end.
BatchSettles ==
    [][\A t \in Tasks :
          /\ status[t] = "completed" => status'[t] = "completed"
          /\ Held(t) /\ ~Held(t)' => status'[t] \in Terminal \/ t \in orphans']_bunchVars

=============================================================================
