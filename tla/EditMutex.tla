----------------------------- MODULE EditMutex ------------------------------
(***************************************************************************)
(* The lock file behind which processes edit images when the lease of      *)
(* EditLease is switched off, which is the default (api/dispatch_edit.py). *)
(* The jobs of one process stand in line at its asyncio.Lock, so a process *)
(* has one attempt at a time.  Each system call is a step: between two of  *)
(* them the other processes run.                                           *)
(*                                                                         *)
(* One unit of time is the pause between two attempts; nothing is awaited  *)
(* inside an attempt.                                                      *)
(***************************************************************************)
EXTENDS Naturals, FiniteSets

CONSTANTS Procs,
          Inits,      \* processes whose pid is 1, as in a container
          MaxAge,     \* EDIT_LOCK_MAX_AGE
          Wait,       \* EDIT_CONCURRENCY_WAIT
          MaxDeaths,  \* bound: crashes
          None

VARIABLES pc, waited,  \* of the job at the head of each process
          lock,        \* the lock file
          life         \* how often each process has died

vars == <<pc, waited, lock, life>>

Alive == {p \in Procs : pc[p] # "dead"}
Goto(p, label) == pc' = [pc EXCEPT ![p] = label]

(* The file as the processes see it, and its creator.                      *)
NoFile == [is |-> "absent", by |-> None, life |-> 0, age |-> 0]
Mine(p) == lock.by = p /\ lock.life = life[p]

Init ==
    /\ pc = [p \in Procs |-> "out"]
    /\ waited = [p \in Procs |-> 0]
    /\ lock = NoFile
    /\ life = [p \in Procs |-> 0]

\* _run_edit_job has the lock of its process.
Begin(p) ==
    /\ pc[p] = "out" /\ Goto(p, "trying")
    /\ waited' = [waited EXCEPT ![p] = 0]
    /\ UNCHANGED <<lock, life>>

GiveUp(p) ==
    /\ pc[p] = "trying" /\ waited[p] > Wait
    /\ Goto(p, "out")
    /\ UNCHANGED <<waited, lock, life>>

\* os.open(O_CREAT | O_EXCL)
Open(p) ==
    /\ pc[p] = "trying" /\ waited[p] <= Wait
    /\ IF lock = NoFile
       THEN /\ lock' = [is |-> "empty", by |-> p, life |-> life[p], age |-> 0]
            /\ Goto(p, "writing")
       ELSE Goto(p, "judging") /\ UNCHANGED lock
    /\ UNCHANGED <<waited, life>>

\* os.write: into the file it opened, which may have been unlinked since.
Write(p) ==
    /\ pc[p] = "writing"
    /\ lock' = IF Mine(p) THEN [lock EXCEPT !.is = "full", !.age = 0] ELSE lock
    /\ Goto(p, "running")
    /\ UNCHANGED <<waited, life>>

\* mutant: only its age makes a lock stale
StaleByAge == lock.is # "full" \/ lock.age > MaxAge

(* _edit_mutex_stale: unreadable, too old, of a process with pid 1, or of  *)
(* one that is gone.  A process that came back has the pid it had.         *)
Stale == lock.is # "full" \/ lock.age > MaxAge \/ lock.by \in Inits \/ lock.by \notin Alive

Judge(p) ==
    /\ pc[p] = "judging"
    /\ Goto(p, IF Stale THEN "unlinking" ELSE "pausing")
    /\ UNCHANGED <<waited, lock, life>>

\* os.unlink: whatever file has the name by now.
Unlink(p) ==
    /\ pc[p] = "unlinking"
    /\ lock' = NoFile
    /\ Goto(p, "trying")
    /\ UNCHANGED <<waited, life>>

\* _run_edit_chain returns.
End(p) ==
    /\ pc[p] = "running" /\ Goto(p, "checking")
    /\ UNCHANGED <<waited, lock, life>>

\* _release_edit_mutex reads the file, and unlinks it if the token is its own.
Check(p) ==
    /\ pc[p] = "checking"
    /\ Goto(p, IF Mine(p) /\ lock.is = "full" THEN "removing" ELSE "out")
    /\ UNCHANGED <<waited, lock, life>>

Remove(p) ==
    /\ pc[p] = "removing"
    /\ lock' = NoFile
    /\ Goto(p, "out")
    /\ UNCHANGED <<waited, life>>

Crash(p) ==
    /\ pc[p] # "dead" /\ life[p] < MaxDeaths
    /\ Goto(p, "dead")
    /\ life' = [life EXCEPT ![p] = @ + 1]
    /\ waited' = [waited EXCEPT ![p] = 0]
    /\ UNCHANGED lock
Restart(p) ==
    /\ pc[p] = "dead" /\ Goto(p, "out")
    /\ UNCHANGED <<waited, lock, life>>

\* The pause of an attempt ends with a unit of time.
Tick ==
    /\ \A p \in Procs : pc[p] \in {"out", "pausing", "running", "dead"}
    /\ lock' = IF lock.is = "full" /\ lock.age <= MaxAge THEN [lock EXCEPT !.age = @ + 1] ELSE lock
    /\ pc' = [p \in Procs |-> IF pc[p] = "pausing" THEN "trying" ELSE pc[p]]
    /\ waited' = [p \in Procs |-> IF pc[p] = "pausing" THEN waited[p] + 1 ELSE waited[p]]
    /\ UNCHANGED life

Attempt(p) == GiveUp(p) \/ Open(p) \/ Write(p) \/ Judge(p) \/ Unlink(p) \/ Check(p) \/ Remove(p)

Next ==
    \/ \E p \in Procs : Begin(p) \/ Attempt(p) \/ End(p) \/ Crash(p) \/ Restart(p)
    \/ Tick

Spec == Init /\ [][Next]_vars
\* Time passes, and an attempt awaits nothing.
FairSpec == Spec /\ WF_vars(Tick) /\ \A p \in Procs : WF_vars(Attempt(p))

-----------------------------------------------------------------------------
\* Types of the lock file and the processes at it (api/dispatch_edit.py:77).
TypeOK ==
    /\ pc \in [Procs -> {"out", "trying", "writing", "judging", "unlinking", "pausing",
                         "running", "checking", "removing", "dead"}]
    /\ waited \in [Procs -> 0..(Wait + 1)]
    /\ lock \in [is : {"absent", "empty", "full"}, by : Procs \cup {None},
                 life : 0..MaxDeaths, age : 0..(MaxAge + 1)]
    /\ life \in [Procs -> 0..MaxDeaths]

\* A process that died in the middle of an edit, or of taking the lock, does not
\* keep the others out: who comes to its lock gets through before it would give up,
\* while the dead one stays away and nobody else is there (api/dispatch_edit.py:66).
\* A process that comes back with the pid it had takes its own old lock for one in
\* use, and is left out.
DeadHolderPasses ==
    \A p \in Procs :
        (pc[p] = "trying" /\ waited[p] = 0 /\ lock.by # p)
            ~> \/ pc[p] \in {"running", "dead"}
               \/ \E q \in Procs \ {p} : pc[q] # "dead"

\* One process edits at a time: "跨进程文件锁，保障多进程/多实例不撞上游"
\* (api/dispatch_edit.py:4).
OneEditAtATime ==
    \A p, q \in Procs : pc[p] = "running" /\ pc[q] = "running" => p = q
=============================================================================
