----------------------------- MODULE EditLease ------------------------------
(***************************************************************************)
(* The image-edit jobs (_run_edit_job, api/dispatch_edit.py) under the     *)
(* lease of api/db/lease_store.py.  The upstream takes one edit at a time  *)
(* from one address, so a job runs behind an asyncio.Lock of its process   *)
(* and a lease row that all processes share, which a heartbeat renews      *)
(* while the job runs.                                                     *)
(*                                                                         *)
(* Time is kept as ages and as time left, one unit per Tick, so that no    *)
(* clock grows.  Every statement stamps itself with time.time() before it  *)
(* waits for the connection and the write lock: it takes effect at most    *)
(* MaxDelay after its stamp.                                               *)
(***************************************************************************)
EXTENDS Integers, FiniteSets

CONSTANTS
    Jobs, Procs,
    ProcOf,      \* the process a job was posted to
    TTL,         \* EDIT_LEASE_TTL
    Wait,        \* EDIT_CONCURRENCY_WAIT
    MaxDelay,    \* how late a statement or a timer may be
    MaxMissed,   \* renewals in a row that may fail without a harm
    MaxCuts,     \* bound: heartbeats cancelled inside their transaction
    MaxCrashes,  \* bound: process crashes
    MaxOverruns, \* bound: renewals that fail after MaxMissed others
    None

Interval == TTL \div 3
Lap == Interval + 2 * MaxDelay   \* from a failed renewal to the next at worst

(* The lease outlives MaxMissed + 1 renewals.  With TTL 30 s and a delay   *)
(* below 1.5 s it outlives two.                                            *)
ASSUME LeaseAssumption ==
    /\ ProcOf \in [Jobs -> Procs]
    /\ None \notin Jobs \cup Procs
    /\ {TTL, Wait, MaxDelay, MaxMissed, MaxCuts, MaxCrashes,
        MaxOverruns} \subseteq Nat
    /\ TTL > (MaxMissed + 1) * Lap + MaxDelay

VARIABLES
    pc,       \* where each job's coroutine stands
    row,      \* its request: pending, or settled with an outcome
    local,    \* which job holds each process's _EDIT_LOCK
    waited,   \* how long it has been trying to get the lease
    age,      \* how old the stamp of its acquire, or its pause, is
    lease,    \* the row of edit_leases: its holder, and the time it has left
    hb,       \* each job's heartbeat
    beat,     \* how long it has been asleep, or how old its renewal's stamp is
    missed,   \* its failed renewals in a row
    stuck,    \* the process whose connection has a transaction left open
    crashed, cuts, overruns

jobVars  == <<pc, row, local, waited, age>>
beatVars == <<hb, beat, missed>>
faults   == <<stuck, crashed, cuts, overruns>>
vars     == <<jobVars, lease, beatVars, faults>>

JobState == {"queued", "trying", "acquiring", "pausing", "running", "releasing",
             "done", "unsettled", "raised", "dead"}

\* Where a coroutine has ended by itself.
Over == {"done", "unsettled", "raised"}

Goto(j, label) == pc' = [pc EXCEPT ![j] = label]

Settled(j) == row' = [row EXCEPT ![j] = "settled"]

\* mutant: the lock of the process is not released
KeepsLocal(j) == UNCHANGED local

\* The async with local_lock of _run_edit_job ends.
LetLocalGo(j) == local' = [local EXCEPT ![ProcOf[j]] = None]

\* The job is past its attempts: their clocks stop at 0.
StopsTrying(j) ==
    /\ waited' = [waited EXCEPT ![j] = 0]
    /\ age' = [age EXCEPT ![j] = 0]

-----------------------------------------------------------------------------
(* The job.                                                                *)

\* The job gets the lock of its process, and its time to wait starts.
EnterLocal(j) ==
    /\ pc[j] = "queued" /\ local[ProcOf[j]] = None
    /\ local' = [local EXCEPT ![ProcOf[j]] = j]
    /\ Goto(j, "trying")
    /\ UNCHANGED <<row, waited, age, lease, beatVars, faults>>

\* acquire() stamps itself.
Try(j) ==
    /\ pc[j] = "trying" /\ waited[j] <= Wait
    /\ Goto(j, "acquiring")
    /\ age' = [age EXCEPT ![j] = 0]
    /\ UNCHANGED <<row, local, waited, lease, beatVars, faults>>

\* The row is marked, or the statement raises.
GiveUp(j) ==
    /\ pc[j] = "trying" /\ waited[j] > Wait
    /\ \/ Settled(j) /\ Goto(j, "done")
       \/ Goto(j, "unsettled") /\ UNCHANGED row
    /\ LetLocalGo(j) /\ StopsTrying(j)
    /\ UNCHANGED <<lease, beatVars, faults>>

\* mutant: any row counts as a lease in force
AnyRow(old) == lease.holder # None

(* What a statement with a stamp of that age takes for a lease in force:   *)
(* row["expires_at"] > now.                                                *)
InForce(old) == lease.holder # None /\ lease.left + old > 0

\* The transaction of acquire(); the heartbeat starts with the lease.
Acquire(j) ==
    /\ pc[j] = "acquiring" /\ stuck = None
    /\ ~InForce(age[j])
    /\ lease' = [holder |-> j, left |-> TTL - age[j]]
    /\ StopsTrying(j)
    /\ Goto(j, "running")
    /\ hb' = [hb EXCEPT ![j] = "asleep"]
    /\ beat' = [beat EXCEPT ![j] = 0]
    /\ UNCHANGED <<row, local, missed, faults>>

\* asyncio.sleep(1.0) between two attempts.
Refused(j) ==
    /\ pc[j] = "acquiring" /\ stuck = None
    /\ InForce(age[j])
    /\ Goto(j, "pausing")
    /\ age' = [age EXCEPT ![j] = 0]
    /\ UNCHANGED <<row, local, waited, lease, beatVars, faults>>

Resume(j) ==
    /\ pc[j] = "pausing" /\ age[j] >= 1
    /\ Goto(j, "trying")
    /\ age' = [age EXCEPT ![j] = 0]
    /\ UNCHANGED <<row, local, waited, lease, beatVars, faults>>

(* BEGIN IMMEDIATE on a connection with an open transaction, or against    *)
(* one held elsewhere for longer than busy_timeout, raises; nothing in     *)
(* _run_edit_job catches it, and the request stays pending.                *)
AcquireRaises(j) ==
    /\ pc[j] = "acquiring" /\ stuck # None
    /\ LetLocalGo(j) /\ StopsTrying(j)
    /\ Goto(j, "raised")
    /\ UNCHANGED <<row, lease, beatVars, faults>>

\* A renewal that heartbeat.cancel() stops was committed, or did not begin.
StopsCleanly(j) ==
    /\ \/ UNCHANGED lease
       \/ /\ hb[j] = "renewing" /\ stuck = None
          /\ lease.holder = j /\ InForce(beat[j])
          /\ lease' = [lease EXCEPT !.left = TTL - beat[j]]
    /\ UNCHANGED <<stuck, cuts>>

(* It was between BEGIN and COMMIT: leaving the async with closes the      *)
(* cursor and leaves the transaction of the connection open.               *)
StopsInside(j) ==
    /\ hb[j] = "renewing" /\ stuck = None /\ cuts < MaxCuts
    /\ stuck' = ProcOf[j]
    /\ cuts' = cuts + 1
    /\ UNCHANGED lease

\* heartbeat.cancel()
Stopped(j) ==
    /\ hb' = [hb EXCEPT ![j] = "off"]
    /\ beat' = [beat EXCEPT ![j] = 0]
    /\ missed' = [missed EXCEPT ![j] = 0]

\* _run_edit_chain has written an outcome and returned; or what it asks of
\* the database or of the tokens raised, and the request stays pending.
End(j) ==
    /\ pc[j] = "running"
    /\ Settled(j) \/ UNCHANGED row
    /\ StopsCleanly(j) \/ StopsInside(j)
    /\ Stopped(j)
    /\ Goto(j, "releasing")
    /\ UNCHANGED <<local, waited, age, crashed, overruns>>

NoLease == [holder |-> None, left |-> 0]

\* The release is in a finally: what was raised goes on after it.
GoesBack(j) == Goto(j, IF row[j] = "settled" THEN "done" ELSE "unsettled")

\* mutant: DELETE without the token
ReleasedByKey(j) == NoLease

\* release(): DELETE WHERE key=? AND token=?
Released(j) == IF lease.holder = j THEN NoLease ELSE lease

Release(j) ==
    /\ pc[j] = "releasing" /\ stuck = None
    /\ lease' = Released(j)
    /\ LetLocalGo(j)
    /\ GoesBack(j)
    /\ UNCHANGED <<row, waited, age, beatVars, faults>>

ReleaseRaises(j) ==
    /\ pc[j] = "releasing" /\ stuck # None
    /\ LetLocalGo(j)
    /\ GoesBack(j)
    /\ UNCHANGED <<row, waited, age, lease, beatVars, faults>>

-----------------------------------------------------------------------------
(* The heartbeat (_renew_edit_lock_loop).                                  *)

Wake(j) ==
    /\ hb[j] = "asleep" /\ beat[j] >= Interval
    /\ hb' = [hb EXCEPT ![j] = "renewing"]
    /\ beat' = [beat EXCEPT ![j] = 0]
    /\ UNCHANGED <<jobVars, lease, missed, faults>>

\* mutant: the UPDATE leaves expires_at as it is
NotExtended(j) == lease.left

\* expires_at = now + new_ttl, with the now of the stamp
Renewed(j) == TTL - beat[j]

Renew(j) ==
    /\ hb[j] = "renewing" /\ stuck = None
    /\ lease.holder = j /\ InForce(beat[j])
    /\ lease' = [lease EXCEPT !.left = Renewed(j)]
    /\ hb' = [hb EXCEPT ![j] = "asleep"]
    /\ beat' = [beat EXCEPT ![j] = 0]
    /\ missed' = [missed EXCEPT ![j] = 0]
    /\ UNCHANGED <<jobVars, faults>>

\* The lease expired or changed hands: the heartbeat ends, the job goes on.
RenewLost(j) ==
    /\ hb[j] = "renewing" /\ stuck = None
    /\ ~(lease.holder = j /\ InForce(beat[j]))
    /\ Stopped(j)
    /\ UNCHANGED <<jobVars, lease, faults>>

\* renew() raises: the heartbeat sleeps another interval.
RenewRaises(j) ==
    /\ hb[j] = "renewing"
    /\ \/ stuck # None /\ UNCHANGED <<missed, overruns>>
       \/ /\ missed[j] < MaxMissed /\ missed' = [missed EXCEPT ![j] = @ + 1]
          /\ UNCHANGED overruns
       \/ /\ missed[j] = MaxMissed /\ overruns < MaxOverruns
          /\ overruns' = overruns + 1
          /\ UNCHANGED missed
    /\ hb' = [hb EXCEPT ![j] = "asleep"]
    /\ beat' = [beat EXCEPT ![j] = 0]
    /\ UNCHANGED <<jobVars, lease, stuck, crashed, cuts>>

-----------------------------------------------------------------------------
(* A process dies with its jobs; its connection's transaction is rolled    *)
(* back, its lease stays until it expires.                                 *)
Crash(p) ==
    /\ p \notin crashed /\ Cardinality(crashed) < MaxCrashes
    /\ crashed' = crashed \cup {p}
    /\ pc' = [j \in Jobs |-> IF ProcOf[j] = p /\ pc[j] \notin Over
                             THEN "dead" ELSE pc[j]]
    /\ hb' = [j \in Jobs |-> IF ProcOf[j] = p THEN "off" ELSE hb[j]]
    /\ LET left(counter) == [j \in Jobs |-> IF ProcOf[j] = p THEN 0 ELSE counter[j]]
       IN  waited' = left(waited) /\ age' = left(age)
           /\ beat' = left(beat) /\ missed' = left(missed)
    /\ local' = [local EXCEPT ![p] = None]
    /\ stuck' = IF stuck = p THEN None ELSE stuck
    /\ UNCHANGED <<row, lease, cuts, overruns>>

(* Statements and timers are late, but by no more than MaxDelay; between   *)
(* the end of a pause and the stamp of an attempt nothing is awaited.      *)
InTime(j) ==
    /\ pc[j] # "trying"
    /\ pc[j] = "acquiring" => age[j] < MaxDelay
    /\ pc[j] = "pausing" => age[j] < 1 + MaxDelay
    /\ hb[j] = "asleep" => beat[j] < Interval + MaxDelay
    /\ hb[j] = "renewing" => beat[j] < MaxDelay

\* A counter of units, while it is running.
Older(counter, running) ==
    [j \in Jobs |-> IF running[j] THEN counter[j] + 1 ELSE counter[j]]

(* An expired lease is told from one in force by a stamp of at most        *)
(* MaxDelay: below that the time left says nothing more.                   *)
Tick ==
    /\ \A j \in Jobs : InTime(j)
    /\ age' = Older(age, [j \in Jobs |-> pc[j] \in {"acquiring", "pausing"}])
    /\ beat' = Older(beat, [j \in Jobs |-> hb[j] # "off"])
    /\ waited' = Older(waited, [j \in Jobs |-> /\ pc[j] \in {"trying", "acquiring", "pausing"}
                                               /\ waited[j] <= Wait])
    /\ lease' = IF lease.holder # None /\ lease.left > -MaxDelay
                THEN [lease EXCEPT !.left = @ - 1] ELSE lease
    /\ UNCHANGED <<pc, row, local, hb, missed, faults>>

-----------------------------------------------------------------------------
Init ==
    /\ pc = [j \in Jobs |-> "queued"]
    /\ row = [j \in Jobs |-> "pending"]
    /\ local = [p \in Procs |-> None]
    /\ waited = [j \in Jobs |-> 0] /\ age = [j \in Jobs |-> 0]
    /\ lease = NoLease
    /\ hb = [j \in Jobs |-> "off"]
    /\ beat = [j \in Jobs |-> 0] /\ missed = [j \in Jobs |-> 0]
    /\ stuck = None /\ crashed = {} /\ cuts = 0 /\ overruns = 0

Job(j) ==
    \/ EnterLocal(j) \/ Try(j) \/ GiveUp(j) \/ Acquire(j) \/ Refused(j) \/ Resume(j)
    \/ AcquireRaises(j) \/ End(j) \/ Release(j) \/ ReleaseRaises(j)

Heartbeat(j) == Wake(j) \/ Renew(j) \/ RenewLost(j) \/ RenewRaises(j)

Next ==
    \/ \E j \in Jobs : Job(j) \/ Heartbeat(j)
    \/ \E p \in Procs : Crash(p)
    \/ Tick

Spec == Init /\ [][Next]_vars

(* Time passes, ready coroutines run, and the upstream chain ends: its     *)
(* attempts are counted and each of its calls has a timeout.               *)
FairSpec ==
    /\ Spec
    /\ WF_vars(Tick)
    /\ \A j \in Jobs : WF_vars(Job(j)) /\ WF_vars(Heartbeat(j))

-----------------------------------------------------------------------------
(* Properties.                                                             *)

TypeOK ==
    /\ pc \in [Jobs -> JobState]
    /\ row \in [Jobs -> {"pending", "settled"}]
    /\ local \in [Procs -> Jobs \cup {None}]
    /\ waited \in [Jobs -> 0..(Wait + 1)]
    /\ age \in [Jobs -> Nat] /\ beat \in [Jobs -> Nat]
    /\ lease \in [holder : Jobs \cup {None}, left : -MaxDelay..TTL]
    /\ hb \in [Jobs -> {"off", "asleep", "renewing"}]
    /\ missed \in [Jobs -> 0..MaxMissed]
    /\ stuck \in Procs \cup {None}
    /\ crashed \subseteq Procs
    /\ cuts \in 0..MaxCuts /\ overruns \in 0..MaxOverruns

(* The upstream takes one edit at a time from one address: two jobs never  *)
(* run together, in one process or in two, as long as renewals are no      *)
(* later than MaxDelay and no more than MaxMissed of them fail in a row,   *)
(* also around a crash or a transaction left open.  A heartbeat that lost  *)
(* the lease does not stop its job, so the lease must not expire under a   *)
(* running one.                                                            *)
UpstreamExclusive ==
    overruns = 0 => \A i, j \in Jobs : pc[i] = "running" /\ pc[j] = "running" => i = j

(* A lease in force passes on only when its holder releases it: a late     *)
(* release does not delete the next holder's lease.                        *)
LeaseNotStolen ==
    [][\A j \in Jobs :
           lease.holder = j /\ lease'.holder # j =>
               lease.left <= 0 \/ pc[j] \in {"releasing", "dead"}]_vars

(* The lease of a job that died runs out in time: a job that comes to it   *)
(* with nobody else left to wait for gets it and does not give up, unless  *)
(* acquire() raises.  The time to wait must exceed the TTL and an attempt. *)
SurvivorRuns ==
    \A i \in Jobs :
        (/\ pc[i] = "trying" /\ waited[i] = 0
         /\ \A j \in Jobs \ {i} : pc[j] \in Over \cup {"dead"})
            ~> pc[i] \in {"running", "raised", "dead"}

(* Every job's request is settled, unless its process dies, acquire()      *)
(* raises or the chain of its calls does: neither a lost lease nor a       *)
(* failed release nor a raise of another job holds it up.                  *)
EveryJobSettles ==
    \A j \in Jobs : row[j] = "pending" ~>
        row[j] # "pending" \/ pc[j] \in {"unsettled", "raised", "dead"}

-----------------------------------------------------------------------------
(* What the repository says and the code does not do.                      *)

(* lease_store.py:7, "杜绝僵尸死锁": a job does not fail to acquire the lease   *)
(* for good because an earlier job left a transaction open.                *)
NoZombieLock == \A j \in Jobs : pc[j] # "raised"
=============================================================================
