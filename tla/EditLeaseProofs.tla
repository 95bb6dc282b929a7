-------------------------- MODULE EditLeaseProofs ---------------------------
(***************************************************************************)
(* Proofs about EditLease, for every set of jobs and processes and every   *)
(* TTL, delay and bound that satisfy LeaseAssumption: no two jobs run at   *)
(* the same time, and a lease in force is not taken away.                  *)
(***************************************************************************)
EXTENDS EditLease, TLAPS

-----------------------------------------------------------------------------
(* The arithmetic of laps.                                                 *)

LEMMA Constants ==
    /\ TTL \in Nat /\ Wait \in Nat /\ MaxDelay \in Nat /\ MaxMissed \in Nat
    /\ MaxCuts \in Nat /\ MaxCrashes \in Nat /\ MaxOverruns \in Nat
    /\ Interval \in Nat /\ Lap \in Nat
    /\ Lap = Interval + 2 * MaxDelay
<1>1. /\ TTL \in Nat /\ Wait \in Nat /\ MaxDelay \in Nat /\ MaxMissed \in Nat
      /\ MaxCuts \in Nat /\ MaxCrashes \in Nat /\ MaxOverruns \in Nat
  BY LeaseAssumption
<1>2. Interval \in Nat
  BY <1>1 DEF Interval
<1>3. QED
  BY <1>1, <1>2 DEF Lap

LEMMA Laps ==
    ASSUME NEW m \in 0..MaxMissed
    PROVE  /\ m * Lap \in Nat
           /\ (m + 1) * Lap = m * Lap + Lap
           /\ m * Lap + Lap + MaxDelay < TTL
<1> DEFINE k == MaxMissed - m
<1>1. m \in Nat /\ k \in Nat /\ MaxMissed + 1 = m + k + 1
  BY Constants
<1>2. m * Lap \in Nat /\ k * Lap \in Nat
  BY <1>1, Constants
<1>3. (m + 1) * Lap = m * Lap + Lap
  BY <1>1, Constants
<1>4. (MaxMissed + 1) * Lap = m * Lap + k * Lap + Lap
  BY <1>1, Constants
<1>5. (MaxMissed + 1) * Lap + MaxDelay < TTL
  BY LeaseAssumption, Constants
<1>6. QED
  BY <1>2, <1>3, <1>4, <1>5, Constants

-----------------------------------------------------------------------------
(* The inductive invariant.                                                *)

\* Statements and timers are not later than Tick lets them be.
OnTime ==
    \A j \in Jobs :
        /\ pc[j] = "acquiring" => age[j] <= MaxDelay
        /\ hb[j] = "asleep" => beat[j] <= Interval + MaxDelay
        /\ hb[j] = "renewing" => beat[j] <= MaxDelay

(* No transaction is open while a job runs, and its lease has left at      *)
(* least this: it was stamped up to MaxDelay before the sleep began, and a *)
(* lap is gone for each renewal that failed since.                         *)
Covered(j) ==
    /\ lease.holder = j /\ stuck = None
    /\ hb[j] \in {"asleep", "renewing"}
    /\ hb[j] = "asleep" =>
         lease.left >= TTL - MaxDelay - beat[j] - missed[j] * Lap
    /\ hb[j] = "renewing" =>
         lease.left >= TTL - MaxDelay - (Interval + MaxDelay) - beat[j] - missed[j] * Lap

RunnersCovered == overruns = 0 => \A j \in Jobs : pc[j] = "running" => Covered(j)

IInv == TypeOK /\ OnTime /\ RunnersCovered

LEMMA IInit == Init => IInv
<1> SUFFICES ASSUME Init PROVE IInv
  OBVIOUS
<1>1. /\ -MaxDelay \in Int /\ -MaxDelay <= 0
      /\ 0 \in 0..(Wait + 1) /\ 0 \in 0..MaxMissed /\ 0 \in 0..MaxCuts
      /\ 0 \in 0..MaxOverruns
      /\ 0 \in -MaxDelay..TTL
  BY Constants
<1>2. TypeOK
  BY <1>1 DEF Init, TypeOK, JobState, NoLease
<1>3. OnTime /\ RunnersCovered
  BY DEF Init, OnTime, RunnersCovered
<1>4. QED
  BY <1>2, <1>3 DEF IInv

\* The lease of a running job is in force, whatever the age of a stamp.
LEMMA RunnerInForce ==
    ASSUME IInv, NEW j \in Jobs, pc[j] = "running", overruns = 0
    PROVE  lease.holder = j /\ lease.left > 0
<1>1. Covered(j)
  BY DEF IInv, RunnersCovered
<1>2. /\ beat[j] \in Nat /\ missed[j] \in 0..MaxMissed /\ lease.left \in Int
      /\ hb[j] = "asleep" => beat[j] <= Interval + MaxDelay
      /\ hb[j] = "renewing" => beat[j] <= MaxDelay
  BY Constants DEF IInv, TypeOK, OnTime
<1> DEFINE lost == missed[j] * Lap
<1>3. lost \in Nat /\ lost + Lap + MaxDelay < TTL
  BY <1>2, Laps
<1> HIDE DEF lost
<1>4. CASE hb[j] = "asleep"
  <2>1. lease.left >= TTL - MaxDelay - beat[j] - lost
    BY <1>1, <1>4 DEF Covered, lost
  <2>2. QED
    BY <1>1, <1>2, <1>3, <1>4, <2>1, Constants DEF Covered
<1>5. CASE hb[j] = "renewing"
  <2>1. lease.left >= TTL - MaxDelay - (Interval + MaxDelay) - beat[j] - lost
    BY <1>1, <1>5 DEF Covered, lost
  <2>2. QED
    BY <1>1, <1>2, <1>3, <1>5, <2>1, Constants DEF Covered
<1>6. QED
  BY <1>1, <1>4, <1>5 DEF Covered

-----------------------------------------------------------------------------
(* Each step keeps it.                                                     *)

\* What a step that touches no lease and no running job's heartbeat keeps.
LEMMA Undisturbed ==
    ASSUME IInv, overruns' = overruns, lease' = lease, stuck' \in {stuck, None},
           \A j \in Jobs : pc'[j] = "running" =>
               /\ pc[j] = "running" /\ hb'[j] = hb[j]
               /\ beat'[j] = beat[j] /\ missed'[j] = missed[j]
    PROVE  RunnersCovered'
BY DEF IInv, RunnersCovered, Covered

\* The steps of a job that is not running yet, or has left the lease alone.
LEMMA WaitingStep ==
    ASSUME IInv, NEW j \in Jobs,
           \/ EnterLocal(j) \/ Try(j) \/ GiveUp(j) \/ Refused(j) \/ Resume(j)
           \/ AcquireRaises(j) \/ ReleaseRaises(j)
    PROVE  IInv'
<1> USE DEF jobVars, beatVars, faults, Goto, GoesBack, LetLocalGo, StopsTrying, Settled
<1>1. UNCHANGED <<lease, hb, beat, missed, faults>>
  BY DEF EnterLocal, Try, GiveUp, Refused, Resume, AcquireRaises, ReleaseRaises
<1>2. ProcOf[j] \in Procs /\ 0 \in 0..(Wait + 1)
  BY LeaseAssumption, Constants
<1>3. PICK label \in JobState \ {"running"} : pc' = [pc EXCEPT ![j] = label]
  BY DEF EnterLocal, Try, GiveUp, Refused, Resume, AcquireRaises, ReleaseRaises, JobState
<1>4. /\ pc' \in [Jobs -> JobState] /\ row' \in [Jobs -> {"pending", "settled"}]
      /\ local' \in [Procs -> Jobs \cup {None}]
      /\ waited' \in [Jobs -> 0..(Wait + 1)] /\ age' \in [Jobs -> Nat]
  BY <1>2, <1>3 DEF EnterLocal, Try, GiveUp, Refused, Resume, AcquireRaises,
       ReleaseRaises, IInv, TypeOK
<1>5. TypeOK'
  BY <1>1, <1>4 DEF IInv, TypeOK
<1>6. \A i \in Jobs : /\ i # j => pc'[i] = pc[i] /\ age'[i] = age[i]
                      /\ pc'[i] = "running" => pc[i] = "running" /\ i # j
  BY <1>3 DEF EnterLocal, Try, GiveUp, Refused, Resume, AcquireRaises, ReleaseRaises,
       IInv, TypeOK
<1>7. pc'[j] = "acquiring" => age'[j] <= MaxDelay
  BY Constants DEF EnterLocal, Try, GiveUp, Refused, Resume, AcquireRaises,
       ReleaseRaises, IInv, TypeOK
<1>8. OnTime'
  BY <1>1, <1>6, <1>7 DEF IInv, OnTime
<1>9. RunnersCovered'
  BY <1>1, <1>6, Undisturbed
<1>10. QED
  BY <1>5, <1>8, <1>9 DEF IInv

(* A lease is acquired only when the row's is not in force: no job is      *)
(* running then.                                                           *)
LEMMA AcquireStep ==
    ASSUME IInv, NEW j \in Jobs, Acquire(j)
    PROVE  IInv'
<1> USE DEF jobVars, beatVars, faults, Goto, StopsTrying
<1>1. /\ age[j] \in Nat /\ age[j] <= MaxDelay
      /\ missed \in [Jobs -> 0..MaxMissed] /\ hb \in [Jobs -> {"off", "asleep", "renewing"}]
      /\ pc \in [Jobs -> JobState] /\ beat \in [Jobs -> Nat]
  BY DEF Acquire, IInv, TypeOK, OnTime
<1>2. TTL - age[j] \in -MaxDelay..TTL /\ TTL - age[j] >= TTL - MaxDelay
  BY <1>1, Constants
<1>3. 0 \in 0..(Wait + 1) /\ 0 <= Interval + MaxDelay
  BY Constants
<1>4. TypeOK'
  BY <1>1, <1>2, <1>3 DEF Acquire, IInv, TypeOK, JobState
<1>5. OnTime'
  BY <1>1, <1>3 DEF Acquire, IInv, TypeOK, OnTime
<1>6. ASSUME overruns = 0, NEW i \in Jobs, pc[i] = "running"
      PROVE  FALSE
  <2>1. lease.holder = i /\ lease.left > 0
    BY <1>6, RunnerInForce
  <2>2. InForce(age[j])
    BY <1>1, <2>1, LeaseAssumption DEF InForce, IInv, TypeOK
  <2>3. QED
    BY <2>2 DEF Acquire
<1>7. ASSUME overruns' = 0, NEW i \in Jobs, pc'[i] = "running"
      PROVE  Covered(i)'
  <2>1. i = j
    BY <1>1, <1>6, <1>7 DEF Acquire
  <2>2. /\ lease' = [holder |-> j, left |-> TTL - age[j]]
        /\ hb'[j] = "asleep" /\ beat'[j] = 0 /\ missed'[j] \in 0..MaxMissed
        /\ stuck' = None
    BY <1>1 DEF Acquire
  <2>3. missed'[j] * Lap \in Nat
    BY <2>2, Laps
  <2>4. lease'.left >= TTL - MaxDelay - beat'[j] - missed'[j] * Lap
    BY <1>1, <1>2, <2>2, <2>3, Constants
  <2>5. QED
    BY <2>1, <2>2, <2>4 DEF Covered
<1>8. QED
  BY <1>4, <1>5, <1>7 DEF IInv, RunnersCovered, Acquire

\* The end of a job and the release of its lease touch no running job.
LEMMA EndStep ==
    ASSUME IInv, NEW j \in Jobs, End(j) \/ Release(j)
    PROVE  IInv'
<1> USE DEF jobVars, beatVars, faults, Goto, GoesBack, LetLocalGo, Settled
<1>1. /\ pc \in [Jobs -> JobState] /\ hb \in [Jobs -> {"off", "asleep", "renewing"}]
      /\ beat \in [Jobs -> Nat] /\ missed \in [Jobs -> 0..MaxMissed]
      /\ ProcOf[j] \in Procs /\ 0 \in 0..MaxMissed
      /\ lease \in [holder : Jobs \cup {None}, left : -MaxDelay..TTL]
  BY LeaseAssumption, Constants DEF IInv, TypeOK
<1>2. ASSUME NEW i \in Jobs, pc'[i] = "running"
      PROVE  /\ i # j /\ pc[i] = "running" /\ hb'[i] = hb[i]
             /\ beat'[i] = beat[i] /\ missed'[i] = missed[i]
  BY <1>1, <1>2 DEF End, Release, Stopped
<1>3. CASE End(j)
  <2>1. \/ lease' = lease
        \/ /\ hb[j] = "renewing" /\ lease.holder = j
           /\ lease' = [lease EXCEPT !.left = TTL - beat[j]]
    BY <1>3 DEF End, StopsCleanly, StopsInside
  <2>2. hb[j] = "renewing" => TTL - beat[j] \in -MaxDelay..TTL
    BY <1>1, Constants DEF IInv, OnTime
  <2>3. lease' \in [holder : Jobs \cup {None}, left : -MaxDelay..TTL]
    BY <1>1, <2>1, <2>2
  <2>4. stuck' \in Procs \cup {None} /\ cuts' \in 0..MaxCuts
    BY <1>1, <1>3, Constants DEF End, StopsCleanly, StopsInside, IInv, TypeOK
  <2>5. TypeOK'
    BY <1>1, <1>3, <2>3, <2>4 DEF End, Stopped, IInv, TypeOK, JobState
  <2>6. OnTime'
    BY <1>1, <1>3 DEF End, Stopped, IInv, OnTime
  <2>7. RunnersCovered'
    <3>1. ASSUME overruns' = 0, NEW i \in Jobs, pc'[i] = "running"
          PROVE  Covered(i)'
      <4>1. overruns = 0 /\ pc[j] = "running"
        BY <1>3, <3>1 DEF End
      <4>2. Covered(i) /\ Covered(j)
        BY <1>2, <3>1, <4>1 DEF IInv, RunnersCovered
      <4>3. lease' = lease /\ stuck' = stuck
        BY <1>2, <3>1, <4>2 DEF Covered
      <4>4. QED
        BY <1>2, <3>1, <4>2, <4>3 DEF Covered
    <3>2. QED
      BY <3>1 DEF RunnersCovered
  <2>8. QED
    BY <2>4, <2>5, <2>6, <2>7 DEF IInv
<1>4. CASE Release(j)
  <2>1. UNCHANGED <<hb, beat, missed, faults, row, waited, age>>
    BY <1>4 DEF Release
  <2>2. lease' \in [holder : Jobs \cup {None}, left : -MaxDelay..TTL]
    BY <1>1, <1>4, Constants DEF Release, Released, NoLease
  <2>3. TypeOK'
    BY <1>1, <1>4, <2>1, <2>2 DEF Release, IInv, TypeOK, JobState
  <2>4. OnTime'
    BY <1>1, <1>4, <2>1 DEF Release, IInv, OnTime
  <2>5. RunnersCovered'
    <3>1. ASSUME overruns' = 0, NEW i \in Jobs, pc'[i] = "running"
          PROVE  Covered(i)'
      <4>1. Covered(i) /\ i # j
        BY <1>2, <2>1, <3>1 DEF IInv, RunnersCovered
      <4>2. lease' = lease
        BY <1>4, <4>1 DEF Release, Released, Covered
      <4>3. QED
        BY <2>1, <4>1, <4>2 DEF Covered
    <3>2. QED
      BY <3>1 DEF RunnersCovered
  <2>6. QED
    BY <2>3, <2>4, <2>5 DEF IInv
<1>5. QED
  BY <1>3, <1>4

(* A renewal that is made or fails moves the bound of its own lease by at  *)
(* most a lap; the heartbeat of a running job does not lose the lease.     *)
LEMMA HeartbeatStep ==
    ASSUME IInv, NEW j \in Jobs, Heartbeat(j)
    PROVE  IInv'
<1> USE DEF beatVars, faults
<1>1. /\ hb \in [Jobs -> {"off", "asleep", "renewing"}]
      /\ beat \in [Jobs -> Nat] /\ missed \in [Jobs -> 0..MaxMissed]
      /\ lease \in [holder : Jobs \cup {None}, left : -MaxDelay..TTL]
  BY DEF IInv, TypeOK
<1>2. UNCHANGED <<jobVars, stuck, crashed, cuts>>
      /\ overruns' \in {overruns, overruns + 1} /\ overruns' \in 0..MaxOverruns
  BY Constants DEF Heartbeat, Wake, Renew, RenewLost, RenewRaises, IInv, TypeOK
<1>3. /\ hb' \in [Jobs -> {"off", "asleep", "renewing"}] /\ beat' \in [Jobs -> Nat]
      /\ beat'[j] = 0
      /\ \A i \in Jobs \ {j} : /\ hb'[i] = hb[i] /\ beat'[i] = beat[i]
                              /\ missed'[i] = missed[i]
  BY <1>1 DEF Heartbeat, Wake, Renew, RenewLost, RenewRaises, Stopped
<1>4. missed' \in [Jobs -> 0..MaxMissed]
  BY <1>1, Constants DEF Heartbeat, Wake, Renew, RenewLost, RenewRaises, Stopped
<1>5. \/ lease' = lease
      \/ Renew(j) /\ lease' = [lease EXCEPT !.left = TTL - beat[j]]
  BY DEF Heartbeat, Wake, Renew, RenewLost, RenewRaises, Renewed
<1>6. Renew(j) => TTL - beat[j] \in -MaxDelay..TTL /\ beat[j] <= MaxDelay
  BY <1>1, Constants DEF Renew, IInv, OnTime
<1>7. lease' \in [holder : Jobs \cup {None}, left : -MaxDelay..TTL]
  BY <1>1, <1>5, <1>6
<1>8. TypeOK'
  BY <1>2, <1>3, <1>4, <1>7 DEF IInv, TypeOK, jobVars
<1>9. OnTime'
  BY <1>2, <1>3, Constants DEF IInv, OnTime, jobVars
<1>10. ASSUME overruns' = 0, NEW i \in Jobs, pc'[i] = "running"
       PROVE  Covered(i)'
  <2>1. /\ overruns = 0 /\ overruns' = overruns /\ pc[i] = "running"
        /\ Covered(i) /\ stuck = None /\ stuck' = None
    BY <1>2, <1>10, Constants DEF IInv, TypeOK, RunnersCovered, Covered, jobVars
  <2>2. lease.holder = i /\ lease.left > 0
    BY <2>1, RunnerInForce
  <2>3. CASE i # j
    <3>1. lease' = lease
      BY <1>5, <2>2, <2>3 DEF Renew
    <3>2. QED
      BY <1>3, <2>1, <2>3, <3>1 DEF Covered
  <2>4. CASE i = j
    <3>1. CASE Wake(j)
      <4>1. lease.left >= TTL - MaxDelay - beat[j] - missed[j] * Lap
        BY <2>1, <2>4, <3>1 DEF Covered, Wake
      <4>2. beat[j] <= Interval + MaxDelay
        BY <3>1 DEF Wake, IInv, OnTime
      <4>3. missed[j] * Lap \in Nat
        BY <1>1, Laps
      <4>4. lease.left >= TTL - MaxDelay - (Interval + MaxDelay) - 0 - missed[j] * Lap
        BY <1>1, <4>1, <4>2, <4>3, Constants
      <4>5. QED
        BY <1>1, <2>1, <2>2, <2>4, <3>1, <4>4 DEF Covered, Wake
    <3>2. CASE Renew(j)
      <4>1. lease' = [lease EXCEPT !.left = TTL - beat[j]]
            /\ hb'[j] = "asleep" /\ missed'[j] = 0
        BY <1>1, <3>2 DEF Renew, Renewed
      <4>2. missed'[j] * Lap = 0
        BY <4>1, Constants
      <4>3. lease'.left >= TTL - MaxDelay - beat'[j] - missed'[j] * Lap
        BY <1>1, <1>3, <1>6, <3>2, <4>1, <4>2, Constants
      <4>4. QED
        BY <1>1, <2>1, <2>2, <2>4, <4>1, <4>3 DEF Covered
    <3>3. CASE RenewLost(j)
      BY <1>1, <2>2, <2>4, <3>3, LeaseAssumption, Constants DEF RenewLost, InForce
    <3>4. CASE RenewRaises(j)
      <4>1. hb[j] = "renewing" /\ hb'[j] = "asleep" /\ missed'[j] = missed[j] + 1
            /\ lease' = lease
        BY <1>1, <2>1, <3>4 DEF RenewRaises
      <4>2. /\ lease.left >= TTL - MaxDelay - (Interval + MaxDelay) - beat[j] - missed[j] * Lap
            /\ beat[j] <= MaxDelay
        BY <2>1, <2>4, <4>1 DEF Covered, IInv, OnTime
      <4>3. missed[j] * Lap \in Nat /\ missed'[j] * Lap = missed[j] * Lap + Lap
        BY <1>1, <4>1, Laps
      <4>4. lease.left >= TTL - MaxDelay - 0 - missed'[j] * Lap
        BY <1>1, <4>2, <4>3, Constants
      <4>5. QED
        BY <1>3, <2>1, <2>2, <2>4, <4>1, <4>4 DEF Covered
    <3>5. QED
      BY <3>1, <3>2, <3>3, <3>4 DEF Heartbeat
  <2>5. QED
    BY <2>3, <2>4
<1>11. QED
  BY <1>8, <1>9, <1>10 DEF IInv, RunnersCovered

LEMMA CrashStep ==
    ASSUME IInv, NEW p \in Procs, Crash(p)
    PROVE  IInv'
<1>1. UNCHANGED <<row, lease, cuts, overruns>> /\ crashed' \subseteq Procs
      /\ (stuck' = stuck \/ stuck' = None)
  BY DEF Crash, IInv, TypeOK
<1>2. \A j \in Jobs :
        \/ /\ ProcOf[j] = p /\ pc'[j] \in {"dead"} \cup Over /\ hb'[j] = "off"
           /\ waited'[j] = 0 /\ age'[j] = 0 /\ beat'[j] = 0 /\ missed'[j] = 0
        \/ /\ pc'[j] = pc[j] /\ hb'[j] = hb[j]
           /\ waited'[j] = waited[j] /\ age'[j] = age[j]
           /\ beat'[j] = beat[j] /\ missed'[j] = missed[j]
  BY DEF Crash
<1>3. /\ pc' \in [Jobs -> JobState] /\ hb' \in [Jobs -> {"off", "asleep", "renewing"}]
      /\ waited' \in [Jobs -> 0..(Wait + 1)] /\ age' \in [Jobs -> Nat]
      /\ beat' \in [Jobs -> Nat] /\ missed' \in [Jobs -> 0..MaxMissed]
      /\ local' \in [Procs -> Jobs \cup {None}]
  BY Constants DEF Crash, IInv, TypeOK, JobState
<1>4. TypeOK'
  BY <1>1, <1>3 DEF IInv, TypeOK
<1>5. OnTime'
  BY <1>1, <1>2 DEF IInv, OnTime, Over
<1>6. RunnersCovered'
  BY <1>1, <1>2, Undisturbed DEF Over
<1>7. QED
  BY <1>4, <1>5, <1>6 DEF IInv

\* A unit less for the lease, a unit more for the sleep or the stamp.
LEMMA TickStep ==
    ASSUME IInv, Tick
    PROVE  IInv'
<1> USE DEF faults
<1>1. UNCHANGED <<pc, row, local, hb, missed, faults>>
  BY DEF Tick
<1>2. /\ beat \in [Jobs -> Nat] /\ age \in [Jobs -> Nat]
      /\ waited \in [Jobs -> 0..(Wait + 1)] /\ missed \in [Jobs -> 0..MaxMissed]
      /\ lease \in [holder : Jobs \cup {None}, left : -MaxDelay..TTL]
  BY DEF IInv, TypeOK
<1>3. \A j \in Jobs :
        /\ age'[j] = IF pc[j] \in {"acquiring", "pausing"} THEN age[j] + 1 ELSE age[j]
        /\ beat'[j] = IF hb[j] # "off" THEN beat[j] + 1 ELSE beat[j]
  BY DEF Tick, Older
<1>4. age' \in [Jobs -> Nat] /\ beat' \in [Jobs -> Nat]
  BY <1>2 DEF Tick, Older
<1>5. waited' \in [Jobs -> 0..(Wait + 1)]
  BY <1>2, Constants DEF Tick, Older
<1>6. lease' \in [holder : Jobs \cup {None}, left : -MaxDelay..TTL]
  BY <1>2, Constants DEF Tick
<1>7. TypeOK'
  BY <1>1, <1>4, <1>5, <1>6 DEF IInv, TypeOK
<1>8. ASSUME NEW j \in Jobs
      PROVE  /\ pc'[j] = "acquiring" => age'[j] <= MaxDelay
             /\ hb'[j] = "asleep" => beat'[j] <= Interval + MaxDelay
             /\ hb'[j] = "renewing" => beat'[j] <= MaxDelay
  <2>1. InTime(j)
    BY DEF Tick
  <2>2. age[j] \in Nat /\ beat[j] \in Nat
    BY <1>2
  <2>3. QED
    BY <1>1, <1>3, <2>1, <2>2, Constants DEF InTime
<1>10. ASSUME overruns' = 0, NEW j \in Jobs, pc'[j] = "running"
       PROVE  Covered(j)'
  <2>1. Covered(j) /\ lease.holder = j /\ lease.left > 0
    BY <1>1, <1>10, RunnerInForce DEF IInv, RunnersCovered
  <2>2. lease' = [lease EXCEPT !.left = lease.left - 1]
    BY <1>2, <2>1, LeaseAssumption, Constants DEF Tick
  <2>3. beat'[j] = beat[j] + 1 /\ missed[j] * Lap \in Nat
    BY <1>2, <1>3, <2>1, Laps DEF Covered
  <2>4. lease'.left = lease.left - 1 /\ lease'.holder = j
    BY <1>2, <2>1, <2>2
  <2>5. hb[j] = "asleep" =>
          lease'.left >= TTL - MaxDelay - beat'[j] - missed[j] * Lap
    BY <1>2, <2>1, <2>3, <2>4, Constants DEF Covered
  <2>6. hb[j] = "renewing" =>
          lease'.left >= TTL - MaxDelay - (Interval + MaxDelay) - beat'[j] - missed[j] * Lap
    BY <1>2, <2>1, <2>3, <2>4, Constants DEF Covered
  <2>7. QED
    BY <1>1, <2>1, <2>4, <2>5, <2>6 DEF Covered
<1>11. QED
  BY <1>7, <1>8, <1>10 DEF IInv, OnTime, RunnersCovered

LEMMA IStep == IInv /\ [Next]_vars => IInv'
<1> SUFFICES ASSUME IInv, [Next]_vars PROVE IInv'
  OBVIOUS
<1>1. ASSUME NEW j \in Jobs, Job(j) PROVE IInv'
  BY <1>1, WaitingStep, AcquireStep, EndStep DEF Job
<1>2. ASSUME NEW j \in Jobs, Heartbeat(j) PROVE IInv'
  BY <1>2, HeartbeatStep
<1>3. ASSUME NEW p \in Procs, Crash(p) PROVE IInv'
  BY <1>3, CrashStep
<1>4. CASE Tick
  BY <1>4, TickStep
<1>5. CASE UNCHANGED vars
  BY <1>5 DEF vars, jobVars, beatVars, faults, IInv, TypeOK, OnTime, RunnersCovered, Covered
<1>6. QED
  BY <1>1, <1>2, <1>3, <1>4, <1>5 DEF Next

-----------------------------------------------------------------------------
(* The invariant holds in every behaviour.                                 *)
THEOREM Invariance == Spec => []IInv
BY IInit, IStep, PTL DEF Spec

(* Every state of the jobs, the lease and the heartbeats has its type; the *)
(* time a lease has left stays between -MaxDelay and TTL.                  *)
THEOREM TypeCorrect == Spec => []TypeOK
<1>1. IInv => TypeOK
  BY DEF IInv
<1>2. QED
  BY <1>1, Invariance, PTL

(* Two running jobs would both hold the one lease: no two run together     *)
(* until more renewals in a row have failed than the lease outlives,       *)
(* whatever crashes and whatever transaction is left open.                 *)
THEOREM UpstreamIsExclusive == Spec => []UpstreamExclusive
<1>1. IInv => UpstreamExclusive
  BY RunnerInForce DEF UpstreamExclusive
<1>2. QED
  BY <1>1, Invariance, PTL

(* The lease changes its holder by Acquire, which takes no lease in force, *)
(* and by Release, which deletes only the caller's own.                    *)
THEOREM LeaseIsNotStolen == Spec => LeaseNotStolen
<1> DEFINE Kept == \A j \in Jobs : lease.holder = j /\ lease'.holder # j =>
                       lease.left <= 0 \/ pc[j] \in {"releasing", "dead"}
<1>1. IInv /\ [Next]_vars => [Kept]_vars
  <2> SUFFICES ASSUME IInv, Next, NEW h \in Jobs, lease.holder = h, lease'.holder # h
               PROVE  lease.left <= 0 \/ pc[h] \in {"releasing", "dead"}
    OBVIOUS
  <2>1. lease \in [holder : Jobs \cup {None}, left : -MaxDelay..TTL] /\ h # None
    BY LeaseAssumption DEF IInv, TypeOK
  <2>2. ASSUME NEW j \in Jobs, Job(j) PROVE Acquire(j) \/ Release(j)
    <3>1. CASE End(j)
      BY <2>1, <3>1 DEF End, StopsCleanly, StopsInside
    <3>2. QED
      BY <2>2, <3>1 DEF Job, EnterLocal, Try, GiveUp, Refused, Resume, AcquireRaises, ReleaseRaises
  <2>3. ASSUME NEW j \in Jobs, Acquire(j) PROVE lease.left <= 0
    <3>1. ~(lease.left + age[j] > 0) /\ age[j] \in Nat
      BY <2>1, <2>3 DEF Acquire, InForce, IInv, TypeOK
    <3>2. QED
      BY <2>1, <3>1, Constants
  <2>4. ASSUME NEW j \in Jobs, Release(j) PROVE pc[h] = "releasing"
    BY <2>1, <2>4 DEF Release, Released
  <2>5. ASSUME NEW j \in Jobs, Heartbeat(j) PROVE FALSE
    BY <2>1, <2>5 DEF Heartbeat, Wake, Renew, RenewLost, RenewRaises
  <2>6. CASE \E p \in Procs : Crash(p)
    BY <2>6 DEF Crash
  <2>7. CASE Tick
    BY <2>1, <2>7 DEF Tick
  <2>8. QED
    BY <2>2, <2>3, <2>4, <2>5, <2>6, <2>7 DEF Next
<1>2. QED
  BY <1>1, Invariance, PTL DEF Spec, LeaseNotStolen
=============================================================================
