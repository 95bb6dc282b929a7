---------------------------- MODULE Housekeeping ----------------------------
(***************************************************************************)
(* What the service throws away and what it raises an alarm about: the     *)
(* round of api/bg_tasks.py through the tables (api/db/queries.py) and the *)
(* directory of the images (api/base64_store.py), the measures it ends     *)
(* with and their rules (api/alerting.py), and the sweep at four in the    *)
(* morning.  A round is one `try`: the step that fails ends it.            *)
(***************************************************************************)
EXTENDS Naturals, FiniteSets

CONSTANTS Items, KindOf,        \* rows and files: "request", "file", "key", "letter", "cache" or "entry"
          Life,                 \* how long the items of a kind are kept
          Quota, Target,        \* IF_IMG_MAX_GB and 80% of it, in files
          Interval,             \* DB_CLEANUP_INTERVAL
          Cooldown,             \* of the rules
          Surge,                \* errors from which on a window is a surge
          MaxErrors, MaxFaults  \* bounds: errors counted, faults

VARIABLES ahead, kept,  \* items that are yet to come, those there are
          age,          \* of an item
          at,           \* the step of the round
          wait,         \* time it still sleeps
          nightly,      \* the sweep at four is under way
          errors,       \* error_tracker: AUTH.001
          last,         \* _auth_last
          window,       \* auth_error_count
          quiet,        \* time to the end of the rule's cooldown
          told,         \* history: errors up to the last surge that was told
          faults

round == <<at, wait, nightly, last, window, quiet, told>>
items == <<ahead, kept, age>>
vars == <<items, round, errors, faults>>

\* The steps of a round, in their order
After == [asleep |-> "request", request |-> "file", file |-> "quota", quota |-> "key",
          key |-> "letter", letter |-> "cache", cache |-> "entry", entry |-> "measure",
          measure |-> "alert", alert |-> "asleep"]
Kinds == {"request", "file", "key", "letter", "cache", "entry"}

Init ==
    /\ ahead = Items /\ kept = {} /\ age = [x \in Items |-> 0]
    /\ at = "asleep" /\ wait = Interval /\ nightly = FALSE
    /\ errors = 0 /\ last = 0 /\ window = 0
    /\ quiet = 0 /\ told = 0 /\ faults = 0

Kept(kind) == {x \in kept : KindOf[x] = kind}
Overdue(kind) == {x \in Kept(kind) : age[x] > Life}
Gone(xs) == kept' = kept \ xs /\ UNCHANGED <<ahead, age>>

Add(x) ==
    /\ x \in ahead /\ ahead' = ahead \ {x} /\ kept' = kept \cup {x}
    /\ UNCHANGED <<age, round, errors, faults>>

\* error_tracker.record
AuthError ==
    /\ errors < MaxErrors /\ errors' = errors + 1
    /\ UNCHANGED <<items, round, faults>>

Less(n) == IF n = 0 THEN 0 ELSE n - 1

Tick ==
    /\ age' = [x \in Items |-> IF x \in kept /\ age[x] <= Life THEN age[x] + 1 ELSE age[x]]
    /\ wait' = IF at = "asleep" THEN Less(wait) ELSE wait
    /\ quiet' = Less(quiet)
    /\ UNCHANGED <<ahead, kept, at, nightly, last, window, told, errors, faults>>

Sleep == at' = "asleep" /\ wait' = Interval
GoesOn == at' = After[at] /\ UNCHANGED wait

Wake ==
    /\ at = "asleep" /\ wait = 0 /\ GoesOn
    /\ UNCHANGED <<items, nightly, last, window, quiet, told, errors, faults>>

\* cleanup, clean_expired, clean_expired_idempotency, clean_expired_dlq,
\* clean_expired_cache, cleanup of the queue: whatever else the item says.
Clean ==
    /\ at \in Kinds /\ Gone(Overdue(at)) /\ GoesOn
    /\ UNCHANGED <<nightly, last, window, quiet, told, errors, faults>>

\* enforce_quota, oldest first: already above 80% of the quota.
Younger(x, y) == age[x] < age[y]
OldestDown(xs) ==
    /\ Cardinality(Kept("file") \ xs) = Target
    /\ \A x \in xs, y \in Kept("file") \ xs : ~Younger(x, y)

Oversize == Quota > 0 /\ Cardinality(Kept("file")) > Target

EnforceQuota ==
    /\ at = "quota"
    /\ IF Oversize THEN \E xs \in SUBSET Kept("file") : OldestDown(xs) /\ Gone(xs)
       ELSE UNCHANGED items
    /\ GoesOn
    /\ UNCHANGED <<nightly, last, window, quiet, told, errors, faults>>

\* The counter at the end of the last window: a smaller one was reset.
Delta == IF errors < last THEN 0 ELSE errors - last

Measure ==
    /\ at = "measure"
    /\ window' = Delta
    /\ last' = errors
    /\ GoesOn
    /\ UNCHANGED <<items, nightly, quiet, told, errors, faults>>

\* mutant: more than the threshold
Over == window > Surge

Surging == window >= Surge

\* AlertEngine.evaluate: a rule is told when it is broken and not cooling down.
\* The others are like it, on a number of the moment; the webhook is told once,
\* and a failure of it is logged.
Triggered == Surging /\ quiet = 0

Evaluate ==
    /\ at = "alert"
    /\ IF Triggered THEN quiet' = Cooldown /\ told' = last ELSE UNCHANGED <<quiet, told>>
    /\ Sleep
    /\ UNCHANGED <<items, nightly, last, window, errors, faults>>

\* Caught inside the loop, which sleeps again: nothing of the rest is done.
RoundBreaks == Sleep

\* A statement fails or the disk does; an image may be gone already.  Of a
\* directory, what can be removed is, and the round goes on.
Fails ==
    /\ faults < MaxFaults /\ faults' = faults + 1
    /\ \/ at \notin {"asleep", "file", "quota", "alert"} /\ RoundBreaks /\ UNCHANGED items
       \/ at = "file" /\ GoesOn /\ \E xs \in SUBSET Overdue("file") : Gone(xs)
       \/ at = "quota" /\ Oversize /\ GoesOn /\ \E xs \in SUBSET Kept("file") :
                                          Cardinality(Kept("file") \ xs) >= Target /\ Gone(xs)
    /\ UNCHANGED <<nightly, last, window, quiet, told, errors>>

\* cleanup_batched, beside the round: batch by batch, each committed.
NightFalls ==
    /\ ~nightly /\ nightly' = TRUE
    /\ UNCHANGED <<items, at, wait, last, window, quiet, told, errors, faults>>
DropBatch(x) ==
    /\ nightly /\ x \in Overdue("request") /\ Gone({x})
    /\ UNCHANGED <<round, errors, faults>>
NightEnds ==
    /\ nightly /\ nightly' = FALSE
    /\ \/ Overdue("request") = {} /\ UNCHANGED faults
       \/ faults < MaxFaults /\ faults' = faults + 1
    /\ UNCHANGED <<items, at, wait, last, window, quiet, told, errors>>

\* What is counted in memory starts again; lifespan cleans the requests first.
Restart ==
    /\ faults < MaxFaults /\ faults' = faults + 1
    /\ Gone(Overdue("request")) \/ UNCHANGED items
    /\ Sleep /\ nightly' = FALSE /\ errors' = 0 /\ last' = 0 /\ window' = 0
    /\ quiet' = 0 /\ told' = 0

Round == Wake \/ Clean \/ EnforceQuota \/ Measure \/ Evaluate
Next ==
    \/ Round \/ Fails \/ Tick \/ NightFalls \/ NightEnds \/ Restart
    \/ AuthError
    \/ \E x \in Items : Add(x) \/ DropBatch(x)

Spec == Init /\ [][Next]_vars
FairSpec == Spec /\ WF_vars(Round) /\ WF_vars(Tick)

-----------------------------------------------------------------------------
\* Types of the items, the round and the rules (api/bg_tasks.py).
TypeOK ==
    /\ age \in [Items -> 0..(Life + 1)] /\ kept \subseteq Items \ ahead
    /\ at \in DOMAIN After /\ wait \in 0..Interval
    /\ {errors, last, window, told} \subseteq 0..MaxErrors /\ quiet \in 0..Cooldown

\* "失败仅 warning" (api/bg_tasks.py:174): whatever is overdue goes, in this round or a
\* later one, although any step of a round may fail.
OverdueGoes == \A x \in Items : age[x] > Life ~> x \notin kept

\* "近窗口增量（防累计值永真）" (api/bg_tasks.py:95): a surge of refused keys is told, in
\* whichever rounds its errors fall and whichever fail, unless the process ends.
SurgeTold ==
    \A n \in 1..MaxErrors : (errors = n /\ n - last >= Surge) ~> (told >= n \/ errors < n)

\* A round that works makes up for the ones that failed, in what it removes and
\* in what it tells (api/bg_tasks.py:43).
RoundsMakeUp == OverdueGoes /\ SurgeTold
=============================================================================
