---------------------------- MODULE CountedQueue ----------------------------
(***************************************************************************)
(* CountedPriorityQueue (api/worker/queue.py): an asyncio.PriorityQueue of *)
(* (priority, seq, task_id) tuples that also keeps one counter per         *)
(* priority and refuses an item whose priority has reached its limit.      *)
(* A queue value is a set of items and the function of its counters.       *)
(***************************************************************************)
EXTENDS Integers, FiniteSets, FiniteSetsExt

CONSTANTS
    Tasks,        \* task ids; naturals, since the heap breaks ties by the id
    Priorities,   \* 0 = admin, 1 = paid, 2 = normal: the smaller the sooner
    Limit         \* the upper bound of each priority's counter

ASSUME QueueAssumption ==
    /\ IsFiniteSet(Tasks) /\ Tasks \subseteq Nat
    /\ IsFiniteSet(Priorities) /\ Priorities \subseteq Nat
    /\ Limit \in [Priorities -> Nat]

(* "resumed" tells a tuple put back at start-up from one put by a caller:  *)
(* the heap may hold both, as two entries with equal contents.             *)
Item == [prio : Priorities, seq : Nat, task : Tasks, resumed : BOOLEAN]

\* Tuples are compared field by field.
Before(i, j) ==
    \/ i.prio < j.prio
    \/ i.prio = j.prio /\ i.seq < j.seq
    \/ i.prio = j.prio /\ i.seq = j.seq /\ i.task < j.task

\* The entries the heap may hand out next.
Heads(queue) == {i \in queue : \A j \in queue : ~Before(j, i)}

\* maxsize of the underlying queue: the sum of the limits.
Capacity == MapThenSumSet(LAMBDA p : Limit[p], Priorities)

IsFull(counts, p) == counts[p] >= Limit[p]

(* put_nowait succeeds: the counter of the priority is below its limit,    *)
(* and the underlying queue is below maxsize.                              *)
CanPut(queue, counts, p) == ~IsFull(counts, p) /\ Cardinality(queue) < Capacity

CountsAfterPut(counts, p) == [counts EXCEPT ![p] = @ + 1]

CountsAfterGetNowait(counts, p) ==
    [counts EXCEPT ![p] = IF @ > 0 THEN @ - 1 ELSE 0]

(* get() waits for an entry, takes it with self.get_nowait() -- the        *)
(* overriding method, which decrements -- and then decrements once more.   *)
CountsAfterGet(counts, p) ==
    CountsAfterGetNowait(CountsAfterGetNowait(counts, p), p)

(* Putting the entries of "saved" back in order, from an empty queue, and  *)
(* stopping at the first one put_nowait refuses: an entry is back when no  *)
(* entry up to and including it was beyond the limit of its priority.      *)
UpTo(saved, i) == {j \in saved : j = i \/ Before(j, i)}
WithinLimit(saved, i) ==
    Cardinality({j \in UpTo(saved, i) : j.prio = i.prio}) <= Limit[i.prio]
Restored(saved) == {i \in saved : \A j \in UpTo(saved, i) : WithinLimit(saved, j)}
CountOf(queue) == [p \in Priorities |-> Cardinality({i \in queue : i.prio = p})]
=============================================================================
