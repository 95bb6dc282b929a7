----------------------------- MODULE TokenPool ------------------------------
(***************************************************************************)
(* One double-buffered pool of captcha tokens (_TokenPool,                 *)
(* api/worker/token_pool.py): clients take tokens from the active buffer,  *)
(* or swap the buffers when it is empty, and a prefetch loop solves        *)
(* captchas to fill both.  A step is what a coroutine does between two     *)
(* awaits.                                                                 *)
(*                                                                         *)
(* A buffer is an asyncio.Queue, first in first out: its expired tokens    *)
(* are its oldest ones, so that a buffer is two numbers.  A client waits   *)
(* in get() of the queue that was active when it began to wait.  A waiter  *)
(* whose queue has a token is resumed before its own timer ends the wait.  *)
(***************************************************************************)
EXTENDS Integers

CONSTANTS
    Clients,
    MaxSize,     \* TOKEN_POOL_SIZE
    Watermark,   \* TOKEN_TARGET_WATERMARK
    Urgent,      \* TOKEN_URGENT_WATERMARK; 0 turns batches off
    Batch        \* TOKEN_BATCH_FILL_SIZE

ASSUME PoolAssumption ==
    /\ MaxSize \in Nat \ {0}
    /\ {Watermark, Urgent} \subseteq Nat
    /\ Batch \in Nat \ {0}

Larger(a, b) == IF a < b THEN b ELSE a

BufferCap == IF MaxSize > 2 THEN Larger(2, MaxSize \div 2) ELSE MaxSize

Buffers == {"A", "B"}
Other(k) == IF k = "A" THEN "B" ELSE "A"

VARIABLES
    buf,      \* the expired and the fresh tokens of each buffer
    active,   \* active_q; the other buffer is standby_q
    need,     \* need_event
    client,   \* where a client's acquire() stands: a buffer while it waits there
    loop,     \* where the prefetch loop stands
    aim       \* the buffer it is solving for

vars == <<buf, active, need, client, loop, aim>>

Rest == {"new", "served", "refused"}
LoopState == {"ready", "solving", "filling", "sleeping", "parked"}

Standby == Other(active)
Size(b, k) == b[k].stale + b[k].fresh

Full(b, k) == Size(b, k) >= BufferCap
Total(b) == Size(b, "A") + Size(b, "B")

\* _prune_expired
Pruned(b) == [k \in Buffers |-> [stale |-> 0, fresh |-> b[k].fresh]]

\* put(): the token is the youngest one.
Stored(b, k) == [b EXCEPT ![k].fresh = @ + 1]

\* mutant: only the active buffer is looked at
LowActive(b, k) == Size(b, k) = 0

\* _check_low_watermark, with k the active buffer
Low(b, k) == Size(b, k) <= 1 \/ Size(b, Other(k)) = 0

-----------------------------------------------------------------------------
(* acquire().                                                              *)

Answered(c, answer) == client' = [client EXCEPT ![c] = answer]

\* A fresh token leaves buffer k of b; the active buffer is then a.
Serve(c, b, k, a) ==
    /\ buf' = [b EXCEPT ![k].fresh = @ - 1]
    /\ active' = a
    /\ need' = (need \/ a # active \/ Low(buf', a))
    /\ Answered(c, "served")

(* The loop of acquire() up to its wait; "late" says that the deadline may *)
(* have passed.                                                            *)
Attempt(c, late) ==
    LET left == Pruned(buf) IN
    \/ /\ left[active].fresh > 0
       /\ Serve(c, left, active, active)
    \/ /\ left[active].fresh = 0 /\ left[Standby].fresh > 0
       /\ Serve(c, left, Standby, Standby)
    \/ /\ \A k \in Buffers : left[k].fresh = 0
       /\ buf' = left
       /\ need' = TRUE
       /\ UNCHANGED active
       /\ \/ Answered(c, active)
          \/ late /\ Answered(c, "refused")

Acquire(c) ==
    /\ client[c] \in Rest
    /\ Attempt(c, FALSE)
    /\ UNCHANGED <<loop, aim>>

\* TokenPoolManager.acquire with the solver's circuit open
CircuitRefuses(c) ==
    /\ client[c] \in Rest
    /\ Total(buf) = 0
    /\ Answered(c, "refused")
    /\ UNCHANGED <<buf, active, need, loop, aim>>

\* get() returns; an expired token is dropped and the loop starts again.
Resume(c) ==
    /\ client[c] \in Buffers
    /\ Size(buf, client[c]) > 0
    /\ IF buf[client[c]].stale = 0
       THEN Serve(c, buf, client[c], active)
       ELSE Attempt(c, TRUE)
    /\ UNCHANGED <<loop, aim>>

(* wait_for ends with TimeoutError.  Only the standby buffer is looked at; *)
(* when it has a fresh token the buffers are swapped and the loop starts   *)
(* again.                                                                  *)
TimesOut(c) ==
    /\ client[c] \in Buffers
    /\ Size(buf, client[c]) = 0
    /\ IF buf[Standby].fresh > 0
       THEN Serve(c, Pruned(buf), Standby, Standby)
       ELSE /\ buf' = [buf EXCEPT ![Standby] = [stale |-> 0, fresh |-> @.fresh]]
            /\ Answered(c, "refused")
            /\ UNCHANGED <<active, need>>
    /\ UNCHANGED <<loop, aim>>

-----------------------------------------------------------------------------
(* prefetch_loop().  "left" is what its pruning leaves.                    *)

\* active_q if it has room, else standby_q
Aim(b) == IF Full(b, active) THEN Standby ELSE active

\* _target_watermark, with and without requests in the engine's queue
Targets == {MaxSize, Larger(1, Watermark)}

Enough(b) == \E target \in Targets : Total(b) >= target /\ \A k \in Buffers : Full(b, k)
Short(b) == \E target \in Targets : Total(b) < target \/ \E k \in Buffers : ~Full(b, k)

IsUrgent(b) == Total(b) < Urgent /\ Batch > 1

\* The circuit is open and no probe is due.
Pause ==
    /\ loop = "ready"
    /\ buf' = Pruned(buf)
    /\ loop' = "sleeping"
    /\ UNCHANGED <<active, need, client, aim>>

\* Both buffers are full: need_event is cleared first, then waited for.
Park ==
    /\ loop = "ready" /\ Enough(Pruned(buf))
    /\ buf' = Pruned(buf)
    /\ need' = FALSE
    /\ loop' = IF need THEN "ready" ELSE "parked"
    /\ UNCHANGED <<active, client, aim>>

Unpark ==
    /\ loop = "parked" /\ need
    /\ need' = FALSE
    /\ loop' = "ready"
    /\ UNCHANGED <<buf, active, client, aim>>

StartSolve ==
    /\ loop = "ready" /\ Short(Pruned(buf)) /\ ~IsUrgent(Pruned(buf))
    /\ buf' = Pruned(buf)
    /\ aim' = Aim(buf')
    /\ loop' = "solving"
    /\ UNCHANGED <<active, need, client>>

\* The token is thrown away when the buffer has no room, and nobody sleeps.
Solved ==
    /\ loop = "solving"
    /\ IF Full(buf, aim)
       THEN loop' = "ready" /\ UNCHANGED buf
       ELSE loop' = "sleeping" /\ buf' = Stored(buf, aim)
    /\ UNCHANGED <<active, need, client, aim>>

SolveFails ==
    /\ loop = "solving"
    /\ loop' = "sleeping"
    /\ UNCHANGED <<buf, active, need, client, aim>>

StartBatch ==
    /\ loop = "ready" /\ Short(Pruned(buf)) /\ IsUrgent(Pruned(buf))
    /\ buf' = Pruned(buf)
    /\ loop' = "filling"
    /\ UNCHANGED <<active, need, client, aim>>

(* gather() has solved n of the captchas; the tokens go into the active    *)
(* buffer, then into the other, and what is left over is thrown away.      *)
BatchSolved(n) ==
    LET room == BufferCap - Size(buf, active)
        inActive == IF n < room THEN n ELSE room
        space == BufferCap - Size(buf, Standby)
        inStandby == IF n - inActive < space THEN n - inActive ELSE space
    IN  /\ loop = "filling"
        /\ buf' = [buf EXCEPT ![active].fresh = @ + inActive,
                              ![Standby].fresh = @ + inStandby]
        /\ loop' = "sleeping"
        /\ UNCHANGED <<active, need, client, aim>>

\* A waiter that has a token is resumed in less time than the loop sleeps.
Wake ==
    /\ loop = "sleeping"
    /\ \A c \in Clients : client[c] \in Buffers => Size(buf, client[c]) = 0
    /\ loop' = "ready"
    /\ UNCHANGED <<buf, active, need, client, aim>>

\* TOKEN_TTL passes for the oldest fresh token of a buffer.
Expire(k) ==
    /\ buf[k].fresh > 0
    /\ buf' = [buf EXCEPT ![k] = [stale |-> @.stale + 1, fresh |-> @.fresh - 1]]
    /\ UNCHANGED <<active, need, client, loop, aim>>

-----------------------------------------------------------------------------
Init ==
    /\ buf = [k \in Buffers |-> [stale |-> 0, fresh |-> 0]]
    /\ active = "A" /\ aim = "A"
    /\ need = FALSE
    /\ client = [c \in Clients |-> "new"]
    /\ loop = "ready"

Prefetch ==
    \/ Pause \/ Park \/ Unpark \/ StartSolve \/ Solved \/ SolveFails
    \/ StartBatch \/ (\E n \in 0..Batch : BatchSolved(n)) \/ Wake

Client(c) == Acquire(c) \/ CircuitRefuses(c) \/ Resume(c) \/ TimesOut(c)

Next ==
    \/ \E c \in Clients : Client(c)
    \/ Prefetch
    \/ \E k \in Buffers : Expire(k)

Spec == Init /\ [][Next]_vars

-----------------------------------------------------------------------------
(* Properties.                                                             *)

TypeOK ==
    /\ buf \in [Buffers -> [stale : 0..BufferCap, fresh : 0..BufferCap]]
    /\ active \in Buffers /\ aim \in Buffers
    /\ need \in BOOLEAN
    /\ client \in [Clients -> Rest \cup Buffers]
    /\ loop \in LoopState

(* The prefetch loop does not sleep through a shortage: while it waits for *)
(* need_event and nobody has set it, the active buffer has a token to      *)
(* spare and the standby buffer is not empty, or both are full.  Each      *)
(* client sets the event for what it takes, swaps or finds missing, and    *)
(* the loop clears it only when both are full.                             *)
RefillNoticed ==
    loop = "parked" /\ ~need =>
        \/ Size(buf, active) >= 2 /\ Size(buf, Standby) > 0
        \/ \A k \in Buffers : Full(buf, k)
=============================================================================
