------------------------------ MODULE Dispatch ------------------------------
(***************************************************************************)
(* The submission of a generation in api/dispatch.py: the idempotency key, *)
(* which is looked up before the task exists and claimed after; the row of *)
(* the task; and `_run`, which waits in the lane of its priority and then  *)
(* at the gate of all upstream calls.  An edit by another provider than    *)
(* imagefree (api/dispatch_edit.py) has a lane of its own, no key and no   *)
(* gate.  The task of a request bears the name of the request.  Rows of    *)
(* the engine's tasks are settled by the engine (TaskEngine); here they    *)
(* only end.                                                               *)
(***************************************************************************)
EXTENDS Naturals, FiniteSets, Sequences, SequencesExt, Filters

CONSTANTS Requests,
          Keys,
          None,         \* a request without a key
          AsksOf,       \* per request what it may ask: [key, route, priority]
          Widths,       \* slots of the lanes 1 and 2, of the edits 3 and of the gate 4
          MaxDbErrors,  \* bound: errors of the database
          MaxLapses     \* bound: expiries of keys

ASSUME DispatchAssumption ==
    /\ IsFiniteSet(Requests) /\ None \notin Requests \cup Keys
    /\ AsksOf \in [Requests -> SUBSET [key : Keys \cup {None}, route : {"engine", "provider", "edit"}, priority : 0 .. 3]]

VARIABLES req,     \* per request: where it stands, what it asks, the id it was told
          row,     \* per task its status in `requests`
          claim,   \* idempotency_keys
          run,     \* per task where its _run stands
          line,    \* who holds or awaits a slot of a lane or of the gate, first come first
          up,      \* the process serves
          lapsed,  \* per key how often it expired
          errors   \* of the database

dispatchVars == <<req, row, claim, run, line, up, lapsed, errors>>

EditLane == 3
Gate == 4
Outcomes == {"completed", "error"}

Active == {"engine", "lane", "gate", "call", "after", "settle"}

DispatchInit ==
    /\ \E ask \in [Requests -> UNION {AsksOf[r] : r \in Requests}] :
        /\ \A r \in Requests : ask[r] \in AsksOf[r]
        /\ req = [r \in Requests |-> [at |-> "idle", ask |-> ask[r], id |-> None]]
    /\ row = [t \in Requests |-> "none"]
    /\ claim = [k \in Keys |-> None]
    /\ run = [t \in Requests |-> "none"]
    /\ line = [l \in 1 .. Gate |-> <<>>]
    /\ up = TRUE
    /\ lapsed = [k \in Keys |-> 0] /\ errors = 0

Key(r) == req[r].ask.key
Route(r) == req[r].ask.route
Lane(r) == req[r].ask.priority      \* 0: no lane
IsAt(r, at) == up /\ req[r].at = at
GoesOnTo(r, at) == req' = [req EXCEPT ![r].at = at]
Tells(r, t) == req' = [req EXCEPT ![r].at = "told", ![r].id = t]

-----------------------------------------------------------------------------
(* The slots: asyncio semaphores hand a slot to the first who waits.       *)

HasSlot(t, l) == \E i \in 1 .. Len(line[l]) : i <= Widths[l] /\ line[l][i] = t
Joined(ln, t, l) == [ln EXCEPT ![l] = Append(@, t)]
Left(ln, t, l) == [ln EXCEPT ![l] = Keeping(@, Requests \ {t})]

\* create_task(_run()): priority 0 passes by the lanes.
StartRun(t) ==
    IF Lane(t) = 0
    THEN run' = [run EXCEPT ![t] = "gate"] /\ line' = Joined(line, t, Gate)
    ELSE run' = [run EXCEPT ![t] = "lane"] /\ line' = Joined(line, t, Lane(t))

-----------------------------------------------------------------------------
(* Submission                                                              *)

Receive(r) ==
    /\ IsAt(r, "idle")
    /\ GoesOnTo(r, IF Key(r) = None THEN "submit" ELSE "look")
    /\ UNCHANGED <<row, claim, run, line, up, lapsed, errors>>

\* get_idempotency: a key that is there, however old, answers at once.
LookUp(r) ==
    /\ IsAt(r, "look")
    /\ IF claim[Key(r)] # None THEN Tells(r, claim[Key(r)]) ELSE GoesOnTo(r, "submit")
    /\ UNCHANGED <<row, claim, run, line, up, lapsed, errors>>

\* The engine takes the task and starts it, or its queue is full.
PostToEngine(r) ==
    /\ IsAt(r, "submit") /\ Route(r) = "engine"
    /\ \/ /\ row' = [row EXCEPT ![r] = "pending"]
          /\ run' = [run EXCEPT ![r] = "engine"]
          /\ IF Key(r) = None THEN Tells(r, r) ELSE GoesOnTo(r, "claim")
       \/ GoesOnTo(r, "refused") /\ UNCHANGED <<row, run>>
    /\ UNCHANGED <<claim, line, up, lapsed, errors>>

\* create_request; without a key the task starts with it.
PostToProvider(r) ==
    /\ IsAt(r, "submit") /\ Route(r) = "provider"
    /\ row' = [row EXCEPT ![r] = "pending"]
    /\ IF Key(r) = None THEN Tells(r, r) /\ StartRun(r)
                        ELSE GoesOnTo(r, "claim") /\ UNCHANGED <<run, line>>
    /\ UNCHANGED <<claim, up, lapsed, errors>>

\* _dispatch_edit, _dispatch_edit_multi: the task starts with its row.
PostEdit(r) ==
    /\ IsAt(r, "submit") /\ Route(r) = "edit"
    /\ row' = [row EXCEPT ![r] = "pending"]
    /\ Tells(r, r) /\ StartRun(r)
    /\ UNCHANGED <<claim, up, lapsed, errors>>

\* The claim is ours: the provider's task starts, the engine's runs already.
Wins(r) ==
    /\ claim' = [claim EXCEPT ![Key(r)] = r]
    /\ Tells(r, r)
    /\ IF Route(r) = "provider" THEN StartRun(r) ELSE UNCHANGED <<run, line>>
    /\ UNCHANGED row

\* Another's: the provider's task ends unstarted and the winner is named.  On
\* the way to the engine the loss is only logged.
Loses(r) ==
    /\ IF Route(r) = "provider"
       THEN Tells(r, claim[Key(r)]) /\ row' = [row EXCEPT ![r] = "error"]
       ELSE Tells(r, r) /\ UNCHANGED row
    /\ UNCHANGED <<claim, run, line>>

\* mutant: INSERT OR REPLACE.
ClaimBlindly(r) ==
    /\ IsAt(r, "claim")
    /\ Wins(r)
    /\ UNCHANGED <<up, lapsed, errors>>

\* claim_idempotency: INSERT ... ON CONFLICT DO NOTHING, then SELECT, each
\* durable at once; a key deleted between them is inserted again.
Claim(r) ==
    /\ IsAt(r, "claim")
    /\ IF claim[Key(r)] = None THEN Wins(r)
                               ELSE GoesOnTo(r, "reread") /\ UNCHANGED <<row, claim, run, line>>
    /\ UNCHANGED <<up, lapsed, errors>>

Reread(r) ==
    /\ IsAt(r, "reread")
    /\ IF claim[Key(r)] # None THEN Loses(r)
                               ELSE GoesOnTo(r, "again") /\ UNCHANGED <<row, claim, run, line>>
    /\ UNCHANGED <<up, lapsed, errors>>

ClaimAgain(r) ==
    /\ IsAt(r, "again")
    /\ IF claim[Key(r)] = None THEN Wins(r)
                               ELSE GoesOnTo(r, "failed") /\ UNCHANGED <<row, claim, run, line>>
    /\ UNCHANGED <<up, lapsed, errors>>

\* A statement of the claim raises, before it took effect or after.
ClaimRaises(r) ==
    /\ errors < MaxDbErrors /\ errors' = errors + 1
    /\ IsAt(r, "claim") \/ IsAt(r, "reread") \/ IsAt(r, "again")
    /\ GoesOnTo(r, "failed")
    /\ claim' \in {claim} \cup
          (IF IsAt(r, "claim") /\ claim[Key(r)] = None THEN {[claim EXCEPT ![Key(r)] = r]} ELSE {})
    /\ UNCHANGED <<row, run, line, up, lapsed>>

\* clean_expired_idempotency, in the background.
KeyExpires(k) ==
    /\ up /\ claim[k] # None /\ lapsed[k] < MaxLapses
    /\ claim' = [claim EXCEPT ![k] = None]
    /\ lapsed' = [lapsed EXCEPT ![k] = @ + 1]
    /\ UNCHANGED <<req, row, run, line, up, errors>>

-----------------------------------------------------------------------------
(* _run                                                                    *)

ToGate(t) ==
    /\ up /\ run[t] = "lane" /\ Lane(t) # EditLane /\ HasSlot(t, Lane(t))
    /\ run' = [run EXCEPT ![t] = "gate"]
    /\ line' = Joined(line, t, Gate)
    /\ UNCHANGED <<req, row, claim, up, lapsed, errors>>

Call(t) ==
    /\ up /\ run[t] = "gate" /\ HasSlot(t, Gate)
    /\ run' = [run EXCEPT ![t] = "call"]
    /\ UNCHANGED <<req, row, claim, line, up, lapsed, errors>>

\* mutant: the lane is left only after a result.
LeavesIf(ok, ln, t) == IF Lane(t) = 0 \/ ~ok THEN ln ELSE Left(ln, t, Lane(t))

\* The slot of the lane is given back on every way out.
Leaves(ok, ln, t) == IF Lane(t) = 0 THEN ln ELSE Left(ln, t, Lane(t))

\* generate() has a result; the vector store is asked before the lane is left.
Completes(t) ==
    /\ up /\ run[t] = "call" /\ Lane(t) # EditLane
    /\ row' = [row EXCEPT ![t] = "completed"]
    /\ run' = [run EXCEPT ![t] = "after"]
    /\ line' = Left(line, t, Gate)
    /\ UNCHANGED <<req, claim, up, lapsed, errors>>

RunEnds(t) ==
    /\ up /\ run[t] = "after"
    /\ run' = [run EXCEPT ![t] = "done"]
    /\ line' = Leaves(TRUE, line, t)
    /\ UNCHANGED <<req, row, claim, up, lapsed, errors>>

\* mark_finished at the end of `_run`: when that raises, the row stays as it is.
Marks(t, status) ==
    \/ /\ row' = [row EXCEPT ![t] = status]
       /\ run' = [run EXCEPT ![t] = "done"]
       /\ UNCHANGED errors
    \/ /\ errors < MaxDbErrors /\ errors' = errors + 1
       /\ run' = [run EXCEPT ![t] = "unmarked"]
       /\ UNCHANGED row

\* generate() reports an error or raises, the input image is not usable, or a
\* write of the result raised.
Errs(t) ==
    /\ up /\ run[t] = "call" /\ Lane(t) # EditLane
    /\ Marks(t, "error")
    /\ line' = Leaves(FALSE, Left(line, t, Gate), t)
    /\ UNCHANGED <<req, claim, up, lapsed>>

\* An edit waits for its lane only, and leaves it before it writes its row.
EditCall(t) ==
    /\ up /\ run[t] = "lane" /\ Lane(t) = EditLane /\ HasSlot(t, EditLane)
    /\ run' = [run EXCEPT ![t] = "call"]
    /\ UNCHANGED <<req, row, claim, line, up, lapsed, errors>>

EditReturns(t) ==
    /\ up /\ run[t] = "call" /\ Lane(t) = EditLane
    /\ run' = [run EXCEPT ![t] = "settle"]
    /\ line' = Left(line, t, EditLane)
    /\ UNCHANGED <<req, row, claim, up, lapsed, errors>>

EditSettles(t) ==
    /\ up /\ run[t] = "settle"
    /\ \E s \in Outcomes : Marks(t, s)
    /\ UNCHANGED <<req, claim, line, up, lapsed>>

EngineEnds(t) ==
    /\ up /\ run[t] = "engine"
    /\ run' = [run EXCEPT ![t] = "done"]
    /\ \E s \in Outcomes : row' = [row EXCEPT ![t] = s]
    /\ UNCHANGED <<req, claim, line, up, lapsed, errors>>

\* The drain of phase 3.5 is over: what still runs is cancelled and writes nothing.
ProcessStops ==
    /\ up /\ up' = FALSE
    /\ run' = [t \in Requests |-> IF run[t] \in Active THEN "cut" ELSE run[t]]
    /\ UNCHANGED <<req, row, claim, line, lapsed, errors>>

Submission(r) ==
    \/ Receive(r) \/ LookUp(r) \/ PostToEngine(r) \/ PostToProvider(r) \/ PostEdit(r)
    \/ Claim(r) \/ Reread(r) \/ ClaimAgain(r) \/ ClaimRaises(r)
RunStep(t) ==
    \/ ToGate(t) \/ Call(t) \/ Completes(t) \/ RunEnds(t) \/ Errs(t)
    \/ EditCall(t) \/ EditReturns(t) \/ EditSettles(t) \/ EngineEnds(t)

DispatchNext ==
    \/ \E r \in Requests : Submission(r) \/ RunStep(r)
    \/ \E k \in Keys : KeyExpires(k)
    \/ ProcessStops

DispatchSpec == DispatchInit /\ [][DispatchNext]_dispatchVars

\* Every provider bounds its own calls, and the event loop runs what is ready.
DispatchFairSpec == DispatchSpec /\ \A t \in Requests : WF_dispatchVars(RunStep(t))

-----------------------------------------------------------------------------
(* Properties                                                              *)

\* Every variable stays in its type; a task is in the line of its lane and of
\* the gate exactly while it waits there or holds a slot (api/dispatch.py).
DispatchTypes ==
    /\ \A r \in Requests :
        /\ req[r].at \in {"idle", "look", "submit", "claim", "reread", "again", "told", "refused", "failed"}
        /\ req[r].id \in Requests \cup {None}
        /\ row[r] \in {"none", "pending"} \cup Outcomes
        /\ run[r] \in {"none", "done", "unmarked", "cut"} \cup Active
    /\ \A l \in 1 .. Gate : IsInjective(line[l])
    /\ claim \in [Keys -> Requests \cup {None}]
    /\ up => \A t \in Requests :
        /\ t \in ToSet(line[Gate]) <=> run[t] \in {"gate", "call"} /\ Lane(t) # EditLane
        /\ t \in ToSet(line[EditLane]) <=> run[t] \in {"lane", "call"} /\ Lane(t) = EditLane
        /\ \A l \in 1 .. 2 : t \in ToSet(line[l]) <=> l = Lane(t) /\ run[t] \in {"lane", "gate", "call", "after"}

\* "v7.6 P0" (dispatch.py:230): of the requests to a provider with one key one
\* generates, and one more for every time the key expires.
RunsOncePerKey ==
    \A k \in Keys :
        Cardinality({r \in Requests : Key(r) = k /\ Route(r) = "provider" /\ run[r] # "none"})
            <= lapsed[k] + 1

\* A provider's task that was started settles unless the process stops or its
\* last write raises: no slot is lost on any way out of `_run`, that one
\* included, and the two waits cannot block each other.
StartedSettles ==
    \A t \in Requests :
        run[t] \in {"lane", "gate", "call", "settle"} ~> row[t] \in Outcomes \/ run[t] = "unmarked" \/ ~up
=============================================================================
