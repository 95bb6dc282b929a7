----------------------------- MODULE EditExits ------------------------------
(***************************************************************************)
(* The edits of one process and the exits they go through: the pool of     *)
(* proxies, the lock of every exit, and the attempts behind the lock       *)
(* (_EditProxyPool, _run_edit_job and _run_edit_chain in                   *)
(* api/dispatch_edit.py, the requests in api/imagefree_client.py).  The    *)
(* site takes one edit at a time from an exit.  Other processes are        *)
(* EditMutex's.  Without proxies there is one exit and no limit.           *)
(***************************************************************************)
EXTENDS Naturals, Sequences, SequencesExt, FiniteSets

CONSTANTS Edits,
          Exits,      \* number of exits
          Inflight,   \* IF_EDIT_PROXY_MAX_INFLIGHT
          Tries,      \* EDIT_RETRY_MAX
          Vacant

ASSUME ExitsAssumption == Exits \in Nat \ {0} /\ Tries \in Nat \ {0} /\ Vacant \notin Edits

VARIABLES edit,      \* where a job is, its exit and its attempt
          exitTurn,  \* the exit that was given last
          exitLine,  \* who holds and awaits the lock of an exit, first come first
          upstream,  \* whose edit the site runs for an exit
          editRow    \* the status of the job in `requests`

exitVars == <<edit, exitTurn, exitLine, upstream, editRow>>

E == 1..Exits
Settled == {"completed", "error"}
ForSlot == [at |-> "slot", exit |-> 0, try |-> 0]

ExitsInit ==
    /\ edit = [j \in Edits |-> [ForSlot EXCEPT !.at = "idle"]]
    /\ exitTurn = 1
    /\ exitLine = [e \in E |-> <<>>]
    /\ upstream = [e \in E |-> Vacant]
    /\ editRow = [j \in Edits |-> Vacant]

At(j, label) == edit[j].at = label
Moves(j, label) == edit' = [edit EXCEPT ![j].at = label]
Exit(j) == edit[j].exit

\* edit_image, _dispatch_edit: the row, and a task that runs _run_edit_job.
Arrive(j) ==
    /\ At(j, "idle") /\ editRow[j] = Vacant
    /\ editRow' = [editRow EXCEPT ![j] = "pending"]
    /\ edit' = [edit EXCEPT ![j] = ForSlot]
    /\ UNCHANGED <<exitTurn, exitLine, upstream>>

Taken == {j \in Edits : edit[j].at \notin {"idle", "slot", "left"}}

\* acquire_proxy: the next exit in turn, also one in use; then its lock.
TakeExit(j) ==
    /\ At(j, "slot") /\ Cardinality(Taken) < Inflight
    /\ exitTurn' = (exitTurn % Exits) + 1
    /\ edit' = [edit EXCEPT ![j].at = "lock", ![j].exit = exitTurn']
    /\ exitLine' = [exitLine EXCEPT ![exitTurn'] = Append(@, j)]
    /\ UNCHANGED <<upstream, editRow>>

\* mutant: the lock is not waited for
Barges(j) == TRUE
First(j) == exitLine[Exit(j)] # <<>> /\ Head(exitLine[Exit(j)]) = j

EnterExit(j) ==
    /\ At(j, "lock") /\ First(j)
    /\ edit' = [edit EXCEPT ![j].at = "solving", ![j].try = 1]
    /\ UNCHANGED <<exitTurn, exitLine, upstream, editRow>>

\* The end of _run_edit_job: the lock is handed on, and the proxy given back.
Leave(j, status) ==
    /\ editRow' = [editRow EXCEPT ![j] = status]
    /\ edit' = [edit EXCEPT ![j].at = "left"]
    /\ exitLine' = [exitLine EXCEPT ![Exit(j)] = Tail(@)]
    /\ UNCHANGED exitTurn

\* The lock of the other processes is not to be had, there is no token, or the
\* upload fails.
Stumbles(j) == At(j, "solving") /\ Leave(j, "error") /\ UNCHANGED upstream
Uploaded(j) ==
    /\ At(j, "solving") /\ Moves(j, "submitting")
    /\ UNCHANGED <<exitTurn, exitLine, upstream, editRow>>

\* submit_edit; the answer may be lost, or the id cannot be written.
SubmitEdit(j) ==
    /\ At(j, "submitting") /\ upstream[Exit(j)] = Vacant
    /\ upstream' = [upstream EXCEPT ![Exit(j)] = j]
    /\ \/ Moves(j, "polling") /\ UNCHANGED <<exitTurn, exitLine, editRow>>
       \/ Leave(j, "error")

SubmitFails(j) == At(j, "submitting") /\ Leave(j, "error") /\ UNCHANGED upstream

\* _is_edit_slot_wedged: the site runs an edit of this exit.  The token is spent.
Wedged(j) ==
    /\ At(j, "submitting") /\ upstream[Exit(j)] # Vacant
    /\ \/ edit[j].try < Tries /\ Moves(j, "pausing") /\ UNCHANGED <<exitTurn, exitLine, editRow>>
       \/ edit[j].try = Tries /\ Leave(j, "error")
    /\ UNCHANGED upstream

Again(j) ==
    /\ At(j, "pausing")
    /\ edit' = [edit EXCEPT ![j].at = "solving", ![j].try = @ + 1]
    /\ UNCHANGED <<exitTurn, exitLine, upstream, editRow>>

\* poll_edit_status sees the end, fails, or is out of time while the site goes on.
EditAnswered(j) ==
    /\ At(j, "polling") /\ upstream[Exit(j)] # j
    /\ \E s \in Settled : Leave(j, s)
    /\ UNCHANGED upstream
GivesUp(j) == At(j, "polling") /\ Leave(j, "error") /\ UNCHANGED upstream

SiteEnds(e) ==
    /\ upstream[e] # Vacant
    /\ upstream' = [upstream EXCEPT ![e] = Vacant]
    /\ UNCHANGED <<edit, exitTurn, exitLine, editRow>>

ExitsNext ==
    \/ \E j \in Edits :
          \/ Arrive(j) \/ TakeExit(j) \/ EnterExit(j) \/ Stumbles(j) \/ Uploaded(j)
          \/ SubmitEdit(j) \/ SubmitFails(j) \/ Wedged(j) \/ Again(j) \/ EditAnswered(j) \/ GivesUp(j)
    \/ \E e \in E : SiteEnds(e)

ExitsSpec == ExitsInit /\ [][ExitsNext]_exitVars

-----------------------------------------------------------------------------
\* Types of the jobs, the exits and the site; who is in the line of an exit has
\* been given it (api/dispatch_edit.py:160).
ExitsTypes ==
    /\ edit \in [Edits -> [at : {"idle", "slot", "lock", "solving", "submitting", "pausing", "polling", "left"},
                         exit : 0..Exits, try : 0..Tries]]
    /\ exitTurn \in E /\ upstream \in [E -> Edits \cup {Vacant}]
    /\ editRow \in [Edits -> Settled \cup {"pending", Vacant}]
    /\ \A e \in E : \A j \in ToSet(exitLine[e]) : Exit(j) = e

\* "双层互斥保证不撞上游并发=1" (api/dispatch_edit.py:355): a job finds its exit in
\* use at the site only by an edit that was given up there, never by one of a job
\* that still waits for it.
BusyExplained ==
    \A j \in Edits : At(j, "submitting") /\ upstream[Exit(j)] # Vacant => At(upstream[Exit(j)], "left")
=============================================================================
