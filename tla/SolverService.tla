--------------------------- MODULE SolverService ----------------------------
(***************************************************************************)
(* The captcha solver deployed beside the service,                         *)
(* deploy/cf_solver/api_server.py: a pool of browser pages in shared       *)
(* contexts, the tasks that borrow them, the results clients poll for, and *)
(* the two loops that clean up, one of which restarts every context while  *)
(* tasks are using them.                                                   *)
(***************************************************************************)
EXTENDS Integers, FiniteSets, Sequences, SequencesExt

CONSTANTS Captchas,
          CaptchaKinds,  \* per task what it may be: "turnstile" or "proxied", "clearance", "aws", "recaptcha"
          Threads, PagesPer,
          HasProxies,    \* proxy_support with a file of proxies
          MaxCrashes     \* bound: errors of the browser while contexts are built

ASSUME SolverAssumption ==
    /\ Threads \in Nat \ {0} /\ PagesPer \in Nat \ {0} /\ MaxCrashes \in Nat
    /\ IsFiniteSet(Captchas)
    /\ CaptchaKinds \in [Captchas -> SUBSET {"turnstile", "proxied", "clearance", "aws", "recaptcha"}]

VARIABLES contexts,  \* self.contexts
          spare,     \* page_pool: the context of each page
          closed,    \* contexts that are closed and still referred to
          browser,   \* it runs
          task,      \* per task where it stands, its context, whether `proxy` is set
          result,    \* self.results: "late" is an entry with a start time
          age,       \* per task: 1 after 300 s, 2 after 600 s
          cleaner,   \* _periodic_cleanup
          broken     \* errors of the browser so far

solverVars == <<contexts, spare, closed, browser, task, result, age, cleaner, broken>>

AllPages == Threads * PagesPer
ContextIds == 1 .. 3 * Threads + Cardinality(Captchas)
Private == 0     \* the context is the task's own, or it has none
NotAsked == [at |-> "idle", kind |-> "turnstile", ctx |-> Private, proxy |-> FALSE]
Sleeping == [at |-> "sleep", taken |-> 0, old |-> {}, new |-> Private, left |-> 0, again |-> FALSE]

\* _build_page_pool: context by context, page by page.
FullPool == [i \in 1 .. AllPages |-> 1 + (i - 1) \div PagesPer]

SolverInit ==
    /\ contexts = 1 .. Threads /\ spare = FullPool
    /\ closed = {} /\ browser = TRUE
    /\ task = [t \in Captchas |-> NotAsked]
    /\ result = [t \in Captchas |-> "none"] /\ age = [t \in Captchas |-> 0]
    /\ cleaner = Sleeping /\ broken = 0

Holding(c) == {t \in Captchas : task[t].at \in {"hold", "leave"} /\ task[t].ctx = c}
Referred == (contexts \cup ToSet(spare) \cup cleaner.old \cup {task[t].ctx : t \in Captchas}) \ {Private}
Fresh == CHOOSE c \in ContextIds : c \notin Referred
\* What nobody refers to any more is forgotten.
Close(cs) == closed' = (closed \cup cs) \cap Referred'
Is(t, at) == task[t].at = at
CaptchaGoes(t, at) == task' = [task EXCEPT ![t].at = at]

-----------------------------------------------------------------------------
(* Tasks                                                                   *)

\* The endpoints: only a clearance or a WAF token is refused when no page is free.
Request(t) ==
    \E kind \in CaptchaKinds[t] :
    LET refused == kind \in {"clearance", "aws"} /\ spare = <<>>
        next == IF refused THEN "refused" ELSE IF kind \in {"proxied", "recaptcha"} THEN "open" ELSE "wait"
    IN  /\ Is(t, "idle")
        /\ task' = [task EXCEPT ![t].at = next, ![t].kind = kind]
        /\ result' = IF refused THEN result ELSE [result EXCEPT ![t] = "process"]
        /\ UNCHANGED <<contexts, spare, closed, browser, age, cleaner, broken>>

TakePage(t) ==
    /\ Is(t, "wait") /\ spare # <<>>
    /\ task' = [task EXCEPT ![t].at = "hold", ![t].ctx = Head(spare)]
    /\ spare' = Tail(spare)
    /\ UNCHANGED <<contexts, closed, browser, result, age, cleaner, broken>>

\* A task with a proxy of its own, and one that needs another browser, open
\* what they use.  A page that cannot be opened in the new context of a proxy
\* ends the task outside its `try`: its result stays as it is.
Open(t) ==
    /\ Is(t, "open")
    /\ \/ task' = [task EXCEPT ![t].at = "hold", ![t].proxy = TRUE] /\ UNCHANGED result
       \/ CaptchaGoes(t, "done") /\ result' = [result EXCEPT ![t] = "final"]
       \/ task[t].kind = "proxied" /\ CaptchaGoes(t, "done") /\ UNCHANGED result
    /\ UNCHANGED <<contexts, spare, closed, browser, age, cleaner, broken>>

\* The second round of a turnstile task changes to the next proxy: it closes
\* the context of its page, which others may share, or keeps it when there is
\* no new one; it counts as proxied either way.
Rotate(t) ==
    /\ Is(t, "hold") /\ task[t].kind = "turnstile" /\ ~task[t].proxy /\ HasProxies
    /\ \E changed \in BOOLEAN :
        /\ task' = [task EXCEPT ![t].proxy = TRUE, ![t].ctx = IF changed THEN Private ELSE @]
        /\ UNCHANGED <<contexts, spare, cleaner>>
        /\ Close(IF changed THEN {task[t].ctx} ELSE {})
    /\ UNCHANGED <<browser, result, age, broken>>

\* A success, a failure after all rounds or an exception: the result is
\* written, whatever became of its entry meanwhile.
Settle(t) ==
    /\ Is(t, "hold")
    /\ result' = [result EXCEPT ![t] = "final"]
    /\ CaptchaGoes(t, "leave")
    /\ UNCHANGED <<contexts, spare, closed, browser, age, cleaner, broken>>

SolveTurnstile(t) == task[t].kind \in {"turnstile", "proxied"} /\ Settle(t)
SolveClearance(t) == task[t].kind = "clearance" /\ Settle(t)
\* Blocked by the front of the site, it tries once more in a context of its own.
SolveAwsToken(t) == task[t].kind = "aws" /\ Settle(t)
SolveRecaptcha(t) == task[t].kind = "recaptcha" /\ Settle(t)
Solve(t) == SolveTurnstile(t) \/ SolveClearance(t) \/ SolveAwsToken(t) \/ SolveRecaptcha(t)

\* mutant: the page goes back whatever became of its context.
Stale(c) == FALSE

\* _periodic_cleanup has given the context up.
Dropped(c) == c \notin contexts

\* The `finally`: a proxied context is closed, a page whose context still
\* counts goes back to the pool, any other is dropped.
LeavePage(t) ==
    LET c == task[t].ctx
    IN  /\ Is(t, "leave")
        /\ task' = [task EXCEPT ![t].at = "done", ![t].ctx = Private]
        /\ spare' = IF task[t].proxy \/ Dropped(c) THEN spare ELSE Append(spare, c)
        /\ UNCHANGED <<contexts, cleaner>>
        /\ Close(IF task[t].proxy THEN {c} ELSE {})
        /\ UNCHANGED <<browser, result, age, broken>>

-----------------------------------------------------------------------------
(* Results                                                                 *)

\* get_result: a task that takes too long is answered with a timeout; what is
\* answered is forgotten.
PollResult(t) ==
    /\ result[t] \in {"late", "final"} \/ (result[t] = "process" /\ age[t] > 0)
    /\ result' = [result EXCEPT ![t] = "none"]
    /\ UNCHANGED <<contexts, spare, closed, browser, task, age, cleaner, broken>>

\* mutant: tasks in progress are left alone.
SweptOld(t) == IF result[t] = "late" /\ age[t] > 1 THEN "none" ELSE result[t]

\* The age of an entry is counted from its start time, and only a timeout
\* keeps that: for the others it is zero.
Swept(t) ==
    IF result[t] = "process" /\ age[t] > 0 THEN "late"
    ELSE IF result[t] = "late" /\ age[t] > 1 THEN "none"
    ELSE result[t]

\* _cleanup_results
Sweep ==
    /\ result' = [t \in Captchas |-> Swept(t)]
    /\ result' # result
    /\ UNCHANGED <<contexts, spare, closed, browser, task, age, cleaner, broken>>

AgeResult(t) ==
    /\ result[t] # "none" /\ age[t] < 2
    /\ age' = [age EXCEPT ![t] = @ + 1]
    /\ UNCHANGED <<contexts, spare, closed, browser, task, result, cleaner, broken>>

-----------------------------------------------------------------------------
(* _periodic_cleanup                                                       *)

\* It takes every page there is,
CleanerWakes ==
    /\ cleaner.at = "sleep"
    /\ cleaner' = [Sleeping EXCEPT !.at = "await", !.taken = Len(spare)]
    /\ spare' = <<>>
    /\ UNCHANGED <<contexts, closed, browser, task, result, age, broken>>

\* waits for those in use,
Collect ==
    /\ cleaner.at = "await" /\ cleaner.taken < AllPages /\ spare # <<>>
    /\ cleaner' = [cleaner EXCEPT !.taken = @ + 1]
    /\ spare' = Tail(spare)
    /\ UNCHANGED <<contexts, closed, browser, task, result, age, broken>>

\* mutant: it waits for as long as it takes.
AllIn == cleaner.taken >= AllPages

\* at most 60 s,
Waited == TRUE

\* gives the contexts up before it closes them,
Invalidate ==
    /\ cleaner.at = "await" /\ Waited
    /\ cleaner' = [cleaner EXCEPT !.at = "close", !.old = contexts]
    /\ contexts' = {}
    /\ UNCHANGED <<spare, closed, browser, task, result, age, broken>>

CloseOld(c) ==
    /\ cleaner.at = "close" /\ c \in cleaner.old
    /\ cleaner' = [cleaner EXCEPT !.old = @ \ {c}]
    /\ UNCHANGED <<contexts, spare, task>>
    /\ Close({c})
    /\ UNCHANGED <<browser, result, age, broken>>

\* throws away what came in meanwhile
Discard ==
    /\ cleaner.at = "close" /\ cleaner.old = {}
    /\ cleaner' = [cleaner EXCEPT !.at = "build"]
    /\ spare' = <<>> /\ UNCHANGED <<contexts, task>>
    /\ Close({})
    /\ UNCHANGED <<browser, result, age, broken>>

\* and builds everything anew, context by context and page by page.
AddContext ==
    /\ cleaner.at = "build" /\ browser /\ cleaner.left = 0 /\ Cardinality(contexts) < Threads
    /\ contexts' = contexts \cup {Fresh}
    /\ cleaner' = [cleaner EXCEPT !.new = Fresh, !.left = PagesPer]
    /\ UNCHANGED <<spare, closed, browser, task, result, age, broken>>

AddPage ==
    /\ cleaner.at = "build" /\ browser /\ cleaner.left > 0
    /\ spare' = Append(spare, cleaner.new)
    /\ cleaner' = [cleaner EXCEPT !.left = @ - 1]
    /\ UNCHANGED <<contexts, closed, browser, task, result, age, broken>>

Built ==
    /\ cleaner.at = "build" /\ cleaner.left = 0 /\ Cardinality(contexts) = Threads
    /\ cleaner' = Sleeping
    /\ UNCHANGED <<contexts, spare, closed, browser, task, result, age, broken>>

\* When that fails the browser is restarted and everything is built once more;
\* when that fails too, the pool stays as it is until the next time.
BuildFails ==
    /\ cleaner.at = "build"
    /\ IF browser THEN broken < MaxCrashes /\ broken' = broken + 1 ELSE UNCHANGED broken
    /\ cleaner' = IF cleaner.again THEN Sleeping ELSE [cleaner EXCEPT !.at = "restart", !.left = 0]
    /\ UNCHANGED <<contexts, spare, closed, browser, task, result, age>>

RestartBrowser ==
    /\ cleaner.at = "restart"
    /\ \/ /\ browser' = TRUE /\ UNCHANGED broken
          /\ contexts' = {}
          /\ cleaner' = [cleaner EXCEPT !.at = "build", !.again = TRUE]
       \/ /\ broken < MaxCrashes /\ broken' = broken + 1
          /\ browser' = FALSE /\ UNCHANGED contexts
          /\ cleaner' = Sleeping
    /\ UNCHANGED <<spare, task>>
    /\ Close(ContextIds)
    /\ UNCHANGED <<result, age>>

TaskNext(t) ==
    Request(t) \/ TakePage(t) \/ Open(t) \/ Rotate(t) \/ Solve(t) \/ LeavePage(t) \/ PollResult(t) \/ AgeResult(t)
CleanerNext ==
    \/ CleanerWakes \/ Collect \/ Invalidate \/ (\E c \in ContextIds : CloseOld(c)) \/ Discard
    \/ AddContext \/ AddPage \/ Built \/ BuildFails \/ RestartBrowser

SolverNext == (\E t \in Captchas : TaskNext(t)) \/ Sweep \/ CleanerNext

SolverSpec == SolverInit /\ [][SolverNext]_solverVars

\* The browser answers in bounded time (every call has a timeout), time passes
\* and both loops run.  Nobody need poll, and a waiting task may be overtaken.
SolverFairSpec ==
    /\ SolverSpec
    /\ WF_solverVars(CleanerNext) /\ WF_solverVars(Sweep)
    /\ \A t \in Captchas : WF_solverVars(AgeResult(t)) /\ WF_solverVars(Solve(t)) /\ WF_solverVars(LeavePage(t))

-----------------------------------------------------------------------------
(* Properties                                                              *)

PagesOf(c) == {i \in 1 .. Len(spare) : spare[i] = c}

\* Every variable stays in its type, and no context that counts has more pages
\* in the pool and in use than were opened in it.
SolverTypes ==
    /\ contexts \cup closed \cup ToSet(spare) \subseteq ContextIds
    /\ \A c \in contexts :
        Cardinality(PagesOf(c)) + Cardinality(Holding(c)) <= PagesPer
    /\ \A t \in Captchas :
        /\ task[t].at \in {"idle", "refused", "wait", "open", "hold", "leave", "done"}
        /\ result[t] \in {"none", "process", "late", "final"} /\ age[t] \in 0 .. 2
    /\ cleaner.at \in {"sleep", "await", "close", "build", "restart"}
    /\ broken \in 0 .. MaxCrashes

\* api_server.py:248, contexts are given up before they are closed: as long as
\* the browser does its work, a task that outlives a restart brings no page of
\* an old context into the new pool.
NoStalePage ==
    broken = 0 /\ cleaner.at # "close" => ToSet(spare) \subseteq contexts

\* api_server.py:162, a task is not left "process" forever, also when it waits
\* for a page or died before its `try`.
AcceptedSettles == \A t \in Captchas : result[t] = "process" ~> result[t] # "process"

\* Pages are lost to proxies, and to contexts closed under their neighbours;
\* the periodic restart brings the whole pool back, every page of it usable.
Whole ==
    /\ Cardinality(contexts) = Threads /\ contexts \cap closed = {}
    /\ \A c \in contexts :
        Cardinality(PagesOf(c)) + Cardinality(Holding(c)) = PagesPer
CapacityReturns == []<>Whole

\* What a task, a proxy or a crash takes from the service comes back.
SolverGoesOn == AcceptedSettles /\ CapacityReturns
=============================================================================
