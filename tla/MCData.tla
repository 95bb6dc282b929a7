------------------------------- MODULE MCData -------------------------------
(***************************************************************************)
(* The components between a request and the database, and between it and   *)
(* the sites outside, for MCServices.                                      *)
(***************************************************************************)
EXTENDS WriteBuffer, Dispatch, TaskEvents, SolverService

CONSTANT Components

VARIABLE which  \* whose behaviour this is

CONSTANTS Posts,                           \* Dispatch: the requests with a key
          Streams,                         \* TaskEvents: the watchers by SSE
          Pages, Visitors, Images, Deaths, Shelf  \* GalleryCache

VARIABLES images, doomed, order, cached, upserts, deletes, doing, store, reader, restarts

galleryVars == <<images, doomed, order, cached, upserts, deletes, doing, store, reader, restarts>>
dataVars == <<bufferVars, dispatchVars, eventVars, galleryVars>>

(* api/dispatch.py: requests with one key, and one without, for the engine *)
(* or a provider, the latter also an edit; one slot for each lane and gate *)
MayAsk == [r \in Requests |->
              IF r \in Posts THEN [key : Keys, route : {"provider", "engine"}, priority : {2}]
                             ELSE [key : {None}, route : {"provider"}, priority : {0, 2}]
                                  \cup [key : {None}, route : {"edit"}, priority : {3}]]
OneEach == <<1, 1, 1, 1>>

(* api/sse_events.py, api/ws_events.py: a task of three events, a history  *)
(* that keeps two and queues of one                                        *)
Protocols == [c \in Watchers |-> IF c \in Streams THEN "sse" ELSE "ws"]
ThreeEvents == <<"status", "progress", "result">>

(* api/cache.py: a cache of so many pages as the shelf takes               *)
Gallery == INSTANCE GalleryCache WITH
    Keys <- Pages, Readers <- Visitors, MaxSize <- Shelf, TTL <- 2,
    MaxImages <- Images, MaxRestarts <- Deaths

DataInit ==
    /\ BufferInit
    /\ DispatchInit
    /\ (which = "dispatch" \/ \A r \in Requests : req[r].ask.route = "provider" /\ req[r].ask.priority = 2)
    /\ EventsInit
    /\ Gallery!Init

DataNext ==
    /\ \/ which = "buffer" /\ BufferNext
       \/ which = "dispatch" /\ DispatchNext
       \/ which = "events" /\ EventsNext
       \/ which = "gallery" /\ Gallery!Next
    /\ UNCHANGED which
    /\ which # "buffer" => UNCHANGED bufferVars
    /\ which # "dispatch" => UNCHANGED dispatchVars
    /\ which # "events" => UNCHANGED eventVars
    /\ which # "gallery" => UNCHANGED galleryVars

\* The fairness of each component, as its module states it.
DataFair ==
    /\ WF_bufferVars(which = "buffer" /\ TimerWakes)
    /\ WF_bufferVars(which = "buffer" /\ Execute)
    /\ WF_bufferVars(which = "buffer" /\ Commit)
    /\ \A c \in Callers : WF_bufferVars(which = "buffer" /\ Read(c))
    /\ \A p \in Flushers : SF_bufferVars(which = "buffer" /\ SwapOut(p))
    /\ \A r \in Requests : WF_dispatchVars(which = "dispatch" /\ RunStep(r))
    /\ WF_eventVars(which = "events" /\ Publish)
    /\ WF_eventVars(which = "events" /\ Deliver)
    /\ \A c \in Watchers :
        /\ WF_eventVars(which = "events" /\ SendReplay(c))
        /\ WF_eventVars(which = "events" /\ Subscribe(c))
        /\ WF_eventVars(which = "events" /\ SendEvent(c))
        /\ WF_eventVars(which = "events" /\ SocketFails(c))
    /\ WF_galleryVars(which = "gallery" /\ Gallery!Tick)
    /\ WF_galleryVars(which = "gallery" /\ Gallery!Purge)
    /\ WF_galleryVars(which = "gallery" /\ Gallery!Invalidate)

DataTypes == BufferTypes /\ DispatchTypes /\ EventTypes /\ Gallery!TypeOK

\* api/cache.py: a gallery that is behind is soon gone.
StaleEnds == Gallery!StaleEnds

-----------------------------------------------------------------------------
(* Upstream: proxies and captchas                                          *)

CONSTANTS Drawers, Talkers, Midnights, residential, public,  \* ProxyPool
          Challenges, Walls  \* SolverService: captchas that may be of other kinds than the rest

VARIABLES pool, entry, used, call, days, ages,
          freeOnes, activity, traced, counts, probing, tracing

proxyVars == <<pool, entry, used, call, days, ages>>
listVars == <<freeOnes, activity, traced, counts, probing, tracing>>
upstreamVars == <<proxyVars, solverVars, listVars>>

(* api/proxy_pool.py: one residential and one free proxy                   *)
Proxy == INSTANCE ProxyPool WITH
    Proxies <- {residential, public}, Free <- {public}, Calls <- Drawers \cup Talkers,
    KindsOf <- [c \in Drawers \cup Talkers |-> IF c \in Drawers THEN {"engine"} ELSE {"chat", "single"}],
    Cooldown <- <<0, 1>>, MaxUse <- 1, Tries <- 1,
    MaxDays <- Midnights, MaxAges <- 1, MaxUses <- 2

(* deploy/cf_solver/api_server.py: one context of two pages                *)
SomeKinds == [t \in Captchas |->
                 CASE t \in Challenges -> {"turnstile"}
                   [] t \in Walls -> {"clearance", "aws"}
                   [] OTHER -> {"turnstile", "proxied", "recaptcha"}]

(* api/free_proxy_fetcher.py, api/proxy_tracer.py: three proxies in lists  *)
(* of both forms, one of them cannot be asked; the tracer has a place for  *)
(* one in each of the two rounds of a TTL, so that they compete for it     *)
Finds == {"near", "mid", "far"}
Offer(url, form, host) == [url |-> url, form |-> form, host |-> host, port |-> "digits"]
Lists == INSTANCE FreeProxies WITH
    Urls <- Finds,
    Sources <- <<<<Offer("near", "text", "public"), Offer("far", "text", "v6"), Offer("mid", "text", "public")>>,
                 <<Offer("far", "json", "v6"), Offer("near", "json", "public")>>>>,
    CheckLimit <- 2, Endpoints <- 2, PerRound <- 1, Concurrency <- 1, TTL <- 2,
    pool <- freeOnes, recent <- activity, shown <- traced, cache <- counts, probe <- probing, round <- tracing

UpstreamInit ==
    /\ Proxy!Init /\ (which = "proxy" \/ pool = {})
    /\ SolverInit
    /\ Lists!Init

UpstreamNext ==
    /\ \/ which = "proxy" /\ Proxy!Next
       \/ which = "solver" /\ SolverNext
       \/ which = "lists" /\ Lists!Next
    /\ UNCHANGED which
    /\ which # "proxy" => UNCHANGED proxyVars
    /\ which # "solver" => UNCHANGED solverVars
    /\ which # "lists" => UNCHANGED listVars

\* The fairness of each component, as its module states it.
UpstreamFair ==
    /\ WF_listVars(which = "lists" /\ Lists!GoesOn)
    /\ \A u \in Finds \ Lists!Bare : SF_listVars(which = "lists" /\ Lists!Traced(u))
    /\ WF_solverVars(which = "solver" /\ CleanerNext)
    /\ WF_solverVars(which = "solver" /\ Sweep)
    /\ \A t \in Captchas :
        /\ WF_solverVars(which = "solver" /\ AgeResult(t))
        /\ WF_solverVars(which = "solver" /\ Solve(t))
        /\ WF_solverVars(which = "solver" /\ LeavePage(t))

UpstreamTypes == Proxy!TypeOK /\ SolverTypes /\ Lists!TypeOK

\* api/proxy_tracer.py:164: no free proxy waits forever for its trace.
EntriesTraced == which = "lists" => Lists!EntriesTraced
=============================================================================
