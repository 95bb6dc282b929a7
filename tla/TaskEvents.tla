----------------------------- MODULE TaskEvents -----------------------------
(***************************************************************************)
(* The event stream of one task: api/sse_events.py (publication, history,  *)
(* replay after Last-Event-ID, subscription) and api/ws_events.py, which   *)
(* reads the same hub.  Events are numbered in the order of publication;   *)
(* the numbers are those of the hub, because every publication is a task   *)
(* that waits for nothing but the hub's lock.                              *)
(***************************************************************************)
EXTENDS Naturals, Sequences, SequencesExt

CONSTANTS Watchers,
          ProtocolOf, \* per client "sse" or "ws"
          Script,     \* the kinds of the events of the task, in order
          Keep,       \* _MAX_EVENTS_PER_TASK
          MaxQueue,   \* MAX_QUEUE
          MaxConnects \* bound: connections of a client

ASSUME EventsAssumption == Keep \in Nat \ {0} /\ MaxQueue \in Nat /\ MaxConnects \in Nat

VARIABLES published,  \* events handed to publish_task_event
          delivered,  \* events that went through the hub
          history,    \* _buffers: the last events of the task
          watcher,    \* per client its stream
          got         \* per client the events sent to it since it began anew

eventVars == <<published, delivered, history, watcher, got>>

Events == 1 .. Len(Script)
Final(e) == Script[e] \in {"result", "error"}
NoStream == [at |-> "off", replay |-> <<>>, queue |-> <<>>, missed |-> FALSE, connects |-> 0]

EventsInit ==
    /\ published = 0 /\ delivered = 0 /\ history = <<>>
    /\ watcher = [c \in Watchers |-> NoStream]
    /\ got = [c \in Watchers |-> <<>>]

\* publish_task_event: the publication becomes a task of the event loop.
Publish ==
    /\ published < Len(Script)
    /\ published' = published + 1
    /\ UNCHANGED <<delivered, history, watcher, got>>

Kept(b) == IF Len(b) > Keep THEN SubSeq(b, Len(b) - Keep + 1, Len(b)) ELSE b

\* A subscriber whose queue is full does not get the event.
Pushed(s, e) ==
    IF s.at # "live" THEN s
    ELSE IF Len(s.queue) < MaxQueue THEN [s EXCEPT !.queue = Append(@, e)]
    ELSE [s EXCEPT !.missed = TRUE]

\* mutant: a task whose history was cleared has no subscribers either.
DeliverIfHistory ==
    /\ delivered < published
    /\ delivered' = delivered + 1
    /\ history' = Kept(Append(history, delivered'))
    /\ watcher' = IF history = <<>> /\ delivered # 0 THEN watcher
                 ELSE [c \in Watchers |-> Pushed(watcher[c], delivered')]
    /\ UNCHANGED <<published, got>>

\* hub.publish
Deliver ==
    /\ delivered < published
    /\ delivered' = delivered + 1
    /\ history' = Kept(Append(history, delivered'))
    /\ watcher' = [c \in Watchers |-> Pushed(watcher[c], delivered')]
    /\ UNCHANGED <<published, got>>

\* mutant: the replay begins with the event the client named.
AfterInclusive(b, n) ==
    LET later == {i \in 1 .. Len(b) : b[i] >= n}
    IN  IF later = {} THEN <<>> ELSE SubSeq(b, Min(later), Len(b))

\* replay_after: the numbers of the history ascend, so that those above n are
\* its end.
StoredAfter(b, n) ==
    LET later == {i \in 1 .. Len(b) : b[i] > n}
    IN  IF later = {} THEN <<>> ELSE SubSeq(b, Min(later), Len(b))

\* A stream opens, anew or (SSE) after the last event it has, and takes its
\* share of the history; it subscribes when it has sent that.  The pings have
\* the number -1: a client that resumes after one begins anew.
Connect(c) ==
    /\ watcher[c].at = "off" /\ watcher[c].connects < MaxConnects
    /\ \E resume \in BOOLEAN :
        /\ resume => ProtocolOf[c] = "sse" /\ got[c] # <<>>
        /\ got' = [got EXCEPT ![c] = IF resume THEN @ ELSE <<>>]
        /\ watcher' = [watcher EXCEPT ![c].at = "replay", ![c].connects = @ + 1,
                          ![c].replay = StoredAfter(history, IF resume THEN Last(got[c]) ELSE 0)]
    /\ UNCHANGED <<published, delivered, history>>

SendReplay(c) ==
    /\ watcher[c].at = "replay" /\ watcher[c].replay # <<>>
    /\ got' = [got EXCEPT ![c] = Append(@, Head(watcher[c].replay))]
    /\ watcher' = [watcher EXCEPT ![c].replay = Tail(@)]
    /\ UNCHANGED <<published, delivered, history>>

Subscribe(c) ==
    /\ watcher[c].at = "replay" /\ watcher[c].replay = <<>>
    /\ watcher' = [watcher EXCEPT ![c].at = "live"]
    /\ UNCHANGED <<published, delivered, history, got>>

\* The `finally` of a stream: it leaves the hub and clears the history of the
\* task, for everybody.
Closes(c) ==
    /\ watcher' = [watcher EXCEPT ![c] = [NoStream EXCEPT !.connects = watcher[c].connects]]
    /\ history' = <<>>

\* The line that looks for a result or an error in the encoded event does not
\* find one: the stream goes on after either.
SendEvent(c) ==
    /\ watcher[c].at = "live" /\ watcher[c].queue # <<>> /\ ProtocolOf[c] = "sse"
    /\ got' = [got EXCEPT ![c] = Append(@, Head(watcher[c].queue))]
    /\ watcher' = [watcher EXCEPT ![c].queue = Tail(@)]
    /\ UNCHANGED <<published, delivered, history>>

\* The socket takes the event for a pair, which raises: the stream closes with
\* the event unsent.
SocketFails(c) ==
    /\ watcher[c].at = "live" /\ watcher[c].queue # <<>> /\ ProtocolOf[c] = "ws"
    /\ Closes(c)
    /\ UNCHANGED <<published, delivered, got>>

\* The client goes away; before it is live the history stays.  That a socket
\* which is live has closed is not noticed before the next event.
WatcherLeaves(c) ==
    /\ watcher[c].at # "off" /\ ~(watcher[c].at = "live" /\ ProtocolOf[c] = "ws")
    /\ IF watcher[c].at = "live" THEN Closes(c)
       ELSE watcher' = [watcher EXCEPT ![c] = [NoStream EXCEPT !.connects = watcher[c].connects]] /\ UNCHANGED history
    /\ UNCHANGED <<published, delivered, got>>

ClientNext(c) ==
    Connect(c) \/ SendReplay(c) \/ Subscribe(c) \/ SendEvent(c) \/ SocketFails(c) \/ WatcherLeaves(c)

EventsNext == Publish \/ Deliver \/ \E c \in Watchers : ClientNext(c)

EventsSpec == EventsInit /\ [][EventsNext]_eventVars

\* The event loop runs publications and streams; clients need not stay.
EventsFairSpec ==
    /\ EventsSpec
    /\ WF_eventVars(Publish) /\ WF_eventVars(Deliver)
    /\ \A c \in Watchers : /\ WF_eventVars(SendReplay(c)) /\ WF_eventVars(Subscribe(c))
                           /\ WF_eventVars(SendEvent(c)) /\ WF_eventVars(SocketFails(c))

-----------------------------------------------------------------------------
(* Properties                                                              *)

\* Every variable stays in its type; the history and the queues are bounded and
\* only a live stream has a queue (api/sse_events.py).
EventTypes ==
    /\ published \in 0 .. Len(Script) /\ delivered \in 0 .. published
    /\ Len(history) <= Keep /\ ToSet(history) \subseteq 1 .. delivered
    /\ \A c \in Watchers :
        /\ watcher[c].at \in {"off", "replay", "live"}
        /\ Len(watcher[c].queue) <= MaxQueue
        /\ watcher[c].at # "live" => watcher[c].queue = <<>>
        /\ watcher[c].connects \in 0 .. MaxConnects
        /\ ToSet(got[c]) \subseteq 1 .. delivered

\* A client that resumes with the id of its last event is sent every event at
\* most once and in order, through replay, subscription and reconnection.
SeenInOrder ==
    \A c \in Watchers :
        LET all == got[c] \o watcher[c].replay \o watcher[c].queue
        IN  \A i, j \in 1 .. Len(all) : i < j => all[i] < all[j]

\* A stream that is live before the task ends is sent the end, unless it was
\* too slow or left, whatever the other streams do to the history.
EndReachesLive ==
    \A c \in Watchers : \A e \in Events :
        Final(e) /\ ProtocolOf[c] = "sse" /\ watcher[c].at = "live" /\ delivered < e
            ~> \/ e \in ToSet(got[c])
               \/ watcher[c].at # "live" \/ watcher[c].missed
=============================================================================
