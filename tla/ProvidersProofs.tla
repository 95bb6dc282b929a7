-------------------------- MODULE ProvidersProofs --------------------------
(***************************************************************************)
(* Proofs about what stands in front of the providers, for all providers,  *)
(* requests, addresses, rules, attempts and bounds: the loads of Router    *)
(* count every request, an answer of ChatStream with tools is of one       *)
(* attempt, a sync of RequestGuard keeps every rule that stands and its    *)
(* two limits agree, an account of AccountPool is lent once unless it was  *)
(* freed in use, and each of these modules and Registration keeps its      *)
(* types. The last section puts them together with SolverGuard as          *)
(* MCProviders does.                                                       *)
(***************************************************************************)
EXTENDS MCProviders, SolverGuardProofs,
        SequenceTheorems, FiniteSetTheorems, WellFoundedInduction, TLAPS

-----------------------------------------------------------------------------
(* The router                                                              *)

(* The inductive invariant: loads are counts, a request is a place and the *)
(* one that serves it, whoever that is.                                    *)

Shaped ==
    /\ load \in [Providers -> Nat]
    /\ DOMAIN request = Visitors
    /\ request = [r \in Visitors |-> [at |-> request[r].at, by |-> request[r].by]]

LoadInv == Shaped /\ LoadCovered

LEMMA UnderWayFinite ==
    ASSUME NEW p
    PROVE  IsFiniteSet(UnderWay(p)) /\ Cardinality(UnderWay(p)) \in Nat
BY RouterAssumption, FS_Subset, FS_CardinalityType DEF UnderWay

LEMMA LoadInitInv == ASSUME RouterInit PROVE LoadInv
<1>1. Shaped
  BY DEF RouterInit, Shaped, Idle
<1>2. ASSUME NEW p \in Providers PROVE UnderWay(p) = {}
  BY RouterAssumption DEF RouterInit, UnderWay, Idle
<1>3. LoadCovered
  BY <1>2, FS_EmptySet DEF RouterInit, LoadCovered
<1>4. QED
  BY <1>1, <1>3 DEF LoadInv

(* What one request that moves does to the sets of those under way.        *)

\* Two finite sets that differ in one element at most.
LEMMA CardOfMoved ==
    ASSUME NEW A, NEW B, NEW x, IsFiniteSet(A), B \subseteq A \cup {x}, A \ {x} \subseteq B
    PROVE  /\ Cardinality(A) \in Nat /\ Cardinality(B) \in Nat
           /\ Cardinality(B) <= Cardinality(A) + 1
           /\ x \notin B => Cardinality(B) <= Cardinality(A)
           /\ x \notin B /\ x \in A => Cardinality(B) = Cardinality(A) - 1
<1>1. IsFiniteSet(B) /\ Cardinality(A) \in Nat /\ Cardinality(B) \in Nat
  <2>1. IsFiniteSet(A \cup {x})
    BY FS_AddElement
  <2>2. IsFiniteSet(B)
    BY <2>1, FS_Subset
  <2>3. QED
    BY <2>2, FS_CardinalityType
<1>2. CASE x \notin B
  <2>1. B = A \ {x}
    BY <1>2
  <2>2. Cardinality(A \ {x}) = IF x \in A THEN Cardinality(A) - 1 ELSE Cardinality(A)
    BY FS_RemoveElement
  <2>3. QED
    BY <1>1, <1>2, <2>1, <2>2
<1>3. CASE x \in B
  <2>1. B = A \cup {x}
    BY <1>3
  <2>2. Cardinality(A \cup {x}) = IF x \in A THEN Cardinality(A) ELSE Cardinality(A) + 1
    BY FS_AddElement
  <2>3. QED
    BY <1>1, <1>3, <2>1, <2>2
<1>4. QED
  BY <1>2, <1>3

LEMMA OneMoves ==
    ASSUME NEW r \in Visitors, NEW p,
           \A q \in Visitors \ {r} : request'[q].by = request[q].by
    PROVE  /\ Cardinality(UnderWay(p)) \in Nat /\ Cardinality(UnderWay(p)') \in Nat
           /\ Cardinality(UnderWay(p)') <= Cardinality(UnderWay(p)) + 1
           /\ request'[r].by # p => Cardinality(UnderWay(p)') <= Cardinality(UnderWay(p))
           /\ request'[r].by # p /\ request[r].by = p =>
                  Cardinality(UnderWay(p)') = Cardinality(UnderWay(p)) - 1
<1> DEFINE A == UnderWay(p)
           B == UnderWay(p)'
<1>1. IsFiniteSet(A) /\ B \subseteq A \cup {r} /\ A \ {r} \subseteq B
  BY UnderWayFinite DEF UnderWay
<1>2. (r \in A <=> request[r].by = p) /\ (r \in B <=> request'[r].by = p)
  BY DEF UnderWay
<1> HIDE DEF A, B
<1>3. /\ Cardinality(A) \in Nat /\ Cardinality(B) \in Nat
      /\ Cardinality(B) <= Cardinality(A) + 1
      /\ r \notin B => Cardinality(B) <= Cardinality(A)
      /\ r \notin B /\ r \in A => Cardinality(B) = Cardinality(A) - 1
  BY <1>1, CardOfMoved
<1>4. QED
  BY <1>2, <1>3 DEF A, B

(* The steps: a request joins a load, leaves it with or without taking it  *)
(* back, or stays where it is.                                             *)

LEMMA JoinsProvider ==
    ASSUME LoadInv, NEW r \in Visitors, NEW p, NEW n \in {1, 2},
           request[r] = Idle, Give(r, p, n)
    PROVE  LoadInv'
<1>1. /\ load' = [load EXCEPT ![p] = @ + n]
      /\ request' = [request EXCEPT ![r] = [at |-> "routed", by |-> p]]
  BY DEF Give
<1>2. Shaped'
  <2>1. load' \in [Providers -> Nat]
    <3>1. load \in [Providers -> Nat] /\ n \in Nat
      BY DEF LoadInv, Shaped
    <3>2. \A o \in Providers : load[o] \in Nat /\ load[o] + n \in Nat
      BY <3>1
    <3>3. load' = [o \in Providers |-> IF o = p THEN load[o] + n ELSE load[o]]
      BY <1>1, <3>1
    <3>4. QED
      BY <3>2, <3>3
  <2>2. request' = [q \in Visitors |->
                      [at |-> IF q = r THEN "routed" ELSE request[q].at,
                       by |-> IF q = r THEN p ELSE request[q].by]]
    BY <1>1 DEF LoadInv, Shaped
  <2>3. QED
    BY <2>1, <2>2 DEF Shaped
<1>3. request'[r].by = p /\ \A q \in Visitors \ {r} : request'[q].by = request[q].by
  BY <1>1 DEF LoadInv, Shaped
<1>4. ASSUME NEW o \in Providers PROVE load'[o] >= Cardinality(UnderWay(o)')
  <2>1. /\ Cardinality(UnderWay(o)) \in Nat /\ Cardinality(UnderWay(o)') \in Nat
        /\ Cardinality(UnderWay(o)') <= Cardinality(UnderWay(o)) + 1
        /\ o # p => Cardinality(UnderWay(o)') <= Cardinality(UnderWay(o))
    BY <1>3, OneMoves
  <2>2. load[o] \in Nat /\ load[o] >= Cardinality(UnderWay(o))
    BY DEF LoadInv, Shaped, LoadCovered
  <2>3. load'[o] = IF o = p THEN load[o] + n ELSE load[o]
    BY <1>1 DEF LoadInv, Shaped
  <2>4. QED
    BY <2>1, <2>2, <2>3
<1>5. QED
  BY <1>2, <1>4 DEF LoadInv, LoadCovered

\* One of a provider leaves, and the provider's load goes down by one or not.
LEMMA LeavesProvider ==
    ASSUME LoadInv, NEW r \in Visitors, NEW p, request[r].by = p,
           request' = [request EXCEPT ![r] = Idle],
           load' \in {load, [load EXCEPT ![p] = IF @ = 0 THEN 0 ELSE @ - 1]}
    PROVE  LoadInv'
<1>1. Shaped'
  BY DEF LoadInv, Shaped, Idle
<1>2. request'[r].by = None /\ \A q \in Visitors \ {r} : request'[q].by = request[q].by
  BY DEF LoadInv, Shaped, Idle
<1>3. ASSUME NEW o \in Providers PROVE load'[o] >= Cardinality(UnderWay(o)')
  <2>1. o # None
    BY RouterAssumption
  <2>2. /\ Cardinality(UnderWay(o)) \in Nat /\ Cardinality(UnderWay(o)') \in Nat
        /\ Cardinality(UnderWay(o)') <= Cardinality(UnderWay(o))
        /\ o = p => Cardinality(UnderWay(o)') = Cardinality(UnderWay(o)) - 1
    BY <1>2, <2>1, OneMoves
  <2>3. load[o] \in Nat /\ load[o] >= Cardinality(UnderWay(o))
    BY DEF LoadInv, Shaped, LoadCovered
  <2>4. load'[o] \in {load[o], IF o = p THEN (IF load[o] = 0 THEN 0 ELSE load[o] - 1) ELSE load[o]}
    BY DEF LoadInv, Shaped
  <2>5. QED
    BY <2>2, <2>3, <2>4
<1>4. QED
  BY <1>1, <1>3 DEF LoadInv, LoadCovered

\* Nobody is given to a provider or leaves it.
LEMMA StaysThere ==
    ASSUME LoadInv, UNCHANGED load,
           request' = request
        \/ \E r \in Visitors : \E label : request' = [request EXCEPT ![r].at = label]
    PROVE  LoadInv'
<1>1. ASSUME NEW r \in Visitors, NEW label, request' = [request EXCEPT ![r].at = label]
      PROVE  Shaped' /\ \A q \in Visitors : request'[q].by = request[q].by
  <2>1. request' = [q \in Visitors |->
                      [at |-> IF q = r THEN label ELSE request[q].at, by |-> request[q].by]]
    BY <1>1 DEF LoadInv, Shaped
  <2>2. QED
    BY <2>1 DEF LoadInv, Shaped
<1>2. Shaped' /\ \A q \in Visitors : request'[q].by = request[q].by
  BY <1>1 DEF LoadInv, Shaped
<1>3. \A p \in Providers : UnderWay(p)' = UnderWay(p)
  BY <1>2 DEF UnderWay
<1>4. QED
  BY <1>2, <1>3 DEF LoadInv, LoadCovered

LEMMA LoadStep == ASSUME LoadInv, [RouterNext]_routerVars PROVE LoadInv'
<1>1. ASSUME NEW r \in Visitors, NEW p \in Providers, Direct(r, p) PROVE LoadInv'
  BY <1>1, JoinsProvider DEF Direct
<1>2. ASSUME NEW r \in Visitors, NEW p \in Providers, Fallback(r, p) PROVE LoadInv'
  BY <1>2, JoinsProvider DEF Fallback
<1>3. ASSUME NEW r \in Visitors, Drop(r) PROVE LoadInv'
  BY <1>3, LeavesProvider DEF Drop, router
<1>4. ASSUME NEW r \in Visitors, Enqueue(r) PROVE LoadInv'
  BY <1>4, LeavesProvider DEF Enqueue, RecordSuccess
<1>5. ASSUME NEW r \in Visitors, Completes(r) PROVE LoadInv'
  BY <1>5, LeavesProvider DEF Completes, RecordSuccess
<1>6. ASSUME NEW r \in Visitors, Fails(r) PROVE LoadInv'
  BY <1>6, LeavesProvider DEF Fails, RecordFailure
<1>7. ASSUME NEW r \in Visitors, StartsRunning(r) \/ RateLimited(r) PROVE LoadInv'
  BY <1>7, StaysThere DEF StartsRunning, RateLimited, router
<1>8. CASE TryRecoverAll
  BY <1>8, StaysThere DEF TryRecoverAll, router
<1>9. ASSUME NEW p \in Providers, Cool(p) PROVE LoadInv'
  BY <1>9, StaysThere DEF Cool
<1>10. CASE UNCHANGED routerVars
  BY <1>10, StaysThere DEF routerVars, router
<1>11. QED
  BY <1>1, <1>2, <1>3, <1>4, <1>5, <1>6, <1>7, <1>8, <1>9, <1>10 DEF RouterNext

\* The router never believes a provider less busy than it is, whatever requests
\* leak or take back a load, for every list of providers and every threshold
\* (api/adaptive_router.py:436).
THEOREM LoadsCover == RouterSpec => []LoadCovered
<1>1. RouterInit => LoadInv
  BY LoadInitInv
<1>2. LoadInv /\ [RouterNext]_routerVars => LoadInv'
  BY LoadStep
<1>3. LoadInv => LoadCovered
  BY DEF LoadInv
<1>4. QED
  BY <1>1, <1>2, <1>3, PTL DEF RouterSpec

-----------------------------------------------------------------------------
(* The answers of the chat                                                 *)

Whats == {"role", "message_start", "open_text", "open_thinking", "close", "text",
          "reasoning", "tool_call", "usage", "finish", "error", "end"}
PartNames == {"text", "reasoning", "tool_call"}

\* Frames c sends now, of the names in W.
Sent(c, W) == [what : W, block : {0, 1}, round : {chat[c].round}]

Partless(frames) == \A i \in DOMAIN frames : ~Part(frames[i])
Whole(frames) ==
    \A i, j \in DOMAIN frames : Part(frames[i]) /\ Part(frames[j]) => frames[i].round = frames[j].round

\* The inductive invariant: with tools nothing of the answer is sent before its
\* attempt is over.
AnswerOK(c) ==
    /\ chat[c].at = "idle" => Partless(out[c])
    /\ chat[c].tools =>
        /\ Whole(out[c])
        /\ chat[c].at \in {"reading", "failed"} => Partless(out[c])

ChatInv == ChatTypes /\ DOMAIN out = Chats /\ DOMAIN rows = Chats /\ \A c \in Chats : AnswerOK(c)

\* What is appended to an answer that is whole.
LEMMA Appended ==
    ASSUME NEW s \in Seq(Frames), NEW t \in Seq(Frames)
    PROVE  /\ s \o t \in Seq(Frames)
           /\ Whole(s) /\ Partless(t) => Whole(s \o t)
           /\ Partless(s) /\ Partless(t) => Partless(s \o t)
           /\ Partless(s) /\ Whole(t) => Whole(s \o t)
<1> DEFINE u == s \o t
<1>1. u \in Seq(Frames)
  BY ConcatProperties
<1>2. ASSUME NEW i \in DOMAIN u
      PROVE  (i \in DOMAIN s /\ u[i] = s[i]) \/ (i - Len(s) \in DOMAIN t /\ u[i] = t[i - Len(s)])
  <2>1. /\ Len(u) = Len(s) + Len(t) /\ Len(s) \in Nat /\ Len(t) \in Nat
        /\ DOMAIN s = 1 .. Len(s) /\ DOMAIN t = 1 .. Len(t) /\ DOMAIN u = 1 .. Len(u)
        /\ \A j \in 1 .. Len(s) + Len(t) : u[j] = IF j <= Len(s) THEN s[j] ELSE t[j - Len(s)]
    BY <1>1, ConcatProperties, LenProperties
  <2>2. QED
    BY <2>1
<1> HIDE DEF u
<1>3. Whole(s) /\ Partless(t) => Whole(u)
  BY <1>2, ZenonT(30) DEF Whole, Partless
<1>4. Partless(s) /\ Partless(t) => Partless(u)
  BY <1>2, ZenonT(30) DEF Partless
<1>5. Partless(s) /\ Whole(t) => Whole(u)
  BY <1>2, ZenonT(30) DEF Whole, Partless
<1>6. QED
  BY <1>1, <1>3, <1>4, <1>5 DEF u

\* What c sends is of its attempt, and an answer stays as whole as it was.
LEMMA Sends ==
    ASSUME ChatInv, NEW c \in Chats, NEW W \in SUBSET Whats, NEW frames \in Seq(Sent(c, W)),
           Send(c, frames)
    PROVE  /\ DOMAIN out' = Chats /\ \A d \in Chats : out'[d] \in Seq(Frames)
           /\ \A d \in Chats \ {c} : out'[d] = out[d]
           /\ Whole(out[c]) /\ (W \cap PartNames = {} \/ Partless(out[c])) => Whole(out'[c])
           /\ W \cap PartNames = {} /\ Partless(out[c]) => Partless(out'[c])
<1>1. chat[c].round \in 0..Rounds
  BY DEF ChatInv, ChatTypes
<1>2. Sent(c, W) \subseteq Frames /\ \A f \in Sent(c, W) : f.what \in W /\ f.round = chat[c].round
  BY <1>1 DEF Sent, Frames, Whats
<1>3. frames \in Seq(Frames) /\ \A i \in DOMAIN frames : frames[i] \in Sent(c, W)
  <2>1. \A i \in DOMAIN frames : frames[i] \in Sent(c, W)
    BY ElementOfSeq, LenProperties
  <2>2. frames \in [1 .. Len(frames) -> Frames] /\ Len(frames) \in Nat
    BY <1>2, <2>1, LenProperties
  <2>3. QED
    BY <2>1, <2>2, IsASeq, LenProperties
<1>4. Whole(frames) /\ (W \cap PartNames = {} => Partless(frames))
  BY <1>2, <1>3 DEF Whole, Partless, Part, PartNames
<1>5. out[c] \in Seq(Frames) /\ DOMAIN out = Chats /\ \A d \in Chats : out[d] \in Seq(Frames)
  BY DEF ChatInv, ChatTypes
<1>6. out' = [out EXCEPT ![c] = out[c] \o frames]
  BY DEF Send
<1>7. /\ out[c] \o frames \in Seq(Frames)
      /\ Whole(out[c]) /\ (W \cap PartNames = {} \/ Partless(out[c])) => Whole(out[c] \o frames)
      /\ W \cap PartNames = {} /\ Partless(out[c]) => Partless(out[c] \o frames)
  BY <1>3, <1>4, <1>5, Appended
<1>8. out'[c] = out[c] \o frames
  BY <1>5, <1>6
<1>9. QED
  BY <1>5, <1>6, <1>7, <1>8

Places == {"idle", "reading", "answered", "closing", "failed", "done", "left"}
Call == [at : Places, kind : Kinds, tools : BOOLEAN, round : 0..Rounds]

\* One call moves, and its own answer is all that changes.
LEMMA OneCallMoves ==
    ASSUME ChatInv, NEW c \in Chats,
           chat' \in [Chats -> Call], \A d \in Chats \ {c} : chat'[d] = chat[d],
           DOMAIN out' = Chats, \A d \in Chats : out'[d] \in Seq(Frames),
           \A d \in Chats \ {c} : out'[d] = out[d],
           DOMAIN rows' = Chats, \A d \in Chats : rows'[d] \in Seq(BOOLEAN),
           AnswerOK(c)'
    PROVE  ChatInv'
<1>1. ASSUME NEW d \in Chats \ {c} PROVE AnswerOK(d)'
  BY <1>1 DEF ChatInv, AnswerOK
<1>2. ChatTypes'
  BY DEF ChatTypes, Call, Places
<1>3. QED
  BY <1>1, <1>2 DEF ChatInv

LEMMA ChatInitInv == ChatInit => ChatInv
<1> SUFFICES ASSUME ChatInit PROVE ChatInv
  OBVIOUS
<1>1. NoCall \in Call /\ NoCall.tools = FALSE
  BY ChatAssumption DEF NoCall, Call, Places, Kinds
<1>2. << >> \in Seq(Frames) /\ << >> \in Seq(BOOLEAN)
  BY EmptySeq
<1>3. ChatTypes
  BY <1>1, <1>2 DEF ChatInit, ChatTypes, Call, Places
<1>4. \A c \in Chats : AnswerOK(c)
  BY <1>1, EmptySeq DEF ChatInit, AnswerOK, Partless
<1>5. QED
  BY <1>3, <1>4 DEF ChatInit, ChatInv

(* A call goes to another place after a frame or more that hold no part of *)
(* the answer.                                                             *)
LEMMA MovesOn ==
    ASSUME ChatInv, NEW c \in Chats, NEW place \in Places, Goes(c, place),
           NEW frames \in Seq(Sent(c, Whats \ PartNames)), Send(c, frames),
           place \in {"idle", "reading", "failed"} => At(c, place),
           rows' = rows \/ \E success \in BOOLEAN : Record(c, success)
    PROVE  ChatInv'
<1> DEFINE W == Whats \ PartNames
<1>1. W \in SUBSET Whats /\ W \cap PartNames = {}
  OBVIOUS
<1> HIDE DEF W
<1>2. /\ DOMAIN out' = Chats /\ \A d \in Chats : out'[d] \in Seq(Frames)
      /\ \A d \in Chats \ {c} : out'[d] = out[d]
      /\ Whole(out[c]) => Whole(out'[c])
      /\ Partless(out[c]) => Partless(out'[c])
  <2>1. frames \in Seq(Sent(c, W))
    BY DEF W
  <2>2. QED
    BY <1>1, <2>1, Sends
<1>3. chat \in [Chats -> Call]
  BY DEF ChatInv, ChatTypes, Call, Places
<1>4. /\ chat' \in [Chats -> Call] /\ \A d \in Chats \ {c} : chat'[d] = chat[d]
      /\ chat'[c].tools = chat[c].tools /\ chat'[c].at = place
  BY <1>3 DEF Goes, Call
<1>5. DOMAIN rows' = Chats /\ \A d \in Chats : rows'[d] \in Seq(BOOLEAN)
  <2>1. DOMAIN rows = Chats /\ \A d \in Chats : rows[d] \in Seq(BOOLEAN)
    BY DEF ChatInv, ChatTypes
  <2>2. CASE rows' = rows
    BY <2>1, <2>2
  <2>3. ASSUME NEW success \in BOOLEAN, Record(c, success)
        PROVE  DOMAIN rows' = Chats /\ \A d \in Chats : rows'[d] \in Seq(BOOLEAN)
    <3>1. Append(rows[c], success) \in Seq(BOOLEAN)
      BY <2>1, AppendProperties
    <3>2. QED
      BY <2>1, <2>3, <3>1 DEF Record
  <2>4. QED
    BY <2>2, <2>3
<1>6. AnswerOK(c)'
  <2>1. AnswerOK(c) /\ (place \in {"idle", "reading", "failed"} => chat[c].at = place)
    BY DEF ChatInv, At
  <2>2. QED
    BY <1>2, <1>4, <2>1 DEF AnswerOK
<1>7. QED
  BY <1>2, <1>4, <1>5, <1>6, OneCallMoves

\* The name and the block of a frame decide whether c may send it so.
LEMMA FrameSent ==
    ASSUME NEW c, NEW W, NEW what \in W, NEW block \in {0, 1}
    PROVE  Frame(c, what, block) \in Sent(c, W) /\ <<Frame(c, what, block)>> \in Seq(Sent(c, W))
<1>1. Frame(c, what, block) \in Sent(c, W)
  BY DEF Frame, Sent
<1>2. QED
  BY <1>1

LEMMA ClosesInv == ASSUME ChatInv, NEW c \in Chats, Closes(c) PROVE ChatInv'
<1> DEFINE W == Whats \ PartNames
<1>1. "usage" \in W /\ "close" \in W /\ "finish" \in W /\ Block(c) \in {0, 1}
  BY DEF Whats, PartNames, Block
<1>2. << >> \in Seq(Sent(c, W)) /\ <<Frame(c, "usage", 0)>> \in Seq(Sent(c, W))
  BY <1>1, FrameSent, EmptySeq
<1>3. <<Frame(c, "close", Block(c)), Frame(c, "finish", 0)>> \in Seq(Sent(c, W))
  <2>1. Frame(c, "close", Block(c)) \in Sent(c, W) /\ Frame(c, "finish", 0) \in Sent(c, W)
    BY <1>1, FrameSent
  <2>2. QED
    BY <2>1
<1>4. PICK frames \in Seq(Sent(c, W)) : Send(c, frames)
  BY <1>2, <1>3, Zenon DEF Closes
<1>5. QED
  BY <1>4, MovesOn DEF Closes, Places

LEMMA EndsInv == ASSUME ChatInv, NEW c \in Chats, CallSucceeds(c) \/ CallFails(c) PROVE ChatInv'
<1> DEFINE W == Whats \ PartNames
<1>1. "end" \in W /\ "error" \in W
  BY DEF Whats, PartNames
<1>2. Final(c) \in Seq(Sent(c, W)) /\ <<Frame(c, "error", 0)>> \in Seq(Sent(c, W))
  BY <1>1, FrameSent DEF Final
<1>3. <<Frame(c, "error", 0)>> \o Final(c) \in Seq(Sent(c, W))
  BY <1>2, ConcatProperties
<1>4. PICK frames \in Seq(Sent(c, W)) : Send(c, frames)
  BY <1>2, <1>3 DEF CallSucceeds, CallFails
<1>5. Goes(c, "done") /\ \E success \in BOOLEAN : Record(c, success)
  BY DEF CallSucceeds, CallFails
<1>6. QED
  BY <1>4, <1>5, MovesOn DEF Places

\* Nothing is sent.
LEMMA SilentInv ==
    ASSUME ChatInv, NEW c \in Chats, Breaks(c) \/ BreaksForGood(c) \/ Leaves(c)
    PROVE  ChatInv'
<1>1. chat \in [Chats -> Call] /\ Rounds \in Nat
  BY ChatAssumption DEF ChatInv, ChatTypes, Call, Places
<1>2. /\ chat' \in [Chats -> Call] /\ \A d \in Chats \ {c} : chat'[d] = chat[d]
      /\ chat'[c].tools = chat[c].tools
      /\ chat'[c].at # "idle" /\ (chat'[c].at \in {"reading", "failed"} => chat[c].at = "reading")
  BY <1>1 DEF Breaks, BreaksForGood, Leaves, At, Goes, Call, Places
<1>3. out' = out /\ rows' = rows
  BY DEF Breaks, BreaksForGood, Leaves
<1>4. AnswerOK(c)'
  BY <1>2, <1>3 DEF ChatInv, AnswerOK
<1>5. QED
  BY <1>2, <1>3, <1>4, OneCallMoves DEF ChatInv, ChatTypes

LEMMA AskInv ==
    ASSUME ChatInv, NEW c \in Chats, NEW kind \in Kinds, NEW tools \in BOOLEAN, Ask(c, kind, tools)
    PROVE  ChatInv'
<1> DEFINE W == Whats \ PartNames
<1>1. W \in SUBSET Whats /\ W \cap PartNames = {}
  OBVIOUS
<1>2. "role" \in W /\ "message_start" \in W /\ "open_text" \in W
  BY DEF Whats, PartNames
<1> HIDE DEF W
<1>3. /\ chat' = [chat EXCEPT ![c] = [at |-> "reading", kind |-> kind, tools |-> tools, round |-> 1]]
      /\ rows' = rows /\ chat[c].at = "idle"
  BY DEF Ask, At
<1>4. PICK frames \in Seq(Sent(c, W)) : Send(c, frames)
  <2>1. Frame(c, "message_start", 0) \in Sent(c, W) /\ Frame(c, "open_text", 0) \in Sent(c, W)
    BY <1>2, FrameSent
  <2>2. /\ <<Frame(c, "message_start", 0), Frame(c, "open_text", 0)>> \in Seq(Sent(c, W))
        /\ <<Frame(c, "role", 0)>> \in Seq(Sent(c, W)) /\ << >> \in Seq(Sent(c, W))
    BY <1>2, <2>1, FrameSent, EmptySeq
  <2>3. QED
    BY <2>2, Zenon DEF Ask
<1>5. /\ DOMAIN out' = Chats /\ \A d \in Chats : out'[d] \in Seq(Frames)
      /\ \A d \in Chats \ {c} : out'[d] = out[d]
      /\ Whole(out[c]) => Whole(out'[c])
      /\ Partless(out[c]) => Partless(out'[c])
  BY <1>1, <1>4, Sends
<1>6. chat \in [Chats -> Call]
  BY DEF ChatInv, ChatTypes, Call, Places
<1>7. [at |-> "reading", kind |-> kind, tools |-> tools, round |-> 1] \in Call
  BY ChatAssumption DEF Call, Places
<1>8. /\ chat' \in [Chats -> Call] /\ \A d \in Chats \ {c} : chat'[d] = chat[d]
      /\ chat'[c].tools = tools
  BY <1>3, <1>6, <1>7
<1>9. AnswerOK(c)'
  <2>1. Partless(out[c]) /\ Whole(out[c]) /\ chat'[c].at = "reading"
    BY <1>3, <1>6 DEF ChatInv, AnswerOK, Partless, Whole
  <2>2. QED
    BY <1>5, <2>1 DEF AnswerOK
<1>10. QED
  BY <1>3, <1>5, <1>8, <1>9, OneCallMoves DEF ChatInv, ChatTypes

\* What the parts of an answer are put together from.
LEMMA FramesSent ==
    ASSUME NEW c
    PROVE  /\ TextFrames(c) \in Seq(Sent(c, Whats))
           /\ ReasoningFrames(c) \in Seq(Sent(c, Whats))
           /\ Results(c) \subseteq Seq(Sent(c, Whats))
           /\ <<Frame(c, "finish", 0)>> \in Seq(Sent(c, Whats))
           /\ << >> \in Seq(Sent(c, Whats))
<1> DEFINE Out == Seq(Sent(c, Whats))
<1>1. /\ "text" \in Whats /\ "reasoning" \in Whats /\ "tool_call" \in Whats /\ "finish" \in Whats
      /\ "close" \in Whats /\ "open_thinking" \in Whats
  BY DEF Whats
<1>2. Block(c) \in {0, 1}
  BY DEF Block
<1>3. << >> \in Out /\ <<Frame(c, "finish", 0)>> \in Out /\ <<Frame(c, "tool_call", 0)>> \in Out
  BY <1>1, FrameSent, EmptySeq
<1>4. \A block \in {0, 1} : <<Frame(c, "text", block)>> \in Out /\ <<Frame(c, "reasoning", block)>> \in Out
  BY <1>1, FrameSent
<1>5. Opening(c) \in Out
  <2>1. Frame(c, "close", 0) \in Sent(c, Whats) /\ Frame(c, "open_thinking", 1) \in Sent(c, Whats)
    BY <1>1, FrameSent
  <2>2. <<Frame(c, "close", 0), Frame(c, "open_thinking", 1)>> \in Out
    BY <2>1
  <2>3. QED
    BY <1>3, <2>2 DEF Opening
<1>6. TextFrames(c) \in Out
  BY <1>2, <1>4 DEF TextFrames
<1> HIDE DEF Out
<1>7. \A s, t \in Out : s \o t \in Out
  BY ConcatProperties DEF Out
<1>8. ReasoningFrames(c) \in Out
  BY <1>2, <1>4, <1>5, <1>7 DEF ReasoningFrames
<1>9. ASSUME NEW reasoned \in BOOLEAN, NEW texts \in BOOLEAN, NEW calls \in BOOLEAN
      PROVE  WholeResult(c, reasoned, texts, calls) \in Out
  <2> DEFINE A == IF reasoned THEN ReasoningFrames(c) ELSE << >>
             B == IF texts
                  THEN <<Frame(c, "text", IF chat[c].kind = "anthropic" /\ reasoned THEN 1 ELSE 0)>>
                  ELSE << >>
             C == IF calls /\ ~(chat[c].kind = "anthropic") THEN <<Frame(c, "tool_call", 0)>> ELSE << >>
  <2>1. A \in Out /\ B \in Out /\ C \in Out
    BY <1>3, <1>4, <1>8
  <2>2. WholeResult(c, reasoned, texts, calls) = A \o B \o C
    BY DEF WholeResult
  <2> HIDE DEF A, B, C
  <2>3. QED
    BY <1>7, <2>1, <2>2
<1>10. Results(c) \subseteq Out
  <2>1. << >> \in Out
    BY <1>3
  <2>2. {WholeResult(c, reasoned, texts, calls) : reasoned, texts, calls \in BOOLEAN} \subseteq Out
    BY <1>9
  <2>3. QED
    BY <2>1, <2>2 DEF Results
<1>11. QED
  BY <1>3, <1>6, <1>8, <1>10 DEF Out

LEMMA DeltaInv == ASSUME ChatInv, NEW c \in Chats, Delta(c) PROVE ChatInv'
<1>1. PICK frames \in Seq(Sent(c, Whats)) : Send(c, frames)
  BY FramesSent DEF Delta
<1>2. /\ DOMAIN out' = Chats /\ \A d \in Chats : out'[d] \in Seq(Frames)
      /\ \A d \in Chats \ {c} : out'[d] = out[d]
  BY <1>1, Sends
<1>3. chat' = chat /\ rows' = rows /\ ~chat[c].tools /\ chat[c].at = "reading"
  BY DEF Delta, Streams, At
<1>4. AnswerOK(c)'
  BY <1>3 DEF AnswerOK
<1>5. QED
  BY <1>2, <1>3, <1>4, OneCallMoves DEF ChatInv, ChatTypes, Call, Places

LEMMA FinishesInv == ASSUME ChatInv, NEW c \in Chats, Finishes(c) PROVE ChatInv'
<1>1. PICK answered \in Results(c) :
        Send(c, answered \o (IF chat[c].kind = "openai" THEN <<Frame(c, "finish", 0)>> ELSE <<>>))
  BY DEF Finishes
<1>2. PICK frames \in Seq(Sent(c, Whats)) : Send(c, frames)
  <2> DEFINE last == IF chat[c].kind = "openai" THEN <<Frame(c, "finish", 0)>> ELSE << >>
  <2>1. answered \in Seq(Sent(c, Whats)) /\ last \in Seq(Sent(c, Whats))
    BY FramesSent
  <2>2. Send(c, answered \o last)
    BY <1>1
  <2> HIDE DEF last
  <2>3. answered \o last \in Seq(Sent(c, Whats))
    BY <2>1, ConcatProperties
  <2>4. QED
    BY <2>2, <2>3
<1>3. /\ DOMAIN out' = Chats /\ \A d \in Chats : out'[d] \in Seq(Frames)
      /\ \A d \in Chats \ {c} : out'[d] = out[d]
      /\ Whole(out[c]) /\ Partless(out[c]) => Whole(out'[c])
  BY <1>2, Sends
<1>4. chat \in [Chats -> Call]
  BY DEF ChatInv, ChatTypes, Call, Places
<1>5. /\ chat' \in [Chats -> Call] /\ \A d \in Chats \ {c} : chat'[d] = chat[d]
      /\ chat'[c].tools = chat[c].tools /\ chat'[c].at = "answered"
  BY <1>4 DEF Finishes, Goes, Call, Places
<1>6. AnswerOK(c)'
  BY <1>3, <1>5 DEF Finishes, At, ChatInv, AnswerOK
<1>7. QED
  BY <1>3, <1>5, <1>6, OneCallMoves DEF Finishes, ChatInv, ChatTypes

LEMMA ChatStep == ASSUME ChatInv, [ChatNext]_chatVars PROVE ChatInv'
<1>1. CASE UNCHANGED <<chat, out, rows>>
  BY <1>1 DEF ChatInv, ChatTypes, AnswerOK
<1>2. QED
  BY <1>1, AskInv, DeltaInv, SilentInv, FinishesInv, ClosesInv, EndsInv DEF ChatNext, chatVars

\* However many attempts break off before it, an answer in which tools may be
\* called is of one attempt (api/providers/tryingopen/__init__.py:232).
THEOREM ToolAnswersAreWhole == ChatSpec => []ToolAnswerWhole
<1>1. ChatSpec => []ChatInv
  BY ChatInitInv, ChatStep, PTL DEF ChatSpec
<1>2. ChatInv => ToolAnswerWhole
  BY DEF ChatInv, AnswerOK, ToolAnswerWhole, FromOneAttempt, Whole
<1>3. QED
  BY <1>1, <1>2, PTL

\* The chunks sent and the rows of the log are those of answers
\* (api/routes/chat.py).
THEOREM ChatTypeCorrect == ChatSpec => []ChatTypes
<1>1. ChatInv => ChatTypes
  BY DEF ChatInv
<1>2. QED
  BY <1>1, ChatInitInv, ChatStep, PTL DEF ChatSpec

-----------------------------------------------------------------------------
(* The rules about addresses and their copy                                *)

RuleKind == {"block"} \cup UNION {KindsOf[a] : a \in Addresses}
Rules == [ip : Addresses, kind : RuleKind, stamp : Nat]
Sync == [at : {"idle", "read", "swap", "clean"}, cursor : Nat \cup {NoRule},
         found : SUBSET Rules, since : SUBSET Rules]

\* No rule is written twice: what is still to be written was never in the table.
RulesTyped ==
    /\ stamps \in Nat
    /\ table \in [Addresses -> Rules \cup {NoRule}]
    /\ sync \in [Syncs -> Sync]
    /\ \A a \in Addresses : table[a] # NoRule => table[a].ip = a /\ table[a].stamp <= stamps
    /\ writing \subseteq Rules
    /\ asked \subseteq Callers
    /\ \A q \in writing : q.stamp <= stamps /\ q \notin Rows

\* The rules a sync has to bring: they stood when it began and still do.
Standing(s) == {r \in sync[s].since \cap Rows : ~Lapsed(r)}

(* The inductive invariant: a rule that stood when a sync began and was    *)
(* removed never comes back, so of the address of one that still stands    *)
(* the sync finds no other; and one that stands is found or older than the *)
(* cursor.                                                                 *)
SyncOK(s) ==
    /\ \A r \in sync[s].since : r.stamp <= stamps /\ r \notin writing
    /\ \A r \in sync[s].since \cap Rows : \A q \in sync[s].found : q.ip = r.ip => q = r
    /\ sync[s].at = "read" => \A r \in Standing(s) :
        r \in sync[s].found \/ sync[s].cursor = NoRule \/ r.stamp < sync[s].cursor
    /\ sync[s].at = "swap" => Standing(s) \subseteq sync[s].found

RulesInv == RulesTyped /\ \A s \in Syncs : SyncOK(s)

LEMMA NoSyncIs ==
    NoSync \in Sync /\ NoSync.at = "idle" /\ NoSync.found = {} /\ NoSync.since = {}
BY DEF NoSync, Sync

LEMMA RulesInitInv == RulesInit => RulesInv
<1> SUFFICES ASSUME RulesInit PROVE RulesInv
  OBVIOUS
<1>1. RulesTyped
  BY NoSyncIs DEF RulesInit, RulesTyped
<1>2. ASSUME NEW s \in Syncs PROVE SyncOK(s)
  <2>1. sync[s] = NoSync
    BY DEF RulesInit
  <2>2. QED
    BY <2>1, NoSyncIs DEF SyncOK
<1>3. QED
  BY <1>1, <1>2 DEF RulesInv

LEMMA RowsAre == ASSUME RulesTyped PROVE \A r \in Rows : r \in Rules /\ r.stamp <= stamps /\ table[r.ip] = r
BY DEF RulesTyped, Rows

\* Rules are removed, lapse, and are written or stamped anew under a sync.
LEMMA RulesTurn ==
    ASSUME RulesInv, RulesTyped', NEW s \in Syncs, sync'[s] = sync[s],
           stamps' >= stamps, lapsed \subseteq lapsed',
           Rows' \subseteq Rows \cup writing,
           \A q \in writing' : q \in writing \/ q.stamp > stamps
    PROVE  SyncOK(s)'
<1>1. /\ stamps \in Nat /\ stamps' \in Nat /\ sync[s] \in Sync /\ SyncOK(s)
      /\ sync[s].since \subseteq Rules
  BY DEF RulesInv, RulesTyped, Sync
<1>2. \A r \in sync[s].since : r.stamp \in Nat /\ r.stamp <= stamps /\ r \notin writing
  BY <1>1 DEF SyncOK, Rules
<1>3. sync[s].since \cap Rows' \subseteq sync[s].since \cap Rows
  BY <1>2
<1>4. Standing(s)' \subseteq Standing(s)
  BY <1>3 DEF Standing, Lapsed
<1>5. ASSUME NEW r \in sync[s].since PROVE r.stamp <= stamps' /\ r \notin writing'
  BY <1>1, <1>2
<1>6. QED
  BY <1>1, <1>3, <1>4, <1>5 DEF SyncOK

LEMMA SameSyncs ==
    ASSUME RulesInv, RulesTyped', UNCHANGED sync,
           stamps' >= stamps, lapsed \subseteq lapsed',
           Rows' \subseteq Rows \cup writing,
           \A q \in writing' : q \in writing \/ q.stamp > stamps
    PROVE  RulesInv'
BY RulesTurn DEF RulesInv

\* A rule gets the next stamp.
LEMMA StampInv ==
    ASSUME RulesInv, NEW a \in Addresses, NEW kind \in KindsOf[a] \cup {"block"}, Stamp(a, kind),
           asked' \subseteq asked
    PROVE  RulesInv'
<1> DEFINE rule == [ip |-> a, kind |-> kind, stamp |-> stamps + 1]
<1>1. stamps \in Nat /\ stamps' = stamps + 1 /\ UNCHANGED <<table, sync, lapsed>> /\ UNCHANGED Rows
  BY DEF RulesInv, RulesTyped, Stamp, Rows
<1>2. rule \in Rules /\ rule.stamp = stamps + 1
  <2>1. KindsOf[a] \in {KindsOf[b] : b \in Addresses}
    OBVIOUS
  <2>2. kind \in KindsOf[a] => kind \in RuleKind
    BY <2>1, Zenon DEF RuleKind
  <2>3. "block" \in RuleKind
    BY DEF RuleKind
  <2>4. kind \in RuleKind
    BY <2>2, <2>3
  <2>5. QED
    BY <1>1, <2>4 DEF Rules
<1>3. writing' = writing \cup {rule}
  BY DEF Stamp
<1> HIDE DEF rule
<1>4. \A r \in Rows : r.stamp <= stamps /\ r.stamp \in Nat
  BY RowsAre DEF RulesInv, Rules
<1>5. RulesTyped'
  <2>1. \A b \in Addresses : table[b] # NoRule => table[b].stamp \in Nat
    BY DEF RulesInv, RulesTyped, Rules
  <2>2. \A b \in Addresses : table'[b] # NoRule => table'[b].ip = b /\ table'[b].stamp <= stamps'
    BY <1>1, <2>1 DEF RulesInv, RulesTyped
  <2>3. \A q \in writing : q.stamp \in Nat
    BY DEF RulesInv, RulesTyped, Rules
  <2>4. \A q \in writing' : q.stamp <= stamps' /\ q \notin Rows'
    BY <1>1, <1>2, <1>3, <1>4, <2>3 DEF RulesInv, RulesTyped
  <2>5. QED
    BY <1>1, <1>2, <1>3, <2>2, <2>4 DEF RulesInv, RulesTyped
<1>6. \A q \in writing' : q \in writing \/ q.stamp > stamps
  BY <1>1, <1>2, <1>3
<1>7. QED
  BY <1>1, <1>5, <1>6, SameSyncs

\* A rule that has its stamp is written, or is not.
LEMMA WriteInv ==
    ASSUME RulesInv, NEW rule \in writing, Write(rule) \/ WriteFails(rule)
    PROVE  RulesInv'
<1>1. /\ writing' = writing \ {rule} /\ UNCHANGED <<stamps, asked, sync, lapsed>>
      /\ table' = table \/ table' = [table EXCEPT ![rule.ip] = rule]
  BY DEF Write, WriteFails
<1>2. /\ rule \in Rules /\ rule.ip \in Addresses /\ rule.stamp <= stamps /\ stamps \in Nat
      /\ table \in [Addresses -> Rules \cup {NoRule}]
      /\ \A b \in Addresses : table[b] # NoRule => table[b].ip = b /\ table[b].stamp <= stamps
  BY DEF RulesInv, RulesTyped, Rules
<1>3. Rows' \subseteq Rows \cup {rule}
  BY <1>1, <1>2 DEF Rows
<1>4. RulesTyped'
  <2>1. table' \in [Addresses -> Rules \cup {NoRule}]
    BY <1>1, <1>2
  <2>2. \A b \in Addresses : table'[b] # NoRule => table'[b].ip = b /\ table'[b].stamp <= stamps
    BY <1>1, <1>2
  <2>3. \A q \in writing' : q.stamp <= stamps /\ q \notin Rows'
    BY <1>1, <1>3 DEF RulesInv, RulesTyped
  <2>4. QED
    BY <1>1, <2>1, <2>2, <2>3 DEF RulesInv, RulesTyped
<1>5. Rows' \subseteq Rows \cup writing /\ \A q \in writing' : q \in writing
  BY <1>1, <1>3
<1>6. QED
  BY <1>1, <1>2, <1>4, <1>5, SameSyncs

\* Rules are removed only.
LEMMA Removes ==
    ASSUME RulesInv, stamps' = stamps \/ stamps' = stamps + 1, lapsed \subseteq lapsed',
           UNCHANGED writing, asked' \subseteq Callers,
           table' \in [Addresses -> Rules \cup {NoRule}],
           \A a \in Addresses : table'[a] \in {table[a], NoRule}
    PROVE  /\ Rows' \subseteq Rows
           /\ sync' \in [Syncs -> Sync] => RulesTyped'
           /\ UNCHANGED sync => RulesInv'
<1>1. stamps' \in Nat /\ stamps' >= stamps /\ stamps \in Nat
  BY DEF RulesInv, RulesTyped
<1>2. \A a \in Addresses : table'[a] # NoRule => table'[a].ip = a /\ table'[a].stamp <= stamps'
  <2>1. \A a \in Addresses : table[a] # NoRule => table[a].ip = a /\ table[a].stamp <= stamps /\ table[a].stamp \in Nat
    BY DEF RulesInv, RulesTyped, Rules
  <2>2. QED
    BY <1>1, <2>1 DEF RulesInv, RulesTyped
<1>3. Rows' \subseteq Rows
  BY DEF Rows
<1>4. \A q \in writing' : q.stamp <= stamps' /\ q \notin Rows'
  <2>1. \A q \in writing : q.stamp \in Nat /\ q.stamp <= stamps /\ q \notin Rows
    BY DEF RulesInv, RulesTyped, Rules
  <2>2. QED
    BY <1>1, <1>3, <2>1
<1>5. writing' \subseteq Rules
  BY DEF RulesInv, RulesTyped
<1>6. sync' \in [Syncs -> Sync] => RulesTyped'
  BY <1>1, <1>2, <1>4, <1>5 DEF RulesTyped
<1>7. UNCHANGED sync => sync' \in [Syncs -> Sync]
  BY DEF RulesInv, RulesTyped
<1>8. QED
  BY <1>1, <1>3, <1>6, <1>7, SameSyncs

LEMMA TableInv ==
    ASSUME RulesInv, NEW a \in Addresses,
           BlockIp(a) \/ AutoBlockIp(a) \/ UnblockIp(a) \/ RemoveExpired(a)
    PROVE  RulesInv'
<1>1. ASSUME BlockIp(a) PROVE RulesInv'
  <2>1. PICK kind \in KindsOf[a] : Stamp(a, kind)
    BY <1>1 DEF BlockIp
  <2>2. QED
    BY <1>1, <2>1, StampInv DEF BlockIp
<1>2. ASSUME AutoBlockIp(a) PROVE RulesInv'
  BY <1>2, StampInv DEF AutoBlockIp
<1>3. ASSUME UnblockIp(a) \/ RemoveExpired(a) PROVE RulesInv'
  <2>1. /\ table' = [table EXCEPT ![a] = NoRule] /\ UNCHANGED <<lapsed, sync, writing, asked>>
        /\ stamps' = stamps \/ stamps' = stamps + 1
    BY <1>3 DEF UnblockIp, RemoveExpired
  <2>2. /\ table' \in [Addresses -> Rules \cup {NoRule}]
        /\ \A b \in Addresses : table'[b] \in {table[b], NoRule}
        /\ asked' \subseteq Callers
    BY <2>1 DEF RulesInv, RulesTyped
  <2>3. QED
    BY <2>1, <2>2, Removes
<1>4. QED
  BY <1>1, <1>2, <1>3

\* A violation asks for a rule and writes none.
LEMMA ViolateAsks ==
    ASSUME RulesTyped, NEW a \in Callers, NEW ages, Violate(a, ages)
    PROVE  UNCHANGED <<table, stamps, writing, doomed>> /\ asked' \subseteq Callers
BY DEF Violate, RulesTyped

\* A sync that has just begun has all its rules before it.
LEMMA LookUpInv ==
    ASSUME RulesInv, NEW a \in Callers, CheckRateLimit(a)
    PROVE  RulesInv'
<1>1. LookUp(a) /\ lapsed' = lapsed
  BY DEF CheckRateLimit
<1>2. /\ UNCHANGED <<table, stamps, writing>> /\ asked' \subseteq Callers
  <2>1. UNCHANGED ruleVars \/ \E ages : Violate(a, ages)
    BY DEF CheckRateLimit
  <2>2. QED
    BY <2>1, ViolateAsks DEF RulesInv, RulesTyped, ruleVars
<1> DEFINE new == [NoSync EXCEPT !.at = "read", !.since = Rows]
<1>3. \A r \in Rows : r \in Rules /\ r.stamp <= stamps /\ r \notin writing
  BY RowsAre DEF RulesInv, RulesTyped
<1>4. new \in Sync /\ new.at = "read" /\ new.since = Rows /\ new.found = {} /\ new.cursor = NoRule
  BY <1>3 DEF NoSync, Sync
<1>5. sync \in [Syncs -> Sync]
  BY DEF RulesInv, RulesTyped
<1>6. \A s \in Syncs : sync'[s] \in {sync[s], new}
  BY <1>1, <1>5 DEF LookUp
<1>7. sync' \in [Syncs -> Sync]
  <2>1. DOMAIN sync' = Syncs /\ sync' = [s \in Syncs |-> sync'[s]]
    BY <1>1, <1>5 DEF LookUp
  <2> HIDE DEF new
  <2>2. QED
    BY <1>4, <1>5, <1>6, <2>1
<1> HIDE DEF new
<1>8. UNCHANGED Rows
  BY <1>2 DEF Rows
<1>9. RulesTyped'
  BY <1>2, <1>7, <1>8 DEF RulesInv, RulesTyped
<1>10. ASSUME NEW s \in Syncs PROVE SyncOK(s)'
  <2>1. CASE sync'[s] = sync[s]
    <3>1. stamps' >= stamps
      BY <1>2 DEF RulesInv, RulesTyped
    <3>2. QED
      BY <1>1, <1>2, <1>8, <1>9, <2>1, <3>1, RulesTurn
  <2>2. CASE sync'[s] = new
    <3>1. \A r \in sync'[s].since : r.stamp <= stamps' /\ r \notin writing'
      BY <1>2, <1>3, <1>4, <2>2
    <3>2. QED
      BY <1>4, <2>2, <3>1 DEF SyncOK
  <2>3. QED
    BY <1>6, <2>1, <2>2
<1>11. QED
  BY <1>9, <1>10 DEF RulesInv

\* What is written and stamped stays, and so do the syncs.
LEMMA SameRules ==
    ASSUME RulesInv, UNCHANGED <<table, stamps, writing, sync>>, lapsed \subseteq lapsed',
           asked' \subseteq Callers
    PROVE  RulesInv'
BY Removes DEF RulesInv, RulesTyped

LEMMA CallerInv ==
    ASSUME RulesInv, NEW a \in Callers, TaskFails(a)
    PROVE  RulesInv'
<1>1. Violate(a, recent[a]) /\ sync' = sync /\ lapsed' = lapsed
  BY DEF TaskFails
<1>2. UNCHANGED <<table, stamps, writing>> /\ asked' \subseteq Callers
  BY <1>1, ViolateAsks DEF RulesInv
<1>3. QED
  BY <1>1, <1>2, SameRules

\* A sync is over.
LEMMA SyncEnds ==
    ASSUME RulesInv, NEW s \in Syncs, Swap(s) \/ CleanupExpired(s) \/ SyncFails(s)
    PROVE  RulesInv'
<1>1. /\ sync \in [Syncs -> Sync] /\ table \in [Addresses -> Rules \cup {NoRule}] /\ stamps \in Nat
      /\ asked \subseteq Callers /\ SyncOK(s)
  BY DEF RulesInv, RulesTyped
<1>2. /\ sync' \in [Syncs -> Sync] /\ \A t \in Syncs \ {s} : sync'[t] = sync[t]
      /\ sync'[s].at \in {"idle", "clean"} /\ sync'[s].found \subseteq sync[s].found
      /\ sync'[s].since \subseteq sync[s].since
  <2>1. CASE Swap(s)
    <3>1. sync' = [sync EXCEPT ![s].at = "clean"]
      BY <2>1 DEF Swap
    <3>2. QED
      BY <1>1, <3>1 DEF Sync
  <2>2. CASE sync' = [sync EXCEPT ![s] = NoSync]
    BY <1>1, <2>2, NoSyncIs
  <2>3. QED
    BY <2>1, <2>2 DEF CleanupExpired, SyncFails
<1>3. /\ UNCHANGED <<stamps, lapsed, writing, asked>>
      /\ table' \in [Addresses -> Rules \cup {NoRule}]
      /\ \A a \in Addresses : table'[a] \in {table[a], NoRule}
  BY <1>1 DEF Swap, CleanupExpired, SyncFails, ruleVars
<1>4. RulesTyped' /\ Rows' \subseteq Rows
  BY <1>1, <1>2, <1>3, Removes
<1>5. ASSUME NEW t \in Syncs \ {s} PROVE SyncOK(t)'
  BY <1>1, <1>2, <1>3, <1>4, RulesTurn
<1>6. SyncOK(s)'
  BY <1>1, <1>2, <1>3, <1>4 DEF SyncOK
<1>7. QED
  BY <1>4, <1>5, <1>6 DEF RulesInv

LEMMA Smallest == ASSUME NEW T \in SUBSET Nat, T # {} PROVE \E m \in T : \A n \in T : m <= n
<1> DEFINE R == {ss \in Nat \X Nat : ss[1] < ss[2]}
<1>1. IsWellFoundedOn(R, Nat)
  BY NatLessThanWellFounded, Zenon DEF OpToRel
<1> HIDE DEF R
<1>2. PICK m \in T : \A n \in T : <<n, m>> \notin R
  BY <1>1, WFMin, Zenon
<1>3. ASSUME NEW n \in T PROVE m <= n
  <2>1. m \in Nat /\ n \in Nat /\ <<n, m>> \notin R
    BY <1>2
  <2>2. ~(n < m)
    BY <2>1 DEF R
  <2>3. QED
    BY <2>1, <2>2
<1>4. QED
  BY <1>3

\* Of some rules one is the newest.
LEMMA ANewest ==
    ASSUME NEW n \in Nat, NEW T, T # {}, \A r \in T : r.stamp \in Nat /\ r.stamp <= n
    PROVE  \E r \in T : \A q \in T : q.stamp <= r.stamp
<1> DEFINE D == {n - r.stamp : r \in T}
<1>1. D \in SUBSET Nat /\ D # {}
  OBVIOUS
<1>2. PICK m \in D : \A k \in D : m <= k
  <2> HIDE DEF D
  <2>1. QED
    BY <1>1, Smallest
<1>3. PICK r \in T : m = n - r.stamp
  BY <1>2
<1>4. ASSUME NEW q \in T PROVE q.stamp <= r.stamp
  <2>1. n - q.stamp \in D
    OBVIOUS
  <2>2. n - r.stamp <= n - q.stamp
    BY <1>2, <1>3, <2>1
  <2>3. QED
    BY <2>2
<1>5. QED
  BY <1>4

(* A page that leaves a rule out is full, and all of it is newer.          *)
LEMMA PageSkips ==
    ASSUME NEW C, IsFiniteSet(C), NEW top \in Nat, \A r \in C : r.stamp \in Nat /\ r.stamp <= top,
           NEW n \in Nat \ {0}, NEW r \in C, r \notin Newest(C, n)
    PROVE  /\ \A p \in Newest(C, n) : r.stamp < p.stamp
           /\ Cardinality(Newest(C, n)) \in Nat /\ Cardinality(Newest(C, n)) >= n
<1> DEFINE Newer(q) == {p \in C : p.stamp > q.stamp}
           page == Newest(C, n)
           rest == C \ page
<1>1. \A q : IsFiniteSet(Newer(q)) /\ Cardinality(Newer(q)) \in Nat
  BY FS_Subset, FS_CardinalityType
<1>2. \A q \in C : q \in page <=> Cardinality(Newer(q)) < n
  BY DEF Newest
<1>3. page \subseteq C
  BY DEF Newest
<1> HIDE DEF page
<1>4. ASSUME NEW p \in page PROVE r.stamp < p.stamp
  <2> SUFFICES ASSUME p.stamp <= r.stamp PROVE FALSE
    BY <1>3
  <2>1. Newer(r) \subseteq Newer(p)
    BY <1>3
  <2>2. Cardinality(Newer(p)) < n /\ ~(Cardinality(Newer(r)) < n)
    BY <1>2, <1>3 DEF page
  <2> HIDE DEF Newer
  <2>3. Cardinality(Newer(r)) <= Cardinality(Newer(p))
    BY <1>1, <2>1, FS_Subset
  <2>4. QED
    BY <1>1, <2>2, <2>3
<1>5. IsFiniteSet(page) /\ Cardinality(page) \in Nat
  BY <1>3, FS_Subset, FS_CardinalityType
<1>6. PICK q \in rest : \A p \in rest : p.stamp <= q.stamp
  <2>1. rest # {} /\ \A p \in rest : p.stamp \in Nat /\ p.stamp <= top
    BY DEF page
  <2> HIDE DEF rest
  <2>2. QED
    BY <2>1, ANewest
<1>7. Newer(q) \subseteq page
  BY <1>6
<1>8. Cardinality(Newer(q)) <= Cardinality(page)
  BY <1>5, <1>7, FS_Subset
<1>9. ~(Cardinality(Newer(q)) < n)
  BY <1>2, <1>6
<1> HIDE DEF Newer
<1>10. Cardinality(page) >= n
  BY <1>1, <1>5, <1>8, <1>9
<1>11. QED
  BY <1>4, <1>5, <1>10 DEF page

LEMMA RowsFinite ==
    ASSUME RulesTyped
    PROVE  IsFiniteSet(Rows) /\ Rows \subseteq Rules /\ \A r \in Rows : r.stamp <= stamps
<1> DEFINE ruled == {b \in Addresses : table[b] # NoRule}
           f == [b \in ruled |-> table[b]]
<1>1. IsFiniteSet(ruled)
  BY RulesAssumption, FS_Subset
<1>2. f \in Surjection(ruled, Rows)
  BY DEF Surjection, Rows
<1> HIDE DEF ruled, f
<1>3. IsFiniteSet(Rows)
  BY <1>1, <1>2, FS_Surjection
<1>4. QED
  BY <1>3, RowsAre

LEMMA FetchInv == ASSUME RulesInv, NEW s \in Syncs, Fetch(s) PROVE RulesInv'
<1> DEFINE c == sync[s]
           C == {r \in Rows : ~Lapsed(r) /\ (c.cursor # NoRule => r.stamp < c.cursor)}
           page == Newest(C, PageSize)
           oldest == Min({r.stamp : r \in page})
<1>1. /\ sync \in [Syncs -> Sync] /\ stamps \in Nat /\ c \in Sync /\ c.at = "read" /\ SyncOK(s)
      /\ PageSize \in Nat \ {0} /\ NoRule \notin Nat
  <2>1. c.at = "read"
    BY DEF Fetch
  <2>2. QED
    BY <2>1, RulesAssumption DEF RulesInv, RulesTyped
<1>2. IsFiniteSet(Rows) /\ Rows \subseteq Rules /\ \A r \in Rows : r.stamp <= stamps
  BY RowsFinite DEF RulesInv
<1>3. IsFiniteSet(C) /\ \A r \in C : r.stamp \in Nat /\ r.stamp <= stamps
  BY <1>2, FS_Subset DEF Rules
<1>4. page \subseteq C /\ C \subseteq Rows
  BY DEF Newest
<1>5. sync' = [sync EXCEPT ![s] =
                  [at |-> IF Cardinality(page) < PageSize THEN "swap" ELSE "read",
                   cursor |-> IF page = {} THEN c.cursor ELSE oldest,
                   found |-> c.found \cup page, since |-> c.since]]
  BY DEF Fetch, Page
<1>6. UNCHANGED <<table, stamps, writing, asked, lapsed>>
  BY DEF Fetch, ruleVars
<1> HIDE DEF C, page
<1>7. page # {} => \E p \in page : oldest = p.stamp
  <2> SUFFICES ASSUME page # {} PROVE \E p \in page : oldest = p.stamp
    OBVIOUS
  <2> DEFINE T == {r.stamp : r \in page}
  <2>1. T \in SUBSET Nat /\ T # {}
    BY <1>3, <1>4
  <2> HIDE DEF T
  <2>2. \E m \in T : \A k \in T : m <= k
    BY <2>1, Smallest
  <2>3. Min(T) \in T
    BY <2>2 DEF Min
  <2>4. QED
    BY <2>3 DEF T
<1> HIDE DEF oldest
<1>8. page # {} => oldest \in Nat
  BY <1>3, <1>4, <1>7
<1>9. /\ sync' \in [Syncs -> Sync] /\ \A t \in Syncs \ {s} : sync'[t] = sync[t]
      /\ sync'[s].found = c.found \cup page /\ sync'[s].since = c.since
      /\ sync'[s].cursor = IF page = {} THEN c.cursor ELSE oldest
      /\ sync'[s].at = IF Cardinality(page) < PageSize THEN "swap" ELSE "read"
  <2>1. c.found \cup page \in SUBSET Rules
    BY <1>1, <1>2, <1>4 DEF Sync
  <2>2. (IF page = {} THEN c.cursor ELSE oldest) \in Nat \cup {NoRule}
    BY <1>1, <1>8 DEF Sync
  <2>3. (IF Cardinality(page) < PageSize THEN "swap" ELSE "read") \in {"swap", "read"}
    OBVIOUS
  <2>4. QED
    BY <1>1, <1>5, <2>1, <2>2, <2>3 DEF Sync
<1>10. RulesTyped'
  BY <1>6, <1>9 DEF RulesInv, RulesTyped, Rows
<1>11. UNCHANGED Rows /\ stamps' >= stamps
  BY <1>1, <1>6 DEF Rows
<1>12. ASSUME NEW t \in Syncs \ {s} PROVE SyncOK(t)'
  BY <1>1, <1>6, <1>9, <1>10, <1>11, RulesTurn
<1>13. SyncOK(s)'
  <2>1. Standing(s)' = Standing(s)
    BY <1>6, <1>9, <1>11 DEF Standing, Lapsed
  <2>2. ASSUME NEW r \in c.since \cap Rows, NEW q \in sync'[s].found, q.ip = r.ip
        PROVE  q = r
    <3>1. CASE q \in c.found
      BY <1>1, <2>2, <3>1 DEF SyncOK
    <3>2. CASE q \in page
      <4>1. q \in Rows
        BY <1>4, <3>2
      <4>2. QED
        BY <2>2, <4>1, RowsAre DEF RulesInv
    <3>3. QED
      BY <1>9, <2>2, <3>1, <3>2
  <2>3. ASSUME NEW r \in Standing(s), r \notin sync'[s].found
        PROVE  /\ sync'[s].at = "read"
               /\ sync'[s].cursor = NoRule \/ r.stamp < sync'[s].cursor
    <3>1. r \in Rows /\ ~Lapsed(r) /\ r \notin c.found /\ r \notin page
      BY <1>9, <2>3 DEF Standing
    <3>2. c.cursor = NoRule \/ r.stamp < c.cursor
      BY <1>1, <2>3, <3>1 DEF SyncOK
    <3>3. r \in C
      BY <3>1, <3>2 DEF C
    <3>4. /\ \A p \in page : r.stamp < p.stamp
          /\ Cardinality(page) \in Nat /\ Cardinality(page) >= PageSize
      BY <1>1, <1>3, <3>1, <3>3, PageSkips DEF page
    <3>5. sync'[s].at = "read"
      BY <1>1, <1>9, <3>4
    <3>6. CASE page = {}
      BY <1>9, <3>2, <3>5, <3>6
    <3>7. CASE page # {}
      BY <1>7, <1>9, <3>4, <3>5, <3>7
    <3>8. QED
      BY <3>5, <3>6, <3>7
  <2>4. \A r \in sync'[s].since : r.stamp <= stamps' /\ r \notin writing'
    BY <1>1, <1>6, <1>9 DEF SyncOK
  <2>5. QED
    BY <1>6, <1>9, <1>11, <2>1, <2>2, <2>3, <2>4 DEF SyncOK
<1>14. QED
  BY <1>10, <1>12, <1>13 DEF RulesInv

LEMMA RulesStep == ASSUME RulesInv, [RulesNext]_rulesVars PROVE RulesInv'
<1>1. asked \subseteq Callers
  BY DEF RulesInv, RulesTyped
<1>2. CASE UNCHANGED <<ruleVars, lapsed, sync>>
  BY <1>1, <1>2, SameRules DEF ruleVars
<1>3. CASE Lapse
  <2>1. UNCHANGED <<table, stamps, writing, asked, sync>> /\ lapsed \subseteq lapsed'
    BY <1>3 DEF Lapse, ruleVars
  <2>2. QED
    BY <1>1, <2>1, SameRules
<1>4. ASSUME NEW a \in Addresses, Status(a) PROVE RulesInv'
  BY <1>1, <1>4, SameRules DEF Status
<1>5. ASSUME NEW p, ApplyIpRule(p) PROVE UNCHANGED <<ruleVars, lapsed, sync>>
  BY <1>5 DEF ApplyIpRule
<1>6. ASSUME Passes \/ Gc PROVE UNCHANGED <<ruleVars, lapsed, sync>>
  BY <1>6 DEF Passes, Gc
<1>7. CASE UNCHANGED rulesVars
  BY <1>2, <1>7 DEF rulesVars
<1>8. QED
  BY <1>2, <1>3, <1>4, <1>5, <1>6, <1>7, TableInv, WriteInv, LookUpInv, CallerInv, SyncEnds, FetchInv
     DEF RulesNext

(* Whatever is written, removed and lapses between its pages, a sync has   *)
(* the rules that stood all the time in memory when it is over, and each   *)
(* for its address (api/request_guard.py:370).                             *)
LEMMA SwapBrings ==
    ASSUME RulesInv, [RulesNext]_rulesVars, NEW s \in Syncs, sync[s].at = "swap", sync'[s].at = "clean",
           NEW r \in Standing(s)
    PROVE  memory'[r.ip] = r
<1>1. sync \in [Syncs -> Sync] /\ SyncOK(s)
  BY DEF RulesInv, RulesTyped
<1>2. Swap(s)
  <2>1. NoSync.at = "idle"
    BY DEF NoSync
  <2>2. ASSUME NEW t \in Syncs, Fetch(t) PROVE sync'[s].at \in {"swap", "read"}
    BY <1>1, <2>2 DEF Fetch, Sync
  <2>3. ASSUME NEW t \in Syncs, CleanupExpired(t) \/ SyncFails(t) PROVE sync'[s] \in {sync[s], NoSync}
    BY <1>1, <2>3 DEF CleanupExpired, SyncFails
  <2>4. ASSUME NEW a, LookUp(a) PROVE sync'[s].at \in {"swap", "read"}
    BY <1>1, <2>4 DEF LookUp, NoSync
  <2>5. ASSUME NEW t \in Syncs, Swap(t), t # s PROVE sync'[s] = sync[s]
    BY <1>1, <2>5 DEF Swap
  <2>6. ASSUME NEW a, \/ BlockIp(a) \/ AutoBlockIp(a) \/ UnblockIp(a) \/ Status(a) \/ RemoveExpired(a)
                      \/ TaskFails(a)
        PROVE  sync' = sync
    BY <2>6 DEF BlockIp, AutoBlockIp, Stamp, UnblockIp, Status, RemoveExpired, TaskFails
  <2>7. ASSUME NEW p, Write(p) \/ WriteFails(p) \/ ApplyIpRule(p) \/ Passes \/ Lapse \/ Gc
        PROVE  sync' = sync
    BY <2>7 DEF Write, WriteFails, ApplyIpRule, Passes, Lapse, Gc
  <2>8. CASE RulesNext
    <3>1. \A a : CheckRateLimit(a) => LookUp(a)
      BY DEF CheckRateLimit
    <3>2. \/ sync'[s].at \in {"swap", "read"} \/ sync'[s] \in {sync[s], NoSync}
          \/ Swap(s)
      BY <2>2, <2>3, <2>4, <2>5, <2>6, <2>7, <2>8, <3>1, Zenon DEF RulesNext
    <3>3. QED
      BY <2>1, <3>2
  <2>9. CASE UNCHANGED rulesVars
    BY <2>9 DEF rulesVars
  <2>10. QED
    BY <2>8, <2>9
<1>3. r \in sync[s].found /\ r \in sync[s].since \cap Rows
  BY <1>1 DEF SyncOK, Standing
<1>4. r.ip \in Addresses /\ r.stamp \in Nat
  BY <1>3, RowsAre DEF RulesInv, Rules
<1> DEFINE mine == {q \in sync[s].found : q.ip = r.ip}
<1>5. mine = {r}
  BY <1>1, <1>3 DEF SyncOK
<1>6. memory'[r.ip] = IF mine = {} THEN NoRule
                      ELSE CHOOSE q \in mine : \A o \in mine : q.stamp <= o.stamp
  BY <1>2, <1>4 DEF Swap
<1> HIDE DEF mine
<1>7. r.stamp <= r.stamp
  BY <1>4
<1>8. QED
  BY <1>5, <1>6, <1>7

\* A sync, page by page, of rules that are written and removed meanwhile loses
\* none that stands all the time (api/request_guard.py:370).
THEOREM SyncsKeepRules == RulesSpec => SyncKeepsStanding
<1>1. RulesSpec => []RulesInv
  BY RulesInitInv, RulesStep, PTL DEF RulesSpec
<1>2. ASSUME RulesInv, [RulesNext]_rulesVars
      PROVE  \A s \in Syncs : sync[s].at = "swap" /\ sync'[s].at = "clean" =>
               \A r \in sync[s].since \cap Rows : ~Lapsed(r) => memory'[r.ip] = r
  BY <1>2, SwapBrings DEF Standing
<1>3. QED
  BY <1>1, <1>2, PTL DEF RulesSpec, SyncKeepsStanding

-----------------------------------------------------------------------------
(* The limits of a request                                                 *)

Ages == [rate : Seq(Nat), daily : Seq(Nat), wrong : Seq(Nat)]

LimitsTyped ==
    /\ tokens \in [Callers -> 0 .. Capacity] /\ quiet \in [Callers -> 0 .. Window]
    /\ recent \in [Callers -> Ages]

(* The inductive invariant: the calls that count are in their order, none  *)
(* is younger than the quiet of its caller or older than the window, and   *)
(* what was drawn since any of them, less what was given since, is missing *)
(* in the bucket.                                                          *)
Counted(rate, has, still) ==
    /\ \A i \in DOMAIN rate : still <= rate[i] /\ rate[i] < Window
    /\ \A i, j \in DOMAIN rate : i <= j => rate[j] <= rate[i]
    /\ \A i \in DOMAIN rate : Len(rate) - i + 1 <= Capacity - has + Refill * rate[i]

LimitsInv == LimitsTyped /\ \A a \in Callers : Counted(recent[a].rate, tokens[a], quiet[a])

LEMMA LimitsAre ==
    /\ Limit \in Nat \ {0} /\ Capacity \in Nat \ {0} /\ Window \in Nat \ {0} /\ Refill \in Nat
BY RulesAssumption

\* More ticks, more is given.
LEMMA GivenGrows ==
    ASSUME NEW r \in Nat, NEW x \in Nat, NEW y \in Nat, x <= y
    PROVE  r * x \in Nat /\ r * x <= r * y /\ r * (x + 1) = r * x + r
<1>1. \A k \in Nat : r * k \in Nat
  OBVIOUS
<1>2. y - x \in Nat /\ y = x + (y - x)
  OBVIOUS
<1>3. r * y = r * x + r * (y - x)
  BY <1>2
<1>4. QED
  BY <1>1, <1>2, <1>3

LEMMA NothingCounts == ASSUME NEW has, NEW still PROVE Counted(<< >>, has, still)
BY EmptySeq DEF Counted

LEMMA LimitsInitInv == ASSUME RulesInit PROVE LimitsInv
<1>1. [rate |-> <<>>, daily |-> <<>>, wrong |-> <<>>] \in Ages
  BY EmptySeq DEF Ages
<1>2. LimitsTyped
  BY <1>1, LimitsAre DEF RulesInit, LimitsTyped
<1>3. \A a \in Callers : Counted(recent[a].rate, tokens[a], quiet[a])
  BY NothingCounts DEF RulesInit
<1>4. QED
  BY <1>2, <1>3 DEF LimitsInv

\* What is left of the times of some calls a tick later.
LEMMA TickOlder ==
    ASSUME NEW ages \in Seq(Nat), NEW span
    PROVE  LET n == Cardinality({i \in DOMAIN ages : ages[i] + 1 < span})
               older == Older(ages, span)
           IN  /\ n \in 0 .. Len(ages)
               /\ older \in Seq(Nat) /\ Len(older) = n
               /\ \A i \in 1 .. n : /\ Len(ages) - n + i \in 1 .. Len(ages)
                                    /\ older[i] = ages[Len(ages) - n + i] + 1
<1> DEFINE young == {i \in DOMAIN ages : ages[i] + 1 < span}
           n == Cardinality(young)
           older == Older(ages, span)
<1>1. Len(ages) \in Nat /\ DOMAIN ages = 1 .. Len(ages) /\ \A i \in 1 .. Len(ages) : ages[i] \in Nat
  BY LenProperties, ElementOfSeq
<1>2. n \in Nat /\ n <= Len(ages)
  <2>1. \A k \in Nat : IsFiniteSet(1 .. k) /\ Cardinality(1 .. k) = k
    BY FS_Interval
  <2>2. IsFiniteSet(young) /\ n <= Len(ages)
    BY <1>1, <2>1, FS_Subset
  <2>3. QED
    BY <2>2, FS_CardinalityType
<1>3. older = [i \in 1 .. n |-> ages[Len(ages) - n + i] + 1]
  BY DEF Older, LastOf
<1> HIDE DEF n, older
<1>4. \A i \in 1 .. n : Len(ages) - n + i \in 1 .. Len(ages)
  BY <1>1, <1>2
<1>5. older \in [1 .. n -> Nat] /\ DOMAIN older = 1 .. n
      /\ \A i \in 1 .. n : older[i] = ages[Len(ages) - n + i] + 1
  BY <1>1, <1>3, <1>4
<1>6. older \in Seq(Nat)
  BY <1>2, <1>5, IsASeq
<1>7. Len(older) = n
  <2>1. Len(older) \in Nat /\ DOMAIN older = 1 .. Len(older)
    BY <1>6, LenProperties
  <2>2. QED
    BY <1>2, <1>5, <2>1
<1>8. QED
  BY <1>1, <1>2, <1>4, <1>5, <1>6, <1>7 DEF n, older

\* Some of the first places, with all that follow each of them, are the last.
LEMMA LastOnes ==
    ASSUME NEW l \in Nat, NEW S, S \subseteq 1 .. l,
           \A i \in S : \A j \in 1 .. l : i <= j => j \in S
    PROVE  \A i \in 1 .. Cardinality(S) : l - Cardinality(S) + i \in S
<1> DEFINE n == Cardinality(S)
<1>1. /\ \A i, j \in Nat : /\ IsFiniteSet(i .. j)
                          /\ Cardinality(i .. j) = IF i > j THEN 0 ELSE j - i + 1
  BY FS_Interval
<1>2. n \in Nat /\ n <= l
  <2>1. IsFiniteSet(1 .. l) /\ Cardinality(1 .. l) = l
    BY <1>1
  <2>2. QED
    BY <2>1, FS_Subset, FS_CardinalityType
<1>3. ASSUME NEW i \in 1 .. n, l - n + i \notin S PROVE FALSE
  <2> DEFINE k == l - n + i
             after == k + 1 .. l
  <2>1. k \in Nat /\ k \in 1 .. l /\ k + 1 \in Nat /\ n \in Nat /\ i \in Nat
    BY <1>2
  <2>2. S \subseteq after
    <3> SUFFICES ASSUME NEW j \in S PROVE j \in k + 1 .. l
      OBVIOUS
    <3>1. j \in 1 .. l
      OBVIOUS
    <3>2. ~(j <= k)
      BY <1>3, <2>1, <3>1
    <3>3. QED
      BY <2>1, <3>1, <3>2
  <2>3. IsFiniteSet(after) /\ Cardinality(after) = IF k + 1 > l THEN 0 ELSE l - (k + 1) + 1
    BY <1>1, <2>1
  <2> HIDE DEF after
  <2>4. n <= Cardinality(after)
    BY <2>2, <2>3, FS_Subset
  <2> HIDE DEF n
  <2>5. n <= l - k
    BY <1>2, <2>1, <2>3, <2>4
  <2>6. QED
    BY <1>2, <1>3, <2>5
<1>4. QED
  BY <1>3

\* A tick later the calls that count do so still, whatever the tick gave.
LEMMA TickCounted ==
    ASSUME NEW rate \in Seq(Nat), NEW has \in 0 .. Capacity, NEW still \in 0 .. Window,
           Counted(rate, has, still),
           NEW given \in Nat, given <= has + Refill,
           NEW now \in Nat, now <= still + 1
    PROVE  Counted(Older(rate, Window), given, now)
<1> DEFINE young == {i \in DOMAIN rate : rate[i] + 1 < Window}
           n == Cardinality(young)
           later == Older(rate, Window)
           gone == Len(rate) - n
<1>1. /\ n \in 0 .. Len(rate) /\ later \in Seq(Nat) /\ Len(later) = n
      /\ \A i \in 1 .. n : gone + i \in 1 .. Len(rate) /\ later[i] = rate[gone + i] + 1
  BY TickOlder
<1>2. /\ Len(rate) \in Nat /\ DOMAIN rate = 1 .. Len(rate) /\ \A i \in 1 .. Len(rate) : rate[i] \in Nat
      /\ DOMAIN later = 1 .. n
  BY <1>1, LenProperties, ElementOfSeq
<1>3. Capacity \in Nat /\ Window \in Nat \ {0} /\ Refill \in Nat
  BY LimitsAre
<1>4. \A i \in 1 .. n : gone + i \in young
  <2>1. young \subseteq 1 .. Len(rate)
    BY <1>2
  <2>2. ASSUME NEW i \in young, NEW j \in 1 .. Len(rate), i <= j PROVE j \in young
    <3>1. rate[j] <= rate[i] /\ rate[i] + 1 < Window
      BY <1>2, <2>2 DEF Counted
    <3>2. rate[i] \in Nat /\ rate[j] \in Nat
      BY <1>2, <2>1, <2>2
    <3>3. rate[j] + 1 < Window
      <4> DEFINE x == rate[i]
                 y == rate[j]
      <4>1. x \in Nat /\ y \in Nat /\ y <= x /\ x + 1 < Window
        BY <3>1, <3>2
      <4> HIDE DEF x, y
      <4>2. y + 1 < Window
        BY <1>3, <4>1
      <4>3. QED
        BY <4>2 DEF y
    <3>4. QED
      BY <1>2, <3>3
  <2> HIDE DEF young
  <2>3. QED
    BY <1>2, <2>1, <2>2, LastOnes
<1> HIDE DEF n, later
<1>5. ASSUME NEW i \in 1 .. n
      PROVE  /\ now <= later[i] /\ later[i] < Window
             /\ n - i + 1 <= Capacity - given + Refill * later[i]
  <2> DEFINE k == gone + i
  <2>1. k \in 1 .. Len(rate) /\ rate[k] \in Nat /\ later[i] = rate[k] + 1
    BY <1>1, <1>2
  <2>2. rate[k] + 1 < Window
    BY <1>4
  <2>3. still <= rate[k] /\ Len(rate) - k + 1 <= Capacity - has + Refill * rate[k]
    BY <1>2, <2>1 DEF Counted
  <2>4. n - i + 1 = Len(rate) - k + 1
    BY <1>1, <1>2
  <2> HIDE DEF k
  <2>5. Refill * rate[k] \in Nat /\ Refill * (rate[k] + 1) = Refill * rate[k] + Refill
    <3>1. rate[k] <= rate[k]
      BY <2>1
    <3>2. QED
      BY <1>3, <2>1, <3>1, GivenGrows
  <2> DEFINE had == Refill * rate[k]
             gets == Refill * (rate[k] + 1)
  <2>6. had \in Nat /\ gets = had + Refill /\ n - i + 1 <= Capacity - has + had
    BY <2>3, <2>4, <2>5
  <2> HIDE DEF had, gets
  <2>7. n - i + 1 <= Capacity - given + gets
    BY <1>1, <1>3, <2>6
  <2> DEFINE x == rate[k]
  <2>8. x \in Nat /\ still <= x /\ x + 1 < Window /\ later[i] = x + 1
    BY <2>1, <2>2, <2>3
  <2>9. n - i + 1 <= Capacity - given + Refill * later[i]
    BY <2>1, <2>7 DEF gets
  <2> HIDE DEF x
  <2>10. now <= later[i] /\ later[i] < Window
    BY <2>8
  <2>11. QED
    BY <2>9, <2>10
<1>6. ASSUME NEW i \in 1 .. n, NEW j \in 1 .. n, i <= j PROVE later[j] <= later[i]
  <2> DEFINE h == gone + i
             k == gone + j
  <2>1. h \in 1 .. Len(rate) /\ k \in 1 .. Len(rate)
    BY <1>1
  <2>2. h <= k
    BY <1>1, <1>2, <1>6
  <2>3. later[i] = rate[h] + 1 /\ later[j] = rate[k] + 1
    BY <1>1
  <2> HIDE DEF h, k
  <2>4. rate[k] <= rate[h] /\ rate[h] \in Nat /\ rate[k] \in Nat
    BY <1>2, <2>1, <2>2 DEF Counted
  <2> DEFINE x == rate[h]
             y == rate[k]
  <2>5. x \in Nat /\ y \in Nat /\ y <= x /\ later[i] = x + 1 /\ later[j] = y + 1
    BY <2>3, <2>4
  <2> HIDE DEF x, y
  <2>6. QED
    BY <2>5
<1> HIDE DEF gone
<1>7. Counted(later, given, now)
  BY <1>1, <1>2, <1>5, <1>6 DEF Counted
<1>8. QED
  BY <1>7 DEF later

LEMMA TickInv == ASSUME LimitsInv, Passes PROVE LimitsInv'
<1>1. \A x \in 0 .. Capacity : Min({Capacity, x + Refill}) \in 0 .. Capacity /\ Min({Capacity, x + Refill}) <= x + Refill
  BY LimitsAre DEF Min
<1>2. \A x \in 0 .. Window : Min({Window, x + 1}) \in 0 .. Window /\ Min({Window, x + 1}) <= x + 1
  BY LimitsAre DEF Min
<1>3. /\ tokens' = [a \in Callers |-> Min({Capacity, tokens[a] + Refill})]
      /\ quiet' = [a \in Callers |-> Min({Window, quiet[a] + 1})]
      /\ recent' = [a \in Callers |-> [rate |-> Older(recent[a].rate, Window),
                                       daily |-> Older(recent[a].daily, Day),
                                       wrong |-> Older(recent[a].wrong, Spell)]]
  BY DEF Passes
<1>4. ASSUME NEW a \in Callers
      PROVE  /\ tokens[a] \in 0 .. Capacity /\ quiet[a] \in 0 .. Window
             /\ recent[a].rate \in Seq(Nat) /\ recent[a].daily \in Seq(Nat) /\ recent[a].wrong \in Seq(Nat)
             /\ Counted(recent[a].rate, tokens[a], quiet[a])
  BY DEF LimitsInv, LimitsTyped, Ages
<1>5. LimitsTyped'
  <2>1. tokens' \in [Callers -> 0 .. Capacity]
    BY <1>1, <1>3, <1>4
  <2>2. quiet' \in [Callers -> 0 .. Window]
    BY <1>2, <1>3, <1>4
  <2>3. \A ages \in Seq(Nat) : \A span : Older(ages, span) \in Seq(Nat)
    BY TickOlder
  <2>4. ASSUME NEW a \in Callers
        PROVE  [rate |-> Older(recent[a].rate, Window), daily |-> Older(recent[a].daily, Day),
                wrong |-> Older(recent[a].wrong, Spell)] \in Ages
    BY <1>4, <2>3 DEF Ages
  <2>5. recent' \in [Callers -> Ages]
    BY <1>3, <2>4
  <2>6. QED
    BY <2>1, <2>2, <2>5 DEF LimitsTyped
<1>6. ASSUME NEW a \in Callers PROVE Counted(recent'[a].rate, tokens'[a], quiet'[a])
  <2>1. recent'[a].rate = Older(recent[a].rate, Window)
    BY <1>3
  <2>2. /\ tokens'[a] \in Nat /\ tokens'[a] <= tokens[a] + Refill
        /\ quiet'[a] \in Nat /\ quiet'[a] <= quiet[a] + 1
    <3>1. tokens'[a] = Min({Capacity, tokens[a] + Refill}) /\ quiet'[a] = Min({Window, quiet[a] + 1})
      BY <1>3, Zenon
    <3>2. /\ tokens'[a] \in 0 .. Capacity /\ tokens'[a] <= tokens[a] + Refill
          /\ quiet'[a] \in 0 .. Window /\ quiet'[a] <= quiet[a] + 1
      BY <1>1, <1>2, <1>4, <3>1, Zenon
    <3>3. QED
      BY <3>2
  <2> DEFINE rate == recent[a].rate
             has == tokens[a]
             gets == tokens'[a]
             still == quiet[a]
             now == quiet'[a]
  <2>3. /\ rate \in Seq(Nat) /\ has \in 0 .. Capacity /\ still \in 0 .. Window /\ Counted(rate, has, still)
        /\ gets \in Nat /\ gets <= has + Refill /\ now \in Nat /\ now <= still + 1
        /\ recent'[a].rate = Older(rate, Window)
    BY <1>4, <2>1, <2>2
  <2> HIDE DEF rate, has, gets, still, now
  <2>4. Counted(Older(rate, Window), gets, now)
    BY <2>3, TickCounted
  <2>5. QED
    BY <2>3, <2>4 DEF gets, now
<1>7. QED
  BY <1>5, <1>6 DEF LimitsInv

\* A violation is counted, or asks for a rule, and the calls stay as they are.
LEMMA ViolateInv ==
    ASSUME LimitsTyped, NEW a \in Callers, NEW ages \in Ages, Violate(a, ages)
    PROVE  /\ recent' \in [Callers -> Ages] /\ recent'[a].rate = ages.rate
           /\ \A b \in Callers \ {a} : recent'[b] = recent[b]
<1>1. /\ [ages EXCEPT !.wrong = <<>>] \in Ages /\ [ages EXCEPT !.wrong = <<>>].rate = ages.rate
      /\ [ages EXCEPT !.wrong = Append(ages.wrong, 0)] \in Ages
      /\ [ages EXCEPT !.wrong = Append(ages.wrong, 0)].rate = ages.rate
  <2>1. << >> \in Seq(Nat) /\ Append(ages.wrong, 0) \in Seq(Nat)
    BY EmptySeq, AppendProperties DEF Ages
  <2>2. QED
    BY <2>1 DEF Ages
<1>2. \E new \in {[ages EXCEPT !.wrong = <<>>], [ages EXCEPT !.wrong = Append(ages.wrong, 0)]} :
        recent' = [recent EXCEPT ![a] = new]
  BY DEF Violate
<1>3. QED
  BY <1>1, <1>2, ZenonT(30) DEF LimitsTyped

LEMMA TaskFailsLimits == ASSUME LimitsInv, NEW a \in Callers, TaskFails(a) PROVE LimitsInv'
<1>1. recent[a] \in Ages /\ UNCHANGED <<tokens, quiet>>
  BY DEF LimitsInv, LimitsTyped, TaskFails
<1>2. /\ recent' \in [Callers -> Ages] /\ recent'[a].rate = recent[a].rate
      /\ \A b \in Callers \ {a} : recent'[b] = recent[b]
  BY <1>1, ViolateInv DEF TaskFails, LimitsInv
<1>3. \A b \in Callers : recent'[b].rate = recent[b].rate
  BY <1>2
<1>4. QED
  BY <1>1, <1>2, <1>3 DEF LimitsInv, LimitsTyped

\* A request that is let through draws on the bucket.
LEMMA DrawCounted ==
    ASSUME NEW rate \in Seq(Nat), NEW has \in 0 .. Capacity, NEW still \in 0 .. Window,
           Counted(rate, has, still)
    PROVE  /\ Counted(rate, has, 0)
           /\ has >= 1 => Counted(rate, has - 1, 0) /\ Counted(Append(rate, 0), has - 1, 0)
<1> DEFINE n == Len(rate)
           longer == Append(rate, 0)
<1>1. /\ n \in Nat /\ DOMAIN rate = 1 .. n /\ \A i \in 1 .. n : rate[i] \in Nat
      /\ Len(longer) = n + 1 /\ DOMAIN longer = 1 .. n + 1
      /\ \A i \in 1 .. n : longer[i] = rate[i]
      /\ longer[n + 1] = 0
  BY LenProperties, ElementOfSeq, AppendProperties
<1>2. Capacity \in Nat /\ Window \in Nat \ {0} /\ Refill \in Nat
  BY LimitsAre
<1> DEFINE given(i) == Refill * rate[i]
<1>3. \A i \in 1 .. n : given(i) \in Nat
  BY <1>1, <1>2, GivenGrows
<1>4. /\ \A i \in 1 .. n : still <= rate[i] /\ rate[i] < Window
      /\ \A i, j \in 1 .. n : i <= j => rate[j] <= rate[i]
      /\ \A i \in 1 .. n : n - i + 1 <= Capacity - has + given(i)
  BY <1>1 DEF Counted
<1>5. Counted(rate, has, 0)
  BY <1>1, <1>4 DEF Counted
<1>6. ASSUME has >= 1 PROVE Counted(rate, has - 1, 0)
  <2> HIDE DEF given, n
  <2>1. ASSUME NEW i \in 1 .. n PROVE n - i + 1 <= Capacity - (has - 1) + given(i)
    <3>1. n \in Nat /\ given(i) \in Nat /\ n - i + 1 <= Capacity - has + given(i)
      BY <1>1, <1>3, <1>4
    <3>2. QED
      BY <1>2, <3>1
  <2>2. QED
    BY <1>1, <1>4, <2>1 DEF Counted, given, n
<1>7. ASSUME has >= 1 PROVE Counted(longer, has - 1, 0)
  <2> HIDE DEF n, longer
  <2>1. ASSUME NEW i \in 1 .. n + 1
        PROVE  /\ longer[i] \in Nat /\ longer[i] < Window
               /\ Len(longer) - i + 1 <= Capacity - (has - 1) + Refill * longer[i]
    <3>1. CASE i \in 1 .. n
      <4>1. n - i + 1 <= Capacity - has + given(i) /\ given(i) \in Nat /\ longer[i] = rate[i]
        BY <1>1, <1>3, <1>4, <3>1
      <4>2. Len(longer) - i + 1 <= Capacity - (has - 1) + given(i)
        <5> HIDE DEF given
        <5>1. QED
          BY <1>1, <1>2, <3>1, <4>1
      <4>3. QED
        BY <1>1, <1>4, <3>1, <4>1, <4>2
    <3>2. CASE i = n + 1
      <4>1. longer[i] = 0 /\ Refill * 0 = 0
        BY <1>1, <1>2, <3>2
      <4>2. QED
        BY <1>1, <1>2, <1>7, <3>2, <4>1
    <3>3. QED
      BY <1>1, <3>1, <3>2
  <2>2. ASSUME NEW i \in 1 .. n + 1, NEW j \in 1 .. n + 1, i <= j PROVE longer[j] <= longer[i]
    <3>1. CASE j \in 1 .. n
      <4>1. i \in 1 .. n
        BY <1>1, <2>2, <3>1
      <4>2. QED
        BY <1>1, <1>4, <2>2, <3>1, <4>1
    <3>2. CASE j = n + 1
      BY <1>1, <2>1, <3>2
    <3>3. QED
      BY <1>1, <3>1, <3>2
  <2>3. DOMAIN longer = 1 .. n + 1 /\ \A i \in 1 .. n + 1 : longer[i] \in Nat => 0 <= longer[i]
    BY <1>1
  <2>4. QED
    BY <2>1, <2>2, <2>3, Zenon DEF Counted
<1>8. QED
  BY <1>5, <1>6, <1>7

LEMMA RequestLimits == ASSUME LimitsInv, NEW a \in Callers, CheckRateLimit(a) PROVE LimitsInv'
<1> DEFINE daily == Cached(a) # NoRule /\ Cached(a).kind = "daily_limit"
           ages == [recent[a] EXCEPT !.daily = IF daily THEN Append(@, 0) ELSE @]
           has == IF tokens[a] >= 1 THEN tokens[a] - 1 ELSE tokens[a]
<1>1. CASE UNCHANGED rateVars
  BY <1>1 DEF rateVars, LimitsInv, LimitsTyped
<1>2. CASE ~UNCHANGED rateVars
  <2>1. /\ quiet' = [quiet EXCEPT ![a] = 0] /\ tokens' = [tokens EXCEPT ![a] = has]
        /\ \/ Violate(a, ages)
           \/ /\ tokens[a] >= 1
              /\ recent' = [recent EXCEPT ![a] = [ages EXCEPT !.rate = Append(ages.rate, 0)]]
    BY <1>2 DEF CheckRateLimit
  <2>2. /\ recent \in [Callers -> Ages] /\ tokens \in [Callers -> 0 .. Capacity]
        /\ quiet \in [Callers -> 0 .. Window]
    BY DEF LimitsInv, LimitsTyped
  <2>3. ages \in Ages /\ ages.rate = recent[a].rate /\ recent[a].rate \in Seq(Nat)
    <3>1. recent[a] \in Ages /\ Append(recent[a].daily, 0) \in Seq(Nat)
      BY <2>2, AppendProperties DEF Ages
    <3>2. QED
      BY <3>1 DEF Ages
  <2> HIDE DEF ages
  <2>4. /\ recent' \in [Callers -> Ages] /\ \A b \in Callers \ {a} : recent'[b] = recent[b]
        /\ \/ recent'[a].rate = recent[a].rate
           \/ tokens[a] >= 1 /\ recent'[a].rate = Append(recent[a].rate, 0)
    <3>1. CASE Violate(a, ages)
      BY <2>3, <3>1, ViolateInv DEF LimitsInv
    <3>2. CASE /\ tokens[a] >= 1
               /\ recent' = [recent EXCEPT ![a] = [ages EXCEPT !.rate = Append(ages.rate, 0)]]
      <4>1. Append(ages.rate, 0) \in Seq(Nat)
        BY <2>3, AppendProperties DEF Ages
      <4>2. /\ [ages EXCEPT !.rate = Append(ages.rate, 0)] \in Ages
            /\ [ages EXCEPT !.rate = Append(ages.rate, 0)].rate = Append(recent[a].rate, 0)
        BY <2>3, <4>1 DEF Ages
      <4>3. QED
        BY <2>2, <3>2, <4>2
    <3>3. QED
      BY <2>1, <3>1, <3>2
  <2>5. /\ tokens' \in [Callers -> 0 .. Capacity] /\ quiet' \in [Callers -> 0 .. Window]
        /\ quiet'[a] = 0 /\ tokens'[a] = has
        /\ \A b \in Callers \ {a} : tokens'[b] = tokens[b] /\ quiet'[b] = quiet[b]
    <3>1. 0 \in 0 .. Window /\ has \in 0 .. Capacity
      BY <2>2, LimitsAre
    <3>2. QED
      BY <2>1, <2>2, <3>1
  <2>6. Counted(recent'[a].rate, tokens'[a], quiet'[a])
    <3>1. /\ Counted(recent[a].rate, tokens[a], 0)
          /\ tokens[a] >= 1 => /\ Counted(recent[a].rate, tokens[a] - 1, 0)
                               /\ Counted(Append(recent[a].rate, 0), tokens[a] - 1, 0)
      BY <2>2, <2>3, DrawCounted DEF LimitsInv
    <3>2. QED
      BY <2>4, <2>5, <3>1
  <2>7. \A b \in Callers \ {a} : Counted(recent'[b].rate, tokens'[b], quiet'[b])
    BY <2>4, <2>5 DEF LimitsInv
  <2>8. QED
    BY <2>4, <2>5, <2>6, <2>7 DEF LimitsInv, LimitsTyped
<1>3. QED
  BY <1>1, <1>2

\* A bucket is forgotten only when none of its caller's calls counts.
LEMMA GcInv == ASSUME LimitsInv, Gc PROVE LimitsInv'
<1>1. /\ tokens' = [a \in Callers |-> IF quiet[a] = Window THEN Capacity ELSE tokens[a]]
      /\ UNCHANGED <<recent, quiet>>
  BY DEF Gc
<1>2. LimitsTyped'
  BY <1>1, LimitsAre DEF LimitsInv, LimitsTyped
<1>3. ASSUME NEW a \in Callers PROVE Counted(recent'[a].rate, tokens'[a], quiet'[a])
  <2>1. Counted(recent[a].rate, tokens[a], quiet[a]) /\ recent[a].rate \in Seq(Nat)
    BY DEF LimitsInv, LimitsTyped, Ages
  <2>2. CASE quiet[a] = Window
    <3>1. DOMAIN recent[a].rate = {}
      <4> SUFFICES ASSUME NEW i \in DOMAIN recent[a].rate PROVE FALSE
        OBVIOUS
      <4>1. Window <= recent[a].rate[i] /\ recent[a].rate[i] < Window
        BY <2>1, <2>2 DEF Counted
      <4>2. recent[a].rate[i] \in Nat
        BY <2>1, ElementOfSeq, LenProperties
      <4>3. QED
        BY <4>1, <4>2, LimitsAre
    <3>2. QED
      BY <1>1, <3>1 DEF Counted
  <2>3. CASE quiet[a] # Window
    BY <1>1, <2>1, <2>3
  <2>4. QED
    BY <2>2, <2>3
<1>4. QED
  BY <1>2, <1>3 DEF LimitsInv

LEMMA LimitsStep == ASSUME LimitsInv, [RulesNext]_rulesVars PROVE LimitsInv'
<1>1. CASE UNCHANGED rateVars
  BY <1>1 DEF rateVars, LimitsInv, LimitsTyped
<1>2. CASE UNCHANGED rulesVars
  BY <1>1, <1>2 DEF rulesVars
<1>3. ASSUME \/ Lapse \/ (\E p \in pending : ApplyIpRule(p))
             \/ \E a \in Addresses : BlockIp(a) \/ AutoBlockIp(a) \/ UnblockIp(a) \/ Status(a) \/ RemoveExpired(a)
             \/ \E rule \in writing : Write(rule) \/ WriteFails(rule)
             \/ \E s \in Syncs : Fetch(s) \/ Swap(s) \/ CleanupExpired(s) \/ SyncFails(s)
      PROVE  UNCHANGED rateVars
  BY <1>3, Zenon DEF Lapse, ApplyIpRule, BlockIp, AutoBlockIp, Stamp, UnblockIp, Status, RemoveExpired,
                     Write, WriteFails, Fetch, Swap, CleanupExpired, SyncFails
<1>4. QED
  BY <1>1, <1>2, <1>3, TickInv, GcInv, RequestLimits, TaskFailsLimits DEF RulesNext

\* What an address may send at once is bounded by its bucket, and by what it is
\* given within the window, whatever both count and forget, for all limits and
\* with no refill as well (api/request_guard.py:247, api/request_guard.py:535).
THEOREM BurstsAreBounded == RulesSpec => []BurstBounded
<1>1. RulesInit => LimitsInv
  BY LimitsInitInv
<1>2. LimitsInv /\ [RulesNext]_rulesVars => LimitsInv'
  BY LimitsStep
<1>3. LimitsInv => BurstBounded
  <2> SUFFICES ASSUME LimitsInv, NEW a \in Callers
               PROVE  Len(recent[a].rate) + tokens[a] <= Capacity + Refill * (Window - 1)
    BY DEF BurstBounded
  <2> DEFINE rate == recent[a].rate
             most == Refill * (Window - 1)
  <2>1. rate \in Seq(Nat) /\ tokens[a] \in 0 .. Capacity /\ Counted(rate, tokens[a], quiet[a])
    BY DEF LimitsInv, LimitsTyped, Ages
  <2>2. /\ Len(rate) \in Nat /\ DOMAIN rate = 1 .. Len(rate) /\ \A i \in DOMAIN rate : rate[i] \in Nat
        /\ Capacity \in Nat /\ Refill \in Nat /\ Window - 1 \in Nat
    BY <2>1, LimitsAre, LenProperties, ElementOfSeq
  <2>3. most \in Nat
    BY <2>2, GivenGrows
  <2>4. CASE Len(rate) = 0
    <3> HIDE DEF most
    <3>1. QED
      BY <2>1, <2>2, <2>3, <2>4 DEF most
  <2>5. CASE Len(rate) # 0
    <3> DEFINE given == Refill * rate[1]
    <3>1. 1 \in DOMAIN rate /\ rate[1] \in Nat
      BY <2>2, <2>5
    <3>2. rate[1] < Window /\ Len(rate) - 1 + 1 <= Capacity - tokens[a] + given
      BY <2>1, <3>1 DEF Counted
    <3>3. rate[1] <= Window - 1
      BY <3>1, <3>2, LimitsAre
    <3>4. given \in Nat /\ given <= most
      BY <2>2, <3>1, <3>3, GivenGrows
    <3> HIDE DEF given, most, rate
    <3>5. Len(rate) + tokens[a] <= Capacity + most
      BY <2>1, <2>2, <2>3, <3>2, <3>4
    <3>6. QED
      BY <3>5 DEF rate, most
  <2>6. QED
    BY <2>4, <2>5
<1>4. QED
  BY <1>1, <1>2, <1>3, PTL DEF RulesSpec

-----------------------------------------------------------------------------
(* The account pool                                                        *)

(* Who has an account that nobody overruled has it alone, and on a lease:  *)
(* the row says so, and what healing works at is not lent.                 *)

AccountShape ==
    /\ account \in [Members -> Account]
    /\ overruled \in [Members -> {"no", "late", "early"}]
    /\ loan \in [Borrowers -> [place : LoanPlace, acct : Members \cup {Nobody}]]

SigninShape ==
    /\ due \subseteq Copy
    /\ signin \in [place : SigninPlace, copy : Copy \cup {NoCopy}]
    /\ signin.place \notin {"asleep", "next"} => signin.copy \in Copy

HealsCooling == \A a \in healing : a \in Members => account[a].status = "cooling"

HeldOnLease ==
    \A a \in Members : overruled[a] = "no" =>
        /\ Holders(a) # {} => account[a].status = "working"
        /\ \A b, c \in Holders(a) : b = c

AccountsInv == AccountShape /\ SigninShape /\ HealsCooling /\ HeldOnLease

\* The rows that a status and a verdict leave behind.
LEMMA BecomesOK ==
    ASSUME NEW r \in Account, NEW s \in AccountStatus
    PROVE  Becomes(r, s) \in Account /\ Becomes(r, s).status = s
BY DEF Becomes, Account

LEMMA MarkedOK ==
    ASSUME NEW r \in Account, NEW s \in AccountStatus, NEW n \in 1 .. MaxFails
    PROVE  Marked(r, s, n) \in Account /\ Marked(r, s, n).status = s
<1>1. Becomes(r, s) \in Account /\ Becomes(r, s).status = s
  BY BecomesOK
<1>2. QED
  BY <1>1 DEF Marked, Account

\* What is declared free is overruled for whoever else holds it, and nothing
\* is taken back.
LEMMA OverruleOK ==
    ASSUME AccountShape, NEW S, NEW b, Overrule(S, b)
    PROVE  /\ overruled' \in [Members -> {"no", "late", "early"}]
           /\ \A a \in Members : overruled[a] # "no" => overruled'[a] # "no"
           /\ \A a \in Members : a \in S /\ Holders(a) \ {b} # {} => overruled'[a] # "no"
BY DEF Overrule, AccountShape

(* A step after which everybody holds what he held, or nothing any more:   *)
(* it is harmless for an account when its row stays lent or is overruled.  *)
LEMMA NoNewHolder ==
    ASSUME HeldOnLease, NEW a \in Members,
           \A c \in Holders(a)' : c \in Holders(a),
           overruled'[a] = "no" /\ Holders(a)' # {} =>
               overruled[a] = "no" /\ (account[a].status = "working" => account'[a].status = "working")
    PROVE  overruled'[a] = "no" =>
               /\ Holders(a)' # {} => account'[a].status = "working"
               /\ \A b, c \in Holders(a)' : b = c
BY DEF HeldOnLease

LEMMA HoldersSame == ASSUME loan' = loan, NEW a PROVE Holders(a)' = Holders(a)
BY DEF Holders

LEMMA AccountsInitInv == ASSUME AccountsInit PROVE AccountsInv
<1>1. AccountShape
  BY DEF AccountsInit, AccountShape, Account, AccountStatus, LoanPlace
<1>2. SigninShape
  BY DEF AccountsInit, SigninShape, SigninPlace, NoCopy
<1>3. HealsCooling
  BY DEF AccountsInit, HealsCooling
<1>4. \A a \in Members : Holders(a) = {}
  BY DEF AccountsInit, Holders
<1>5. HeldOnLease
  BY <1>4 DEF HeldOnLease
<1>6. QED
  BY <1>1, <1>2, <1>3, <1>5 DEF AccountsInv

\* Loans in S are called back, by a borrower who holds nothing or by the loop.
LEMMA ReclaimedOK ==
    ASSUME AccountShape, HeldOnLease, NEW S
    PROVE  /\ Reclaimed(S) \in [Members -> Account]
           /\ \A a \in Members : a \in S => Reclaimed(S)[a].status = "active"
           /\ \A a \in Members : a \notin S => Reclaimed(S)[a] = account[a]
<1>1. \A a \in Members : Becomes(account[a], "active") \in Account
                         /\ Becomes(account[a], "active").status = "active"
  BY BecomesOK DEF AccountShape, AccountStatus
<1>2. QED
  BY <1>1 DEF Reclaimed, AccountShape

\* The step of a borrower, by its kinds.
LEMMA BorrowingInv ==
    ASSUME AccountsInv, NEW b \in Borrowers, Borrowing(b)
    PROVE  AccountsInv'
<1> USE DEF AccountsInv
<1>1. CASE AskLoan(b) \/ StampAges(b)
  <2>1. /\ loan' \in [Borrowers -> [place : LoanPlace, acct : Members \cup {Nobody}]]
        /\ \A a \in Members : Holders(a)' = Holders(a)
    BY <1>1 DEF AskLoan, StampAges, AccountShape, LoanPlace, Holders
  <2>2. UNCHANGED <<account, healing, due, signin, overruled>>
    BY <1>1 DEF AskLoan, StampAges
  <2>3. QED
    BY <2>1, <2>2 DEF AccountShape, SigninShape, HealsCooling, HeldOnLease
<1>2. CASE Borrow(b)
  <2>1. PICK S \in SUBSET Overdue :
          /\ Overrule(S, b)
          /\ \/ /\ account' = Reclaimed(S)
                /\ loan' = [loan EXCEPT ![b].place = "idle"]
             \/ \E a \in Choosable(Reclaimed(S)) :
                  /\ account' = [Reclaimed(S) EXCEPT ![a] = [Becomes(@, "working") EXCEPT
                                                               !.late = loan[b].place = "stale"]]
                  /\ loan' = [loan EXCEPT ![b] = [place |-> "using", acct |-> a]]
    BY <1>2, Zenon DEF Borrow
  <2>2. loan[b].place # "using" /\ healing = {} /\ UNCHANGED <<healing, due, signin>>
    BY <1>2 DEF Borrow, Unlocked
  <2>3. /\ overruled' \in [Members -> {"no", "late", "early"}]
        /\ \A a \in Members : overruled[a] # "no" => overruled'[a] # "no"
        /\ \A a \in Members : a \in S /\ Holders(a) # {} => overruled'[a] # "no"
    <3>1. \A a \in Members : b \notin Holders(a)
      BY <2>2 DEF Holders
    <3>2. QED
      BY <2>1, <3>1, OverruleOK
  <2>4. /\ Reclaimed(S) \in [Members -> Account]
        /\ \A a \in Members : a \in S => Reclaimed(S)[a].status = "active"
        /\ \A a \in Members : a \notin S => Reclaimed(S)[a] = account[a]
    BY ReclaimedOK
  <2>5. SigninShape' /\ HealsCooling'
    BY <2>2 DEF SigninShape, HealsCooling
  <2>6. CASE account' = Reclaimed(S) /\ loan' = [loan EXCEPT ![b].place = "idle"]
    <3>1. /\ loan' \in [Borrowers -> [place : LoanPlace, acct : Members \cup {Nobody}]]
          /\ \A a \in Members : \A c \in Holders(a)' : c \in Holders(a)
      BY <2>6 DEF AccountShape, LoanPlace, Holders
    <3>2. AccountShape'
      BY <2>3, <2>4, <2>6, <3>1 DEF AccountShape
    <3>3. ASSUME NEW a \in Members, overruled'[a] = "no", Holders(a)' # {}
          PROVE  overruled[a] = "no" /\ account'[a] = account[a]
      BY <3>1, <3>3, <2>3, <2>4, <2>6
    <3>4. HeldOnLease'
      BY <3>1, <3>3, NoNewHolder DEF HeldOnLease
    <3>5. QED
      BY <2>5, <3>2, <3>4
  <2>7. ASSUME NEW a \in Choosable(Reclaimed(S)),
               account' = [Reclaimed(S) EXCEPT ![a] = [Becomes(@, "working") EXCEPT
                                                         !.late = loan[b].place = "stale"]],
               loan' = [loan EXCEPT ![b] = [place |-> "using", acct |-> a]]
        PROVE  AccountsInv'
    <3>1. a \in Members /\ Reclaimed(S)[a].status = "active"
      BY <2>7 DEF Choosable
    <3> DEFINE w == Becomes(Reclaimed(S)[a], "working")
    <3>2. w \in Account /\ w.status = "working"
      BY <3>1, <2>4, BecomesOK DEF AccountStatus
    <3> DEFINE lent == [w EXCEPT !.late = loan[b].place = "stale"]
    <3>3. lent \in Account /\ lent.status = "working"
      <4> HIDE DEF w
      <4> QED BY <3>2 DEF Account
    <3>4. account' = [Reclaimed(S) EXCEPT ![a] = lent]
      BY <2>7, <2>4, <3>1
    <3> HIDE DEF lent, w
    <3>5. /\ account' \in [Members -> Account]
          /\ account'[a].status = "working"
          /\ \A m \in Members : m # a => account'[m] = Reclaimed(S)[m]
      BY <3>1, <3>3, <3>4, <2>4
    <3>6. /\ loan' \in [Borrowers -> [place : LoanPlace, acct : Members \cup {Nobody}]]
          /\ Holders(a)' = Holders(a) \cup {b}
          /\ \A m \in Members : m # a => \A c \in Holders(m)' : c \in Holders(m)
      BY <2>7, <2>2, <3>1 DEF AccountShape, LoanPlace, Holders
    <3>7. AccountShape'
      BY <2>3, <3>5, <3>6 DEF AccountShape
    <3>8. ASSUME NEW m \in Members, m # a, overruled'[m] = "no", Holders(m)' # {}
          PROVE  overruled[m] = "no" /\ account'[m] = account[m]
      <4>1. Holders(m) # {}
        BY <3>6, <3>8
      <4>2. m \notin S
        BY <4>1, <2>3, <3>8
      <4>3. QED
        BY <4>2, <2>3, <2>4, <3>5, <3>8
    <3>9. overruled'[a] = "no" => Holders(a) = {}
      <4>1. CASE a \in S
        BY <4>1, <2>3, <3>1
      <4>2. CASE a \notin S
        BY <4>2, <2>3, <2>4, <3>1 DEF HeldOnLease
      <4>3. QED
        BY <4>1, <4>2
    <3>10. HeldOnLease'
      <4>1. ASSUME NEW m \in Members, m # a
            PROVE  overruled'[m] = "no" =>
                     /\ Holders(m)' # {} => account'[m].status = "working"
                     /\ \A d, c \in Holders(m)' : d = c
        BY <4>1, <3>6, <3>8, NoNewHolder
      <4>2. overruled'[a] = "no" => \A d, c \in Holders(a)' : d = c
        BY <3>6, <3>9
      <4>3. QED
        BY <4>1, <4>2, <3>5 DEF HeldOnLease
    <3>11. QED
      BY <2>5, <3>7, <3>10
  <2>8. QED
    BY <2>1, <2>6, <2>7
<1>3. ASSUME NEW r \in Account, GiveBack(b, r) PROVE AccountsInv'
  <2>0. PICK a : a = loan[b].acct
    OBVIOUS
  <2>1. /\ loan[b].place = "using" /\ healing = {} /\ UNCHANGED <<healing, due, signin>>
        /\ account' = [account EXCEPT ![a] = r]
        /\ loan' = [loan EXCEPT ![b] = [place |-> "idle", acct |-> Nobody]]
    BY <1>3, <2>0 DEF GiveBack, Unlocked, Forget
  <2>2. IF Holders(a) = {b} THEN overruled' = [overruled EXCEPT ![a] = "no"] ELSE Overrule({a}, b)
    BY <1>3, <2>0 DEF GiveBack
  <2>3. SigninShape' /\ HealsCooling'
    BY <2>1 DEF SigninShape, HealsCooling
  <2>4. /\ loan' \in [Borrowers -> [place : LoanPlace, acct : Members \cup {Nobody}]]
        /\ \A m \in Members : Holders(m)' = Holders(m) \ {b}
        /\ b \in Holders(a)
    BY <2>0, <2>1 DEF AccountShape, LoanPlace, Holders
  <2>5. /\ account' \in [Members -> Account]
        /\ \A m \in Members : m # a => account'[m] = account[m]
    BY <2>1, <1>3 DEF AccountShape
  <2>6. /\ overruled' \in [Members -> {"no", "late", "early"}]
        /\ \A m \in Members : m # a /\ overruled[m] # "no" => overruled'[m] # "no"
        /\ a \in Members /\ Holders(a)' # {} => overruled'[a] # "no"
    <3>1. CASE Holders(a) = {b}
      <4>1. a \in Members => Holders(a)' = {}
        BY <3>1, <2>4
      <4>2. overruled' = [overruled EXCEPT ![a] = "no"]
        BY <3>1, <2>2
      <4>3. QED
        BY <4>1, <4>2 DEF AccountShape
    <3>2. CASE Holders(a) # {b}
      <4>1. Overrule({a}, b)
        BY <3>2, <2>2
      <4>2. Holders(a) \ {b} # {}
        BY <3>2, <2>4
      <4>3. QED
        BY <4>1, <4>2, OverruleOK
    <3>3. QED
      BY <3>1, <3>2
  <2>7. AccountShape'
    BY <2>4, <2>5, <2>6 DEF AccountShape
  <2>8. ASSUME NEW m \in Members
        PROVE  overruled'[m] = "no" =>
                 /\ Holders(m)' # {} => account'[m].status = "working"
                 /\ \A d, c \in Holders(m)' : d = c
    <3>1. CASE m = a
      <4>1. overruled'[m] = "no" => Holders(m)' = {}
        BY <3>1, <2>6
      <4>2. QED
        BY <4>1
    <3>2. CASE m # a
      <4>1. overruled'[m] = "no" => overruled[m] = "no"
        BY <3>2, <2>6
      <4>2. account'[m] = account[m]
        BY <3>2, <2>5
      <4>3. \A c \in Holders(m)' : c \in Holders(m)
        BY <2>4
      <4>4. QED
        BY <4>1, <4>2, <4>3, NoNewHolder
    <3>3. QED
      BY <3>1, <3>2
  <2>9. HeldOnLease'
    BY <2>8 DEF HeldOnLease
  <2>10. QED
    BY <2>3, <2>7, <2>9
<1>4. CASE Release(b) \/ MarkDead(b)
  <2> DEFINE r == account[loan[b].acct]
             s == IF r.rich THEN "active" ELSE "cooling"
  <2>1. loan[b].place = "using" /\ (GiveBack(b, Becomes(r, s)) \/ GiveBack(b, Marked(r, "dead", 1)))
    BY <1>4 DEF Release, MarkDead
  <2>2. CASE loan[b].acct \in Members
    <3>1. r \in Account /\ s \in AccountStatus
      BY <2>2 DEF AccountShape, AccountStatus
    <3> HIDE DEF r, s
    <3>2. Becomes(r, s) \in Account
      BY <3>1, BecomesOK
    <3>3. Marked(r, "dead", 1) \in Account
      BY <3>1, MarkedOK, AccountsAssumption DEF AccountStatus
    <3>4. QED
      BY <1>3, <2>1, <3>2, <3>3
  <2>3. CASE loan[b].acct \notin Members
    <3>1. PICK x : GiveBack(b, x)
      BY <2>1
    <3>2. /\ healing = {} /\ UNCHANGED <<healing, due, signin>>
          /\ account' = [account EXCEPT ![loan[b].acct] = x]
          /\ loan' = [loan EXCEPT ![b] = [place |-> "idle", acct |-> Nobody]]
      BY <3>1 DEF GiveBack, Unlocked, Forget
    <3>3. account' = account
      BY <3>2, <2>3 DEF AccountShape
    <3>4. /\ overruled' \in [Members -> {"no", "late", "early"}]
          /\ \A m \in Members : overruled[m] # "no" => overruled'[m] # "no"
      <4>1. CASE overruled' = [overruled EXCEPT ![loan[b].acct] = "no"]
        BY <4>1, <2>3 DEF AccountShape
      <4>2. CASE Overrule({loan[b].acct}, b)
        BY <4>2, OverruleOK
      <4>3. QED
        BY <3>1, <4>1, <4>2 DEF GiveBack
    <3>5. /\ loan' \in [Borrowers -> [place : LoanPlace, acct : Members \cup {Nobody}]]
          /\ \A m \in Members : \A c \in Holders(m)' : c \in Holders(m)
      BY <3>2 DEF AccountShape, LoanPlace, Holders
    <3>6. ASSUME NEW m \in Members
          PROVE  overruled'[m] = "no" =>
                   /\ Holders(m)' # {} => account'[m].status = "working"
                   /\ \A d, c \in Holders(m)' : d = c
      BY <3>3, <3>4, <3>5, NoNewHolder
    <3>7. QED
      BY <3>2, <3>3, <3>4, <3>5, <3>6 DEF AccountShape, SigninShape, HealsCooling, HeldOnLease
  <2>4. QED
    BY <2>2, <2>3
<1>5. CASE Leave(b)
  <2> DEFINE a == loan[b].acct
  <2>1. /\ loan[b].place = "using" /\ UNCHANGED <<account, healing, due, signin>>
        /\ loan' = [loan EXCEPT ![b] = [place |-> "idle", acct |-> Nobody]]
        /\ IF Holders(a) = {b} THEN overruled' = [overruled EXCEPT ![a] = "no"]
                               ELSE UNCHANGED overruled
    BY <1>5 DEF Leave, Forget
  <2>2. /\ loan' \in [Borrowers -> [place : LoanPlace, acct : Members \cup {Nobody}]]
        /\ \A m \in Members : Holders(m)' = Holders(m) \ {b}
    BY <2>1 DEF AccountShape, LoanPlace, Holders
  <2>3. /\ overruled' \in [Members -> {"no", "late", "early"}]
        /\ \A m \in Members : Holders(m)' # {} => overruled'[m] = overruled[m]
    BY <2>1, <2>2 DEF AccountShape
  <2> HIDE DEF a
  <2>4. ASSUME NEW m \in Members
        PROVE  overruled'[m] = "no" =>
                 /\ Holders(m)' # {} => account'[m].status = "working"
                 /\ \A d, c \in Holders(m)' : d = c
    BY <2>1, <2>2, <2>3, NoNewHolder
  <2>5. QED
    BY <2>1, <2>2, <2>3, <2>4 DEF AccountShape, SigninShape, HealsCooling, HeldOnLease
<1>6. QED
  BY <1>1, <1>2, <1>4, <1>5 DEF Borrowing

\* The shape of the rows and of the loop's copies after a step that changes
\* one row, and what that does to the accounts: the form of every other step.
LEMMA RowChanges ==
    ASSUME AccountsInv, NEW a, NEW r \in Account,
           account' = [account EXCEPT ![a] = r], UNCHANGED loan,
           overruled' \in [Members -> {"no", "late", "early"}],
           \A m \in Members : overruled[m] # "no" => overruled'[m] # "no",
           a \in Members /\ Holders(a) # {} /\ overruled'[a] = "no"
               /\ account[a].status = "working" => r.status = "working"
    PROVE  AccountShape' /\ HeldOnLease'
<1>1. AccountShape'
  BY DEF AccountShape, AccountsInv
<1>2. ASSUME NEW m \in Members PROVE Holders(m)' = Holders(m)
  BY HoldersSame
<1>3. ASSUME NEW m \in Members, overruled'[m] = "no", Holders(m)' # {}
      PROVE  overruled[m] = "no" /\ (account[m].status = "working" => account'[m].status = "working")
  <2>1. overruled[m] = "no" /\ Holders(m) # {}
    BY <1>2, <1>3
  <2>2. CASE m = a
    BY <2>1, <2>2, <1>3 DEF AccountsInv, AccountShape
  <2>3. CASE m # a
    BY <2>1, <2>3 DEF AccountsInv, AccountShape
  <2>4. QED
    BY <2>2, <2>3
<1>4. HeldOnLease'
  BY <1>2, <1>3, NoNewHolder DEF HeldOnLease, AccountsInv
<1>5. QED
  BY <1>1, <1>4

LEMMA ConsumeInv ==
    ASSUME AccountsInv, NEW a \in Members, Consume(a) PROVE AccountsInv'
<1> DEFINE r == [account[a] EXCEPT !.rich = FALSE]
<1>1. r \in Account /\ r.status = account[a].status
  BY ZenonT(30) DEF AccountsInv, AccountShape, Account
<1>2. account' = [account EXCEPT ![a] = r] /\ UNCHANGED <<healing, loan, due, signin, overruled>> /\ healing = {}
  BY DEF Consume, Unlocked, AccountsInv, AccountShape
<1> HIDE DEF r
<1>3. AccountShape' /\ HeldOnLease'
  <2>1. overruled' \in [Members -> {"no", "late", "early"}]
    BY <1>2 DEF AccountsInv, AccountShape
  <2>2. QED
    BY <1>1, <1>2, <2>1, RowChanges
<1>4. QED
  BY <1>2, <1>3 DEF AccountsInv, SigninShape, HealsCooling

LEMMA HealingInv == ASSUME AccountsInv, Healing PROVE AccountsInv'
<1>1. ASSUME NEW S, account' = Reclaimed(S), UNCHANGED <<healing, loan, due, signin>>, healing = {},
             overruled' \in [Members -> {"no", "late", "early"}],
             \A m \in Members : overruled[m] # "no" => overruled'[m] # "no",
             \A m \in Members : m \in S /\ Holders(m) # {} => overruled'[m] # "no"
      PROVE  AccountsInv'
  <2>1. /\ Reclaimed(S) \in [Members -> Account]
        /\ \A m \in Members : m \notin S => Reclaimed(S)[m] = account[m]
    BY ReclaimedOK DEF AccountsInv
  <2>2. AccountShape'
    BY <1>1, <2>1 DEF AccountsInv, AccountShape
  <2>3. ASSUME NEW m \in Members PROVE Holders(m)' = Holders(m)
    BY <1>1, HoldersSame
  <2>4. ASSUME NEW m \in Members, overruled'[m] = "no", Holders(m)' # {}
        PROVE  overruled[m] = "no" /\ account'[m] = account[m]
    BY <2>4, <1>1, <2>1, <2>3
  <2>5. HeldOnLease'
    BY <2>3, <2>4, NoNewHolder DEF HeldOnLease, AccountsInv
  <2>6. QED
    BY <1>1, <2>2, <2>5 DEF AccountsInv, SigninShape, HealsCooling
<1>2. CASE Reclaim
  <2>1. /\ account' = Reclaimed(Overdue) /\ Overrule(Overdue, Nobody) /\ healing = {}
        /\ UNCHANGED <<healing, loan, due, signin>>
    BY <1>2 DEF Reclaim, Unlocked
  <2>2. \A m \in Members : Nobody \notin Holders(m)
    BY AccountsAssumption DEF Holders
  <2>3. /\ overruled' \in [Members -> {"no", "late", "early"}]
        /\ \A m \in Members : overruled[m] # "no" => overruled'[m] # "no"
        /\ \A m \in Members : m \in Overdue /\ Holders(m) # {} => overruled'[m] # "no"
    BY <2>1, <2>2, OverruleOK DEF AccountsInv
  <2>4. QED
    BY <1>1, <2>1, <2>3
<1>3. CASE Wake
  <2>1. UNCHANGED <<account, loan, due, signin, overruled>> /\ healing' = Rested
    BY <1>3 DEF Wake
  <2>2. HealsCooling'
    BY <2>1 DEF HealsCooling, Rested, HasStatus
  <2>3. HeldOnLease'
    BY <2>1, HoldersSame DEF HeldOnLease, AccountsInv
  <2>4. QED
    BY <2>1, <2>2, <2>3 DEF AccountsInv, AccountShape, SigninShape
<1>4. CASE WakeAll
  <2>1. account' = Reclaimed(Rested) /\ healing = {} /\ UNCHANGED <<healing, loan, due, signin, overruled>>
    BY <1>4 DEF WakeAll, Unlocked
  <2>2. \A m \in Members : m \in Rested /\ Holders(m) # {} => overruled[m] # "no"
    BY DEF AccountsInv, HeldOnLease, Rested, HasStatus
  <2>3. QED
    BY <1>1, <2>1, <2>2 DEF AccountsInv, AccountShape
<1>5. ASSUME NEW a \in Members, HealFails(a) PROVE AccountsInv'
  <2>1. account[a] \in Account /\ account[a].status = "cooling"
    BY <1>5 DEF HealFails, AccountsInv, HealsCooling, AccountShape
  <2>2. PICK r \in Account : account' = [account EXCEPT ![a] = r]
    <3>1. Marked(account[a], "dead", 1) \in Account /\ Marked(account[a], "cooling", 1) \in Account
      <4>1. 1 \in 1 .. MaxFails /\ "dead" \in AccountStatus /\ "cooling" \in AccountStatus
        BY AccountsAssumption DEF AccountStatus
      <4>2. QED
        BY <2>1, <4>1, MarkedOK
    <3> DEFINE dead == Marked(account[a], "dead", 1)
               cooling == Marked(account[a], "cooling", 1)
    <3>2. account' = [account EXCEPT ![a] = dead] \/ account' = [account EXCEPT ![a] = cooling]
      BY <1>5 DEF HealFails, AccountsInv, AccountShape
    <3>3. dead \in Account /\ cooling \in Account
      BY <3>1
    <3> HIDE DEF dead, cooling
    <3>4. QED
      BY <3>2, <3>3
  <2>3. UNCHANGED <<loan, due, signin, overruled>> /\ healing' = healing \ {a}
    BY <1>5 DEF HealFails
  <2>4. AccountShape' /\ HeldOnLease'
    <3>1. overruled' \in [Members -> {"no", "late", "early"}]
      BY <2>3 DEF AccountsInv, AccountShape
    <3>2. QED
      BY <2>1, <2>2, <2>3, <3>1, RowChanges
  <2>5. HealsCooling'
    BY <2>2, <2>3 DEF AccountsInv, HealsCooling, AccountShape
  <2>6. QED
    BY <2>3, <2>4, <2>5 DEF AccountsInv, SigninShape
<1>6. ASSUME NEW a \in Members, HealBreaks(a) PROVE AccountsInv'
  <2>1. UNCHANGED <<account, loan, due, signin, overruled>> /\ healing' = {}
    BY <1>6 DEF HealBreaks
  <2>2. HeldOnLease'
    BY <2>1, HoldersSame DEF HeldOnLease, AccountsInv
  <2>3. QED
    BY <2>1, <2>2 DEF AccountsInv, AccountShape, SigninShape, HealsCooling
<1>7. QED
  BY <1>2, <1>3, <1>4, <1>5, <1>6 DEF Healing

\* What the check-in loop writes, it writes over whoever has the account.
LEMMA SigninWritesInv ==
    ASSUME AccountsInv, NEW r \in Account, SigninWrites(r) PROVE AccountsInv'
<1> DEFINE a == signin.copy.acct
<1>1. /\ account' = [account EXCEPT ![a] = r] /\ Overrule({a}, Nobody) /\ healing = {}
      /\ UNCHANGED <<healing, loan, due>> /\ signin' = [place |-> "next", copy |-> NoCopy]
  BY DEF SigninWrites, Unlocked, SigninRests
<1> HIDE DEF a
<1>2. \A m \in Members : Nobody \notin Holders(m)
  BY AccountsAssumption DEF Holders
<1>3. /\ overruled' \in [Members -> {"no", "late", "early"}]
      /\ \A m \in Members : overruled[m] # "no" => overruled'[m] # "no"
      /\ a \in Members /\ Holders(a) # {} => overruled'[a] # "no"
  BY <1>1, <1>2, OverruleOK DEF AccountsInv
<1>4. AccountShape' /\ HeldOnLease'
  BY <1>1, <1>3, RowChanges
<1>5. SigninShape'
  BY <1>1 DEF AccountsInv, SigninShape, SigninPlace
<1>6. QED
  BY <1>1, <1>4, <1>5 DEF AccountsInv, HealsCooling

LEMMA SigninInv == ASSUME AccountsInv, Signin PROVE AccountsInv'
<1>1. ASSUME UNCHANGED <<account, healing, loan, overruled>>, SigninShape' PROVE AccountsInv'
  <2>1. HeldOnLease'
    BY <1>1, HoldersSame DEF HeldOnLease, AccountsInv
  <2>2. QED
    BY <1>1, <2>1 DEF AccountsInv, AccountShape, HealsCooling
<1>2. CASE LoadBatch
  <2>1. PICK S \in SUBSET BatchRows \ {{}} :
          due' = {[acct |-> a, rich |-> account[a].rich, fails |-> account[a].fails] : a \in S}
    BY <1>2, Zenon DEF LoadBatch
  <2>2. due' \subseteq Copy
    BY <2>1 DEF BatchRows, HasStatus, AccountsInv, AccountShape, Account, Copy
  <2>3. signin' \in [place : SigninPlace, copy : Copy \cup {NoCopy}] /\ signin'.place = "next"
    BY <1>2 DEF LoadBatch, SigninAt, AccountsInv, SigninShape, SigninPlace
  <2>4. QED
    BY <1>1, <1>2, <2>2, <2>3 DEF LoadBatch, SigninShape
<1>3. ASSUME NEW c \in due, NextRow(c) PROVE AccountsInv'
  <2>1. signin' = [place |-> "asking", copy |-> c] /\ due' = due \ {c}
        /\ UNCHANGED <<account, healing, loan, overruled>>
    BY <1>3 DEF NextRow
  <2>2. c \in Copy /\ due' \subseteq Copy
    BY <1>3, <2>1 DEF AccountsInv, SigninShape
  <2>3. QED
    BY <1>1, <2>1, <2>2 DEF SigninShape, SigninPlace
<1>4. CASE BatchDone \/ SigninRaises
  <2>1. UNCHANGED <<account, healing, loan, due, overruled>>
    BY <1>4 DEF BatchDone, SigninRaises
  <2>2. signin' \in [place : SigninPlace, copy : Copy \cup {NoCopy}] /\ signin'.place \in {"asleep", "next"}
    BY <1>4 DEF BatchDone, SigninRaises, SigninAt, SigninRests, AccountsInv, SigninShape, SigninPlace
  <2>3. QED
    BY <1>1, <2>1, <2>2 DEF AccountsInv, SigninShape
<1>5. CASE CheckinReturns \/ StampCheckin
  <2>1. UNCHANGED <<account, healing, loan, due, overruled>> /\ signin.place \in {"asking", "stamp"}
    BY <1>5 DEF CheckinReturns, StampCheckin
  <2>2. signin' \in [place : SigninPlace, copy : Copy \cup {NoCopy}] /\ signin'.copy = signin.copy
    BY <1>5 DEF CheckinReturns, StampCheckin, SigninAt, AccountsInv, SigninShape, SigninPlace
  <2>3. QED
    BY <1>1, <2>1, <2>2 DEF AccountsInv, SigninShape
<1>6. CASE CreditCheckin
  <2> DEFINE a == signin.copy.acct
  <2>1. /\ signin.place = "credit" /\ healing = {} /\ UNCHANGED <<healing, loan, due, overruled>>
        /\ account' = [account EXCEPT ![a].rich = TRUE] \/ account' = account
    BY <1>6 DEF CreditCheckin, Unlocked
  <2>2. SigninShape'
    <3>1. signin' \in [place : SigninPlace, copy : Copy \cup {NoCopy}] /\ signin'.copy = signin.copy
      BY <1>6 DEF CreditCheckin, SigninAt, AccountsInv, SigninShape, SigninPlace
    <3>2. QED
      BY <2>1, <3>1 DEF AccountsInv, SigninShape
  <2>3. a \in Members
    BY <2>1 DEF AccountsInv, SigninShape, Copy
  <2> HIDE DEF a
  <2>4. CASE account' = [account EXCEPT ![a].rich = TRUE]
    <3> DEFINE r == [account[a] EXCEPT !.rich = TRUE]
    <3>1. r \in Account /\ r.status = account[a].status
      BY <2>3, ZenonT(30) DEF AccountsInv, AccountShape, Account
    <3>2. account' = [account EXCEPT ![a] = r]
      BY <2>4, <2>3 DEF AccountsInv, AccountShape
    <3> HIDE DEF r
    <3>3. overruled' \in [Members -> {"no", "late", "early"}]
      BY <2>1 DEF AccountsInv, AccountShape
    <3>4. AccountShape' /\ HeldOnLease'
      BY <2>1, <3>1, <3>2, <3>3, RowChanges
    <3>5. QED
      BY <2>1, <2>2, <3>4 DEF AccountsInv, HealsCooling
  <2>5. QED
    BY <1>1, <2>1, <2>2, <2>4
<1>7. CASE MarkActive \/ Relogin \/ ReloginFails \/ NoPassword
  <2>1. signin.copy \in Copy
    BY <1>7 DEF MarkActive, Relogin, ReloginFails, NoPassword, AccountsInv, SigninShape
  <2>2. account[signin.copy.acct] \in Account /\ signin.copy.rich \in BOOLEAN /\ signin.copy.fails \in 1 .. MaxFails
    BY <2>1 DEF Copy, AccountsInv, AccountShape
  <2>3. CASE MarkActive
    <3>1. Marked(account[signin.copy.acct], "active", 1) \in Account
      <4>1. 1 \in 1 .. MaxFails /\ "active" \in AccountStatus
        BY AccountsAssumption DEF AccountStatus
      <4>2. QED
        BY <2>2, <4>1, MarkedOK
    <3>2. SigninWrites(Marked(account[signin.copy.acct], "active", 1))
      BY <2>3 DEF MarkActive
    <3>3. QED
      BY <3>1, <3>2, SigninWritesInv
  <2>4. CASE Relogin
    <3>1. PICK r : /\ r = [status |-> "active", rich |-> signin.copy.rich, rested |-> FALSE,
                           late |-> FALSE, fails |-> signin.copy.fails]
                   /\ SigninWrites(r)
      BY <2>4 DEF Relogin
    <3>2. r \in Account
      BY <2>2, <3>1 DEF Account, AccountStatus
    <3>3. QED
      BY <3>1, <3>2, SigninWritesInv
  <2>5. CASE ReloginFails
    <3> DEFINE r == account[signin.copy.acct]
               n == signin.copy.fails
    <3>1. SigninWrites(IF n >= MaxFails THEN Marked(r, "dead", 1) ELSE Marked(r, "active", n + 1))
      BY <2>5 DEF ReloginFails
    <3>2. r \in Account /\ n \in 1 .. MaxFails
      BY <2>2
    <3> HIDE DEF r, n
    <3>3. Marked(r, "dead", 1) \in Account
      BY <3>2, MarkedOK, AccountsAssumption DEF AccountStatus
    <3>4. ~(n >= MaxFails) => Marked(r, "active", n + 1) \in Account
      <4>1. ~(n >= MaxFails) => n + 1 \in 1 .. MaxFails
        BY <3>2, AccountsAssumption
      <4>2. QED
        BY <3>2, <4>1, MarkedOK DEF AccountStatus
    <3>5. QED
      BY <3>1, <3>3, <3>4, SigninWritesInv
  <2>6. CASE NoPassword
    <3>1. Marked(account[signin.copy.acct], "dead", 1) \in Account
      <4>1. 1 \in 1 .. MaxFails /\ "dead" \in AccountStatus
        BY AccountsAssumption DEF AccountStatus
      <4>2. QED
        BY <2>2, <4>1, MarkedOK
    <3>2. SigninWrites(Marked(account[signin.copy.acct], "dead", 1))
      BY <2>6 DEF NoPassword
    <3>3. QED
      BY <3>1, <3>2, SigninWritesInv
  <2>7. QED
    BY <1>7, <2>3, <2>4, <2>5, <2>6
<1>8. QED
  BY <1>2, <1>3, <1>4, <1>5, <1>6, <1>7 DEF Signin

LEMMA RegisteringInv == ASSUME AccountsInv, Registering PROVE AccountsInv'
<1>1. CASE RegisterAccount \/ RegisterFails
  <2>1. UNCHANGED <<account, healing, loan, due, signin, overruled>>
    BY <1>1 DEF RegisterAccount, RegisterFails
  <2>2. HeldOnLease'
    BY <2>1, HoldersSame DEF HeldOnLease, AccountsInv
  <2>3. QED
    BY <2>1, <2>2 DEF AccountsInv, AccountShape, SigninShape, HealsCooling
<1>2. ASSUME NEW a \in Members, Add(a) PROVE AccountsInv'
  <2>1. PICK rich \in BOOLEAN :
          account' = [account EXCEPT ![a] = [status |-> "active", rich |-> rich, rested |-> FALSE,
                                             late |-> FALSE, fails |-> 1]]
    BY <1>2, Zenon DEF Add
  <2> DEFINE r == [status |-> "active", rich |-> rich, rested |-> FALSE, late |-> FALSE, fails |-> 1]
  <2>2. r \in Account
    BY AccountsAssumption DEF Account, AccountStatus
  <2>3. account' = [account EXCEPT ![a] = r]
    BY <2>1
  <2> HIDE DEF r
  <2>4. /\ healing = {} /\ UNCHANGED <<healing, loan, due, signin, overruled>>
        /\ account[a].status # "working"
    BY <1>2 DEF Add, Unlocked
  <2>5. overruled' \in [Members -> {"no", "late", "early"}]
    BY <2>4 DEF AccountsInv, AccountShape
  <2>6. AccountShape' /\ HeldOnLease'
    BY <2>2, <2>3, <2>4, <2>5, RowChanges
  <2>7. QED
    BY <2>4, <2>6 DEF AccountsInv, SigninShape, HealsCooling
<1>3. CASE MarkOk
  <2>1. /\ joining \in Members /\ account' = [account EXCEPT ![joining] = Marked(@, "active", 1)]
        /\ Overrule({joining}, Nobody) /\ healing = {} /\ UNCHANGED <<healing, loan, due, signin>>
    BY <1>3 DEF MarkOk, Unlocked
  <2> DEFINE r == Marked(account[joining], "active", 1)
  <2>2. r \in Account /\ account' = [account EXCEPT ![joining] = r]
    BY <2>1, MarkedOK, AccountsAssumption DEF AccountsInv, AccountShape, AccountStatus
  <2> HIDE DEF r
  <2>3. \A m \in Members : Nobody \notin Holders(m)
    BY AccountsAssumption DEF Holders
  <2>4. /\ overruled' \in [Members -> {"no", "late", "early"}]
        /\ \A m \in Members : overruled[m] # "no" => overruled'[m] # "no"
        /\ Holders(joining) # {} => overruled'[joining] # "no"
    BY <2>1, <2>3, OverruleOK DEF AccountsInv
  <2>5. AccountShape' /\ HeldOnLease'
    BY <2>1, <2>2, <2>4, RowChanges
  <2>6. QED
    BY <2>1, <2>5 DEF AccountsInv, SigninShape, HealsCooling
<1>4. QED
  BY <1>1, <1>2, <1>3 DEF Registering

LEMMA TimeInv == ASSUME AccountsInv, Time PROVE AccountsInv'
<1>1. PICK a \in Members : Rests(a) \/ LoanExpires(a)
  BY DEF Time
<1>2. UNCHANGED <<healing, loan, due, signin, overruled>>
  BY <1>1 DEF Rests, LoanExpires
<1>3. PICK r \in Account : account' = [account EXCEPT ![a] = r] /\ r.status = account[a].status
  <2>1. /\ [account[a] EXCEPT !.rested = TRUE] \in Account
        /\ [account[a] EXCEPT !.rested = TRUE].status = account[a].status
        /\ [account[a] EXCEPT !.late = TRUE] \in Account
        /\ [account[a] EXCEPT !.late = TRUE].status = account[a].status
    BY ZenonT(30) DEF AccountsInv, AccountShape, Account
  <2>2. QED
    BY <1>1, <2>1 DEF Rests, LoanExpires, AccountsInv, AccountShape
<1>4. overruled' \in [Members -> {"no", "late", "early"}]
  BY <1>2 DEF AccountsInv, AccountShape
<1>5. AccountShape' /\ HeldOnLease'
  BY <1>2, <1>3, <1>4, RowChanges
<1>6. HealsCooling'
  BY <1>2, <1>3 DEF AccountsInv, HealsCooling, AccountShape
<1>7. QED
  BY <1>2, <1>5, <1>6 DEF AccountsInv, SigninShape

LEMMA AccountsStep == ASSUME AccountsInv, [AccountsNext]_accountVars PROVE AccountsInv'
<1>1. CASE UNCHANGED accountVars
  <2>1. HeldOnLease'
    BY <1>1, HoldersSame DEF accountVars, HeldOnLease, AccountsInv
  <2>2. QED
    BY <1>1, <2>1 DEF accountVars, AccountsInv, AccountShape, SigninShape, HealsCooling
<1>2. CASE AccountsNext
  BY <1>2, BorrowingInv, ConsumeInv, HealingInv, SigninInv, RegisteringInv, TimeInv DEF AccountsNext
<1>3. QED
  BY <1>1, <1>2

\* Two users of one account, only after somebody else has declared it free
\* while it was in use (api/account_pool/borrow.py).
THEOREM AccountsAreLentOnce == AccountsSpec => []SharedOnlyAfterOverrule
<1>1. AccountsInv /\ [AccountsNext]_accountVars => AccountsInv'
  BY AccountsStep
<1>2. AccountsInv => SharedOnlyAfterOverrule
  <2> SUFFICES ASSUME AccountsInv, NEW a \in Members, overruled[a] = "no"
               PROVE  ~(Cardinality(Holders(a)) > 1)
    BY DEF SharedOnlyAfterOverrule
  <2>1. \A b, c \in Holders(a) : b = c
    BY DEF AccountsInv, HeldOnLease
  <2>2. CASE Holders(a) = {}
    BY <2>2, FS_EmptySet
  <2>3. ASSUME NEW b \in Holders(a) PROVE ~(Cardinality(Holders(a)) > 1)
    <3>1. Holders(a) = {b}
      BY <2>1, <2>3
    <3>2. Cardinality(Holders(a)) = 1
      BY <3>1, FS_Singleton
    <3>3. QED
      BY <3>2
  <2>4. QED
    BY <2>2, <2>3
<1>3. QED
  BY <1>1, <1>2, AccountsInitInv, PTL DEF AccountsSpec

-----------------------------------------------------------------------------
(* Types of the router                                                     *)

LEMMA RouterTypesInit == RouterInit => RouterTypes
<1>1. 0 \in 0 .. DegradeAfter /\ 0 \in 0 .. MaxLoad
  BY RouterAssumption
<1>2. QED
  BY <1>1 DEF RouterInit, RouterTypes, Idle

\* A request is given to a provider.
LEMMA GiveTypes ==
    ASSUME RouterTypes, NEW r, NEW p \in Providers, NEW n \in {1, 2}, Give(r, p, n)
    PROVE  /\ load' \in [Providers -> 0 .. MaxLoad]
           /\ request' \in [Visitors -> [at : {"idle", "routed", "running", "limited"},
                                         by : Providers \cup {None}]]
<1>1. load[p] \in 0 .. MaxLoad /\ load[p] + n <= MaxLoad
  BY DEF RouterTypes, Give
<1>2. load[p] + n \in 0 .. MaxLoad
  BY <1>1, RouterAssumption
<1>3. load' = [load EXCEPT ![p] = load[p] + n] /\ request' = [request EXCEPT ![r] = [at |-> "routed", by |-> p]]
  BY DEF Give
<1>4. QED
  BY <1>2, <1>3 DEF RouterTypes

\* A result is reported.
LEMMA ResultTypes ==
    ASSUME RouterTypes, NEW p, RecordSuccess(p) \/ RecordFailure(p)
    PROVE  /\ load' \in [Providers -> 0 .. MaxLoad] /\ cooled' \in [Providers -> BOOLEAN]
           /\ circuit' \in [Providers -> {"CLOSED", "OPEN", "HALF_OPEN"}]
<1>1. \A q \in Providers : (IF load[q] = 0 THEN 0 ELSE load[q] - 1) \in 0 .. MaxLoad
  <2>1. load \in [Providers -> 0 .. MaxLoad] /\ MaxLoad \in Nat
    BY RouterAssumption DEF RouterTypes
  <2>2. QED
    BY <2>1
<1>2. load' = [load EXCEPT ![p] = IF @ = 0 THEN 0 ELSE @ - 1]
  BY DEF RecordSuccess, RecordFailure
<1>3. load' \in [Providers -> 0 .. MaxLoad]
  BY <1>1, <1>2 DEF RouterTypes
<1>4. circuit' \in [Providers -> {"CLOSED", "OPEN", "HALF_OPEN"}] /\ cooled' \in [Providers -> BOOLEAN]
  <2>1. /\ circuit \in [Providers -> {"CLOSED", "OPEN", "HALF_OPEN"}]
        /\ cooled \in [Providers -> BOOLEAN]
    BY DEF RouterTypes
  <2>2. CASE UNCHANGED <<circuit, cooled>>
    BY <2>1, <2>2
  <2>3. CASE RecordSuccess(p)
    BY <2>1, <2>3 DEF RecordSuccess
  <2>4. CASE circuit' = [circuit EXCEPT ![p] = "OPEN"] /\ cooled' = [cooled EXCEPT ![p] = FALSE]
    BY <2>1, <2>4
  <2>5. QED
    BY <2>2, <2>3, <2>4 DEF RecordFailure
<1>5. QED
  BY <1>3, <1>4

\* A rate limit is counted, or a provider is well again.
LEMMA HealthTypes ==
    ASSUME RouterTypes, NEW p, Degrades(p) \/ Recovered(p)
    PROVE  /\ health' \in [Providers -> {"healthy", "degraded"}]
           /\ fails' \in [Providers -> 0 .. DegradeAfter]
           /\ Degrades(p) => ripe' \in [Providers -> BOOLEAN]
<1>1. \A n \in 0 .. DegradeAfter : Later(n) \in 0 .. DegradeAfter
  BY RouterAssumption DEF Later
<1>2. 0 \in 0 .. DegradeAfter
  BY RouterAssumption
<1>3. ASSUME Degrades(p)
      PROVE  /\ health' \in [Providers -> {"healthy", "degraded"}]
             /\ fails' \in [Providers -> 0 .. DegradeAfter] /\ ripe' \in [Providers -> BOOLEAN]
  <2>1. fails' = [fails EXCEPT ![p] = Later(fails[p])]
    BY <1>3 DEF Degrades
  <2>2. fails' \in [Providers -> 0 .. DegradeAfter]
    BY <1>1, <2>1 DEF RouterTypes
  <2>3. QED
    BY <1>3, <2>2 DEF Degrades, RouterTypes
<1>4. CASE Recovered(p)
  BY <1>2, <1>3, <1>4 DEF Recovered, RouterTypes
<1>5. QED
  BY <1>3, <1>4

LEMMA FallbackTypes ==
    ASSUME RouterTypes, NEW r \in Visitors, NEW p \in Providers, Fallback(r, p)
    PROVE  RouterTypes'
<1> DEFINE others == Providers \ {p}
<1>1. others # {} /\ others \subseteq Providers
  BY RouterAssumption
<1>2. Candidates(others) \subseteq Providers
  BY <1>1 DEF Candidates, Retried
<1>3. \E q \in Providers : Give(r, q, 2)
  BY <1>2 DEF Fallback
<1>4. circuit' \in [Providers -> {"CLOSED", "OPEN", "HALF_OPEN"}] /\ UNCHANGED <<cooled, registryVars>>
  BY DEF Fallback, RouterTypes, Give
<1>5. QED
  BY <1>3, <1>4, GiveTypes DEF RouterTypes, registryVars

LEMMA RouterTypesStep == ASSUME RouterTypes, [RouterNext]_routerVars PROVE RouterTypes'
<1>1. ASSUME NEW r \in Visitors, NEW p \in Providers, Direct(r, p) PROVE RouterTypes'
  BY <1>1, GiveTypes DEF Direct, Give, RouterTypes, registryVars
<1>2. ASSUME NEW r \in Visitors, NEW p \in Providers, Fallback(r, p) PROVE RouterTypes'
  BY <1>2, FallbackTypes
<1>3. ASSUME NEW r \in Visitors, Drop(r) \/ StartsRunning(r) PROVE RouterTypes'
  BY <1>3 DEF Drop, StartsRunning, RouterTypes, registryVars, router, Idle
<1>4. ASSUME NEW r \in Visitors, Enqueue(r) PROVE RouterTypes'
  BY <1>4, ResultTypes DEF Enqueue, RouterTypes, registryVars, Idle
<1>5. ASSUME NEW r \in Visitors, Completes(r) PROVE RouterTypes'
  BY <1>5, ResultTypes, HealthTypes DEF Completes, RouterTypes, Idle
<1>6. ASSUME NEW r \in Visitors, RateLimited(r) PROVE RouterTypes'
  BY <1>6, HealthTypes DEF RateLimited, RouterTypes, router
<1>7. ASSUME NEW r \in Visitors, Fails(r) PROVE RouterTypes'
  BY <1>7, ResultTypes DEF Fails, RouterTypes, registryVars, Idle
<1>8. CASE TryRecoverAll
  <2>1. ripe' \in [Providers -> BOOLEAN]
    <3>1. PICK p : Waits(p)
      BY <1>8, Zenon DEF TryRecoverAll
    <3>2. \A q \in Providers : (q \in Degraded \ {p}) \in BOOLEAN
      OBVIOUS
    <3>3. QED
      BY <3>1, <3>2, Zenon DEF Waits
  <2>2. UNCHANGED <<health, fails>> \/ \E p : Recovered(p)
    BY <1>8 DEF TryRecoverAll, TryRecover
  <2>3. health' \in [Providers -> {"healthy", "degraded"}] /\ fails' \in [Providers -> 0 .. DegradeAfter]
    BY <2>2, HealthTypes DEF RouterTypes
  <2>4. QED
    BY <1>8, <2>1, <2>3 DEF TryRecoverAll, RouterTypes, router
<1>9. ASSUME NEW p \in Providers, Cool(p) PROVE RouterTypes'
  BY <1>9 DEF Cool, RouterTypes, registryVars
<1>10. CASE UNCHANGED routerVars
  BY <1>10 DEF routerVars, router, registryVars, RouterTypes
<1>11. QED
  BY <1>1, <1>2, <1>3, <1>4, <1>5, <1>6, <1>7, <1>8, <1>9, <1>10 DEF RouterNext

\* Health, failures, circuits and loads stay in their types, for every list of
\* providers and every threshold (api/providers/registry.py:104).
THEOREM RouterTypeCorrect == RouterSpec => []RouterTypes
BY RouterTypesInit, RouterTypesStep, PTL DEF RouterSpec

-----------------------------------------------------------------------------
(* Types of the guard                                                      *)

(* The rules, whoever writes them: the stamps of the table and of what has *)
(* lapsed are of changes made, and a rule is kept for its own address.     *)
RulesBounds ==
    /\ RulesTyped /\ stamps <= MaxChanges
    /\ \A a \in Addresses : table[a] # NoRule => table[a].stamp >= 1
    /\ \A q \in writing : q.stamp >= 1
    /\ lapsed \subseteq 1 .. stamps
    /\ fresh \in BOOLEAN /\ doomed \subseteq Addresses
    /\ DOMAIN memory = Addresses
    /\ \A a \in Addresses : memory[a] # NoRule => memory[a].ip = a
    /\ \A p \in pending : p.rule # NoRule => p.rule.ip = p.ip

(* The limits: what is counted of a caller stops at them.                  *)
AgesBound(ages) == Len(ages.rate) <= Limit /\ Len(ages.daily) <= DailyLimit /\ Len(ages.wrong) < MaxWrong

LimitsBounds ==
    /\ tokens \in [Callers -> 0 .. Capacity] /\ quiet \in [Callers -> 0 .. Window]
    /\ recent \in [Callers -> Ages]
    /\ \A a \in Callers : AgesBound(recent[a])

LEMMA RulesBoundsInit == RulesInit => RulesBounds
<1> SUFFICES ASSUME RulesInit PROVE RulesBounds
  OBVIOUS
<1>1. RulesTyped
  BY RulesInitInv DEF RulesInv
<1>2. 0 <= MaxChanges
  BY RulesAssumption
<1>3. QED
  BY <1>1, <1>2 DEF RulesInit, RulesBounds

\* What gets a stamp is written later, and applied later still.
LEMMA StampBounds ==
    ASSUME RulesBounds, RulesTyped', NEW a \in Addresses, NEW kind, Stamp(a, kind)
    PROVE  RulesBounds'
<1>1. stamps \in Nat /\ MaxChanges \in Nat
  BY RulesAssumption DEF RulesBounds, RulesTyped
<1>2. /\ stamps < MaxChanges /\ stamps' = stamps + 1
      /\ UNCHANGED <<table, memory, lapsed, fresh, pending, doomed>>
      /\ writing' = writing \cup {[ip |-> a, kind |-> kind, stamp |-> stamps + 1]}
  BY DEF Stamp
<1>3. stamps' <= MaxChanges /\ lapsed' \subseteq 1 .. stamps'
  BY <1>1, <1>2 DEF RulesBounds
<1>4. \A q \in writing' : q.stamp >= 1
  BY <1>1, <1>2 DEF RulesBounds
<1>5. QED
  BY <1>2, <1>3, <1>4 DEF RulesBounds

LEMMA WriteBounds ==
    ASSUME RulesBounds, RulesTyped', NEW rule \in writing, Write(rule) \/ WriteFails(rule)
    PROVE  RulesBounds'
<1>1. /\ writing' = writing \ {rule} /\ UNCHANGED <<stamps, memory, lapsed, fresh, doomed>>
      /\ table' = table \/ table' = [table EXCEPT ![rule.ip] = rule]
      /\ pending' = pending \/ pending' = pending \cup {[ip |-> rule.ip, rule |-> rule]}
  BY DEF Write, WriteFails
<1>2. rule.stamp >= 1 /\ table \in [Addresses -> Rules \cup {NoRule}]
  BY DEF RulesBounds, RulesTyped
<1>3. \A b \in Addresses : table'[b] # NoRule => table'[b].stamp >= 1
  BY <1>1, <1>2 DEF RulesBounds
<1>4. \A p \in pending' : p.rule # NoRule => p.rule.ip = p.ip
  BY <1>1 DEF RulesBounds
<1>5. QED
  BY <1>1, <1>3, <1>4 DEF RulesBounds

LEMMA TableBounds ==
    ASSUME RulesBounds, RulesTyped', NEW a \in Addresses,
           BlockIp(a) \/ AutoBlockIp(a) \/ UnblockIp(a) \/ Status(a) \/ RemoveExpired(a)
    PROVE  RulesBounds'
<1>1. CASE BlockIp(a) \/ AutoBlockIp(a)
  BY <1>1, StampBounds DEF BlockIp, AutoBlockIp
<1>2. CASE UnblockIp(a)
  <2>1. /\ stamps < MaxChanges /\ stamps' = stamps + 1 /\ table' = [table EXCEPT ![a] = NoRule]
        /\ pending' = pending \cup {[ip |-> a, rule |-> NoRule]}
        /\ UNCHANGED <<memory, lapsed, fresh, doomed, writing>>
    BY <1>2 DEF UnblockIp
  <2>2. stamps \in Nat /\ MaxChanges \in Nat /\ table \in [Addresses -> Rules \cup {NoRule}]
    BY RulesAssumption DEF RulesBounds, RulesTyped
  <2>3. stamps' <= MaxChanges /\ lapsed' \subseteq 1 .. stamps'
    BY <2>1, <2>2 DEF RulesBounds
  <2>4. \A b \in Addresses : table'[b] # NoRule => table'[b].stamp >= 1
    BY <2>1, <2>2 DEF RulesBounds
  <2>5. \A p \in pending' : p.rule # NoRule => p.rule.ip = p.ip
    BY <2>1 DEF RulesBounds
  <2>6. QED
    BY <2>1, <2>3, <2>4, <2>5 DEF RulesBounds
<1>3. CASE Status(a)
  BY <1>3 DEF Status, RulesBounds
<1>4. CASE RemoveExpired(a)
  <2>1. \A b \in Addresses : table'[b] \in {table[b], NoRule}
    BY <1>4 DEF RemoveExpired, RulesBounds, RulesTyped
  <2>2. QED
    BY <1>4, <2>1 DEF RemoveExpired, RulesBounds
<1>5. QED
  BY <1>1, <1>2, <1>3, <1>4

LEMMA CopyBounds ==
    ASSUME RulesBounds, RulesTyped',
           \/ \E p \in pending : ApplyIpRule(p)
           \/ \E s \in Syncs : Fetch(s) \/ Swap(s) \/ CleanupExpired(s) \/ SyncFails(s)
    PROVE  RulesBounds'
<1>1. ASSUME NEW p \in pending, ApplyIpRule(p) PROVE RulesBounds'
  <2>1. memory' = [memory EXCEPT ![p.ip] = p.rule] /\ (p.rule # NoRule => p.rule.ip = p.ip)
    BY <1>1 DEF ApplyIpRule, RulesBounds
  <2>2. DOMAIN memory' = Addresses /\ \A a \in Addresses : memory'[a] # NoRule => memory'[a].ip = a
    BY <2>1 DEF RulesBounds
  <2>3. fresh' \in BOOLEAN /\ pending' \subseteq pending /\ UNCHANGED <<ruleVars, lapsed>>
    BY <1>1 DEF ApplyIpRule
  <2>4. QED
    BY <2>2, <2>3 DEF RulesBounds, ruleVars
<1>2. ASSUME NEW s \in Syncs, Fetch(s) \/ SyncFails(s) PROVE RulesBounds'
  BY <1>2 DEF Fetch, SyncFails, RulesBounds, ruleVars
<1>3. ASSUME NEW s \in Syncs, Swap(s) PROVE RulesBounds'
  <2>1. \A a \in Addresses : memory'[a] # NoRule => memory'[a].ip = a
    BY <1>3 DEF Swap
  <2>2. DOMAIN memory' = Addresses /\ fresh' = TRUE
        /\ UNCHANGED <<table, stamps, writing, doomed, lapsed, pending>>
    BY <1>3 DEF Swap, ruleVars
  <2>3. QED
    BY <2>1, <2>2 DEF RulesBounds
<1>4. ASSUME NEW s \in Syncs, CleanupExpired(s) PROVE RulesBounds'
  <2>1. \A a \in Addresses : table'[a] \in {table[a], NoRule}
    BY <1>4 DEF CleanupExpired
  <2>2. QED
    BY <1>4, <2>1 DEF CleanupExpired, RulesBounds
<1>5. QED
  BY <1>1, <1>2, <1>3, <1>4

LEMMA LapseBounds == ASSUME RulesBounds, RulesTyped', Lapse \/ Passes \/ Gc PROVE RulesBounds'
<1>1. CASE Lapse
  <2>1. PICK a \in Addresses : table[a] # NoRule /\ lapsed' = lapsed \cup {table[a].stamp}
    BY <1>1 DEF Lapse, Rows
  <2>2. table[a].stamp \in 1 .. stamps
    BY <2>1 DEF RulesBounds, RulesTyped, Rules
  <2>3. QED
    BY <1>1, <2>1, <2>2 DEF Lapse, RulesBounds, ruleVars
<1>2. CASE Passes \/ Gc
  BY <1>2 DEF Passes, Gc, RulesBounds, ruleVars
<1>3. QED
  BY <1>1, <1>2

\* The calls of a caller, when a violation is counted.
LEMMA ViolateBounds ==
    ASSUME LimitsBounds, NEW a \in Callers, NEW ages \in Ages, AgesBound(ages), Violate(a, ages)
    PROVE  recent' \in [Callers -> Ages] /\ \A b \in Callers : AgesBound(recent'[b])
<1>1. /\ Len(ages.wrong) \in Nat /\ Len(<<>>) = 0 /\ <<>> \in Seq(Nat)
      /\ Append(ages.wrong, 0) \in Seq(Nat) /\ Len(Append(ages.wrong, 0)) = Len(ages.wrong) + 1
  <2>1. ages.wrong \in Seq(Nat) /\ 0 \in Nat
    BY DEF Ages
  <2>2. QED
    BY <2>1, EmptySeq, LenProperties, AppendProperties
<1>2. MaxWrong \in Nat \ {0}
  BY RulesAssumption
<1>3. \E wrong \in Seq(Nat) : Len(wrong) < MaxWrong /\ recent' = [recent EXCEPT ![a] = [ages EXCEPT !.wrong = wrong]]
  <2>1. CASE Len(ages.wrong) + 1 >= MaxWrong
    <3>1. recent' = [recent EXCEPT ![a] = [ages EXCEPT !.wrong = <<>>]]
      BY <2>1 DEF Violate
    <3>2. << >> \in Seq(Nat) /\ Len(<< >>) < MaxWrong
      BY <1>2, EmptySeq
    <3>3. QED
      BY <3>1, <3>2, Zenon
  <2>2. CASE ~(Len(ages.wrong) + 1 >= MaxWrong)
    <3>1. recent' = [recent EXCEPT ![a] = [ages EXCEPT !.wrong = Append(ages.wrong, 0)]]
      BY <2>2 DEF Violate
    <3>2. Len(Append(ages.wrong, 0)) < MaxWrong
      BY <1>1, <1>2, <2>2
    <3>3. QED
      BY <1>1, <3>1, <3>2
  <2>3. QED
    BY <2>1, <2>2
<1>4. PICK wrong \in Seq(Nat) : Len(wrong) < MaxWrong /\ recent' = [recent EXCEPT ![a] = [ages EXCEPT !.wrong = wrong]]
  BY <1>3
<1>5. [ages EXCEPT !.wrong = wrong] \in Ages /\ AgesBound([ages EXCEPT !.wrong = wrong])
  BY <1>4 DEF Ages, AgesBound
<1>6. QED
  BY <1>4, <1>5 DEF LimitsBounds

LEMMA RequestBounds ==
    ASSUME RulesBounds, RulesTyped', LimitsBounds, NEW a \in Callers, CheckRateLimit(a)
    PROVE  RulesBounds' /\ LimitsBounds'
<1> DEFINE daily == Cached(a) # NoRule /\ Cached(a).kind = "daily_limit"
           ages == [recent[a] EXCEPT !.daily = IF daily THEN Append(@, 0) ELSE @]
<1>1. a \in Addresses
  BY RulesAssumption
<1>2. RulesBounds'
  <2>1. LookUp(a) /\ UNCHANGED lapsed
    BY DEF CheckRateLimit
  <2>2. memory' = [memory EXCEPT ![a] = Cached(a)] /\ fresh' \in BOOLEAN
    BY <2>1 DEF LookUp
  <2>3. DOMAIN memory' = Addresses /\ \A b \in Addresses : memory'[b] # NoRule => memory'[b].ip = b
    BY <1>1, <2>2 DEF RulesBounds, Cached
  <2>4. UNCHANGED <<table, stamps, writing, doomed, pending>>
    BY DEF CheckRateLimit, Violate, ruleVars
  <2>5. QED
    BY <2>1, <2>2, <2>3, <2>4 DEF RulesBounds
<1>3. LimitsBounds'
  <2>1. CASE UNCHANGED rateVars
    BY <2>1 DEF rateVars, LimitsBounds
  <2>2. CASE ~UNCHANGED rateVars
    <3>1. /\ ~Refuses(a)
          /\ quiet' = [quiet EXCEPT ![a] = 0]
          /\ tokens' = [tokens EXCEPT ![a] = IF tokens[a] >= 1 THEN tokens[a] - 1 ELSE tokens[a]]
          /\ \/ Violate(a, ages)
             \/ /\ ~(Len(ages.rate) >= Limit)
                /\ recent' = [recent EXCEPT ![a] = [ages EXCEPT !.rate = Append(ages.rate, 0)]]
      BY <2>2 DEF CheckRateLimit
    <3>2. recent[a] \in Ages /\ AgesBound(recent[a]) /\ tokens[a] \in 0 .. Capacity
      BY DEF LimitsBounds
    <3>3. {Limit, DailyLimit, Capacity, Window} \subseteq Nat
      BY RulesAssumption
    <3>4. tokens' \in [Callers -> 0 .. Capacity] /\ quiet' \in [Callers -> 0 .. Window]
      <4>1. (IF tokens[a] >= 1 THEN tokens[a] - 1 ELSE tokens[a]) \in 0 .. Capacity /\ 0 \in 0 .. Window
        BY <3>2, <3>3
      <4>2. QED
        BY <3>1, <4>1 DEF LimitsBounds
    <3>5. ages \in Ages /\ AgesBound(ages)
      <4>1. /\ Append(recent[a].daily, 0) \in Seq(Nat) /\ Len(recent[a].daily) \in Nat
            /\ Len(Append(recent[a].daily, 0)) = Len(recent[a].daily) + 1
        BY <3>2, LenProperties, AppendProperties DEF Ages
      <4>2. daily => ~(Len(recent[a].daily) >= DailyLimit)
        BY <3>1 DEF Refuses
      <4>3. daily => Len(recent[a].daily) + 1 <= DailyLimit
        BY <3>3, <4>1, <4>2
      <4>4. CASE daily
        <5>1. ages = [recent[a] EXCEPT !.daily = Append(recent[a].daily, 0)]
          BY <4>4
        <5> HIDE DEF ages, daily
        <5>2. QED
          BY <3>2, <4>1, <4>3, <4>4, <5>1 DEF Ages, AgesBound
      <4>5. CASE ~daily
        <5>1. ages = [recent[a] EXCEPT !.daily = recent[a].daily]
          BY <4>5
        <5> HIDE DEF ages, daily
        <5>2. QED
          BY <3>2, <5>1 DEF Ages, AgesBound
      <4>6. QED
        BY <4>4, <4>5
    <3> HIDE DEF ages
    <3>6. recent' \in [Callers -> Ages] /\ \A b \in Callers : AgesBound(recent'[b])
      <4>1. CASE Violate(a, ages)
        BY <3>5, <4>1, ViolateBounds
      <4>2. CASE ~(Len(ages.rate) >= Limit) /\ recent' = [recent EXCEPT ![a] = [ages EXCEPT !.rate = Append(ages.rate, 0)]]
        <5>1. /\ Append(ages.rate, 0) \in Seq(Nat) /\ Len(ages.rate) \in Nat
              /\ Len(Append(ages.rate, 0)) = Len(ages.rate) + 1
          BY <3>5, LenProperties, AppendProperties DEF Ages
        <5>2. Len(Append(ages.rate, 0)) <= Limit
          BY <3>3, <4>2, <5>1
        <5>3. [ages EXCEPT !.rate = Append(ages.rate, 0)] \in Ages /\ AgesBound([ages EXCEPT !.rate = Append(ages.rate, 0)])
          BY <3>5, <5>1, <5>2 DEF Ages, AgesBound
        <5>4. QED
          BY <4>2, <5>3 DEF LimitsBounds
      <4>3. QED
        BY <3>1, <4>1, <4>2
    <3>7. QED
      BY <3>4, <3>6 DEF LimitsBounds
  <2>3. QED
    BY <2>1, <2>2
<1>4. QED
  BY <1>2, <1>3

LEMMA TaskFailsBounds ==
    ASSUME RulesBounds, RulesTyped', LimitsBounds, NEW a \in Callers, TaskFails(a)
    PROVE  RulesBounds' /\ LimitsBounds'
<1>1. a \in Addresses /\ recent[a] \in Ages /\ AgesBound(recent[a])
  BY RulesAssumption DEF LimitsBounds
<1>2. Violate(a, recent[a]) /\ UNCHANGED <<memory, lapsed, fresh, pending, tokens, quiet>>
  BY DEF TaskFails
<1>3. LimitsBounds'
  BY <1>1, <1>2, ViolateBounds DEF LimitsBounds
<1>4. UNCHANGED <<table, stamps, writing, doomed>>
  BY <1>2 DEF Violate
<1>5. RulesBounds'
  BY <1>2, <1>4 DEF RulesBounds
<1>6. QED
  BY <1>3, <1>5

LEMMA TickBounds == ASSUME LimitsBounds, Passes PROVE LimitsBounds'
<1>1. {Capacity, Refill, Window} \subseteq Nat
  BY RulesAssumption
<1>2. \A x \in 0 .. Capacity : Min({Capacity, x + Refill}) \in 0 .. Capacity
  BY <1>1 DEF Min
<1>3. \A x \in 0 .. Window : Min({Window, x + 1}) \in 0 .. Window
  BY <1>1 DEF Min
<1>4. /\ tokens' = [a \in Callers |-> Min({Capacity, tokens[a] + Refill})]
      /\ quiet' = [a \in Callers |-> Min({Window, quiet[a] + 1})]
      /\ recent' = [a \in Callers |-> [rate |-> Older(recent[a].rate, Window),
                                       daily |-> Older(recent[a].daily, Day),
                                       wrong |-> Older(recent[a].wrong, Spell)]]
  BY DEF Passes
<1>5. tokens' \in [Callers -> 0 .. Capacity] /\ quiet' \in [Callers -> 0 .. Window]
  BY <1>2, <1>3, <1>4 DEF LimitsBounds
<1>6. ASSUME NEW a \in Callers PROVE recent'[a] \in Ages /\ AgesBound(recent'[a])
  <2>1. recent[a] \in Ages /\ AgesBound(recent[a])
    BY DEF LimitsBounds
  <2>2. \A ages \in Seq(Nat) : \A span :
          /\ Older(ages, span) \in Seq(Nat) /\ Len(Older(ages, span)) <= Len(ages)
          /\ Len(Older(ages, span)) \in Nat /\ Len(ages) \in Nat
    <3> SUFFICES ASSUME NEW ages \in Seq(Nat), NEW span
                 PROVE  /\ Older(ages, span) \in Seq(Nat) /\ Len(Older(ages, span)) <= Len(ages)
                        /\ Len(Older(ages, span)) \in Nat /\ Len(ages) \in Nat
      OBVIOUS
    <3> DEFINE n == Cardinality({i \in DOMAIN ages : ages[i] + 1 < span})
    <3>1. n \in 0 .. Len(ages) /\ Older(ages, span) \in Seq(Nat) /\ Len(Older(ages, span)) = n
      BY TickOlder
    <3> HIDE DEF n
    <3>2. Len(ages) \in Nat
      BY LenProperties
    <3>3. QED
      BY <3>1, <3>2
  <2>3. recent'[a] = [rate |-> Older(recent[a].rate, Window), daily |-> Older(recent[a].daily, Day),
                      wrong |-> Older(recent[a].wrong, Spell)]
    BY <1>4
  <2>4. {Limit, DailyLimit, MaxWrong} \subseteq Nat
    BY RulesAssumption
  <2>5. QED
    BY <2>1, <2>2, <2>3, <2>4 DEF Ages, AgesBound
<1>7. recent' \in [Callers -> Ages]
  BY <1>4, <1>6
<1>8. QED
  BY <1>5, <1>6, <1>7 DEF LimitsBounds

LEMMA RulesBoundsStep ==
    ASSUME RulesBounds, RulesTyped', LimitsBounds, [RulesNext]_rulesVars
    PROVE  RulesBounds' /\ LimitsBounds'
<1>1. CASE UNCHANGED rulesVars
  BY <1>1 DEF rulesVars, ruleVars, rateVars, RulesBounds, LimitsBounds
<1>2. ASSUME NEW a \in Callers, CheckRateLimit(a) \/ TaskFails(a) PROVE RulesBounds' /\ LimitsBounds'
  BY <1>2, RequestBounds, TaskFailsBounds
<1>3. CASE Passes
  BY <1>3, TickBounds, LapseBounds
<1>4. CASE Gc
  <2>1. /\ tokens' = [a \in Callers |-> IF quiet[a] = Window THEN Capacity ELSE tokens[a]]
        /\ UNCHANGED <<recent, quiet>> /\ Capacity \in Nat
    BY <1>4, RulesAssumption DEF Gc
  <2>2. LimitsBounds'
    BY <2>1 DEF LimitsBounds
  <2>3. QED
    BY <1>4, <2>2, LapseBounds
<1>5. ASSUME \/ Lapse \/ (\E p \in pending : ApplyIpRule(p))
             \/ \E a \in Addresses : BlockIp(a) \/ AutoBlockIp(a) \/ UnblockIp(a) \/ Status(a) \/ RemoveExpired(a)
             \/ \E rule \in writing : Write(rule) \/ WriteFails(rule)
             \/ \E s \in Syncs : Fetch(s) \/ Swap(s) \/ CleanupExpired(s) \/ SyncFails(s)
      PROVE  RulesBounds' /\ LimitsBounds'
  <2>1. UNCHANGED rateVars
    BY <1>5, Zenon DEF Lapse, ApplyIpRule, BlockIp, AutoBlockIp, Stamp, UnblockIp, Status, RemoveExpired,
                       Write, WriteFails, Fetch, Swap, CleanupExpired, SyncFails
  <2>2. LimitsBounds'
    BY <2>1 DEF rateVars, LimitsBounds
  <2>3. QED
    BY <1>5, <2>2, TableBounds, WriteBounds, CopyBounds, LapseBounds
<1>6. QED
  BY <1>1, <1>2, <1>3, <1>4, <1>5 DEF RulesNext

\* Stamps, rules and their copy are what they should be, and what is counted of
\* a caller stops at its limits, for all of them (api/request_guard.py).
THEOREM RulesTypeCorrect == RulesSpec => []RulesTypes
<1>1. RulesInit => RulesInv /\ RulesBounds
  BY RulesInitInv, RulesBoundsInit
<1>2. RulesInit => LimitsBounds
  <2> SUFFICES ASSUME RulesInit PROVE LimitsBounds
    OBVIOUS
  <2>1. << >> \in Seq(Nat) /\ Len(<< >>) = 0
    BY EmptySeq
  <2>2. {Limit, DailyLimit, Capacity, Window} \subseteq Nat /\ MaxWrong \in Nat \ {0}
    BY RulesAssumption
  <2>3. \A a \in Callers : recent[a] \in Ages /\ AgesBound(recent[a])
    BY <2>1, <2>2 DEF RulesInit, Ages, AgesBound
  <2>4. QED
    BY <2>2, <2>3 DEF RulesInit, LimitsBounds
<1>3. RulesInv /\ RulesBounds /\ LimitsBounds /\ [RulesNext]_rulesVars => (RulesInv /\ RulesBounds /\ LimitsBounds)'
  BY RulesStep, RulesBoundsStep DEF RulesInv
<1>4. RulesBounds /\ LimitsBounds => RulesTypes
  <2> SUFFICES ASSUME RulesBounds, LimitsBounds PROVE RulesTypes
    OBVIOUS
  <2>1. stamps \in Nat /\ MaxChanges \in Nat
    BY RulesAssumption DEF RulesBounds, RulesTyped
  <2>2. \A a \in Addresses : table[a] # NoRule => table[a].ip = a /\ table[a].stamp \in 1 .. stamps
    BY <2>1 DEF RulesBounds, RulesTyped, Rules
  <2>3. \A r \in Rows : r.stamp \in 1 .. stamps /\ table[r.ip] = r
    BY <2>2 DEF Rows
  <2>4. \A s \in Syncs : sync[s].at \in {"idle", "read", "swap", "clean"}
    BY DEF RulesBounds, RulesTyped, Sync
  <2>5. \A q \in writing : q.stamp \in 1 .. stamps /\ q \notin Rows
    BY <2>1 DEF RulesBounds, RulesTyped, Rules
  <2>6. asked \subseteq Callers
    BY DEF RulesBounds, RulesTyped
  <2>7. QED
    BY <2>1, <2>3, <2>4, <2>5, <2>6 DEF RulesBounds, LimitsBounds, AgesBound, RulesTypes
<1>5. QED
  BY <1>1, <1>2, <1>3, <1>4, PTL DEF RulesSpec

-----------------------------------------------------------------------------
(* Types of the account pool                                               *)

AccountBounds ==
    /\ retry \in [Members -> 0 .. MaxRetry]
    /\ healing \subseteq Members
    /\ joining \in {"off", "idle", "signing"} \cup Members

LEMMA AccountBoundsStep == ASSUME AccountBounds, [AccountsNext]_accountVars PROVE AccountBounds'
<1> USE DEF AccountBounds
<1>1. ASSUME NEW b \in Borrowers, Borrowing(b) PROVE AccountBounds'
  <2>1. UNCHANGED <<retry, healing, joining>>
    BY <1>1, Zenon DEF Borrowing, AskLoan, StampAges, Borrow, Release, MarkDead, Leave, GiveBack
  <2>2. QED
    BY <2>1
<1>2. ASSUME NEW a \in Members, Consume(a) \/ Rests(a) \/ LoanExpires(a) PROVE AccountBounds'
  BY <1>2 DEF Consume, Rests, LoanExpires
<1>3. CASE Reclaim \/ Wake \/ WakeAll
  BY <1>3 DEF Reclaim, Wake, WakeAll, Rested, HasStatus
<1>4. ASSUME NEW a \in Members, HealFails(a) \/ HealBreaks(a) PROVE AccountBounds'
  <2>1. MaxRetry \in Nat \ {0} /\ retry[a] \in 0 .. MaxRetry
    BY AccountsAssumption
  <2>2. 0 \in 0 .. MaxRetry /\ (retry[a] < MaxRetry => retry[a] + 1 \in 0 .. MaxRetry)
        /\ (~(retry[a] + 1 >= MaxRetry) => retry[a] + 1 \in 0 .. MaxRetry)
    BY <2>1
  <2>3. retry' = retry \/ \E n \in 0 .. MaxRetry : retry' = [retry EXCEPT ![a] = n]
    BY <1>4, <2>1, <2>2 DEF HealFails, HealBreaks
  <2>4. healing' \subseteq healing /\ joining' = joining
    BY <1>4 DEF HealFails, HealBreaks
  <2>5. QED
    BY <2>3, <2>4
<1>5. CASE Signin
  <2>1. UNCHANGED <<retry, healing, joining>>
    BY <1>5, Zenon DEF Signin, LoadBatch, NextRow, BatchDone, CheckinReturns, StampCheckin, CreditCheckin,
                       MarkActive, Relogin, ReloginFails, NoPassword, SigninRaises, SigninWrites
  <2>2. QED
    BY <2>1
<1>6. CASE Registering
  BY <1>6 DEF Registering, RegisterAccount, RegisterFails, Add, MarkOk
<1>7. CASE UNCHANGED accountVars
  BY <1>7 DEF accountVars
<1>8. QED
  BY <1>1, <1>2, <1>3, <1>4, <1>5, <1>6, <1>7 DEF AccountsNext, Healing, Time

\* The rows of accounts, the loans, and where the loops over them stand, for
\* all accounts, borrowers and bounds (api/account_pool).
THEOREM AccountTypeCorrect == AccountsSpec => []AccountTypes
<1>1. AccountsInit => AccountsInv /\ AccountBounds
  <2>1. 0 \in 0 .. MaxRetry
    BY AccountsAssumption
  <2>2. QED
    BY <2>1, AccountsInitInv DEF AccountsInit, AccountBounds
<1>2. AccountsInv /\ AccountBounds /\ [AccountsNext]_accountVars => (AccountsInv /\ AccountBounds)'
  BY AccountsStep, AccountBoundsStep
<1>3. AccountsInv /\ AccountBounds => AccountTypes
  BY DEF AccountsInv, AccountShape, SigninShape, AccountBounds, AccountTypes
<1>4. QED
  BY <1>1, <1>2, <1>3, PTL DEF AccountsSpec

-----------------------------------------------------------------------------
(* Types of the registration                                               *)

(* A row of the pool, and where a caller of the registerer stands.         *)
RegRow == [status : {"active", "cooling", "dead"}, cookie : site, fails : {1}, retry : {0, 1}]
RegCall == [at : {"idle", "captcha", "signup", "mail", "signin", "add", "claim"},
            acct : Emails \cup {None}, via : Nat,
            answer : {None, "in", "bad", "forbidden", "limited", "refused", "raised"},
            cookie : Emails \cup {None}, fails : {0, 1}, renew : BOOLEAN]

BookOK ==
    /\ taken \subseteq Emails
    /\ DOMAIN registry = Emails /\ (Emails # {} => 1 \in DOMAIN domain)
    /\ \A a \in Emails : registry[a] # None => domain[1].known

(* What the jar holds, and what a registration takes from it, are sessions *)
(* of accounts the site has; who is being checked in has a row.            *)
TalkOK ==
    /\ talk \in [{"join", "daily"} -> RegCall]
    /\ \A c \in {"join", "daily"} : talk[c].at = "idle" <=> talk[c].acct = None
    /\ talk["join"].at = "add" => talk["join"].cookie \in site
    /\ talk["daily"].at # "idle" => member[talk["daily"].acct] \in RegRow /\ talk["daily"].fails = 1

AgentOK ==
    /\ proxy \in {1, None}
    /\ agent \in [exit : {1, direct}, number : {1, 2}, jar : site \cup {None}]

RegInv ==
    /\ site \subseteq Emails /\ refused \subseteq Emails
    /\ member \in [Emails -> RegRow \cup {None}]
    /\ BookOK /\ TalkOK /\ AgentOK

LEMMA RegTypes == RegInv => Register!TypeOK
<1> SUFFICES ASSUME RegInv PROVE Register!TypeOK
  OBVIOUS
<1>1. \A a \in Emails : member[a] # None =>
        /\ member[a].status \in {"active", "cooling", "dead"} /\ member[a].cookie \in site
        /\ member[a].fails \in 1 .. 1 /\ member[a].retry \in 0 .. 2 - 1
  BY DEF RegInv, RegRow
<1>2. agent.number \in 1 .. 2 /\ agent.exit \in {1} \cup {direct}
  BY DEF RegInv, AgentOK
<1>3. \A c \in {"join", "daily"} : talk[c].acct \in Emails <=> talk[c].at # "idle"
  BY EmailsAssumption DEF RegInv, TalkOK, RegCall
<1>4. \A a \in Emails : registry[a] # None => domain[[b \in Emails |-> 1][a]].known
  BY DEF RegInv, BookOK
<1>5. taken \subseteq Emails /\ site \subseteq Emails /\ refused \subseteq Emails
  BY DEF RegInv, BookOK
<1>6. QED
  BY <1>1, <1>2, <1>3, <1>4, <1>5 DEF Register!TypeOK

LEMMA IdleIs == Register!Idle \in RegCall /\ Register!Idle.at = "idle" /\ Register!Idle.acct = None
BY DEF RegCall, Register!Idle

\* Nobody registers or checks in.
LEMMA IdleOK ==
    ASSUME talk = [c \in {"join", "daily"} |-> Register!Idle]
    PROVE  TalkOK
<1>1. talk \in [{"join", "daily"} -> RegCall]
      /\ \A c \in {"join", "daily"} : talk[c].at = "idle" /\ talk[c].acct = None
  BY IdleIs
<1>2. QED
  BY <1>1 DEF TalkOK

LEMMA RegInit == Register!Init => RegInv
<1> SUFFICES ASSUME Register!Init PROVE RegInv
  OBVIOUS
<1>1. TalkOK
  BY IdleOK DEF Register!Init
<1>2. AgentOK
  BY DEF Register!Init, Register!NewClient, AgentOK
<1>3. BookOK
  BY DEF Register!Init, Register!Domains, BookOK
<1>4. QED
  BY <1>1, <1>2, <1>3 DEF Register!Init, RegInv

\* The client is made again for another exit.
LEMMA ClientOK ==
    ASSUME AgentOK, NEW want \in {1, direct}, Register!EnsureClient(want)
    PROVE  agent' \in [exit : {1, direct}, number : {1, 2}, jar : site \cup {None}]
<1>1. CASE UNCHANGED agent
  BY <1>1 DEF AgentOK
<1>2. CASE agent.number < 2 /\ agent' = Register!NewClient(want, agent.number + 1)
  <2>1. agent.number + 1 \in {1, 2}
    BY <1>2 DEF AgentOK
  <2>2. QED
    BY <1>2, <2>1 DEF Register!NewClient
<1>3. QED
  BY <1>1, <1>2 DEF Register!EnsureClient

\* And when the site forbids.
LEMMA RotatesOK ==
    ASSUME AgentOK, agent.number < 2, Register!ForceRotate
    PROVE  agent' \in [exit : {1, direct}, number : {1, 2}, jar : site \cup {None}]
<1>1. agent.number + 1 \in {1, 2}
  BY DEF AgentOK
<1>2. QED
  BY <1>1 DEF Register!ForceRotate, Register!NewClient

LEMMA WantedOK == ASSUME NEW p \in {1, None} PROVE Register!Wanted(p) \in {1, direct}
BY DEF Register!Wanted

\* An address is written into the book.
LEMMA RecordOK ==
    ASSUME BookOK, NEW a \in Emails, NEW status, Register!Record(a, status)
    PROVE  BookOK'
<1>1. /\ taken' = taken /\ registry' = [registry EXCEPT ![a] = status]
      /\ DOMAIN domain' = DOMAIN domain /\ domain'[1].known
  BY DEF Register!Record, BookOK
<1>2. QED
  BY <1>1 DEF BookOK

\* One of the two callers goes on, at most.
LEMMA CallerOK ==
    ASSUME TalkOK, NEW c \in {"join", "daily"}, NEW k \in RegCall, talk' = [talk EXCEPT ![c] = k],
           k.at = "idle" <=> k.acct = None,
           c = "join" /\ k.at = "add" => k.cookie \in site,
           c = "daily" /\ k.at # "idle" => member[k.acct] \in RegRow /\ k.fails = 1,
           site \subseteq site',
           \A a : member[a] \in RegRow => member'[a] \in RegRow'
    PROVE  TalkOK'
<1>1. talk' \in [{"join", "daily"} -> RegCall]
  BY DEF TalkOK
<1>2. RegCall' = RegCall
  BY DEF RegCall
<1>3. talk'[c] = k /\ \A d \in {"join", "daily"} \ {c} : talk'[d] = talk[d]
  BY DEF TalkOK
<1>4. \A d \in {"join", "daily"} : talk'[d].at = "idle" <=> talk'[d].acct = None
  BY <1>3 DEF TalkOK
<1>5. talk'["join"].at = "add" => talk'["join"].cookie \in site'
  BY <1>3 DEF TalkOK
<1>6. talk'["daily"].at # "idle" => member'[talk'["daily"].acct] \in RegRow' /\ talk'["daily"].fails = 1
  BY <1>3 DEF TalkOK
<1>7. QED
  BY <1>1, <1>2, <1>4, <1>5, <1>6 DEF TalkOK

\* A caller is done.
LEMMA EndsOK ==
    ASSUME TalkOK, NEW c \in {"join", "daily"}, Register!Ends(c), site' = site,
           \A a : member[a] \in RegRow => member'[a] \in RegRow'
    PROVE  TalkOK'
<1>1. talk' = [talk EXCEPT ![c] = Register!Idle]
  BY DEF Register!Ends
<1>2. QED
  BY <1>1, IdleIs, CallerOK

\* A caller goes to its next place with what it has.
LEMMA GoesOK ==
    ASSUME TalkOK, NEW c \in {"join", "daily"}, NEW k \in RegCall, talk' = [talk EXCEPT ![c] = k],
           talk[c].at # "idle", k.at # "idle", k.acct = talk[c].acct, k.fails = talk[c].fails,
           k.at = "add" => k.cookie \in site,
           site \subseteq site', member' = member
    PROVE  TalkOK'
<1>1. RegRow \subseteq RegRow'
  BY DEF RegRow
<1>2. k.acct # None
  BY DEF TalkOK
<1>3. c = "daily" => member[k.acct] \in RegRow /\ k.fails = 1
  BY DEF TalkOK
<1>4. QED
  BY <1>1, <1>2, <1>3, CallerOK

(* The steps: of the book, of a call that is sent and answered, of a       *)
(* registration, of a check-in, and of cooling and healing.                *)

\* Rows stay rows while the site only grows.
LEMMA RowsStay ==
    ASSUME site \subseteq site'
    PROVE  RegRow \subseteq RegRow'
BY DEF RegRow

LEMMA JoinStep == ASSUME RegInv, Register!Join \/ Register!NoAddress PROVE RegInv'
<1>1. CASE Register!Join
  <2>1. PICK p \in {1, None}, a \in Register!Fresh :
          /\ proxy' = p /\ taken' = taken \cup {a}
          /\ Register!EnsureClient(Register!Wanted(p))
          /\ talk' = [talk EXCEPT !["join"] = [Register!Idle EXCEPT !.at = "captcha", !.acct = a]]
          /\ UNCHANGED <<registry, domain, member, site, refused>>
    BY <1>1 DEF Register!Join
  <2>2. a \in Emails
    BY DEF Register!Fresh
  <2>3. AgentOK'
    BY <2>1, ClientOK, WantedOK DEF RegInv, AgentOK
  <2>4. BookOK'
    BY <2>1, <2>2 DEF RegInv, BookOK
  <2>5. TalkOK'
    <3> DEFINE k == [Register!Idle EXCEPT !.at = "captcha", !.acct = a]
    <3>1. k \in RegCall /\ k.at = "captcha" /\ k.acct = a /\ a # None
      BY <2>2, EmailsAssumption DEF RegCall, Register!Idle
    <3>2. talk' = [talk EXCEPT !["join"] = k] /\ site' = site /\ RegRow' = RegRow /\ member' = member
      BY <2>1 DEF RegRow
    <3> HIDE DEF k
    <3>3. QED
      BY <3>1, <3>2, CallerOK DEF RegInv
  <2>6. QED
    BY <2>1, <2>3, <2>4, <2>5, RowsStay DEF RegInv
<1>2. CASE Register!NoAddress
  <2>1. proxy' \in {1, None} /\ UNCHANGED <<taken, registry, domain, member, agent, talk, site, refused>>
    BY <1>2 DEF Register!NoAddress, Register!book
  <2>2. QED
    BY <2>1 DEF RegInv, BookOK, TalkOK, AgentOK, RegRow, RegCall
<1>3. QED
  BY <1>1, <1>2

LEMMA SendOK ==
    ASSUME TalkOK, AgentOK, NEW c \in {"join", "daily"}, talk[c].at # "idle",
           NEW place \in {"signup", "signin"}, Register!Send(c, place),
           UNCHANGED <<site, member>>
    PROVE  TalkOK'
<1> DEFINE k == [talk[c] EXCEPT !.at = place, !.via = agent.number, !.answer = None]
<1>1. talk[c] \in RegCall /\ agent.number \in Nat
  BY DEF TalkOK, AgentOK
<1>2. k \in RegCall /\ k.at = place /\ k.acct = talk[c].acct /\ k.fails = talk[c].fails
  BY <1>1 DEF RegCall
<1>3. talk' = [talk EXCEPT ![c] = k]
  BY DEF Register!Send, TalkOK
<1> HIDE DEF k
<1>4. QED
  BY <1>2, <1>3, GoesOK

\* The site or the network answers.
LEMMA AnsweredOK ==
    ASSUME TalkOK, NEW c \in {"join", "daily"}, talk[c].at \notin {"idle", "add"},
           NEW answer \in {"in", "bad", "forbidden", "limited", "refused", "raised"},
           talk' = [talk EXCEPT ![c].answer = answer], site \subseteq site', member' = member
    PROVE  TalkOK'
<1> DEFINE k == [talk[c] EXCEPT !.answer = answer]
<1>1. talk[c] \in RegCall
  BY DEF TalkOK
<1>2. k \in RegCall /\ k.at = talk[c].at /\ k.acct = talk[c].acct /\ k.fails = talk[c].fails
  BY <1>1 DEF RegCall
<1>3. talk' = [talk EXCEPT ![c] = k]
  BY DEF TalkOK
<1> HIDE DEF k
<1>4. QED
  BY <1>2, <1>3, GoesOK

LEMMA SiteStep ==
    ASSUME RegInv, Register!SignedUp \/ \E c \in {"join", "daily"} : Register!SignedIn(c) \/ Register!Refuses(c)
    PROVE  RegInv'
<1>1. \A c \in {"join", "daily"} : talk[c].at # "idle" => talk[c].acct \in Emails
  BY DEF RegInv, TalkOK, RegCall
<1>2. ASSUME NEW c \in {"join", "daily"}, Register!SignedIn(c) PROVE RegInv'
  <2>1. /\ talk[c].at = "signin" /\ talk[c].acct \in site
        /\ talk' = [talk EXCEPT ![c].answer = "in"]
        /\ agent' = agent \/ agent' = [agent EXCEPT !.jar = talk[c].acct]
        /\ UNCHANGED <<taken, registry, domain, member, proxy, site, refused>>
    BY <1>2 DEF Register!SignedIn, Register!At, Register!book
  <2>2. TalkOK'
    BY <2>1, AnsweredOK DEF RegInv
  <2>3. AgentOK'
    BY <2>1 DEF RegInv, AgentOK
  <2>4. QED
    BY <2>1, <2>2, <2>3 DEF RegInv, BookOK, RegRow
<1>3. ASSUME NEW c \in {"join", "daily"}, Register!Refuses(c) PROVE RegInv'
  <2>1. /\ talk[c].at \in {"signin", "signup"} /\ refused' = refused \cup {talk[c].acct}
        /\ \E answer \in {"bad", "forbidden", "limited", "refused", "raised"} :
             talk' = [talk EXCEPT ![c].answer = answer]
        /\ UNCHANGED <<taken, registry, domain, member, proxy, agent, site>>
    BY <1>3 DEF Register!Refuses, Register!At, Register!book
  <2>2. TalkOK'
    BY <2>1, AnsweredOK DEF RegInv
  <2>3. refused' \subseteq Emails
    BY <1>1, <2>1 DEF RegInv
  <2>4. QED
    BY <2>1, <2>2, <2>3 DEF RegInv, BookOK, AgentOK, RegRow
<1>4. CASE Register!SignedUp
  <2>1. /\ talk["join"].at = "signup" /\ site' = site \cup {talk["join"].acct}
        /\ talk' = [talk EXCEPT !["join"].answer = "in"]
        /\ UNCHANGED <<taken, registry, domain, member, proxy, agent, refused>>
    BY <1>4 DEF Register!SignedUp, Register!At, Register!book
  <2>2. TalkOK'
    BY <2>1, AnsweredOK DEF RegInv
  <2>3. site' \subseteq Emails /\ site \subseteq site'
    BY <1>1, <2>1 DEF RegInv
  <2>4. AgentOK' /\ member' \in [Emails -> RegRow' \cup {None}]
    BY <2>1, <2>3, RowsStay DEF RegInv, AgentOK
  <2>5. QED
    BY <2>1, <2>2, <2>3, <2>4 DEF RegInv, BookOK
<1>5. QED
  BY <1>2, <1>3, <1>4

\* A registration: its captcha, its answers, its row.
LEMMA RegisterStep ==
    ASSUME RegInv,
           Register!Captcha \/ Register!SignUpEnds \/ Register!Mail \/ Register!JoinEnds \/ Register!Add
    PROVE  RegInv'
<1> DEFINE j == talk["join"]
<1>1. j \in RegCall /\ (j.at # "idle" => j.acct \in Emails)
  BY DEF RegInv, TalkOK, RegCall
<1>2. CASE Register!Captcha
  <2>1. /\ talk["join"].at = "captcha" /\ (Register!Send("join", "signup") \/ Register!Ends("join"))
        /\ UNCHANGED <<taken, registry, domain, member, proxy, agent, site, refused>>
    BY <1>2 DEF Register!Captcha, Register!At, Register!book
  <2>2. RegRow' = RegRow
    BY <2>1 DEF RegRow
  <2>3. TalkOK'
    BY <2>1, <2>2, SendOK, EndsOK DEF RegInv
  <2>4. QED
    BY <2>1, <2>2, <2>3 DEF RegInv, BookOK, AgentOK
<1>3. CASE Register!SignUpEnds
  <2>1. /\ j.at = "signup"
        /\ Register!Ends("join") \/ talk' = [talk EXCEPT !["join"].at = "mail"]
        /\ UNCHANGED <<taken, registry, domain>> \/ Register!Record(j.acct, "error")
        /\ UNCHANGED agent \/ (agent.number < 2 /\ Register!ForceRotate)
        /\ UNCHANGED <<member, proxy, site, refused>>
    BY <1>3 DEF Register!SignUpEnds, Register!At, Register!Goes, Register!book
  <2>2. RegRow' = RegRow
    BY <2>1 DEF RegRow
  <2>3. TalkOK'
    <3>1. CASE Register!Ends("join")
      BY <2>1, <2>2, <3>1, EndsOK DEF RegInv
    <3>2. CASE talk' = [talk EXCEPT !["join"].at = "mail"]
      <4> DEFINE k == [talk["join"] EXCEPT !.at = "mail"]
      <4>1. k \in RegCall /\ k.at = "mail" /\ k.acct = j.acct /\ k.fails = j.fails
        BY <1>1 DEF RegCall
      <4>2. talk' = [talk EXCEPT !["join"] = k]
        BY <3>2 DEF RegInv, TalkOK
      <4> HIDE DEF k
      <4>3. QED
        BY <2>1, <4>1, <4>2, GoesOK DEF RegInv
    <3>3. QED
      BY <2>1, <3>1, <3>2
  <2>4. BookOK'
    BY <1>1, <2>1, RecordOK DEF RegInv, BookOK
  <2>5. AgentOK'
    BY <2>1, RotatesOK DEF RegInv, AgentOK
  <2>6. QED
    BY <2>1, <2>2, <2>3, <2>4, <2>5 DEF RegInv
<1>4. CASE Register!Mail
  <2>1. /\ talk["join"].at = "mail" /\ Register!Send("join", "signin")
        /\ UNCHANGED <<taken, registry, domain, member, proxy, agent, site, refused>>
    BY <1>4 DEF Register!Mail, Register!At, Register!book
  <2>2. TalkOK'
    BY <2>1, SendOK DEF RegInv
  <2>3. QED
    BY <2>1, <2>2 DEF RegInv, BookOK, AgentOK, RegRow
<1>5. CASE Register!JoinEnds
  <2>1. /\ j.at = "signin"
        /\ \/ Register!Ends("join")
           \/ Register!Session("join") # None /\
              talk' = [talk EXCEPT !["join"].at = "add", !["join"].cookie = Register!Session("join")]
        /\ UNCHANGED <<taken, registry, domain>> \/ \E status : Register!Record(j.acct, status)
        /\ UNCHANGED agent \/ (agent.number < 2 /\ Register!ForceRotate)
        /\ UNCHANGED <<member, proxy, site, refused>>
    BY <1>5 DEF Register!JoinEnds, Register!At, Register!book
  <2>2. RegRow' = RegRow
    BY <2>1 DEF RegRow
  <2>3. TalkOK'
    <3>1. CASE Register!Ends("join")
      BY <2>1, <2>2, <3>1, EndsOK DEF RegInv
    <3>2. CASE /\ Register!Session("join") # None
               /\ talk' = [talk EXCEPT !["join"].at = "add", !["join"].cookie = Register!Session("join")]
      <4> DEFINE cookie == Register!Session("join")
                 k == [talk["join"] EXCEPT !.at = "add", !.cookie = cookie]
      <4>1. cookie \in site /\ cookie \in Emails
        BY <3>2 DEF Register!Session, RegInv, AgentOK
      <4>2. talk' = [talk EXCEPT !["join"] = k]
        BY <3>2 DEF RegInv, TalkOK
      <4> HIDE DEF cookie
      <4>3. k \in RegCall /\ k.at = "add" /\ k.acct = j.acct /\ k.fails = j.fails /\ k.cookie = cookie
        BY <1>1, <4>1 DEF RegCall
      <4> HIDE DEF k
      <4>4. QED
        BY <2>1, <4>1, <4>2, <4>3, GoesOK DEF RegInv
    <3>3. QED
      BY <2>1, <3>1, <3>2
  <2>4. BookOK'
    BY <1>1, <2>1, RecordOK DEF RegInv, BookOK
  <2>5. AgentOK'
    BY <2>1, RotatesOK DEF RegInv, AgentOK
  <2>6. QED
    BY <2>1, <2>2, <2>3, <2>4, <2>5 DEF RegInv
<1>6. CASE Register!Add
  <2> DEFINE row == [status |-> "active", cookie |-> j.cookie, fails |-> 1, retry |-> 0]
  <2>1. /\ j.at = "add" /\ Register!Ends("join") /\ member' = [member EXCEPT ![j.acct] = row]
        /\ UNCHANGED <<taken, registry, domain, proxy, agent, site, refused>>
    BY <1>6 DEF Register!Add, Register!At, Register!book
  <2>2. RegRow' = RegRow /\ row \in RegRow
    BY <2>1 DEF RegRow, RegInv, TalkOK
  <2> HIDE DEF row
  <2>3. member' \in [Emails -> RegRow' \cup {None}]
    BY <2>1, <2>2 DEF RegInv
  <2>4. \A a : member[a] \in RegRow => member'[a] \in RegRow'
    <3>1. DOMAIN member = Emails
      BY DEF RegInv
    <3>2. QED
      BY <1>1, <2>1, <2>2, <3>1
  <2>5. TalkOK'
    BY <2>1, <2>4, EndsOK DEF RegInv
  <2>6. QED
    BY <2>1, <2>3, <2>5 DEF RegInv, BookOK, AgentOK
<1>7. QED
  BY <1>2, <1>3, <1>4, <1>5, <1>6

\* A row is written.
LEMMA RowWritten ==
    ASSUME RegInv, NEW a \in Emails, NEW row \in RegRow, member' = [member EXCEPT ![a] = row], site' = site
    PROVE  /\ member' \in [Emails -> RegRow' \cup {None}]
           /\ \A b : member[b] \in RegRow => member'[b] \in RegRow'
<1>1. RegRow' = RegRow /\ member \in [Emails -> RegRow \cup {None}]
  BY DEF RegRow, RegInv
<1>2. QED
  BY <1>1

LEMMA MarkedRow ==
    ASSUME RegInv, NEW a \in Emails, member[a] \in RegRow, NEW status \in {"active", "cooling", "dead"},
           Register!Marked(a, status, 1)
    PROVE  \E row \in RegRow : member' = [member EXCEPT ![a] = row]
<1> DEFINE row == [[member[a] EXCEPT !.status = status] EXCEPT !.fails = 1]
<1>1. row \in RegRow
  BY DEF RegRow
<1>2. member' = [member EXCEPT ![a] = row]
  BY DEF Register!Marked, RegInv
<1>3. QED
  BY <1>1, <1>2

\* A check-in: its captcha, its claim, and the second sign-in.
LEMMA DailyStep ==
    ASSUME RegInv,
           \/ \E a \in Emails : Register!CheckIn(a)
           \/ Register!LogIn \/ Register!Claim \/ Register!NotClaimed
    PROVE  RegInv'
<1> DEFINE d == talk["daily"]
<1>1. d \in RegCall /\ (d.at # "idle" => d.acct \in Emails)
  BY DEF RegInv, TalkOK, RegCall
<1>2. ASSUME NEW a \in Emails, Register!CheckIn(a) PROVE RegInv'
  <2> DEFINE k == [Register!Idle EXCEPT !.at = "captcha", !.acct = a,
                                        !.cookie = member[a].cookie, !.fails = member[a].fails]
  <2>1. /\ member[a] # None /\ Register!EnsureClient(Register!Wanted(proxy)) /\ talk' = [talk EXCEPT !["daily"] = k]
        /\ UNCHANGED <<taken, registry, domain, member, proxy, site, refused>>
    BY <1>2 DEF Register!CheckIn, Register!Has, Register!book
  <2>2. member[a] \in RegRow /\ member[a].cookie \in Emails /\ member[a].fails = 1
    BY <2>1 DEF RegInv, RegRow
  <2>3. k \in RegCall /\ k.at = "captcha" /\ k.acct = a /\ a # None /\ k.fails = 1
    BY <2>2, EmailsAssumption DEF RegCall, Register!Idle
  <2> HIDE DEF k
  <2>4. RegRow' = RegRow
    BY <2>1 DEF RegRow
  <2>5. TalkOK'
    BY <2>1, <2>2, <2>3, <2>4, CallerOK DEF RegInv
  <2>6. AgentOK'
    BY <2>1, ClientOK, WantedOK DEF RegInv, AgentOK
  <2>7. QED
    BY <2>1, <2>4, <2>5, <2>6 DEF RegInv, BookOK
<1>3. CASE Register!LogIn
  <2>1. /\ talk["daily"].at = "captcha" /\ Register!Send("daily", "signin")
        /\ UNCHANGED <<taken, registry, domain, member, proxy, agent, site, refused>>
    BY <1>3 DEF Register!LogIn, Register!At, Register!book
  <2>2. TalkOK'
    BY <2>1, SendOK DEF RegInv
  <2>3. QED
    BY <2>1, <2>2 DEF RegInv, BookOK, AgentOK, RegRow
<1>4. CASE Register!Claim
  <2> DEFINE new == Register!Session("daily")
             cookie == IF new # None THEN new ELSE d.cookie
             k == [talk["daily"] EXCEPT !.at = "claim", !.cookie = cookie]
  <2>1. /\ d.at = "signin" /\ UNCHANGED <<taken, registry, domain, member, proxy, agent, site, refused>>
        /\ talk' = [talk EXCEPT !["daily"].at = "claim", !["daily"].cookie = IF new # None THEN new ELSE @]
    BY <1>4 DEF Register!Claim, Register!At, Register!book
  <2>2. cookie \in Emails \cup {None}
    BY <1>1 DEF Register!Session, RegInv, AgentOK, RegCall
  <2>3. talk' = [talk EXCEPT !["daily"] = k]
    BY <2>1 DEF RegInv, TalkOK
  <2> HIDE DEF cookie
  <2>4. k \in RegCall /\ k.at = "claim" /\ k.acct = d.acct /\ k.fails = d.fails
    BY <1>1, <2>2 DEF RegCall
  <2> HIDE DEF k
  <2>5. TalkOK'
    BY <2>1, <2>3, <2>4, GoesOK DEF RegInv
  <2>6. QED
    BY <2>1, <2>5 DEF RegInv, BookOK, AgentOK, RegRow
<1>5. CASE Register!NotClaimed
  <2> DEFINE k == [talk["daily"] EXCEPT !.at = "captcha", !.renew = TRUE]
  <2>1. /\ d.at = "claim" /\ Register!EnsureClient(Register!Wanted(proxy))
        /\ refused' = refused \cup {d.acct}
        /\ talk' = [talk EXCEPT !["daily"].at = "captcha", !["daily"].renew = TRUE]
        /\ UNCHANGED <<taken, registry, domain, member, proxy, site>>
    BY <1>5 DEF Register!NotClaimed, Register!At, Register!book
  <2>2. k \in RegCall /\ k.at = "captcha" /\ k.acct = d.acct /\ k.fails = d.fails
    BY <1>1 DEF RegCall
  <2>3. talk' = [talk EXCEPT !["daily"] = k]
    BY <2>1 DEF RegInv, TalkOK
  <2> HIDE DEF k
  <2>4. TalkOK'
    BY <2>1, <2>2, <2>3, GoesOK DEF RegInv
  <2>5. AgentOK'
    BY <2>1, ClientOK, WantedOK DEF RegInv, AgentOK
  <2>6. refused' \subseteq Emails
    BY <1>1, <2>1 DEF RegInv
  <2>7. QED
    BY <2>1, <2>4, <2>5, <2>6 DEF RegInv, BookOK, RegRow
<1>6. QED
  BY <1>2, <1>3, <1>4, <1>5

\* The end of a check-in is written into its row.
LEMMA DailyEnds == ASSUME RegInv, Register!Claimed \/ Register!Renewed PROVE RegInv'
<1> DEFINE d == talk["daily"]
<1>1. /\ d.at # "idle" /\ Register!Ends("daily")
      /\ UNCHANGED <<taken, registry, domain, proxy, agent, site, refused>>
  BY DEF Register!Claimed, Register!Renewed, Register!At, Register!book
<1>2. d.acct \in Emails /\ member[d.acct] \in RegRow /\ d.fails = 1
  BY <1>1 DEF RegInv, TalkOK, RegCall
<1>3. \E row \in RegRow : member' = [member EXCEPT ![d.acct] = row]
  <2>1. CASE Register!Claimed
    BY <1>2, <2>1, MarkedRow DEF Register!Claimed
  <2>2. CASE Register!Renewed
    <3> DEFINE new == Register!Session("daily")
    <3>1. CASE new # None
      <4> DEFINE row == [member[d.acct] EXCEPT !.status = "active", !.cookie = new, !.fails = d.fails]
      <4>1. new \in site
        BY <3>1 DEF Register!Session, RegInv, AgentOK
      <4>2. member' = [member EXCEPT ![d.acct] = row]
        BY <2>2, <3>1 DEF Register!Renewed
      <4> HIDE DEF new
      <4>3. row \in RegRow
        BY <1>2, <4>1 DEF RegRow
      <4>4. QED
        BY <4>2, <4>3
    <3>2. CASE new = None
      <4>1. Register!Marked(d.acct, "dead", 1)
        BY <1>2, <2>2, <3>2 DEF Register!Renewed
      <4>2. QED
        BY <1>2, <4>1, MarkedRow
    <3>3. QED
      BY <3>1, <3>2
  <2>3. QED
    BY <2>1, <2>2
<1>4. /\ member' \in [Emails -> RegRow' \cup {None}]
      /\ \A b : member[b] \in RegRow => member'[b] \in RegRow'
  BY <1>1, <1>2, <1>3, RowWritten
<1>5. TalkOK'
  BY <1>1, <1>4, EndsOK DEF RegInv
<1>6. QED
  BY <1>1, <1>4, <1>5 DEF RegInv, BookOK, AgentOK

LEMMA CoolingStep ==
    ASSUME RegInv, NEW a \in Emails, Register!Cools(a) \/ Register!Heal(a)
    PROVE  RegInv'
<1>1. member[a] # None /\ UNCHANGED <<taken, registry, domain, proxy, talk, site, refused>>
  BY DEF Register!Cools, Register!Heal, Register!Has, Register!book
<1>2. member[a] \in RegRow /\ member[a].fails = 1
  BY <1>1 DEF RegInv, RegRow
<1>3. \E row \in RegRow : member' = [member EXCEPT ![a] = row]
  <2>1. CASE Register!Cools(a)
    BY <1>2, <2>1, MarkedRow DEF Register!Cools
  <2>2. CASE Register!Heal(a)
    <3>1. /\ [member[a] EXCEPT !.status = "dead", !.retry = 0] \in RegRow
          /\ ~(member[a].retry + 1 >= 2) => [member[a] EXCEPT !.retry = member[a].retry + 1] \in RegRow
      <4>1. /\ member[a].status \in {"active", "cooling", "dead"} /\ member[a].cookie \in site
            /\ member[a].fails \in {1} /\ member[a].retry \in {0, 1}
            /\ member[a] = [status |-> member[a].status, cookie |-> member[a].cookie,
                            fails |-> member[a].fails, retry |-> member[a].retry]
        BY <1>2 DEF RegRow
      <4>2. ~(member[a].retry + 1 >= 2) => member[a].retry + 1 \in {0, 1}
        BY <4>1
      <4>3. QED
        BY <4>1, <4>2 DEF RegRow
    <3>2. CASE member[a].retry + 1 >= 2
      <4>1. member' = [member EXCEPT ![a] = [member[a] EXCEPT !.status = "dead", !.retry = 0]]
        BY <2>2, <3>2 DEF Register!Heal
      <4>2. QED
        BY <3>1, <4>1
    <3>3. CASE ~(member[a].retry + 1 >= 2)
      <4>1. member' = [member EXCEPT ![a] = [member[a] EXCEPT !.retry = member[a].retry + 1]]
        BY <2>2, <3>3 DEF Register!Heal
      <4>2. QED
        BY <3>1, <3>3, <4>1
    <3>4. QED
      BY <3>2, <3>3
  <2>3. QED
    BY <2>1, <2>2
<1>4. /\ member' \in [Emails -> RegRow' \cup {None}]
      /\ \A b : member[b] \in RegRow => member'[b] \in RegRow'
  BY <1>1, <1>3, RowWritten
<1>5. AgentOK'
  <2>1. UNCHANGED agent \/ Register!EnsureClient(Register!Wanted(proxy))
    BY DEF Register!Cools, Register!Heal
  <2>2. QED
    BY <1>1, <2>1, ClientOK, WantedOK DEF RegInv, AgentOK
<1>6. TalkOK'
  BY <1>1, <1>4 DEF RegInv, TalkOK, RegCall
<1>7. QED
  BY <1>1, <1>4, <1>5, <1>6 DEF RegInv, BookOK

LEMMA RestartStep == ASSUME RegInv, Register!Restart PROVE RegInv'
<1>1. /\ taken' = Register!LoadUsed /\ proxy' = None /\ agent' = Register!NewClient(direct, 1)
      /\ talk' = [c \in {"join", "daily"} |-> Register!Idle]
      /\ member' = [a \in Emails |-> IF member[a] = None THEN None ELSE [member[a] EXCEPT !.retry = 0]]
      /\ UNCHANGED <<registry, domain, site, refused>>
  BY DEF Register!Restart
<1>2. TalkOK'
  <2>1. RegCall' = RegCall
    BY DEF RegCall
  <2>2. /\ talk' \in [{"join", "daily"} -> RegCall]
        /\ \A c \in {"join", "daily"} : talk'[c].at = "idle" /\ talk'[c].acct = None
    BY <1>1, IdleIs
  <2>3. QED
    BY <2>1, <2>2 DEF TalkOK
<1>3. BookOK' /\ AgentOK'
  BY <1>1 DEF RegInv, BookOK, AgentOK, Register!LoadUsed, Register!NewClient
<1>4. member' \in [Emails -> RegRow' \cup {None}]
  <2>1. RegRow' = RegRow /\ \A r \in RegRow : [r EXCEPT !.retry = 0] \in RegRow
    BY <1>1 DEF RegRow
  <2>2. QED
    BY <1>1, <2>1 DEF RegInv
<1>5. QED
  BY <1>1, <1>2, <1>3, <1>4 DEF RegInv

LEMMA RegStep == ASSUME RegInv, [Register!Next]_registerVars PROVE RegInv'
<1>1. CASE UNCHANGED registerVars
  BY <1>1 DEF registerVars, RegInv, BookOK, TalkOK, AgentOK, RegRow, RegCall
<1>2. CASE Register!Next
  BY <1>2, JoinStep, SiteStep, RegisterStep, DailyStep, DailyEnds, CoolingStep, RestartStep DEF Register!Next
<1>3. QED
  BY <1>1, <1>2

\* The book of addresses, the rows of accounts, the client and its two callers:
\* a row has a session of the site, and a check-in has its row, for every set of
\* addresses (api/registerer/flow.py, api/email_pool.py).
THEOREM RegisterTypeCorrect == Register!Spec => []Register!TypeOK
<1>1. UNCHANGED Register!vars <=> UNCHANGED registerVars
  BY DEF Register!vars, Register!book, registerVars
<1>2. RegInv /\ [Register!Next]_Register!vars => RegInv'
  BY <1>1, RegStep
<1>3. QED
  BY <1>2, RegInit, RegTypes, PTL DEF Register!Spec

-----------------------------------------------------------------------------
(* All of them                                                             *)

everyVar == <<which, providerVars, frontVars>>

(* Who it is takes a step, or none does: each component sees one of its    *)
(* own steps or none.                                                      *)
LEMMA ProviderSteps == [AllNext]_everyVar =>
    [Next]_vars /\ [RouterNext]_routerVars /\ [ChatNext]_chatVars
<1> SUFFICES ASSUME [AllNext]_everyVar PROVE [Next]_vars /\ [RouterNext]_routerVars /\ [ChatNext]_chatVars
  OBVIOUS
<1>1. CASE UNCHANGED providerVars
  <2>1. UNCHANGED guardVars /\ UNCHANGED routerVars /\ UNCHANGED chatVars
    BY <1>1 DEF providerVars
  <2>2. UNCHANGED vars
    BY <2>1 DEF guardVars, vars
  <2>3. QED
    BY <2>1, <2>2
<1>2. CASE Next /\ UNCHANGED <<routerVars, chatVars>>
  BY <1>2
<1>3. CASE ((RouterNext /\ UNCHANGED chatVars) \/ (ChatNext /\ UNCHANGED routerVars)) /\ UNCHANGED guardVars
  <2>1. UNCHANGED vars
    BY <1>3 DEF guardVars, vars
  <2>2. QED
    BY <1>3, <2>1
<1>4. QED
  BY <1>1, <1>2, <1>3 DEF AllNext, everyVar

LEMMA FrontSteps == [AllNext]_everyVar =>
    [RulesNext]_rulesVars /\ [AccountsNext]_accountVars /\ [Register!Next]_Register!vars
<1> SUFFICES ASSUME [AllNext]_everyVar
             PROVE  [RulesNext]_rulesVars /\ [AccountsNext]_accountVars /\ [Register!Next]_Register!vars
  OBVIOUS
<1>1. UNCHANGED registerVars => UNCHANGED Register!vars
  BY DEF Register!vars, Register!book, registerVars
<1>2. CASE UNCHANGED frontVars
  BY <1>1, <1>2 DEF frontVars
<1>3. CASE FrontNext
  BY <1>1, <1>3 DEF FrontNext
<1>4. QED
  BY <1>2, <1>3 DEF AllNext, everyVar

(* So the behaviours TLC explores are behaviours of each component.        *)
LEMMA EachBehaves ==
    AllSpec => Spec /\ RouterSpec /\ ChatSpec /\ RulesSpec /\ AccountsSpec /\ Register!Spec
<1>1. AllInit => Init /\ RouterInit /\ ChatInit /\ RulesInit /\ AccountsInit /\ Register!Init
  BY DEF AllInit, FrontInit
<1>2. QED
  BY <1>1, ProviderSteps, FrontSteps, PTL
     DEF AllSpec, everyVar, Spec, RouterSpec, ChatSpec, RulesSpec, AccountsSpec, Register!Spec

(* Every safety property of the run providers holds of all the behaviours  *)
(* it explores, whatever the size of the components: failover, loads,      *)
(* answers with tools, syncs, limits and loans (api/solver_guard.py,       *)
(* api/adaptive_router.py, api/routes/chat.py, api/request_guard.py,       *)
(* api/account_pool).                                                      *)
THEOREM PromisesAreKept ==
    AllSpec => /\ [](ReliableServes /\ LoadCovered /\ ToolAnswerWhole /\ BurstBounded /\ SharedOnlyAfterOverrule)
               /\ SyncKeepsStanding
<1>1. AllSpec => []ReliableServes /\ []ToolAnswerWhole /\ []SharedOnlyAfterOverrule /\ SyncKeepsStanding
  BY EachBehaves, FailoverReaches, ToolAnswersAreWhole, AccountsAreLentOnce, SyncsKeepRules, PTL
<1>2. AllSpec => []LoadCovered /\ []BurstBounded
  BY EachBehaves, LoadsCover, BurstsAreBounded, PTL
<1>3. QED
  BY <1>1, <1>2, PTL

(* Every type invariant holds of all of them, whatever the sets and bounds *)
(* of the components, registration with the bounds given above             *)
(* (api/solver_guard.py, api/adaptive_router.py, api/routes/chat.py,       *)
(* api/request_guard.py, api/account_pool, api/registerer/flow.py).        *)
THEOREM AllTypesHold == AllSpec => []TypesOK
<1>1. AllSpec => []TypeOK /\ []RouterTypes /\ []ChatTypes
  BY EachBehaves, TypeCorrect, RouterTypeCorrect, ChatTypeCorrect, PTL
<1>2. AllSpec => []RulesTypes /\ []AccountTypes /\ []Register!TypeOK
  BY EachBehaves, RulesTypeCorrect, AccountTypeCorrect, RegisterTypeCorrect, PTL
<1>3. QED
  BY <1>1, <1>2, PTL DEF TypesOK, FrontTypes
=============================================================================
