----------------------------- MODULE ChatStream -----------------------------
(***************************************************************************)
(* A chat request: api/routes/chat.py, which speaks the protocols of       *)
(* OpenAI and Anthropic, streamed or collected, over the attempts of       *)
(* api/providers/tryingopen, each with another exit and the last without   *)
(* a proxy.  A delta stands for any piece of text; what counts is from     *)
(* which attempt it came and into which block it was put.                  *)
(***************************************************************************)
EXTENDS Naturals, Sequences

CONSTANTS Chats,     \* requests
          Rounds,    \* IF_TRYINGOPEN_MAX_ATTEMPTS, and the one without a proxy
          MaxParts   \* bound: deltas of an attempt

ASSUME ChatAssumption == Rounds \in Nat \ {0}

VARIABLES chat,   \* the generator of the answer: its kind, where it is, the attempt
          out,    \* what the client was sent, or has been collected for it
          rows    \* chat_usage: the success of the recorded calls

chatVars == <<chat, out, rows>>

Kinds == {"openai", "anthropic", "collected"}
NoCall == [at |-> "idle", kind |-> "openai", tools |-> FALSE, round |-> 0]

ChatInit ==
    /\ chat = [c \in Chats |-> NoCall]
    /\ out = [c \in Chats |-> <<>>]
    /\ rows = [c \in Chats |-> <<>>]

At(c, place) == chat[c].at = place
Goes(c, place) == chat' = [chat EXCEPT ![c].at = place]
Frame(c, what, block) == [what |-> what, block |-> block, round |-> chat[c].round]
Send(c, frames) == out' = [out EXCEPT ![c] = @ \o frames]

\* Anthropic's blocks: the first, for text, ends with the first reasoning.
Thinking(c) == \E i \in DOMAIN out[c] : out[c][i].what = "open_thinking"
Block(c) == IF Thinking(c) THEN 1 ELSE 0

TextFrames(c) == <<Frame(c, "text", Block(c))>>
Opening(c) ==
    IF chat[c].kind # "anthropic" \/ Thinking(c) THEN <<>>
    ELSE <<Frame(c, "close", 0), Frame(c, "open_thinking", 1)>>

ReasoningFrames(c) ==
    LET opening == Opening(c)
    IN opening \o <<Frame(c, "reasoning", IF opening = <<>> THEN Block(c) ELSE 1)>>

-----------------------------------------------------------------------------
\* The first frames go out before the provider is asked.
Ask(c, kind, tools) ==
    /\ At(c, "idle")
    /\ chat' = [chat EXCEPT ![c] = [at |-> "reading", kind |-> kind, tools |-> tools, round |-> 1]]
    /\ Send(c, CASE kind = "openai" -> <<Frame(c, "role", 0)>>
                 [] kind = "anthropic" -> <<Frame(c, "message_start", 0), Frame(c, "open_text", 0)>>
                 [] OTHER -> <<>>)
    /\ UNCHANGED rows

Heard(c) == Len(SelectSeq(out[c], LAMBDA f :
                    f.what \in {"text", "reasoning"} /\ f.round = chat[c].round))

\* mutant: with tools too
StreamsAlways(c) == TRUE
\* chat_stream passes the deltas of an attempt on as they come, unless there
\* are tools: their calls are found in the whole text only.
Streams(c) == ~chat[c].tools

Delta(c) ==
    /\ At(c, "reading") /\ Streams(c) /\ Heard(c) < MaxParts
    /\ Send(c, TextFrames(c)) \/ Send(c, ReasoningFrames(c))
    /\ UNCHANGED <<chat, rows>>

\* An attempt that a rate limit, the network or the provider breaks off is followed
\* by the next one; what it has sent stays sent, and stays in the collected text.
Breaks(c) ==
    /\ At(c, "reading")
    /\ IF chat[c].round < Rounds
       THEN chat' = [chat EXCEPT ![c].round = @ + 1]
       ELSE Goes(c, "failed")
    /\ UNCHANGED <<out, rows>>

\* An exception that chat_stream does not catch, as of an answer that is not
\* what it reads, is not followed by another attempt.
BreaksForGood(c) ==
    /\ At(c, "reading")
    /\ Goes(c, "failed") /\ UNCHANGED <<out, rows>>

\* The attempt is over, also when it was cut without an error.  With tools its
\* whole result is sent now: _result_events; Anthropic's stream has no frame for
\* the calls found in it.
WholeResult(c, reasoned, texts, calls) ==
    LET anthropic == chat[c].kind = "anthropic"
    IN (IF reasoned THEN ReasoningFrames(c) ELSE <<>>)
       \o (IF texts THEN <<Frame(c, "text", IF anthropic /\ reasoned THEN 1 ELSE 0)>> ELSE <<>>)
       \o (IF calls /\ ~anthropic THEN <<Frame(c, "tool_call", 0)>> ELSE <<>>)
Results(c) ==
    IF Streams(c) THEN {<<>>}
    ELSE {WholeResult(c, reasoned, texts, calls) : reasoned, texts, calls \in BOOLEAN}

Finishes(c) ==
    /\ At(c, "reading")
    /\ \E result \in Results(c) :
          Send(c, result \o (IF chat[c].kind = "openai" THEN <<Frame(c, "finish", 0)>> ELSE <<>>))
    /\ Goes(c, "answered")
    /\ UNCHANGED rows

\* After the provider: what closes the message, then the row, then the last frame.
Closes(c) ==
    /\ At(c, "answered")
    /\ Send(c, CASE chat[c].kind = "openai" -> <<Frame(c, "usage", 0)>>
                 [] chat[c].kind = "anthropic" -> <<Frame(c, "close", Block(c)), Frame(c, "finish", 0)>>
                 [] OTHER -> <<>>)
    /\ Goes(c, "closing") /\ UNCHANGED rows

Final(c) == <<Frame(c, "end", 0)>>

Record(c, success) == rows' = [rows EXCEPT ![c] = Append(@, success)]

CallSucceeds(c) ==
    /\ At(c, "closing")
    /\ Record(c, TRUE) /\ Send(c, Final(c)) /\ Goes(c, "done")
CallFails(c) ==
    /\ At(c, "failed")
    /\ Record(c, FALSE)
    /\ Send(c, <<Frame(c, "error", 0)>> \o Final(c))
    /\ Goes(c, "done")

\* The client of a stream leaves: GeneratorExit passes every handler, and no
\* row is written.
Leaves(c) ==
    /\ chat[c].at \in {"reading", "answered", "closing", "failed"}
    /\ chat[c].kind # "collected"
    /\ Goes(c, "left") /\ UNCHANGED <<out, rows>>

ChatNext == \E c \in Chats :
    \/ \E kind \in Kinds, tools \in BOOLEAN : Ask(c, kind, tools)
    \/ Delta(c) \/ Breaks(c) \/ BreaksForGood(c) \/ Finishes(c)
    \/ Closes(c) \/ CallSucceeds(c) \/ CallFails(c) \/ Leaves(c)

ChatSpec == ChatInit /\ [][ChatNext]_chatVars

-----------------------------------------------------------------------------
Frames == [what : {"role", "message_start", "open_text", "open_thinking", "close", "text",
                   "reasoning", "tool_call", "usage", "finish", "error", "end"},
           block : {0, 1}, round : 0..Rounds]

\* Types of a chat request (api/routes/chat.py:300).
ChatTypes ==
    /\ chat \in [Chats -> [at : {"idle", "reading", "answered", "closing", "failed", "done", "left"},
                           kind : Kinds, tools : BOOLEAN, round : 0..Rounds]]
    /\ \A c \in Chats : /\ out[c] \in Seq(Frames) /\ rows[c] \in Seq(BOOLEAN)

Count(s, what, block) == Len(SelectSeq(s, LAMBDA f : f.what = what /\ f.block = block))

Part(f) == f.what \in {"text", "reasoning", "tool_call"}
FromOneAttempt(c) ==
    \A i, j \in DOMAIN out[c] :
        Part(out[c][i]) /\ Part(out[c][j]) => out[c][i].round = out[c][j].round

\* An answer in which tools may be called comes whole from one attempt, however
\* many broke off before it (api/providers/tryingopen/__init__.py:232).
ToolAnswerWhole == \A c \in Chats : chat[c].tools => FromOneAttempt(c)
=============================================================================
