---------------------------- MODULE MCServices ----------------------------
(***************************************************************************)
(* Components that do not call each other, checked in one run: `which`     *)
(* says whose behaviour this is, and the variables of the others stand     *)
(* still.  The bounds come from the .cfg: larger ones for the safety of    *)
(* each component, smaller ones for what must happen.                      *)
(***************************************************************************)
EXTENDS MCGeneration, TokenPool, MailSources, AgentMemory, VectorStore, UsageReports

(* What the service remembers beside its requests and where it gets        *)
(* addresses from: the mail sources, the memory of the chat agent, the     *)
(* vectors of finished tasks, what is thrown away, and the reports about   *)
(* the calls of the chats.                                                 *)

CONSTANTS Garbage, Mishaps  \* Housekeeping: some of the items below

VARIABLES coming, there, years, at, wait, nightly, refused, last, window, quiet, told, mishap

houseVars == <<coming, there, years, at, wait, nightly, refused, last, window, quiet, told, mishap>>
storeVars == <<mailVars, memoryVars, vectorVars, houseVars, usageVars>>

(* api/email_pool.py, api/email_sources: every kind of source, in one      *)
(* line-up or another                                                      *)
SomeLineUps == {<<"imap", "mailtm">>, <<"linshi", "tempmail">>, <<"mailgw", "guerrilla">>,
                <<"temptf", "do22", "tempmailio">>}

(* api/agent/memory.py: two scenes; all but the first are weighty          *)
TwoScenes == [f \in Observations |-> f % 2]
AllButOne == Observations \ {1}

(* api/vector/store.py: one task apart from the others                     *)
Points == [t \in Finished |-> IF t = 1 THEN 0 ELSE 1]

(* api/bg_tasks.py, api/alerting.py, api/base64_store.py                   *)
Kinds == [row |-> "request", img |-> "file", img2 |-> "file", letter |-> "letter"]
House == INSTANCE Housekeeping WITH
    Items <- Garbage, KindOf <- Kinds, Life <- 0, Quota <- 1, Target <- 1,
    Interval <- 1, Cooldown <- 1, Surge <- 2, MaxErrors <- 2, MaxFaults <- Mishaps,
    ahead <- coming, kept <- there, age <- years, errors <- refused, faults <- mishap

(* api/chat_usage.py: one call that succeeds, of several models of one     *)
(* provider; the .cfg has days of two hours and a month of one day         *)
OneGood == {CHOOSE c \in Calls \cup {None} : TRUE}
OneProvider == [c \in Calls |-> "chat"]
EachItsModel == [c \in Calls |-> c]

StoresInit ==
    /\ MailInit /\ (which = "mail" \/ kind = CHOOSE l \in LineUps : TRUE)
    /\ MemoryInit
    /\ VectorInit
    /\ House!Init
    /\ UsageInit

StoresNext ==
    /\ \/ which = "mail" /\ MailNext
       \/ which = "memory" /\ MemoryNext
       \/ which = "vector" /\ VectorNext
       \/ which = "house" /\ House!Next
       \/ which = "usage" /\ UsageNext
    /\ UNCHANGED which
    /\ which # "mail" => UNCHANGED mailVars
    /\ which # "memory" => UNCHANGED memoryVars
    /\ which # "vector" => UNCHANGED vectorVars
    /\ which # "house" => UNCHANGED houseVars
    /\ which # "usage" => UNCHANGED usageVars

\* The fairness of each component, as its module states it.
StoresFair ==
    /\ WF_houseVars(which = "house" /\ House!Round)
    /\ WF_houseVars(which = "house" /\ House!Tick)

StoresTypes == MailTypes /\ MemoryTypes /\ VectorTypes /\ House!TypeOK /\ UsageTypes

\* api/bg_tasks.py:97, 174: a round that works makes up for those that failed.
RoundsMakeUp == which = "house" => House!RoundsMakeUp

-----------------------------------------------------------------------------
(* All of them                                                             *)

\* The bounds of the components that are instances; the others state their own.
ASSUME BoundsAssumption ==
    /\ {Funerals, Mishaps, Midnights, Images, Deaths} \subseteq Nat
    /\ IsFiniteSet(Pages) /\ Shelf \in Nat \ {0}

poolVars == <<buf, active, need, client, loop, aim>>

AllInit ==
    /\ which \in Components
    /\ DataInit
    /\ UpstreamInit
    /\ GenerationInit
    /\ StoresInit
    /\ Init

AllNext ==
    \/ DataNext /\ UNCHANGED <<upstreamVars, generationVars, storeVars, poolVars>>
    \/ UpstreamNext /\ UNCHANGED <<dataVars, generationVars, storeVars, poolVars>>
    \/ GenerationNext /\ UNCHANGED <<dataVars, upstreamVars, storeVars, poolVars>>
    \/ StoresNext /\ UNCHANGED <<dataVars, upstreamVars, generationVars, poolVars>>
    \/ which = "tokens" /\ Next /\ UNCHANGED <<which, dataVars, upstreamVars, generationVars, storeVars>>

AllSpec == AllInit /\ [][AllNext]_<<which, dataVars, upstreamVars, generationVars, storeVars, poolVars>>

AllFairSpec == AllSpec /\ DataFair /\ UpstreamFair /\ GenerationFair /\ StoresFair

\* Types of every component (api/db/core.py, api/dispatch.py, api/sse_events.py,
\* api/cache.py, api/proxy_pool.py, deploy/cf_solver/api_server.py,
\* api/worker/token_pool.py, api/dispatch_edit.py, api/providers/action_sniffer.py,
\* api/imagefree_client.py, api/email_pool.py, api/agent/memory.py,
\* api/vector/store.py, api/bg_tasks.py).
TypesOK == DataTypes /\ UpstreamTypes /\ GenerationTypes /\ StoresTypes /\ TypeOK
=============================================================================
