---------------------------- MODULE MCProviders -----------------------------
(***************************************************************************)
(* What stands between a request and the sites outside, checked in one run *)
(* like the components of MCServices: the federation of captcha solvers,   *)
(* the choice of a provider, the answers of the chat, the guard in front   *)
(* of them, the accounts and their registration.                           *)
(***************************************************************************)
EXTENDS SolverGuard, Router, RequestGuard, ChatStream, AccountPool

CONSTANT Components

VARIABLE which  \* whose behaviour this is

(* In front of the engine and around the accounts                          *)

CONSTANTS Emails, direct  \* Registration

ASSUME EmailsAssumption == None \notin Emails

VARIABLES taken, registry, domain, member, proxy, agent, talk, site, refused, reboots

registerVars == <<taken, registry, domain, member, proxy, agent, talk, site, refused, reboots>>

(* api/request_guard.py: one request per minute, pages of one rule, and a  *)
(* bucket that is not refilled (api/config/__init__.py:325)                *)
RuleKinds == [a \in Addresses |-> IF a \in Callers THEN {"daily_limit"} ELSE {"block"}]

(* api/registerer, api/email_pool.py: addresses of one domain, one proxy   *)
Register == INSTANCE Registration WITH
    DomainOf <- [a \in Emails |-> 1], Exits <- {1}, MinFails <- 2, MaxRetry <- 2, MaxFails <- 1,
    MaxClients <- 2, MaxRestarts <- 1,
    used <- taken, account <- member, client <- agent, call <- talk, restarts <- reboots

frontVars == <<rulesVars, accountVars, registerVars>>

FrontInit ==
    /\ RulesInit
    /\ AccountsInit
    /\ (which = "accounts" \/ (joining = "idle" /\ \A a \in Members : account[a].status = "absent"))
    /\ Register!Init

FrontNext ==
    /\ \/ /\ which = "guard" /\ RulesNext
          /\ UNCHANGED <<accountVars, registerVars>>
       \/ /\ which = "accounts" /\ AccountsNext
          /\ UNCHANGED <<rulesVars, registerVars>>
       \/ /\ which = "registration" /\ Register!Next
          /\ UNCHANGED <<rulesVars, accountVars>>
    /\ UNCHANGED which

\* The fairness of each component, as its module states it.
FrontFair ==
    /\ SF_accountVars(which = "accounts" /\ Reclaim)
    /\ WF_accountVars(which = "accounts" /\ (Wake \/ WakeAll))
    /\ WF_accountVars(which = "accounts" /\ \E a \in Members : HealFails(a) \/ HealBreaks(a))
    /\ \A a \in Members : WF_accountVars(which = "accounts" /\ Rests(a))

FrontTypes == RulesTypes /\ AccountTypes /\ Register!TypeOK

\* api/registerer/flow.py:499: the session of a row is its account's.
OwnSession == Register!OwnSession
\* api/account_pool/borrow.py:226: healing gives up who was refused.
SelfHeals == Register!SelfHeals

-----------------------------------------------------------------------------
(* The solvers, the choice of a provider, the chat, and all of them        *)

CONSTANTS Fallen, Plain  \* Router: providers beside the engine

(* api/providers/registry.py, api/adaptive_router.py: the engine, a        *)
(* provider that reports its rate limits, and one that does not, in the    *)
(* order of their registration                                             *)
Ordered == <<Engine, Fallen, Plain>>
OnlyFallen == {Fallen}

guardVars == <<nodes, reliable, node, inflight, left, explicit, result>>

\* The default solver takes twice the load of the other.
Weights == [n \in URLs |-> IF n = Default THEN 2 ELSE 1]

providerVars == <<guardVars, routerVars, chatVars>>

\* Only the runs of the solvers differ in their federation.
AllInit ==
    /\ which \in Components
    /\ Init /\ (which = "solvers" \/ (nodes = URLs /\ reliable = {}))
    /\ RouterInit /\ ChatInit
    /\ FrontInit

AllNext ==
    \/ /\ \/ /\ which = "solvers" /\ Next
             /\ UNCHANGED <<routerVars, chatVars>>
          \/ /\ which = "router" /\ RouterNext
             /\ UNCHANGED <<guardVars, chatVars>>
          \/ /\ which = "chat" /\ ChatNext
             /\ UNCHANGED <<guardVars, routerVars>>
       /\ UNCHANGED <<which, frontVars>>
    \/ FrontNext /\ UNCHANGED providerVars

\* The fairness of each component, as its module states it.
AllSpec ==
    /\ AllInit /\ [][AllNext]_<<which, providerVars, frontVars>>
    /\ WF_routerVars(which = "router" /\ TryRecoverAll)
    /\ FrontFair

\* Types of every component (api/solver_guard.py, api/adaptive_router.py,
\* api/routes/chat.py, api/request_guard.py, api/account_pool, api/registerer).
TypesOK == TypeOK /\ RouterTypes /\ ChatTypes /\ FrontTypes

\* api/providers/registry.py:288: a degraded provider is used again.
Recovers == which = "router" => ComesBack
=============================================================================
