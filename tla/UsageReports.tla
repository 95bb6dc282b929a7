---------------------------- MODULE UsageReports ----------------------------
(***************************************************************************)
(* The records of chat calls (api/chat_usage.py) and the reports made from *)
(* them: the statistics of a period, the cost overview and the forecast    *)
(* (api/routes/admin/query.py, api/cost_forecast.py), and what is left of  *)
(* the hour.  A record is a buffered write (api/db/core.py, WriteBuffer);  *)
(* a report is several queries with awaits between them, and most of them  *)
(* flush the buffer first.  An answer is the groups of calls it sums over; *)
(* a call costs 1.  The credits of the image accounts are left out         *)
(* (IF_USD_PER_CREDIT is 0 unless it is set).                              *)
(***************************************************************************)
EXTENDS Naturals, Sequences, FiniteSets

CONSTANTS Calls,                \* chat calls
          Good,                 \* those that succeed
          ProviderOf, ModelOf,  \* functions of Calls
          Hour, Day, Rolling,   \* lengths in steps of the clock; Rolling, 30 days, stands for a month
          Budget,               \* IF_COST_BUDGET_USD
          Absent,
          MaxClock, MaxDrops    \* bounds: time, failing flushes

\* The 30 days are days of 24 hours (api/chat_usage.py:252).
UsageAssumption ==
    /\ IsFiniteSet(Calls)
    /\ Hour \in Nat /\ Day \in Nat \ {0} /\ Rolling \in Nat \ {0} /\ Rolling % Day = 0
    /\ Budget \in Nat /\ MaxClock \in Nat /\ MaxDrops \in Nat
    /\ Absent \notin 0 .. MaxClock /\ Absent \notin {"stats", "overview", "forecast", "credits"}
ASSUME UsageAssumption

VARIABLES clock,
          recorded, \* per call the time of its record
          unsaved,  \* calls whose INSERT is in the write buffer
          swapped,  \* and those a flush of the timer has swapped out
          usage,    \* the table chat_usage
          report,   \* the report that is being made
          warned,   \* today's last overview that was over the budget
          drops

usageVars == <<clock, recorded, unsaved, swapped, usage, report, warned, drops>>

NoReport == [kind |-> Absent, length |-> 0, now |-> 0, day |-> 0, asked |-> {}, part |-> <<>>]
Untold == [over |-> FALSE, asked |-> {}]

UsageInit ==
    /\ clock = 0 /\ drops = 0
    /\ recorded = [c \in Calls |-> Absent]
    /\ unsaved = {} /\ swapped = {} /\ usage = {}
    /\ report = NoReport
    /\ warned = Untold

-----------------------------------------------------------------------------
(* Records                                                                 *)

Record(c) ==
    /\ recorded[c] = Absent
    /\ recorded' = [recorded EXCEPT ![c] = clock]
    /\ unsaved' = unsaved \cup {c}
    /\ UNCHANGED <<clock, swapped, usage, report, warned, drops>>

\* The timer swaps the buffer out and, holding the lock, stores it; a failure
\* drops what is left of it.
Swap ==
    /\ swapped = {} /\ unsaved # {}
    /\ swapped' = unsaved /\ unsaved' = {}
    /\ UNCHANGED <<clock, recorded, usage, report, warned, drops>>

Store ==
    /\ swapped # {}
    /\ swapped' = {}
    /\ \/ usage' = usage \cup swapped /\ UNCHANGED drops
       \/ /\ drops < MaxDrops
          /\ drops' = drops + 1
          /\ \E some \in SUBSET swapped : usage' = usage \cup some
    /\ UNCHANGED <<clock, recorded, unsaved, report, warned>>

-----------------------------------------------------------------------------
(* Reports                                                                 *)

\* The queries of each report, in order.
StatsQueries == <<"calls", "models", "providers", "today", "cost", "todayCost">>
OverviewQueries == <<"month", "today", "monthly", "byProvider", "byModel">>
Queries == [stats |-> StatsQueries, overview |-> OverviewQueries, forecast |-> <<"daily">>,
            credits |-> <<"used">>]

Unflushed == {"providers"}    \* the query after that of the models

Groups(set, key) == {{c \in set : key[c] = key[one]} : one \in set}
PerMonth(set) == Groups(set, [c \in Calls |-> recorded[c] \div Rolling])
PerProvider(set) == Groups(set, ProviderOf)
PerModel(set) == Groups(set, [c \in Calls |-> <<ProviderOf[c], ModelOf[c]>>])
Successes(set) == set \cap Good

DayOf(t) == t \div Day
Today(set) == {c \in set : DayOf(recorded[c]) >= report.day}

\* mutant: the sums of the overview have no end
OpenEnd(set) == set

\* cost_usd_for_range: before the `now` of the handler
UntilNow(set) == set \cap report.asked

\* cost_daily(30): from the day 30 days ago on
LastDays(set) == {c \in set : DayOf(recorded[c]) * Day + Rolling >= report.day * Day}

\* What a query makes of the rows it can see; the lists of the overview go
\* back twelve months.
Summed(query, set) ==
    LET since == {c \in set : recorded[c] + report.length >= report.now}
    IN  CASE query \in {"calls", "cost"} -> {since}
          [] query = "models" -> PerModel(since)
          [] query = "providers" -> PerProvider(since)
          [] query = "month" -> {UntilNow(since)}
          [] query = "today" /\ report.kind = "overview" -> {UntilNow(Today(set))}
          [] query = "today" /\ report.kind = "stats" -> {Today(set)}
          [] query = "todayCost" -> {Today(set)}
          [] query = "monthly" -> PerMonth(set)
          [] query = "byProvider" -> PerProvider(set)
          [] query = "byModel" -> PerModel(set)
          [] query = "daily" -> Groups(LastDays(set), [c \in Calls |-> DayOf(recorded[c])])
          [] query = "used" -> {Successes(since)}

AskReport(kind) ==
    /\ report.kind = Absent
    /\ \E length \in CASE kind = "stats" -> {Hour, Day, Rolling}
                       [] kind = "credits" -> {Hour}
                       [] OTHER -> {Rolling} :
          report' = [kind |-> kind, length |-> length, now |-> clock, day |-> DayOf(clock),
                     asked |-> {c \in Calls : recorded[c] # Absent}, part |-> <<>>]
    /\ UNCHANGED <<clock, recorded, unsaved, swapped, usage, warned, drops>>

\* _ensure_flushed has the lock and empties the buffer.
Flushed(query) ==
    IF query \in Unflushed THEN UNCHANGED <<unsaved, usage>>
    ELSE swapped = {} /\ unsaved' = {} /\ usage' = usage \cup unsaved

NextQuery == Queries[report.kind][Len(report.part) + 1]
Querying == report.kind # Absent /\ Len(report.part) < Len(Queries[report.kind])

\* The statistics look at the date before they ask for the day.
NextPart ==
    /\ Querying
    /\ Flushed(NextQuery)
    /\ report' = [report EXCEPT !.part = Append(@, Summed(NextQuery, usage')),
                                !.day = IF NextQuery = "providers" THEN DayOf(clock) ELSE @]
    /\ UNCHANGED <<clock, recorded, swapped, warned, drops>>

\* The flush before a query fails and drops what it has not stored: no answer.
QueryFails ==
    /\ Querying /\ NextQuery \notin Unflushed /\ swapped = {} /\ unsaved # {}
    /\ drops < MaxDrops
    /\ drops' = drops + 1
    /\ unsaved' = {}
    /\ \E some \in SUBSET unsaved : usage' = usage \cup some
    /\ report' = NoReport
    /\ UNCHANGED <<clock, recorded, swapped, warned>>

\* The overview says whether the month is over the budget; the forecast when
\* it will be: now (0 steps left), later, or never.
Over(spent) == Budget > 0 /\ Cardinality(spent) >= Budget

DaysLeft(spent) ==
    LET n == Cardinality(spent)
    IN  CASE Budget = 0 \/ n = 0 -> Absent
          [] n >= Budget -> 0
          [] OTHER -> ((Budget - n) * Rolling) \div n

Reply ==
    /\ report.kind # Absent /\ ~Querying
    /\ warned' = IF report.kind # "overview" THEN warned
                 ELSE IF Over(UNION report.part[1]) /\ report.day = DayOf(clock)
                 THEN [over |-> TRUE, asked |-> report.asked] ELSE Untold
    /\ report' = NoReport
    /\ UNCHANGED <<clock, recorded, unsaved, swapped, usage, drops>>

\* A report takes less than a step of the clock, but one may pass meanwhile.
ClockTicks ==
    /\ clock < MaxClock
    /\ report.kind # Absent => report.now = clock
    /\ clock' = clock + 1
    /\ warned' = IF DayOf(clock') = DayOf(clock) THEN warned ELSE Untold
    /\ UNCHANGED <<recorded, unsaved, swapped, usage, report, drops>>

UsageNext ==
    \/ \E c \in Calls : Record(c)
    \/ Swap \/ Store
    \/ \E kind \in DOMAIN Queries : AskReport(kind)
    \/ NextPart \/ QueryFails \/ Reply \/ ClockTicks

UsageSpec == UsageInit /\ [][UsageNext]_usageVars

-----------------------------------------------------------------------------
(* Properties                                                              *)

UsageTypes ==
    /\ clock \in 0 .. MaxClock /\ drops \in 0 .. MaxDrops
    /\ \A c \in Calls : recorded[c] \in 0 .. MaxClock \cup {Absent}
    /\ unsaved \subseteq Calls /\ swapped \subseteq Calls /\ usage \subseteq Calls
    /\ report.kind \in DOMAIN Queries \cup {Absent}
    /\ Len(report.part) <= 6

Part(query) == UNION report.part[CHOOSE i \in DOMAIN report.part : Queries[report.kind][i] = query]
HasPart(query) == \E i \in DOMAIN report.part : Queries[report.kind][i] = query
Within(one, other) == HasPart(one) /\ HasPart(other) => Part(one) \subseteq Part(other)

\* The queries of a report are not one transaction, and calls are recorded
\* between them; still its parts agree: a later part of the statistics has
\* every call an earlier one counted, the day is within the month of the
\* overview, and its lists by month, provider and model have both
\* (api/chat_usage.py:83, api/routes/admin/query.py:95).
PartsAgree ==
    /\ report.kind = "stats" =>
        /\ Within("calls", "models") /\ Within("models", "providers") /\ Within("providers", "cost")
        /\ Within("today", "todayCost")
    /\ report.kind = "overview" =>
        /\ Within("today", "month") /\ Within("month", "monthly")
        /\ Within("monthly", "byProvider") /\ Within("byProvider", "byModel")

\* A report counts every call of its period that was recorded before it was
\* asked for, also one that a flush under way had swapped out, unless a flush
\* has failed (api/chat_usage.py:76).
CountsEarlierCalls ==
    drops = 0 => \A i \in DOMAIN report.part :
        UNION Summed(Queries[report.kind][i], report.asked) \subseteq UNION report.part[i]

\* When the overview says the budget is used up, a forecast asked for later on
\* the same day says so too, although one counts 30 times 24 hours
\* and the other days of the calendar ("与 /v1/cost 保持一致",
\* api/cost_forecast.py:7).
ForecastNotRosier ==
    report.kind = "forecast" /\ HasPart("daily") /\ warned.over /\ warned.asked \subseteq report.asked
        => DaysLeft(Part("daily")) = 0

\* What the reports say of the recorded calls is one account of them.
ReportsAgree == PartsAgree /\ CountsEarlierCalls /\ ForecastNotRosier
=============================================================================
