---------------------------- MODULE RequestGuard ----------------------------
(***************************************************************************)
(* The guard in front of every generation, api/request_guard.py: the rules *)
(* about addresses, kept in a table (api/db/ip_blocklist_store.py) and     *)
(* copied into memory page by page while the endpoints of                  *)
(* api/routes/security.py change them, and the two limits every request    *)
(* passes, whose violations write a rule of their own.                     *)
(***************************************************************************)
EXTENDS Naturals, FiniteSets, Sequences, SequencesExt, FiniteSetsExt

CONSTANTS Addresses, Callers, Syncs, NoRule,
          KindsOf,                  \* per address the kinds of rule written about it
          PageSize,
          Limit, Capacity, Refill,  \* requests per window; the bucket and what a tick adds
          MaxWrong, DailyLimit,
          Window, Spell, Day,       \* in ticks of 30 s (the life of the copy): 60 s, 300 s, a day
          MaxChanges                \* bound: rules written and taken back

ASSUME RulesAssumption ==
    /\ IsFiniteSet(Addresses) /\ Callers \subseteq Addresses
    /\ {PageSize, MaxWrong} \subseteq Nat \ {0}
    /\ {Limit, Capacity, Window} \subseteq Nat \ {0}  \* a limit of 0 switches it off
    /\ {DailyLimit, Refill, MaxChanges} \subseteq Nat
    /\ NoRule \notin Nat

VARIABLES table,    \* ip_blocklist: per address its rule or None
          memory,   \* _BLOCKLIST_CACHE
          stamps,   \* changes so far; the stamp of a rule is its updated_at (no two the same)
          asked,    \* addresses _auto_block_ip is spawned for
          writing,  \* rules that have their stamp and wait for the write lock
          lapsed,   \* stamps whose expire_at has passed
          fresh,    \* _LAST_CACHE_SYNC is recent
          sync,     \* calls of _sync_blocklist_cache
          pending,  \* rules written and not yet in memory, of the endpoints and _auto_block_ip
          doomed,   \* addresses ip_blocklist_store.get found lapsed
          tokens,   \* _l1_token_buckets
          recent,   \* per address the ages of its requests, calls of the day and violations
          quiet     \* ticks since the address drew on its bucket, at most Window

ruleVars == <<table, stamps, asked, writing, doomed>>
rateVars == <<tokens, recent, quiet>>
rulesVars == <<ruleVars, memory, lapsed, fresh, sync, pending, rateVars>>

NoSync == [at |-> "idle", cursor |-> NoRule, found |-> {}, since |-> {}]

RulesInit ==
    /\ table = [a \in Addresses |-> NoRule] /\ memory = table
    /\ stamps = 0 /\ asked = {} /\ writing = {} /\ lapsed = {} /\ fresh = TRUE
    /\ sync = [s \in Syncs |-> NoSync] /\ pending = {} /\ doomed = {}
    /\ tokens = [a \in Callers |-> Capacity]
    /\ recent = [a \in Callers |-> [rate |-> <<>>, daily |-> <<>>, wrong |-> <<>>]]
    /\ quiet = [a \in Callers |-> Window]

Lapsed(rule) == rule.stamp \in lapsed
Rows == {table[a] : a \in {b \in Addresses : table[b] # NoRule}}

-----------------------------------------------------------------------------
(* The table                                                               *)

\* add_or_update up to the write lock: the stamp is taken before it.
Stamp(a, kind) ==
    /\ stamps < MaxChanges
    /\ stamps' = stamps + 1
    /\ writing' = writing \cup {[ip |-> a, kind |-> kind, stamp |-> stamps + 1]}
    /\ UNCHANGED <<table, memory, lapsed, fresh, sync, pending, doomed, rateVars>>

BlockIp(a) == UNCHANGED asked /\ \E kind \in KindsOf[a] : Stamp(a, kind)

AutoBlockIp(a) ==
    /\ a \in asked /\ asked' = asked \ {a}
    /\ Stamp(a, "block")

\* The rest of it: the row is committed before its writer comes back.
Write(rule) ==
    /\ rule \in writing /\ writing' = writing \ {rule}
    /\ table' = [table EXCEPT ![rule.ip] = rule]
    /\ pending' = pending \cup {[ip |-> rule.ip, rule |-> rule]}
    /\ UNCHANGED <<memory, stamps, asked, lapsed, fresh, sync, doomed, rateVars>>

WriteFails(rule) ==
    /\ rule \in writing /\ writing' = writing \ {rule}
    /\ UNCHANGED <<table, memory, stamps, asked, lapsed, fresh, sync, pending, doomed, rateVars>>

UnblockIp(a) ==
    /\ stamps < MaxChanges /\ stamps' = stamps + 1
    /\ table' = [table EXCEPT ![a] = NoRule]
    /\ pending' = pending \cup {[ip |-> a, rule |-> NoRule]}
    /\ UNCHANGED <<memory, asked, writing, lapsed, fresh, sync, doomed, rateVars>>

\* apply_ip_rule; a removal, invalidate_ip_cache, also asks for a full sync.
ApplyIpRule(p) ==
    /\ p \in pending /\ pending' = pending \ {p}
    /\ memory' = [memory EXCEPT ![p.ip] = p.rule]
    /\ fresh' = (fresh /\ p.rule # NoRule)
    /\ UNCHANGED <<ruleVars, lapsed, sync, rateVars>>

\* ip_blocklist_store.get: a lapsed rule is removed in the background, whatever
\* stands in the row by then.
Status(a) ==
    /\ table[a] # NoRule /\ Lapsed(table[a])
    /\ doomed' = doomed \cup {a}
    /\ UNCHANGED <<table, memory, stamps, asked, writing, lapsed, fresh, sync, pending, rateVars>>

RemoveExpired(a) ==
    /\ a \in doomed /\ doomed' = doomed \ {a}
    /\ table' = [table EXCEPT ![a] = NoRule]
    /\ UNCHANGED <<memory, stamps, asked, writing, lapsed, fresh, sync, pending, rateVars>>

Lapse ==
    /\ \E rule \in Rows : lapsed' = lapsed \cup {rule.stamp} /\ ~Lapsed(rule)
    /\ UNCHANGED <<ruleVars, memory, fresh, sync, pending, rateVars>>

-----------------------------------------------------------------------------
(* The copy                                                                *)

\* The newest rules that stand, at most n of them, older than the cursor.
Newest(rules, n) == {r \in rules : Cardinality({q \in rules : q.stamp > r.stamp}) < n}

\* mutant: pages are counted off from the newest, as before the cursor.
PageByOffset(c) ==
    LET standing == {r \in Rows : ~Lapsed(r)}
    IN  Newest(standing, Cardinality(c.found) + PageSize) \ Newest(standing, Cardinality(c.found))

\* list_all with `updated_before`
Page(c) ==
    Newest({r \in Rows : ~Lapsed(r) /\ (c.cursor # NoRule => r.stamp < c.cursor)}, PageSize)

\* _sync_blocklist_cache: a page at a time until one is not full.
Fetch(s) ==
    LET page == Page(sync[s])
    IN  /\ sync[s].at = "read"
        /\ sync' = [sync EXCEPT ![s] =
                       [at |-> IF Cardinality(page) < PageSize THEN "swap" ELSE "read",
                        cursor |-> IF page = {} THEN sync[s].cursor ELSE Min({r.stamp : r \in page}),
                        found |-> sync[s].found \cup page,
                        since |-> sync[s].since]]
        /\ UNCHANGED <<ruleVars, memory, lapsed, fresh, pending, rateVars>>

\* Of two rules of an address the one found later is kept.
Swap(s) ==
    /\ sync[s].at = "swap"
    /\ memory' = [a \in Addresses |->
                    LET mine == {r \in sync[s].found : r.ip = a}
                    IN  IF mine = {} THEN NoRule
                        ELSE CHOOSE r \in mine : \A q \in mine : r.stamp <= q.stamp]
    /\ fresh' = TRUE
    /\ sync' = [sync EXCEPT ![s].at = "clean"]
    /\ UNCHANGED <<ruleVars, lapsed, pending, rateVars>>

CleanupExpired(s) ==
    /\ sync[s].at = "clean"
    /\ table' = [a \in Addresses |-> IF table[a] # NoRule /\ Lapsed(table[a]) THEN NoRule ELSE table[a]]
    /\ sync' = [sync EXCEPT ![s] = NoSync]
    /\ UNCHANGED <<memory, stamps, asked, writing, lapsed, fresh, pending, doomed, rateVars>>

\* A sync of the table fails: the copy stays.
SyncFails(s) ==
    /\ sync[s].at \in {"read", "clean"}
    /\ sync' = [sync EXCEPT ![s] = NoSync]
    /\ UNCHANGED <<ruleVars, memory, lapsed, fresh, pending, rateVars>>

-----------------------------------------------------------------------------
(* A request                                                               *)

\* _get_cached_ip_rule: the rule that stands, or None; a miss starts a sync
\* when the last one is old (at most one for each of Syncs).
Cached(a) == IF memory[a] # NoRule /\ Lapsed(memory[a]) THEN NoRule ELSE memory[a]
LookUp(a) ==
    LET free == {s \in Syncs : sync[s].at = "idle"}
        due == Cached(a) = NoRule /\ ~fresh
    IN  /\ memory' = [memory EXCEPT ![a] = Cached(a)]
        /\ fresh' = (fresh \/ due)
        /\ sync' = IF due /\ free # {}
                   THEN [sync EXCEPT ![CHOOSE s \in free : TRUE] =
                            [NoSync EXCEPT !.at = "read", !.since = Rows]]
                   ELSE sync

Refuses(a) ==
    /\ Cached(a) # NoRule
    /\ Cached(a).kind = "block" \/ Len(recent[a].daily) >= DailyLimit

\* _record_auto_block_violation: the last one spawns the writing of a rule
\* (at most one is under way for an address).
Violate(a, ages) ==
    LET last == Len(ages.wrong) + 1 >= MaxWrong
    IN  /\ recent' = [recent EXCEPT ![a] = [ages EXCEPT !.wrong = IF last THEN <<>> ELSE Append(@, 0)]]
        /\ asked' = IF last THEN asked \cup {a} ELSE asked
        /\ UNCHANGED <<table, stamps, writing, doomed>>

\* check_rate_limit: the rule, the bucket (_l1_check) and the window in turn.
\* A call counts for the day before the limits refuse it.
CheckRateLimit(a) ==
    LET daily == Cached(a) # NoRule /\ Cached(a).kind = "daily_limit"
        ages == [recent[a] EXCEPT !.daily = IF daily THEN Append(@, 0) ELSE @]
        drawn == tokens[a] >= 1
    IN  /\ LookUp(a) /\ UNCHANGED <<lapsed, pending>>
        /\ IF Refuses(a) THEN UNCHANGED <<ruleVars, rateVars>>
           ELSE /\ quiet' = [quiet EXCEPT ![a] = 0]
                /\ tokens' = [tokens EXCEPT ![a] = IF drawn THEN @ - 1 ELSE @]
                /\ IF ~drawn \/ Len(ages.rate) >= Limit THEN Violate(a, ages)
                   ELSE /\ recent' = [recent EXCEPT ![a] = [ages EXCEPT !.rate = Append(@, 0)]]
                        /\ UNCHANGED ruleVars

\* Engine._finish: a task that failed counts against its caller as well
\* (within the window of its request).
TaskFails(a) ==
    /\ recent[a].rate # <<>>
    /\ Violate(a, recent[a])
    /\ UNCHANGED <<memory, lapsed, fresh, sync, pending, tokens, quiet>>

\* A tick later the last n are still there.
LastOf(ages, n) == [i \in 1 .. n |-> ages[Len(ages) - n + i] + 1]

\* Calls are in the order of their times: those that no longer count come first.
Older(ages, span) == LastOf(ages, Cardinality({i \in DOMAIN ages : ages[i] + 1 < span}))

Passes ==
    /\ fresh' = FALSE
    /\ recent' = [a \in Callers |-> [rate |-> Older(recent[a].rate, Window),
                                     daily |-> Older(recent[a].daily, Day),
                                     wrong |-> Older(recent[a].wrong, Spell)]]
    /\ tokens' = [a \in Callers |-> Min({Capacity, tokens[a] + Refill})]
    /\ quiet' = [a \in Callers |-> Min({Window, quiet[a] + 1})]
    /\ UNCHANGED <<ruleVars, memory, lapsed, sync, pending>>

\* mutant: every bucket is dropped, however lately it was drawn on
GcAll ==
    /\ tokens' = [a \in Callers |-> Capacity]
    /\ UNCHANGED <<ruleVars, memory, lapsed, fresh, sync, pending, recent, quiet>>

\* _gc_unbounded_ip_state, when the records of all addresses are too many: a
\* bucket nobody drew on for a window is dropped, and a new one is full (calls
\* and violations that are dropped count no more).
Gc ==
    /\ tokens' = [a \in Callers |-> IF quiet[a] = Window THEN Capacity ELSE tokens[a]]
    /\ UNCHANGED <<ruleVars, memory, lapsed, fresh, sync, pending, recent, quiet>>

RulesNext ==
    \/ Passes \/ Lapse \/ Gc
    \/ \E a \in Addresses : BlockIp(a) \/ AutoBlockIp(a) \/ UnblockIp(a) \/ Status(a) \/ RemoveExpired(a)
    \/ \E rule \in writing : Write(rule) \/ WriteFails(rule)
    \/ \E p \in pending : ApplyIpRule(p)
    \/ \E s \in Syncs : Fetch(s) \/ Swap(s) \/ CleanupExpired(s) \/ SyncFails(s)
    \/ \E a \in Callers : CheckRateLimit(a) \/ TaskFails(a)

RulesSpec == RulesInit /\ [][RulesNext]_rulesVars

-----------------------------------------------------------------------------
(* Properties                                                              *)

RulesTypes ==
    /\ \A r \in Rows : r.stamp \in 1 .. stamps /\ table[r.ip] = r
    /\ \A rule \in writing : rule.stamp \in 1 .. stamps /\ rule \notin Rows
    /\ asked \subseteq Callers
    /\ stamps \in 0 .. MaxChanges /\ lapsed \subseteq 1 .. stamps
    /\ fresh \in BOOLEAN /\ doomed \subseteq Addresses
    /\ \A a \in Addresses : memory[a] # NoRule => memory[a].ip = a
    /\ \A s \in Syncs : sync[s].at \in {"idle", "read", "swap", "clean"}
    /\ \A a \in Callers :
        /\ tokens[a] \in 0 .. Capacity /\ quiet[a] \in 0 .. Window
        /\ Len(recent[a].rate) <= Limit /\ Len(recent[a].daily) <= DailyLimit
        /\ Len(recent[a].wrong) < MaxWrong

\* request_guard.py:370, a sync page by page while rules are written and
\* removed: a rule that stood from its start to its end is in memory then.
SyncKeepsStanding ==
    [][\A s \in Syncs : sync[s].at = "swap" /\ sync'[s].at = "clean" =>
         \A r \in sync[s].since \cap Rows : ~Lapsed(r) => memory'[r.ip] = r]_rulesVars

\* request_guard.py:247 and :535, two counts of the same requests: those of the
\* last minute that were let through, and what is left in the bucket, are never
\* more than it holds and is given within the minute, whoever forgets a bucket.
BurstBounded ==
    \A a \in Callers : Len(recent[a].rate) + tokens[a] <= Capacity + Refill * (Window - 1)
=============================================================================
