--------------------------- MODULE ServicesProofs ---------------------------
(***************************************************************************)
(* Proofs about all the components of MCServices together: what is proved  *)
(* of each by itself holds of the behaviours TLC explores, and every       *)
(* variable stays in its type, for all values of the constants.            *)
(***************************************************************************)
EXTENDS MCServices, DataProofs, GenerationProofs, StoresProofs, TLAPS

-----------------------------------------------------------------------------
(* The lock file of the edits                                              *)

(* A process waits once more than it may at most before it gives up.       *)
MutexInv ==
    /\ Mutex!TypeOK
    /\ \A p \in Editors : pc[p] \in {"judging", "pausing", "unlinking"} => waited[p] <= 1

LEMMA MutexStep == MutexInv /\ [Mutex!Next]_mutexVars => MutexInv'
<1> SUFFICES ASSUME MutexInv, [Mutex!Next]_mutexVars PROVE MutexInv'
  OBVIOUS
<1> USE BoundsAssumption DEF MutexInv, Mutex!TypeOK, Mutex!Goto
<1>1. ASSUME NEW p \in Editors, Mutex!Begin(p) \/ Mutex!End(p) \/ Mutex!Restart(p) PROVE MutexInv'
  BY <1>1 DEF Mutex!Begin, Mutex!End, Mutex!Restart
<1>2. ASSUME NEW p \in Editors, Mutex!Crash(p) PROVE MutexInv'
  BY <1>2 DEF Mutex!Crash
<1>3. ASSUME NEW p \in Editors, Mutex!GiveUp(p) \/ Mutex!Open(p) PROVE MutexInv'
  BY <1>3 DEF Mutex!GiveUp, Mutex!Open
<1>4. ASSUME NEW p \in Editors, Mutex!Write(p) PROVE MutexInv'
  <2>1. lock' \in {lock, [is |-> "full", by |-> lock.by, life |-> lock.life, age |-> 0]}
    BY <1>4 DEF Mutex!Write
  <2>2. lock' \in [is : {"absent", "empty", "full"}, by : Editors \cup {None}, life : 0..Funerals, age : 0..4]
    BY <2>1
  <2>3. QED
    BY <1>4, <2>2 DEF Mutex!Write
<1>5. ASSUME NEW p \in Editors, Mutex!Judge(p) \/ Mutex!Unlink(p) \/ Mutex!Check(p) \/ Mutex!Remove(p) PROVE MutexInv'
  BY <1>5 DEF Mutex!Judge, Mutex!Unlink, Mutex!Check, Mutex!Remove, Mutex!NoFile
<1>6. CASE Mutex!Tick
  BY <1>6 DEF Mutex!Tick
<1>7. CASE UNCHANGED mutexVars
  BY <1>7 DEF mutexVars
<1>8. QED
  BY <1>1, <1>2, <1>3, <1>4, <1>5, <1>6, <1>7 DEF Mutex!Next, Mutex!Attempt

LEMMA MutexInit == Mutex!Init => MutexInv
BY BoundsAssumption DEF Mutex!Init, MutexInv, Mutex!TypeOK, Mutex!NoFile

-----------------------------------------------------------------------------
(* What is thrown away                                                     *)

HouseInv == House!TypeOK /\ coming \subseteq Garbage

LEMMA HouseInit == House!Init => HouseInv
BY DEF House!Init, HouseInv, House!TypeOK, House!After

LEMMA HouseStep == HouseInv /\ [House!Next]_houseVars => HouseInv'
<1> SUFFICES ASSUME HouseInv, [House!Next]_houseVars PROVE HouseInv'
  OBVIOUS
<1> USE DEF HouseInv, House!TypeOK, House!After, House!round, House!items, House!GoesOn, House!Sleep, House!Gone
<1>1. CASE House!Wake \/ House!Clean \/ House!EnforceQuota
  BY <1>1 DEF House!Wake, House!Clean, House!EnforceQuota, House!Kinds
<1>2. CASE House!Measure \/ House!Evaluate
  BY <1>2 DEF House!Measure, House!Evaluate, House!Delta
<1>3. CASE House!Fails
  <2>1. UNCHANGED <<coming, years, refused, last, window, told, quiet>> /\ there' \subseteq there
    BY <1>3 DEF House!Fails
  <2>2. at' \in DOMAIN House!After /\ wait' \in 0..1
    BY <1>3 DEF House!Fails, House!RoundBreaks
  <2>3. QED
    BY <2>1, <2>2
<1>4. CASE House!Tick
  BY <1>4 DEF House!Tick, House!Less
<1>5. CASE House!NightFalls \/ House!NightEnds
  BY <1>5 DEF House!NightFalls, House!NightEnds
<1>6. CASE House!Restart
  BY <1>6 DEF House!Restart
<1>7. CASE House!AuthError
  BY <1>7 DEF House!AuthError
<1>8. ASSUME NEW x \in Garbage, House!Add(x) \/ House!DropBatch(x) PROVE HouseInv'
  BY <1>8 DEF House!Add, House!DropBatch
<1>9. CASE UNCHANGED houseVars
  BY <1>9 DEF houseVars
<1>10. QED
  BY <1>1, <1>2, <1>3, <1>4, <1>5, <1>6, <1>7, <1>8, <1>9 DEF House!Next, House!Round

-----------------------------------------------------------------------------
(* The proxies                                                             *)

ProxyNames == {residential, public}
CallStates == [at : {"idle", "next", "solve", "send"}, kind : {"engine", "chat", "single", None},
            proxy : ProxyNames \cup {None}, round : 0 .. 3]
EntryStates == [use : 0 .. 2, today : BOOLEAN, cool : 0 .. 1, old : BOOLEAN, idle : BOOLEAN]

ProxyInv ==
    /\ pool \subseteq ProxyNames
    /\ entry \in [ProxyNames -> EntryStates]
    /\ used \in [ProxyNames -> 0 .. 2]
    /\ call \in [Drawers \cup Talkers -> CallStates]
    /\ \A c \in Drawers \cup Talkers :
        /\ call[c].at \in {"idle", "next"} => call[c].proxy = None
        /\ call[c].kind # "engine" => call[c].round <= 2
    /\ days \in 0 .. Midnights /\ ages \in 0 .. 1

LEMMA Cooling == ASSUME NEW n \in Nat PROVE Proxy!CooldownFor(n) \in 0 .. 1
<1>1. Proxy!Max({1, 2}) = 2
  BY DEF Proxy!Max
<1>2. DOMAIN <<0, 1>> = {1, 2} /\ <<0, 1>>[1] = 0 /\ <<0, 1>>[2] = 1
  OBVIOUS
<1>3. QED
  BY <1>1, <1>2 DEF Proxy!CooldownFor

LEMMA Longest ==
    /\ Proxy!Max({Proxy!Short} \cup {<<0, 1>>[n] : n \in DOMAIN <<0, 1>>}) = 1
    /\ Proxy!Max({Proxy!Rounds, 1 + 1}) = 3
<1>1. {Proxy!Short} \cup {<<0, 1>>[n] : n \in DOMAIN <<0, 1>>} = {0, 1}
  <2>1. DOMAIN <<0, 1>> = {1, 2} /\ <<0, 1>>[1] = 0 /\ <<0, 1>>[2] = 1
    OBVIOUS
  <2>2. QED
    BY <2>1 DEF Proxy!Short
<1>2. Proxy!Max({0, 1}) = 1
  BY DEF Proxy!Max
<1>3. Proxy!Max({3, 2}) = 3
  BY DEF Proxy!Max
<1>4. QED
  BY <1>1, <1>2, <1>3 DEF Proxy!Rounds

LEMMA Counting == ASSUME NEW n \in 0 .. 2 PROVE Proxy!OneMore(n) \in 0 .. 2
<1>1. \A m \in {n + 1, 2} : Proxy!Min({n + 1, 2}) \in {n + 1, 2} /\ Proxy!Min({n + 1, 2}) <= m
  <2>1. CASE n = 2
    BY <2>1 DEF Proxy!Min
  <2>2. CASE n # 2
    BY <2>2 DEF Proxy!Min
  <2>3. QED
    BY <2>1, <2>2
<1>2. QED
  BY <1>1 DEF Proxy!OneMore

LEMMA ProxyTyped == ProxyInv => Proxy!TypeOK
BY Longest DEF ProxyInv, Proxy!TypeOK, ProxyNames, EntryStates, CallStates

LEMMA ProxyInit == Proxy!Init => ProxyInv
BY BoundsAssumption DEF Proxy!Init, ProxyInv, ProxyNames, EntryStates, CallStates, Proxy!Fresh, Proxy!Resting

\* Places of a call and entries of the pool, field by field.
Moved(s, x, y, z) == [s EXCEPT !.at = x, !.proxy = y, !.round = z]

LEMMA PlaceChanges ==
    ASSUME NEW s \in CallStates, NEW x, NEW y, NEW z
    PROVE  Moved(s, x, y, z) = [at |-> x, kind |-> s.kind, proxy |-> y, round |-> z]
<1>1. s = [at |-> s.at, kind |-> s.kind, proxy |-> s.proxy, round |-> s.round]
  BY DEF CallStates
<1>2. PICK a, k, p, n : s = [at |-> a, kind |-> k, proxy |-> p, round |-> n]
  BY <1>1, Zenon
<1>3. s.kind = k
  BY <1>2
<1>4. [s EXCEPT !.at = x] = [at |-> x, kind |-> k, proxy |-> p, round |-> n]
  BY <1>2
<1>5. [[at |-> x, kind |-> k, proxy |-> p, round |-> n] EXCEPT !.proxy = y]
        = [at |-> x, kind |-> k, proxy |-> y, round |-> n]
  OBVIOUS
<1>6. [[at |-> x, kind |-> k, proxy |-> y, round |-> n] EXCEPT !.round = z]
        = [at |-> x, kind |-> k, proxy |-> y, round |-> z]
  OBVIOUS
<1>7. QED
  BY <1>3, <1>4, <1>5, <1>6, Zenon DEF Moved

LEMMA EntryChanges ==
    ASSUME NEW s \in EntryStates, NEW x \in 0 .. 2, NEW y \in 0 .. 1
    PROVE  /\ [s EXCEPT !.today = TRUE, !.use = 0] \in EntryStates
           /\ [s EXCEPT !.use = x, !.cool = y, !.idle = FALSE] \in EntryStates
           /\ [s EXCEPT !.old = TRUE, !.idle = TRUE] \in EntryStates
           /\ [s EXCEPT !.old = TRUE] \in EntryStates
           /\ [s EXCEPT !.cool = y] \in EntryStates
<1>1. \A e \in EntryStates, n \in 0 .. 2, k \in 0 .. 1, b \in BOOLEAN :
        /\ [e EXCEPT !.use = n] \in EntryStates
        /\ [e EXCEPT !.cool = k] \in EntryStates
        /\ [e EXCEPT !.today = b] \in EntryStates
        /\ [e EXCEPT !.old = b] \in EntryStates
        /\ [e EXCEPT !.idle = b] \in EntryStates
  BY DEF EntryStates
<1>2. [s EXCEPT !.today = TRUE, !.use = 0] \in EntryStates
  <2>1. [s EXCEPT !.today = TRUE] \in EntryStates
    BY <1>1
  <2>2. 0 \in 0 .. 2
    OBVIOUS
  <2>3. [[s EXCEPT !.today = TRUE] EXCEPT !.use = 0] \in EntryStates
    BY <1>1, <2>1, <2>2, Zenon
  <2>4. QED
    BY <2>3, Zenon
<1>3. [s EXCEPT !.use = x, !.cool = y, !.idle = FALSE] \in EntryStates
  <2>1. [s EXCEPT !.use = x] \in EntryStates
    BY <1>1
  <2>2. [[s EXCEPT !.use = x] EXCEPT !.cool = y] \in EntryStates
    BY <1>1, <2>1, Zenon
  <2>3. [[[s EXCEPT !.use = x] EXCEPT !.cool = y] EXCEPT !.idle = FALSE] \in EntryStates
    BY <1>1, <2>2, FALSE \in BOOLEAN, Zenon
  <2>4. QED
    BY <2>3, Zenon
<1>4. [s EXCEPT !.old = TRUE, !.idle = TRUE] \in EntryStates
  <2>1. [s EXCEPT !.old = TRUE] \in EntryStates
    BY <1>1
  <2>2. [[s EXCEPT !.old = TRUE] EXCEPT !.idle = TRUE] \in EntryStates
    BY <1>1, <2>1, TRUE \in BOOLEAN, Zenon
  <2>3. QED
    BY <2>2, Zenon
<1>5. QED
  BY <1>1, <1>2, <1>3, <1>4

LEMMA AskedTyped == ASSUME ProxyInv PROVE Proxy!Asked \in [ProxyNames -> EntryStates]
<1>1. ASSUME NEW u \in ProxyNames PROVE Proxy!Renewed(entry[u]) \in EntryStates
  <2>1. entry[u] \in EntryStates
    BY DEF ProxyInv
  <2>2. [entry[u] EXCEPT !.today = TRUE, !.use = 0] \in EntryStates
    <3>1. 0 \in 0 .. 2 /\ 0 \in 0 .. 1
      OBVIOUS
    <3>2. QED
      BY <2>1, <3>1, EntryChanges, Zenon
  <2>3. QED
    BY <2>1, <2>2, Zenon DEF Proxy!Renewed
<1>2. QED
  BY <1>1 DEF Proxy!Asked, ProxyInv, ProxyNames

LEMMA StandsTyped ==
    ASSUME ProxyInv, NEW c \in Drawers \cup Talkers, NEW to \in {"next", "solve", "send"}, 
           NEW u \in ProxyNames \cup {None}, NEW n \in 0 .. 3, Proxy!Stands(c, to, u, n),
           to = "next" => u = None, call[c].kind # "engine" => n <= 2
    PROVE  /\ call' \in [Drawers \cup Talkers -> CallStates]
           /\ \A d \in Drawers \cup Talkers :
                /\ call'[d].at \in {"idle", "next"} => call'[d].proxy = None
                /\ call'[d].kind # "engine" => call'[d].round <= 2
<1>1. call' = [call EXCEPT ![c] = [at |-> to, kind |-> call[c].kind, proxy |-> u, round |-> n]]
  <2>1. call' = [call EXCEPT ![c] = Moved(call[c], to, u, n)]
    BY Zenon DEF Proxy!Stands, Moved
  <2>2. call[c] \in CallStates
    BY DEF ProxyInv
  <2>3. Moved(call[c], to, u, n) = [at |-> to, kind |-> call[c].kind, proxy |-> u, round |-> n]
    BY <2>2, PlaceChanges
  <2>4. QED
    BY <2>1, <2>3
<1>2. [at |-> to, kind |-> call[c].kind, proxy |-> u, round |-> n] \in CallStates
  BY DEF ProxyInv, CallStates
<1>3. QED
  BY <1>1, <1>2 DEF ProxyInv

LEMMA EndsTyped ==
    ASSUME ProxyInv, NEW c \in Drawers \cup Talkers, Proxy!Ends(c)
    PROVE  /\ call' \in [Drawers \cup Talkers -> CallStates]
           /\ \A d \in Drawers \cup Talkers :
                /\ call'[d].at \in {"idle", "next"} => call'[d].proxy = None
                /\ call'[d].kind # "engine" => call'[d].round <= 2
BY DEF Proxy!Ends, Proxy!Resting, ProxyInv, CallStates

LEMMA TakesProxy == ASSUME ProxyInv, NEW c \in Drawers \cup Talkers, Proxy!Take(c) PROVE ProxyInv'
<1> DEFINE n == call[c].round
<1>0. n \in 0 .. 3 /\ (call[c].kind # "engine" => n <= 2) /\ UNCHANGED <<pool, days, ages>>
  BY DEF ProxyInv, CallStates, Proxy!Take, Proxy!Same
<1>1. ASSUME NEW u \in pool, Proxy!Acquire(u, Proxy!Prefer(c)),
             Proxy!Stands(c, IF call[c].kind = "engine" THEN "solve" ELSE "send", u, n)
      PROVE  ProxyInv'
  <2>0. u \in ProxyNames
    BY <1>1 DEF ProxyInv
  <2>1. PICK m, k : m = Proxy!OneMore(Proxy!Asked[u].use) /\ k = Proxy!CooldownFor(m)
    OBVIOUS
  <2>2. m \in 0 .. 2 /\ k \in 0 .. 1
    BY <2>0, <2>1, AskedTyped, Counting, Cooling DEF EntryStates
  <2>3. entry' = [Proxy!Asked EXCEPT ![u] = [Proxy!Asked[u] EXCEPT !.use = m, !.cool = k, !.idle = FALSE]]
    BY <1>1, <2>1, Zenon DEF Proxy!Acquire
  <2>4. entry' \in [ProxyNames -> EntryStates]
    <3>1. [Proxy!Asked[u] EXCEPT !.use = m, !.cool = k, !.idle = FALSE] \in EntryStates
      BY <2>0, <2>2, AskedTyped, EntryChanges
    <3>2. QED
      BY <2>3, <3>1, AskedTyped, Zenon
  <2>5. used' \in [ProxyNames -> 0 .. 2]
    BY <1>1, <2>0, Counting DEF Proxy!Acquire, ProxyInv
  <2>6. QED
    BY <1>0, <1>1, <2>0, <2>4, <2>5, StandsTyped DEF ProxyInv
<1>2. CASE Proxy!Ends(c) /\ UNCHANGED <<entry, used>>
  BY <1>0, <1>2, EndsTyped DEF ProxyInv
<1>3. CASE Proxy!Stands(c, "send", None, n) /\ UNCHANGED <<entry, used>>
  BY <1>0, <1>3, StandsTyped DEF ProxyInv
<1>4. QED
  BY <1>1, <1>2, <1>3 DEF Proxy!Take

LEMMA FailsProxy == ASSUME ProxyInv, NEW c \in Drawers \cup Talkers, NEW limited \in BOOLEAN, Proxy!Fails(c, limited) PROVE ProxyInv'
<1>1. UNCHANGED <<pool, used, days, ages>>
  BY DEF Proxy!Fails, Proxy!Same
<1>2. entry' \in [ProxyNames -> EntryStates]
  <2>1. CASE UNCHANGED entry
    BY <2>1 DEF ProxyInv
  <2>2. CASE Proxy!MarkFailure(call[c].proxy, limited) /\ call[c].proxy \in pool
    <3>1. PICK u : u = call[c].proxy
      OBVIOUS
    <3>2. u \in ProxyNames /\ entry[u] \in EntryStates
      BY <2>2, <3>1 DEF ProxyInv
    <3>3. PICK k : k = IF limited THEN Proxy!CooldownFor(entry[u].use + 1) ELSE Proxy!Short
      OBVIOUS
    <3>4. entry[u].use + 1 \in Nat
      BY <3>2 DEF EntryStates
    <3>5. k \in 0 .. 1
      BY <3>3, <3>4, Cooling DEF Proxy!Short
    <3>6. entry' = [entry EXCEPT ![u].cool = k]
      BY <2>2, <3>1, <3>3 DEF Proxy!MarkFailure
    <3>7. QED
      BY <3>2, <3>5, <3>6 DEF ProxyInv, EntryStates
  <2>3. QED
    BY <2>1, <2>2 DEF Proxy!Fails, Proxy!MarkFailure
<1>3. CASE Proxy!Ends(c)
  BY <1>1, <1>2, <1>3, EndsTyped DEF ProxyInv
<1>4. CASE Proxy!Again(c, limited) /\ Proxy!Stands(c, "next", None, Proxy!NextRound(c))
  <2>1. Proxy!NextRound(c) \in 0 .. 3 /\ (call[c].kind # "engine" => Proxy!NextRound(c) <= 2)
    BY <1>4 DEF ProxyInv, CallStates, Proxy!NextRound, Proxy!Again, Proxy!Rounds
  <2>2. QED
    BY <1>1, <1>2, <1>4, <2>1, StandsTyped DEF ProxyInv
<1>5. QED
  BY <1>3, <1>4 DEF Proxy!Fails

LEMMA ProxyCalls == ASSUME ProxyInv, NEW c \in Drawers \cup Talkers, Proxy!CallNext(c) PROVE ProxyInv'
<1>1. CASE Proxy!Begin(c)
  <2>1. PICK k \in {"engine", "chat", "single"} :
          call' = [call EXCEPT ![c] = [at |-> "next", kind |-> k, proxy |-> None, round |-> 1]]
    BY <1>1 DEF Proxy!Begin
  <2>2. [at |-> "next", kind |-> k, proxy |-> None, round |-> 1] \in CallStates
    BY DEF CallStates
  <2>3. QED
    BY <1>1, <2>1, <2>2 DEF Proxy!Begin, Proxy!Same, ProxyInv
<1>2. CASE Proxy!Solved(c)
  <2>1. call[c].proxy \in ProxyNames \cup {None} /\ call[c].round \in 0 .. 3 /\ (call[c].kind # "engine" => call[c].round <= 2)
    BY DEF ProxyInv, CallStates
  <2>2. QED
    BY <1>2, <2>1, StandsTyped DEF Proxy!Solved, Proxy!Same, ProxyInv
<1>3. CASE Proxy!Leaves(c)
  BY <1>3, EndsTyped DEF Proxy!Leaves, Proxy!Same, ProxyInv
<1>4. QED
  BY <1>1, <1>2, <1>3, TakesProxy, FailsProxy DEF Proxy!CallNext

LEMMA ProxyStep == ProxyInv /\ [Proxy!Next]_proxyVars => ProxyInv'
<1> SUFFICES ASSUME ProxyInv, [Proxy!Next]_proxyVars PROVE ProxyInv'
  OBVIOUS
<1>1. CASE Proxy!Fetch
  <2>1. Proxy!Fresh \in EntryStates
    BY DEF Proxy!Fresh, EntryStates
  <2>2. PICK new \in SUBSET {public} : TRUE
    OBVIOUS
  <2>3. pool' \subseteq ProxyNames /\ UNCHANGED <<call, days, ages>>
    BY <1>1 DEF Proxy!Fetch, ProxyInv, ProxyNames
  <2>4. entry' \in [ProxyNames -> EntryStates] /\ used' \in [ProxyNames -> 0 .. 2]
    BY <1>1, <2>1 DEF Proxy!Fetch, ProxyInv, ProxyNames
  <2>5. QED
    BY <2>3, <2>4 DEF ProxyInv
<1>2. CASE Proxy!Tick
  <2>1. ASSUME NEW u \in ProxyNames
        PROVE [entry[u] EXCEPT !.cool = IF @ = 0 THEN 0 ELSE @ - 1] \in EntryStates
    BY DEF ProxyInv, EntryStates
  <2>2. entry' \in [ProxyNames -> EntryStates]
    BY <1>2, <2>1 DEF Proxy!Tick, ProxyNames
  <2>3. QED
    BY <1>2, <2>2 DEF Proxy!Tick, ProxyInv
<1>3. CASE Proxy!Midnight
  <2>1. ASSUME NEW u \in ProxyNames PROVE [entry[u] EXCEPT !.today = u \notin pool] \in EntryStates
    BY DEF ProxyInv, EntryStates
  <2>2. entry' \in [ProxyNames -> EntryStates] /\ used' \in [ProxyNames -> 0 .. 2]
    BY <1>3, <2>1 DEF Proxy!Midnight, ProxyNames
  <2>3. QED
    BY <1>3, <2>2, BoundsAssumption DEF Proxy!Midnight, ProxyInv
<1>4. ASSUME NEW u \in ProxyNames, Proxy!Ages(u) PROVE ProxyInv'
  <2>1. entry[u] \in EntryStates /\ entry \in [ProxyNames -> EntryStates]
    BY DEF ProxyInv
  <2>2. entry' \in {[entry EXCEPT ![u] = [entry[u] EXCEPT !.old = TRUE]],
                    [entry EXCEPT ![u] = [entry[u] EXCEPT !.old = TRUE, !.idle = TRUE]]}
    BY <1>4, <2>1, Zenon DEF Proxy!Ages
  <2>3. /\ [entry[u] EXCEPT !.old = TRUE] \in EntryStates
        /\ [entry[u] EXCEPT !.old = TRUE, !.idle = TRUE] \in EntryStates
    <3>1. 0 \in 0 .. 2 /\ 0 \in 0 .. 1
      OBVIOUS
    <3>2. QED
      BY <2>1, <3>1, EntryChanges, Zenon
  <2>4. entry' \in [ProxyNames -> EntryStates]
    BY <2>1, <2>2, <2>3
  <2>5. QED
    BY <1>4, <2>4 DEF Proxy!Ages, ProxyInv
<1>5. CASE UNCHANGED proxyVars
  BY <1>5 DEF proxyVars, ProxyInv
<1>6. QED
  BY <1>1, <1>2, <1>3, <1>4, <1>5, ProxyCalls DEF Proxy!Next, ProxyNames

-----------------------------------------------------------------------------
(* The gallery                                                             *)

\* The pages of a cache, each once and no more than it has room for.
PageLists == {s \in Seq(Pages) : Len(s) <= Shelf /\ IsInjective(s)}
PageRows == [value : 0 .. images, left : 0 .. 2]
ReaderStates == [at : {"idle", "miss", "queried"}, key : Pages \cup {None}, value : 0 .. images]

GalleryInv ==
    /\ images \in 0 .. Images /\ doomed \in 0 .. images /\ restarts \in 0 .. Deaths
    /\ order \in PageLists
    /\ cached \in [Pages -> PageRows] /\ upserts \in [Pages -> PageRows] /\ store \in [Pages -> PageRows]
    /\ deletes \subseteq Pages /\ doing \subseteq Pages
    /\ reader \in [Visitors -> ReaderStates]
    /\ \A c \in Visitors : reader[c].at # "idle" => reader[c].key \in Pages

LEMMA SizeOfList ==
    ASSUME NEW s, NEW n \in Nat, DOMAIN s = 1 .. n, IsInjective(s)
    PROVE  IsFiniteSet(ToSet(s)) /\ Cardinality(ToSet(s)) = n
<1>1. PICK T : T = ToSet(s)
  OBVIOUS
<1>2. IsFiniteSet(1 .. n) /\ Cardinality(1 .. n) = n
  BY FS_Interval
<1>3. ExistsBijection(1 .. n, T)
  <2>1. PICK f : f = [i \in 1 .. n |-> s[i]]
    OBVIOUS
  <2>2. f \in [1 .. n -> T] /\ \A i, j \in 1 .. n : f[i] = f[j] => i = j
    BY <1>1, <2>1 DEF ToSet, IsInjective
  <2>3. \A x \in T : \E i \in 1 .. n : f[i] = x
    BY <1>1, <2>1 DEF ToSet
  <2>4. f \in Bijection(1 .. n, T)
    BY <2>2, <2>3 DEF Bijection, Injection, Surjection, IsInjective
  <2>5. QED
    BY <2>4 DEF ExistsBijection
<1>4. IsFiniteSet(T) /\ Cardinality(T) = Cardinality(1 .. n)
  BY <1>2, <1>3, FS_Bijection
<1>5. QED
  BY <1>1, <1>2, <1>4

LEMMA PageListIs ==
    ASSUME NEW s \in PageLists
    PROVE  /\ s \in Seq(Pages) /\ Len(s) <= Shelf /\ Len(s) \in Nat /\ IsInjective(s)
           /\ Gallery!ToSet(s) = ToSet(s) /\ Gallery!IsInjective(s) /\ ToSet(s) \subseteq Pages
           /\ IsFiniteSet(ToSet(s)) /\ Cardinality(ToSet(s)) = Len(s)
<1>1. s \in Seq(Pages) /\ Len(s) <= Shelf /\ IsInjective(s)
  BY DEF PageLists
<1>2. Len(s) \in Nat /\ DOMAIN s = 1 .. Len(s) /\ \A i \in 1 .. Len(s) : s[i] \in Pages
  BY <1>1, LenProperties, ElementOfSeq
<1>3. Gallery!ToSet(s) = ToSet(s) /\ ToSet(s) \subseteq Pages
  BY <1>2 DEF ToSet, Gallery!ToSet
<1>4. Gallery!IsInjective(s)
  BY <1>1, Zenon DEF IsInjective, Gallery!IsInjective
<1>5. IsFiniteSet(ToSet(s)) /\ Cardinality(ToSet(s)) = Len(s)
  BY <1>1, <1>2, SizeOfList
<1>6. QED
  BY <1>1, <1>2, <1>3, <1>4, <1>5

LEMMA PagesKept ==
    ASSUME NEW s \in PageLists, NEW T
    PROVE  Gallery!Keeping(s, T) \in PageLists /\ ToSet(Gallery!Keeping(s, T)) = ToSet(s) \cap T
<1>1. Gallery!Keeping(s, T) = Keeping(s, T)
  BY Zenon DEF Gallery!Keeping, Keeping
<1>2. s \in Seq(Pages) /\ Len(s) <= Shelf /\ IsInjective(s) /\ Len(s) \in Nat
  BY PageListIs
<1>3. /\ Keeping(s, T) \in Seq(Pages) /\ Len(Keeping(s, T)) <= Len(s)
      /\ ToSet(Keeping(s, T)) = ToSet(s) \cap T /\ IsInjective(Keeping(s, T))
  BY <1>2, KeepingIs
<1>4. Len(Keeping(s, T)) <= Shelf
  BY <1>2, <1>3, LenProperties, BoundsAssumption
<1>5. QED
  BY <1>1, <1>3, <1>4 DEF PageLists

\* A page that is not there finds its place when there is one.
LEMMA PageAdded ==
    ASSUME NEW s \in PageLists, NEW k \in Pages, k \notin ToSet(s), Cardinality(ToSet(s)) < Shelf
    PROVE  Append(s, k) \in PageLists
<1>1. s \in Seq(Pages) /\ IsInjective(s) /\ Len(s) \in Nat /\ Cardinality(ToSet(s)) = Len(s)
  BY PageListIs
<1>2. Append(s, k) \in Seq(Pages) /\ Len(Append(s, k)) = Len(s) + 1 /\ IsInjective(Append(s, k))
  BY <1>1, OneAppended
<1>3. Len(s) + 1 <= Shelf
  BY <1>1, BoundsAssumption
<1>4. QED
  BY <1>2, <1>3 DEF PageLists

\* There is one when a page of the list is not kept.
LEMMA PlaceMade ==
    ASSUME NEW s \in PageLists, NEW k \in ToSet(s), NEW t \in PageLists, ToSet(t) = ToSet(s) \ {k}
    PROVE  Cardinality(ToSet(t)) < Shelf
<1>1. Len(s) \in Nat /\ Len(s) <= Shelf /\ IsFiniteSet(ToSet(s)) /\ Cardinality(ToSet(s)) = Len(s)
  BY PageListIs
<1>2. Cardinality(ToSet(s) \ {k}) = Len(s) - 1
  BY <1>1, FS_RemoveElement
<1>3. QED
  BY <1>1, <1>2, BoundsAssumption

LEMMA FirstIs ==
    ASSUME NEW s \in PageLists, ~(Len(s) < Shelf)
    PROVE  Head(s) \in ToSet(s)
<1>1. s \in Seq(Pages) /\ Len(s) \in Nat /\ DOMAIN s = 1 .. Len(s)
  BY PageListIs, LenProperties
<1>2. 1 \in 1 .. Len(s)
  BY <1>1, BoundsAssumption
<1>3. Head(s) = s[1]
  BY <1>1, <1>2
<1>4. QED
  BY <1>1, <1>2, <1>3, Zenon DEF ToSet

LEMMA NoneShelved == ASSUME NEW s, s = <<>> PROVE s \in PageLists
<1>1. s \in Seq(Pages) /\ Len(s) = 0 /\ DOMAIN s = {}
  BY EmptySeq
<1>2. IsInjective(s)
  BY <1>1, Zenon DEF IsInjective
<1>3. Len(s) <= Shelf
  BY <1>1, BoundsAssumption
<1>4. QED
  BY <1>1, <1>2, <1>3, Zenon DEF PageLists

(* Entries of keys that are not cached, rows that are saved or deleted.    *)
LEMMA RowsKept ==
    ASSUME GalleryInv, NEW e \in [Pages -> PageRows], NEW f \in [Pages -> PageRows], NEW T
    PROVE  /\ Gallery!Of(T, e) \in [Pages -> PageRows]
           /\ Gallery!AfterSave(e, f) \in [Pages -> PageRows]
           /\ Gallery!AfterDelete(e, T) \in [Pages -> PageRows]
           /\ Gallery!NoRows \in [Pages -> PageRows]
<1>1. Gallery!Blank \in PageRows /\ Gallery!NoRow \in PageRows
  BY DEF GalleryInv, Gallery!Blank, Gallery!NoRow, PageRows
<1>2. Gallery!Of(T, e) \in [Pages -> PageRows]
  BY <1>1 DEF Gallery!Of
<1>3. Gallery!AfterSave(e, f) \in [Pages -> PageRows]
  BY <1>1 DEF Gallery!AfterSave
<1>4. Gallery!AfterDelete(e, T) \in [Pages -> PageRows]
  BY <1>1 DEF Gallery!AfterDelete
<1>5. Gallery!NoRows \in [Pages -> PageRows]
  BY <1>1 DEF Gallery!NoRows
<1>6. QED
  BY <1>2, <1>3, <1>4, <1>5

LEMMA GalleryInit == Gallery!Init => GalleryInv
<1> SUFFICES ASSUME Gallery!Init PROVE GalleryInv
  OBVIOUS
<1>1. images = 0 /\ doomed = 0 /\ restarts = 0 /\ order = <<>> /\ deletes = {} /\ doing = {}
  BY DEF Gallery!Init
<1>2. Gallery!Blank \in PageRows /\ Gallery!NoRow \in PageRows /\ Gallery!Idle \in ReaderStates /\ Gallery!Idle.at = "idle"
  BY <1>1 DEF Gallery!Blank, Gallery!NoRow, Gallery!Idle, PageRows, ReaderStates
<1>3. cached \in [Pages -> PageRows] /\ upserts \in [Pages -> PageRows] /\ store \in [Pages -> PageRows]
  BY <1>2 DEF Gallery!Init, Gallery!NoRows
<1>4. reader \in [Visitors -> ReaderStates] /\ \A c \in Visitors : reader[c].at = "idle"
  BY <1>2 DEF Gallery!Init
<1>5. order \in PageLists
  BY <1>1, NoneShelved
<1>6. QED
  BY <1>1, <1>3, <1>4, <1>5, BoundsAssumption DEF GalleryInv

LEMMA GalleryTyped == GalleryInv => Gallery!TypeOK
<1> SUFFICES ASSUME GalleryInv PROVE Gallery!TypeOK
  OBVIOUS
<1>1. Gallery!Cached \subseteq Pages /\ Gallery!IsInjective(order) /\ Len(order) <= Shelf
  BY PageListIs DEF GalleryInv, Gallery!Cached
<1>2. ASSUME NEW k \in Pages, NEW e \in {cached[k], store[k]} PROVE e.value \in 0 .. images /\ e.left \in 0 .. 2
  <2>1. e \in PageRows
    BY <1>2 DEF GalleryInv
  <2>2. QED
    BY <2>1 DEF PageRows
<1>3. ASSUME NEW c \in Visitors PROVE reader[c].at \in {"idle", "miss", "queried"}
  <2>1. reader[c] \in ReaderStates
    BY DEF GalleryInv
  <2>2. QED
    BY <2>1 DEF ReaderStates
<1>4. QED
  BY <1>1, <1>2, <1>3 DEF GalleryInv, Gallery!TypeOK

(* Images are only added, and what was one of them stays so. *)
LEMMA MoreImages ==
    ASSUME GalleryInv, images' \in 0 .. Images, images' = images + 1, doomed' \in {doomed, doomed + 1},
           UNCHANGED <<order, cached, upserts, deletes, doing, store, reader, restarts>>
    PROVE  GalleryInv'
<1>1. images \in Nat /\ doomed \in 0 .. images /\ Images \in Nat /\ images' \in Nat
  BY BoundsAssumption DEF GalleryInv
<1>2. \A n \in 0 .. images : n \in 0 .. images'
  BY <1>1
<1>3. doomed' \in 0 .. images'
  BY <1>1
<1>4. \A e \in PageRows : e \in PageRows'
  BY <1>2 DEF PageRows
<1>5. \A e \in ReaderStates : e \in ReaderStates'
  BY <1>2 DEF ReaderStates
<1>6. cached' \in [Pages -> PageRows'] /\ upserts' \in [Pages -> PageRows'] /\ store' \in [Pages -> PageRows']
  BY <1>4 DEF GalleryInv
<1>7. reader' \in [Visitors -> ReaderStates']
  BY <1>5 DEF GalleryInv
<1>8. QED
  BY <1>3, <1>6, <1>7 DEF GalleryInv, PageLists

(* No image is added: the rows and readers are what they were. *)
LEMMA SameImages ==
    ASSUME GalleryInv, images' = images, doomed' \in 0 .. images, restarts' \in 0 .. Deaths, order' \in PageLists,
           cached' \in [Pages -> PageRows], upserts' \in [Pages -> PageRows], store' \in [Pages -> PageRows],
           deletes' \subseteq Pages, doing' \subseteq Pages, reader' \in [Visitors -> ReaderStates],
           \A c \in Visitors : reader'[c].at # "idle" => reader'[c].key \in Pages
    PROVE  GalleryInv'
BY DEF GalleryInv, PageLists, PageRows, ReaderStates

LEMMA NowTyped == ASSUME GalleryInv
                  PROVE  /\ images \in Nat /\ doomed \in 0 .. images /\ restarts \in 0 .. Deaths /\ order \in PageLists
                         /\ cached \in [Pages -> PageRows] /\ upserts \in [Pages -> PageRows]
                         /\ store \in [Pages -> PageRows] /\ deletes \subseteq Pages /\ doing \subseteq Pages
                         /\ reader \in [Visitors -> ReaderStates]
                         /\ \A c \in Visitors : reader[c].at # "idle" => reader[c].key \in Pages
                         /\ Gallery!Cached = ToSet(order) /\ ToSet(order) \subseteq Pages
<1>1. images \in Nat
  BY BoundsAssumption DEF GalleryInv
<1>2. Gallery!Cached = ToSet(order) /\ ToSet(order) \subseteq Pages
  BY PageListIs DEF GalleryInv, Gallery!Cached
<1>3. QED
  BY <1>1, <1>2 DEF GalleryInv

LEMMA InvalidateInv == ASSUME GalleryInv, Gallery!Invalidate PROVE GalleryInv'
<1>1. doomed' \in 0 .. images
  BY NowTyped DEF Gallery!Invalidate
<1>2. order' \in PageLists
  <2>1. order' = <<>>
    BY DEF Gallery!Invalidate
  <2>2. QED
    BY <2>1, NoneShelved
<1>3. cached' = Gallery!Of({}, cached)
  BY DEF Gallery!Invalidate
<1>4. cached' \in [Pages -> PageRows]
  BY <1>3, NowTyped, RowsKept
<1>5. deletes' \subseteq Pages
  BY NowTyped DEF Gallery!Invalidate
<1>6. UNCHANGED <<images, upserts, doing, store, reader, restarts>>
  BY DEF Gallery!Invalidate
<1>7. QED
  BY <1>1, <1>2, <1>4, <1>5, <1>6, NowTyped, SameImages

(* A reader comes to another place. *)
LEMMA ReaderTurns ==
    ASSUME GalleryInv, NEW c \in Visitors, NEW r \in ReaderStates, r.at # "idle" => r.key \in Pages,
           reader' = [reader EXCEPT ![c] = r]
    PROVE  /\ reader' \in [Visitors -> ReaderStates]
           /\ \A d \in Visitors : reader'[d].at # "idle" => reader'[d].key \in Pages
<1>1. reader \in [Visitors -> ReaderStates]
  BY NowTyped
<1>2. ASSUME NEW d \in Visitors PROVE reader'[d] = IF d = c THEN r ELSE reader[d]
  BY <1>1
<1>3. \A d \in Visitors : reader'[d].at # "idle" => reader'[d].key \in Pages
  BY <1>2, NowTyped
<1>4. QED
  BY <1>1, <1>3

LEMMA WithoutIs ==
    ASSUME GalleryInv, NEW k
    PROVE  Gallery!Without(k) \in PageLists /\ ToSet(Gallery!Without(k)) = ToSet(order) \ {k}
<1>1. /\ Gallery!Without(k) \in PageLists
      /\ ToSet(Gallery!Without(k)) = ToSet(order) \cap (Pages \ {k})
  BY PagesKept, NowTyped DEF Gallery!Without
<1>2. QED
  BY <1>1, NowTyped

LEMMA GetInv == ASSUME GalleryInv, NEW c \in Visitors, NEW k \in Pages, Gallery!Get(c, k) PROVE GalleryInv'
<1>1. UNCHANGED <<images, doomed, upserts, deletes, doing, store, restarts>>
  BY DEF Gallery!Get, Gallery!db
<1>2. CASE k \in Gallery!Cached /\ cached[k].left > 0
  <2>1. order' = Append(Gallery!Without(k), k) /\ cached' = cached /\ reader' = reader
    BY <1>2 DEF Gallery!Get, Gallery!Touched
  <2>2. /\ Gallery!Without(k) \in PageLists /\ ToSet(Gallery!Without(k)) = ToSet(order) \ {k}
        /\ order \in PageLists /\ k \in ToSet(order)
    BY <1>2, WithoutIs, NowTyped
  <2>3. order' \in PageLists
    <3>1. Cardinality(ToSet(Gallery!Without(k))) < Shelf
      BY <2>2, PlaceMade
    <3>2. QED
      BY <2>1, <2>2, <3>1, PageAdded
  <2>4. QED
    BY <1>1, <2>1, <2>3, NowTyped, SameImages
<1>3. CASE ~(k \in Gallery!Cached /\ cached[k].left > 0)
  <2>1. /\ order' = Gallery!Without(k)
        /\ reader' = [reader EXCEPT ![c] = [Gallery!Idle EXCEPT !.at = "miss", !.key = k]]
        /\ cached' = Gallery!Of(Gallery!Cached \ {k}, cached)
    BY <1>3 DEF Gallery!Get
  <2>2. cached' \in [Pages -> PageRows]
    BY <2>1, NowTyped, RowsKept
  <2>3. PICK r : r = [Gallery!Idle EXCEPT !.at = "miss", !.key = k]
    OBVIOUS
  <2>4. r \in ReaderStates /\ r.key = k
    <3>1. 0 \in 0 .. images
      BY NowTyped
    <3>2. QED
      BY <2>3, <3>1 DEF Gallery!Idle, ReaderStates
  <2>5. reader' = [reader EXCEPT ![c] = r]
    BY <2>1, <2>3
  <2>6. /\ reader' \in [Visitors -> ReaderStates]
        /\ \A d \in Visitors : reader'[d].at # "idle" => reader'[d].key \in Pages
    BY <2>4, <2>5, ReaderTurns
  <2>7. order' \in PageLists
    BY <2>1, WithoutIs
  <2>8. QED
    BY <1>1, <2>2, <2>6, <2>7, NowTyped, SameImages
<1>4. QED
  BY <1>2, <1>3

LEMMA QueryInv == ASSUME GalleryInv, NEW c \in Visitors, Gallery!Query(c) PROVE GalleryInv'
<1>1. UNCHANGED <<images, doomed, order, cached, upserts, deletes, doing, store, restarts>>
  BY DEF Gallery!Query, Gallery!db
<1>2. reader[c].at = "miss" /\ reader' = [reader EXCEPT ![c].at = "queried", ![c].value = images]
  BY DEF Gallery!Query
<1>3. reader[c] \in ReaderStates /\ reader[c].key \in Pages /\ images \in 0 .. images
  BY <1>2, NowTyped
<1>4. PICK r : r = [reader[c] EXCEPT !.at = "queried", !.value = images]
  OBVIOUS
<1>5. r \in ReaderStates /\ r.key = reader[c].key
  BY <1>3, <1>4 DEF ReaderStates
<1>6. reader' = [reader EXCEPT ![c] = r]
  BY <1>2, <1>4, NowTyped, Zenon
<1>7. /\ reader' \in [Visitors -> ReaderStates]
      /\ \A d \in Visitors : reader'[d].at # "idle" => reader'[d].key \in Pages
  BY <1>3, <1>5, <1>6, ReaderTurns
<1>8. QED
  BY <1>1, <1>7, NowTyped, SameImages

LEMMA SetInv == ASSUME GalleryInv, NEW c \in Visitors, Gallery!Set(c) PROVE GalleryInv'
<1> DEFINE k == reader[c].key
           out == IF k \in Gallery!Cached \/ Len(order) < Shelf THEN {} ELSE {Head(order)}
           kept == Gallery!Keeping(Gallery!Without(k), Pages \ out)
           new == [value |-> reader[c].value, left |-> 2]
<1>1. /\ reader[c].at = "queried" /\ reader' = [reader EXCEPT ![c] = Gallery!Idle]
      /\ order' = Append(kept, k)
      /\ cached' = Gallery!Of(Gallery!ToSet(order'), [cached EXCEPT ![k] = new])
      /\ upserts' = [j \in Pages |-> IF j \in out THEN Gallery!Row(cached[j].value, 2)
                                     ELSE IF j = k THEN Gallery!Row(new.value, 2) ELSE upserts[j]]
      /\ UNCHANGED <<images, doomed, deletes, doing, store, restarts>>
  BY DEF Gallery!Set
<1>2. k \in Pages /\ reader[c] \in ReaderStates
  BY <1>1, NowTyped
<1>3. new \in PageRows
  BY <1>2 DEF ReaderStates, PageRows
<1> HIDE DEF k
<1>4. kept \in PageLists /\ ToSet(kept) = (ToSet(order) \ {k}) \cap (Pages \ out)
  BY WithoutIs, PagesKept
<1>5. order' \in PageLists
  <2>1. order \in PageLists /\ ToSet(order) \subseteq Pages /\ Gallery!Cached = ToSet(order)
    BY NowTyped
  <2>2. Cardinality(ToSet(kept)) < Shelf
    <3>1. CASE k \in ToSet(order)
      <4>1. ToSet(kept) = ToSet(order) \ {k}
        BY <1>4, <2>1, <3>1
      <4>2. QED
        BY <1>4, <2>1, <3>1, <4>1, PlaceMade
    <3>2. CASE k \notin ToSet(order) /\ Len(order) < Shelf
      <4>1. ToSet(kept) = ToSet(order)
        BY <1>4, <2>1, <3>2
      <4>2. QED
        BY <2>1, <3>2, <4>1, PageListIs
    <3>3. CASE k \notin ToSet(order) /\ ~(Len(order) < Shelf)
      <4>1. out = {Head(order)}
        BY <2>1, <3>3
      <4>2. Head(order) \in ToSet(order)
        BY <2>1, <3>3, FirstIs
      <4>3. ToSet(kept) = ToSet(order) \ {Head(order)}
        BY <1>4, <2>1, <3>3, <4>1
      <4>4. QED
        BY <1>4, <2>1, <4>2, <4>3, PlaceMade
    <3>4. QED
      BY <3>1, <3>2, <3>3
  <2>3. k \notin ToSet(kept)
    BY <1>4
  <2>4. QED
    BY <1>1, <1>2, <1>4, <2>2, <2>3, PageAdded
<1>6. cached' \in [Pages -> PageRows]
  <2>1. [cached EXCEPT ![k] = new] \in [Pages -> PageRows]
    BY <1>3, NowTyped
  <2>2. QED
    BY <1>1, <2>1, RowsKept
<1>7. upserts' \in [Pages -> PageRows]
  <2>1. new.value \in 0 .. images
    BY <1>2 DEF ReaderStates
  <2>2. ASSUME NEW v \in 0 .. images PROVE Gallery!Row(v, 2) \in PageRows
    BY DEF Gallery!Row, PageRows
  <2>3. ASSUME NEW j \in Pages PROVE cached[j].value \in 0 .. images /\ upserts[j] \in PageRows
    <3>1. cached[j] \in PageRows
      BY NowTyped
    <3>2. QED
      BY <3>1, NowTyped DEF PageRows
  <2> HIDE DEF out, new
  <2>4. ASSUME NEW j \in Pages
        PROVE  (IF j \in out THEN Gallery!Row(cached[j].value, 2)
                ELSE IF j = k THEN Gallery!Row(new.value, 2) ELSE upserts[j]) \in PageRows
    BY <2>1, <2>2, <2>3
  <2>5. QED
    BY <1>1, <2>4
<1>8. /\ reader' \in [Visitors -> ReaderStates]
      /\ \A d \in Visitors : reader'[d].at # "idle" => reader'[d].key \in Pages
  <2>1. Gallery!Idle \in ReaderStates /\ Gallery!Idle.at = "idle"
    <3>1. 0 \in 0 .. images
      BY NowTyped
    <3>2. QED
      BY <3>1 DEF Gallery!Idle, ReaderStates
  <2>2. QED
    BY <1>1, <2>1, ReaderTurns
<1>9. QED
  BY <1>1, <1>5, <1>6, <1>7, <1>8, NowTyped, SameImages

LEMMA PurgeInv == ASSUME GalleryInv, Gallery!Purge PROVE GalleryInv'
<1> DEFINE over == {k \in Gallery!Cached : cached[k].left = 0}
<1>1. /\ order' = Gallery!Keeping(order, Pages \ over)
      /\ cached' = Gallery!Of(Gallery!Cached \ over, cached)
      /\ deletes' = deletes \cup over
      /\ UNCHANGED <<images, doomed, upserts, doing, store, reader, restarts>>
  BY DEF Gallery!Purge
<1>2. over \subseteq Pages
  BY NowTyped
<1> HIDE DEF over
<1>3. order' \in PageLists
  BY <1>1, NowTyped, PagesKept
<1>4. cached' \in [Pages -> PageRows]
  BY <1>1, NowTyped, RowsKept
<1>5. deletes' \subseteq Pages
  BY <1>1, <1>2, NowTyped
<1>6. QED
  BY <1>1, <1>3, <1>4, <1>5, NowTyped, SameImages

LEMMA FlushInv ==
    ASSUME GalleryInv, Gallery!FlushSaves \/ Gallery!FlushDeletes \/ Gallery!FlushFails
    PROVE  GalleryInv'
<1>1. UNCHANGED <<images, doomed, order, cached, reader, restarts>>
  BY DEF Gallery!FlushSaves, Gallery!FlushDeletes, Gallery!FlushFails
<1>2. deletes' \subseteq Pages /\ doing' \subseteq Pages
  BY NowTyped DEF Gallery!FlushSaves, Gallery!FlushDeletes, Gallery!FlushFails
<1>3. upserts' = upserts \/ upserts' = Gallery!NoRows
  BY DEF Gallery!FlushSaves, Gallery!FlushDeletes, Gallery!FlushFails
<1>4. upserts' \in [Pages -> PageRows]
  BY <1>3, NowTyped, RowsKept
<1>5. store' = store \/ store' = Gallery!AfterSave(store, upserts) \/ store' = Gallery!AfterDelete(store, doing)
  BY Zenon DEF Gallery!FlushSaves, Gallery!FlushDeletes, Gallery!FlushFails
<1>6. store' \in [Pages -> PageRows]
  <2>1. /\ Gallery!AfterSave(store, upserts) \in [Pages -> PageRows]
        /\ Gallery!AfterDelete(store, doing) \in [Pages -> PageRows]
    BY NowTyped, RowsKept
  <2>2. QED
    BY <1>5, <2>1, NowTyped
<1>7. QED
  BY <1>1, <1>2, <1>4, <1>6, NowTyped, SameImages

LEMMA GalleryTickInv == ASSUME GalleryInv, Gallery!Tick PROVE GalleryInv'
<1>1. ASSUME NEW e \in PageRows PROVE [e EXCEPT !.left = IF @ = 0 THEN 0 ELSE @ - 1] \in PageRows
  <2>1. e.left \in 0 .. 2
    BY DEF PageRows
  <2>2. (IF e.left = 0 THEN 0 ELSE e.left - 1) \in 0 .. 2
    BY <2>1
  <2>3. QED
    BY <2>2 DEF PageRows
<1>2. /\ cached' = [k \in Pages |-> [cached[k] EXCEPT !.left = IF @ = 0 THEN 0 ELSE @ - 1]]
      /\ store' = [k \in Pages |-> [store[k] EXCEPT !.left = IF @ = 0 THEN 0 ELSE @ - 1]]
      /\ UNCHANGED <<images, doomed, order, upserts, deletes, doing, reader, restarts>>
  BY DEF Gallery!Tick
<1>3. cached' \in [Pages -> PageRows]
  <2>1. ASSUME NEW k \in Pages PROVE [cached[k] EXCEPT !.left = IF @ = 0 THEN 0 ELSE @ - 1] \in PageRows
    <3>1. cached[k] \in PageRows
      BY NowTyped
    <3>2. QED
      BY <1>1, <3>1
  <2>2. QED
    BY <1>2, <2>1
<1>4. store' \in [Pages -> PageRows]
  <2>1. ASSUME NEW k \in Pages PROVE [store[k] EXCEPT !.left = IF @ = 0 THEN 0 ELSE @ - 1] \in PageRows
    <3>1. store[k] \in PageRows
      BY NowTyped
    <3>2. QED
      BY <1>1, <3>1
  <2>2. QED
    BY <1>2, <2>1
<1>5. QED
  BY <1>2, <1>3, <1>4, NowTyped, SameImages

\* The pages that are young, listed.
LEMMA PagesInOrder ==
    ASSUME NEW T \in SUBSET Pages
    PROVE  /\ Gallery!SetToSeq(T) \in Seq(Pages) /\ Len(Gallery!SetToSeq(T)) \in Nat
           /\ IsInjective(Gallery!SetToSeq(T))
<1>1. IsFiniteSet(T)
  BY BoundsAssumption, FS_Subset
<1>2. Gallery!SetToSeq(T) = SetToSeq(T)
  BY Zenon DEF Gallery!SetToSeq, SetToSeq, Gallery!IsInjective, IsInjective, Gallery!Cardinality, Cardinality
<1>3. SetToSeq(T) \in Seq(T) /\ IsInjective(SetToSeq(T))
  BY <1>1, MembersInOrder
<1>4. SetToSeq(T) \in Seq(Pages)
  BY <1>3, SeqMonotonic
<1>5. QED
  BY <1>2, <1>3, <1>4, LenProperties

\* The last ones of a list, as many as leave a place.
LEMMA LastOnes ==
    ASSUME NEW s \in Seq(Pages), IsInjective(s), Len(s) > Shelf - 1
    PROVE  SubSeq(s, Len(s) - (Shelf - 1) + 1, Len(s)) \in PageLists
<1> DEFINE n == Len(s)
           m == n - (Shelf - 1) + 1
<1>1. /\ n \in Nat /\ DOMAIN s = 1 .. n /\ m \in Int /\ Shelf \in Nat \ {0}
      /\ m >= 1 /\ m <= n + 1 /\ n - m + 1 = Shelf - 1
  BY LenProperties, BoundsAssumption
<1>2. PICK t : t = SubSeq(s, m, n)
  OBVIOUS
<1> HIDE DEF n, m
<1>3. \A i \in m .. n : s[i] \in Pages
  BY <1>1, ElementOfSeq DEF n
<1>4. /\ t \in Seq(Pages) /\ Len(t) = IF m <= n THEN n - m + 1 ELSE 0
      /\ \A i \in 1 .. n - m + 1 : t[i] = s[m + i - 1]
  BY <1>1, <1>2, <1>3, SubSeqProperties
<1>5. Len(t) = Shelf - 1 /\ DOMAIN t = 1 .. Shelf - 1
  BY <1>1, <1>4, LenProperties
<1>6. ASSUME NEW i \in DOMAIN t, NEW j \in DOMAIN t, t[i] = t[j] PROVE i = j
  <2>1. m + i - 1 \in 1 .. n /\ m + j - 1 \in 1 .. n /\ s[m + i - 1] = s[m + j - 1]
    BY <1>1, <1>4, <1>5, <1>6
  <2>2. m + i - 1 = m + j - 1
    BY <1>1, <2>1, Zenon DEF IsInjective
  <2>3. QED
    BY <1>1, <1>5, <2>2
<1>7. IsInjective(t)
  BY <1>6 DEF IsInjective
<1>8. t \in PageLists
  BY <1>1, <1>4, <1>5, <1>7 DEF PageLists
<1>9. QED
  BY <1>2, <1>8 DEF n, m

LEMMA GalleryRestartInv == ASSUME GalleryInv, Gallery!Restart PROVE GalleryInv'
<1>1. PICK clean \in BOOLEAN :
        LET remains == IF clean THEN Gallery!AfterDelete(Gallery!AfterSave(store, upserts), deletes) ELSE store
            rows == [k \in Pages |-> IF clean /\ k \in Gallery!Cached /\ cached[k].left > 0
                                     THEN Gallery!Row(cached[k].value, cached[k].left) ELSE remains[k]]
            young == Gallery!SetToSeq({k \in Pages : rows[k].left > 0})
            room == Shelf - 1
        IN  /\ restarts < Deaths /\ restarts' = restarts + 1
            /\ store' = rows
            /\ order' = IF Len(young) > room THEN SubSeq(young, Len(young) - room + 1, Len(young)) ELSE young
            /\ cached' = Gallery!Of(Gallery!ToSet(order'), [k \in Pages |-> [value |-> rows[k].value, left |-> rows[k].left]])
            /\ upserts' = Gallery!NoRows /\ deletes' = {} /\ doing' = {}
            /\ reader' = [c \in Visitors |-> Gallery!Idle]
            /\ doomed' = 0
            /\ UNCHANGED images
  BY Zenon DEF Gallery!Restart
<1> DEFINE remains == IF clean THEN Gallery!AfterDelete(Gallery!AfterSave(store, upserts), deletes) ELSE store
           rows == [k \in Pages |-> IF clean /\ k \in Gallery!Cached /\ cached[k].left > 0
                                    THEN Gallery!Row(cached[k].value, cached[k].left) ELSE remains[k]]
           early == {k \in Pages : rows[k].left > 0}
           young == Gallery!SetToSeq(early)
           copies == [k \in Pages |-> [value |-> rows[k].value, left |-> rows[k].left]]
<1>2. /\ restarts < Deaths /\ restarts' = restarts + 1
      /\ store' = rows
      /\ order' = IF Len(young) > Shelf - 1 THEN SubSeq(young, Len(young) - (Shelf - 1) + 1, Len(young)) ELSE young
      /\ cached' = Gallery!Of(Gallery!ToSet(order'), copies)
      /\ upserts' = Gallery!NoRows /\ deletes' = {} /\ doing' = {}
      /\ reader' = [c \in Visitors |-> Gallery!Idle]
      /\ doomed' = 0 /\ images' = images
  BY <1>1
<1>3. remains \in [Pages -> PageRows]
  <2>1. Gallery!AfterSave(store, upserts) \in [Pages -> PageRows]
    BY NowTyped, RowsKept
  <2>2. Gallery!AfterDelete(Gallery!AfterSave(store, upserts), deletes) \in [Pages -> PageRows]
    BY <2>1, RowsKept
  <2>3. QED
    BY <2>2, NowTyped
<1> HIDE DEF remains
<1>4. rows \in [Pages -> PageRows]
  <2>1. ASSUME NEW k \in Pages PROVE Gallery!Row(cached[k].value, cached[k].left) \in PageRows /\ remains[k] \in PageRows
    <3>1. cached[k] \in PageRows
      BY NowTyped
    <3>2. QED
      BY <1>3, <3>1 DEF PageRows, Gallery!Row
  <2>2. QED
    BY <2>1
<1> HIDE DEF rows
<1>5. copies \in [Pages -> PageRows]
  <2>1. ASSUME NEW k \in Pages PROVE [value |-> rows[k].value, left |-> rows[k].left] \in PageRows
    <3>1. rows[k] \in PageRows
      BY <1>4
    <3>2. QED
      BY <3>1 DEF PageRows
  <2>2. QED
    BY <2>1
<1> HIDE DEF copies
<1>6. cached' \in [Pages -> PageRows] /\ upserts' \in [Pages -> PageRows]
  BY <1>2, <1>5, RowsKept
<1>7. young \in Seq(Pages) /\ Len(young) \in Nat /\ IsInjective(young)
  <2>1. early \in SUBSET Pages
    OBVIOUS
  <2>2. QED
    BY <2>1, PagesInOrder
<1> HIDE DEF young
<1>8. order' \in PageLists
  <2>1. CASE Len(young) > Shelf - 1
    BY <1>2, <1>7, <2>1, LastOnes
  <2>2. CASE ~(Len(young) > Shelf - 1)
    <3>1. Len(young) <= Shelf
      BY <1>7, <2>2, BoundsAssumption
    <3>2. QED
      BY <1>2, <1>7, <2>2, <3>1 DEF PageLists
  <2>3. QED
    BY <2>1, <2>2
<1>9. Gallery!Idle \in ReaderStates /\ Gallery!Idle.at = "idle"
  <2>1. 0 \in 0 .. images
    BY NowTyped
  <2>2. QED
    BY <2>1 DEF Gallery!Idle, ReaderStates
<1>10. /\ reader' \in [Visitors -> ReaderStates]
       /\ \A d \in Visitors : reader'[d].at # "idle" => reader'[d].key \in Pages
  BY <1>2, <1>9
<1>11. restarts' \in 0 .. Deaths /\ doomed' \in 0 .. images
  BY <1>2, NowTyped, BoundsAssumption
<1>12. QED
  BY <1>2, <1>4, <1>6, <1>8, <1>10, <1>11, NowTyped, SameImages

LEMMA GalleryStep == GalleryInv /\ [Gallery!Next]_galleryVars => GalleryInv'
<1> SUFFICES ASSUME GalleryInv, [Gallery!Next]_galleryVars PROVE GalleryInv'
  OBVIOUS
<1>1. CASE Gallery!EngineFinishes \/ Gallery!ProviderFinishes
  <2>1. /\ images < Images /\ images' = images + 1 /\ doomed' \in {doomed, doomed + 1}
        /\ UNCHANGED <<order, cached, upserts, deletes, doing, store, reader, restarts>>
    BY <1>1 DEF Gallery!EngineFinishes, Gallery!ProviderFinishes, Gallery!db
  <2>2. images' \in 0 .. Images
    BY <2>1, NowTyped, BoundsAssumption
  <2>3. QED
    BY <2>1, <2>2, MoreImages
<1>2. CASE UNCHANGED galleryVars
  <2>1. UNCHANGED <<images, doomed, order, cached, upserts, deletes, doing, store, reader, restarts>>
    BY <1>2 DEF galleryVars
  <2>2. QED
    BY <2>1, NowTyped, SameImages
<1>3. QED
  BY <1>1, <1>2, InvalidateInv, GetInv, QueryInv, SetInv, PurgeInv, FlushInv, GalleryTickInv, GalleryRestartInv
     DEF Gallery!Next

-----------------------------------------------------------------------------
(* The lists of free proxies and their traces                              *)

ListsInv ==
    /\ freeOnes \subseteq Finds
    /\ activity \in Seq(Finds) /\ IsInjective(activity) /\ ToSet(activity) = freeOnes
    /\ traced \in [Finds -> {"real", "same", None}]
    /\ \A u \in Finds : u \in freeOnes \/ traced[u] = None
    /\ counts \in [Finds -> 0 .. 2 \cup {None}] /\ probing \in [Finds -> 0 .. 2 \cup {None}]
    /\ \A u, v \in Lists!Asking : u = v
    /\ tracing \in {"sleep", "probe"}

LEMMA TwoLists ==
    ASSUME NEW D, NEW s \in Seq(D), NEW t \in Seq(D)
    PROVE  /\ s \o t \in Seq(D) /\ ToSet(s \o t) = ToSet(s) \cup ToSet(t)
           /\ IsInjective(s) /\ IsInjective(t) /\ ToSet(s) \cap ToSet(t) = {} => IsInjective(s \o t)
<1> DEFINE m == Len(s)
           n == Len(t)
<1>1. m \in Nat /\ n \in Nat /\ DOMAIN s = 1 .. m /\ DOMAIN t = 1 .. n
  BY LenProperties
<1>2. PICK r : r = s \o t
  OBVIOUS
<1>3. /\ r \in Seq(D) /\ Len(r) = m + n
      /\ \A i \in 1 .. m + n : r[i] = IF i <= m THEN s[i] ELSE t[i - m]
  BY <1>2, ConcatProperties
<1>4. DOMAIN r = 1 .. m + n
  BY <1>3, LenProperties
<1> HIDE DEF m, n
<1>5. \A i \in 1 .. m : i \in 1 .. m + n /\ r[i] = s[i]
  BY <1>1, <1>3
<1>6. \A i \in 1 .. n : i + m \in 1 .. m + n /\ r[i + m] = t[i]
  <2>1. ASSUME NEW i \in 1 .. n PROVE i + m \in 1 .. m + n /\ r[i + m] = t[i]
    <3>1. PICK j \in 1 .. m + n : j = i + m /\ ~(j <= m) /\ j - m = i
      BY <1>1
    <3>2. r[j] = t[i]
      BY <1>3, <3>1
    <3>3. QED
      BY <3>1, <3>2
  <2>2. QED
    BY <2>1
<1>7. ASSUME NEW i \in 1 .. m + n PROVE i \in 1 .. m \/ (i - m \in 1 .. n /\ r[i] = t[i - m])
  <2>1. CASE i <= m
    <3>1. i \in Nat /\ 1 <= i
      BY <1>1
    <3>2. QED
      BY <1>1, <2>1, <3>1
  <2>2. CASE ~(i <= m)
    <3>1. i - m \in 1 .. n
      BY <1>1, <2>2
    <3>2. QED
      BY <1>3, <2>2, <3>1
  <2>3. QED
    BY <2>1, <2>2
<1>8. ToSet(r) = ToSet(s) \cup ToSet(t)
  <2>1. ASSUME NEW x \in ToSet(r) PROVE x \in ToSet(s) \cup ToSet(t)
    <3>1. PICK i \in 1 .. m + n : x = r[i]
      BY <1>4 DEF ToSet
    <3>2. CASE i \in 1 .. m
      BY <1>1, <1>5, <3>1, <3>2 DEF ToSet
    <3>3. CASE i - m \in 1 .. n /\ r[i] = t[i - m]
      BY <1>1, <3>1, <3>3 DEF ToSet
    <3>4. QED
      BY <1>7, <3>2, <3>3
  <2>2. ASSUME NEW x \in ToSet(s) PROVE x \in ToSet(r)
    BY <1>1, <1>4, <1>5, <2>2 DEF ToSet
  <2>3. ASSUME NEW x \in ToSet(t) PROVE x \in ToSet(r)
    <3>1. PICK i \in 1 .. n : x = t[i]
      BY <1>1, <2>3 DEF ToSet
    <3>2. i + m \in DOMAIN r /\ r[i + m] = x
      BY <1>4, <1>6, <3>1
    <3>3. QED
      BY <3>2, Zenon DEF ToSet
  <2>4. QED
    BY <2>1, <2>2, <2>3
<1>9. ASSUME IsInjective(s), IsInjective(t), ToSet(s) \cap ToSet(t) = {} PROVE IsInjective(r)
  <2>1. \A i, j \in 1 .. m : s[i] = s[j] => i = j
    BY <1>1, <1>9 DEF IsInjective
  <2>2. \A i, j \in 1 .. n : t[i] = t[j] => i = j
    BY <1>1, <1>9 DEF IsInjective
  <2>3. \A i \in 1 .. m, j \in 1 .. n : s[i] # t[j]
    BY <1>1, <1>9 DEF ToSet
  <2>4. ASSUME NEW i \in 1 .. m + n, NEW j \in 1 .. m + n, r[i] = r[j] PROVE i = j
    <3>1. CASE i \in 1 .. m /\ j \in 1 .. m
      BY <1>5, <2>1, <2>4, <3>1
    <3>2. CASE i - m \in 1 .. n /\ r[i] = t[i - m] /\ j - m \in 1 .. n /\ r[j] = t[j - m]
      <4>1. i - m = j - m
        BY <2>2, <2>4, <3>2
      <4>2. QED
        BY <1>1, <4>1
    <3>3. CASE i \in 1 .. m /\ j - m \in 1 .. n /\ r[j] = t[j - m]
      BY <1>5, <2>3, <2>4, <3>3
    <3>4. CASE j \in 1 .. m /\ i - m \in 1 .. n /\ r[i] = t[i - m]
      BY <1>5, <2>3, <2>4, <3>4
    <3>5. QED
      BY <1>7, <3>1, <3>2, <3>3, <3>4
  <2>5. QED
    BY <1>4, <2>4 DEF IsInjective
<1>10. QED
  BY <1>2, <1>3, <1>8, <1>9

LEMMA FindsFinite == ASSUME NEW T \in SUBSET Finds PROVE IsFiniteSet(T)
<1>1. IsFiniteSet(Finds)
  <2>1. IsFiniteSet({"near"})
    BY FS_Singleton
  <2>2. IsFiniteSet({"near"} \cup {"far"})
    BY <2>1, FS_AddElement
  <2>3. IsFiniteSet(({"near"} \cup {"far"}) \cup {"mid"})
    BY <2>2, FS_AddElement
  <2>4. Finds = ({"near"} \cup {"far"}) \cup {"mid"}
    BY DEF Finds
  <2>5. QED
    BY <2>3, <2>4
<1>2. QED
  BY <1>1, FS_Subset

LEMMA ListsKeeping ==
    ASSUME NEW s \in Seq(Finds), NEW T, IsInjective(s)
    PROVE  /\ Lists!Keeping(s, T) \in Seq(Finds) /\ IsInjective(Lists!Keeping(s, T))
           /\ ToSet(Lists!Keeping(s, T)) = ToSet(s) \cap T
<1>1. Lists!Keeping(s, T) = Keeping(s, T)
  BY Zenon DEF Lists!Keeping, Keeping
<1>2. QED
  BY <1>1, KeepingIs

LEMMA ListsInOrder ==
    ASSUME NEW T \in SUBSET Finds
    PROVE  /\ Lists!SetToSeq(T) \in Seq(Finds) /\ IsInjective(Lists!SetToSeq(T))
           /\ ToSet(Lists!SetToSeq(T)) = T
<1>1. Lists!SetToSeq(T) = SetToSeq(T)
  BY Zenon DEF Lists!SetToSeq, SetToSeq, Lists!IsInjective, IsInjective, Lists!Cardinality, Cardinality
<1>2. SetToSeq(T) \in Seq(T) /\ ToSet(SetToSeq(T)) = T /\ IsInjective(SetToSeq(T))
  BY FindsFinite, MembersInOrder
<1>3. SetToSeq(T) \in Seq(Finds)
  BY <1>2, SeqMonotonic
<1>4. QED
  BY <1>1, <1>2, <1>3

\* Some of them to the front, each of them once.
LEMMA InFrontIs ==
    ASSUME NEW T \in SUBSET Finds, NEW s \in Seq(Finds), IsInjective(s)
    PROVE  /\ Lists!InFront(T, s) \in Seq(Finds) /\ IsInjective(Lists!InFront(T, s))
           /\ ToSet(Lists!InFront(T, s)) = T \cup ToSet(s)
<1> DEFINE front == Lists!SetToSeq(T)
           back == Lists!Keeping(s, Finds \ T)
<1>1. front \in Seq(Finds) /\ IsInjective(front) /\ ToSet(front) = T
  BY ListsInOrder
<1>2. back \in Seq(Finds) /\ IsInjective(back) /\ ToSet(back) = ToSet(s) \cap (Finds \ T)
  BY ListsKeeping
<1>3. Lists!InFront(T, s) = front \o back
  BY DEF Lists!InFront
<1>4. ToSet(s) \subseteq Finds
  <2>1. DOMAIN s = 1 .. Len(s) /\ \A i \in 1 .. Len(s) : s[i] \in Finds
    BY LenProperties, ElementOfSeq
  <2>2. QED
    BY <2>1 DEF ToSet
<1> HIDE DEF front, back
<1>5. /\ front \o back \in Seq(Finds) /\ ToSet(front \o back) = ToSet(front) \cup ToSet(back)
      /\ IsInjective(front) /\ IsInjective(back) /\ ToSet(front) \cap ToSet(back) = {} => IsInjective(front \o back)
  BY <1>1, <1>2, TwoLists
<1>6. ToSet(front) \cap ToSet(back) = {}
  BY <1>1, <1>2
<1>7. QED
  BY <1>1, <1>2, <1>3, <1>4, <1>5, <1>6

LEMMA ListsInit == Lists!Init => ListsInv
<1> SUFFICES ASSUME Lists!Init PROVE ListsInv
  OBVIOUS
<1>1. /\ freeOnes = {} /\ activity = <<>> /\ tracing = "sleep"
      /\ traced = [u \in Finds |-> None] /\ counts = [u \in Finds |-> None] /\ probing = [u \in Finds |-> None]
  BY DEF Lists!Init
<1>2. activity \in Seq(Finds) /\ IsInjective(activity) /\ ToSet(activity) = {}
  BY <1>1 DEF IsInjective, ToSet
<1>3. Lists!Asking = {}
  BY <1>1 DEF Lists!Asking
<1>4. QED
  BY <1>1, <1>2, <1>3 DEF ListsInv

LEMMA ListsTyped == ListsInv => Lists!TypeOK
<1> SUFFICES ASSUME ListsInv PROVE Lists!TypeOK
  OBVIOUS
<1>1. Lists!ToSet(activity) = freeOnes
  BY DEF ListsInv, ToSet, Lists!ToSet
<1>2. Len(activity) = Cardinality(freeOnes)
  <2>1. Len(activity) \in Nat /\ DOMAIN activity = 1 .. Len(activity) /\ IsInjective(activity)
    BY LenProperties DEF ListsInv
  <2>2. Cardinality(ToSet(activity)) = Len(activity)
    BY <2>1, SizeOfList
  <2>3. QED
    BY <2>2 DEF ListsInv
<1>3. \A T : Lists!Cardinality(T) = Cardinality(T)
  BY Zenon DEF Lists!Cardinality, Cardinality
<1>4. Cardinality(Lists!Asking) <= 1
  <2>1. CASE Lists!Asking = {}
    BY <2>1, FS_EmptySet
  <2>2. CASE Lists!Asking # {}
    <3>1. PICK u \in Lists!Asking : TRUE
      BY <2>2
    <3>2. Lists!Asking = {u}
      BY DEF ListsInv
    <3>3. Cardinality({u}) = 1
      BY FS_Singleton
    <3>4. QED
      BY <3>2, <3>3
  <2>3. QED
    BY <2>1, <2>2
<1>5. ASSUME NEW u \in Finds
      PROVE  /\ traced[u] \in {"real", "same", None} /\ (u \in freeOnes \/ traced[u] = None)
             /\ counts[u] \in 0 .. 2 \cup {None} /\ probing[u] \in 0 .. 2 \cup {None}
  BY DEF ListsInv
<1>6. QED
  BY <1>1, <1>2, <1>3, <1>4, <1>5 DEF ListsInv, Lists!TypeOK

LEMMA FetchInv == ASSUME ListsInv, Lists!Fetch PROVE ListsInv'
<1>1. PICK added \in SUBSET (Finds \ freeOnes), stale \in SUBSET freeOnes :
        /\ freeOnes' = (freeOnes \cup added) \ stale
        /\ activity' = Lists!InFront(added, Lists!Keeping(activity, Finds \ stale))
        /\ traced' = [u \in Finds |-> IF u \in freeOnes \ stale THEN traced[u] ELSE None]
        /\ UNCHANGED <<counts, probing, tracing>>
  BY Zenon DEF Lists!Fetch
<1>2. freeOnes \subseteq Finds /\ activity \in Seq(Finds) /\ IsInjective(activity) /\ ToSet(activity) = freeOnes
  BY DEF ListsInv
<1> DEFINE left == Lists!Keeping(activity, Finds \ stale)
<1>3. left \in Seq(Finds) /\ IsInjective(left) /\ ToSet(left) = freeOnes \ stale
  BY <1>2, ListsKeeping
<1> HIDE DEF left
<1>4. added \in SUBSET Finds /\ activity' = Lists!InFront(added, left)
  BY <1>1 DEF left
<1>5. activity' \in Seq(Finds) /\ IsInjective(activity') /\ ToSet(activity') = added \cup (freeOnes \ stale)
  BY <1>3, <1>4, InFrontIs
<1>6. ToSet(activity') = freeOnes' /\ freeOnes' \subseteq Finds
  BY <1>1, <1>2, <1>5
<1>7. /\ traced' \in [Finds -> {"real", "same", None}]
      /\ \A u \in Finds : u \in freeOnes' \/ traced'[u] = None
  BY <1>1 DEF ListsInv
<1>8. Lists!Asking' = Lists!Asking
  BY <1>1 DEF Lists!Asking
<1>9. QED
  BY <1>1, <1>5, <1>6, <1>7, <1>8 DEF ListsInv

LEMMA UseInv == ASSUME ListsInv, NEW u \in Finds, Lists!Use(u) PROVE ListsInv'
<1>1. u \in freeOnes /\ activity' = Lists!InFront({u}, activity)
      /\ UNCHANGED <<freeOnes, traced, counts, probing, tracing>>
  BY DEF Lists!Use
<1>2. activity' \in Seq(Finds) /\ IsInjective(activity') /\ ToSet(activity') = {u} \cup freeOnes
  BY <1>1, InFrontIs DEF ListsInv
<1>3. ToSet(activity') = freeOnes'
  BY <1>1, <1>2
<1>4. Lists!Asking' = Lists!Asking
  BY <1>1 DEF Lists!Asking
<1>5. QED
  BY <1>1, <1>2, <1>3, <1>4 DEF ListsInv

(* The tracer: the list stays as it is. *)
LEMMA TracerTyped ==
    ASSUME ListsInv, UNCHANGED <<freeOnes, activity>>, traced' \in [Finds -> {"real", "same", None}],
           \A u \in Finds : u \in freeOnes \/ traced'[u] = None,
           counts' \in [Finds -> 0 .. 2 \cup {None}], probing' \in [Finds -> 0 .. 2 \cup {None}],
           tracing' \in {"sleep", "probe"},
           \A u, v \in Finds : probing'[u] \notin {None, 0} /\ probing'[v] \notin {None, 0} => u = v
    PROVE  ListsInv'
BY DEF ListsInv, Lists!Asking

LEMMA TracesNow ==
    ASSUME ListsInv
    PROVE  /\ traced \in [Finds -> {"real", "same", None}]
           /\ \A u \in Finds : u \in freeOnes \/ traced[u] = None
           /\ counts \in [Finds -> 0 .. 2 \cup {None}] /\ probing \in [Finds -> 0 .. 2 \cup {None}]
           /\ tracing \in {"sleep", "probe"}
           /\ \A u, v \in Finds : probing[u] \notin {None, 0} /\ probing[v] \notin {None, 0} => u = v
BY DEF ListsInv, Lists!Asking

LEMMA TracerRoundInv == ASSUME ListsInv, Lists!Begin \/ Lists!End PROVE ListsInv'
<1>1. CASE Lists!Begin
  <2>1. /\ counts' = [u \in Finds |-> Lists!Older(counts[u])]
        /\ probing' = [u \in Finds |-> IF u \in Lists!Targets(counts') THEN 0 ELSE None]
        /\ tracing' = "probe" /\ UNCHANGED <<freeOnes, activity, traced>>
    BY <1>1 DEF Lists!Begin
  <2>2. ASSUME NEW n \in 0 .. 2 \cup {None} PROVE Lists!Older(n) \in 0 .. 2 \cup {None}
    BY DEF Lists!Older
  <2>3. counts' \in [Finds -> 0 .. 2 \cup {None}]
    BY <2>1, <2>2, TracesNow
  <2>4. probing' \in [Finds -> 0 .. 2 \cup {None}] /\ \A u \in Finds : probing'[u] \in {None, 0}
    BY <2>1
  <2>5. QED
    BY <2>1, <2>3, <2>4, TracesNow, TracerTyped
<1>2. CASE Lists!End
  <2>1. tracing' = "sleep" /\ UNCHANGED <<freeOnes, activity, traced, counts, probing>>
    BY <1>2 DEF Lists!End
  <2>2. QED
    BY <2>1, TracesNow, TracerTyped
<1>3. QED
  BY <1>1, <1>2

LEMMA TurnInv == ASSUME ListsInv, NEW u \in Finds, Lists!Turn(u) PROVE ListsInv'
<1>1. /\ probing' = [probing EXCEPT ![u] = 1] /\ Lists!Cardinality(Lists!Asking) < 1
      /\ UNCHANGED <<freeOnes, activity, traced, counts, tracing>>
  BY DEF Lists!Turn
<1>2. Lists!Asking = {}
  <2>1. IsFiniteSet(Lists!Asking) /\ Cardinality(Lists!Asking) \in Nat
    BY FindsFinite, FS_CardinalityType DEF Lists!Asking
  <2>2. Lists!Cardinality(Lists!Asking) = Cardinality(Lists!Asking)
    BY Zenon DEF Lists!Cardinality, Cardinality
  <2>3. Cardinality(Lists!Asking) = 0
    BY <1>1, <2>1, <2>2
  <2>4. QED
    BY <2>1, <2>3, FS_EmptySet
<1>3. \A v \in Finds : probing[v] \in {None, 0}
  BY <1>2 DEF Lists!Asking
<1>4. probing' \in [Finds -> 0 .. 2 \cup {None}] /\ \A v \in Finds : v # u => probing'[v] \in {None, 0}
  BY <1>1, <1>3, TracesNow
<1>5. QED
  BY <1>1, <1>4, TracesNow, TracerTyped

(* The proxy that is asked is asked on, or not any more. *)
LEMMA ProbeGoesOn ==
    ASSUME ListsInv, NEW u \in Lists!Asking, NEW n \in 0 .. 2 \cup {None}, probing' = [probing EXCEPT ![u] = n]
    PROVE  /\ probing' \in [Finds -> 0 .. 2 \cup {None}]
           /\ \A v, w \in Finds : probing'[v] \notin {None, 0} /\ probing'[w] \notin {None, 0} => v = w
<1>1. u \in Finds /\ probing[u] \notin {None, 0} /\ probing \in [Finds -> 0 .. 2 \cup {None}]
  BY TracesNow DEF Lists!Asking
<1>2. \A v \in Finds : v # u => probing'[v] = probing[v]
  BY <1>1
<1>3. \A v \in Finds : v # u => probing[v] \in {None, 0}
  BY <1>1, TracesNow
<1>4. QED
  BY <1>1, <1>2, <1>3

LEMMA AnsweredInv ==
    ASSUME ListsInv, NEW u \in Finds, Lists!Refused(u) \/ Lists!Traced(u) \/ Lists!Garbled(u) PROVE ListsInv'
<1>1. u \in Lists!Asking
  BY DEF Lists!Refused, Lists!Traced, Lists!Garbled
<1>2. probing[u] \in 1 .. 2 \/ probing[u] = None
  BY <1>1, TracesNow DEF Lists!Asking
<1>3. CASE Lists!Refused(u)
  <2>1. PICK n : n = IF probing[u] < 2 THEN probing[u] + 1 ELSE None
    OBVIOUS
  <2>2. n \in 0 .. 2 \cup {None}
    <3>1. probing[u] \in 1 .. 2
      BY <1>1, <1>2 DEF Lists!Asking
    <3>2. QED
      BY <2>1, <3>1
  <2>3. probing' = [probing EXCEPT ![u] = n] /\ UNCHANGED <<freeOnes, activity, traced, counts, tracing>>
    BY <1>3, <2>1 DEF Lists!Refused
  <2>4. QED
    BY <1>1, <2>2, <2>3, ProbeGoesOn, TracesNow, TracerTyped
<1>4. CASE Lists!Traced(u)
  <2>1. /\ probing' = [probing EXCEPT ![u] = None] /\ counts' = [counts EXCEPT ![u] = 2]
        /\ UNCHANGED <<freeOnes, activity, tracing>>
    BY <1>4 DEF Lists!Traced
  <2>2. PICK exit \in {"real", "same"} : traced' = IF u \in freeOnes THEN [traced EXCEPT ![u] = exit] ELSE traced
    BY <1>4 DEF Lists!Traced
  <2>3. counts' \in [Finds -> 0 .. 2 \cup {None}]
    BY <2>1, TracesNow
  <2>4. /\ traced' \in [Finds -> {"real", "same", None}]
        /\ \A v \in Finds : v \in freeOnes \/ traced'[v] = None
    <3>1. CASE u \in freeOnes
      BY <2>2, <3>1, TracesNow
    <3>2. CASE u \notin freeOnes
      BY <2>2, <3>2, TracesNow
    <3>3. QED
      BY <3>1, <3>2
  <2>5. None \in 0 .. 2 \cup {None}
    OBVIOUS
  <2>6. QED
    BY <1>1, <2>1, <2>3, <2>4, <2>5, ProbeGoesOn, TracesNow, TracerTyped
<1>5. CASE Lists!Garbled(u)
  <2>1. /\ probing' = [probing EXCEPT ![u] = None] /\ tracing' = "sleep"
        /\ UNCHANGED <<freeOnes, activity, traced, counts>>
    BY <1>5 DEF Lists!Garbled
  <2>2. None \in 0 .. 2 \cup {None}
    OBVIOUS
  <2>3. QED
    BY <1>1, <2>1, <2>2, ProbeGoesOn, TracesNow, TracerTyped
<1>6. QED
  BY <1>3, <1>4, <1>5

LEMMA NoUrlInv == ASSUME ListsInv, NEW u \in Finds, Lists!NoUrl(u) PROVE ListsInv'
<1>1. /\ probing' = [probing EXCEPT ![u] = None] /\ tracing' = "sleep"
      /\ UNCHANGED <<freeOnes, activity, traced, counts>>
  BY DEF Lists!NoUrl
<1>2. \A v \in Finds : probing'[v] \in {probing[v], None}
  BY <1>1, TracesNow
<1>3. probing' \in [Finds -> 0 .. 2 \cup {None}]
  BY <1>1, TracesNow
<1>4. QED
  BY <1>1, <1>2, <1>3, TracesNow, TracerTyped

LEMMA ListsStep == ListsInv /\ [Lists!Next]_listVars => ListsInv'
<1> SUFFICES ASSUME ListsInv, [Lists!Next]_listVars PROVE ListsInv'
  OBVIOUS
<1>1. CASE UNCHANGED listVars
  <2>1. UNCHANGED <<freeOnes, activity, traced, counts, probing, tracing>>
    BY <1>1 DEF listVars
  <2>2. QED
    BY <2>1, TracesNow, TracerTyped
<1>2. QED
  BY <1>1, FetchInv, UseInv, TracerRoundInv, TurnInv, AnsweredInv, NoUrlInv DEF Lists!Next, Lists!Probe

-----------------------------------------------------------------------------
(* All of them                                                             *)

everyVar == <<which, dataVars, upstreamVars, generationVars, storeVars, poolVars>>

(* Who it is takes a step, or none does: each component sees one of its    *)
(* own steps or none.                                                      *)
LEMMA DataSteps == [AllNext]_everyVar =>
    [BufferNext]_bufferVars /\ [DispatchNext]_dispatchVars /\ [EventsNext]_eventVars /\ [Gallery!Next]_galleryVars
<1> SUFFICES ASSUME [AllNext]_everyVar
             PROVE  [BufferNext]_bufferVars /\ [DispatchNext]_dispatchVars /\ [EventsNext]_eventVars /\ [Gallery!Next]_galleryVars
  OBVIOUS
<1>1. CASE DataNext
  BY <1>1 DEF DataNext
<1>2. CASE UNCHANGED dataVars
  BY <1>2 DEF dataVars
<1>3. QED
  BY <1>1, <1>2 DEF AllNext, everyVar

LEMMA UpstreamSteps == [AllNext]_everyVar =>
    [Proxy!Next]_proxyVars /\ [SolverNext]_solverVars /\ [Lists!Next]_listVars
<1> SUFFICES ASSUME [AllNext]_everyVar PROVE [Proxy!Next]_proxyVars /\ [SolverNext]_solverVars /\ [Lists!Next]_listVars
  OBVIOUS
<1>1. CASE UpstreamNext
  BY <1>1 DEF UpstreamNext
<1>2. CASE UNCHANGED upstreamVars
  BY <1>2 DEF upstreamVars
<1>3. QED
  BY <1>1, <1>2 DEF AllNext, everyVar

LEMMA GenerationSteps == [AllNext]_everyVar =>
    /\ [Mutex!Next]_mutexVars /\ [ActionNext]_actionVars /\ [DownloadNext]_loadVars
    /\ [ExitsNext]_exitVars /\ [BatchNext]_bunchVars
<1> SUFFICES ASSUME [AllNext]_everyVar
             PROVE  /\ [Mutex!Next]_mutexVars /\ [ActionNext]_actionVars /\ [DownloadNext]_loadVars
                    /\ [ExitsNext]_exitVars /\ [BatchNext]_bunchVars
  OBVIOUS
<1>1. CASE GenerationNext
  BY <1>1 DEF GenerationNext
<1>2. CASE UNCHANGED generationVars
  BY <1>2 DEF generationVars
<1>3. QED
  BY <1>1, <1>2 DEF AllNext, everyVar

LEMMA StoresSteps == [AllNext]_everyVar =>
    /\ [MailNext]_mailVars /\ [MemoryNext]_memoryVars /\ [VectorNext]_vectorVars
    /\ [House!Next]_houseVars /\ [UsageNext]_usageVars
<1> SUFFICES ASSUME [AllNext]_everyVar
             PROVE  /\ [MailNext]_mailVars /\ [MemoryNext]_memoryVars /\ [VectorNext]_vectorVars
                    /\ [House!Next]_houseVars /\ [UsageNext]_usageVars
  OBVIOUS
<1>1. CASE StoresNext
  BY <1>1 DEF StoresNext
<1>2. CASE UNCHANGED storeVars
  BY <1>2 DEF storeVars
<1>3. QED
  BY <1>1, <1>2 DEF AllNext, everyVar

LEMMA PoolSteps == [AllNext]_everyVar => [Next]_vars
<1> SUFFICES ASSUME [AllNext]_everyVar PROVE [Next]_vars
  OBVIOUS
<1>1. CASE UNCHANGED poolVars
  BY <1>1 DEF poolVars, vars
<1>2. QED
  BY <1>1 DEF AllNext, everyVar

LEMMA AllBegin == AllInit =>
    /\ BufferInit /\ DispatchInit /\ EventsInit /\ Gallery!Init
    /\ Proxy!Init /\ SolverInit /\ Lists!Init
    /\ Mutex!Init /\ ActionInit /\ DownloadInit /\ ExitsInit /\ BatchInit
    /\ MailInit /\ MemoryInit /\ VectorInit /\ House!Init /\ UsageInit
    /\ Init
BY DEF AllInit, DataInit, UpstreamInit, GenerationInit, StoresInit

(* So the behaviours TLC explores are behaviours of each component.        *)
LEMMA EachBehaves == AllSpec =>
    /\ BufferSpec /\ DispatchSpec /\ EventsSpec /\ SolverSpec
    /\ ActionSpec /\ DownloadSpec /\ ExitsSpec /\ BatchSpec
    /\ MailSpec /\ MemorySpec /\ VectorSpec /\ UsageSpec
    /\ Spec
<1>1. AllSpec => BufferSpec /\ DispatchSpec /\ EventsSpec
  BY AllBegin, DataSteps, PTL DEF AllSpec, everyVar, BufferSpec, DispatchSpec, EventsSpec
<1>2. AllSpec => SolverSpec
  BY AllBegin, UpstreamSteps, PTL DEF AllSpec, everyVar, SolverSpec
<1>3. AllSpec => ActionSpec /\ DownloadSpec /\ ExitsSpec /\ BatchSpec
  BY AllBegin, GenerationSteps, PTL DEF AllSpec, everyVar, ActionSpec, DownloadSpec, ExitsSpec, BatchSpec
<1>4. AllSpec => MailSpec /\ MemorySpec /\ VectorSpec /\ UsageSpec
  BY AllBegin, StoresSteps, PTL DEF AllSpec, everyVar, MailSpec, MemorySpec, VectorSpec, UsageSpec
<1>5. AllSpec => Spec
  BY AllBegin, PoolSteps, PTL DEF AllSpec, everyVar, Spec
<1>6. QED
  BY <1>1, <1>2, <1>3, <1>4, <1>5

(* Every safety property of the run services holds of all the behaviours   *)
(* it explores, whatever the size of the components: of the buffer, the    *)
(* requests, events, captchas and tokens, of ids, downloads, edits and     *)
(* batches, of addresses, memory, vectors and reports (api/db/core.py to   *)
(* api/chat_usage.py).                                                     *)
THEOREM PromisesAreKept == AllSpec =>
    /\ [](ReadsSeeEarlierWrites /\ RunsOncePerKey /\ SeenInOrder /\ NoStalePage /\ RefillNoticed)
    /\ [](StaleExplained /\ NoForeignPiece /\ BusyExplained)
    /\ [](FailsAfterAll /\ OnceUnlessTorn /\ OriginalsApart /\ ReportsAgree)
    /\ ImplementsOrderedLog /\ NeverBack /\ BatchSettles
<1>1. AllSpec => []ReadsSeeEarlierWrites /\ []RunsOncePerKey /\ []SeenInOrder /\ []NoStalePage /\ []RefillNoticed
  BY EachBehaves, ReadersSeeEarlierWrites, KeysRunOnce, EventsAreSeenInOrder, NoPageIsStale, RefillIsNoticed, PTL
<1>2. AllSpec => []StaleExplained /\ []NoForeignPiece /\ []BusyExplained
  BY EachBehaves, RefusalsAreExplained, ImagesApart, EditsDoNotMeet, PTL
<1>3. AllSpec => []FailsAfterAll /\ []OnceUnlessTorn /\ []OriginalsApart /\ []ReportsAgree
  BY EachBehaves, AllAreAsked, CondensedOnce, NearOnesAreMarked, ReportsAreOneAccount, PTL
<1>4. AllSpec => ImplementsOrderedLog /\ NeverBack /\ BatchSettles
  BY EachBehaves, BufferImplementsLog, IdsNeverGoBack, BatchesSettle, PTL
<1>5. QED
  BY <1>1, <1>2, <1>3, <1>4, PTL

(* Requests, the buffer of the database, task events and the gallery       *)
(* (api/db/core.py, api/dispatch.py, api/sse_events.py, api/cache.py): the *)
(* gallery by its own invariant, the others by their theorems.             *)
THEOREM DataTypesHold == AllSpec => []DataTypes
<1>1. AllSpec => []Gallery!TypeOK
  BY AllBegin, DataSteps, GalleryInit, GalleryStep, GalleryTyped, PTL DEF AllSpec, everyVar
<1>2. QED
  BY <1>1, EachBehaves, BufferTypeCorrect, DispatchTypeCorrect, EventTypeCorrect, PTL DEF DataTypes

(* Proxies, captchas and free proxies (api/proxy_pool.py,                  *)
(* deploy/cf_solver/api_server.py): what is counted, listed and traced     *)
(* stays in its range.                                                     *)
THEOREM UpstreamTypesHold == AllSpec => []UpstreamTypes
<1>1. AllSpec => []Proxy!TypeOK
  BY AllBegin, UpstreamSteps, ProxyInit, ProxyStep, ProxyTyped, PTL DEF AllSpec, everyVar
<1>2. AllSpec => []Lists!TypeOK
  BY AllBegin, UpstreamSteps, ListsInit, ListsStep, ListsTyped, PTL DEF AllSpec, everyVar
<1>3. QED
  BY <1>1, <1>2, EachBehaves, SolverTypeCorrect, PTL DEF UpstreamTypes

(* Locks and exits of the edits, server actions, downloads and batches     *)
(* (api/dispatch_edit.py, api/providers/action_sniffer.py,                 *)
(* api/imagefree_client.py): each stays in its type.                       *)
THEOREM GenerationTypesHold == AllSpec => []GenerationTypes
<1>1. AllSpec => []Mutex!TypeOK
  <2>1. MutexInv => Mutex!TypeOK
    BY DEF MutexInv
  <2>2. QED
    BY <2>1, AllBegin, GenerationSteps, MutexInit, MutexStep, PTL DEF AllSpec, everyVar
<1>2. QED
  BY <1>1, EachBehaves, ActionTypeCorrect, DownloadTypeCorrect, ExitsTypeCorrect, BatchTypeCorrect, PTL DEF GenerationTypes

(* Mail sources, memory, vectors, cleaning and usage (api/email_pool.py,   *)
(* api/agent/memory.py, api/vector/store.py, api/bg_tasks.py): each stays  *)
(* in its type.                                                            *)
THEOREM StoresTypesHold == AllSpec => []StoresTypes
<1>1. AllSpec => []House!TypeOK
  <2>1. HouseInv => House!TypeOK
    BY DEF HouseInv
  <2>2. QED
    BY <2>1, AllBegin, StoresSteps, HouseInit, HouseStep, PTL DEF AllSpec, everyVar
<1>2. QED
  BY <1>1, EachBehaves, MailTypeCorrect, MemoryTypeCorrect, VectorTypeCorrect, UsageTypeCorrect, PTL DEF StoresTypes

(* Every component stays in its type, the pool of tokens                   *)
(* (api/worker/token_pool.py) with them, whoever's behaviour it is.        *)
THEOREM AllTypesHold == AllSpec => []TypesOK
BY EachBehaves, DataTypesHold, UpstreamTypesHold, GenerationTypesHold, StoresTypesHold, TypeCorrect, PTL DEF TypesOK
=============================================================================
