---------------------------- MODULE FreeProxies ----------------------------
(***************************************************************************)
(* Where the free proxies of the pool come from and what is known of       *)
(* them: the loop that reads the public lists (api/free_proxy_fetcher.py)  *)
(* and the loop that finds out the address a proxy really goes out with    *)
(* (api/proxy_tracer.py).  Both change the entries of api/proxy_pool.py    *)
(* while others use them; what a use does to an entry is in ProxyPool,     *)
(* here it only makes it the most recent one.                              *)
(***************************************************************************)
EXTENDS Naturals, Sequences, FiniteSets, SequencesExt, Filters

CONSTANTS Urls,        \* addresses of free proxies
          Sources,     \* FREE_PROXY_SOURCES: what each list has, lines in order
          CheckLimit,  \* how many candidates are checked
          Endpoints,   \* number of TRACE_ENDPOINTS
          PerRound,    \* IF_PROXY_TRACE_MAX_PER_ROUND
          Concurrency, \* IF_PROXY_TRACE_CONCURRENCY
          TTL,         \* IF_PROXY_TRACE_TTL in rounds of the tracer
          None

VARIABLES pool,    \* the URLs of the free entries
          recent,  \* the URLs, the most recently used or added first
          shown,   \* per entry what its trace says
          cache,   \* _cache: per URL the rounds its trace still counts
          probe,   \* per URL the number of the endpoint its probe asks; 0 waits for a turn
          round    \* the tracer: "sleep" or "probe"

vars == <<pool, recent, shown, cache, probe, round>>

Init ==
    /\ pool = {} /\ recent = <<>>
    /\ shown = [u \in Urls |-> None]
    /\ cache = [u \in Urls |-> None]
    /\ probe = [u \in Urls |-> None]
    /\ round = "sleep"

-----------------------------------------------------------------------------
(* The lists                                                               *)

\* parse_ipport_text and parse_geonode_json: an address is a public one, not a
\* name; the text form has no place for the colons of the sixth version.
Parsed(line) ==
    /\ line.port = "digits"
    /\ line.host = "public" \/ (line.host = "v6" /\ line.form = "json")

\* The candidates of the sources that answered, in order and without repeats.
Candidates(ok) ==
    LET lines == FlattenSeq([s \in DOMAIN Sources |-> IF s \in ok THEN Sources[s] ELSE <<>>])
        urls == [i \in DOMAIN SelectSeq(lines, Parsed) |-> SelectSeq(lines, Parsed)[i].url]
    IN  FoldLeft(LAMBDA some, u : IF u \in ToSet(some) THEN some ELSE Append(some, u), <<>>, urls)

\* Those whose url is an address of the sixth version without its brackets: the
\* connection of the check is made, a client of httpx does not take the url.
Bare == {u \in Urls : \E s \in DOMAIN Sources : \E line \in ToSet(Sources[s]) :
                        Parsed(line) /\ line.host = "v6" /\ line.url = u}

FirstOf(list, n) == ToSet(SubSeq(list, 1, IF Len(list) < n THEN Len(list) ELSE n))

Checked(ok) == FirstOf(Candidates(ok), CheckLimit)

InFront(urls, list) == SetToSeq(urls) \o Keeping(list, Urls \ urls)

\* _fetch_once: those that accept a connection are added, then the entries
\* that are three hours old and were not used for half an hour are dropped.
Fetch ==
    \E added \in SUBSET (Urls \ pool), stale \in SUBSET pool :
        /\ \E ok \in SUBSET DOMAIN Sources : added \subseteq Checked(ok)
        /\ pool' = (pool \cup added) \ stale
        /\ recent' = InFront(added, Keeping(recent, Urls \ stale))
        /\ shown' = [u \in Urls |-> IF u \in pool \ stale THEN shown[u] ELSE None]
        /\ UNCHANGED <<cache, probe, round>>

\* acquire() takes the entry.
Use(u) ==
    /\ u \in pool
    /\ recent' = InFront({u}, recent)
    /\ UNCHANGED <<pool, shown, cache, probe, round>>

-----------------------------------------------------------------------------
(* The tracer                                                              *)

\* mutant: what was traced once is not traced again
KnownEver(left) == left # None

\* _pick_targets leaves out what is in the cache and not expired.
Known(left) == left # None /\ left # 0

Older(left) == IF left \in {None, 0} THEN left ELSE left - 1

Targets(known) ==
    LET open == Keeping(recent, {u \in Urls : ~Known(known[u])})
    IN  FirstOf(open, PerRound)

\* A round begins after FREE_PROXY_REFRESH_MIN; by then the probes that an
\* earlier round has left behind have met their timeouts.
Begin ==
    /\ round = "sleep"
    /\ \A u \in Urls : probe[u] = None
    /\ cache' = [u \in Urls |-> Older(cache[u])]
    /\ probe' = [u \in Urls |-> IF u \in Targets(cache') THEN 0 ELSE None]
    /\ round' = "probe"
    /\ UNCHANGED <<pool, recent, shown>>

Asking == {u \in Urls : probe[u] \notin {None, 0}}

Turn(u) ==
    /\ probe[u] = 0 /\ Cardinality(Asking) < Concurrency /\ u \notin Bare
    /\ probe' = [probe EXCEPT ![u] = 1]
    /\ UNCHANGED <<pool, recent, shown, cache, round>>

\* An endpoint refuses, times out or says nothing of the address: the next
\* one, or none.
Refused(u) ==
    /\ u \in Asking
    /\ probe' = [probe EXCEPT ![u] = IF @ < Endpoints THEN @ + 1 ELSE None]
    /\ UNCHANGED <<pool, recent, shown, cache, round>>

\* The trace is cached, and written to the entry if there still is one; the
\* lock of the pool is never held over an await.
Traced(u) ==
    /\ u \in Asking
    /\ probe' = [probe EXCEPT ![u] = None]
    /\ cache' = [cache EXCEPT ![u] = TTL]
    /\ \E exit \in {"real", "same"} :
          shown' = IF u \in pool THEN [shown EXCEPT ![u] = exit] ELSE shown
    /\ UNCHANGED <<pool, recent, round>>

\* A time that is no number raises: the round is over, its other probes go on.
Garbled(u) ==
    /\ u \in Asking
    /\ probe' = [probe EXCEPT ![u] = None]
    /\ round' = "sleep"
    /\ UNCHANGED <<pool, recent, shown, cache>>

\* InvalidURL is neither an HTTPError nor an OSError: it ends the round as well,
\* and no endpoint is asked.
NoUrl(u) ==
    /\ probe[u] = 0 /\ Cardinality(Asking) < Concurrency /\ u \in Bare
    /\ probe' = [probe EXCEPT ![u] = None]
    /\ round' = "sleep"
    /\ UNCHANGED <<pool, recent, shown, cache>>

End ==
    /\ round = "probe"
    /\ \A u \in Urls : probe[u] = None
    /\ round' = "sleep"
    /\ UNCHANGED <<pool, recent, shown, cache, probe>>

Probe(u) == Turn(u) \/ Refused(u) \/ Traced(u) \/ Garbled(u) \/ NoUrl(u)

Next ==
    \/ Fetch \/ Begin \/ End
    \/ \E u \in Urls : Use(u) \/ Probe(u)

Spec == Init /\ [][Next]_vars

\* The tracer goes on, and a proxy that is asked again and again answers in
\* the end; one without a url that can be asked never does.
GoesOn == Begin \/ End \/ \E u \in Urls : Probe(u)

FairSpec ==
    /\ Spec
    /\ WF_vars(GoesOn)
    /\ \A u \in Urls \ Bare : SF_vars(Traced(u))

-----------------------------------------------------------------------------
(* Properties                                                              *)

\* Every variable stays in its type; only an entry of the pool shows a trace.
TypeOK ==
    /\ pool \subseteq Urls /\ ToSet(recent) = pool /\ Len(recent) = Cardinality(pool)
    /\ \A u \in Urls :
        /\ shown[u] \in {"real", "same", None} /\ (u \in pool \/ shown[u] = None)
        /\ cache[u] \in 0 .. TTL \cup {None}
        /\ probe[u] \in 0 .. Endpoints \cup {None}
    /\ round \in {"sleep", "probe"}
    /\ Cardinality(Asking) <= Concurrency

\* The next round has no place for u: as many entries as it takes are more
\* recent, and have no trace that counts by then.
Crowded(u) ==
    /\ round = "sleep" /\ \A v \in Urls : probe[v] = None
    /\ \E i \in DOMAIN recent :
          /\ recent[i] = u
          /\ Cardinality({j \in 1 .. i - 1 : ~Known(Older(cache[recent[j]]))}) >= PerRound

\* A free proxy that stays in the pool, and whose url can be asked, is traced in
\* the end unless more recent ones take the places of a round: also one that was
\* dropped and came back while the cache still had its trace, and one whose
\* round was broken off by another's answer or url (api/proxy_tracer.py:164).
\* Nothing promises a place: those that cannot be asked keep theirs for ever.
EntriesTraced ==
    \A u \in Urls \ Bare : u \in pool ~> u \notin pool \/ shown[u] # None \/ Crowded(u)
=============================================================================
