---------------------------- MODULE GalleryCache ----------------------------
(***************************************************************************)
(* The read cache of api/cache.py in front of the gallery query of         *)
(* api/routes/admin/query.py: an LRU with a time to live, invalidated by   *)
(* the engine when it has finished an image, and written to the table      *)
(* cache_store by the reaper so that a restart finds it.  What a query     *)
(* returns is the number of images at that moment.                         *)
(***************************************************************************)
EXTENDS Naturals, FiniteSets, Sequences, SequencesExt, Filters

CONSTANTS Keys,                   \* "gallery:<limit>"
          Readers,                \* requests and the warm-up
          MaxSize,                \* IF_LRU_CACHE_SIZE
          TTL,                    \* IF_LRU_CACHE_TTL, in ticks of the reaper
          None,
          MaxImages, MaxRestarts  \* bounds: images finished, restarts

VARIABLES images,   \* what a query returns now
          doomed,   \* invalidations spawned and not yet run
          order,    \* the keys of _data, least recently used first
          cached,   \* per key its value and the ticks it has left
          upserts,  \* _DbPending.upserts: per key the row its last one writes
          deletes,  \* _DbPending.deletes
          doing,    \* the deletes of a flush that has saved its upserts
          store,    \* cache_store
          reader,   \* per reader where it stands
          restarts

vars == <<images, doomed, order, cached, upserts, deletes, doing, store, reader, restarts>>
db == <<upserts, deletes, doing, store>>

Blank == [value |-> 0, left |-> 0]
Idle == [at |-> "idle", key |-> None, value |-> 0]
NoRow == [value |-> 0, left |-> 0]
NoRows == [k \in Keys |-> NoRow]

Init ==
    /\ images = 0 /\ doomed = 0
    /\ order = <<>> /\ cached = [k \in Keys |-> Blank]
    /\ upserts = NoRows /\ deletes = {} /\ doing = {} /\ store = NoRows
    /\ reader = [c \in Readers |-> Idle]
    /\ restarts = 0

Cached == ToSet(order)
Without(k) == Keeping(order, Keys \ {k})
Row(value, left) == [value |-> value, left |-> left]
\* The entries of keys that are not cached are of no account.
Of(keys, e) == [k \in Keys |-> IF k \in keys THEN e[k] ELSE Blank]

-----------------------------------------------------------------------------
(* Images and their invalidation                                           *)

\* The engine finishes an image and spawns the invalidation of "gallery:".
EngineFinishes ==
    /\ images < MaxImages
    /\ images' = images + 1 /\ doomed' = doomed + 1
    /\ UNCHANGED <<order, cached, db, reader, restarts>>

\* A task of another provider ends without one.
ProviderFinishes ==
    /\ images < MaxImages
    /\ images' = images + 1
    /\ UNCHANGED <<doomed, order, cached, db, reader, restarts>>

\* invalidate_prefix
Invalidate ==
    /\ doomed > 0
    /\ doomed' = doomed - 1
    /\ order' = <<>> /\ cached' = Of({}, cached)
    /\ deletes' = deletes \cup Cached
    /\ UNCHANGED <<images, upserts, doing, store, reader, restarts>>

-----------------------------------------------------------------------------
(* Readers                                                                 *)

\* mutant: a hit gives the entry a new time to live.
TouchedLonger(k) == [cached EXCEPT ![k].left = TTL]

Touched(k) == cached

\* get: a hit becomes the most recent; an entry past its time is dropped.
Get(c, k) ==
    /\ reader[c].at = "idle"
    /\ IF k \in Cached /\ cached[k].left > 0
       THEN order' = Append(Without(k), k) /\ cached' = Touched(k) /\ UNCHANGED reader
       ELSE /\ order' = Without(k)
            /\ reader' = [reader EXCEPT ![c] = [Idle EXCEPT !.at = "miss", !.key = k]]
            /\ cached' = Of(Cached \ {k}, cached)
    /\ UNCHANGED <<images, doomed, db, restarts>>

\* recent_images
Query(c) ==
    /\ reader[c].at = "miss"
    /\ reader' = [reader EXCEPT ![c].at = "queried", ![c].value = images]
    /\ UNCHANGED <<images, doomed, order, cached, db, restarts>>

\* set: the least recently used makes room and is saved; so is the new entry.
Set(c) ==
    LET k == reader[c].key
        out == IF k \in Cached \/ Len(order) < MaxSize THEN {} ELSE {Head(order)}
        kept == Keeping(Without(k), Keys \ out)
        new == [value |-> reader[c].value, left |-> TTL]
    IN  /\ reader[c].at = "queried"
        /\ reader' = [reader EXCEPT ![c] = Idle]
        /\ order' = Append(kept, k)
        /\ cached' = Of(ToSet(order'), [cached EXCEPT ![k] = new])
        /\ upserts' = [j \in Keys |-> IF j \in out THEN Row(cached[j].value, TTL)
                                     ELSE IF j = k THEN Row(new.value, TTL) ELSE upserts[j]]
        /\ UNCHANGED <<images, doomed, deletes, doing, store, restarts>>

-----------------------------------------------------------------------------
(* The reaper, and what it writes                                          *)

\* _purge_expired
Purge ==
    LET over == {k \in Cached : cached[k].left = 0}
    IN  /\ over # {}
        /\ order' = Keeping(order, Keys \ over)
        /\ cached' = Of(Cached \ over, cached)
        /\ deletes' = deletes \cup over
        /\ UNCHANGED <<images, doomed, upserts, doing, store, reader, restarts>>

AfterSave(st, us) == [k \in Keys |-> IF us[k] # NoRow THEN us[k] ELSE st[k]]
AfterDelete(st, ks) == [k \in Keys |-> IF k \in ks THEN NoRow ELSE st[k]]

\* _flush_pending_to_db takes both lists; the upserts are saved first.
FlushSaves ==
    /\ doing = {} /\ (upserts # NoRows \/ deletes # {})
    /\ store' = AfterSave(store, upserts)
    /\ doing' = deletes
    /\ upserts' = NoRows /\ deletes' = {}
    /\ UNCHANGED <<images, doomed, order, cached, reader, restarts>>

FlushDeletes ==
    /\ doing # {}
    /\ doing' = {}
    /\ store' = AfterDelete(store, doing)
    /\ UNCHANGED <<images, doomed, order, cached, upserts, deletes, reader, restarts>>

\* An error, or the end of the reaper, drops what the flush has not done.
FlushFails ==
    /\ \/ doing # {} /\ doing' = {} /\ UNCHANGED <<upserts, deletes>>
       \/ doing = {} /\ upserts' = NoRows /\ deletes' = {} /\ UNCHANGED doing
    /\ UNCHANGED <<images, doomed, order, cached, store, reader, restarts>>

\* A second passes for the entries, the rows and the pending invalidations.
Tick ==
    /\ \E k \in Keys : (k \in Cached /\ cached[k].left > 0) \/ store[k].left > 0
    /\ cached' = [k \in Keys |-> [cached[k] EXCEPT !.left = IF @ = 0 THEN 0 ELSE @ - 1]]
    /\ store' = [k \in Keys |-> [store[k] EXCEPT !.left = IF @ = 0 THEN 0 ELSE @ - 1]]
    /\ UNCHANGED <<images, doomed, order, upserts, deletes, doing, reader, restarts>>

\* The process ends, writing what is pending and all of its entries if it can,
\* and the next one restores what is young enough, up to one less than fits.
Restart ==
    \E clean \in BOOLEAN :
    LET rest == IF clean THEN AfterDelete(AfterSave(store, upserts), deletes) ELSE store
        rows == [k \in Keys |-> IF clean /\ k \in Cached /\ cached[k].left > 0
                                THEN Row(cached[k].value, cached[k].left) ELSE rest[k]]
        young == SetToSeq({k \in Keys : rows[k].left > 0})
        room == MaxSize - 1
    IN  /\ restarts < MaxRestarts /\ restarts' = restarts + 1
        /\ store' = rows
        /\ order' = IF Len(young) > room THEN SubSeq(young, Len(young) - room + 1, Len(young)) ELSE young
        /\ cached' = Of(ToSet(order'), [k \in Keys |-> [value |-> rows[k].value, left |-> rows[k].left]])
        /\ upserts' = NoRows /\ deletes' = {} /\ doing' = {}
        /\ reader' = [c \in Readers |-> Idle]
        /\ doomed' = 0
        /\ UNCHANGED images

Next ==
    \/ EngineFinishes \/ ProviderFinishes \/ Invalidate
    \/ \E c \in Readers : (\E k \in Keys : Get(c, k)) \/ Query(c) \/ Set(c)
    \/ Purge \/ FlushSaves \/ FlushDeletes \/ FlushFails
    \/ Tick \/ Restart

Spec == Init /\ [][Next]_vars

\* Time passes, the reaper runs, spawned tasks run.
FairSpec == Spec /\ WF_vars(Tick) /\ WF_vars(Purge) /\ WF_vars(Invalidate)

-----------------------------------------------------------------------------
(* Properties                                                              *)

\* Every variable stays in its type; the cache holds each key once and never
\* more than MaxSize of them (api/cache.py).
TypeOK ==
    /\ images \in 0 .. MaxImages /\ doomed \in 0 .. images /\ restarts \in 0 .. MaxRestarts
    /\ Cached \subseteq Keys /\ IsInjective(order) /\ Len(order) <= MaxSize
    /\ \A k \in Keys : \A e \in {cached[k], store[k]} :
        e.value \in 0 .. images /\ e.left \in 0 .. TTL
    /\ deletes \cup doing \subseteq Keys
    /\ \A c \in Readers : reader[c].at \in {"idle", "miss", "queried"}

\* Whatever races put it there and however often it is read, an entry that
\* misses an image is gone when its time is over.
StaleEnds ==
    \A k \in Keys : (k \in Cached /\ cached[k].value < images) ~>
                        (k \notin Cached \/ cached[k].value = images \/ images < MaxImages)
=============================================================================
