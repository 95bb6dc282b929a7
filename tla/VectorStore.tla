---------------------------- MODULE VectorStore -----------------------------
(***************************************************************************)
(* The vectors of finished tasks, api/vector/store.py: a task looks for a  *)
(* near one before its own row is written, and is marked as its duplicate. *)
(* Rows are searched one by one, or, when sqlite-vec loads, through an     *)
(* index that is written after the row; nothing holds the two together,    *)
(* nor the search and the write.  Called once for each task by             *)
(* dispatch.py, through routes/gallery.py.                                 *)
(***************************************************************************)
EXTENDS Integers, FiniteSets

CONSTANTS Finished,
          Point,      \* where the embedding of its prompt lies
          Near,       \* distance up to which two are duplicates
          K,          \* neighbours an index is asked for
          MaxBreaks,  \* bound: statements that fail and processes that end
          NoTask

ASSUME VectorAssumption ==
    /\ IsFiniteSet(Finished) /\ NoTask \notin Finished
    /\ Point \in [Finished -> Nat] /\ Near \in Nat /\ K \in Nat \ {0} /\ MaxBreaks \in Nat

VARIABLES way,      \* _use_vec of the process: "index" or "scan"; "none" before the first call
          vectors,  \* task_vectors: the task whose duplicate each is, or NoTask
          index,    \* tasks in task_vectors_vec
          upsert,   \* the upsert of a task
          before,   \* history: upserts that had ended when that of the task began
          answer,   \* of the last search
          breaks

vectorVars == <<way, vectors, index, upsert, before, answer, breaks>>

VectorInit ==
    /\ way = "none" /\ vectors = [t \in {} |-> NoTask] /\ index = {}
    /\ upsert = [t \in Finished |-> [at |-> "ahead", of |-> NoTask]]
    /\ before = [t \in Finished |-> {}]
    /\ answer = [to |-> NoTask, list |-> {}] /\ breaks = 0

Written == DOMAIN vectors
Distance(t, u) == IF Point[t] > Point[u] THEN Point[t] - Point[u] ELSE Point[u] - Point[t]
JobAt(t, label) == upsert[t].at = label
JobGoes(t, label) == upsert' = [upsert EXCEPT ![t].at = label]

\* _ensure_initialized: the extension loads or does not, for the life of the process.
Initialize ==
    /\ way = "none" /\ way' \in {"index", "scan"}
    /\ UNCHANGED <<vectors, index, upsert, before, answer, breaks>>
Ready == way # "none"

\* The k nearest of a set, ties in any order
Nearest(t, k, set) ==
    {best \in SUBSET set :
        /\ Cardinality(best) = IF Cardinality(set) < k THEN Cardinality(set) ELSE k
        /\ \A u \in best, v \in set \ best : Distance(t, u) <= Distance(t, v)}

\* Indexed rows: the inner join leaves out a vector without a row.
Indexed == index \cap Written

\* mutant: originals only
OriginalByIndex(t) ==
    UNION UNION {Nearest(t, 1, {u \in best : Distance(t, u) <= Near /\ vectors[u] = NoTask})
                    : best \in Nearest(t, K, Indexed)}

\* find_duplicate with the index: an original before a duplicate, else the nearest.
FoundByIndex(t) ==
    UNION {LET above == {u \in best : Distance(t, u) <= Near}
               originals == {u \in above : vectors[u] = NoTask}
           IN  UNION Nearest(t, 1, IF originals = {} THEN above ELSE originals)
           : best \in Nearest(t, K, Indexed)}

\* ... without it: the nearest of all rows, a duplicate or not.
FoundByScan(t) == {u \in UNION Nearest(t, 1, Written) : Distance(t, u) <= Near}

Found(t) == IF way = "index" THEN FoundByIndex(t) ELSE FoundByScan(t)

\* upsert: on_task_completed, which the job of the task waits for
Begin(t) ==
    /\ JobAt(t, "ahead") /\ JobGoes(t, "looking")
    /\ before' = [before EXCEPT ![t] = {u \in Finished : JobAt(u, "ended")}]
    /\ UNCHANGED <<way, vectors, index, answer, breaks>>

LooksUp(t) ==
    /\ Ready /\ JobAt(t, "looking")
    /\ IF Found(t) = {} THEN JobGoes(t, "writing")
       ELSE \E u \in Found(t) : upsert' = [upsert EXCEPT ![t] = [at |-> "writing", of |-> u]]
    /\ UNCHANGED <<way, vectors, index, before, answer, breaks>>

\* The connection commits every statement by itself.
PutRow(t) ==
    /\ Ready /\ JobAt(t, "writing")
    /\ vectors' = [u \in Written \cup {t} |-> IF u = t THEN upsert[t].of ELSE vectors[u]]
    /\ JobGoes(t, IF way = "index" THEN "indexing" ELSE "ended")
    /\ UNCHANGED <<way, index, before, answer, breaks>>

\* The row is asked for its number, an old vector removed, the new one put.
PutVector(t) ==
    /\ JobAt(t, "indexing") /\ t \in Written
    /\ index' = index \cup {t} /\ JobGoes(t, "ended")
    /\ UNCHANGED <<way, vectors, before, answer, breaks>>

\* Logged: the task is finished all the same, and is not tried again.
Fails(t) ==
    /\ upsert[t].at \in {"looking", "writing", "indexing"} /\ breaks < MaxBreaks
    /\ JobGoes(t, "ended") /\ breaks' = breaks + 1
    /\ UNCHANGED <<way, vectors, index, before, answer>>

\* What was under way is lost; the next process may find the extension or not.
VectorRestarts ==
    /\ Ready /\ breaks < MaxBreaks
    /\ way' = "none" /\ breaks' = breaks + 1
    /\ upsert' = [t \in Finished |-> IF JobAt(t, "ahead") THEN upsert[t] ELSE [upsert[t] EXCEPT !.at = "ended"]]
    /\ UNCHANGED <<vectors, index, before, answer>>

\* Bound: searches, which change nothing, are asked when the upserts have ended.
Quiet == \A t \in Finished : JobAt(t, "ended")

\* similar_search: the K nearest but the task itself
Search(t) ==
    /\ Ready /\ Quiet /\ t \in Written
    /\ \E best \in IF way = "index" THEN Nearest(t, K, Indexed \ {t}) ELSE Nearest(t, K, Written \ {t}) :
          answer' = [to |-> t, list |-> best]
    /\ UNCHANGED <<way, vectors, index, upsert, before, breaks>>

\* list_duplicates
Duplicates ==
    /\ Ready /\ Quiet /\ answer' = [to |-> NoTask, list |-> {t \in Written : vectors[t] # NoTask}]
    /\ UNCHANGED <<way, vectors, index, upsert, before, breaks>>

VectorNext ==
    \/ Initialize \/ VectorRestarts \/ Duplicates
    \/ \E t \in Finished : Begin(t) \/ LooksUp(t) \/ PutRow(t) \/ PutVector(t) \/ Fails(t) \/ Search(t)

VectorSpec == VectorInit /\ [][VectorNext]_vectorVars

-----------------------------------------------------------------------------
\* Types of the tables and of the upserts (api/vector/store.py).
VectorTypes ==
    /\ way \in {"none", "index", "scan"}
    /\ Written \subseteq Finished /\ \A t \in Written : vectors[t] \in Written \cup {NoTask}
    /\ index \subseteq Written
    /\ \A t \in Finished : upsert[t].at \in {"ahead", "looking", "writing", "indexing", "ended"}
    /\ answer.to \notin answer.list /\ answer.list \subseteq Written

\* "查重并标记" (api/vector/store.py:177): two near tasks both stand as originals
\* only if their upserts overlapped, or the earlier one never got into the index.
OriginalsApart ==
    \A t \in Written : \A u \in before[t] \cap Written :
        vectors[t] = NoTask /\ vectors[u] = NoTask /\ Distance(t, u) <= Near => u \notin index
=============================================================================
