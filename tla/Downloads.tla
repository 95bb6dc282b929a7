----------------------------- MODULE Downloads ------------------------------
(***************************************************************************)
(* The downloads of images and the buffers they are read into              *)
(* (download_image and _BufferPool, api/imagefree_client.py).  A buffer is *)
(* the sequence of pieces it holds, each named for the download it came    *)
(* from; the zeros of a new bytearray are one piece of nobody.             *)
(***************************************************************************)
EXTENDS Naturals, SequencesExt

CONSTANTS Loads,    \* downloads
          Zeros,    \* the piece nobody has written
          Slots,    \* buffers allocated in advance
          Most      \* pieces an image may have (max_bytes)

\* A download's own bytearray is not a slot of the pool.
ASSUME DownloadAssumption == IsFiniteSet(Slots) /\ Slots \cap Loads = {} /\ Most \in Nat

VARIABLES idle, deque,  \* the flags of the slots, and the deque of the free ones
          held,        \* the contents of every buffer: of a slot, or of a download
          load         \* where a download is, its buffer, how much it has written, what it returned

loadVars == <<idle, deque, held, load>>

New == [at |-> "waiting", buf |-> Zeros, len |-> 0, image |-> <<>>]

DownloadInit ==
    /\ idle = [s \in Slots |-> TRUE]
    /\ deque = SetToSeq(Slots)
    /\ held = [b \in Slots \cup Loads |-> <<Zeros>>]
    /\ load = [d \in Loads |-> New]

\* acquire: the first free slot, cleared, or a bytearray of its own, which is not.
Lease(d, b) == load' = [load EXCEPT ![d] = [New EXCEPT !.at = "reading", !.buf = b]]
\* mutant: the slot is looked at and stays in the deque
Peeked == deque
Popped == Tail(deque)
AcquireBuffer(d) ==
    /\ load[d].at = "waiting"
    /\ IF deque = <<>>
       THEN /\ Lease(d, d)
            /\ held' = [held EXCEPT ![d] = <<Zeros>>]
            /\ UNCHANGED <<idle, deque>>
       ELSE LET s == Head(deque) IN
            /\ Lease(d, s)
            /\ deque' = Popped
            /\ idle' = [idle EXCEPT ![s] = FALSE]
            /\ held' = [held EXCEPT ![s] = <<>>]

\* extend
Extend(d) ==
    /\ load[d].at = "reading" /\ load[d].len < Most + 1
    /\ held' = [held EXCEPT ![load[d].buf] = Append(@, d)]
    /\ load' = [load EXCEPT ![d].len = @ + 1]
    /\ UNCHANGED <<idle, deque>>

\* release: a slot that is not free yet goes to the end of the deque.
Release(d) ==
    LET s == load[d].buf IN
    IF s \in Slots /\ ~idle[s]
    THEN idle' = [idle EXCEPT ![s] = TRUE] /\ deque' = Append(deque, s)
    ELSE UNCHANGED <<idle, deque>>

\* __bytes__: as many pieces from the start as were written, if there are as many.
Done(d) ==
    LET buf == held[load[d].buf] IN
    /\ load[d].at = "reading" /\ load[d].len \in 1..Most
    /\ load' = [load EXCEPT ![d].at = "done",
                            ![d].image = SubSeq(buf, 1, Min({load[d].len, Len(buf)}))]
    /\ Release(d) /\ UNCHANGED held

\* Too large, an error of the site, or the task is cancelled.
DownloadFails(d) ==
    /\ load[d].at = "reading"
    /\ load' = [load EXCEPT ![d] = [New EXCEPT !.at = "failed"]]
    /\ Release(d) /\ UNCHANGED held

DownloadNext == \E d \in Loads : AcquireBuffer(d) \/ Extend(d) \/ Done(d) \/ DownloadFails(d)
DownloadSpec == DownloadInit /\ [][DownloadNext]_loadVars

-----------------------------------------------------------------------------
Pieces == Loads \cup {Zeros}

\* Types of the buffer pool and the downloads (api/imagefree_client.py:49).
DownloadTypes ==
    /\ idle \in [Slots -> BOOLEAN] /\ deque \in Seq(Slots)
    /\ held \in [Slots \cup Loads -> Seq(Pieces)]
    /\ load \in [Loads -> [at : {"waiting", "reading", "done", "failed"},
                           buf : Slots \cup Pieces, len : 0..(Most + 1), image : Seq(Pieces)]]

\* An image never carries a piece of another one, however downloads share the
\* buffers, break off and come after each other (api/imagefree_client.py:61).
NoForeignPiece == \A d \in Loads : ToSet(load[d].image) \subseteq {d, Zeros}

\* What download_image returns is what was downloaded: acquire says that its buffer
\* is empty, "返回字节数组已清空" (api/imagefree_client.py:87).
ImageAsSent == \A d \in Loads : ToSet(load[d].image) \subseteq {d}
=============================================================================
