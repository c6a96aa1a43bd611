------------------------------- MODULE Queue -------------------------------
(***************************************************************************)
(* common/queue.c: a ring of BufferUnits units (a power of two) indexed by *)
(* free-running size_t head and tail counters, masked on use.  size_t is  *)
(* SizeBits wide, so the counters wrap modulo 2^SizeBits as they do at    *)
(* 2^32.  A unit is one value; unit_bytes is 1 and the queue_policy       *)
(* callbacks are the null policy.  Each call is one step.                 *)
(***************************************************************************)
EXTENDS Naturals, Sequences, FiniteSetsExt, Bitwise

CONSTANTS
    BufferUnits,  \* q->buffer_units
    SizeBits,     \* width of size_t
    Values,       \* unit contents
    MaxCount,     \* largest count a caller passes
    PeekIndices   \* offsets i callers pass to queue_peek_memcpy

ASSUME \E k \in 1..SizeBits - 1 : BufferUnits = 2^k

SizeMod == 2^SizeBits
Slots == 0..BufferUnits - 1
Counts == 0..MaxCount
Buffers == UNION {[1..m -> Values] : m \in Counts}

VARIABLES
    head,    \* q->state->head
    tail,    \* q->state->tail
    buffer,  \* q->buffer
    out,     \* the units the last call copied into the caller's dest
    ret      \* the value the last call returned

vars == <<head, tail, buffer, out, ret>>

TypeOK ==
    /\ head \in 0..SizeMod - 1 /\ tail \in 0..SizeMod - 1
    /\ buffer \in [Slots -> Values]
    /\ out \in Seq(Values)
    /\ ret \in 0..SizeMod - 1

\* size_t arithmetic and the index mask
SizeT(x) == x % SizeMod
Mask(x) == x & (BufferUnits - 1)

queue_count_signed == tail - head

queue_count == SizeT(tail + SizeMod - head)
queue_space == SizeT(BufferUnits + SizeMod - queue_count)
queue_is_empty == head = tail
queue_is_full == queue_space = 0

(* queue_get_write_chunk: the free units from the masked tail up to the   *)
(* masked head or the end of the buffer.                                  *)
queue_get_write_chunk_wrapsAtEqual ==
    LET h == Mask(head)
        t == Mask(tail)
        last == IF queue_is_full THEN t ELSE IF t <= h THEN h ELSE BufferUnits
    IN  [start |-> t, length |-> last - t]

queue_get_write_chunk ==
    LET h == Mask(head)
        t == Mask(tail)
        last == IF queue_is_full THEN t ELSE IF t < h THEN h ELSE BufferUnits
    IN  [start |-> t, length |-> last - t]

\* queue_get_read_chunk: the queued units from the masked head onwards
queue_get_read_chunk ==
    LET h == Mask(head)
        t == Mask(tail)
        last == IF queue_is_empty THEN h ELSE IF h < t THEN t ELSE BufferUnits
    IN  [start |-> h, length |-> last - h]

\* the units queue_read_safe copies from index h, wrapping once
queue_read_safe(h, transfer) ==
    LET first == Min({transfer, BufferUnits - h})
    IN  [k \in 1..transfer |->
           IF k <= first THEN buffer[h + k - 1] ELSE buffer[k - first - 1]]

\* buffer after queue_add_memcpy's two memcpys of transfer units of src
Written(src, t, transfer) ==
    LET first == Min({transfer, BufferUnits - t})
    IN  [j \in Slots |->
           CASE j >= t /\ j < t + first        -> src[j - t + 1]
             [] j < transfer - first           -> src[first + j + 1]
             [] OTHER                          -> buffer[j]]

\* the clamp of queue_advance_tail and queue_advance_head
TailTransfer_unclamped(count) == count
TailTransfer(count) == Min({count, queue_space})
HeadTransfer(count) == Min({count, queue_count})

(***************************************************************************)
(* Operations.                                                             *)
(***************************************************************************)
Init ==
    /\ head = 0 /\ tail = 0
    /\ buffer \in [Slots -> Values]
    /\ out = <<>> /\ ret = 0

queue_init ==
    /\ head' = 0 /\ tail' = 0
    /\ UNCHANGED <<buffer, out, ret>>

queue_advance_tail(count) ==
    /\ tail' = SizeT(tail + TailTransfer(count))
    /\ ret' = TailTransfer(count)
    /\ UNCHANGED <<head, buffer, out>>

queue_advance_head(count) ==
    /\ head' = SizeT(head + HeadTransfer(count))
    /\ ret' = HeadTransfer(count)
    /\ UNCHANGED <<tail, buffer, out>>

queue_add_unit(v) ==
    IF queue_space = 0
    THEN /\ ret' = 0 /\ UNCHANGED <<head, tail, buffer, out>>
    ELSE /\ buffer' = [buffer EXCEPT ![Mask(tail)] = v]
         /\ tail' = SizeT(tail + TailTransfer(1))
         /\ ret' = TailTransfer(1)
         /\ UNCHANGED <<head, out>>

queue_add_memcpy(src) ==
    LET transfer == Min({Len(src), queue_space})
    IN  /\ buffer' = Written(src, Mask(tail), transfer)
        /\ tail' = SizeT(tail + TailTransfer(transfer))
        /\ ret' = TailTransfer(transfer)
        /\ UNCHANGED <<head, out>>

queue_remove_unit ==
    IF queue_count = 0
    THEN /\ ret' = 0 /\ out' = <<>> /\ UNCHANGED <<head, tail, buffer>>
    ELSE /\ out' = <<buffer[Mask(head)]>>
         /\ head' = SizeT(head + HeadTransfer(1))
         /\ ret' = HeadTransfer(1)
         /\ UNCHANGED <<tail, buffer>>

queue_remove_memcpy(count) ==
    LET transfer == Min({count, queue_count})
    IN  /\ out' = queue_read_safe(Mask(head), transfer)
        /\ head' = SizeT(head + HeadTransfer(transfer))
        /\ ret' = HeadTransfer(transfer)
        /\ UNCHANGED <<tail, buffer>>

(* queue_peek_memcpy: transfer is computed from available - i before the  *)
(* test i < available.                                                     *)
queue_peek_memcpy(i, count) ==
    LET available == queue_count
        transfer == Min({count, SizeT(available + SizeMod - i)})
    IN  /\ out' = IF i < available
                  THEN queue_read_safe(Mask(SizeT(head + i)), transfer)
                  ELSE <<>>
        /\ ret' = transfer
        /\ UNCHANGED <<head, tail, buffer>>

\* a producer fills unit k of the write chunk before queue_advance_tail
WriteChunkUnit(k, v) ==
    /\ k < queue_get_write_chunk.length
    /\ buffer' = [buffer EXCEPT ![queue_get_write_chunk.start + k] = v]
    /\ UNCHANGED <<head, tail, out, ret>>

Next ==
    \/ queue_init
    \/ \E v \in Values : queue_add_unit(v)
    \/ \E src \in Buffers : queue_add_memcpy(src)
    \/ \E n \in Counts : queue_advance_tail(n) \/ queue_advance_head(n)
    \/ queue_remove_unit
    \/ \E n \in Counts : queue_remove_memcpy(n)
    \/ \E i \in PeekIndices, n \in Counts : queue_peek_memcpy(i, n)
    \/ \E k \in Slots, v \in Values : WriteChunkUnit(k, v)

Spec == Init /\ [][Next]_vars

(***************************************************************************)
(* Properties.                                                             *)
(***************************************************************************)

\* the queued units, oldest first, read through the masked counters
Items == [k \in 1..queue_count |-> buffer[Mask(SizeT(head + k - 1))]]

QA == INSTANCE QueueAbstract WITH Cap <- BufferUnits, items <- Items

(* Every sequence of calls, across wraps of the size_t counters and of    *)
(* the ring, behaves as a FIFO of at most BufferUnits units: each call    *)
(* returns the number of units it moved and copies out exactly those.    *)
QueueRefinesFifo == QA!Spec

(* The chunks handed to DMA-style producers and consumers are contiguous, *)
(* lie inside the free (write) or queued (read) units, and are never      *)
(* empty while there is room or data: a producer or consumer that only    *)
(* uses chunks can always make progress.                                  *)
ChunksCoverQueue ==
    LET w == queue_get_write_chunk
        r == queue_get_read_chunk
    IN  /\ w.start + w.length <= BufferUnits
        /\ w.length <= queue_space /\ (queue_space > 0 => w.length > 0)
        /\ r.start + r.length <= BufferUnits
        /\ r.length <= queue_count /\ (queue_count > 0 => r.length > 0)
=============================================================================
