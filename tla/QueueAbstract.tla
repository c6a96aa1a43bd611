--------------------------- MODULE QueueAbstract ---------------------------
(***************************************************************************)
(* What common/queue.c promises its callers: a FIFO of at most Cap units. *)
(* Every call returns the number of units it moved (ret), and a call that *)
(* copies units out leaves them in the caller's buffer (out).             *)
(***************************************************************************)
EXTENDS Naturals, Sequences, FiniteSetsExt

CONSTANTS Cap, Values, MaxCount

\* the counts and the source buffers a caller passes
Counts == 0..MaxCount
Buffers == UNION {[1..m -> Values] : m \in Counts}

VARIABLES items, out, ret

Init == items = <<>> /\ out = <<>> /\ ret = 0

\* append the first units of s that fit
Add(s) ==
    LET n == Min({Len(s), Cap - Len(items)})
    IN  /\ items' = items \o SubSeq(s, 1, n)
        /\ ret' = n
        /\ UNCHANGED out

\* append n units the caller placed in the queue's buffer beforehand
AddInPlace(n) ==
    LET k == Min({n, Cap - Len(items)})
    IN  /\ \E s \in [1..k -> Values] : items' = items \o s
        /\ ret' = k
        /\ UNCHANGED out

\* take up to n units from the front, copying them out or not
Remove(n, copy) ==
    LET k == Min({n, Len(items)})
    IN  /\ items' = SubSeq(items, k + 1, Len(items))
        /\ ret' = k
        /\ out' = IF copy THEN SubSeq(items, 1, k) ELSE out

\* copy up to n units starting i units from the front, leaving the queue
Peek(i, n) ==
    LET k == IF i < Len(items) THEN Min({n, Len(items) - i}) ELSE 0
    IN  /\ out' = SubSeq(items, i + 1, i + k)
        /\ ret' = k
        /\ UNCHANGED items

\* the queue is emptied
Clear == items' = <<>> /\ UNCHANGED <<out, ret>>

Next ==
    \/ \E s \in Buffers : Add(s)
    \/ \E n \in Counts : AddInPlace(n)
    \/ \E n \in Counts, copy \in BOOLEAN : Remove(n, copy)
    \/ \E i, n \in Counts : Peek(i, n)
    \/ Clear

Spec == Init /\ [][Next]_<<items, out, ret>>
=============================================================================
