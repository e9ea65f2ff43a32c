----------------------------- MODULE MshrQueue -----------------------------
(***************************************************************************)
(* mshr_queue of l1_data_cache.sv: the ring of requests that wait for one  *)
(* cache block.  A ring is a record; head and size are all that says which *)
(* slots are in use: a dequeue leaves the slot as it is, valid bit and     *)
(* all, and the whole array and the front slot are outputs.                *)
(***************************************************************************)
EXTENDS Integers

CONSTANTS QUEUE_SIZE,   \* slots of a ring (16 in the code)
          Entry,        \* what a slot holds
          ZeroEntry     \* a slot after reset: all bits low

RingSlot == 0 .. QUEUE_SIZE - 1

Ring == [queue : [RingSlot -> Entry], head : RingSlot, size : 0 .. QUEUE_SIZE]

EmptyRing == [queue |-> [s \in RingSlot |-> ZeroEntry], head |-> 0, size |-> 0]

\* The slot k places behind the head, and the live entries, oldest first.
RingAt(r, k) == IF r.head + k < QUEUE_SIZE THEN r.head + k ELSE r.head + k - QUEUE_SIZE
Contents(r) == [k \in 1 .. r.size |-> r.queue[RingAt(r, k - 1)]]

req_out(r) == r.queue[r.head]
full(r) == r.size = QUEUE_SIZE
empty(r) == r.size = 0

\* enqueue_in alone, with the entry in req_in.
Enqueued(r, entry) ==
    IF full(r) THEN r
    ELSE [r EXCEPT !.queue[RingAt(r, r.size)] = entry, !.size = @ + 1]

\* dequeue_in alone.
Dequeued(r) ==
    IF empty(r) THEN r
    ELSE [r EXCEPT !.head = RingAt(r, 1), !.size = @ - 1]
=============================================================================
