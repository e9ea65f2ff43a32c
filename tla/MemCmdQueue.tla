----------------------------- MODULE MemCmdQueue -----------------------------
(***************************************************************************)
(* mem_req_queue (comb_util.sv) and mem_cmd_queue (req_queue.sv): a ring   *)
(* of requests, and the pair of rings a DRAM command goes through, `ready' *)
(* until it is sent and `pending' until its request may move on.           *)
(***************************************************************************)
EXTENDS Integers

CONSTANTS QUEUE_SIZE,    \* slots of a ring
          Request,       \* what a slot holds
          NoRequest,     \* a slot never written: all bits low
          CycleField(_)  \* of a request: what promote takes for its cycle_count

RingSlot == 0 .. QUEUE_SIZE - 1
Ring == [slots : [RingSlot -> Request], head : RingSlot, size : 0 .. QUEUE_SIZE]
EmptyRing == [slots |-> [s \in RingSlot |-> NoRequest], head |-> 0, size |-> 0]

req_out(q) == q.slots[q.head]
empty(q) == q.size = 0
full(q) == q.size = QUEUE_SIZE

\* Mutant: a full ring takes one more.
RingEdge_overfull(q, enqueue, dequeue, r) ==
    [slots |-> IF enqueue THEN [q.slots EXCEPT ![(q.head + q.size) % QUEUE_SIZE] = r] ELSE q.slots,
     head |-> IF dequeue /\ ~empty(q) THEN (q.head + 1) % QUEUE_SIZE ELSE q.head,
     size |-> IF dequeue /\ ~empty(q) THEN q.size - 1
              ELSE IF enqueue THEN q.size + 1 ELSE q.size]

\* One clock edge of a ring.  next_size has two writers; the dequeue comes last
\* and counts from the old size.
RingEdge(q, enqueue, dequeue, r) ==
    LET enq == enqueue /\ ~full(q)
        deq == dequeue /\ ~empty(q)
    IN  [slots |-> IF enq THEN [q.slots EXCEPT ![(q.head + q.size) % QUEUE_SIZE] = r]
                   ELSE q.slots,
         head |-> IF deq THEN (q.head + 1) % QUEUE_SIZE ELSE q.head,
         size |-> IF deq THEN q.size - 1 ELSE IF enq THEN q.size + 1 ELSE q.size]

\* Where in the ring r waits, counted from the head.
Positions(q, r) == {k \in 0 .. q.size - 1 : q.slots[(q.head + k) % QUEUE_SIZE] = r}

-----------------------------------------------------------------------------
CmdQueue == [ready : Ring, pending : Ring]
EmptyCmdQueue == [ready |-> EmptyRing, pending |-> EmptyRing]

ready_top(c) == req_out(c.ready)
pending_top(c) == req_out(c.pending)
ready_empty(c) == empty(c.ready)

\* The oldest sent command has waited long enough, by the field at
\* CYCLE_START_BIT .. CYCLE_END_BIT of its request.
promote(c, latency, cycle_count) ==
    ~empty(c.pending) /\ CycleField(pending_top(c)) + latency <= cycle_count

\* Mutant: what is sent stays at the top.
CmdQueueEdge_keep(c, enqueue, r, transfer_ready, leave) ==
    [ready |-> RingEdge(c.ready, enqueue, FALSE, r),
     pending |-> RingEdge(c.pending, transfer_ready, leave, ready_top(c))]

\* One clock edge: a request comes in, the top of `ready' is sent
\* (transfer_ready), the top of `pending' moves on.
CmdQueueEdge(c, enqueue, r, transfer_ready, leave) ==
    [ready |-> RingEdge(c.ready, enqueue, transfer_ready, r),
     pending |-> RingEdge(c.pending, transfer_ready, leave, ready_top(c))]
=============================================================================
