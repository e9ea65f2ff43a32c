-------------------------- MODULE MshrQueueProofs --------------------------
(***************************************************************************)
(* The ring of an MSHR is a FIFO, for every size: an enqueue appends to    *)
(* its contents, a dequeue removes the oldest entry, and req_out is that   *)
(* entry.  The slots outside the contents play no part in it, which is why *)
(* they may keep what was there.                                           *)
(***************************************************************************)
EXTENDS MshrQueue, SequenceTheorems, TLAPS

\* The k-th slot behind the head is a slot, and two different k give two slots.
LEMMA RingAtSlot ==
  ASSUME QUEUE_SIZE \in Nat \ {0}, NEW r \in Ring,
         NEW j \in 0 .. QUEUE_SIZE - 1, NEW k \in 0 .. QUEUE_SIZE - 1
  PROVE  /\ RingAt(r, j) \in RingSlot
         /\ RingAt(r, j) = RingAt(r, k) => j = k
  BY DEF Ring, RingAt, RingSlot

\* An enqueue gives a ring again.
LEMMA EnqueuedRing ==
  ASSUME QUEUE_SIZE \in Nat \ {0}, NEW r \in Ring, NEW entry \in Entry
  PROVE  Enqueued(r, entry) \in Ring
<1>1. CASE full(r)
  BY <1>1 DEF Enqueued
<1>2. CASE ~full(r)
  <2>1. r.size \in 0 .. QUEUE_SIZE - 1 /\ r.size + 1 \in 0 .. QUEUE_SIZE
    BY <1>2 DEF Ring, full
  <2>2. RingAt(r, r.size) \in RingSlot
    BY <2>1, RingAtSlot
  <2>3. Enqueued(r, entry) = [queue |-> [r.queue EXCEPT ![RingAt(r, r.size)] = entry],
                              head |-> r.head, size |-> r.size + 1]
    BY <1>2 DEF Enqueued, Ring
  <2>4. [r.queue EXCEPT ![RingAt(r, r.size)] = entry] \in [RingSlot -> Entry]
    BY DEF Ring
  <2>5. QED
    BY <2>1, <2>3, <2>4 DEF Ring
<1>3. QED
  BY <1>1, <1>2

\* A dequeue gives a ring again.
LEMMA DequeuedRing ==
  ASSUME QUEUE_SIZE \in Nat \ {0}, NEW r \in Ring
  PROVE  Dequeued(r) \in Ring
<1>1. CASE empty(r)
  BY <1>1 DEF Dequeued
<1>2. CASE ~empty(r)
  <2>1. Dequeued(r) = [queue |-> r.queue, head |-> RingAt(r, 1), size |-> r.size - 1]
    BY <1>2 DEF Dequeued, Ring
  <2>2. r.size - 1 \in 0 .. QUEUE_SIZE /\ RingAt(r, 1) \in RingSlot
    BY <1>2 DEF Ring, empty, RingAt, RingSlot
  <2>3. QED
    BY <2>1, <2>2 DEF Ring
<1>3. QED
  BY <1>1, <1>2

\* The contents of a ring are a sequence of entries as long as its size.
LEMMA ContentsSeq ==
  ASSUME QUEUE_SIZE \in Nat \ {0}, NEW r \in Ring
  PROVE  /\ Contents(r) \in Seq(Entry)
         /\ Len(Contents(r)) = r.size
         /\ \A k \in 1 .. r.size : Contents(r)[k] = r.queue[RingAt(r, k - 1)]
<1>1. r.size \in Nat /\ r.size <= QUEUE_SIZE
  BY DEF Ring
<1>2. ASSUME NEW k \in 1 .. r.size
      PROVE  r.queue[RingAt(r, k - 1)] \in Entry
  <2>1. k - 1 \in 0 .. QUEUE_SIZE - 1
    BY <1>1
  <2>2. RingAt(r, k - 1) \in RingSlot
    BY <2>1, RingAtSlot
  <2>3. QED
    BY <2>2 DEF Ring
<1>3. Contents(r) \in [1 .. r.size -> Entry]
  BY <1>2 DEF Contents
<1>4. \A k \in 1 .. r.size : Contents(r)[k] = r.queue[RingAt(r, k - 1)]
  BY DEF Contents
<1>5. Contents(r) \in Seq(Entry) /\ Len(Contents(r)) = r.size
  <2> DEFINE c == Contents(r)
  <2>1. r.size \in Nat /\ c \in [1 .. r.size -> Entry]
    BY <1>1, <1>3
  <2> HIDE DEF c
  <2>2. c \in Seq(Entry) /\ Len(c) = r.size
    BY <2>1
  <2>3. QED
    BY <2>2 DEF c
<1>6. QED
  BY <1>4, <1>5

\* An enqueue into a ring that is not full appends the entry.
THEOREM EnqueueAppends ==
  ASSUME QUEUE_SIZE \in Nat \ {0}, NEW r \in Ring, NEW entry \in Entry, ~full(r)
  PROVE  Contents(Enqueued(r, entry)) = Append(Contents(r), entry)
<1> DEFINE e == Enqueued(r, entry)
<1>1. /\ e.head = r.head /\ e.size = r.size + 1
      /\ e.queue = [r.queue EXCEPT ![RingAt(r, r.size)] = entry]
  BY DEF Enqueued, Ring
<1>2. e \in Ring /\ r.size \in 0 .. QUEUE_SIZE - 1
  <2>1. e \in Ring
    BY EnqueuedRing
  <2>2. r.size \in 0 .. QUEUE_SIZE - 1
    BY DEF Ring, full
  <2>3. QED
    BY <2>1, <2>2
<1>3. /\ Contents(e) \in Seq(Entry) /\ Len(Contents(e)) = r.size + 1
      /\ \A k \in 1 .. r.size + 1 : Contents(e)[k] = e.queue[RingAt(e, k - 1)]
  BY <1>1, <1>2, ContentsSeq
<1>4. /\ Contents(r) \in Seq(Entry) /\ Len(Contents(r)) = r.size
      /\ \A k \in 1 .. r.size : Contents(r)[k] = r.queue[RingAt(r, k - 1)]
  BY ContentsSeq
<1>5. /\ Append(Contents(r), entry) \in Seq(Entry)
      /\ Len(Append(Contents(r), entry)) = r.size + 1
      /\ \A k \in 1 .. r.size : Append(Contents(r), entry)[k] = Contents(r)[k]
      /\ Append(Contents(r), entry)[r.size + 1] = entry
  BY <1>4, AppendProperties
<1>6. ASSUME NEW k \in 1 .. r.size + 1
      PROVE  Contents(e)[k] = Append(Contents(r), entry)[k]
  <2>1. RingAt(e, k - 1) = RingAt(r, k - 1) /\ RingAt(r, r.size) \in RingSlot
    BY <1>1, <1>2, RingAtSlot DEF RingAt
  <2>2. CASE k = r.size + 1
    <3>1. k - 1 = r.size
      BY <1>2, <2>2
    <3>2. Contents(e)[k] = e.queue[RingAt(r, r.size)]
      BY <1>3, <2>1, <3>1
    <3>3. e.queue[RingAt(r, r.size)] = entry
      BY <1>1, <2>1 DEF Ring
    <3>4. QED
      BY <1>5, <2>2, <3>2, <3>3
  <2>3. CASE k # r.size + 1
    <3>1. k \in 1 .. r.size /\ k - 1 \in 0 .. QUEUE_SIZE - 1 /\ k - 1 # r.size
      BY <1>2, <2>3
    <3>2. RingAt(r, k - 1) # RingAt(r, r.size) /\ RingAt(r, k - 1) \in RingSlot
      BY <1>2, <3>1, RingAtSlot
    <3>3. e.queue[RingAt(r, k - 1)] = r.queue[RingAt(r, k - 1)]
      BY <1>1, <3>2 DEF Ring
    <3>4. QED
      BY <1>3, <1>4, <1>5, <2>1, <3>1, <3>3
  <2>4. QED
    BY <2>2, <2>3
<1>7. QED
  BY <1>3, <1>5, <1>6, SeqEqual

\* A dequeue from a ring that is not empty removes the oldest entry, which was
\* on req_out.
THEOREM DequeueRemovesOldest ==
  ASSUME QUEUE_SIZE \in Nat \ {0}, NEW r \in Ring, ~empty(r)
  PROVE  /\ Contents(r) # << >> /\ req_out(r) = Head(Contents(r))
         /\ Contents(Dequeued(r)) = Tail(Contents(r))
<1> DEFINE d == Dequeued(r)
<1>1. d.head = RingAt(r, 1) /\ d.size = r.size - 1 /\ d.queue = r.queue
  BY DEF Dequeued, Ring
<1>2. d \in Ring /\ r.size \in 1 .. QUEUE_SIZE
  BY DequeuedRing DEF Ring, empty
<1>3. /\ Contents(d) \in Seq(Entry) /\ Len(Contents(d)) = r.size - 1
      /\ \A k \in 1 .. r.size - 1 : Contents(d)[k] = r.queue[RingAt(d, k - 1)]
  BY <1>1, <1>2, ContentsSeq
<1>4. /\ Contents(r) \in Seq(Entry) /\ Len(Contents(r)) = r.size
      /\ \A k \in 1 .. r.size : Contents(r)[k] = r.queue[RingAt(r, k - 1)]
  BY ContentsSeq
<1>5. Contents(r) # << >>
  BY <1>2, <1>4
<1>6. req_out(r) = Head(Contents(r))
  <2>1. RingAt(r, 0) = r.head
    BY DEF Ring, RingAt, RingSlot
  <2>2. Contents(r)[1] = r.queue[r.head]
    BY <1>2, <1>4, <2>1
  <2>3. QED
    BY <1>4, <1>5, <2>2 DEF req_out
<1>7. /\ Tail(Contents(r)) \in Seq(Entry) /\ Len(Tail(Contents(r))) = r.size - 1
      /\ \A k \in 1 .. r.size - 1 : Tail(Contents(r))[k] = Contents(r)[k + 1]
  BY <1>4, <1>5, HeadTailProperties
<1>8. ASSUME NEW k \in 1 .. r.size - 1
      PROVE  Contents(d)[k] = Tail(Contents(r))[k]
  <2>1. RingAt(d, k - 1) = RingAt(r, k)
    <3>1. /\ d.head = IF r.head + 1 < QUEUE_SIZE THEN r.head + 1 ELSE r.head + 1 - QUEUE_SIZE
          /\ r.head \in 0 .. QUEUE_SIZE - 1 /\ r.size \in 0 .. QUEUE_SIZE
      BY <1>1, <1>2 DEF Ring, RingAt, RingSlot
    <3>2. r.head \in Nat /\ r.head < QUEUE_SIZE /\ k \in Nat \ {0} /\ k < QUEUE_SIZE
      BY <3>1
    <3>3. QED
      BY <3>1, <3>2 DEF RingAt
  <2>2. k + 1 \in 1 .. r.size /\ (k + 1) - 1 = k
    BY <1>2
  <2>3. Contents(r)[k + 1] = r.queue[RingAt(r, k)]
    BY <1>4, <2>2
  <2>4. QED
    BY <1>3, <1>7, <2>1, <2>3
<1>9. Contents(d) = Tail(Contents(r))
  BY <1>3, <1>7, <1>8, SeqEqual
<1>10. QED
  BY <1>5, <1>6, <1>9
=============================================================================
