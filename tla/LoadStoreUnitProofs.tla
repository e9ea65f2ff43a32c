-------------------------- MODULE LoadStoreUnitProofs --------------------------
(***************************************************************************)
(* The load-store unit for every depth of the queue, any addresses and any *)
(* number of instructions.                                                 *)
(***************************************************************************)
EXTENDS LoadStoreUnit, MinMaxLemmas, FiniteSetTheorems, SequenceTheorems, TLAPS

-----------------------------------------------------------------------------
(* The parts of the queue's clocked block, field by field.                 *)

LEMMA LowestIn ==
  ASSUME NEW S \in SUBSET Nat
  PROVE  /\ Lowest(S) \subseteq S
         /\ \A x, y \in Lowest(S) : x = y
         /\ S # {} => Lowest(S) # {}
<1>1. S # {} => Min(S) \in S
  BY MinMember
<1>2. QED
  BY <1>1 DEF Lowest

LEMMA SlotsAreNumbers ==
  ASSUME QUEUE_DEPTH \in Depths
  PROVE  QUEUE_DEPTH \in Nat /\ QUEUE_DEPTH > 1 /\ Slot \subseteq Nat
  BY QueueAssumption DEF Slot

Entries == [Slot -> Entry]

\* A register with a valid bit.
Optional(S, T) == S \subseteq T /\ \A x, y \in S : x = y

Instr == [tag : Tag, store : BOOLEAN]
Data == [tag : Tag, addr : Addr, value : Value]

\* Part 1.
LEMMA SendCompletionStep ==
  ASSUME NEW q \in Entries
  PROVE  /\ SendCompletion(q) \in Entries
         /\ \A s \in Slot : LET e == SendCompletion(q)[s] IN
              /\ (e.valid <=> (q[s].valid /\ s \notin Completed))
              /\ (e.complete <=> (q[s].complete /\ s \notin Completed))
              /\ (e.ea_resolved <=> q[s].ea_resolved) /\ (e.dispatched <=> q[s].dispatched)
              /\ e.tag = q[s].tag /\ (e.store <=> q[s].store)
              /\ e.addr = q[s].addr /\ e.value = q[s].value
<1>1. ASSUME NEW s \in Slot
      PROVE  LET e == [q[s] EXCEPT !.valid = FALSE, !.complete = FALSE]
             IN  /\ q[s] \in Entry /\ e \in Entry /\ ~e.valid /\ ~e.complete
                 /\ e.ea_resolved = q[s].ea_resolved /\ e.dispatched = q[s].dispatched
                 /\ e.tag = q[s].tag /\ e.store = q[s].store
                 /\ e.addr = q[s].addr /\ e.value = q[s].value
  BY DEF Entries, Entry
<1>2. \A s \in Slot : SendCompletion(q)[s] =
          IF s \in Completed THEN [q[s] EXCEPT !.valid = FALSE, !.complete = FALSE] ELSE q[s]
  BY DEF SendCompletion
<1>3. SendCompletion(q) \in Entries
  BY <1>1 DEF SendCompletion, Entries
<1>4. QED
  BY <1>1, <1>2, <1>3

\* Part 2.
Forwards(loaded) == {s \in loaded : check_dispatchable(s) = "DISPATCH_FORWARD"}

LEMMA MarkDispatchedStep ==
  ASSUME NEW q \in Entries, NEW loaded \in SUBSET Slot
  PROVE  /\ MarkDispatched(q, loaded) \in Entries
         /\ \A s \in Slot : LET e == MarkDispatched(q, loaded)[s] IN
              /\ e.valid <=> (q[s].valid /\ s \notin Forwards(loaded))
              /\ e.dispatched <=> (q[s].dispatched \/ (s \in loaded /\ s \notin Forwards(loaded)))
              /\ (e.complete <=> q[s].complete) /\ (e.ea_resolved <=> q[s].ea_resolved)
              /\ e.tag = q[s].tag /\ (e.store <=> q[s].store)
              /\ e.addr = q[s].addr /\ e.value = q[s].value
<1>1. ASSUME NEW s \in Slot
      PROVE  /\ q[s] \in Entry
             /\ [q[s] EXCEPT !.valid = FALSE] \in Entry
             /\ [q[s] EXCEPT !.dispatched = TRUE] \in Entry
  BY DEF Entries, Entry
<1>2. \A s \in Slot : MarkDispatched(q, loaded)[s] =
          IF s \notin loaded THEN q[s]
          ELSE IF s \in Forwards(loaded) THEN [q[s] EXCEPT !.valid = FALSE]
          ELSE [q[s] EXCEPT !.dispatched = TRUE]
  BY DEF MarkDispatched, Forwards
<1>3. DOMAIN MarkDispatched(q, loaded) = Slot
      /\ MarkDispatched(q, loaded) = [s \in Slot |-> MarkDispatched(q, loaded)[s]]
  BY DEF MarkDispatched
<1>4. Forwards(loaded) \subseteq loaded
  BY DEF Forwards
<1>5. MarkDispatched(q, loaded) \in Entries
  BY <1>1, <1>2, <1>3 DEF Entries
<1>6. ASSUME NEW s \in Slot
      PROVE  LET e == MarkDispatched(q, loaded)[s] IN
             /\ e.valid <=> (q[s].valid /\ s \notin Forwards(loaded))
             /\ e.dispatched <=> (q[s].dispatched \/ (s \in loaded /\ s \notin Forwards(loaded)))
             /\ (e.complete <=> q[s].complete) /\ (e.ea_resolved <=> q[s].ea_resolved)
             /\ e.tag = q[s].tag /\ (e.store <=> q[s].store)
             /\ e.addr = q[s].addr /\ e.value = q[s].value
  <2>1. CASE s \notin loaded
    BY <1>2, <1>4, <2>1
  <2>2. CASE s \in Forwards(loaded)
    <3>1. MarkDispatched(q, loaded)[s] = [q[s] EXCEPT !.valid = FALSE]
      BY <1>2, <1>4, <2>2
    <3>2. q[s] \in Entry /\ s \in loaded
      BY <1>1, <1>4, <2>2
    <3>3. QED
      BY <2>2, <3>1, <3>2 DEF Entry
  <2>3. CASE s \in loaded /\ s \notin Forwards(loaded)
    <3>1. MarkDispatched(q, loaded)[s] = [q[s] EXCEPT !.dispatched = TRUE]
      BY <1>2, <2>3
    <3>2. q[s] \in Entry
      BY <1>1
    <3>3. QED
      BY <2>3, <3>1, <3>2 DEF Entry
  <2>4. QED
    BY <2>1, <2>2, <2>3
<1>7. QED
  BY <1>5, <1>6

\* Part 3.
Fresh(s, instr) == instr # {} /\ s = tail_ptr

LEMMA InsertStep ==
  ASSUME NEW q \in Entries, NEW instr, Optional(instr, Instr), tail_ptr \in Slot
  PROVE  /\ Insert(q, instr) \in Entries
         /\ \A s \in Slot : LET e == Insert(q, instr)[s] IN
              /\ (e.complete <=> q[s].complete)
              /\ Fresh(s, instr) =>
                   /\ e.valid /\ ~e.ea_resolved /\ ~e.dispatched
                   /\ \A n \in instr : e.tag = n.tag /\ (e.store <=> n.store)
              /\ ~Fresh(s, instr) => e = q[s]
<1>1. CASE instr = {}
  BY <1>1 DEF Insert, Fresh
<1>2. ASSUME NEW n \in instr
      PROVE  /\ Insert(q, instr) \in Entries
             /\ \A s \in Slot : LET e == Insert(q, instr)[s] IN
                  /\ e.complete <=> q[s].complete
                  /\ Fresh(s, instr) =>
                       /\ e.valid /\ ~e.ea_resolved /\ ~e.dispatched
                       /\ \A x \in instr : e.tag = x.tag /\ (e.store <=> x.store)
                  /\ ~Fresh(s, instr) => e = q[s]
  <2>1. (CHOOSE x \in instr : TRUE) = n /\ instr = {n} /\ n \in Instr
    BY DEF Optional
  <2> DEFINE e == [valid |-> TRUE, ea_resolved |-> FALSE, dispatched |-> FALSE,
                   complete |-> q[tail_ptr].complete, tag |-> n.tag, store |-> n.store,
                   addr |-> 0, value |-> 0]
  <2>2. Insert(q, instr) = [q EXCEPT ![tail_ptr] = e]
    BY <1>2, <2>1 DEF Insert
  <2>3. e \in Entry
    BY <2>1, QueueAssumption DEF Entry, Entries, Instr
  <2>4. Insert(q, instr) \in Entries
    BY <2>2, <2>3 DEF Entries
  <2>5. QED
    BY <2>1, <2>2, <2>4 DEF Entries, Fresh
<1>3. QED
  BY <1>1, <1>2

\* Part 4: the entry the data is for, and those it completes.
Revived(data) ==
    {s \in Slot : \E t \in DataTargets(data), d \in data :
        IF queue[t].store THEN s \in WaitingLoads(t, d.addr) \/ (s = t /\ Coalesces(t, d.addr))
        ELSE s = t /\ ClosestStore(t, d.addr) # {}}

LEMMA TargetsValid ==
  ASSUME QUEUE_DEPTH \in Depths, NEW data
  PROVE  /\ \A s \in DataTargets(data) :
              /\ s \in Slot /\ queue[s].valid /\ ~queue[s].ea_resolved
              /\ \E d \in data : d.tag = queue[s].tag
         /\ \A s, t \in DataTargets(data) : s = t
<1> DEFINE S == {s \in Slot : /\ queue[s].valid /\ ~queue[s].ea_resolved
                              /\ \E d \in data : d.tag = queue[s].tag}
<1>1. S \in SUBSET Nat
  BY SlotsAreNumbers
<1>2. DataTargets(data) = Lowest(S)
  BY DEF DataTargets
<1>3. \A s \in S : /\ s \in Slot /\ queue[s].valid /\ ~queue[s].ea_resolved
                   /\ \E d \in data : d.tag = queue[s].tag
  OBVIOUS
<1> HIDE DEF S
<1>4. Lowest(S) \subseteq S /\ \A x, y \in Lowest(S) : x = y
  BY <1>1, LowestIn
<1>5. QED
  BY <1>2, <1>3, <1>4

LEMMA RevivedValid ==
  ASSUME QUEUE_DEPTH \in Depths, NEW data
  PROVE  \A s \in Revived(data) :
            /\ s \in Slot /\ queue[s].valid
            /\ s \notin DataTargets(data) => ~queue[s].store /\ queue[s].ea_resolved /\ ~queue[s].dispatched
  BY TargetsValid DEF Revived, WaitingLoads, Load, ResolvedTo

\* What writing some fields of one entry does, and what it leaves alone.
Same(e, f) == (e.dispatched <=> f.dispatched) /\ e.tag = f.tag /\ (e.store <=> f.store)

Addressed(q, l, a) == [q EXCEPT ![l].addr = a, ![l].ea_resolved = TRUE]
Supplied(q, l, a, v) == [q EXCEPT ![l].addr = a, ![l].value = v, ![l].ea_resolved = TRUE]
Finished(q, l) == [q EXCEPT ![l].valid = TRUE, ![l].complete = TRUE]
Forwarded(q, l, v) == [q EXCEPT ![l].valid = TRUE, ![l].complete = TRUE, ![l].value = v]

LEMMA AddressedEntry ==
  ASSUME NEW q \in Entries, NEW l \in Slot, NEW a \in Addr
  PROVE  /\ Addressed(q, l, a) \in Entries
         /\ \A s \in Slot : s # l => Addressed(q, l, a)[s] = q[s]
         /\ Same(Addressed(q, l, a)[l], q[l])
         /\ Addressed(q, l, a)[l].valid <=> q[l].valid
         /\ Addressed(q, l, a)[l].complete <=> q[l].complete
         /\ Addressed(q, l, a)[l].ea_resolved
         /\ Addressed(q, l, a)[l].addr = a /\ Addressed(q, l, a)[l].value = q[l].value
<1> DEFINE e == [q[l] EXCEPT !.addr = a, !.ea_resolved = TRUE]
<1>1. /\ e \in Entry /\ e.valid = q[l].valid /\ e.complete = q[l].complete /\ e.ea_resolved
      /\ e.dispatched = q[l].dispatched /\ e.tag = q[l].tag /\ e.store = q[l].store
      /\ e.addr = a /\ e.value = q[l].value
  BY DEF Entries, Entry
<1>2. Addressed(q, l, a) = [q EXCEPT ![l] = e]
  BY DEF Addressed, Entries
<1> HIDE DEF e
<1>3. /\ Addressed(q, l, a) \in Entries /\ Addressed(q, l, a)[l] = e
      /\ \A s \in Slot : s # l => Addressed(q, l, a)[s] = q[s]
  BY <1>1, <1>2 DEF Entries
<1>4. QED
  BY <1>1, <1>3 DEF Same

LEMMA SuppliedEntry ==
  ASSUME NEW q \in Entries, NEW l \in Slot, NEW a \in Addr, NEW v \in Value
  PROVE  /\ Supplied(q, l, a, v) \in Entries
         /\ \A s \in Slot : s # l => Supplied(q, l, a, v)[s] = q[s]
         /\ Same(Supplied(q, l, a, v)[l], q[l])
         /\ Supplied(q, l, a, v)[l].valid <=> q[l].valid
         /\ Supplied(q, l, a, v)[l].complete <=> q[l].complete
         /\ Supplied(q, l, a, v)[l].ea_resolved
         /\ Supplied(q, l, a, v)[l].addr = a /\ Supplied(q, l, a, v)[l].value = v
<1> DEFINE e == [q[l] EXCEPT !.addr = a, !.value = v, !.ea_resolved = TRUE]
<1>1. /\ e \in Entry /\ e.valid = q[l].valid /\ e.complete = q[l].complete /\ e.ea_resolved
      /\ e.dispatched = q[l].dispatched /\ e.tag = q[l].tag /\ e.store = q[l].store
      /\ e.addr = a /\ e.value = v
  BY DEF Entries, Entry
<1>2. Supplied(q, l, a, v) = [q EXCEPT ![l] = e]
  BY DEF Supplied, Entries
<1> HIDE DEF e
<1>3. /\ Supplied(q, l, a, v) \in Entries /\ Supplied(q, l, a, v)[l] = e
      /\ \A s \in Slot : s # l => Supplied(q, l, a, v)[s] = q[s]
  BY <1>1, <1>2 DEF Entries
<1>4. QED
  BY <1>1, <1>3 DEF Same

LEMMA FinishedEntry ==
  ASSUME NEW q \in Entries, NEW l \in Slot
  PROVE  /\ Finished(q, l) \in Entries
         /\ \A s \in Slot : s # l => Finished(q, l)[s] = q[s]
         /\ Same(Finished(q, l)[l], q[l])
         /\ Finished(q, l)[l].valid /\ Finished(q, l)[l].complete
         /\ Finished(q, l)[l].ea_resolved <=> q[l].ea_resolved
         /\ Finished(q, l)[l].addr = q[l].addr /\ Finished(q, l)[l].value = q[l].value
<1> DEFINE e == [q[l] EXCEPT !.valid = TRUE, !.complete = TRUE]
<1>1. /\ e \in Entry /\ e.valid /\ e.complete /\ e.ea_resolved = q[l].ea_resolved
      /\ e.dispatched = q[l].dispatched /\ e.tag = q[l].tag /\ e.store = q[l].store
      /\ e.addr = q[l].addr /\ e.value = q[l].value
  BY DEF Entries, Entry
<1>2. Finished(q, l) = [q EXCEPT ![l] = e]
  BY DEF Finished, Entries
<1> HIDE DEF e
<1>3. /\ Finished(q, l) \in Entries /\ Finished(q, l)[l] = e
      /\ \A s \in Slot : s # l => Finished(q, l)[s] = q[s]
  BY <1>1, <1>2 DEF Entries
<1>4. QED
  BY <1>1, <1>3 DEF Same

LEMMA ForwardedEntry ==
  ASSUME NEW q \in Entries, NEW l \in Slot, NEW v \in Value
  PROVE  /\ Forwarded(q, l, v) \in Entries
         /\ \A s \in Slot : s # l => Forwarded(q, l, v)[s] = q[s]
         /\ Same(Forwarded(q, l, v)[l], q[l])
         /\ Forwarded(q, l, v)[l].valid /\ Forwarded(q, l, v)[l].complete
         /\ Forwarded(q, l, v)[l].ea_resolved <=> q[l].ea_resolved
         /\ Forwarded(q, l, v)[l].addr = q[l].addr /\ Forwarded(q, l, v)[l].value = v
<1> DEFINE e == [q[l] EXCEPT !.valid = TRUE, !.complete = TRUE, !.value = v]
<1>1. /\ e \in Entry /\ e.valid /\ e.complete /\ e.ea_resolved = q[l].ea_resolved
      /\ e.dispatched = q[l].dispatched /\ e.tag = q[l].tag /\ e.store = q[l].store
      /\ e.addr = q[l].addr /\ e.value = v
  BY DEF Entries, Entry
<1>2. Forwarded(q, l, v) = [q EXCEPT ![l] = e]
  BY DEF Forwarded, Entries
<1> HIDE DEF e
<1>3. /\ Forwarded(q, l, v) \in Entries /\ Forwarded(q, l, v)[l] = e
      /\ \A s \in Slot : s # l => Forwarded(q, l, v)[s] = q[s]
  BY <1>1, <1>2 DEF Entries
<1>4. QED
  BY <1>1, <1>3 DEF Same

LEMMA ResolveLoadStep ==
  ASSUME NEW q \in Entries, queue \in Entries, NEW l \in Slot, ~queue[l].store,
         NEW d \in Data
  PROVE  /\ ResolveLoad(q, l, d) \in Entries
         /\ \A s \in Slot : s # l => ResolveLoad(q, l, d)[s] = q[s]
         /\ LET e == ResolveLoad(q, l, d)[l]
                from == ClosestStore(l, d.addr) # {} IN
              /\ (e.valid <=> (from \/ q[l].valid)) /\ (e.complete <=> (from \/ q[l].complete))
              /\ e.addr = d.addr /\ e.ea_resolved /\ (e.dispatched <=> q[l].dispatched)
              /\ e.tag = q[l].tag /\ (e.store <=> q[l].store)
<1> DEFINE from == ClosestStore(l, d.addr)
           r == Addressed(q, l, d.addr)
           v == queue[CHOOSE s \in from : TRUE].value
<1>4. /\ r \in Entries
      /\ \A s \in Slot : s # l => r[s] = q[s]
      /\ Same(r[l], q[l]) /\ (r[l].valid <=> q[l].valid) /\ (r[l].complete <=> q[l].complete)
      /\ r[l].addr = d.addr /\ r[l].ea_resolved
  <2>1. d.addr \in Addr
    BY DEF Data
  <2>2. QED
    BY <2>1, AddressedEntry
<1> HIDE DEF r
<1>1. CASE from = {}
  <2>1. ResolveLoad(q, l, d) = r
    BY <1>1 DEF ResolveLoad, r, Addressed, Forwarded
  <2>2. QED
    BY <1>1, <1>4, <2>1 DEF Same
<1>2. CASE from # {}
  <2>1. from \subseteq Slot
    BY DEF ClosestStore
  <2>2. (CHOOSE s \in from : TRUE) \in Slot
    BY <1>2, <2>1
  <2>3. v \in Value
    BY <2>2 DEF Entries, Entry
  <2>4. ResolveLoad(q, l, d) = Forwarded(r, l, v)
    BY <1>2 DEF ResolveLoad, r, Addressed, Forwarded
  <2> HIDE DEF v, from
  <2>5. LET z == ResolveLoad(q, l, d)
        IN  /\ z \in Entries
            /\ \A s \in Slot : s # l => z[s] = r[s]
            /\ Same(z[l], r[l]) /\ z[l].valid /\ z[l].complete
            /\ z[l].addr = r[l].addr /\ (z[l].ea_resolved <=> r[l].ea_resolved)
    BY <1>4, <2>3, <2>4, ForwardedEntry
  <2>6. QED
    BY <1>2, <1>4, <2>5 DEF from, Same
<1>3. QED
  BY <1>1, <1>2

LEMMA ResolveStoreStep ==
  ASSUME NEW q \in Entries, queue \in Entries, NEW st \in Slot, queue[st].store,
         NEW d \in Data
  PROVE  /\ ResolveStore(q, st, d) \in Entries
         /\ \A s \in Slot : LET e == ResolveStore(q, st, d)[s]
                                on == \/ s \in WaitingLoads(st, d.addr)
                                      \/ s = st /\ Coalesces(st, d.addr) IN
              /\ (e.valid <=> (on \/ q[s].valid)) /\ (e.complete <=> (on \/ q[s].complete))
              /\ (e.dispatched <=> q[s].dispatched) /\ e.tag = q[s].tag /\ (e.store <=> q[s].store)
              /\ e.addr = IF s = st THEN d.addr ELSE q[s].addr
              /\ (e.ea_resolved <=> (s = st \/ q[s].ea_resolved))
              /\ s = st => e.value = d.value
              /\ s # st /\ s \notin WaitingLoads(st, d.addr) => e.value = q[s].value
<1> DEFINE r == Supplied(q, st, d.addr, d.value)
           W == WaitingLoads(st, d.addr)
           f == [s \in Slot |-> IF s \in W
                                THEN [r[s] EXCEPT !.value = d.value, !.valid = TRUE, !.complete = TRUE]
                                ELSE r[s]]
           C == Coalesces(st, d.addr)
           z == Finished(f, st)
<1>1. st \notin W
  BY DEF WaitingLoads, Load
<1>2. ResolveStore(q, st, d) = IF C THEN z ELSE f
  BY DEF ResolveStore, Supplied, Finished
<1> HIDE DEF W, C, z
<1>3. /\ r \in Entries
      /\ \A s \in Slot : s # st => r[s] = q[s]
      /\ Same(r[st], q[st]) /\ (r[st].valid <=> q[st].valid) /\ (r[st].complete <=> q[st].complete)
      /\ r[st].addr = d.addr /\ r[st].ea_resolved /\ r[st].value = d.value
  <2>1. d.addr \in Addr /\ d.value \in Value
    BY DEF Data
  <2>2. QED
    BY <2>1, SuppliedEntry
<1> HIDE DEF r
<1>7. f \in Entries
  <2>1. \A s \in Slot : [r[s] EXCEPT !.value = d.value, !.valid = TRUE, !.complete = TRUE] \in Entry
    <3>1. ASSUME NEW e \in Entry, NEW v \in Value
          PROVE  [e EXCEPT !.value = v, !.valid = TRUE, !.complete = TRUE] \in Entry
      BY DEF Entry
    <3>2. \A s \in Slot : r[s] \in Entry
      BY <1>3 DEF Entries
    <3>3. d.value \in Value
      BY DEF Data
    <3>4. QED
      BY <3>1, <3>2, <3>3
  <2>2. \A s \in Slot : r[s] \in Entry
    BY <1>3 DEF Entries
  <2>3. QED
    BY <2>1, <2>2 DEF Entries
<1>8. \A s \in Slot :
        /\ (f[s].valid <=> (s \in W \/ q[s].valid)) /\ (f[s].complete <=> (s \in W \/ q[s].complete))
        /\ (f[s].dispatched <=> q[s].dispatched) /\ f[s].tag = q[s].tag /\ (f[s].store <=> q[s].store)
        /\ s # st => f[s].addr = q[s].addr /\ (f[s].ea_resolved <=> q[s].ea_resolved)
        /\ s # st /\ s \notin W => f[s].value = q[s].value
  <2> SUFFICES ASSUME NEW s \in Slot
               PROVE  /\ (f[s].valid <=> (s \in W \/ q[s].valid))
                      /\ (f[s].complete <=> (s \in W \/ q[s].complete))
                      /\ (f[s].dispatched <=> q[s].dispatched) /\ f[s].tag = q[s].tag
                      /\ (f[s].store <=> q[s].store)
                      /\ s # st => f[s].addr = q[s].addr /\ (f[s].ea_resolved <=> q[s].ea_resolved)
                      /\ s # st /\ s \notin W => f[s].value = q[s].value
    OBVIOUS
  <2>1. CASE s = st
    BY <1>1, <1>3, <2>1 DEF Same
  <2>2. CASE s # st
    BY <1>3, <2>2 DEF Entries, Entry
  <2>3. QED
    BY <2>1, <2>2
<1>9. f[st].addr = d.addr /\ f[st].ea_resolved /\ f[st].value = d.value
  BY <1>1, <1>3
<1> HIDE DEF f
<1>10. CASE C
  <2>1. /\ z \in Entries
        /\ \A s \in Slot : s # st => z[s] = f[s]
        /\ Same(z[st], f[st]) /\ z[st].valid /\ z[st].complete
        /\ z[st].addr = f[st].addr /\ (z[st].ea_resolved <=> f[st].ea_resolved)
        /\ z[st].value = f[st].value
    BY <1>7, FinishedEntry DEF z
  <2>4. \A s \in Slot : s # st => ResolveStore(q, st, d)[s] = f[s]
    BY <1>2, <1>10, <2>1
  <2>5. LET e == ResolveStore(q, st, d)[st] IN
          /\ e.valid /\ e.complete /\ (e.dispatched <=> f[st].dispatched) /\ e.tag = f[st].tag
          /\ (e.store <=> f[st].store) /\ e.addr = d.addr /\ e.ea_resolved /\ e.value = d.value
    BY <1>2, <1>9, <1>10, <2>1 DEF Same
  <2>6. QED
    BY <1>1, <1>2, <1>8, <1>10, <2>1, <2>4, <2>5 DEF W, C
<1>11. CASE ~C
  <2>1. ResolveStore(q, st, d) = f
    BY <1>2, <1>11
  <2>2. QED
    BY <1>7, <1>8, <1>9, <1>11, <2>1 DEF W, C
<1>12. QED
  BY <1>10, <1>11

LEMMA ArriveDataStep ==
  ASSUME QUEUE_DEPTH \in Depths, NEW q \in Entries, queue \in Entries, NEW data,
         Optional(data, Data)
  PROVE  /\ ArriveData(q, data) \in Entries
         /\ \A s \in Slot : LET e == ArriveData(q, data)[s] IN
              /\ e.valid <=> (s \in Revived(data) \/ q[s].valid)
              /\ e.complete <=> (s \in Revived(data) \/ q[s].complete)
              /\ e.ea_resolved <=> (s \in DataTargets(data) \/ q[s].ea_resolved)
              /\ Same(e, q[s])
              /\ s \notin DataTargets(data) => e.addr = q[s].addr
              /\ s \notin DataTargets(data) /\ queue[s].store => e.value = q[s].value
              /\ s \in DataTargets(data) => \A d \in data :
                    e.addr = d.addr /\ (queue[s].store => e.value = d.value)
<1>1. CASE DataTargets(data) = {}
  <2>1. Revived(data) = {} /\ ArriveData(q, data) = q
    BY <1>1 DEF Revived, ArriveData
  <2>2. QED
    BY <1>1, <2>1 DEF Same
<1>2. ASSUME NEW t \in DataTargets(data)
      PROVE  /\ ArriveData(q, data) \in Entries
             /\ \A s \in Slot : LET e == ArriveData(q, data)[s] IN
                  /\ e.valid <=> (s \in Revived(data) \/ q[s].valid)
                  /\ e.complete <=> (s \in Revived(data) \/ q[s].complete)
                  /\ e.ea_resolved <=> (s \in DataTargets(data) \/ q[s].ea_resolved)
                  /\ Same(e, q[s])
                  /\ s \notin DataTargets(data) => e.addr = q[s].addr
                  /\ s \notin DataTargets(data) /\ queue[s].store => e.value = q[s].value
                  /\ s \in DataTargets(data) => \A d \in data :
                        e.addr = d.addr /\ (queue[s].store => e.value = d.value)
  <2>0. PICK d \in data : TRUE
    BY TargetsValid
  <2>1. DataTargets(data) = {t} /\ t \in Slot /\ data = {d} /\ d \in Data
    BY <1>2, <2>0, TargetsValid DEF Optional
  <2>2. (CHOOSE s \in DataTargets(data) : TRUE) = t /\ (CHOOSE x \in data : TRUE) = d
    BY <2>1
  <2>3. CASE queue[t].store
    <3>1. ArriveData(q, data) = ResolveStore(q, t, d)
      BY <2>1, <2>2, <2>3 DEF ArriveData
    <3>2. \A s \in Slot : s \in Revived(data) <=>
            (s \in WaitingLoads(t, d.addr) \/ (s = t /\ Coalesces(t, d.addr)))
      BY <2>1, <2>3 DEF Revived
    <3>3. \A s \in Slot : queue[s].store => s \notin WaitingLoads(t, d.addr)
      BY DEF WaitingLoads, Load
    <3>4. /\ ResolveStore(q, t, d) \in Entries
          /\ \A s \in Slot :
               LET e == ResolveStore(q, t, d)[s]
                   on == s \in WaitingLoads(t, d.addr) \/ (s = t /\ Coalesces(t, d.addr)) IN
               /\ (e.valid <=> (on \/ q[s].valid)) /\ (e.complete <=> (on \/ q[s].complete))
               /\ (e.dispatched <=> q[s].dispatched) /\ e.tag = q[s].tag /\ (e.store <=> q[s].store)
               /\ e.addr = IF s = t THEN d.addr ELSE q[s].addr
               /\ (e.ea_resolved <=> (s = t \/ q[s].ea_resolved))
               /\ s = t => e.value = d.value
               /\ s # t /\ s \notin WaitingLoads(t, d.addr) => e.value = q[s].value
      BY <2>1, <2>3, ResolveStoreStep
    <3>5. \A s \in Slot : Same(ResolveStore(q, t, d)[s], q[s])
      BY <3>4 DEF Same
    <3>6. \A s \in Slot : s \in DataTargets(data) <=> s = t
      BY <2>1
    <3>7. QED
      BY <2>1, <3>1, <3>2, <3>3, <3>4, <3>5, <3>6
  <2>4. CASE ~queue[t].store
    <3>1. ArriveData(q, data) = ResolveLoad(q, t, d)
      BY <2>1, <2>2, <2>4 DEF ArriveData
    <3>2. \A s \in Slot : s \in Revived(data) <=> (s = t /\ ClosestStore(t, d.addr) # {})
      BY <2>1, <2>4 DEF Revived
    <3>3. LET z == ResolveLoad(q, t, d)
              from == ClosestStore(t, d.addr) # {} IN
            /\ z \in Entries
            /\ \A s \in Slot : s # t => z[s] = q[s]
            /\ (z[t].valid <=> (from \/ q[t].valid)) /\ (z[t].complete <=> (from \/ q[t].complete))
            /\ z[t].addr = d.addr /\ z[t].ea_resolved /\ (z[t].dispatched <=> q[t].dispatched)
            /\ z[t].tag = q[t].tag /\ (z[t].store <=> q[t].store)
      BY <2>1, <2>4, ResolveLoadStep
    <3>4. \A s \in Slot : Same(ResolveLoad(q, t, d)[s], q[s])
      BY <3>3 DEF Same
    <3>5. \A s \in Slot : s \in DataTargets(data) <=> s = t
      BY <2>1
    <3>6. QED
      BY <2>1, <2>4, <3>1, <3>2, <3>3, <3>4, <3>5
  <2>5. QED
    BY <2>3, <2>4
<1>3. QED
  BY <1>1, <1>2

\* Part 5.
Hit(response) ==
    Lowest({s \in Slot : /\ queue[s].valid /\ queue[s].dispatched
                         /\ \E r \in response : r.tag = queue[s].tag})

LEMMA HitValid ==
  ASSUME QUEUE_DEPTH \in Depths, NEW response
  PROVE  \A s \in Hit(response) : /\ s \in Slot /\ queue[s].valid /\ queue[s].dispatched
                                  /\ \E r \in response : r.tag = queue[s].tag
<1> DEFINE S == {s \in Slot : /\ queue[s].valid /\ queue[s].dispatched
                              /\ \E r \in response : r.tag = queue[s].tag}
<1>1. S \in SUBSET Nat
  BY SlotsAreNumbers
<1>2. Hit(response) = Lowest(S)
  BY DEF Hit
<1>3. \A s \in S : /\ s \in Slot /\ queue[s].valid /\ queue[s].dispatched
                   /\ \E r \in response : r.tag = queue[s].tag
  OBVIOUS
<1> HIDE DEF S
<1>4. Lowest(S) \subseteq S
  BY <1>1, LowestIn
<1>5. QED
  BY <1>2, <1>3, <1>4

Freed(q, z, response) ==
    \A s \in Slot :
        /\ z[s].valid <=> (q[s].valid /\ s \notin Hit(response))
        /\ z[s].complete <=> q[s].complete
        /\ z[s].ea_resolved <=> q[s].ea_resolved
        /\ Same(z[s], q[s]) /\ z[s].addr = q[s].addr
        /\ queue[s].store => z[s].value = q[s].value

LEMMA FreeCompletedStep ==
  ASSUME QUEUE_DEPTH \in Depths, NEW q \in Entries, NEW response, response \subseteq Response
  PROVE  /\ FreeCompleted(q, response) \in Entries
         /\ Freed(q, FreeCompleted(q, response), response)
<1> DEFINE v == (CHOOSE x \in response : TRUE).value
           freed(s) == IF queue[s].store THEN [q[s] EXCEPT !.valid = FALSE]
                       ELSE [q[s] EXCEPT !.valid = FALSE, !.value = v]
<1>1. FreeCompleted(q, response) = [s \in Slot |-> IF s \notin Hit(response) THEN q[s] ELSE freed(s)]
  BY DEF FreeCompleted, Hit
<1>2. Hit(response) # {} => v \in Value
  <2>1. Hit(response) # {} => (CHOOSE x \in response : TRUE) \in response
    BY HitValid
  <2>2. \A r \in response : r.value \in Value
    BY DEF Response
  <2>3. QED
    BY <2>1, <2>2
<1> HIDE DEF v
<1>3. ASSUME NEW e \in Entry
      PROVE  LET f == [e EXCEPT !.valid = FALSE] IN
               /\ f \in Entry /\ ~f.valid /\ (f.complete <=> e.complete)
               /\ (f.ea_resolved <=> e.ea_resolved) /\ Same(f, e) /\ f.addr = e.addr
               /\ f.value = e.value
  BY DEF Entry, Same
<1>4. ASSUME NEW e \in Entry, NEW w \in Value
      PROVE  LET f == [e EXCEPT !.valid = FALSE, !.value = w] IN
               /\ f \in Entry /\ ~f.valid /\ (f.complete <=> e.complete)
               /\ (f.ea_resolved <=> e.ea_resolved) /\ Same(f, e) /\ f.addr = e.addr
  BY DEF Entry, Same
<1>5. \A s \in Slot : q[s] \in Entry
  BY DEF Entries
<1>6. \A s \in Slot : s \in Hit(response) =>
        /\ freed(s) \in Entry /\ ~freed(s).valid /\ (freed(s).complete <=> q[s].complete)
        /\ (freed(s).ea_resolved <=> q[s].ea_resolved) /\ Same(freed(s), q[s])
        /\ freed(s).addr = q[s].addr
        /\ queue[s].store => freed(s).value = q[s].value
  BY <1>2, <1>3, <1>4, <1>5
<1> HIDE DEF freed
<1>7. FreeCompleted(q, response) \in Entries
  BY <1>1, <1>5, <1>6 DEF Entries
<1>8. \A s \in Slot : s \notin Hit(response) => FreeCompleted(q, response)[s] = q[s]
  BY <1>1
<1>9. \A s \in Slot : s \in Hit(response) => FreeCompleted(q, response)[s] = freed(s)
  BY <1>1
<1>10. QED
  BY <1>6, <1>7, <1>8, <1>9 DEF Same, Freed

-----------------------------------------------------------------------------
(* One clock edge of an entry.                                             *)

\* What an entry is after an edge (f), from what it was (e) and what arrived.
EntryChange(s, e, f, loaded, instr, data, response) ==
    /\ f.valid <=> /\ s \notin Hit(response)
                   /\ \/ s \in Revived(data) \/ Fresh(s, instr)
                      \/ e.valid /\ s \notin Completed /\ s \notin Forwards(loaded)
    /\ f.complete <=> (s \in Revived(data) \/ (e.complete /\ s \notin Completed))
    /\ f.ea_resolved <=> (s \in DataTargets(data) \/ (e.ea_resolved /\ ~Fresh(s, instr)))
    /\ f.dispatched <=> /\ ~Fresh(s, instr)
                        /\ e.dispatched \/ (s \in loaded /\ s \notin Forwards(loaded))
    /\ Fresh(s, instr) => \A n \in instr : f.tag = n.tag /\ (f.store <=> n.store)
    /\ ~Fresh(s, instr) => f.tag = e.tag /\ (f.store <=> e.store)
    /\ ~Fresh(s, instr) /\ s \notin DataTargets(data) => f.addr = e.addr
    /\ \A d \in data : s \in DataTargets(data) => f.addr = d.addr /\ (e.store => f.value = d.value)
    /\ ~Fresh(s, instr) /\ s \notin DataTargets(data) /\ e.store => f.value = e.value

EntryEdge(loaded, instr, data, response) ==
    \A s \in Slot : EntryChange(s, queue[s], queue'[s], loaded, instr, data, response)

LEMMA EntryStep ==
  ASSUME QueueTypeOK, NEW loaded \in SUBSET Slot, NEW instr, NEW data, NEW response,
         Optional(instr, Instr), Optional(data, Data), response \subseteq Response,
         QueueEdge(loaded, instr, data, response)
  PROVE  queue' \in Entries /\ EntryEdge(loaded, instr, data, response)
<1> DEFINE q1 == SendCompletion(queue)
           q2 == MarkDispatched(q1, loaded)
           q3 == Insert(q2, instr)
           q4 == ArriveData(q3, data)
           q5 == FreeCompleted(q4, response)
<1>1. queue' = q5
  BY DEF QueueEdge
<1>2. queue \in Entries /\ tail_ptr \in Slot /\ QUEUE_DEPTH \in Depths
  BY DEF QueueTypeOK, Entries
<1>3. /\ q1 \in Entries
      /\ \A s \in Slot :
           /\ q1[s].valid <=> (queue[s].valid /\ s \notin Completed)
           /\ q1[s].complete <=> (queue[s].complete /\ s \notin Completed)
           /\ (q1[s].ea_resolved <=> queue[s].ea_resolved) /\ (q1[s].dispatched <=> queue[s].dispatched)
           /\ q1[s].tag = queue[s].tag /\ (q1[s].store <=> queue[s].store)
           /\ q1[s].addr = queue[s].addr /\ q1[s].value = queue[s].value
  BY <1>2, SendCompletionStep
<1> HIDE DEF q1
<1>4. /\ q2 \in Entries
      /\ \A s \in Slot :
           /\ q2[s].valid <=> (q1[s].valid /\ s \notin Forwards(loaded))
           /\ q2[s].dispatched <=> (q1[s].dispatched \/ (s \in loaded /\ s \notin Forwards(loaded)))
           /\ (q2[s].complete <=> q1[s].complete) /\ (q2[s].ea_resolved <=> q1[s].ea_resolved)
           /\ q2[s].tag = q1[s].tag /\ (q2[s].store <=> q1[s].store)
           /\ q2[s].addr = q1[s].addr /\ q2[s].value = q1[s].value
  BY <1>3, MarkDispatchedStep
<1> HIDE DEF q2
<1>5. /\ q3 \in Entries
      /\ \A s \in Slot :
           /\ q3[s].complete <=> q2[s].complete
           /\ Fresh(s, instr) =>
                /\ q3[s].valid /\ ~q3[s].ea_resolved /\ ~q3[s].dispatched
                /\ \A n \in instr : q3[s].tag = n.tag /\ (q3[s].store <=> n.store)
           /\ ~Fresh(s, instr) => q3[s] = q2[s]
  BY <1>2, <1>4, InsertStep
<1> HIDE DEF q3
<1>6. /\ q4 \in Entries
      /\ \A s \in Slot :
           /\ q4[s].valid <=> (s \in Revived(data) \/ q3[s].valid)
           /\ q4[s].complete <=> (s \in Revived(data) \/ q3[s].complete)
           /\ q4[s].ea_resolved <=> (s \in DataTargets(data) \/ q3[s].ea_resolved)
           /\ Same(q4[s], q3[s])
           /\ s \notin DataTargets(data) => q4[s].addr = q3[s].addr
           /\ s \notin DataTargets(data) /\ queue[s].store => q4[s].value = q3[s].value
           /\ s \in DataTargets(data) => \A d \in data :
                 q4[s].addr = d.addr /\ (queue[s].store => q4[s].value = d.value)
  BY <1>2, <1>5, ArriveDataStep
<1> HIDE DEF q4
<1>7. /\ q5 \in Entries
      /\ \A s \in Slot :
           /\ q5[s].valid <=> (q4[s].valid /\ s \notin Hit(response))
           /\ q5[s].complete <=> q4[s].complete
           /\ q5[s].ea_resolved <=> q4[s].ea_resolved
           /\ Same(q5[s], q4[s]) /\ q5[s].addr = q4[s].addr
           /\ queue[s].store => q5[s].value = q4[s].value
  <2>1. q4 \in Entries
    BY <1>6
  <2>2. q5 \in Entries /\ Freed(q4, q5, response)
    BY <1>2, <2>1, FreeCompletedStep
  <2>3. QED
    BY <2>2 DEF Freed
<1> HIDE DEF q5
<1>10. SUFFICES ASSUME NEW s \in Slot, NEW e, NEW f, e = queue[s], f = q5[s]
       PROVE  EntryChange(s, e, f, loaded, instr, data, response)
  BY <1>1, <1>7 DEF EntryEdge
<1>11. (f.valid <=> q4[s].valid /\ s \notin Hit(response)) /\ (f.complete <=> q4[s].complete)
       /\ (f.ea_resolved <=> q4[s].ea_resolved) /\ (f.dispatched <=> q4[s].dispatched)
       /\ f.tag = q4[s].tag /\ (f.store <=> q4[s].store) /\ f.addr = q4[s].addr
       /\ (e.store => f.value = q4[s].value)
  BY <1>7, <1>10 DEF Same
<1>12. /\ (q4[s].dispatched <=> q3[s].dispatched) /\ q4[s].tag = q3[s].tag
       /\ (q4[s].store <=> q3[s].store)
  BY <1>6 DEF Same
<1>13. CASE Fresh(s, instr)
  BY <1>3, <1>4, <1>5, <1>6, <1>10, <1>11, <1>12, <1>13 DEF EntryChange
<1>14. CASE ~Fresh(s, instr)
  BY <1>3, <1>4, <1>5, <1>6, <1>10, <1>11, <1>12, <1>14 DEF EntryChange
<1>15. QED
  BY <1>13, <1>14

-----------------------------------------------------------------------------
(* The dispatch path inside the unit.                                      *)

PathProofs == INSTANCE DispatchPathProofs

PathInv == PathProofs!IInv

LEMMA PathAssumption == PathProofs!NoneAssumption
  BY LsuAssumption DEF PathProofs!NoneAssumption

\* An edge of the unit is an edge of DispatchPath.
LEMMA PathStep ==
  ASSUME NEW c \in Request \cup {None}, NEW a \in Response \cup {None}, Path!ClockEdge(c, a)
  PROVE  [PathProofs!Next]_(PathProofs!pathVars)
<1>1. PathProofs!ClockEdge(c, a)
  BY DEF Path!ClockEdge, PathProofs!ClockEdge, Path!MifEdge, PathProofs!MifEdge,
         Path!DispatchRegister, PathProofs!DispatchRegister, Path!Loads, PathProofs!Loads,
         Path!Idle, PathProofs!Idle, Path!Dispatch, PathProofs!Dispatch,
         Path!WaitResp, PathProofs!WaitResp, Path!L1dReady, PathProofs!L1dReady,
         Path!PortEdge, PathProofs!PortEdge, Path!TakeRequest, PathProofs!TakeRequest,
         Path!StayIdle, PathProofs!StayIdle, Path!LowerReady, PathProofs!LowerReady,
         Path!Work, PathProofs!Work, Path!Reopen, PathProofs!Reopen,
         Path!StayFull, PathProofs!StayFull, Path!MeetFill, PathProofs!MeetFill,
         Path!ServeFill, PathProofs!ServeFill, Path!Open, PathProofs!Open,
         Path!Accepts, PathProofs!Accepts
<1>2. QED
  BY <1>1 DEF PathProofs!Next

LEMMA PathStepInv ==
  ASSUME PathInv, NEW c \in Request \cup {None}, NEW a \in Response \cup {None},
         Path!ClockEdge(c, a)
  PROVE  PathInv'
<1>1. [PathProofs!Next]_(PathProofs!pathVars)
  BY PathStep
<1>2. PathProofs!TypeOK'
  BY <1>1, PathProofs!StepTypeOK, PathAssumption DEF PathInv, PathProofs!IInv
<1>3. PathProofs!PortInv'
  BY <1>1, PathProofs!StepPortInv, PathAssumption DEF PathInv
<1>4. QED
  BY <1>2, <1>3 DEF PathInv, PathProofs!IInv

LEMMA PathTypes ==
  PathInv => /\ reg_dispatch \in Request \cup {None} /\ lat \in Request \cup {None}
             /\ l1d_req_out \in Request \cup {None}
             /\ mem_completion \in Response \cup {None}
             /\ curr_state \in {"S_IDLE", "S_DISPATCH", "S_WAIT_RESP"}
             /\ dispatch_ready_out \in BOOLEAN /\ l1d_valid_out \in BOOLEAN
             /\ l1d_port \in {"idle_lo", "idle_hi", "full", "fill", "late_hi", "busy"}
             /\ None \notin Request \cup Response
  BY LsuAssumption DEF PathInv, PathProofs!IInv, PathProofs!TypeOK, PathProofs!MifTypeOK,
     PathProofs!PortPhase

LEMMA PathTypeOK == PathInv => Path!TypeOK
  BY DEF PathInv, PathProofs!IInv, PathProofs!TypeOK, PathProofs!MifTypeOK, PathProofs!PortPhase,
         Path!TypeOK, Path!MifTypeOK, Path!PortPhase

\* Who holds what after an edge: a request is loaded, moves on, stays or is taken.
PathMove(c, a) ==
    /\ Path!Accepts => Path!Held /\ l1d_req_out = lat /\ lat \in Request /\ ~Path!Held'
    /\ Path!Held' => \/ Path!Held /\ lat' = lat /\ ~Path!Accepts
                     \/ Path!Waiting /\ ~Path!Held /\ ~Path!Waiting' /\ lat' = reg_dispatch
    /\ Path!Waiting' => \/ Path!Waiting /\ reg_dispatch' = reg_dispatch
                        \/ Path!Loads(c) /\ ~Path!Waiting /\ reg_dispatch' = c
    /\ Path!Loads(c) => Path!Waiting' /\ reg_dispatch' = c /\ ~Path!Waiting /\ c # None
    /\ Path!Waiting /\ ~Path!Waiting' => Path!Held' /\ lat' = reg_dispatch
    /\ Path!Held => lat \in Request
    /\ Path!Waiting => reg_dispatch \in Request
    /\ mem_completion' = a
    /\ lat' # lat => lat' = reg_dispatch /\ reg_dispatch # None
    /\ reg_dispatch' \in {reg_dispatch, None, c}
    /\ l1d_req_out' \in {l1d_req_out, lat}
    /\ l1d_valid_out => l1d_req_out = lat /\ lat \in Request

LEMMA PathEdge ==
  ASSUME PathInv, NEW c \in Request \cup {None}, NEW a \in Response \cup {None},
         Path!ClockEdge(c, a)
  PROVE  PathMove(c, a)
<1> USE PathTypes DEF PathInv, PathProofs!IInv, PathProofs!PortInv, Path!ClockEdge, Path!MifEdge,
        Path!DispatchRegister, Path!Loads, Path!L1dReady, Path!PortEdge, Path!TakeRequest,
        Path!StayIdle, Path!StayFull, Path!MeetFill, Path!ServeFill, Path!LowerReady,
        Path!Work, Path!Reopen, Path!Accepts, Path!Open,
        Path!Held, Path!Waiting, PathMove
<1>1. CASE Path!Idle(reg_dispatch)
  BY <1>1 DEF Path!Idle
<1>2. CASE Path!Dispatch(Path!L1dReady)
  BY <1>2 DEF Path!Dispatch
<1>3. CASE Path!WaitResp(Path!L1dReady)
  BY <1>3 DEF Path!WaitResp
<1>4. QED
  BY <1>1, <1>2, <1>3

-----------------------------------------------------------------------------
(* The edges of the unit.                                                  *)

\* The answer memory gives, and what memory_interface reports to the queue.
Given(answered) == IF answered = {} THEN None ELSE pending[CHOOSE k \in answered : TRUE]
Reply == IF mem_completion = None THEN {} ELSE {mem_completion}

\* An edge with or without a new instruction.
Stepped(instr, answered) ==
    /\ answered \in {{}} \cup {{k} : k \in Ready}
    /\ \/ instr = {} /\ UNCHANGED program
       \/ \E i \in Instruction : Issue(i) /\ instr = {[tag |-> Len(program'), store |-> i.store]}
    /\ ClockEdge(instr, answered)

LEMMA NextSteps ==
  ASSUME Next
  PROVE  \E answered, instr : Stepped(instr, answered)
<1>1. PICK answered \in {{}} \cup {{k} : k \in Ready} : Edge(answered)
  BY DEF Next
<1>2. CASE UNCHANGED program /\ ClockEdge({}, answered)
  BY <1>1, <1>2 DEF Stepped
<1>3. CASE \E i \in Instruction :
             Issue(i) /\ ClockEdge({[tag |-> Len(program'), store |-> i.store]}, answered)
  BY <1>1, <1>3 DEF Stepped
<1>4. QED
  BY <1>1, <1>2, <1>3 DEF Edge

\* The types of what the processor and the memory keep.
AroundOK ==
    /\ completion \in {{}} \cup {{c} : c \in Completion}
    /\ program \in Seq(Instruction) /\ Len(program) <= MaxOps
    /\ sent \subseteq 1 .. Len(program)
    /\ data_in \in {{}} \cup {{[tag |-> t, addr |-> a, value |-> t]} : t \in Tag, a \in Addr}
    /\ taken \in Seq(Tag)
    /\ pending \in Seq(Response)
    /\ done \in [Tag -> 0 .. 2]
    /\ mishaps \subseteq {"uncounted", "overtaken"}

\* An entry in use is an instruction's, and no two are the same one's.
EntryInv ==
    /\ \A s \in Slot : queue[s].valid =>
          /\ queue[s].tag \in 1 .. Len(program)
          /\ queue[s].store <=> program[queue[s].tag].store
    /\ \A s, u \in Slot : queue[s].valid /\ queue[u].valid /\ s # u => queue[s].tag # queue[u].tag

\* The processor supplies what the program says.
DriveInv == \A d \in data_in : d.tag \in sent /\ d.addr = program[d.tag].addr

TypeInv == QueueTypeOK /\ AroundOK /\ PathInv /\ EntryInv /\ DriveInv

LEMMA Remainder == \A n \in Int, m \in Nat \ {0} : n % m \in 0 .. m - 1
  OBVIOUS

LEMMA CompletedIs ==
  ASSUME QueueTypeOK
  PROVE  /\ \A s \in Completed : s \in Slot /\ queue[s].valid /\ queue[s].complete
         /\ \A s, u \in Completed : s = u
         /\ (\E s \in Slot : queue[s].valid /\ queue[s].complete) => Completed # {}
<1> DEFINE S == {s \in Slot : queue[s].valid /\ queue[s].complete}
<1>1. S \in SUBSET Nat
  BY SlotsAreNumbers DEF QueueTypeOK
<1>2. Completed = Lowest(S)
  BY DEF Completed
<1>3. /\ \A s \in S : s \in Slot /\ queue[s].valid /\ queue[s].complete
      /\ (\E s \in Slot : queue[s].valid /\ queue[s].complete) => S # {}
  OBVIOUS
<1> HIDE DEF S
<1>4. Lowest(S) \subseteq S /\ (\A x, y \in Lowest(S) : x = y) /\ (S # {} => Lowest(S) # {})
  BY <1>1, LowestIn
<1>5. QED
  BY <1>2, <1>3, <1>4

\* What may be dispatched.
LEMMA CandidateIs ==
  ASSUME QueueTypeOK
  PROVE  /\ \A s \in Candidate : /\ s \in Slot /\ queue[s].valid /\ queue[s].ea_resolved
                                 /\ ~queue[s].dispatched /\ ~queue[s].complete
         /\ \A s, u \in Candidate : s = u
<1> DEFINE First == IF Candidates(FALSE) # {} THEN Candidates(FALSE) ELSE Candidates(TRUE)
<1>1. QUEUE_DEPTH \in Nat \ {0} /\ head_ptr \in Nat /\ count \in Nat
  BY SlotsAreNumbers DEF QueueTypeOK, Slot
<1>2. First \in SUBSET Nat
  BY <1>1 DEF Candidates
<1>3. \A k \in First : LET s == (head_ptr + k) % QUEUE_DEPTH IN
        queue[s].valid /\ queue[s].ea_resolved /\ ~queue[s].dispatched /\ ~queue[s].complete
  BY DEF Candidates
<1>4. \A k \in Nat : (head_ptr + k) % QUEUE_DEPTH \in Slot
  BY <1>1, Remainder DEF Slot
<1>5. Candidate = {(head_ptr + k) % QUEUE_DEPTH : k \in Lowest(First)}
  BY DEF Candidate
<1> HIDE DEF First
<1>6. Lowest(First) \subseteq First /\ \A x, y \in Lowest(First) : x = y
  BY <1>2, LowestIn
<1>7. QED
  BY <1>2, <1>3, <1>4, <1>5, <1>6

LEMMA OfferIs ==
  ASSUME TypeInv
  PROVE  /\ Candidate = {} => Offer = None
         /\ \A s \in Candidate : Offer = [tag |-> queue[s].tag, store |-> queue[s].store,
                                          addr |-> queue[s].addr, value |-> queue[s].value]
         /\ Offer \in Request \cup {None}
<1>1. Candidate = {} => Offer = None
  BY DEF Offer
<1>2. ASSUME NEW s \in Candidate
      PROVE  Offer = [tag |-> queue[s].tag, store |-> queue[s].store,
                      addr |-> queue[s].addr, value |-> queue[s].value]
  <2>1. (CHOOSE u \in Candidate : TRUE) = s
    BY CandidateIs DEF TypeInv
  <2>2. QED
    BY <2>1 DEF Offer
<1>3. ASSUME NEW s \in Candidate
      PROVE  Offer \in Request
  <2>1. queue[s] \in Entry /\ queue[s].tag \in Tag
    BY CandidateIs, LsuAssumption DEF TypeInv, EntryInv, QueueTypeOK, AroundOK
  <2>2. QED
    BY <1>2, <2>1 DEF Request, Entry
<1>4. QED
  BY <1>1, <1>2, <1>3

LEMMA LoadedIs ==
  ASSUME TypeInv
  PROVE  /\ \A s \in Loaded : /\ s \in Slot /\ queue[s].valid /\ queue[s].ea_resolved
                              /\ ~queue[s].dispatched /\ ~queue[s].complete
                              /\ Path!Loads(Offer)
                              /\ Offer = [tag |-> queue[s].tag, store |-> queue[s].store,
                                          addr |-> queue[s].addr, value |-> queue[s].value]
         /\ Path!Loads(Offer) => \E s \in Loaded : TRUE
         /\ Loaded \in SUBSET Slot
<1>1. Path!Loads(Offer) => Offer # None
  BY DEF Path!Loads
<1>2. QED
  BY <1>1, CandidateIs, OfferIs DEF Loaded, TypeInv

\* The inputs of an edge have their types.
LEMMA StepInputs ==
  ASSUME TypeInv, NEW instr, NEW answered, Stepped(instr, answered)
  PROVE  /\ Optional(instr, Instr)
         /\ Optional(data_in, Data)
         /\ Reply \subseteq Response
         /\ Given(answered) \in Response \cup {None}
         /\ answered # {} => \E k \in DOMAIN pending : answered = {k} /\ Given(answered) = pending[k]
         /\ program' \in Seq(Instruction) /\ Len(program') <= MaxOps
         /\ Len(program) <= Len(program')
         /\ \A t \in 1 .. Len(program) : program'[t] = program[t]
         /\ instr = {} => program' = program
         /\ instr # {} => Len(program') = Len(program) + 1 /\ ~full_out
         /\ \A n \in instr : n.tag = Len(program') /\ (n.store <=> program'[n.tag].store)
<1> USE DEF TypeInv, AroundOK
<1>1. Optional(data_in, Data)
  <2>1. \A t \in Tag, a \in Addr : [tag |-> t, addr |-> a, value |-> t] \in Data
    BY LsuAssumption DEF Data
  <2>2. QED
    BY <2>1 DEF Optional
<1>2. Reply \subseteq Response
  BY PathTypes DEF Reply
<1>3. answered # {} => \E k \in DOMAIN pending : answered = {k}
  BY DEF Stepped, Ready
<1>4. ASSUME NEW k \in DOMAIN pending, answered = {k}
      PROVE  Given(answered) = pending[k]
  BY <1>4 DEF Given
<1>10. answered # {} => \E k \in DOMAIN pending : answered = {k} /\ Given(answered) = pending[k]
  BY <1>3, <1>4
<1>5. Given(answered) \in Response \cup {None}
  <2>1. answered = {} => Given(answered) = None
    BY DEF Given
  <2>2. \A k \in DOMAIN pending : pending[k] \in Response
    OBVIOUS
  <2>3. QED
    BY <1>3, <1>4, <2>1, <2>2
<1>6. CASE instr = {} /\ UNCHANGED program
  BY <1>1, <1>2, <1>5, <1>6, <1>10 DEF Optional
<1>7. ASSUME NEW i \in Instruction, Issue(i),
             instr = {[tag |-> Len(program'), store |-> i.store]}
      PROVE  /\ Optional(instr, Instr)
             /\ program' \in Seq(Instruction) /\ Len(program') <= MaxOps
             /\ Len(program') = Len(program) + 1
             /\ \A t \in 1 .. Len(program) : program'[t] = program[t]
             /\ \A n \in instr : n.tag = Len(program') /\ (n.store <=> program'[n.tag].store)
             /\ ~full_out /\ instr # {}
  <2>1. program' = Append(program, i) /\ Len(program) < MaxOps /\ ~full_out
    BY <1>7 DEF Issue
  <2>2. /\ program' \in Seq(Instruction) /\ Len(program') = Len(program) + 1
        /\ \A t \in 1 .. Len(program) : program'[t] = program[t]
        /\ program'[Len(program) + 1] = i
    BY <2>1, AppendProperties
  <2>3. Len(program') \in Tag /\ Len(program') <= MaxOps
    BY <2>1, <2>2, LsuAssumption
  <2>4. i.store \in BOOLEAN
    BY DEF Instruction
  <2>5. Optional(instr, Instr)
    BY <1>7, <2>3, <2>4 DEF Optional, Instr
  <2>6. QED
    BY <1>7, <2>1, <2>2, <2>3, <2>5
<1>8. CASE \E i \in Instruction :
              Issue(i) /\ instr = {[tag |-> Len(program'), store |-> i.store]}
  <2>1. /\ Optional(instr, Instr)
        /\ program' \in Seq(Instruction) /\ Len(program') <= MaxOps
        /\ Len(program') = Len(program) + 1
        /\ \A t \in 1 .. Len(program) : program'[t] = program[t]
        /\ \A n \in instr : n.tag = Len(program') /\ (n.store <=> program'[n.tag].store)
        /\ ~full_out /\ instr # {}
    BY <1>7, <1>8
  <2>2. QED
    BY <1>1, <1>2, <1>5, <1>10, <2>1
<1>9. QED
  BY <1>6, <1>8 DEF Stepped

\* An edge changes each entry as EntryEdge says.
LEMMA StepEntries ==
  ASSUME TypeInv, NEW instr, NEW answered, Stepped(instr, answered)
  PROVE  /\ queue' \in Entries
         /\ \A s \in Slot : EntryChange(s, queue[s], queue'[s], Loaded, instr, data_in, Reply)
         /\ QueueEdge(Loaded, instr, data_in, Reply)
         /\ Slot' = Slot /\ QUEUE_DEPTH' = QUEUE_DEPTH
<1>1. QueueEdge(Loaded, instr, data_in, Reply)
  BY DEF Stepped, ClockEdge, Reply
<1>2. QED
  BY <1>1, StepInputs, LoadedIs, EntryStep DEF TypeInv, EntryEdge, QueueEdge, Slot

\* An edge moves the requests of the dispatch path as PathMove says.
LEMMA StepPath ==
  ASSUME TypeInv, NEW instr, NEW answered, Stepped(instr, answered)
  PROVE  PathInv' /\ PathMove(Offer, Given(answered))
<1>1. Path!ClockEdge(Offer, Given(answered))
  BY DEF Stepped, ClockEdge, Given
<1>2. Offer \in Request \cup {None} /\ Given(answered) \in Response \cup {None}
  BY OfferIs, StepInputs
<1>3. QED
  BY <1>1, <1>2, PathStepInv, PathEdge DEF TypeInv

-----------------------------------------------------------------------------
(* What the memory behind the port keeps.                                  *)

LEMMA RemoveAtStep ==
  ASSUME NEW R, NEW q \in Seq(R), NEW k \in 1 .. Len(q)
  PROVE  /\ RemoveAt(q, k) \in Seq(R) /\ Len(RemoveAt(q, k)) = Len(q) - 1
         /\ \A j \in 1 .. Len(q) - 1 : RemoveAt(q, k)[j] = IF j < k THEN q[j] ELSE q[j + 1]
<1> DEFINE a == SubSeq(q, 1, k - 1)
           b == SubSeq(q, k + 1, Len(q))
<1>1. /\ a \in Seq(R) /\ Len(a) = k - 1
      /\ \A j \in 1 .. k - 1 : a[j] = q[j]
  BY SubSeqProperties
<1>2. /\ b \in Seq(R) /\ Len(b) = Len(q) - k
      /\ \A j \in 1 .. Len(q) - k : b[j] = q[k + j]
  BY SubSeqProperties
<1>3. RemoveAt(q, k) = a \o b
  BY DEF RemoveAt
<1> HIDE DEF a, b
<1>4. /\ a \o b \in Seq(R) /\ Len(a \o b) = Len(a) + Len(b)
      /\ \A j \in 1 .. Len(a) + Len(b) : (a \o b)[j] = IF j <= Len(a) THEN a[j] ELSE b[j - Len(a)]
  BY <1>1, <1>2, ConcatProperties
<1>5. ASSUME NEW j \in 1 .. Len(q) - 1
      PROVE  (a \o b)[j] = IF j < k THEN q[j] ELSE q[j + 1]
  <2>1. j \in 1 .. Len(a) + Len(b) /\ Len(a) = k - 1 /\ Len(b) = Len(q) - k
    BY <1>1, <1>2
  <2>2. CASE j < k
    <3>1. (a \o b)[j] = a[j]
      BY <1>4, <2>1, <2>2
    <3>2. QED
      BY <1>1, <2>2, <3>1
  <2>3. CASE ~(j < k)
    <3>1. (a \o b)[j] = b[j - (k - 1)]
      BY <1>4, <2>1, <2>3
    <3>2. j - (k - 1) \in 1 .. Len(q) - k /\ k + (j - (k - 1)) = j + 1
      BY <2>3
    <3>3. b[j - (k - 1)] = q[k + (j - (k - 1))]
      BY <1>2, <3>2
    <3>4. QED
      BY <2>3, <3>1, <3>2, <3>3
  <2>4. QED
    BY <2>2, <2>3
<1>6. QED
  BY <1>1, <1>2, <1>3, <1>4, <1>5

LEMMA ContentIs ==
  ASSUME AroundOK, NEW a
  PROVE  Content(a) \in Value
<1>1. Writers(a) \in SUBSET (0 .. Len(taken))
  BY DEF Writers, AroundOK
<1>2. ASSUME Writers(a) # {}
      PROVE  taken[Max(Writers(a))] \in Tag
  <2>1. Max(Writers(a)) \in Writers(a)
    <3>1. Len(taken) \in Nat
      BY DEF AroundOK
    <3>2. QED
      BY <1>1, <1>2, <3>1, MaxMember
  <2>2. Max(Writers(a)) \in DOMAIN taken
    BY <2>1 DEF Writers
  <2>3. QED
    BY <2>2 DEF AroundOK
<1>3. QED
  BY <1>2, QueueAssumption, LsuAssumption DEF Content

\* The answers owed after an edge: those owed before but for the one given, in
\* the same order, and one for the request taken.
LEMMA MemoryStep ==
  ASSUME TypeInv, NEW instr, NEW answered, Stepped(instr, answered)
  PROVE  /\ pending' \in Seq(Response) /\ taken' \in Seq(Tag)
         /\ Path!Accepts => taken' = Append(taken, l1d_req_out.tag) /\ l1d_req_out.tag \in Tag
         /\ ~Path!Accepts => taken' = taken
         /\ Len(pending') <= Len(pending) + (IF Path!Accepts THEN 1 ELSE 0)
         /\ \A k \in DOMAIN pending' :
               \/ \E j \in DOMAIN pending : answered # {j} /\ pending'[k] = pending[j]
               \/ Path!Accepts /\ k = Len(pending') /\ pending'[k].tag = l1d_req_out.tag
         /\ (\A j, k \in DOMAIN pending : pending[j].tag = pending[k].tag => j = k)
            /\ (Path!Accepts => \A j \in DOMAIN pending : pending[j].tag # l1d_req_out.tag)
            => \A j, k \in DOMAIN pending' : pending'[j].tag = pending'[k].tag => j = k
<1> DEFINE left == IF answered = {} THEN pending
                   ELSE RemoveAt(pending, CHOOSE k \in answered : TRUE)
           new == Answer(l1d_req_out)
<1>1. /\ pending' = IF Path!Accepts THEN Append(left, new) ELSE left
      /\ taken' = IF Path!Accepts THEN Append(taken, l1d_req_out.tag) ELSE taken
  BY DEF Stepped, ClockEdge, MemoryEdge
<1>2. pending \in Seq(Response) /\ taken \in Seq(Tag)
  BY DEF TypeInv, AroundOK
<1>3. /\ left \in Seq(Response) /\ Len(left) <= Len(pending)
      /\ \A k \in 1 .. Len(left) : \E j \in DOMAIN pending : answered # {j} /\ left[k] = pending[j]
      /\ (\A j, k \in DOMAIN pending : pending[j].tag = pending[k].tag => j = k) =>
         \A j, k \in 1 .. Len(left) : left[j].tag = left[k].tag => j = k
  <2>1. CASE answered = {}
    BY <1>2, <2>1
  <2>2. ASSUME NEW a \in DOMAIN pending, answered = {a}
        PROVE  /\ left \in Seq(Response) /\ Len(left) <= Len(pending)
               /\ \A k \in 1 .. Len(left) :
                     \E j \in DOMAIN pending : answered # {j} /\ left[k] = pending[j]
               /\ (\A j, k \in DOMAIN pending : pending[j].tag = pending[k].tag => j = k) =>
                  \A j, k \in 1 .. Len(left) : left[j].tag = left[k].tag => j = k
    <3>1. left = RemoveAt(pending, a)
      BY <2>2
    <3>2. a \in 1 .. Len(pending)
      BY <1>2
    <3>3. /\ left \in Seq(Response) /\ Len(left) = Len(pending) - 1
          /\ \A j \in 1 .. Len(pending) - 1 :
                left[j] = IF j < a THEN pending[j] ELSE pending[j + 1]
      BY <1>2, <3>1, <3>2, RemoveAtStep
    <3> HIDE DEF left
    <3>4. ASSUME NEW k \in 1 .. Len(left)
          PROVE  \E j \in DOMAIN pending : answered # {j} /\ left[k] = pending[j]
      <4>1. CASE k < a
        <5>1. k \in DOMAIN pending /\ left[k] = pending[k] /\ a # k
          BY <1>2, <3>2, <3>3, <4>1
        <5>2. answered # {k}
          BY <2>2, <5>1
        <5>3. QED
          BY <5>1, <5>2
      <4>2. CASE ~(k < a)
        <5>1. k + 1 \in DOMAIN pending /\ left[k] = pending[k + 1] /\ a # k + 1
          BY <1>2, <3>2, <3>3, <4>2
        <5>2. answered # {k + 1}
          BY <2>2, <5>1
        <5>3. QED
          BY <5>1, <5>2
      <4>3. QED
        BY <4>1, <4>2
    <3>5. ASSUME \A j, k \in DOMAIN pending : pending[j].tag = pending[k].tag => j = k,
                 NEW j \in 1 .. Len(left), NEW k \in 1 .. Len(left), left[j].tag = left[k].tag
          PROVE  j = k
      <4> DEFINE p(x) == IF x < a THEN x ELSE x + 1
      <4>1. p(j) \in DOMAIN pending /\ p(k) \in DOMAIN pending
        BY <1>2, <3>2, <3>3
      <4>2. left[j] = pending[p(j)] /\ left[k] = pending[p(k)]
        BY <3>3
      <4>3. p(j) = p(k)
        BY <3>5, <4>1, <4>2
      <4>4. QED
        BY <3>2, <4>3
    <3>6. QED
      BY <3>3, <3>4, <3>5
  <2>3. answered # {} => \E k \in DOMAIN pending : answered = {k}
    BY StepInputs
  <2>4. QED
    BY <2>1, <2>2, <2>3
<1>4. ASSUME Path!Accepts
      PROVE  new \in Response /\ new.tag = l1d_req_out.tag /\ l1d_req_out.tag \in Tag
  <2>1. l1d_req_out \in Request
    BY <1>4, StepPath DEF PathMove
  <2>2. l1d_req_out.tag \in Tag /\ l1d_req_out.store \in BOOLEAN
    BY <2>1 DEF Request
  <2>3. Content(l1d_req_out.addr) \in Value
    BY ContentIs DEF TypeInv
  <2>4. QED
    BY <2>2, <2>3, QueueAssumption DEF Answer, Response
<1> HIDE DEF left, new
<1>5. CASE ~Path!Accepts
  <2>1. pending' = left /\ taken' = taken
    BY <1>1, <1>5
  <2>2. DOMAIN left = 1 .. Len(left) /\ Len(left) <= Len(pending) + 0
    BY <1>2, <1>3
  <2>3. QED
    BY <1>2, <1>3, <1>5, <2>1, <2>2
<1>6. CASE Path!Accepts
  <2>1. pending' = Append(left, new) /\ taken' = Append(taken, l1d_req_out.tag)
    BY <1>1, <1>6
  <2>2. /\ pending' \in Seq(Response) /\ Len(pending') = Len(left) + 1
        /\ \A k \in 1 .. Len(left) : pending'[k] = left[k]
        /\ pending'[Len(left) + 1] = new
    BY <1>3, <1>4, <1>6, <2>1, AppendProperties
  <2>3. taken' \in Seq(Tag)
    BY <1>2, <1>4, <1>6, <2>1, AppendProperties
  <2>4. DOMAIN pending' = 1 .. Len(left) + 1 /\ Len(left) \in Nat /\ Len(pending) \in Nat
    BY <1>2, <1>3, <2>2
  <2>5. \A k \in DOMAIN pending' :
               \/ \E j \in DOMAIN pending : answered # {j} /\ pending'[k] = pending[j]
               \/ Path!Accepts /\ k = Len(pending') /\ pending'[k].tag = l1d_req_out.tag
    <3> SUFFICES ASSUME NEW k \in DOMAIN pending'
                 PROVE  \/ \E j \in DOMAIN pending : answered # {j} /\ pending'[k] = pending[j]
                        \/ Path!Accepts /\ k = Len(pending') /\ pending'[k].tag = l1d_req_out.tag
      OBVIOUS
    <3>1. CASE k = Len(left) + 1
      BY <1>4, <1>6, <2>2, <3>1
    <3>2. CASE k \in 1 .. Len(left)
      BY <1>3, <2>2, <3>2
    <3>3. QED
      BY <2>4, <3>1, <3>2
  <2>6. ASSUME \A j, k \in DOMAIN pending : pending[j].tag = pending[k].tag => j = k,
               \A j \in DOMAIN pending : pending[j].tag # l1d_req_out.tag,
               NEW j \in DOMAIN pending', NEW k \in DOMAIN pending',
               pending'[j].tag = pending'[k].tag
        PROVE  j = k
    <3>1. \A x \in 1 .. Len(left) : pending'[x].tag = left[x].tag /\ left[x].tag # new.tag
      <4>1. \A x \in 1 .. Len(left) : \E i \in DOMAIN pending : left[x] = pending[i]
        BY <1>3
      <4>2. QED
        BY <1>4, <1>6, <2>2, <2>6, <4>1
    <3>2. \A x, y \in 1 .. Len(left) : left[x].tag = left[y].tag => x = y
      BY <1>3, <2>6
    <3>3. pending'[Len(left) + 1].tag = new.tag
      BY <2>2
    <3>4. CASE j = Len(left) + 1 \/ k = Len(left) + 1
      BY <2>4, <2>6, <3>1, <3>3, <3>4
    <3>5. CASE j \in 1 .. Len(left) /\ k \in 1 .. Len(left)
      BY <2>6, <3>1, <3>2, <3>5
    <3>6. QED
      BY <2>4, <3>4, <3>5
  <2>7. Len(pending') <= Len(pending) + 1
    BY <1>3, <2>2, <2>4
  <2>8. QED
    BY <1>4, <1>6, <2>1, <2>2, <2>3, <2>5, <2>6, <2>7
<1>7. QED
  BY <1>5, <1>6

-----------------------------------------------------------------------------
(* Types.                                                                  *)

LEMMA StepQueueTypeOK ==
  ASSUME TypeInv, NEW instr, NEW answered, Stepped(instr, answered)
  PROVE  QueueTypeOK'
<1> DEFINE D == QUEUE_DEPTH
<1>1. /\ QueueEdge(Loaded, instr, data_in, Reply) /\ queue' \in Entries
      /\ Slot' = Slot /\ QUEUE_DEPTH' = D
  BY StepEntries
<1>2. D \in Depths /\ D \in Nat \ {0} /\ 2 * D \in Nat \ {0}
  BY SlotsAreNumbers DEF TypeInv, QueueTypeOK
<1>3. head_ptr \in Slot /\ tail_ptr \in Slot /\ count \in 0 .. D
      /\ waiting_for_data_count \in 0 .. 2 * D - 1
  BY DEF TypeInv, QueueTypeOK
<1>4. head_ptr' \in Slot /\ tail_ptr' \in Slot
  <2>1. head_ptr + 1 \in Int /\ tail_ptr + 1 \in Int
    BY <1>2, <1>3 DEF Slot
  <2>2. (head_ptr + 1) % D \in Slot /\ (tail_ptr + 1) % D \in Slot
    BY <1>2, <2>1, Remainder DEF Slot
  <2>3. QED
    BY <1>1, <1>3, <2>2 DEF QueueEdge
<1>5. count' \in 0 .. D
  <2>1. instr # {} => count # D
    BY StepInputs DEF full_out
  <2>2. Pops => count > 0
    BY DEF Pops
  <2>3. QED
    BY <1>1, <1>2, <1>3, <2>1, <2>2 DEF QueueEdge
<1>6. waiting_for_data_count' \in 0 .. 2 * D - 1
  <2> DEFINE delta == IF DataTargets(data_in) # {} THEN -1
                      ELSE IF instr # {} THEN 1
                      ELSE IF Completed # {} /\ ~queue[head_ptr].ea_resolved THEN -1
                      ELSE 0
             total == waiting_for_data_count + delta
  <2>1. waiting_for_data_count' = total % (2 * D)
    BY <1>1 DEF QueueEdge
  <2>2. delta \in Int
    OBVIOUS
  <2>3. total \in Int
    BY <1>2, <1>3, <2>2
  <2> HIDE DEF total
  <2>4. total % (2 * D) \in 0 .. 2 * D - 1
    BY <1>2, <2>3, Remainder
  <2>5. QED
    BY <2>1, <2>4
<1>7. queue_completion' \in {{}} \cup {{c} : c \in Completion}
  <2>1. queue_completion' = {[tag |-> queue[s].tag, value |-> queue[s].value] : s \in Completed}
    BY <1>1 DEF QueueEdge
  <2>2. \A s \in Slot : [tag |-> queue[s].tag, value |-> queue[s].value] \in Completion
    BY DEF TypeInv, QueueTypeOK, Entry, Completion
  <2>3. CASE Completed = {}
    BY <2>1, <2>3
  <2>4. ASSUME NEW s \in Completed
        PROVE  queue_completion' \in {{c} : c \in Completion}
    <3>1. Completed = {s} /\ s \in Slot
      BY CompletedIs DEF TypeInv
    <3>2. queue_completion' = {[tag |-> queue[s].tag, value |-> queue[s].value]}
      BY <2>1, <3>1
    <3>3. QED
      BY <2>2, <3>1, <3>2
  <2>5. QED
    BY <2>3, <2>4
<1>8. QED
  BY <1>1, <1>2, <1>3, <1>4, <1>5, <1>6, <1>7 DEF QueueTypeOK, Entries, Slot

\* The processor's side of an edge.
LEMMA DriveStep ==
  ASSUME TypeInv, NEW instr, NEW answered, Stepped(instr, answered)
  PROVE  /\ sent \subseteq sent' /\ sent' \subseteq 1 .. Len(program')
         /\ data_in' \in {{}} \cup {{[tag |-> t, addr |-> a, value |-> t]} : t \in Tag, a \in Addr}
         /\ DriveInv'
         /\ \/ data_in' = data_in /\ sent' = sent
            \/ data_in' = {} /\ sent' = sent
            \/ \E t \in (1 .. Len(program')) \ sent :
                 /\ sent' = sent \cup {t}
                 /\ data_in' = {[tag |-> t, addr |-> program'[t].addr, value |-> t]}
<1> USE DEF TypeInv, AroundOK
<1>1. /\ program' \in Seq(Instruction) /\ Len(program') <= MaxOps /\ Len(program) <= Len(program')
      /\ \A t \in 1 .. Len(program) : program'[t] = program[t]
  BY StepInputs
<1>2. \A t \in 1 .. Len(program') : t \in Tag /\ program'[t].addr \in Addr
  <2>1. \A t \in 1 .. Len(program') : program'[t] \in Instruction
    BY <1>1
  <2>2. Len(program') \in Nat
    BY <1>1
  <2>3. QED
    BY <1>1, <2>1, <2>2, LsuAssumption DEF Instruction
<1>3. Drive
  BY DEF Stepped, ClockEdge
<1>4. sent \subseteq 1 .. Len(program')
  BY <1>1
<1>5. CASE data_in' = data_in /\ sent' = sent
  <2>1. data_in' \in {{}} \cup {{[tag |-> t, addr |-> a, value |-> t]} : t \in Tag, a \in Addr}
    BY <1>5
  <2>2. DriveInv'
    <3>1. \A d \in data_in : d.tag \in sent /\ d.addr = program[d.tag].addr
      BY DEF DriveInv
    <3>2. \A d \in data_in : d.tag \in 1 .. Len(program)
      BY <3>1
    <3>3. \A d \in data_in : program'[d.tag] = program[d.tag]
      BY <1>1, <3>2
    <3>4. QED
      BY <1>5, <3>1, <3>3 DEF DriveInv
  <2>3. QED
    BY <1>4, <1>5, <2>1, <2>2
<1>6. CASE data_in' = {} /\ sent' = sent
  BY <1>4, <1>6 DEF DriveInv
<1>7. ASSUME NEW t \in DOMAIN program' \ sent,
             data_in' = {[tag |-> t, addr |-> program'[t].addr, value |-> t]},
             sent' = sent \cup {t}
      PROVE  /\ sent \subseteq sent' /\ sent' \subseteq 1 .. Len(program')
             /\ data_in' \in {{[tag |-> u, addr |-> a, value |-> u]} : u \in Tag, a \in Addr}
             /\ DriveInv'
             /\ t \in (1 .. Len(program')) \ sent
  <2>1. t \in 1 .. Len(program')
    BY <1>1
  <2>2. QED
    <3>1. t \in Tag /\ program'[t].addr \in Addr
      BY <1>2, <2>1
    <3>2. data_in' \in {{[tag |-> u, addr |-> a, value |-> u]} : u \in Tag, a \in Addr}
      BY <1>7, <3>1
    <3>3. DriveInv'
      BY <1>7 DEF DriveInv
    <3>4. QED
      <4>1. t \notin sent
        OBVIOUS
      <4>2. sent \subseteq sent' /\ sent' \subseteq 1 .. Len(program')
        BY <1>4, <1>7, <2>1
      <4>3. QED
        BY <2>1, <3>2, <3>3, <4>1, <4>2
<1>8. \/ data_in' = data_in /\ sent' = sent
      \/ data_in' = {} /\ sent' = sent
      \/ \E t \in DOMAIN program' \ sent :
            /\ data_in' = {[tag |-> t, addr |-> program'[t].addr, value |-> t]}
            /\ sent' = sent \cup {t}
  BY <1>3 DEF Drive
<1>9. CASE \E t \in DOMAIN program' \ sent :
            /\ data_in' = {[tag |-> t, addr |-> program'[t].addr, value |-> t]}
            /\ sent' = sent \cup {t}
  <2>1. PICK t \in DOMAIN program' \ sent :
            /\ data_in' = {[tag |-> t, addr |-> program'[t].addr, value |-> t]}
            /\ sent' = sent \cup {t}
    BY <1>9
  <2> HIDE DEF TypeInv, AroundOK
  <2>2. /\ sent \subseteq sent' /\ sent' \subseteq 1 .. Len(program')
        /\ data_in' \in {{[tag |-> u, addr |-> a, value |-> u]} : u \in Tag, a \in Addr}
        /\ DriveInv' /\ t \in (1 .. Len(program')) \ sent
    BY <1>7, <2>1
  <2>3. QED
    BY <2>1, <2>2
<1>10. CASE (data_in' = data_in /\ sent' = sent) \/ (data_in' = {} /\ sent' = sent)
  BY <1>5, <1>6, <1>10
<1>11. QED
  BY <1>8, <1>9, <1>10

LEMMA StepEntryInv ==
  ASSUME TypeInv, NEW instr, NEW answered, Stepped(instr, answered)
  PROVE  EntryInv'
<1>1. /\ Slot' = Slot
      /\ \A s \in Slot : EntryChange(s, queue[s], queue'[s], Loaded, instr, data_in, Reply)
      /\ QUEUE_DEPTH \in Depths
  BY StepEntries DEF TypeInv, QueueTypeOK
<1>2. \A s \in Slot : queue'[s].valid => Fresh(s, instr) \/ queue[s].valid
  BY <1>1, RevivedValid DEF EntryChange
<1>3. \A s \in Slot : Fresh(s, instr) => queue'[s].tag = Len(program) + 1 /\ s = tail_ptr
                      /\ Len(program') = Len(program) + 1
                      /\ (queue'[s].store <=> program'[queue'[s].tag].store)
  BY <1>1, StepInputs DEF EntryChange, Fresh
<1>4. \A s \in Slot : ~Fresh(s, instr) => queue'[s].tag = queue[s].tag /\ (queue'[s].store <=> queue[s].store)
  BY <1>1 DEF EntryChange
<1>5. /\ Len(program) \in Nat /\ Len(program') \in Nat /\ Len(program) <= Len(program')
      /\ \A t \in 1 .. Len(program) : program'[t] = program[t]
  BY StepInputs DEF TypeInv, AroundOK
<1>6. \A s \in Slot : queue[s].valid => /\ queue[s].tag \in 1 .. Len(program)
                                        /\ queue[s].store <=> program[queue[s].tag].store
  BY DEF TypeInv, EntryInv
<1>7. \A s, u \in Slot : queue[s].valid /\ queue[u].valid /\ s # u => queue[s].tag # queue[u].tag
  BY DEF TypeInv, EntryInv
<1>8. ASSUME NEW s \in Slot, queue'[s].valid
      PROVE  queue'[s].tag \in 1 .. Len(program') /\ (queue'[s].store <=> program'[queue'[s].tag].store)
  <2>1. CASE Fresh(s, instr)
    BY <1>3, <1>5, <2>1
  <2>2. CASE ~Fresh(s, instr)
    BY <1>2, <1>4, <1>5, <1>6, <1>8, <2>2
  <2>3. QED
    BY <2>1, <2>2
<1>9. ASSUME NEW s \in Slot, NEW u \in Slot, queue'[s].valid, queue'[u].valid, s # u
      PROVE  queue'[s].tag # queue'[u].tag
  <2>1. CASE Fresh(s, instr)
    BY <1>2, <1>3, <1>4, <1>5, <1>6, <1>9, <2>1
  <2>2. CASE Fresh(u, instr)
    BY <1>2, <1>3, <1>4, <1>5, <1>6, <1>9, <2>2
  <2>3. CASE ~Fresh(s, instr) /\ ~Fresh(u, instr)
    BY <1>2, <1>4, <1>7, <1>9, <2>3
  <2>4. QED
    BY <2>1, <2>2, <2>3
<1>10. QED
  BY <1>1, <1>8, <1>9 DEF EntryInv

LEMMA StepTypeInv ==
  ASSUME TypeInv, NEW instr, NEW answered, Stepped(instr, answered)
  PROVE  TypeInv'
<1>1. completion' \in {{}} \cup {{c} : c \in Completion}
  <2>1. queue_completion \in {{}} \cup {{c} : c \in Completion}
    BY DEF TypeInv, QueueTypeOK
  <2>2. mem_completion # None =>
          [tag |-> mem_completion.tag, value |-> mem_completion.value] \in Completion
    BY PathTypes DEF TypeInv, Response, Completion
  <2>3. Merge
    BY DEF Stepped, ClockEdge
  <2>4. QED
    BY <2>1, <2>2, <2>3 DEF Merge
<1>2. done' \in [Tag -> 0 .. 2]
  <2>1. Retire /\ done \in [Tag -> 0 .. 2]
    BY DEF Stepped, ClockEdge, TypeInv, AroundOK
  <2>2. \A t \in Tag : done[t] < 2 => done[t] + 1 \in 0 .. 2
    BY <2>1
  <2>3. QED
    BY <2>1, <2>2 DEF Retire
<1>3. mishaps' \subseteq {"uncounted", "overtaken"}
  <2>1. Remember(instr)
    BY DEF Stepped, ClockEdge
  <2> DEFINE new == {m \in {"uncounted", "overtaken"} :
                        IF m = "uncounted" THEN Uncounted(instr) ELSE Overtaken}
  <2>2. mishaps' = mishaps \cup new
    BY <2>1 DEF Remember
  <2>3. new \subseteq {"uncounted", "overtaken"}
    OBVIOUS
  <2> HIDE DEF new
  <2>4. QED
    BY <2>2, <2>3 DEF TypeInv, AroundOK
<1>4. AroundOK'
  BY <1>1, <1>2, <1>3, StepInputs, DriveStep, MemoryStep DEF AroundOK, Completion
<1>5. QED
  BY <1>4, StepQueueTypeOK, StepPath, StepEntryInv, DriveStep DEF TypeInv

-----------------------------------------------------------------------------
(* Each instruction is taken once.                                         *)

Taken == {taken[k] : k \in DOMAIN taken}

\* The tags of the requests between the queue and the L1D.
Travelling ==
    (IF Path!Held THEN {lat.tag} ELSE {}) \cup (IF Path!Waiting THEN {reg_dispatch.tag} ELSE {})

\* A tag is in one place: in the queue and to be dispatched, in the dispatch
\* register, in memory_interface, or taken.
TakenInv ==
    /\ IsInjective(taken)
    /\ Taken \subseteq 1 .. Len(program)
    /\ Travelling \subseteq (1 .. Len(program)) \ Taken
    /\ Path!Held /\ Path!Waiting => lat.tag # reg_dispatch.tag
    /\ \A s \in Slot : queue[s].valid /\ ~queue[s].dispatched /\ ~queue[s].complete =>
          queue[s].tag \notin Taken \cup Travelling

LEMMA TakenStep ==
  ASSUME TypeInv, NEW instr, NEW answered, Stepped(instr, answered)
  PROVE  /\ Taken' = IF Path!Accepts THEN Taken \cup {lat.tag} ELSE Taken
         /\ Path!Accepts => lat.tag \in Travelling
         /\ IsInjective(taken) /\ (Path!Accepts => lat.tag \notin Taken) => IsInjective(taken)'
<1>1. taken \in Seq(Tag)
  BY DEF TypeInv, AroundOK
<1>2. CASE ~Path!Accepts
  BY <1>2, MemoryStep DEF Taken
<1>3. CASE Path!Accepts
  <2>1. /\ taken' = Append(taken, lat.tag) /\ lat.tag \in Tag /\ Path!Held
    BY <1>3, MemoryStep, StepPath DEF PathMove
  <2>2. /\ Len(taken') = Len(taken) + 1 /\ taken' \in Seq(Tag)
        /\ \A k \in 1 .. Len(taken) : taken'[k] = taken[k]
        /\ taken'[Len(taken) + 1] = lat.tag
    BY <1>1, <2>1, AppendProperties
  <2>3. DOMAIN taken = 1 .. Len(taken) /\ DOMAIN taken' = 1 .. Len(taken) + 1 /\ Len(taken) \in Nat
    BY <1>1, <2>2
  <2>4. Taken' = Taken \cup {lat.tag}
    <3>1. ASSUME NEW x \in Taken'
          PROVE  x \in Taken \cup {lat.tag}
      <4>1. PICK k \in 1 .. Len(taken) + 1 : x = taken'[k]
        BY <2>3 DEF Taken
      <4>2. CASE k = Len(taken) + 1
        BY <2>2, <4>1, <4>2
      <4>3. CASE k \in 1 .. Len(taken)
        BY <2>2, <2>3, <4>1, <4>3 DEF Taken
      <4>4. QED
        BY <2>3, <4>2, <4>3
    <3>2. ASSUME NEW x \in Taken
          PROVE  x \in Taken'
      <4>1. PICK k \in 1 .. Len(taken) : x = taken[k]
        BY <2>3 DEF Taken
      <4>2. taken'[k] = x /\ k \in DOMAIN taken'
        BY <2>2, <2>3, <4>1
      <4>3. QED
        BY <4>2 DEF Taken
    <3>3. lat.tag \in Taken'
      <4>1. Len(taken) + 1 \in DOMAIN taken'
        BY <2>3
      <4>2. QED
        BY <2>2, <4>1 DEF Taken
    <3>4. QED
      BY <3>1, <3>2, <3>3
  <2>5. ASSUME IsInjective(taken), lat.tag \notin Taken
        PROVE  IsInjective(taken)'
    <3>1. \A j, k \in 1 .. Len(taken) : taken[j] = taken[k] => j = k
      BY <2>3, <2>5 DEF IsInjective
    <3>2. \A k \in 1 .. Len(taken) : taken[k] # lat.tag
      BY <2>3, <2>5 DEF Taken
    <3>3. \A j, k \in 1 .. Len(taken) + 1 : taken'[j] = taken'[k] => j = k
      BY <2>2, <2>3, <3>1, <3>2
    <3>4. QED
      BY <2>3, <3>3 DEF IsInjective
  <2>6. QED
    BY <1>3, <2>1, <2>4, <2>5 DEF Travelling
<1>4. QED
  BY <1>2, <1>3

\* What travels after an edge: what did before, less the request taken, and the
\* request loaded.
LEMMA TravelStep ==
  ASSUME TypeInv, TakenInv, NEW instr, NEW answered, Stepped(instr, answered)
  PROVE  /\ \A t \in Travelling' : t \in Travelling \/ (Path!Loads(Offer) /\ t = Offer.tag)
         /\ Path!Accepts => lat.tag \notin Travelling' \/ (Path!Loads(Offer) /\ lat.tag = Offer.tag)
         /\ Path!Held' /\ Path!Waiting' => \/ lat'.tag # reg_dispatch'.tag
                                           \/ Path!Loads(Offer) /\ Offer.tag \in Travelling
<1>1. PathMove(Offer, Given(answered))
  BY StepPath
<1>2. ASSUME NEW t \in Travelling'
      PROVE  t \in Travelling \/ (Path!Loads(Offer) /\ t = Offer.tag)
  <2>1. (Path!Held' /\ t = lat'.tag) \/ (Path!Waiting' /\ t = reg_dispatch'.tag)
    BY <1>2 DEF Travelling
  <2>2. QED
    BY <1>1, <2>1 DEF PathMove, Travelling
<1>3. ASSUME Path!Accepts
      PROVE  lat.tag \notin Travelling' \/ (Path!Loads(Offer) /\ lat.tag = Offer.tag)
  <2>1. Path!Held /\ ~Path!Held'
    BY <1>1, <1>3 DEF PathMove
  <2>2. Travelling' = IF Path!Waiting' THEN {reg_dispatch'.tag} ELSE {}
    BY <2>1 DEF Travelling
  <2>3. CASE Path!Waiting' /\ Path!Waiting /\ reg_dispatch' = reg_dispatch
    BY <2>1, <2>2, <2>3 DEF TakenInv
  <2>4. CASE Path!Waiting' /\ Path!Loads(Offer) /\ reg_dispatch' = Offer
    BY <2>2, <2>4
  <2>5. CASE ~Path!Waiting'
    BY <2>2, <2>5
  <2>6. QED
    BY <1>1, <2>3, <2>4, <2>5 DEF PathMove
<1>4. ASSUME Path!Held', Path!Waiting'
      PROVE  lat'.tag # reg_dispatch'.tag \/ (Path!Loads(Offer) /\ Offer.tag \in Travelling)
  <2>1. Path!Held /\ lat' = lat
    BY <1>1, <1>4 DEF PathMove
  <2>2. CASE Path!Waiting /\ reg_dispatch' = reg_dispatch
    BY <2>1, <2>2 DEF TakenInv
  <2>3. CASE Path!Loads(Offer) /\ reg_dispatch' = Offer
    BY <2>1, <2>3 DEF Travelling
  <2>4. QED
    BY <1>1, <1>4, <2>2, <2>3 DEF PathMove
<1>5. QED
  BY <1>2, <1>3, <1>4

\* The entry that is loaded has the only copy of its tag.
LEMMA LoadedTag ==
  ASSUME TypeInv, TakenInv, Path!Loads(Offer)
  PROVE  \E s \in Loaded : /\ s \in Slot /\ queue[s].valid /\ ~queue[s].dispatched /\ ~queue[s].complete
                           /\ Offer.tag = queue[s].tag
                           /\ Offer.tag \in (1 .. Len(program)) \ (Taken \cup Travelling)
<1>1. PICK s \in Loaded : TRUE
  BY LoadedIs
<1>2. /\ s \in Slot /\ queue[s].valid /\ ~queue[s].dispatched /\ ~queue[s].complete
      /\ Offer = [tag |-> queue[s].tag, store |-> queue[s].store,
                  addr |-> queue[s].addr, value |-> queue[s].value]
  BY <1>1, LoadedIs
<1>3. Offer.tag = queue[s].tag /\ queue[s].tag \in 1 .. Len(program)
  BY <1>2 DEF TypeInv, EntryInv
<1>4. QED
  BY <1>2, <1>3 DEF TakenInv

\* What is left to be dispatched after an edge was so before, or is new.
LEMMA UndispatchedStep ==
  ASSUME TypeInv, NEW instr, NEW answered, Stepped(instr, answered),
         NEW s \in Slot, queue'[s].valid, ~queue'[s].dispatched, ~queue'[s].complete
  PROVE  \/ queue'[s].tag = Len(program) + 1
         \/ /\ queue[s].valid /\ ~queue[s].dispatched /\ ~queue[s].complete /\ s \notin Loaded
            /\ queue'[s].tag = queue[s].tag
<1>1. EntryChange(s, queue[s], queue'[s], Loaded, instr, data_in, Reply)
  BY StepEntries
<1>2. CASE Fresh(s, instr)
  BY <1>1, <1>2, StepInputs DEF EntryChange, Fresh
<1>3. CASE ~Fresh(s, instr)
  <2>1. s \notin Revived(data_in)
    BY <1>1 DEF EntryChange
  <2>2. queue[s].valid /\ s \notin Completed /\ s \notin Forwards(Loaded)
    BY <1>1, <1>3, <2>1 DEF EntryChange
  <2>3. ~queue[s].complete /\ ~queue[s].dispatched /\ s \notin Loaded
    BY <1>1, <1>3, <2>2 DEF EntryChange
  <2>4. QED
    BY <1>1, <1>3, <2>2, <2>3 DEF EntryChange
<1>4. QED
  BY <1>2, <1>3

LEMMA StepTakenInv ==
  ASSUME TypeInv, TakenInv, NEW instr, NEW answered, Stepped(instr, answered)
  PROVE  TakenInv'
<1>1. Len(program) \in Nat /\ Len(program') \in Nat /\ Len(program) <= Len(program')
  BY StepInputs DEF TypeInv, AroundOK
<1>2. /\ Taken \subseteq 1 .. Len(program) /\ Travelling \subseteq (1 .. Len(program)) \ Taken
      /\ IsInjective(taken)
  BY DEF TakenInv
<1>3. Path!Accepts => lat.tag \in Travelling /\ lat.tag \notin Taken
  BY <1>2, TakenStep
<1>4. IsInjective(taken)'
  BY <1>2, <1>3, TakenStep
<1>5. Taken' \subseteq 1 .. Len(program')
  <2>1. \A t \in Taken' : t \in Taken \/ (Path!Accepts /\ t = lat.tag)
    BY TakenStep
  <2>2. \A t \in Taken' : t \in 1 .. Len(program)
    BY <1>2, <1>3, <2>1
  <2>3. QED
    BY <1>1, <2>2
<1>6. Path!Loads(Offer) => Offer.tag \in (1 .. Len(program)) \ (Taken \cup Travelling)
  BY LoadedTag
<1>7. ASSUME NEW t \in Travelling'
      PROVE  t \in (1 .. Len(program')) \ Taken'
  <2>1. t \in 1 .. Len(program) /\ t \notin Taken
    BY <1>2, <1>6, TravelStep
  <2>2. Path!Accepts => t # lat.tag
    BY <1>3, <1>6, TravelStep
  <2>3. QED
    BY <1>1, <2>1, <2>2, TakenStep
<1>8. (Path!Held /\ Path!Waiting => lat.tag # reg_dispatch.tag)'
  BY <1>6, TravelStep
<1>9. ASSUME NEW s \in Slot, queue'[s].valid, ~queue'[s].dispatched, ~queue'[s].complete
      PROVE  queue'[s].tag \notin Taken' \cup Travelling'
  <2>1. CASE queue'[s].tag = Len(program) + 1
    BY <1>1, <1>2, <1>3, <1>6, <2>1, TakenStep, TravelStep
  <2>2. CASE /\ queue[s].valid /\ ~queue[s].dispatched /\ ~queue[s].complete /\ s \notin Loaded
             /\ queue'[s].tag = queue[s].tag
    <3>1. queue[s].tag \notin Taken \cup Travelling
      BY <2>2 DEF TakenInv
    <3>2. Path!Loads(Offer) => Offer.tag # queue[s].tag
      BY <2>2, LoadedTag DEF TypeInv, EntryInv
    <3>3. QED
      BY <1>3, <2>2, <3>1, <3>2, TakenStep, TravelStep
  <2>3. QED
    BY <1>9, <2>1, <2>2, UndispatchedStep
<1>10. QED
  BY <1>4, <1>5, <1>7, <1>8, <1>9, StepEntries DEF TakenInv

-----------------------------------------------------------------------------
(* The answers owed.                                                       *)

\* The answers owed are to requests taken, each once.
PendingInv ==
    /\ Len(pending) <= Len(taken)
    /\ \A k \in DOMAIN pending : pending[k].tag \in Taken
    /\ \A j, k \in DOMAIN pending : pending[j].tag = pending[k].tag => j = k
    /\ mem_completion # None =>
          /\ mem_completion.tag \in Taken
          /\ \A k \in DOMAIN pending : pending[k].tag # mem_completion.tag

LEMMA StepPendingInv ==
  ASSUME TypeInv, TakenInv, PendingInv, NEW instr, NEW answered, Stepped(instr, answered)
  PROVE  PendingInv'
<1>1. Path!Accepts => l1d_req_out = lat /\ lat.tag \notin Taken /\ lat.tag \in Taken'
  <2>1. Path!Accepts => l1d_req_out = lat
    BY StepPath DEF PathMove
  <2>2. QED
    BY <2>1, TakenStep DEF TakenInv
<1>2. Taken \subseteq Taken'
  BY TakenStep
<1>3. \A k \in DOMAIN pending' :
         \/ \E j \in DOMAIN pending : answered # {j} /\ pending'[k] = pending[j]
         \/ Path!Accepts /\ pending'[k].tag = lat.tag
  BY <1>1, MemoryStep
<1>4. \A j, k \in DOMAIN pending' : pending'[j].tag = pending'[k].tag => j = k
  <2>1. \A j, k \in DOMAIN pending : pending[j].tag = pending[k].tag => j = k
    BY DEF PendingInv
  <2>2. Path!Accepts => \A j \in DOMAIN pending : pending[j].tag # l1d_req_out.tag
    BY <1>1 DEF PendingInv
  <2>3. QED
    BY <2>1, <2>2, MemoryStep
<1>5. \A k \in DOMAIN pending' : pending'[k].tag \in Taken'
  <2>1. \A k \in DOMAIN pending : pending[k].tag \in Taken
    BY DEF PendingInv
  <2>2. QED
    BY <1>1, <1>2, <1>3, <2>1
<1>6. Len(pending') <= Len(taken')
  <2>1. taken \in Seq(Tag) /\ pending \in Seq(Response) /\ Len(pending) <= Len(taken)
    BY DEF TypeInv, AroundOK, PendingInv
  <2>2. CASE Path!Accepts
    <3>1. Len(taken') = Len(taken) + 1 /\ Len(pending') <= Len(pending) + 1
      BY <2>1, <2>2, MemoryStep, AppendProperties
    <3>2. Len(pending') \in Nat /\ Len(pending) \in Nat /\ Len(taken) \in Nat
      BY <2>1, MemoryStep
    <3>3. QED
      BY <2>1, <3>1, <3>2
  <2>3. CASE ~Path!Accepts
    <3>1. Len(taken') = Len(taken) /\ Len(pending') <= Len(pending) + 0
      BY <2>3, MemoryStep
    <3>2. Len(pending') \in Nat /\ Len(pending) \in Nat /\ Len(taken) \in Nat
      BY <2>1, MemoryStep
    <3>3. QED
      BY <2>1, <3>1, <3>2
  <2>4. QED
    BY <2>2, <2>3
<1>7. ASSUME mem_completion' # None
      PROVE  /\ mem_completion'.tag \in Taken'
             /\ \A k \in DOMAIN pending' : pending'[k].tag # mem_completion'.tag
  <2>1. mem_completion' = Given(answered)
    BY StepPath DEF PathMove
  <2>2. answered # {}
    BY <1>7, <2>1 DEF Given
  <2>3. PICK a \in DOMAIN pending : answered = {a} /\ Given(answered) = pending[a]
    BY <2>2, StepInputs
  <2>4. pending[a].tag \in Taken
    BY DEF PendingInv
  <2>5. \A j \in DOMAIN pending : answered # {j} => pending[j].tag # pending[a].tag
    BY <2>3 DEF PendingInv
  <2>6. QED
    BY <1>1, <1>2, <1>3, <2>1, <2>3, <2>4, <2>5
<1>8. QED
  BY <1>4, <1>5, <1>6, <1>7 DEF PendingInv

-----------------------------------------------------------------------------
(* The slots in use, and what the processor has supplied.                  *)

\* With one instruction at a time only the last may be without its address.
ProcessorInv ==
    OneAtATime =>
        /\ sent = 1 .. Len(program) \/ (sent = 1 .. Len(program) - 1 /\ data_in = {})
        /\ \A d \in data_in : d.tag = Len(program)

\* The slots in use are among the `count' slots from the head.
RingInv ==
    "uncounted" \notin mishaps =>
        /\ tail_ptr = (head_ptr + count) % QUEUE_DEPTH
        /\ \A s \in Slot : queue[s].valid => Dist(head_ptr, s) < count

\* An instruction comes in only when the address of the last has been taken.
LEMMA IssueWhen ==
  ASSUME TypeInv, ProcessorInv, OneAtATime, NEW i, Issue(i)
  PROVE  sent = 1 .. Len(program) /\ data_in = {}
<1> DEFINE n == Len(program)
<1>1. n \in Nat
  BY DEF TypeInv, AroundOK
<1>2. Cardinality(1 .. n) = n /\ IsFiniteSet(1 .. n)
  <2>1. 1 \in Int /\ n \in Int
    BY <1>1
  <2>2. Cardinality(1 .. n) = (IF 1 > n THEN 0 ELSE n - 1 + 1) /\ IsFiniteSet(1 .. n)
    BY <2>1, FS_Interval
  <2>3. QED
    BY <1>1, <2>2
<1>3. n > 0 => Cardinality(1 .. n - 1) = n - 1
  <2>1. CASE n > 0
    <3>1. 1 \in Int /\ n - 1 \in Int /\ n - 1 >= 0
      BY <1>1, <2>1
    <3>2. Cardinality(1 .. n - 1) = IF 1 > n - 1 THEN 0 ELSE n - 1 - 1 + 1
      BY <3>1, FS_Interval
    <3>3. QED
      BY <3>1, <3>2
  <2>2. QED
    BY <2>1
<1>4. n - Cardinality(sent) + Cardinality(data_in) < 1
  BY DEF Issue, OneAtATime
<1>5. data_in # {} => Cardinality(data_in) = 1
  <2>1. ASSUME NEW d \in data_in
        PROVE  Cardinality(data_in) = 1
    <3>1. data_in = {d}
      BY DEF TypeInv, AroundOK
    <3>2. QED
      BY <3>1, FS_Singleton
  <2>2. QED
    BY <2>1
<1>6. Cardinality({}) = 0
  BY FS_EmptySet
<1> HIDE DEF n
<1>7. CASE sent = 1 .. n
  BY <1>1, <1>2, <1>4, <1>5, <1>6, <1>7 DEF n
<1>8. CASE sent = 1 .. n - 1 /\ data_in = {} /\ n > 0
  BY <1>1, <1>3, <1>4, <1>6, <1>8
<1>9. CASE sent = 1 .. n - 1 /\ data_in = {} /\ n = 0
  <2>1. 1 .. n - 1 = {} /\ 1 .. n = {}
    BY <1>9
  <2>2. QED
    BY <1>9, <2>1 DEF n
<1>10. QED
  BY <1>1, <1>7, <1>8, <1>9 DEF ProcessorInv, n

LEMMA StepProcessorInv ==
  ASSUME TypeInv, ProcessorInv, NEW instr, NEW answered, Stepped(instr, answered)
  PROVE  ProcessorInv'
<1> SUFFICES ASSUME OneAtATime
             PROVE  /\ \/ sent' = 1 .. Len(program')
                       \/ sent' = 1 .. Len(program') - 1 /\ data_in' = {}
                    /\ \A d \in data_in' : d.tag = Len(program')
  BY DEF ProcessorInv, OneAtATime
<1> DEFINE n == Len(program)
           m == Len(program')
<1>1. n \in Nat /\ m \in Nat /\ (instr = {} => m = n) /\ (instr # {} => m = n + 1)
  <2>1. program \in Seq(Instruction) /\ program' \in Seq(Instruction)
    BY StepInputs DEF TypeInv, AroundOK
  <2>2. n \in Nat /\ m \in Nat
    BY <2>1
  <2>3. (instr = {} => program' = program) /\ (instr # {} => Len(program') = Len(program) + 1)
    BY StepInputs
  <2>4. QED
    BY <2>2, <2>3
<1>2. instr # {} => sent = 1 .. n /\ data_in = {}
  BY IssueWhen DEF Stepped
<1>3. /\ sent = 1 .. n \/ (sent = 1 .. n - 1 /\ data_in = {})
      /\ \A d \in data_in : d.tag = n
  BY DEF ProcessorInv
<1>4. sent = 1 .. m \/ (sent = 1 .. m - 1 /\ data_in = {})
  BY <1>1, <1>2, <1>3
<1>5. \A d \in data_in : d.tag = m
  BY <1>1, <1>2, <1>3
<1> HIDE DEF n, m
<1>6. \/ data_in' = data_in /\ sent' = sent
      \/ data_in' = {} /\ sent' = sent
      \/ \E t \in (1 .. m) \ sent :
           sent' = sent \cup {t} /\ data_in' = {[tag |-> t, addr |-> program'[t].addr, value |-> t]}
  BY DriveStep DEF m
<1>7. ASSUME NEW t \in (1 .. m) \ sent, sent' = sent \cup {t},
             data_in' = {[tag |-> t, addr |-> program'[t].addr, value |-> t]}
      PROVE  sent' = 1 .. m /\ \A d \in data_in' : d.tag = m
  <2>1. sent = 1 .. m - 1 /\ t = m
    BY <1>1, <1>4
  <2>2. sent' = 1 .. m
    BY <1>1, <1>7, <2>1
  <2>3. QED
    BY <1>7, <2>1, <2>2
<1>8. QED
  BY <1>4, <1>5, <1>6, <1>7 DEF m

-----------------------------------------------------------------------------
(* The slots in use.                                                       *)

LEMMA RemainderOnce ==
  ASSUME NEW m \in Nat \ {0}, NEW n \in 0 .. 2 * m - 1
  PROVE  n % m = IF n < m THEN n ELSE n - m
  OBVIOUS

\* The slot n places behind slot h.
LEMMA SlotAfter ==
  ASSUME NEW m \in Nat \ {0}, NEW h \in 0 .. m - 1, NEW n \in 0 .. m
  PROVE  (h + n) % m = IF h + n < m THEN h + n ELSE h + n - m
<1> DEFINE sum == h + n
<1>1. sum \in 0 .. 2 * m - 1
  OBVIOUS
<1> HIDE DEF sum
<1>2. sum % m = IF sum < m THEN sum ELSE sum - m
  BY <1>1, RemainderOnce
<1>3. QED
  BY <1>2 DEF sum

LEMMA DistIs ==
  ASSUME QUEUE_DEPTH \in Nat \ {0}, NEW a \in Slot, NEW b \in Slot
  PROVE  Dist(a, b) = IF a <= b THEN b - a ELSE b - a + QUEUE_DEPTH
<1> DEFINE sum == b - a + QUEUE_DEPTH
<1>1. sum \in 0 .. 2 * QUEUE_DEPTH - 1
  BY DEF Slot
<1>2. Dist(a, b) = sum % QUEUE_DEPTH
  BY DEF Dist
<1> HIDE DEF sum
<1>3. sum % QUEUE_DEPTH = IF sum < QUEUE_DEPTH THEN sum ELSE sum - QUEUE_DEPTH
  BY <1>1, RemainderOnce
<1>4. QED
  BY <1>2, <1>3 DEF sum, Slot

\* What is in use after an edge is new or was in use before.
LEMMA ValidStep ==
  ASSUME TypeInv, NEW instr, NEW answered, Stepped(instr, answered), NEW s \in Slot,
         queue'[s].valid
  PROVE  Fresh(s, instr) \/ queue[s].valid
  BY StepEntries, RevivedValid DEF EntryChange, TypeInv, QueueTypeOK

LEMMA MishapsStep ==
  ASSUME NEW instr, NEW answered, Stepped(instr, answered)
  PROVE  /\ mishaps \subseteq mishaps'
         /\ Pops /\ instr # {} => "uncounted" \in mishaps'
         /\ Overtaken => "overtaken" \in mishaps'
<1>1. Remember(instr)
  BY DEF Stepped, ClockEdge
<1>2. Uncounted(instr) => "uncounted" \in mishaps'
  BY <1>1 DEF Remember
<1>3. Overtaken => "overtaken" \in mishaps'
  BY <1>1 DEF Remember
<1>4. QED
  BY <1>1, <1>2, <1>3 DEF Remember, Uncounted

LEMMA StepRingInv ==
  ASSUME TypeInv, RingInv, NEW instr, NEW answered, Stepped(instr, answered)
  PROVE  RingInv'
<1> DEFINE D == QUEUE_DEPTH
           h == head_ptr
           c == count
           sum == h + c
           next == h + 1
           g == next % D
           last == tail_ptr + 1
<1> SUFFICES ASSUME "uncounted" \notin mishaps'
             PROVE  /\ tail_ptr' = (head_ptr' + count') % D
                    /\ \A s \in Slot : queue'[s].valid => Dist(head_ptr, s)' < count'
  BY StepEntries DEF RingInv
<1>1. "uncounted" \notin mishaps /\ (instr # {} => ~Pops)
  BY MishapsStep
<1>2. D \in Nat \ {0} /\ h \in Slot /\ tail_ptr \in Slot /\ c \in 0 .. D
  BY SlotsAreNumbers DEF TypeInv, QueueTypeOK
<1>3. tail_ptr = sum % D /\ \A s \in Slot : queue[s].valid => Dist(h, s) < c
  BY <1>1 DEF RingInv
<1>4. tail_ptr = IF h + c < D THEN h + c ELSE h + c - D
  <2>1. sum % D = IF h + c < D THEN h + c ELSE h + c - D
    BY <1>2, SlotAfter DEF Slot
  <2>2. QED
    BY <1>3, <2>1
<1>5. g = IF h + 1 < D THEN h + 1 ELSE 0
  <2>1. D \in Nat \ {0} /\ h \in 0 .. D - 1 /\ 1 \in 0 .. D
    BY <1>2 DEF Slot
  <2> HIDE DEF D, h
  <2>2. (h + 1) % D = IF h + 1 < D THEN h + 1 ELSE h + 1 - D
    BY <2>1, SlotAfter
  <2>3. QED
    BY <2>1, <2>2
<1>6. QueueEdge(Loaded, instr, data_in, Reply) /\ QUEUE_DEPTH' = D
  BY StepEntries
<1>7. \A s \in Slot : Dist(h, s) = IF h <= s THEN s - h ELSE s - h + D
  BY <1>2, DistIs
<1>8. CASE Pops
  <2>1. instr = {} /\ head_ptr' = g /\ tail_ptr' = tail_ptr /\ count' = c - 1 /\ c > 0
    BY <1>1, <1>6, <1>8 DEF QueueEdge, Pops
  <2>2. g \in Slot
    BY <1>2, <1>5 DEF Slot
  <2>3. (g + (c - 1)) % D = IF g + (c - 1) < D THEN g + (c - 1) ELSE g + (c - 1) - D
    <3> DEFINE k == c - 1
    <3>1. k \in 0 .. D /\ g \in 0 .. D - 1 /\ D \in Nat \ {0}
      BY <1>2, <2>1, <2>2 DEF Slot
    <3> HIDE DEF g, D, k
    <3>2. (g + k) % D = IF g + k < D THEN g + k ELSE g + k - D
      BY <3>1, SlotAfter
    <3>3. QED
      BY <3>2 DEF k
  <2> HIDE DEF g
  <2>4. tail_ptr = IF g + (c - 1) < D THEN g + (c - 1) ELSE g + (c - 1) - D
    BY <1>2, <1>4, <1>5, <2>1 DEF Slot
  <2>5. \A s \in Slot : Dist(g, s) = IF g <= s THEN s - g ELSE s - g + D
    BY <1>2, <2>2, DistIs
  <2>6. ASSUME NEW s \in Slot, queue'[s].valid
        PROVE  Dist(g, s) < c - 1
    <3>1. queue[s].valid /\ s # h
      BY <1>8, <2>1, <2>6, ValidStep DEF Pops, Fresh
    <3>2. Dist(h, s) < c
      BY <1>3, <3>1
    <3>3. QED
      BY <1>2, <1>5, <1>7, <2>2, <2>5, <3>1, <3>2 DEF Slot
  <2>7. \A s \in Slot : Dist(head_ptr, s)' = Dist(g, s)
    BY <1>6, <2>1 DEF Dist
  <2>8. QED
    BY <2>1, <2>3, <2>4, <2>6, <2>7
<1>9. CASE ~Pops /\ instr = {}
  <2>1. head_ptr' = h /\ tail_ptr' = tail_ptr /\ count' = c
    BY <1>6, <1>9 DEF QueueEdge
  <2>2. \A s \in Slot : queue'[s].valid => queue[s].valid
    BY <1>9, ValidStep DEF Fresh
  <2>3. \A s \in Slot : Dist(head_ptr, s)' = Dist(h, s)
    BY <1>6, <2>1 DEF Dist
  <2>4. QED
    BY <1>3, <2>1, <2>2, <2>3
<1>10. CASE ~Pops /\ instr # {}
  <2>1. head_ptr' = h /\ tail_ptr' = last % D /\ count' = c + 1
    BY <1>6, <1>10 DEF QueueEdge
  <2>2. c < D
    <3>1. c # D
      BY <1>10, StepInputs DEF full_out
    <3>2. QED
      BY <1>2, <3>1
  <2>3. last % D = IF tail_ptr + 1 < D THEN tail_ptr + 1 ELSE tail_ptr + 1 - D
    <3>1. D \in Nat \ {0} /\ tail_ptr \in 0 .. D - 1 /\ 1 \in 0 .. D
      BY <1>2 DEF Slot
    <3> HIDE DEF D
    <3>2. (tail_ptr + 1) % D = IF tail_ptr + 1 < D THEN tail_ptr + 1 ELSE tail_ptr + 1 - D
      BY <3>1, SlotAfter
    <3>3. QED
      BY <3>2
  <2>4. (h + (c + 1)) % D = IF h + (c + 1) < D THEN h + (c + 1) ELSE h + (c + 1) - D
    <3>1. c + 1 \in 0 .. D
      BY <1>2, <2>2
    <3>2. QED
      BY <1>2, <3>1, SlotAfter DEF Slot
  <2> HIDE DEF last, h, c, D
  <2>5. last % D = (h + (c + 1)) % D
    BY <1>2, <1>4, <2>2, <2>3, <2>4 DEF Slot, D
  <2>6. ASSUME NEW s \in Slot, queue'[s].valid
        PROVE  Dist(h, s) < c + 1
    <3>1. CASE s = tail_ptr
      BY <1>2, <1>4, <1>7, <2>2, <3>1 DEF Slot, D
    <3>2. CASE s # tail_ptr
      <4>1. Dist(h, s) < c
        BY <1>3, <2>6, <3>2, ValidStep DEF Fresh
      <4>2. Dist(h, s) \in Int
        BY <1>2, <1>7 DEF Slot, D
      <4>3. QED
        BY <1>2, <4>1, <4>2
    <3>3. QED
      BY <3>1, <3>2
  <2>7. \A s \in Slot : Dist(head_ptr, s)' = Dist(h, s)
    BY <1>6, <2>1 DEF Dist, D, h
  <2>8. QED
    BY <2>1, <2>5, <2>6, <2>7 DEF h, c
<1>11. QED
  BY <1>8, <1>9, <1>10

\* Where the count is right, an instruction comes into a slot that is free.
LEMMA TailFree ==
  ASSUME TypeInv, RingInv, "uncounted" \notin mishaps, ~full_out
  PROVE  ~queue[tail_ptr].valid
<1> DEFINE sum == head_ptr + count
<1>1. /\ QUEUE_DEPTH \in Nat \ {0} /\ head_ptr \in Slot /\ tail_ptr \in Slot
      /\ count \in 0 .. QUEUE_DEPTH /\ count # QUEUE_DEPTH
  BY SlotsAreNumbers DEF TypeInv, QueueTypeOK, full_out
<1>2. tail_ptr = sum % QUEUE_DEPTH
  BY DEF RingInv
<1>3. sum % QUEUE_DEPTH = IF head_ptr + count < QUEUE_DEPTH THEN head_ptr + count
                          ELSE head_ptr + count - QUEUE_DEPTH
  BY <1>1, SlotAfter DEF Slot
<1> HIDE DEF sum
<1>4. Dist(head_ptr, tail_ptr) = IF head_ptr <= tail_ptr THEN tail_ptr - head_ptr
                                 ELSE tail_ptr - head_ptr + QUEUE_DEPTH
  BY <1>1, DistIs
<1>5. Dist(head_ptr, tail_ptr) = count
  BY <1>1, <1>2, <1>3, <1>4 DEF Slot
<1>6. QED
  BY <1>1, <1>5 DEF RingInv

-----------------------------------------------------------------------------
(* What the unit keeps for an instruction is what the processor supplied.  *)

\* Request r is what the program says of its tag, whose address was supplied.
GoodIn(r, s, p) ==
    /\ r.tag \in s
    /\ r.store <=> p[r.tag].store
    /\ r.addr = p[r.tag].addr
    /\ r.store => r.value = r.tag

Good(r) == GoodIn(r, sent, program)

\* No entry is another instruction's than the one whose data it holds.
Orderly == OneAtATime \/ "uncounted" \notin mishaps

IntegrityInv ==
    Orderly =>
        /\ \A s \in Slot : queue[s].valid /\ queue[s].ea_resolved => Good(queue[s])
        /\ reg_dispatch # None => Good(reg_dispatch)
        /\ lat # None => Good(lat)
        /\ l1d_req_out # None => Good(l1d_req_out)
        /\ Taken \subseteq sent

\* A slot that takes an instruction is not one that data arrives for.
LEMMA FreshApart ==
  ASSUME TypeInv, ProcessorInv, RingInv, Orderly, NEW instr, NEW answered,
         Stepped(instr, answered), NEW s \in Slot, Fresh(s, instr)
  PROVE  s \notin DataTargets(data_in) /\ s \notin Revived(data_in)
<1>1. CASE OneAtATime
  <2>1. data_in = {}
    BY <1>1, IssueWhen DEF Stepped, Fresh
  <2>2. DataTargets(data_in) = {}
    BY <2>1, TargetsValid DEF TypeInv, QueueTypeOK
  <2>3. QED
    BY <2>1, <2>2 DEF Revived
<1>2. CASE "uncounted" \notin mishaps
  <2>1. ~queue[s].valid
    BY <1>2, TailFree, StepInputs DEF Fresh
  <2>2. QED
    BY <2>1, TargetsValid, RevivedValid DEF TypeInv, QueueTypeOK
<1>3. QED
  BY <1>1, <1>2 DEF Orderly

\* What is supplied stays so.
LEMMA StaysGood ==
  ASSUME TypeInv, NEW instr, NEW answered, Stepped(instr, answered)
  PROVE  \A r : GoodIn(r, sent, program) => GoodIn(r, sent', program')
<1>1. sent \subseteq sent' /\ \A t \in 1 .. Len(program) : program'[t] = program[t]
  BY DriveStep, StepInputs
<1>2. sent \subseteq 1 .. Len(program)
  BY DEF TypeInv, AroundOK
<1>3. \A t \in sent : program'[t] = program[t] /\ t \in sent'
  BY <1>1, <1>2
<1>4. QED
  BY <1>3 DEF GoodIn

LEMMA StepIntegrityInv ==
  ASSUME TypeInv, ProcessorInv, RingInv, IntegrityInv, NEW instr, NEW answered,
         Stepped(instr, answered)
  PROVE  IntegrityInv'
<1> SUFFICES ASSUME Orderly'
             PROVE  /\ \A s \in Slot : queue'[s].valid /\ queue'[s].ea_resolved =>
                          GoodIn(queue'[s], sent', program')
                    /\ reg_dispatch' # None => GoodIn(reg_dispatch', sent', program')
                    /\ lat' # None => GoodIn(lat', sent', program')
                    /\ l1d_req_out' # None => GoodIn(l1d_req_out', sent', program')
                    /\ Taken' \subseteq sent'
  BY StepEntries DEF IntegrityInv, Good
<1>1. Orderly
  BY MishapsStep DEF Orderly, OneAtATime
<1>2. /\ \A s \in Slot : queue[s].valid /\ queue[s].ea_resolved => GoodIn(queue[s], sent, program)
      /\ reg_dispatch # None => GoodIn(reg_dispatch, sent, program)
      /\ lat # None => GoodIn(lat, sent, program)
      /\ l1d_req_out # None => GoodIn(l1d_req_out, sent, program)
      /\ Taken \subseteq sent
  BY <1>1 DEF IntegrityInv, Good
<1>3. \A r : GoodIn(r, sent, program) => GoodIn(r, sent', program')
  BY StaysGood
<1>4. ASSUME NEW s \in Slot, queue'[s].valid, queue'[s].ea_resolved
      PROVE  GoodIn(queue'[s], sent', program')
  <2> DEFINE e == queue[s]
             f == queue'[s]
  <2>1. EntryChange(s, e, f, Loaded, instr, data_in, Reply)
    BY StepEntries
  <2>2. ~Fresh(s, instr)
    BY <1>1, <1>4, <2>1, FreshApart DEF EntryChange
  <2>3. e.valid /\ f.tag = e.tag /\ (f.store <=> e.store)
    BY <1>4, <2>1, <2>2, ValidStep DEF EntryChange
  <2>4. CASE s \in DataTargets(data_in)
    <3>1. PICK d \in data_in : d.tag = e.tag
      BY <2>4, TargetsValid DEF TypeInv, QueueTypeOK
    <3>2. d.tag \in sent /\ d.addr = program[d.tag].addr /\ d.value = d.tag
      BY DEF TypeInv, DriveInv, AroundOK
    <3>3. f.addr = d.addr /\ (e.store => f.value = d.value)
      BY <2>1, <2>4 DEF EntryChange
    <3>4. e.store <=> program[e.tag].store
      BY <2>3 DEF TypeInv, EntryInv
    <3> HIDE DEF e, f
    <3>5. GoodIn(f, sent, program)
      BY <2>3, <3>1, <3>2, <3>3, <3>4 DEF GoodIn
    <3>6. QED
      BY <1>3, <3>5 DEF f
  <2>5. CASE s \notin DataTargets(data_in)
    <3>1. e.ea_resolved /\ f.addr = e.addr /\ (e.store => f.value = e.value)
      BY <1>4, <2>1, <2>2, <2>5 DEF EntryChange
    <3>2. GoodIn(e, sent, program)
      BY <1>2, <2>3, <3>1
    <3> HIDE DEF e, f
    <3>3. GoodIn(f, sent, program)
      BY <2>3, <3>1, <3>2 DEF GoodIn
    <3>4. QED
      BY <1>3, <3>3 DEF f
  <2>6. QED
    BY <2>4, <2>5
<1>5. Offer # None => GoodIn(Offer, sent, program)
  <2>1. ASSUME Offer # None
        PROVE  GoodIn(Offer, sent, program)
    <3>1. PICK s \in Candidate : TRUE
      BY <2>1, OfferIs
    <3>2. queue[s].valid /\ queue[s].ea_resolved /\ s \in Slot
      BY <3>1, CandidateIs DEF TypeInv
    <3>3. Offer = [tag |-> queue[s].tag, store |-> queue[s].store,
                   addr |-> queue[s].addr, value |-> queue[s].value]
      BY <3>1, OfferIs
    <3>4. GoodIn(queue[s], sent, program)
      BY <1>2, <3>2
    <3>5. QED
      BY <3>3, <3>4 DEF GoodIn
  <2>2. QED
    BY <2>1
<1>6. PathMove(Offer, Given(answered))
  BY StepPath
<1>7. reg_dispatch' # None => GoodIn(reg_dispatch', sent', program')
  BY <1>2, <1>3, <1>5, <1>6 DEF PathMove
<1>8. lat' # None => GoodIn(lat', sent', program')
  BY <1>2, <1>3, <1>6 DEF PathMove
<1>9. l1d_req_out' # None => GoodIn(l1d_req_out', sent', program')
  BY <1>2, <1>3, <1>6 DEF PathMove
<1>10. Taken' \subseteq sent'
  <2>1. Path!Accepts => lat \in Request /\ lat # None
    BY <1>6, LsuAssumption DEF PathMove
  <2>2. Path!Accepts => lat.tag \in sent
    BY <1>2, <2>1 DEF GoodIn
  <2>3. sent \subseteq sent'
    BY DriveStep
  <2>4. QED
    BY <1>2, <2>2, <2>3, TakenStep
<1>11. QED
  BY <1>4, <1>7, <1>8, <1>9, <1>10

LEMMA IntegrityHolds ==
  ASSUME TypeInv, IntegrityInv
  PROVE  RequestIntegrity
<1> SUFFICES ASSUME Orderly, l1d_valid_out
             PROVE  LET r == l1d_req_out
                        p == program[r.tag]
                    IN  r.tag \in sent /\ r.store = p.store /\ r.addr = p.addr
                        /\ (r.store => r.value = r.tag)
  BY DEF RequestIntegrity, Orderly
<1>1. l1d_req_out \in Request
  BY PathTypes DEF TypeInv, PathInv, PathProofs!IInv, PathProofs!PortInv, PathProofs!Held, PathProofs!Waiting
<1>2. GoodIn(l1d_req_out, sent, program)
  BY <1>1, LsuAssumption DEF IntegrityInv, Good
<1>3. l1d_req_out.store \in BOOLEAN
  BY <1>1 DEF Request
<1>4. program[l1d_req_out.tag].store \in BOOLEAN
  <2>1. l1d_req_out.tag \in 1 .. Len(program)
    <3>1. l1d_req_out.tag \in sent
      BY <1>2 DEF GoodIn
    <3>2. sent \subseteq 1 .. Len(program)
      BY DEF TypeInv, AroundOK
    <3>3. QED
      BY <3>1, <3>2
  <2>2. program[l1d_req_out.tag] \in Instruction
    BY <2>1 DEF TypeInv, AroundOK
  <2>3. QED
    BY <2>2 DEF Instruction
<1>5. QED
  BY <1>2, <1>3, <1>4 DEF GoodIn

-----------------------------------------------------------------------------
(* One instruction at a time: where the address is missing.                *)

\* lsu_driver's protocol, and every insertion counted.
Protocol == OneAtATime /\ "uncounted" \notin mishaps

LastSlot(s) == tail_ptr = (s + 1) % QUEUE_DEPTH

\* Only the last instruction may be without its address; if that is on its way,
\* it is on the data interface.
AddressInv ==
    Protocol =>
        \A s \in Slot : queue[s].valid /\ ~queue[s].ea_resolved =>
            /\ queue[s].tag = Len(program)
            /\ queue[s].tag \in sent => \E d \in data_in : d.tag = queue[s].tag
            /\ LastSlot(s)

LEMMA TargetsExist ==
  ASSUME QUEUE_DEPTH \in Depths, NEW data, NEW s \in Slot, queue[s].valid, ~queue[s].ea_resolved,
         \E d \in data : d.tag = queue[s].tag
  PROVE  DataTargets(data) # {}
<1> DEFINE S == {u \in Slot : /\ queue[u].valid /\ ~queue[u].ea_resolved
                              /\ \E d \in data : d.tag = queue[u].tag}
<1>1. S \in SUBSET Nat
  BY SlotsAreNumbers
<1>2. s \in S
  OBVIOUS
<1>3. DataTargets(data) = Lowest(S)
  BY DEF DataTargets
<1> HIDE DEF S
<1>4. QED
  BY <1>1, <1>2, <1>3, LowestIn

LEMMA ProtocolStep ==
  ASSUME NEW instr, NEW answered, Stepped(instr, answered), Protocol'
  PROVE  Protocol /\ Orderly /\ (instr # {} => ~Pops)
  BY MishapsStep DEF Protocol, Orderly, OneAtATime

LEMMA StepAddressInv ==
  ASSUME TypeInv, ProcessorInv, RingInv, AddressInv, NEW instr, NEW answered,
         Stepped(instr, answered)
  PROVE  AddressInv'
<1> SUFFICES ASSUME Protocol', NEW s \in Slot, queue'[s].valid, ~queue'[s].ea_resolved
             PROVE  /\ queue'[s].tag = Len(program')
                    /\ queue'[s].tag \in sent' => \E d \in data_in' : d.tag = queue'[s].tag
                    /\ tail_ptr' = (s + 1) % QUEUE_DEPTH
  BY StepEntries DEF AddressInv, LastSlot
<1> DEFINE n == Len(program)
           m == Len(program')
<1>1. Protocol /\ OneAtATime
  BY ProtocolStep DEF Protocol
<1>2. n \in Nat /\ (instr = {} => m = n) /\ (instr # {} => m = n + 1)
  <2>1. program \in Seq(Instruction)
    BY DEF TypeInv, AroundOK
  <2>2. n \in Nat
    BY <2>1
  <2>3. (instr = {} => program' = program) /\ (instr # {} => Len(program') = Len(program) + 1)
    BY StepInputs
  <2>4. QED
    BY <2>2, <2>3
<1>3. instr # {} => sent = 1 .. n /\ data_in = {}
  BY <1>1, IssueWhen DEF Stepped
<1>4. /\ EntryChange(s, queue[s], queue'[s], Loaded, instr, data_in, Reply)
      /\ QueueEdge(Loaded, instr, data_in, Reply)
  BY StepEntries
<1>5. \/ data_in' = data_in /\ sent' = sent
      \/ data_in' = {} /\ sent' = sent
      \/ \E t \in (1 .. m) \ sent :
           sent' = sent \cup {t} /\ data_in' = {[tag |-> t, addr |-> program'[t].addr, value |-> t]}
  BY DriveStep
<1>6. \A t : t \notin sent /\ t \in sent' => \E d \in data_in' : d.tag = t
  <2>1. ASSUME NEW t, t \notin sent, t \in sent'
        PROVE  \E d \in data_in' : d.tag = t
    <3>1. PICK u \in (1 .. m) \ sent :
            sent' = sent \cup {u} /\ data_in' = {[tag |-> u, addr |-> program'[u].addr, value |-> u]}
      BY <1>5, <2>1
    <3>2. t = u
      BY <2>1, <3>1
    <3>3. QED
      BY <3>1, <3>2
  <2>2. QED
    BY <2>1
<1>7. CASE Fresh(s, instr)
  <2>1. queue'[s].tag = m
    BY <1>4, <1>7, StepInputs DEF EntryChange, Fresh
  <2>2. m \notin sent
    BY <1>2, <1>3, <1>7 DEF Fresh
  <2>3. m \in sent' => \E d \in data_in' : d.tag = m
    BY <1>6, <2>2
  <2>4. tail_ptr' = (s + 1) % QUEUE_DEPTH
    BY <1>4, <1>7 DEF QueueEdge, Fresh
  <2>5. QED
    BY <2>1, <2>3, <2>4
<1>8. CASE ~Fresh(s, instr)
  <2>1. /\ queue[s].valid /\ ~queue[s].ea_resolved /\ s \notin DataTargets(data_in)
        /\ queue'[s].tag = queue[s].tag
    BY <1>4, <1>8, ValidStep DEF EntryChange
  <2>2. /\ queue[s].tag = n
        /\ queue[s].tag \in sent => \E d \in data_in : d.tag = queue[s].tag
        /\ tail_ptr = (s + 1) % QUEUE_DEPTH
    BY <1>1, <2>1 DEF AddressInv, LastSlot
  <2>3. queue[s].tag \notin sent
    <3>1. ASSUME queue[s].tag \in sent
          PROVE  FALSE
      <4>1. \E d \in data_in : d.tag = queue[s].tag
        BY <2>2, <3>1
      <4>2. PICK u \in DataTargets(data_in) : TRUE
        BY <2>1, <4>1, TargetsExist DEF TypeInv, QueueTypeOK
      <4>3. u \in Slot /\ queue[u].valid /\ \E d \in data_in : d.tag = queue[u].tag
        BY TargetsValid DEF TypeInv, QueueTypeOK
      <4>4. queue[u].tag = queue[s].tag
        BY <4>1, <4>3, StepInputs DEF Optional
      <4>5. u = s
        BY <2>1, <4>3, <4>4 DEF TypeInv, EntryInv
      <4>6. QED
        BY <2>1, <4>2, <4>5
    <3>2. QED
      BY <3>1
  <2>4. instr = {}
    <3>1. queue[s].tag \in 1 .. n
      BY <2>1 DEF TypeInv, EntryInv
    <3>2. QED
      BY <1>3, <2>3, <3>1
  <2>5. tail_ptr' = tail_ptr
    BY <1>4, <2>4 DEF QueueEdge
  <2>6. queue[s].tag \in sent' => \E d \in data_in' : d.tag = queue[s].tag
    BY <1>6, <2>3
  <2>7. QED
    BY <1>2, <2>1, <2>2, <2>4, <2>5, <2>6
<1>9. QED
  BY <1>7, <1>8

-----------------------------------------------------------------------------
(* One instruction at a time: what completes inside the queue.             *)

AtHeadOfFull(s) == s = head_ptr /\ count = QUEUE_DEPTH

\* Data completes the entry it is for, in the last slot, and the one at the head
\* of a full ring; no address is missing until both have been reported.
FinishedInv ==
    Protocol =>
        /\ \A s \in Slot : queue[s].complete =>
              queue[s].valid /\ queue[s].ea_resolved /\ (LastSlot(s) \/ AtHeadOfFull(s))
        /\ \A s \in Slot : queue[s].valid /\ queue[s].dispatched => queue[s].ea_resolved
        /\ \A s, u \in Slot : queue[s].complete /\ queue[u].valid => queue[u].ea_resolved
        /\ \A s \in Slot : queue[s].complete /\ queue[s].dispatched => queue[s].tag \notin Taken
        /\ \A s, u \in Slot : queue[s].complete /\ queue[u].complete /\ s # u /\ queue[s].dispatched =>
              Path!Waiting /\ reg_dispatch.tag = queue[s].tag

LEMMA NextSlot ==
  ASSUME QUEUE_DEPTH \in Nat \ {0}, NEW s \in Slot
  PROVE  /\ (s + 1) % QUEUE_DEPTH = IF s + 1 < QUEUE_DEPTH THEN s + 1 ELSE 0
         /\ (s + 1) % QUEUE_DEPTH \in Slot
<1> DEFINE D == QUEUE_DEPTH
<1>1. D \in Nat \ {0} /\ s \in 0 .. D - 1 /\ 1 \in 0 .. D
  BY DEF Slot
<1> HIDE DEF D
<1>2. (s + 1) % D = IF s + 1 < D THEN s + 1 ELSE s + 1 - D
  BY <1>1, SlotAfter
<1>3. (s + 1) % D = IF s + 1 < D THEN s + 1 ELSE 0
  BY <1>1, <1>2
<1>4. QED
  BY <1>1, <1>3 DEF D, Slot

\* Only one slot is the last.
LEMMA LastIsOne ==
  ASSUME QUEUE_DEPTH \in Nat \ {0}, NEW s \in Slot, NEW u \in Slot, LastSlot(s), LastSlot(u)
  PROVE  s = u
<1>1. /\ tail_ptr = IF s + 1 < QUEUE_DEPTH THEN s + 1 ELSE 0
      /\ tail_ptr = IF u + 1 < QUEUE_DEPTH THEN u + 1 ELSE 0
  BY NextSlot DEF LastSlot
<1>2. QED
  BY <1>1 DEF Slot

\* A load in use that counts as younger than the last entry is the one at the
\* head of a full ring.
LEMMA YoungerThanLast ==
  ASSUME TypeInv, RingInv, "uncounted" \notin mishaps, NEW t \in Slot, LastSlot(t),
         NEW s \in Slot, queue[s].valid, is_younger(s, t)
  PROVE  AtHeadOfFull(s)
<1> DEFINE D == QUEUE_DEPTH
           sum == head_ptr + count
<1>1. /\ D \in Nat \ {0} /\ D > 1 /\ head_ptr \in Slot /\ tail_ptr \in Slot /\ count \in 0 .. D
  BY SlotsAreNumbers DEF TypeInv, QueueTypeOK
<1>2. tail_ptr = IF t + 1 < D THEN t + 1 ELSE 0
  BY <1>1, NextSlot DEF LastSlot
<1>3. Dist(t, tail_ptr) = 1 /\ t # tail_ptr
  <2>1. Dist(t, tail_ptr) = IF t <= tail_ptr THEN tail_ptr - t ELSE tail_ptr - t + D
    BY <1>1, DistIs
  <2>2. QED
    BY <1>1, <1>2, <2>1 DEF Slot
<1>4. s # t /\ Dist(t, s) <= 1
  BY <1>3 DEF is_younger, Walk
<1>5. Dist(t, s) = IF t <= s THEN s - t ELSE s - t + D
  BY <1>1, DistIs
<1>6. s = tail_ptr
  BY <1>1, <1>2, <1>4, <1>5 DEF Slot
<1>7. Dist(head_ptr, s) < count /\ tail_ptr = sum % D
  BY DEF RingInv
<1>8. sum % D = IF head_ptr + count < D THEN head_ptr + count ELSE head_ptr + count - D
  BY <1>1, SlotAfter DEF Slot
<1> HIDE DEF sum
<1>9. Dist(head_ptr, s) = IF head_ptr <= s THEN s - head_ptr ELSE s - head_ptr + D
  BY <1>1, DistIs
<1>10. QED
  BY <1>1, <1>6, <1>7, <1>8, <1>9 DEF Slot, AtHeadOfFull

\* Data that completes an entry is for the last one, and comes without an
\* instruction; no entry was complete.
LEMMA RevivedIs ==
  ASSUME TypeInv, ProcessorInv, RingInv, AddressInv, FinishedInv, Protocol,
         NEW instr, NEW answered, Stepped(instr, answered), NEW s \in Revived(data_in)
  PROVE  /\ s \in Slot /\ queue[s].valid /\ ~queue[s].dispatched /\ instr = {}
         /\ s \in DataTargets(data_in) \/ queue[s].ea_resolved
         /\ LastSlot(s) \/ AtHeadOfFull(s)
         /\ \A u \in Slot : ~queue[u].complete
         /\ \A u \in Slot : queue[u].valid => u \in DataTargets(data_in) \/ queue[u].ea_resolved
<1>1. /\ s \in Slot /\ queue[s].valid
      /\ s \notin DataTargets(data_in) => ~queue[s].store /\ queue[s].ea_resolved /\ ~queue[s].dispatched
      /\ QUEUE_DEPTH \in Depths
  BY RevivedValid DEF TypeInv, QueueTypeOK
<1>2. PICK t \in DataTargets(data_in) :
         s = t \/ \E d \in data_in : s \in WaitingLoads(t, d.addr)
  BY DEF Revived
<1>3. t \in Slot /\ queue[t].valid /\ ~queue[t].ea_resolved /\ data_in # {}
  BY <1>1, TargetsValid
<1>4. LastSlot(t) /\ queue[t].tag = Len(program)
  BY <1>3 DEF AddressInv
<1>5. s # t => AtHeadOfFull(s)
  <2>1. s # t => is_younger(s, t)
    BY <1>2 DEF WaitingLoads
  <2>2. QED
    BY <1>1, <1>3, <1>4, <2>1, YoungerThanLast DEF Protocol
<1>6. instr = {}
  BY <1>3, IssueWhen DEF Stepped, Protocol
<1>7. s = t => ~queue[s].dispatched
  BY <1>3 DEF FinishedInv
<1>8. \A u \in Slot : ~queue[u].complete
  BY <1>3 DEF FinishedInv
<1>9. ASSUME NEW u \in Slot, queue[u].valid, ~queue[u].ea_resolved
      PROVE  u \in DataTargets(data_in)
  <2>1. queue[u].tag = queue[t].tag
    BY <1>4, <1>9 DEF AddressInv
  <2>2. QED
    BY <1>2, <1>3, <1>9, <2>1 DEF TypeInv, EntryInv
<1>10. \A u \in DataTargets(data_in) : u = t
  BY <1>1, TargetsValid
<1>11. s = t \/ s \notin DataTargets(data_in)
  BY <1>10
<1>12. QED
  BY <1>1, <1>2, <1>4, <1>5, <1>6, <1>7, <1>8, <1>9, <1>11

\* An answer frees no entry that is complete, or completes on the same edge.
LEMMA HitIs ==
  ASSUME TypeInv, ProcessorInv, RingInv, AddressInv, FinishedInv, PendingInv, Protocol,
         NEW instr, NEW answered, Stepped(instr, answered), NEW s \in Hit(Reply)
  PROVE  s \in Slot /\ ~queue[s].complete /\ s \notin Revived(data_in)
<1>1. /\ s \in Slot /\ queue[s].valid /\ queue[s].dispatched
      /\ \E r \in Reply : r.tag = queue[s].tag
  BY HitValid DEF TypeInv, QueueTypeOK
<1>2. queue[s].tag \in Taken
  BY <1>1 DEF Reply, PendingInv
<1>3. QED
  BY <1>1, <1>2, RevivedIs DEF FinishedInv

\* What is complete after an edge was completed by it, or was complete and had
\* to wait for another to be reported.
CompleteBefore(s) ==
    \/ s \in Revived(data_in)
    \/ /\ queue[s].complete /\ s \notin Loaded /\ s \notin Completed
       /\ \E u \in Completed : u \in Slot /\ u # s /\ queue[u].complete
       /\ Revived(data_in) = {}

LEMMA CompleteStep ==
  ASSUME TypeInv, ProcessorInv, RingInv, AddressInv, FinishedInv, PendingInv, Protocol,
         NEW instr, NEW answered, Stepped(instr, answered), NEW s \in Slot, queue'[s].complete
  PROVE  /\ instr = {} /\ queue[s].valid /\ queue'[s].valid
         /\ queue'[s].tag = queue[s].tag
         /\ queue'[s].ea_resolved
         /\ queue'[s].dispatched <=> (queue[s].dispatched \/ (s \in Loaded /\ s \notin Forwards(Loaded)))
         /\ LastSlot(s) \/ AtHeadOfFull(s)
         /\ CompleteBefore(s)
<1> DEFINE e == queue[s]
           f == queue'[s]
<1>1. EntryChange(s, e, f, Loaded, instr, data_in, Reply)
  BY StepEntries
<1>2. s \in Revived(data_in) \/ (queue[s].complete /\ s \notin Completed)
  BY <1>1 DEF EntryChange
<1>3. CASE s \in Revived(data_in)
  <2>1. /\ e.valid /\ ~e.dispatched /\ instr = {}
        /\ s \in DataTargets(data_in) \/ e.ea_resolved
        /\ LastSlot(s) \/ AtHeadOfFull(s)
    BY <1>3, RevivedIs
  <2>2. s \notin Hit(Reply)
    BY <1>3, HitIs
  <2>3. ~Fresh(s, instr)
    BY <2>1 DEF Fresh
  <2>4. f.valid /\ f.tag = e.tag /\ f.ea_resolved
        /\ (f.dispatched <=> (e.dispatched \/ (s \in Loaded /\ s \notin Forwards(Loaded))))
    BY <1>1, <1>3, <2>1, <2>2, <2>3 DEF EntryChange
  <2>5. QED
    BY <1>3, <2>1, <2>4 DEF CompleteBefore
<1>4. CASE s \notin Revived(data_in)
  <2>1. e.complete /\ s \notin Completed
    BY <1>2, <1>4
  <2>2. e.valid /\ e.ea_resolved /\ (LastSlot(s) \/ AtHeadOfFull(s))
    BY <2>1 DEF FinishedInv
  <2>3. PICK u \in Completed : TRUE
    BY <2>1, <2>2, CompletedIs DEF TypeInv
  <2>4. u \in Slot /\ queue[u].complete /\ u # s
    BY <2>1, CompletedIs DEF TypeInv
  <2>5. LastSlot(u) \/ AtHeadOfFull(u)
    BY <2>4 DEF FinishedInv
  <2>6. count = QUEUE_DEPTH
    BY <2>2, <2>4, <2>5, SlotsAreNumbers, LastIsOne DEF AtHeadOfFull, TypeInv, QueueTypeOK
  <2>7. instr = {}
    BY <2>6, StepInputs DEF full_out
  <2>8. s \notin Loaded /\ s \notin Forwards(Loaded)
    BY <2>1, LoadedIs DEF Forwards
  <2>9. s \notin Hit(Reply)
    BY <2>1, HitIs
  <2>10. Revived(data_in) = {}
    BY <2>1, RevivedIs
  <2>11. f.valid /\ f.tag = e.tag /\ f.ea_resolved
         /\ (f.dispatched <=> (e.dispatched \/ (s \in Loaded /\ s \notin Forwards(Loaded))))
    BY <1>1, <2>1, <2>2, <2>7, <2>8, <2>9 DEF EntryChange, Fresh
  <2>12. QED
    BY <2>1, <2>2, <2>3, <2>4, <2>7, <2>8, <2>10, <2>11 DEF CompleteBefore
<1>5. QED
  BY <1>3, <1>4

LEMMA StepFinishedInv ==
  ASSUME TypeInv, ProcessorInv, RingInv, AddressInv, TakenInv, PendingInv, FinishedInv,
         NEW instr, NEW answered, Stepped(instr, answered)
  PROVE  FinishedInv'
<1> SUFFICES ASSUME Protocol'
             PROVE  /\ \A s \in Slot : queue'[s].complete =>
                          queue'[s].valid /\ queue'[s].ea_resolved
                          /\ (LastSlot(s)' \/ AtHeadOfFull(s)')
                    /\ \A s \in Slot : queue'[s].valid /\ queue'[s].dispatched => queue'[s].ea_resolved
                    /\ \A s, u \in Slot : queue'[s].complete /\ queue'[u].valid => queue'[u].ea_resolved
                    /\ \A s \in Slot : queue'[s].complete /\ queue'[s].dispatched =>
                          queue'[s].tag \notin Taken'
                    /\ \A s, u \in Slot :
                          queue'[s].complete /\ queue'[u].complete /\ s # u /\ queue'[s].dispatched =>
                          Path!Waiting' /\ reg_dispatch'.tag = queue'[s].tag
  BY StepEntries DEF FinishedInv, LastSlot, AtHeadOfFull
<1>1. Protocol /\ Orderly
  BY ProtocolStep
<1>2. QueueEdge(Loaded, instr, data_in, Reply) /\ Slot' = Slot /\ QUEUE_DEPTH' = QUEUE_DEPTH
  BY StepEntries
<1>3. \A s \in Slot : queue'[s].complete =>
        /\ instr = {} /\ queue[s].valid /\ queue'[s].valid
        /\ queue'[s].tag = queue[s].tag
        /\ queue'[s].ea_resolved
        /\ queue'[s].dispatched <=> (queue[s].dispatched \/ (s \in Loaded /\ s \notin Forwards(Loaded)))
        /\ LastSlot(s) \/ AtHeadOfFull(s)
        /\ CompleteBefore(s)
  BY <1>1, CompleteStep
<1>4. ASSUME NEW s \in Slot, queue'[s].complete
      PROVE  LastSlot(s)' \/ AtHeadOfFull(s)'
  <2>1. instr = {} /\ queue[s].valid /\ (LastSlot(s) \/ AtHeadOfFull(s))
    BY <1>3, <1>4
  <2>2. tail_ptr' = tail_ptr
    BY <1>2, <2>1 DEF QueueEdge
  <2>3. AtHeadOfFull(s) => ~Pops
    BY <2>1 DEF AtHeadOfFull, Pops
  <2>4. ~Pops => head_ptr' = head_ptr /\ count' = count
    BY <1>2, <2>1 DEF QueueEdge
  <2>5. QED
    BY <1>2, <2>1, <2>2, <2>3, <2>4 DEF LastSlot, AtHeadOfFull
<1>5. ASSUME NEW s \in Slot, queue'[s].valid, queue'[s].dispatched
      PROVE  queue'[s].ea_resolved
  <2>1. EntryChange(s, queue[s], queue'[s], Loaded, instr, data_in, Reply)
    BY StepEntries
  <2>2. ~Fresh(s, instr) /\ queue[s].valid /\ (queue[s].dispatched \/ s \in Loaded)
    BY <1>5, <2>1, ValidStep DEF EntryChange
  <2>3. queue[s].ea_resolved
    BY <1>1, <2>2, LoadedIs DEF FinishedInv
  <2>4. QED
    BY <2>1, <2>2, <2>3 DEF EntryChange
<1>6. ASSUME NEW s \in Slot, NEW u \in Slot, queue'[s].complete, queue'[u].valid
      PROVE  queue'[u].ea_resolved
  <2>1. EntryChange(u, queue[u], queue'[u], Loaded, instr, data_in, Reply)
    BY StepEntries
  <2>2. instr = {} /\ CompleteBefore(s)
    BY <1>3, <1>6
  <2>3. ~Fresh(u, instr) /\ queue[u].valid
    BY <1>6, <2>2, ValidStep DEF Fresh
  <2>4. u \in DataTargets(data_in) \/ queue[u].ea_resolved
    <3>1. CASE s \in Revived(data_in)
      BY <1>1, <2>3, <3>1, RevivedIs
    <3>2. CASE queue[s].complete
      BY <1>1, <2>3, <3>2 DEF FinishedInv
    <3>3. QED
      BY <2>2, <3>1, <3>2 DEF CompleteBefore
  <2>5. QED
    BY <2>1, <2>3, <2>4 DEF EntryChange
\* The entry that is complete and dispatched after an edge.
<1>7. ASSUME NEW s \in Slot, queue'[s].complete, queue'[s].dispatched
      PROVE  \/ /\ s \in Revived(data_in) /\ s \in Loaded
                /\ Path!Waiting' /\ reg_dispatch'.tag = queue[s].tag
                /\ queue[s].tag \notin Taken'
             \/ /\ s \notin Revived(data_in) /\ Revived(data_in) = {} /\ queue[s].complete
                /\ s \notin Completed
                /\ queue[s].tag \notin Taken'
  <2>1. CompleteBefore(s) /\ (queue[s].dispatched \/ s \in Loaded)
    BY <1>3, <1>7
  <2>2. CASE s \in Revived(data_in)
    <3>1. queue[s].valid /\ ~queue[s].dispatched /\ \A u \in Slot : ~queue[u].complete
      BY <1>1, <2>2, RevivedIs
    <3>2. s \in Loaded /\ Path!Loads(Offer) /\ ~queue[s].complete
      BY <2>1, <3>1, LoadedIs
    <3>3. Offer.tag = queue[s].tag
      <4>1. Offer = [tag |-> queue[s].tag, store |-> queue[s].store,
                     addr |-> queue[s].addr, value |-> queue[s].value]
        BY <3>2, LoadedIs
      <4>2. QED
        BY <4>1
    <3>4. Path!Waiting' /\ reg_dispatch' = Offer
      BY <3>2, StepPath DEF PathMove
    <3>5. queue[s].tag \notin Taken \cup Travelling
      BY <3>1, <3>2 DEF TakenInv
    <3>6. queue[s].tag \notin Taken'
      BY <3>5, TakenStep
    <3>7. QED
      BY <2>2, <3>2, <3>3, <3>4, <3>6
  <2>3. CASE s \notin Revived(data_in)
    <3>1. /\ queue[s].complete /\ s \notin Loaded /\ s \notin Completed
          /\ \E u \in Completed : u \in Slot /\ u # s /\ queue[u].complete
          /\ Revived(data_in) = {}
      BY <2>1, <2>3 DEF CompleteBefore
    <3>2. queue[s].dispatched
      BY <2>1, <3>1
    <3>3. queue[s].tag \notin Taken /\ Path!Waiting /\ reg_dispatch.tag = queue[s].tag
      BY <1>1, <3>1, <3>2 DEF FinishedInv
    <3>4. Path!Accepts => lat.tag # queue[s].tag
      BY <3>3, StepPath DEF PathMove, TakenInv
    <3>5. queue[s].tag \notin Taken'
      BY <3>3, <3>4, TakenStep
    <3>6. QED
      BY <2>3, <3>1, <3>5
  <2>4. QED
    BY <2>2, <2>3
<1>8. ASSUME NEW s \in Slot, NEW u \in Slot, queue'[s].complete, queue'[u].complete, s # u,
             queue'[s].dispatched
      PROVE  Path!Waiting' /\ reg_dispatch'.tag = queue'[s].tag
  <2>1. queue'[s].tag = queue[s].tag
    BY <1>3, <1>8
  <2>2. CASE Path!Waiting' /\ reg_dispatch'.tag = queue[s].tag
    BY <2>1, <2>2
  <2>3. CASE Revived(data_in) = {} /\ queue[s].complete /\ s \notin Completed
    \* Three complete entries: two would share the last slot or the head.
    <3>1. queue[u].complete /\ u \notin Completed
      BY <1>3, <1>8, <2>3 DEF CompleteBefore
    <3>2. queue[s].valid
      BY <1>1, <2>3 DEF FinishedInv
    <3>3. PICK c \in Completed : TRUE
      BY <2>3, <3>2, CompletedIs DEF TypeInv
    <3>4. c \in Slot /\ queue[c].complete /\ c # s /\ c # u
      BY <2>3, <3>1, CompletedIs DEF TypeInv
    <3>5. /\ LastSlot(s) \/ AtHeadOfFull(s)
          /\ LastSlot(u) \/ AtHeadOfFull(u)
          /\ LastSlot(c) \/ AtHeadOfFull(c)
      BY <1>1, <2>3, <3>1, <3>4 DEF FinishedInv
    <3>6. QUEUE_DEPTH \in Nat \ {0}
      BY SlotsAreNumbers DEF TypeInv, QueueTypeOK
    <3>7. QED
      BY <1>8, <3>4, <3>5, <3>6, LastIsOne DEF AtHeadOfFull
  <2>4. QED
    BY <1>7, <1>8, <2>2, <2>3
<1>9. \A s \in Slot : queue'[s].complete => queue'[s].valid /\ queue'[s].ea_resolved
  BY <1>3
<1>10. \A s \in Slot : queue'[s].complete /\ queue'[s].dispatched => queue'[s].tag \notin Taken'
  BY <1>3, <1>7
<1>11. QED
  BY <1>4, <1>5, <1>6, <1>8, <1>9, <1>10

-----------------------------------------------------------------------------
(* One instruction at a time: what is reported.                            *)

ReportInv == Protocol => \A c \in queue_completion \cup completion : c.tag \in sent

\* What an edge reports: a complete entry, or the answer if there was none.
LEMMA ReportStep ==
  ASSUME TypeInv, NEW instr, NEW answered, Stepped(instr, answered)
  PROVE  /\ \A c \in queue_completion' :
               \E s \in Completed : s \in Slot /\ queue[s].valid /\ queue[s].complete
                                    /\ c.tag = queue[s].tag
         /\ \A c \in completion' : \/ c \in queue_completion
                                   \/ mem_completion # None /\ c.tag = mem_completion.tag
<1>1. queue_completion' = {[tag |-> queue[s].tag, value |-> queue[s].value] : s \in Completed}
  BY StepEntries DEF QueueEdge
<1>2. Merge
  BY DEF Stepped, ClockEdge
<1>3. QED
  BY <1>1, <1>2, CompletedIs DEF Merge, TypeInv

LEMMA StepReportInv ==
  ASSUME TypeInv, IntegrityInv, FinishedInv, PendingInv, ReportInv,
         NEW instr, NEW answered, Stepped(instr, answered)
  PROVE  ReportInv'
<1> SUFFICES ASSUME Protocol'
             PROVE  \A c \in queue_completion' \cup completion' : c.tag \in sent'
  BY DEF ReportInv
<1>1. Protocol /\ Orderly /\ sent \subseteq sent'
  BY ProtocolStep, DriveStep
<1>2. \A c \in queue_completion' : c.tag \in sent
  BY <1>1, ReportStep DEF FinishedInv, IntegrityInv, Good, GoodIn
<1>3. \A c \in completion' : c.tag \in sent
  <2>1. \A c \in queue_completion : c.tag \in sent
    BY <1>1 DEF ReportInv
  <2>2. mem_completion # None => mem_completion.tag \in sent
    BY <1>1 DEF PendingInv, IntegrityInv
  <2>3. QED
    BY <2>1, <2>2, ReportStep
<1>4. QED
  BY <1>1, <1>2, <1>3

-----------------------------------------------------------------------------
(* One instruction at a time: each is reported once.                       *)

\* The entry of t may still be dispatched or reported.
Queued(t) ==
    \E s \in Slot : queue[s].valid /\ queue[s].tag = t /\ (~queue[s].dispatched \/ queue[s].complete)

\* Nothing in the unit or behind the port can report t again.
Over(t) ==
    /\ t \in 1 .. Len(program)
    /\ ~Queued(t)
    /\ t \notin Travelling
    /\ \A k \in DOMAIN pending : pending[k].tag # t
    /\ mem_completion # None => mem_completion.tag # t

InQueueCompletion(t) == \E c \in queue_completion : c.tag = t
InCompletion(t) == \E c \in completion : c.tag = t

\* Neither of the two edges has happened.
Undisturbed == OneAtATime /\ mishaps = {}

OnceInv ==
    Undisturbed =>
        /\ \A s \in Slot : queue[s].complete =>
              ~queue[s].dispatched /\ queue[s].tag \notin Taken \cup Travelling
        /\ \A t \in Tag :
              /\ InQueueCompletion(t) \/ InCompletion(t) \/ done[t] > 0 => Over(t)
              /\ InQueueCompletion(t) => ~InCompletion(t)
              /\ InQueueCompletion(t) \/ InCompletion(t) => done[t] = 0
              /\ done[t] <= 1

LEMMA UndisturbedStep ==
  ASSUME NEW instr, NEW answered, Stepped(instr, answered), Undisturbed'
  PROVE  Undisturbed /\ Protocol /\ Protocol' /\ ~Overtaken
  BY MishapsStep DEF Undisturbed, Protocol, OneAtATime

\* What is complete after an edge was not loaded by it.
LEMMA NotLoaded ==
  ASSUME TypeInv, ProcessorInv, RingInv, AddressInv, FinishedInv, PendingInv, OnceInv, TakenInv,
         NEW instr, NEW answered, Stepped(instr, answered), Undisturbed', NEW s \in Slot,
         queue'[s].complete
  PROVE  /\ queue'[s].valid /\ queue[s].valid /\ queue'[s].tag = queue[s].tag
         /\ s \notin Loaded /\ ~queue[s].dispatched /\ ~queue'[s].dispatched
         /\ queue[s].tag \notin Taken \cup Travelling
<1>1. Undisturbed /\ Protocol /\ ~Overtaken
  BY UndisturbedStep
<1>2. /\ queue[s].valid /\ queue'[s].valid /\ queue'[s].tag = queue[s].tag
      /\ queue'[s].dispatched <=> (queue[s].dispatched \/ (s \in Loaded /\ s \notin Forwards(Loaded)))
      /\ CompleteBefore(s)
  BY <1>1, CompleteStep
<1>3. CASE s \in Revived(data_in)
  <2>1. ~queue[s].dispatched /\ ~queue[s].complete
    BY <1>1, <1>3, RevivedIs
  <2>2. s \notin Loaded
    BY <1>1, <2>1 DEF Overtaken
  <2>3. queue[s].tag \notin Taken \cup Travelling
    BY <1>2, <2>1 DEF TakenInv
  <2>4. QED
    BY <1>2, <2>1, <2>2, <2>3
<1>4. CASE queue[s].complete /\ s \notin Loaded
  BY <1>1, <1>2, <1>4 DEF OnceInv
<1>5. QED
  BY <1>2, <1>3, <1>4 DEF CompleteBefore

\* The request loaded is that of an entry still to be dispatched.
LEMMA LoadedQueued ==
  ASSUME TypeInv, TakenInv, Path!Loads(Offer)
  PROVE  Queued(Offer.tag)
  BY LoadedTag DEF Queued

\* What is taken, or travels, has no entry to be dispatched or reported.
LEMMA TakenNotQueued ==
  ASSUME TakenInv, OnceInv, Undisturbed, NEW t \in Taken \cup Travelling
  PROVE  ~Queued(t)
<1>1. SUFFICES ASSUME NEW s \in Slot, queue[s].valid, queue[s].tag = t,
                      ~queue[s].dispatched \/ queue[s].complete
               PROVE  FALSE
  BY DEF Queued
<1>2. CASE queue[s].complete
  BY <1>1, <1>2 DEF OnceInv
<1>3. CASE ~queue[s].complete
  BY <1>1, <1>3 DEF TakenInv
<1>4. QED
  BY <1>2, <1>3

\* An instruction that leaves the queue, the path and the memory does not come back.
LEMMA QueuedStep ==
  ASSUME TypeInv, ProcessorInv, RingInv, AddressInv, FinishedInv, PendingInv, OnceInv, TakenInv,
         NEW instr, NEW answered, Stepped(instr, answered), Undisturbed',
         NEW t \in 1 .. Len(program), Queued(t)'
  PROVE  Queued(t)
<1>1. PICK s \in Slot : queue'[s].valid /\ queue'[s].tag = t
                        /\ (~queue'[s].dispatched \/ queue'[s].complete)
  BY StepEntries DEF Queued
<1>2. EntryChange(s, queue[s], queue'[s], Loaded, instr, data_in, Reply)
  BY StepEntries
<1>3. ~Fresh(s, instr)
  <2>1. ASSUME Fresh(s, instr)
        PROVE  FALSE
    <3>1. t = Len(program')
      BY <1>1, <1>2, <2>1, StepInputs DEF EntryChange, Fresh
    <3>2. Len(program') = Len(program) + 1 /\ Len(program) \in Nat
      BY <2>1, StepInputs DEF Fresh, TypeInv, AroundOK
    <3>3. QED
      BY <3>1, <3>2
  <2>2. QED
    BY <2>1
<1>4. queue[s].valid /\ queue[s].tag = t
  BY <1>1, <1>2, <1>3, ValidStep DEF EntryChange
<1>5. ~queue[s].dispatched
  <2>1. CASE queue'[s].complete
    BY <2>1, NotLoaded
  <2>2. CASE ~queue'[s].dispatched
    BY <1>2, <1>3, <2>2 DEF EntryChange
  <2>3. QED
    BY <1>1, <2>1, <2>2
<1>6. QED
  BY <1>4, <1>5 DEF Queued

\* The answers owed after an edge and the one just given were owed, or are for
\* the request taken.
LEMMA OwedStep ==
  ASSUME TypeInv, NEW instr, NEW answered, Stepped(instr, answered)
  PROVE  /\ \A k \in DOMAIN pending' :
               \/ \E j \in DOMAIN pending : pending'[k].tag = pending[j].tag
               \/ pending'[k].tag \in Travelling
         /\ mem_completion' # None =>
               \E j \in DOMAIN pending : mem_completion'.tag = pending[j].tag
<1>1. Path!Accepts => l1d_req_out = lat /\ lat.tag \in Travelling
  BY StepPath, TakenStep DEF PathMove
<1>2. mem_completion' = Given(answered)
  BY StepPath DEF PathMove
<1>3. Given(answered) # None => \E j \in DOMAIN pending : Given(answered) = pending[j]
  BY StepInputs DEF Given
<1>4. QED
  BY <1>1, <1>2, <1>3, MemoryStep

LEMMA OverStep ==
  ASSUME TypeInv, ProcessorInv, RingInv, AddressInv, FinishedInv, PendingInv, OnceInv, TakenInv,
         NEW instr, NEW answered, Stepped(instr, answered), Undisturbed', NEW t, Over(t)
  PROVE  Over(t)'
<1>1. /\ t \in 1 .. Len(program) /\ ~Queued(t) /\ t \notin Travelling
      /\ \A k \in DOMAIN pending : pending[k].tag # t
  BY DEF Over
<1>2. t \in 1 .. Len(program')
  <2>1. Len(program) \in Nat /\ Len(program') \in Nat /\ Len(program) <= Len(program')
    BY StepInputs DEF TypeInv, AroundOK
  <2>2. QED
    BY <1>1, <2>1
<1>3. ~Queued(t)'
  BY <1>1, QueuedStep
<1>4. t \notin Travelling'
  BY <1>1, TravelStep, LoadedQueued
<1>5. \A k \in DOMAIN pending' : pending'[k].tag # t
  BY <1>1, OwedStep
<1>6. mem_completion' # None => mem_completion'.tag # t
  BY <1>1, OwedStep
<1>7. QED
  BY <1>2, <1>3, <1>4, <1>5, <1>6 DEF Over

\* A complete entry is reported and gone.
LEMMA CompletedOver ==
  ASSUME TypeInv, ProcessorInv, RingInv, AddressInv, FinishedInv, PendingInv, OnceInv, TakenInv,
         NEW instr, NEW answered, Stepped(instr, answered), Undisturbed', NEW c \in Completed,
         NEW t, t = queue[c].tag
  PROVE  Over(t)' /\ Queued(t) /\ t \notin Taken
<1>1. Undisturbed /\ Protocol
  BY UndisturbedStep
<1>2. c \in Slot /\ queue[c].valid /\ queue[c].complete
  BY CompletedIs DEF TypeInv
<1>3. ~queue[c].dispatched /\ t \notin Taken \cup Travelling /\ t \in 1 .. Len(program)
  BY <1>1, <1>2 DEF OnceInv, TypeInv, EntryInv
<1>4. t \in 1 .. Len(program')
  <2>1. Len(program) \in Nat /\ Len(program') \in Nat /\ Len(program) <= Len(program')
    BY StepInputs DEF TypeInv, AroundOK
  <2>2. QED
    BY <1>3, <2>1
<1>5. Path!Loads(Offer) => Offer.tag # t
  BY <1>2, LoadedTag DEF TypeInv, EntryInv
<1>6. t \notin Travelling'
  BY <1>3, <1>5, TravelStep
<1>7. t \notin Taken'
  BY <1>3, TakenStep
<1>8. PendingInv'
  BY StepPendingInv
<1>9. /\ \A k \in DOMAIN pending' : pending'[k].tag # t
      /\ mem_completion' # None => mem_completion'.tag # t
  BY <1>7, <1>8 DEF PendingInv
<1>10. ~Queued(t)'
  <2>1. ASSUME NEW s \in Slot, queue'[s].valid, queue'[s].tag = t,
               ~queue'[s].dispatched \/ queue'[s].complete
        PROVE  FALSE
    <3>1. EntryChange(s, queue[s], queue'[s], Loaded, instr, data_in, Reply)
      BY StepEntries
    <3>2. ~Fresh(s, instr)
      <4>1. ASSUME Fresh(s, instr)
            PROVE  FALSE
        <5>1. t = Len(program')
          BY <2>1, <3>1, <4>1, StepInputs DEF EntryChange, Fresh
        <5>2. Len(program') = Len(program) + 1 /\ Len(program) \in Nat
          BY <4>1, StepInputs DEF Fresh, TypeInv, AroundOK
        <5>3. QED
          BY <1>3, <5>1, <5>2
      <4>2. QED
        BY <4>1
    <3>3. queue[s].valid /\ queue[s].tag = t
      BY <2>1, <3>1, <3>2, ValidStep DEF EntryChange
    <3>4. s = c
      BY <1>2, <3>3 DEF TypeInv, EntryInv
    <3>5. Revived(data_in) = {}
      BY <1>1, <1>2, RevivedIs
    <3>6. QED
      BY <2>1, <3>1, <3>2, <3>4, <3>5 DEF EntryChange
  <2>2. QED
    BY <2>1, StepEntries DEF Queued
<1>11. Over(t)'
  BY <1>4, <1>6, <1>9, <1>10 DEF Over
<1>12. Queued(t)
  BY <1>2 DEF Queued
<1>13. QED
  BY <1>3, <1>11, <1>12

\* An answer is reported, or hidden by the queue's, and is the last of its tag.
LEMMA AnsweredOver ==
  ASSUME TypeInv, ProcessorInv, RingInv, AddressInv, FinishedInv, PendingInv, OnceInv, TakenInv,
         NEW instr, NEW answered, Stepped(instr, answered), Undisturbed', mem_completion # None,
         NEW t, t = mem_completion.tag
  PROVE  Over(t)'
<1>1. Undisturbed
  BY UndisturbedStep
<1>2. t \in Taken /\ t \in 1 .. Len(program) /\ t \notin Travelling
      /\ \A k \in DOMAIN pending : pending[k].tag # t
  BY DEF PendingInv, TakenInv
<1>3. t \in 1 .. Len(program')
  <2>1. Len(program) \in Nat /\ Len(program') \in Nat /\ Len(program) <= Len(program')
    BY StepInputs DEF TypeInv, AroundOK
  <2>2. QED
    BY <1>2, <2>1
<1>4. ~Queued(t)'
  BY <1>1, <1>2, TakenNotQueued, QueuedStep
<1>5. t \notin Travelling'
  BY <1>2, TravelStep, LoadedTag
<1>6. \A k \in DOMAIN pending' : pending'[k].tag # t
  BY <1>2, OwedStep
<1>7. mem_completion' # None => mem_completion'.tag # t
  BY <1>2, OwedStep
<1>8. QED
  BY <1>3, <1>4, <1>5, <1>6, <1>7 DEF Over

LEMMA StepOnceInv ==
  ASSUME TypeInv, ProcessorInv, RingInv, AddressInv, FinishedInv, PendingInv, OnceInv, TakenInv,
         NEW instr, NEW answered, Stepped(instr, answered)
  PROVE  OnceInv'
<1> SUFFICES ASSUME Undisturbed'
             PROVE  /\ \A s \in Slot : queue'[s].complete =>
                          ~queue'[s].dispatched /\ queue'[s].tag \notin Taken' \cup Travelling'
                    /\ \A t \in Tag :
                          /\ InQueueCompletion(t)' \/ InCompletion(t)' \/ done'[t] > 0 => Over(t)'
                          /\ InQueueCompletion(t)' => ~InCompletion(t)'
                          /\ InQueueCompletion(t)' \/ InCompletion(t)' => done'[t] = 0
                          /\ done'[t] <= 1
  BY StepEntries DEF OnceInv
<1>1. Undisturbed
  BY UndisturbedStep
<1>2. ASSUME NEW s \in Slot, queue'[s].complete
      PROVE  ~queue'[s].dispatched /\ queue'[s].tag \notin Taken' \cup Travelling'
  <2>1. /\ queue[s].valid /\ queue'[s].tag = queue[s].tag
        /\ s \notin Loaded /\ ~queue'[s].dispatched
        /\ queue[s].tag \notin Taken \cup Travelling
    BY <1>2, NotLoaded
  <2>2. Path!Loads(Offer) => Offer.tag # queue[s].tag
    BY <2>1, LoadedTag DEF TypeInv, EntryInv
  <2>3. QED
    BY <2>1, <2>2, TakenStep, TravelStep
<1>3. ASSUME NEW t \in Tag
      PROVE  /\ InQueueCompletion(t)' \/ InCompletion(t)' \/ done'[t] > 0 => Over(t)'
             /\ InQueueCompletion(t)' => ~InCompletion(t)'
             /\ InQueueCompletion(t)' \/ InCompletion(t)' => done'[t] = 0
             /\ done'[t] <= 1
  <2>1. /\ InQueueCompletion(t) \/ InCompletion(t) \/ done[t] > 0 => Over(t)
        /\ InQueueCompletion(t) => ~InCompletion(t)
        /\ InQueueCompletion(t) \/ InCompletion(t) => done[t] = 0
        /\ done[t] <= 1 /\ done[t] \in 0 .. 2
    BY <1>1 DEF OnceInv, TypeInv, AroundOK
  <2>2. done'[t] = IF InCompletion(t) /\ done[t] < 2 THEN done[t] + 1 ELSE done[t]
    BY DEF Stepped, ClockEdge, Retire, InCompletion
  <2>3. InQueueCompletion(t)' => Over(t)' /\ Queued(t) /\ t \notin Taken
    <3>1. ASSUME NEW c \in queue_completion', c.tag = t
          PROVE  Over(t)' /\ Queued(t) /\ t \notin Taken
      <4>1. PICK s \in Completed : c.tag = queue[s].tag
        BY ReportStep
      <4>2. t = queue[s].tag
        BY <3>1, <4>1
      <4>3. QED
        BY <4>2, CompletedOver
    <3>2. QED
      BY <3>1 DEF InQueueCompletion
  <2>4. InCompletion(t)' => \/ InQueueCompletion(t)
                            \/ mem_completion # None /\ mem_completion.tag = t
    BY ReportStep DEF InQueueCompletion, InCompletion
  <2>5. mem_completion # None /\ mem_completion.tag = t =>
          Over(t)' /\ t \in Taken /\ ~(InQueueCompletion(t) \/ InCompletion(t) \/ done[t] > 0)
    <3>1. ASSUME mem_completion # None, mem_completion.tag = t
          PROVE  Over(t)'
      BY <3>1, AnsweredOver
    <3>2. QED
      BY <2>1, <3>1 DEF PendingInv, Over
  <2>6. Over(t) => Over(t)' /\ ~Queued(t)
    BY OverStep DEF Over
  <2>7. done'[t] > 0 => InCompletion(t) \/ done[t] > 0
    BY <2>2
  <2>8. InQueueCompletion(t)' \/ InCompletion(t)' \/ done'[t] > 0 => Over(t)'
    BY <2>1, <2>3, <2>4, <2>5, <2>6, <2>7
  <2>9. InQueueCompletion(t)' => ~InCompletion(t)'
    BY <2>1, <2>3, <2>4, <2>5, <2>6
  <2>10. InQueueCompletion(t)' \/ InCompletion(t)' => ~InCompletion(t) /\ ~(done[t] > 0)
    BY <2>1, <2>3, <2>4, <2>5, <2>6
  <2>11. InQueueCompletion(t)' \/ InCompletion(t)' => done'[t] = 0
    BY <2>1, <2>2, <2>10
  <2>12. done'[t] <= 1
    BY <2>1, <2>2
  <2>13. QED
    BY <2>8, <2>9, <2>11, <2>12
<1>4. QED
  BY <1>2, <1>3

-----------------------------------------------------------------------------
(* The invariant, and what follows.                                        *)

IInv ==
    /\ TypeInv
    /\ TakenInv
    /\ PendingInv
    /\ ProcessorInv
    /\ RingInv
    /\ IntegrityInv
    /\ AddressInv
    /\ FinishedInv
    /\ ReportInv
    /\ OnceInv

LEMMA InitIInv ==
  ASSUME Init
  PROVE  IInv
<1> USE DEF Init
<1>1. PathInv
  BY PathAssumption DEF Path!Init, Path!MifInit, PathInv, PathProofs!IInv, PathProofs!TypeOK, PathProofs!MifTypeOK,
     PathProofs!PortInv, PathProofs!PortPhase, PathProofs!Held, PathProofs!Waiting
<1>2. QUEUE_DEPTH \in Depths /\ QUEUE_DEPTH \in Nat /\ QUEUE_DEPTH > 1 /\ 0 \in Slot
      /\ 0 \in 0 .. 2 * QUEUE_DEPTH - 1
  <2>1. QUEUE_DEPTH \in Depths
    BY DEF QueueInit
  <2>2. QED
    BY <2>1, SlotsAreNumbers DEF Slot
<1>3. \A s \in Slot : /\ queue[s] \in Entry
                      /\ ~queue[s].valid /\ ~queue[s].ea_resolved /\ ~queue[s].dispatched
                      /\ ~queue[s].complete
  BY QueueAssumption DEF QueueInit, Entry
<1>4. QueueTypeOK
  <2>1. queue \in [Slot -> Entry]
    BY <1>3 DEF QueueInit
  <2>2. QED
    BY <1>2, <2>1 DEF QueueInit, QueueTypeOK
<1>5. program = << >> /\ Len(program) = 0 /\ DOMAIN taken = {} /\ DOMAIN pending = {}
  OBVIOUS
<1>6. AroundOK
  BY LsuAssumption DEF AroundOK
<1>7. EntryInv /\ DriveInv
  BY <1>3 DEF EntryInv, DriveInv
<1>8. Taken = {} /\ Travelling = {} /\ ~Path!Held /\ ~Path!Waiting
  BY <1>5 DEF Taken, Travelling, Path!Held, Path!Waiting, Path!Init, Path!MifInit
<1>9. TakenInv
  BY <1>3, <1>5, <1>8 DEF TakenInv, IsInjective
<1>10. mem_completion = None /\ reg_dispatch = None /\ lat = None /\ l1d_req_out = None
  BY DEF Path!Init, Path!MifInit
<1>11. PendingInv
  BY <1>5, <1>10 DEF PendingInv
<1>12. ProcessorInv
  BY <1>5 DEF ProcessorInv
<1>13. RingInv
  <2>1. (0 + 0) % QUEUE_DEPTH = 0
    BY <1>2
  <2>2. QED
    BY <1>3, <2>1 DEF RingInv, QueueInit
<1>14. IntegrityInv
  BY <1>3, <1>8, <1>10 DEF IntegrityInv
<1>15. AddressInv /\ FinishedInv
  BY <1>3 DEF AddressInv, FinishedInv
<1>16. ReportInv
  BY DEF ReportInv, QueueInit
<1>17. OnceInv
  BY <1>3 DEF OnceInv, InQueueCompletion, InCompletion, QueueInit
<1>18. QED
  BY <1>1, <1>4, <1>6, <1>7, <1>9, <1>11, <1>12, <1>13, <1>14, <1>15, <1>16, <1>17
     DEF IInv, TypeInv

LEMMA StutterIInv ==
  ASSUME IInv, UNCHANGED vars
  PROVE  IInv'
<1> USE DEF vars, queueVars, pathVars
<1>1. (QueueTypeOK' <=> QueueTypeOK) /\ (AroundOK' <=> AroundOK)
  BY DEF QueueTypeOK, AroundOK, Slot
<1>2. (PathInv' <=> PathInv) /\ Path!Held' = Path!Held /\ Path!Waiting' = Path!Waiting
  BY DEF PathInv, PathProofs!IInv, PathProofs!TypeOK, PathProofs!MifTypeOK, PathProofs!PortInv,
         PathProofs!PortPhase, Path!Held, Path!Waiting
<1>3. Slot' = Slot /\ Taken' = Taken /\ Travelling' = Travelling
  BY <1>2 DEF Slot, Taken, Travelling
<1>4. (EntryInv' <=> EntryInv) /\ (DriveInv' <=> DriveInv)
  BY <1>3 DEF EntryInv, DriveInv
<1>5. (TakenInv' <=> TakenInv) /\ (PendingInv' <=> PendingInv)
  BY <1>2, <1>3 DEF TakenInv, PendingInv, IsInjective
<1>6. (ProcessorInv' <=> ProcessorInv) /\ (RingInv' <=> RingInv)
  BY <1>3 DEF ProcessorInv, RingInv, OneAtATime, Dist
<1>7. (Protocol' <=> Protocol) /\ (Orderly' <=> Orderly) /\ (Undisturbed' <=> Undisturbed)
  BY DEF Protocol, Orderly, Undisturbed, OneAtATime
<1>8. IntegrityInv' <=> IntegrityInv
  BY <1>3, <1>7 DEF IntegrityInv, Good, GoodIn
<1>9. (AddressInv' <=> AddressInv) /\ (FinishedInv' <=> FinishedInv) /\ (ReportInv' <=> ReportInv)
  BY <1>2, <1>3, <1>7 DEF AddressInv, FinishedInv, ReportInv, LastSlot, AtHeadOfFull
<1>10. OnceInv' <=> OnceInv
  BY <1>3, <1>7 DEF OnceInv, InQueueCompletion, InCompletion, Over, Queued
<1>11. QED
  BY <1>1, <1>2, <1>4, <1>5, <1>6, <1>8, <1>9, <1>10 DEF IInv, TypeInv

LEMMA StepIInv ==
  ASSUME IInv, [Next]_vars
  PROVE  IInv'
<1>1. ASSUME NEW instr, NEW answered, Stepped(instr, answered)
      PROVE  IInv'
  BY <1>1, StepTypeInv, StepTakenInv, StepPendingInv, StepProcessorInv, StepRingInv,
     StepIntegrityInv, StepAddressInv, StepFinishedInv, StepReportInv, StepOnceInv DEF IInv
<1>2. CASE Next
  BY <1>1, <1>2, NextSteps
<1>3. CASE UNCHANGED vars
  BY <1>3, StutterIInv
<1>4. QED
  BY <1>2, <1>3

\* The invariant holds in every state the unit reaches.
THEOREM InvariantHolds == Spec => []IInv
  BY InitIInv, StepIInv, PTL DEF Spec

\* Requests taken once each are no more than the instructions.
LEMMA TakenFew ==
  ASSUME TypeInv, TakenInv
  PROVE  Len(taken) <= Len(program)
<1>1. /\ taken \in Seq(Tag) /\ Len(taken) \in Nat /\ Len(program) \in Nat
      /\ DOMAIN taken = 1 .. Len(taken)
  BY DEF TypeInv, AroundOK
<1>2. taken \in Injection(1 .. Len(taken), 1 .. Len(program))
  <2>1. \A k \in 1 .. Len(taken) : taken[k] \in 1 .. Len(program)
    BY <1>1 DEF TakenInv, Taken
  <2>2. taken \in [1 .. Len(taken) -> 1 .. Len(program)]
    BY <1>1, <2>1
  <2>3. QED
    BY <2>2 DEF TakenInv, Injection
<1>3. /\ IsFiniteSet(1 .. Len(program)) /\ Cardinality(1 .. Len(program)) = Len(program)
      /\ Cardinality(1 .. Len(taken)) = Len(taken)
  <2>1. ASSUME NEW n \in Nat
        PROVE  IsFiniteSet(1 .. n) /\ Cardinality(1 .. n) = n
    <3>1. IsFiniteSet(1 .. n) /\ Cardinality(1 .. n) = IF 1 > n THEN 0 ELSE n - 1 + 1
      BY FS_Interval
    <3>2. QED
      BY <3>1
  <2>2. QED
    BY <1>1, <2>1
<1>4. QED
  BY <1>1, <1>2, <1>3, FS_Injection

\* Every register, pointer and counter of the unit always has its type: no
\* pointer leaves the ring and count stays between 0 and the depth.
THEOREM TypeCorrect == Spec => []TypeOK
<1>1. IInv => TypeOK
  <2> SUFFICES ASSUME IInv
               PROVE  TypeOK
    OBVIOUS
  <2>1. QueueTypeOK /\ AroundOK /\ Path!TypeOK
    BY PathTypeOK DEF IInv, TypeInv
  <2>2. Len(taken) \in Nat /\ Len(pending) \in Nat /\ Len(program) \in Nat /\ MaxOps \in Nat
        /\ Len(program) <= MaxOps /\ Len(taken) <= Len(program) /\ Len(pending) <= Len(taken)
    <3>1. program \in Seq(Instruction) /\ taken \in Seq(Tag) /\ pending \in Seq(Response)
          /\ Len(program) <= MaxOps
      BY <2>1 DEF AroundOK
    <3>2. QED
      BY <3>1, TakenFew, LsuAssumption DEF IInv, PendingInv
  <2>3. Len(taken) <= 2 * MaxOps /\ Len(pending) <= MaxOps
    BY <2>2
  <2>4. QED
    BY <2>1, <2>3 DEF TypeOK, AroundOK
<1>2. QED
  BY <1>1, InvariantHolds, PTL

\* The L1D is never given an instruction twice, although the dispatch register,
\* memory_interface and the L1D each keep a copy of it.
THEOREM TakenOnceHolds == Spec => []TakenOnce
<1>1. IInv => TakenOnce
  BY DEF IInv, TakenInv, TakenOnce
<1>2. QED
  BY <1>1, InvariantHolds, PTL

\* The L1D port always carries for a tag what the processor supplied for it.
THEOREM RequestIntegrityHolds == Spec => []RequestIntegrity
<1>1. IInv => RequestIntegrity
  BY IntegrityHolds DEF IInv
<1>2. QED
  BY <1>1, InvariantHolds, PTL

\* A completion never names an instruction whose address is still missing.
THEOREM CompletedAfterAddressHolds == Spec => []CompletedAfterAddress
<1>1. IInv => CompletedAfterAddress
  BY DEF IInv, ReportInv, Protocol, CompletedAfterAddress
<1>2. QED
  BY <1>1, InvariantHolds, PTL

\* No instruction is ever reported complete twice.
THEOREM CompletedOnceHolds == Spec => []CompletedOnce
<1>1. IInv => CompletedOnce
  BY DEF IInv, OnceInv, Undisturbed, CompletedOnce
<1>2. QED
  BY <1>1, InvariantHolds, PTL

\* The path of a request keeps its promise inside the unit, whatever the queue
\* offers and the memory answers: the dispatch register, memory_interface and the
\* port are together a FIFO of two places that loses only to a fill.
THEOREM HandoverInUnit == Spec => PathProofs!HandoverLosesOnlyToFill
<1>1. ASSUME IInv, [Next]_vars
      PROVE  [PathProofs!Handover!FifoNext]_(PathProofs!Handover!fifoVars)
  <2>1. [PathProofs!Next]_(PathProofs!pathVars)
    <3>1. ASSUME NEW instr, NEW answered, Stepped(instr, answered)
          PROVE  [PathProofs!Next]_(PathProofs!pathVars)
      <4>1. Path!ClockEdge(Offer, Given(answered))
        BY <3>1 DEF Stepped, ClockEdge, Given
      <4>2. Offer \in Request \cup {None} /\ Given(answered) \in Response \cup {None}
        BY <1>1, <3>1, OfferIs, StepInputs DEF IInv
      <4>3. QED
        BY <4>1, <4>2, PathStep
    <3>2. CASE UNCHANGED vars
      BY <3>2 DEF vars, pathVars, PathProofs!pathVars, PathProofs!mifVars
    <3>3. QED
      BY <1>1, <3>1, <3>2, NextSteps
  <2>2. PathProofs!IInv
    BY <1>1 DEF IInv, TypeInv, PathInv
  <2>3. QED
    BY <2>1, <2>2, PathAssumption, PathProofs!StepHandover
<1>2. Init => PathProofs!Handover!FifoInit
  <2>1. Init => PathProofs!Init
    BY DEF Init, Path!Init, PathProofs!Init, Path!MifInit, PathProofs!MifInit
  <2>2. QED
    BY <2>1, PathAssumption, PathProofs!InitHandover
<1>3. QED
  BY <1>1, <1>2, InvariantHolds, PTL DEF Spec, PathProofs!HandoverLosesOnlyToFill, PathProofs!Handover!FifoSpec
=============================================================================
