----------------------- MODULE RequestSchedulerProofs -----------------------
(***************************************************************************)
(* The DRAM scheduler for every geometry, queue size and latency: its      *)
(* registers keep their types, a refresh step closes its bank, no command  *)
(* follows a row command of its bank too soon, a read that has priority    *)
(* and waits for another row is stuck, the books of the queues are kept,   *)
(* and a column command meets its open row.                                *)
(***************************************************************************)
EXTENDS RequestScheduler, MinMaxLemmas, FiniteSetTheorems, TLAPS

-----------------------------------------------------------------------------
(* Lemmas about the parts.                                                 *)

LEMMA Remainder == \A n \in Nat, m \in Nat \ {0} : n % m \in 0 .. m - 1
  OBVIOUS

LEMMA RemainderOnce ==
  ASSUME NEW m \in Nat \ {0}, NEW n \in 0 .. 2 * m - 1
  PROVE  n % m = IF n < m THEN n ELSE n - m
  OBVIOUS

\* The bank index {bank_group, bank} is one of the banks.
LEMMA BankIndex ==
  ASSUME NEW groups \in Nat \ {0}, NEW size \in Nat \ {0},
         NEW g \in 0 .. groups - 1, NEW b \in 0 .. size - 1
  PROVE  g * size + b \in 0 .. groups * size - 1
  OBVIOUS

\* The queues when all slots hold members of S.
RingOf(S) == [slots : [Queue!RingSlot -> S], head : Queue!RingSlot, size : 0 .. QUEUE_SIZE]
CmdQueueOf(S) == [ready : RingOf(S), pending : RingOf(S)]
QueuesOf(S) == [Banks -> [Kind -> CmdQueueOf(S)]]

LEMMA RingStep ==
  ASSUME NEW S, NEW q \in RingOf(S), NEW enqueue \in BOOLEAN, NEW dequeue \in BOOLEAN,
         NEW r, enqueue => r \in S
  PROVE  Queue!RingEdge(q, enqueue, dequeue, r) \in RingOf(S)
<1> DEFINE enq == enqueue /\ ~Queue!full(q)
           deq == dequeue /\ ~Queue!empty(q)
           slots == IF enq THEN [q.slots EXCEPT ![(q.head + q.size) % QUEUE_SIZE] = r]
                    ELSE q.slots
           head == IF deq THEN (q.head + 1) % QUEUE_SIZE ELSE q.head
           size == IF deq THEN q.size - 1 ELSE IF enq THEN q.size + 1 ELSE q.size
<1>1. QUEUE_SIZE \in Nat \ {0}
  BY SchedulerAssumption
<1>2. /\ q.slots \in [Queue!RingSlot -> S] /\ q.head \in 0 .. QUEUE_SIZE - 1
      /\ q.size \in 0 .. QUEUE_SIZE
  BY DEF RingOf, Queue!RingSlot
<1>3. slots \in [Queue!RingSlot -> S]
  BY <1>2
<1>4. head \in Queue!RingSlot
  <2>1. q.head + 1 \in Nat
    BY <1>1, <1>2
  <2>2. (q.head + 1) % QUEUE_SIZE \in 0 .. QUEUE_SIZE - 1
    BY <1>1, <2>1, Remainder
  <2>3. QED
    BY <1>2, <2>2 DEF Queue!RingSlot
<1>5. size \in 0 .. QUEUE_SIZE
  BY <1>1, <1>2 DEF Queue!full, Queue!empty
<1>6. Queue!RingEdge(q, enqueue, dequeue, r) = [slots |-> slots, head |-> head, size |-> size]
  BY DEF Queue!RingEdge
<1> HIDE DEF slots, head, size
<1>7. QED
  BY <1>3, <1>4, <1>5, <1>6 DEF RingOf

LEMMA CmdQueueStep ==
  ASSUME NEW S, NEW c \in CmdQueueOf(S), NEW enqueue \in BOOLEAN, NEW send \in BOOLEAN,
         NEW leave \in BOOLEAN, NEW r, enqueue => r \in S
  PROVE  Queue!CmdQueueEdge(c, enqueue, r, send, leave) \in CmdQueueOf(S)
<1>1. c.ready \in RingOf(S) /\ c.pending \in RingOf(S)
  BY DEF CmdQueueOf
<1>2. Queue!ready_top(c) \in S
  BY <1>1 DEF Queue!ready_top, Queue!req_out, RingOf
<1>3. Queue!RingEdge(c.ready, enqueue, send, r) \in RingOf(S)
  BY <1>1, RingStep
<1>4. Queue!RingEdge(c.pending, send, leave, Queue!ready_top(c)) \in RingOf(S)
  BY <1>1, <1>2, RingStep
<1>5. QED
  BY <1>3, <1>4 DEF Queue!CmdQueueEdge, CmdQueueOf

LEMMA BankStep ==
  ASSUME NEW b \in State!Bank, NEW precharge \in BOOLEAN, NEW activate \in BOOLEAN, NEW row \in Row
  PROVE  State!BankEdge(b, precharge, activate, row) \in State!Bank
<1> DEFINE Count == 0 .. ACTIVATION_LATENCY + PRECHARGE_LATENCY
<1>1. /\ ACTIVATION_LATENCY \in Count /\ PRECHARGE_LATENCY \in Count
      /\ \A n \in Count : n # 0 => n - 1 \in Count
  BY SchedulerAssumption
<1>2. State!Bank = [active_row : Row, active : BOOLEAN, ready : BOOLEAN, blocked : BOOLEAN,
                    cycle_count : Count]
  BY DEF State!Bank
<1> HIDE DEF Count
<1>3. CASE b.blocked
  BY <1>1, <1>2, <1>3 DEF State!BankEdge
<1>4. CASE ~b.blocked
  BY <1>1, <1>2, <1>4 DEF State!BankEdge
<1>5. QED
  BY <1>3, <1>4

LEMMA RefreshStep ==
  ASSUME NEW f \in Refresh, NEW due \in BOOLEAN
  PROVE  RefreshEdge(f, due) \in Refresh
<1> DEFINE Stage == 0 .. STAGES - 1
           Group == 0 .. BANK_GROUPS - 1
           GroupBank == 0 .. BANKS_PER_GROUP - 1
<1>1. 0 \in Stage /\ 0 \in Row /\ 0 \in GroupBank /\ 0 \in Group
  BY SchedulerAssumption DEF Row
<1>2. /\ \A n \in Stage : n # STAGES - 1 => n + 1 \in Stage
      /\ \A n \in Row : n # ROWS - 1 => n + 1 \in Row
      /\ \A n \in GroupBank : n # BANKS_PER_GROUP - 1 => n + 1 \in GroupBank
      /\ \A n \in Group : n # BANK_GROUPS - 1 => n + 1 \in Group
  BY SchedulerAssumption DEF Row
<1>3. Refresh = [in_progress : BOOLEAN, stage : Stage, row : Row, bank : GroupBank,
                 bank_group : Group]
  BY DEF Refresh, Row
<1> HIDE DEF Stage, Group, GroupBank
<1>4. [ResetRefresh EXCEPT !.in_progress = TRUE] \in Refresh
  BY <1>1, <1>3 DEF ResetRefresh
<1>5. f.stage # STAGES - 1 => [f EXCEPT !.stage = @ + 1] \in Refresh
  BY <1>2, <1>3
<1>6. [f EXCEPT !.in_progress = FALSE, !.stage = 0] \in Refresh
  BY <1>1, <1>3
<1>7. ~LastStep(f) => NextStep(f) \in Refresh
  <2>1. CASE f.row = ROWS - 1
    BY <1>1, <1>2, <1>3, <2>1 DEF LastStep, NextStep
  <2>2. CASE f.row # ROWS - 1 /\ f.bank = BANKS_PER_GROUP - 1
    BY <1>1, <1>2, <1>3, <2>2 DEF NextStep
  <2>3. CASE f.row # ROWS - 1 /\ f.bank # BANKS_PER_GROUP - 1
    BY <1>1, <1>2, <1>3, <2>3 DEF NextStep
  <2>4. QED
    BY <2>1, <2>2, <2>3
<1>8. QED
  BY <1>4, <1>5, <1>6, <1>7 DEF RefreshEdge

LEMMA RefreshBank ==
  ASSUME NEW f \in Refresh
  PROVE  refr_bank_idx(f) \in AllBanks
<1>1. f.bank_group \in 0 .. BANK_GROUPS - 1 /\ f.bank \in 0 .. BANKS_PER_GROUP - 1
  BY DEF Refresh
<1>2. QED
  BY <1>1, BankIndex, SchedulerAssumption DEF refr_bank_idx, AllBanks
-----------------------------------------------------------------------------
(* Types.  That a slot of a ring names a request there is goes beyond      *)
(* TypeOK, and what is read of requests depends on it.                     *)

Issued == 0 .. Len(requests)
TypeInv == TypeOK /\ queues \in QueuesOf(Issued)

LEMMA Geometry ==
  /\ Banks \subseteq AllBanks /\ AllBanks \subseteq Nat /\ 0 \in Row
  /\ \A a \in Address : a[1] \in Banks /\ a[2] \in Row
  BY SchedulerAssumption DEF Banks, AllBanks, Row

LEMMA Wider ==
  ASSUME NEW S, NEW W, S \subseteq W, NEW q \in QueuesOf(S)
  PROVE  q \in QueuesOf(W)
<1>1. RingOf(S) \subseteq RingOf(W)
  BY DEF RingOf
<1>2. CmdQueueOf(S) \subseteq CmdQueueOf(W)
  BY <1>1 DEF CmdQueueOf
<1>3. QED
  BY <1>2 DEF QueuesOf

\* What the tops of the queues of a bank hold.
LEMMA Tops ==
  ASSUME TypeInv, NEW b \in Banks, NEW k \in Kind
  PROVE  /\ queues[b][k] \in CmdQueueOf(Issued)
         /\ ReadyTop(b, k) \in Issued /\ PendingTop(b, k) \in Issued
         /\ RowOf(ReadyTop(b, k)) \in Row
<1>1. queues[b][k] \in CmdQueueOf(Issued)
  BY DEF TypeInv, QueuesOf
<1>2. ReadyTop(b, k) \in Issued /\ PendingTop(b, k) \in Issued
  BY <1>1 DEF ReadyTop, PendingTop, Queue!ready_top, Queue!pending_top, Queue!req_out, CmdQueueOf, RingOf
<1>3. \A i \in Issued : RowOf(i) \in Row
  <2>1. requests \in Seq(Request)
    BY DEF TypeInv, TypeOK
  <2>2. \A i \in Issued : i # 0 => requests[i] \in Request
    BY <2>1 DEF Issued
  <2>3. QED
    BY <2>2, Geometry DEF RowOf, NoRequest, Request
<1>4. QED
  BY <1>1, <1>2, <1>3

\* A command that is sent is one that may be, and the only one; none is sent while
\* a refresh step asks for its precharge.
LEMMA ChosenCommand ==
  ASSUME TypeInv, NEW bursting, NEW c \in Chosen(bursting)
  PROVE  /\ c.bank \in Banks /\ c.kind \in Kind
         /\ c = [kind |-> c.kind, bank |-> c.bank]
         /\ Sendable(c.bank, c.kind) /\ ~refr_out(refresh)
         /\ Chosen(bursting) = {c}
         /\ ReadTurn => c.kind = "read"
<1>1. ASSUME NEW k \in Kind, c \in Send(k), Chosen(bursting) = Send(k), ~refr_out(refresh),
             ReadTurn => k = "read"
      PROVE  /\ c.bank \in Banks /\ c.kind \in Kind
             /\ c = [kind |-> c.kind, bank |-> c.bank]
             /\ Sendable(c.bank, c.kind) /\ ~refr_out(refresh)
             /\ Chosen(bursting) = {c}
             /\ ReadTurn => c.kind = "read"
  <2> DEFINE able == {b \in Banks : Sendable(b, k)}
  <2>1. able # {} /\ Send(k) = {[kind |-> k, bank |-> Min(able)]}
    BY <1>1 DEF Send
  <2>2. able \in SUBSET Nat
    BY Geometry
  <2>3. Min(able) \in able
    BY <2>1, <2>2, MinMember
  <2>4. QED
    BY <1>1, <2>1, <2>3
<1>2. CASE ReadTurn
  BY <1>1, <1>2 DEF Chosen, ReadTurn, Kind
<1>3. CASE ~ReadTurn
  BY <1>1, <1>3 DEF Chosen, OtherTurn, Kind
<1>4. QED
  BY <1>2, <1>3

\* A request that moves is one there is, or the one that comes in.
LEMMA Moves ==
  ASSUME TypeInv, NEW incoming
  PROVE  /\ \A m \in Promotions : m.req \in Issued
         /\ \A m \in Arrival(incoming) : m.req = Len(requests) + 1 /\ incoming # {}
<1>1. ASSUME NEW m \in Promotions
      PROVE  m.req \in Issued
  <2>1. PICK b \in Banks, k \in Kind : m = Promotion(b, k)
    BY DEF Promotions
  <2>2. QED
    BY <2>1, Tops DEF Promotion
<1>2. ASSUME NEW m \in Arrival(incoming)
      PROVE  m.req = Len(requests) + 1 /\ incoming # {}
  <2>1. PICK r \in incoming :
           m = [bank |-> r.bank, from |-> "", to |-> Route(r), req |-> Len(requests) + 1]
    BY DEF Arrival
  <2>2. QED
    BY <2>1
<1>3. QED
  BY <1>1, <1>2

\* What the LLC may present.
LEMMA ArrivalsTyped ==
  ASSUME TypeInv, NEW incoming \in Arrivals
  PROVE  \/ incoming = {}
         \/ /\ \E r \in Request : incoming = {r}
            /\ Len(requests) < MaxRequests
<1>1. CASE incoming = {}
  BY <1>1
<1>2. CASE incoming # {}
  <2>1. /\ Len(requests) # MaxRequests
        /\ \E a \in Address, w \in BOOLEAN : incoming = {[bank |-> a[1], row |-> a[2], write |-> w]}
    BY <1>2 DEF Arrivals
  <2>2. Len(requests) \in Nat /\ Len(requests) <= MaxRequests /\ MaxRequests \in Nat
    BY SchedulerAssumption DEF TypeInv, TypeOK
  <2>3. \A a \in Address, w \in BOOLEAN : [bank |-> a[1], row |-> a[2], write |-> w] \in Request
    BY Geometry DEF Request
  <2>4. Len(requests) < MaxRequests
    BY <2>1, <2>2
  <2>5. QED
    BY <2>1, <2>3, <2>4
<1>3. QED
  BY <1>1, <1>2

\* The list of requests only grows, by what comes in.
LEMMA RequestsStep ==
  ASSUME TypeInv, NEW incoming \in Arrivals, NEW bursting, NEW due, ClockEdge(incoming, bursting, due)
  PROVE  /\ requests' \in Seq(Request) /\ Len(requests') <= MaxRequests
         /\ Issued \subseteq Issued'
         /\ \A i \in Issued : RowOf(i)' = RowOf(i)
         /\ incoming # {} => Len(requests) + 1 \in Issued'
<1>1. requests \in Seq(Request) /\ Len(requests) \in Nat /\ Len(requests) <= MaxRequests
      /\ MaxRequests \in Nat
  BY SchedulerAssumption DEF TypeInv, TypeOK
<1>2. requests' = IF incoming = {} THEN requests
                  ELSE Append(requests, CHOOSE r \in incoming : TRUE)
  BY DEF ClockEdge
<1>3. CASE incoming = {}
  BY <1>1, <1>2, <1>3 DEF Issued, RowOf
<1>4. CASE incoming # {}
  <2>1. PICK r \in Request : incoming = {r} /\ Len(requests) < MaxRequests
    BY <1>4, ArrivalsTyped
  <2>2. requests' = Append(requests, r)
    BY <1>2, <2>1
  <2>3. /\ requests' \in Seq(Request) /\ Len(requests') = Len(requests) + 1
        /\ \A i \in 1 .. Len(requests) : requests'[i] = requests[i]
    BY <1>1, <2>2
  <2>4. Issued \subseteq Issued' /\ Len(requests) + 1 \in Issued'
    BY <1>1, <2>3 DEF Issued
  <2>5. \A i \in Issued : RowOf(i)' = RowOf(i)
    BY <2>3 DEF Issued, RowOf, NoRequest
  <2>6. QED
    BY <1>1, <2>1, <2>3, <2>4, <2>5
<1>5. QED
  BY <1>3, <1>4

LEMMA QueuesStep ==
  ASSUME TypeInv, NEW incoming \in Arrivals, NEW bursting, NEW due, ClockEdge(incoming, bursting, due)
  PROVE  queues' \in QueuesOf(Issued)'
<1> DEFINE chosen == Chosen(bursting)
           arriving == Arrival(incoming)
<1>1. queues' = [b \in Banks |-> [k \in Kind |-> QueueAfter(Promotions, arriving, chosen, b, k)]]
  BY DEF ClockEdge
<1>2. ASSUME NEW b \in Banks, NEW k \in Kind
      PROVE  QueueAfter(Promotions, arriving, chosen, b, k) \in CmdQueueOf(Issued')
  <2> DEFINE into == IF Into(arriving, b, k) # {} THEN Into(arriving, b, k)
                     ELSE Into(Promotions, b, k)
             req == IF into = {} THEN NoRequest ELSE (CHOOSE m \in into : TRUE).req
             send == [kind |-> k, bank |-> b] \in chosen
             leave == Leaves(Promotions, arriving, b, k)
  <2>1. QueueAfter(Promotions, arriving, chosen, b, k)
           = Queue!CmdQueueEdge(queues[b][k], into # {}, req, send, leave)
    BY DEF QueueAfter
  <2>2. queues[b][k] \in CmdQueueOf(Issued')
    <3>1. queues \in QueuesOf(Issued')
      BY RequestsStep, Wider DEF TypeInv
    <3>2. QED
      BY <3>1 DEF QueuesOf
  <2>3. (into # {}) => req \in Issued'
    <3>1. \A m \in Promotions \cup arriving : m.req \in Issued'
      BY Moves, RequestsStep
    <3>2. into \subseteq Promotions \cup arriving
      BY DEF Into
    <3>3. QED
      BY <3>1, <3>2
  <2>4. leave \in BOOLEAN
    BY DEF Leaves
  <2> HIDE DEF into, req, send, leave
  <2>5. Queue!CmdQueueEdge(queues[b][k], into # {}, req, send, leave) \in CmdQueueOf(Issued')
    <3>1. send \in BOOLEAN
      BY DEF send
    <3>2. QED
      BY <2>2, <2>3, <2>4, <3>1, CmdQueueStep
  <2>6. QED
    BY <2>1, <2>5
<1>3. queues' \in [Banks -> [Kind -> CmdQueueOf(Issued')]]
  BY <1>1, <1>2
<1>4. QED
  BY <1>3 DEF QueuesOf

LEMMA BanksStep ==
  ASSUME TypeInv, NEW incoming \in Arrivals, NEW bursting, NEW due, ClockEdge(incoming, bursting, due)
  PROVE  banks' \in [Banks -> State!Bank]
<1>1. ASSUME NEW b \in Banks
      PROVE  BankAfter(b, Chosen(bursting)) \in State!Bank
  <2>1. banks[b] \in State!Bank
    BY DEF TypeInv, TypeOK
  <2>2. RowOf(ReadyTop(b, "activate")) \in Row
    BY Tops DEF Kind
  <2>3. QED
    BY <2>1, <2>2, BankStep DEF BankAfter
<1>2. QED
  BY <1>1 DEF ClockEdge

LEMMA OutStep ==
  ASSUME TypeInv, NEW incoming \in Arrivals, NEW bursting, NEW due, ClockEdge(incoming, bursting, due)
  PROVE  out' \in {{}} \cup {{c} : c \in Command}
<1>1. CASE refr_out(refresh)
  <2>1. refresh \in Refresh /\ refresh.row \in Row
    BY DEF TypeInv, TypeOK, Refresh, Row
  <2>2. [kind |-> "read", bank |-> refr_bank_idx(refresh), row |-> refresh.row, id |-> 0] \in Command
    BY <2>1, RefreshBank DEF Command, Kind
  <2>3. QED
    BY <1>1, <2>2 DEF ClockEdge, Output
<1>2. CASE ~refr_out(refresh) /\ Chosen(bursting) = {}
  BY <1>2 DEF ClockEdge, Output
<1>3. CASE ~refr_out(refresh) /\ Chosen(bursting) # {}
  <2>1. PICK c \in Chosen(bursting) : TRUE
    BY <1>3
  <2> DEFINE cmd == [kind |-> c.kind, bank |-> c.bank, row |-> RowOf(ReadyTop(c.bank, c.kind)),
                     id |-> ReadyTop(c.bank, c.kind)]
  <2>2. c.bank \in Banks /\ c.kind \in Kind /\ Chosen(bursting) = {c}
    BY ChosenCommand
  <2>3. /\ RowOf(ReadyTop(c.bank, c.kind)) \in Row
        /\ ReadyTop(c.bank, c.kind) \in Issued /\ c.bank \in AllBanks
    BY <2>2, Tops, Geometry
  <2>4. Issued \subseteq Id \cup {0}
    BY SchedulerAssumption DEF TypeInv, TypeOK, Issued, Id
  <2>5. cmd \in Command
    BY <2>2, <2>3, <2>4 DEF Command
  <2>6. out' = {cmd}
    BY <1>3, <2>2 DEF ClockEdge, Output
  <2>7. QED
    BY <2>5, <2>6
<1>4. QED
  BY <1>1, <1>2, <1>3

LEMMA HistoryStep ==
  ASSUME TypeInv, NEW incoming \in Arrivals, NEW bursting, NEW due, ClockEdge(incoming, bursting, due)
  PROVE  /\ sent' \in [Id -> 0 .. 2]
         /\ row_command' \in [Banks -> [kind : {"activate", "precharge"}, age : 0 .. Settled]]
         /\ mishaps' \subseteq {"crowded", "crossed", "overlooked", "late", "refreshed"}
<1>1. sent' \in [Id -> 0 .. 2]
  <2>1. sent \in [Id -> 0 .. 2]
    BY DEF TypeInv, TypeOK
  <2>2. QED
    BY <2>1 DEF ClockEdge
<1>2. row_command' \in [Banks -> [kind : {"activate", "precharge"}, age : 0 .. Settled]]
  <2>1. Settled \in Nat
    BY SchedulerAssumption DEF Settled
  <2>2. ASSUME NEW b \in Banks
        PROVE  RowCommandAfter(b, Chosen(bursting))
                  \in [kind : {"activate", "precharge"}, age : 0 .. Settled]
    <3> DEFINE now == {c \in Chosen(bursting) : c.bank = b /\ c.kind \in {"activate", "precharge"}}
    <3>1. row_command[b] \in [kind : {"activate", "precharge"}, age : 0 .. Settled]
      BY DEF TypeInv, TypeOK
    <3>2. CASE now # {}
      <4>1. (CHOOSE c \in now : TRUE) \in now
        BY <3>2
      <4>2. QED
        BY <2>1, <3>2, <4>1 DEF RowCommandAfter
    <3>3. CASE now = {}
      <4>1. RowCommandAfter(b, Chosen(bursting)) = [row_command[b] EXCEPT !.age = Older(@, Settled)]
        BY <3>3 DEF RowCommandAfter
      <4>2. QED
        BY <2>1, <3>1, <4>1 DEF Older
    <3>4. QED
      BY <3>2, <3>3
  <2>3. QED
    BY <2>2 DEF ClockEdge
<1>3. mishaps' \subseteq {"crowded", "crossed", "overlooked", "late", "refreshed"}
  BY DEF TypeInv, TypeOK, ClockEdge, Remember
<1>4. QED
  BY <1>1, <1>2, <1>3

LEMMA InitTypeInv == Init => TypeInv
<1> SUFFICES ASSUME Init PROVE TypeInv
  OBVIOUS
<1>1. 0 \in Queue!RingSlot /\ 0 \in 0 .. QUEUE_SIZE /\ QUEUE_SIZE \in Nat
  BY SchedulerAssumption DEF Queue!RingSlot
<1>2. requests = << >> /\ Issued = {0}
  BY DEF Init, Issued
<1>3. Queue!EmptyRing \in RingOf(Issued)
  BY <1>1, <1>2 DEF RingOf, Queue!EmptyRing, NoRequest
<1>4. queues \in QueuesOf(Issued)
  BY <1>3 DEF Init, QueuesOf, CmdQueueOf, Queue!EmptyCmdQueue
<1>5. queues \in [Banks -> [Kind -> Queue!CmdQueue]]
  <2>1. Issued \subseteq Id \cup {NoRequest}
    BY <1>2 DEF NoRequest
  <2>2. queues \in QueuesOf(Id \cup {NoRequest})
    BY <1>4, <2>1, Wider
  <2>3. QED
    BY <2>2 DEF QueuesOf, CmdQueueOf, RingOf, Queue!CmdQueue, Queue!Ring
<1>6. banks \in [Banks -> State!Bank]
  BY SchedulerAssumption, Geometry DEF Init, State!Bank, State!ResetBank
<1>7. refresh \in Refresh /\ refreshes \in 0 .. MaxRefreshes
  BY SchedulerAssumption DEF Init, ResetRefresh, Refresh
<1>8. /\ requests \in Seq(Request) /\ Len(requests) <= MaxRequests
      /\ cycle_counter \in 0 .. Horizon /\ sent \in [Id -> 0 .. 2]
  BY <1>2, SchedulerAssumption DEF Init
<1>9. row_command \in [Banks -> [kind : {"activate", "precharge"}, age : 0 .. Settled]]
  BY SchedulerAssumption DEF Init, Settled
<1>10. /\ since_read \in 0 .. ReadGap /\ since_write \in 0 .. WriteGap
       /\ out \in {{}} \cup {{c} : c \in Command} /\ mem_bus_ready \in BOOLEAN
       /\ mishaps \subseteq {"crowded", "crossed", "overlooked", "late", "refreshed"}
  BY DEF Init, ReadGap, WriteGap
<1>11. QED
  BY <1>4, <1>5, <1>6, <1>7, <1>8, <1>9, <1>10 DEF TypeInv, TypeOK

LEMMA StepTypeInv ==
  ASSUME TypeInv, NEW incoming \in Arrivals, NEW bursting \in Bursting, NEW due \in RefreshDue,
         ClockEdge(incoming, bursting, due)
  PROVE  TypeInv'
<1>1. /\ cycle_counter' \in 0 .. Horizon
      /\ since_read' \in 0 .. ReadGap /\ since_write' \in 0 .. WriteGap
  BY SchedulerAssumption DEF TypeInv, TypeOK, ClockEdge, Older, ReadGap, WriteGap
<1>2. queues' \in QueuesOf(Issued)'
  BY QueuesStep
<1>3. requests' \in Seq(Request) /\ Len(requests') <= MaxRequests
  BY RequestsStep
<1>4. (queues \in [Banks -> [Kind -> Queue!CmdQueue]])'
  <2>1. Issued' \subseteq Id \cup {NoRequest}
    BY <1>3, SchedulerAssumption DEF Issued, Id, NoRequest
  <2>2. queues' \in QueuesOf(Id \cup {NoRequest})
    BY <1>2, <2>1, Wider
  <2>3. QED
    BY <2>2 DEF QueuesOf, CmdQueueOf, RingOf, Queue!CmdQueue, Queue!Ring
<1>5. banks' \in [Banks -> State!Bank]
  BY BanksStep
<1>6. refresh' \in Refresh /\ refreshes' \in 0 .. MaxRefreshes
  <2>1. due \in BOOLEAN /\ (due => refreshes < MaxRefreshes)
    BY DEF RefreshDue
  <2>2. QED
    BY <2>1, RefreshStep, SchedulerAssumption DEF TypeInv, TypeOK, ClockEdge
<1>7. out' \in {{}} \cup {{c} : c \in Command} /\ mem_bus_ready' \in BOOLEAN
  BY OutStep DEF ClockEdge
<1>8. QED
  BY <1>1, <1>2, <1>3, <1>4, <1>5, <1>6, <1>7, HistoryStep DEF TypeInv, TypeOK

\* Every register of scheduler, queues, bank states and refresh keeps its type
\* (mem_scheduler.sv, req_queue.sv, bank_state.sv, auto_refresh.sv), for every
\* geometry, queue size and latency.
THEOREM SchedulerTypeCorrect == Spec => []TypeOK
<1>1. TypeInv /\ [Next]_vars => TypeInv'
  <2> SUFFICES ASSUME TypeInv, [Next]_vars PROVE TypeInv'
    OBVIOUS
  <2>1. CASE Next
    BY <2>1, StepTypeInv DEF Next
  <2>2. CASE UNCHANGED vars
    BY <2>2 DEF vars, schedVars, TypeInv, TypeOK, Issued
  <2>3. QED
    BY <2>1, <2>2
<1>2. TypeInv => TypeOK
  BY DEF TypeInv
<1>3. QED
  BY InitTypeInv, <1>1, <1>2, PTL DEF Spec

-----------------------------------------------------------------------------
(* A refresh step closes its bank.  While it asks for the precharge, a     *)
(* bank that is open is blocked by an activation sent before, and has as   *)
(* many edges of it less to wait as the step has asked.                    *)

RefreshInv ==
    /\ \A b \in Banks : banks[b].active /\ banks[b].blocked => banks[b].cycle_count <= ACTIVATION_LATENCY
    /\ refresh.in_progress /\ refresh.stage \in 1 .. REFRESH_STAGES =>
         LET b == refr_bank_idx(refresh)
         IN  b \in Banks /\ banks[b].active =>
               \/ banks[b].blocked /\ banks[b].cycle_count + refresh.stage <= ACTIVATION_LATENCY
               \/ ~banks[b].blocked /\ refresh.stage <= ACTIVATION_LATENCY + 1

LEMMA InitRefreshInv == Init => RefreshInv
  BY DEF Init, RefreshInv, State!ResetBank, ResetRefresh

LEMMA StepRefreshInv ==
  ASSUME TypeInv, RefreshInv, NEW incoming \in Arrivals, NEW bursting \in Bursting,
         NEW due \in RefreshDue, ClockEdge(incoming, bursting, due)
  PROVE  RefreshInv'
<1> DEFINE asked(b) == \/ refr_out(refresh) /\ refr_bank_idx(refresh) = b
                       \/ \E c \in Chosen(bursting) : c.bank = b /\ c.kind = "precharge"
           opened(b) == \E c \in Chosen(bursting) : c.bank = b /\ c.kind = "activate"
           row(b) == RowOf(ReadyTop(b, "activate"))
<1>1. \A b \in Banks : banks'[b] = State!BankEdge(banks[b], asked(b), opened(b), row(b))
  BY DEF ClockEdge, BankAfter
<1>2. \A b \in Banks : banks[b] \in State!Bank
  BY DEF TypeInv, TypeOK
<1>3. ACTIVATION_LATENCY \in Nat /\ PRECHARGE_LATENCY \in Nat /\ REFRESH_STAGES \in Nat
  BY SchedulerAssumption
<1>4. refr_out(refresh) => \A b \in Banks : ~opened(b)
  BY ChosenCommand
<1> HIDE DEF asked, opened, row
<1>5. ASSUME NEW b \in Banks, banks'[b].active, banks'[b].blocked
      PROVE  banks'[b].cycle_count <= ACTIVATION_LATENCY
  <2>1. banks[b].cycle_count \in Nat
    BY <1>2, <1>3 DEF State!Bank
  <2>2. banks[b].active /\ banks[b].blocked => banks[b].cycle_count <= ACTIVATION_LATENCY
    BY DEF RefreshInv
  <2>3. CASE banks[b].blocked
    <3>1. banks'[b] = [banks[b] EXCEPT !.cycle_count = @ - 1]
      BY <1>1, <1>2, <1>5, <2>3 DEF State!BankEdge, State!Bank
    <3>2. banks'[b].cycle_count = banks[b].cycle_count - 1 /\ banks'[b].active = banks[b].active
      BY <1>2, <3>1 DEF State!Bank
    <3>3. QED
      BY <1>3, <1>5, <2>1, <2>2, <2>3, <3>2
  <2>4. CASE ~banks[b].blocked
    <3>1. banks'[b].cycle_count = ACTIVATION_LATENCY
      BY <1>1, <1>2, <1>5, <2>4 DEF State!BankEdge, State!Bank
    <3>2. QED
      BY <1>3, <3>1
  <2>5. QED
    BY <2>3, <2>4
<1>6. ASSUME refresh'.in_progress, refresh'.stage \in 1 .. REFRESH_STAGES,
             refr_bank_idx(refresh)' \in Banks, banks'[refr_bank_idx(refresh)'].active
      PROVE  LET b == refr_bank_idx(refresh)'
             IN  \/ banks'[b].blocked /\ banks'[b].cycle_count + refresh'.stage <= ACTIVATION_LATENCY
                 \/ ~banks'[b].blocked /\ refresh'.stage <= ACTIVATION_LATENCY + 1
  <2> DEFINE b == refr_bank_idx(refresh)
  <2>1. refresh \in Refresh /\ refresh.stage \in Nat
    BY SchedulerAssumption DEF TypeInv, TypeOK, Refresh
  <2>2. refresh' = [refresh EXCEPT !.stage = @ + 1] /\ refresh.in_progress
    BY <1>6, <2>1 DEF ClockEdge, RefreshEdge, ResetRefresh, NextStep, Refresh
  <2>3. refresh'.stage = refresh.stage + 1 /\ refr_bank_idx(refresh)' = b
    BY <2>1, <2>2 DEF Refresh, refr_bank_idx
  <2>4. refr_out(refresh)
    BY <1>3, <1>6, <2>1, <2>2, <2>3 DEF refr_out
  <2>5. b \in Banks /\ asked(b) /\ ~opened(b)
    BY <1>4, <1>6, <2>3, <2>4 DEF asked
  <2> HIDE DEF b
  <2>6. /\ banks[b] \in State!Bank /\ banks[b].cycle_count \in Nat
        /\ banks'[b] = State!BankEdge(banks[b], asked(b), opened(b), row(b)) /\ banks'[b].active
    <3>1. banks[b] \in State!Bank
      BY <1>2, <2>5
    <3>2. banks[b].cycle_count \in Nat
      BY <1>3, <3>1 DEF State!Bank
    <3>3. banks'[b].active
      BY <1>6, <2>3
    <3>4. QED
      BY <1>1, <2>5, <3>1, <3>2, <3>3
  <2>7. banks[b].blocked /\ banks[b].active
    BY <2>5, <2>6 DEF State!BankEdge, State!Bank
  <2>8. banks[b].cycle_count + refresh.stage <= ACTIVATION_LATENCY
    BY <1>3, <1>6, <2>1, <2>2, <2>3, <2>5, <2>6, <2>7 DEF RefreshInv, b
  <2>9. CASE banks[b].cycle_count = 0
    BY <1>3, <2>1, <2>3, <2>6, <2>7, <2>8, <2>9 DEF State!BankEdge, State!Bank
  <2>10. CASE banks[b].cycle_count # 0
    BY <1>3, <2>1, <2>3, <2>6, <2>7, <2>8, <2>10 DEF State!BankEdge, State!Bank
  <2>11. QED
    BY <2>3, <2>9, <2>10
<1>7. QED
  BY <1>5, <1>6 DEF RefreshInv

\* A refresh step asks for its precharge until the bank is closed (auto_refresh.sv 81
\* against bank_state.sv 39-54), for every latency that StagesAssumption admits.
THEOREM RefreshClosesHolds == Spec => []RefreshCloses
<1>1. TypeInv /\ RefreshInv /\ [Next]_vars => (TypeInv /\ RefreshInv)'
  <2> SUFFICES ASSUME TypeInv, RefreshInv, [Next]_vars PROVE (TypeInv /\ RefreshInv)'
    OBVIOUS
  <2>1. CASE Next
    BY <2>1, StepTypeInv, StepRefreshInv DEF Next
  <2>2. CASE UNCHANGED vars
    BY <2>2 DEF vars, schedVars, TypeInv, TypeOK, Issued, RefreshInv
  <2>3. QED
    BY <2>1, <2>2
<1>2. TypeInv /\ RefreshInv => RefreshCloses
  <2> SUFFICES ASSUME TypeInv, RefreshInv, refresh.in_progress, refresh.stage = REFRESH_STAGES,
                      refr_bank_idx(refresh) \in Banks, banks[refr_bank_idx(refresh)].active
               PROVE  FALSE
    BY DEF RefreshCloses
  <2> DEFINE b == refr_bank_idx(refresh)
  <2>1. /\ REFRESH_STAGES \in Nat \ {0} /\ ACTIVATION_LATENCY \in Nat
        /\ ACTIVATION_LATENCY + 2 <= REFRESH_STAGES
    BY SchedulerAssumption, StagesAssumption
  <2>2. banks[b].cycle_count \in Nat
    BY SchedulerAssumption DEF TypeInv, TypeOK, State!Bank
  <2>3. QED
    BY <2>1, <2>2 DEF RefreshInv
<1>3. QED
  BY InitTypeInv, InitRefreshInv, <1>1, <1>2, PTL DEF Spec

-----------------------------------------------------------------------------
(* Commands are spaced.  What is left of a row command's latency, its bank *)
(* is blocked for.                                                         *)

SpacingInv ==
    \A b \in Banks :
        LET last == row_command[b]
        IN  \/ last.age >= Latency(last.kind)
            \/ banks[b].blocked /\ banks[b].cycle_count + last.age >= Latency(last.kind)

LEMMA LatencyBound ==
  \A k \in {"activate", "precharge"} : Latency(k) \in Nat /\ Latency(k) <= Settled
  BY SchedulerAssumption DEF Latency, Settled

LEMMA InitSpacingInv == Init => SpacingInv
  BY LatencyBound, SchedulerAssumption DEF Init, SpacingInv, Settled

LEMMA StepSpacingInv ==
  ASSUME TypeInv, SpacingInv, NEW incoming \in Arrivals, NEW bursting \in Bursting,
         NEW due \in RefreshDue, ClockEdge(incoming, bursting, due)
  PROVE  SpacingInv'
<1> SUFFICES ASSUME NEW b \in Banks
             PROVE  LET last == row_command'[b]
                    IN  \/ last.age >= Latency(last.kind)
                        \/ banks'[b].blocked /\ banks'[b].cycle_count + last.age >= Latency(last.kind)
  BY DEF SpacingInv
<1> DEFINE chosen == Chosen(bursting)
           now == {c \in chosen : c.bank = b /\ c.kind \in {"activate", "precharge"}}
<1>1. /\ row_command[b] \in [kind : {"activate", "precharge"}, age : 0 .. Settled]
      /\ row_command'[b] = RowCommandAfter(b, chosen) /\ banks'[b] = BankAfter(b, chosen)
      /\ banks[b] \in State!Bank
  BY DEF TypeInv, TypeOK, ClockEdge
<1>2. /\ ACTIVATION_LATENCY \in Nat /\ PRECHARGE_LATENCY \in Nat /\ Settled \in Nat
      /\ Latency("activate") = ACTIVATION_LATENCY /\ Latency("precharge") = PRECHARGE_LATENCY
  BY SchedulerAssumption DEF Settled, Latency
<1>3. CASE now # {}
  <2>1. PICK c \in now : now = {c}
    BY <1>3, ChosenCommand
  <2>2. /\ c.bank = b /\ c.kind \in {"activate", "precharge"} /\ chosen = {c}
        /\ ~refr_out(refresh) /\ ~banks[b].blocked
    BY ChosenCommand DEF Sendable
  <2>3. row_command'[b] = [kind |-> c.kind, age |-> 0]
    BY <1>1, <2>1 DEF RowCommandAfter
  <2>4. banks'[b].blocked /\ banks'[b].cycle_count = Latency(c.kind)
    <3>1. CASE c.kind = "precharge"
      BY <1>1, <1>2, <2>2, <3>1 DEF BankAfter, State!BankEdge, State!Bank
    <3>2. CASE c.kind = "activate"
      BY <1>1, <1>2, <2>2, <3>2 DEF BankAfter, State!BankEdge, State!Bank
    <3>3. QED
      BY <2>2, <3>1, <3>2
  <2>5. QED
    BY <1>2, <2>2, <2>3, <2>4
<1>4. CASE now = {}
  <2> DEFINE kind == row_command[b].kind
             age == row_command[b].age
             count == banks[b].cycle_count
  <2>1. row_command'[b].kind = kind /\ row_command'[b].age = Older(age, Settled)
    BY <1>1, <1>4 DEF RowCommandAfter
  <2>2. Latency(kind) \in Nat /\ Latency(kind) <= Settled /\ age \in 0 .. Settled
    BY <1>1, LatencyBound
  <2>3. count \in Nat
    BY <1>1, <1>2 DEF State!Bank
  <2>4. CASE age >= Latency(kind)
    <3>1. Older(age, Settled) >= Latency(kind)
      BY <1>2, <2>2, <2>4 DEF Older
    <3>2. QED
      BY <2>1, <3>1
  <2>5. CASE age < Latency(kind) /\ banks[b].blocked /\ count + age >= Latency(kind)
    <3>1. Older(age, Settled) = age + 1 /\ count # 0
      BY <1>2, <2>2, <2>3, <2>5 DEF Older
    <3>2. banks'[b].blocked /\ banks'[b].cycle_count = count - 1
      BY <1>1, <2>5, <3>1 DEF BankAfter, State!BankEdge, State!Bank
    <3>3. QED
      BY <2>1, <2>2, <2>3, <2>5, <3>1, <3>2
  <2>6. QED
    BY <2>2, <2>4, <2>5 DEF SpacingInv
<1>5. QED
  BY <1>3, <1>4

\* The step that CommandsSpaced is about.
LEMMA StepSpaced ==
  ASSUME TypeInv, SpacingInv, NEW incoming \in Arrivals, NEW bursting \in Bursting,
         NEW due \in RefreshDue, ClockEdge(incoming, bursting, due),
         NEW c \in out', c.id # NoRequest
  PROVE  row_command[c.bank].age >= Latency(row_command[c.bank].kind)
<1>1. ~refr_out(refresh)
  BY DEF ClockEdge, Output, NoRequest
<1>2. PICK d \in Chosen(bursting) : c.bank = d.bank
  BY <1>1 DEF ClockEdge, Output
<1>3. d.bank \in Banks /\ ~banks[d.bank].blocked
  BY ChosenCommand DEF Sendable
<1>4. QED
  BY <1>2, <1>3 DEF SpacingInv

\* No command for a request goes to a bank before the last activation or precharge
\* sent to it has taken its latency (mem_scheduler.sv 122-126 and bank_state.sv
\* 39-61), whatever the promotions do, for all latencies.
THEOREM CommandsSpacedHolds == Spec => CommandsSpaced
<1> DEFINE Spaced == \A c \in out' : c.id # NoRequest =>
                        LET last == row_command[c.bank] IN last.age >= Latency(last.kind)
<1>1. TypeInv /\ SpacingInv /\ [Next]_vars => (TypeInv /\ SpacingInv)'
  <2> SUFFICES ASSUME TypeInv, SpacingInv, [Next]_vars PROVE (TypeInv /\ SpacingInv)'
    OBVIOUS
  <2>1. CASE Next
    BY <2>1, StepTypeInv, StepSpacingInv DEF Next
  <2>2. CASE UNCHANGED vars
    BY <2>2 DEF vars, schedVars, TypeInv, TypeOK, Issued, SpacingInv
  <2>3. QED
    BY <2>1, <2>2
<1>2. TypeInv /\ SpacingInv /\ [Next]_vars => [Spaced]_vars
  BY StepSpaced DEF Next
<1>3. QED
  BY InitTypeInv, InitSpacingInv, <1>1, <1>2, PTL DEF Spec, CommandsSpaced

-----------------------------------------------------------------------------
(* A stuck read stays.  It has priority, so that nothing but reads is      *)
(* sent, and is itself not sent, so that its queue keeps its top.          *)

\* A ring that gives nothing keeps its top, and a request it takes is counted.
LEMMA TopKept ==
  ASSUME NEW S, NEW q \in RingOf(S), NEW enqueue \in BOOLEAN, NEW r,
         NEW p, p = Queue!RingEdge(q, enqueue, FALSE, r)
  PROVE  /\ Queue!empty(p) => Queue!empty(q) /\ ~enqueue
         /\ ~Queue!empty(q) \/ ~enqueue => Queue!req_out(p) = Queue!req_out(q)
<1> DEFINE sum == q.head + q.size
           at == sum % QUEUE_SIZE
           takes == enqueue /\ ~Queue!full(q)
<1>1. QUEUE_SIZE \in Nat \ {0} /\ q.head \in 0 .. QUEUE_SIZE - 1 /\ q.size \in 0 .. QUEUE_SIZE
  BY SchedulerAssumption DEF RingOf, Queue!RingSlot
<1>2. q.slots \in [Queue!RingSlot -> S] /\ q.head \in Queue!RingSlot
  BY DEF RingOf
<1>3. /\ p.head = q.head
      /\ p.size = IF takes THEN q.size + 1 ELSE q.size
      /\ p.slots = IF takes THEN [q.slots EXCEPT ![at] = r] ELSE q.slots
  BY DEF Queue!RingEdge
<1>4. takes => enqueue /\ q.size # QUEUE_SIZE
  BY DEF Queue!full
<1>5. ~takes => ~enqueue \/ q.size = QUEUE_SIZE
  BY DEF Queue!full
<1> HIDE DEF at, takes
<1>6. Queue!empty(p) => Queue!empty(q) /\ ~enqueue
  <2>1. CASE takes
    <3>1. p.size = q.size + 1
      BY <1>3, <2>1
    <3>2. q.size + 1 # 0
      BY <1>1
    <3>3. QED
      BY <3>1, <3>2 DEF Queue!empty
  <2>2. CASE ~takes
    <3>1. p.size = q.size /\ (q.size = 0 => q.size # QUEUE_SIZE)
      BY <1>1, <1>3, <2>2
    <3>2. QED
      BY <1>5, <2>2, <3>1 DEF Queue!empty
  <2>3. QED
    BY <2>1, <2>2
<1>7. q.size # 0 /\ q.size # QUEUE_SIZE => at # q.head
  <2>1. SUFFICES ASSUME q.size \in 1 .. QUEUE_SIZE - 1 PROVE at # q.head
    BY <1>1
  <2>2. sum \in 0 .. 2 * QUEUE_SIZE - 1
    BY <1>1, <2>1
  <2> HIDE DEF sum
  <2>3. at = IF sum < QUEUE_SIZE THEN sum ELSE sum - QUEUE_SIZE
    BY <1>1, <2>2, RemainderOnce DEF at
  <2>4. QED
    BY <1>1, <2>1, <2>3 DEF sum
<1> HIDE DEF sum
<1>8. ~Queue!empty(q) \/ ~enqueue => Queue!req_out(p) = Queue!req_out(q)
  <2>1. CASE takes
    BY <1>2, <1>3, <1>4, <1>7, <2>1 DEF Queue!req_out, Queue!empty
  <2>2. CASE ~takes
    BY <1>3, <2>2 DEF Queue!req_out
  <2>3. QED
    BY <2>1, <2>2
<1>9. QED
  BY <1>6, <1>8

LEMMA StepStuck ==
  ASSUME TypeInv, NEW incoming \in Arrivals, NEW bursting \in Bursting, NEW due \in RefreshDue,
         ClockEdge(incoming, bursting, due),
         NEW b \in Banks, Stuck(b), Queue!ready_empty(queues[b]["write"])
  PROVE  Stuck(b)' \/ ~Queue!ready_empty(queues[b]["write"])'
<1> DEFINE chosen == Chosen(bursting)
           arriving == Arrival(incoming)
<1>1. read_prio
  BY DEF Stuck, read_prio
<1>2. \A c \in chosen : c.kind = "read" /\ Sendable(c.bank, c.kind)
  <2>1. CASE ReadTurn
    BY <2>1, ChosenCommand
  <2>2. CASE ~ReadTurn
    BY <1>1, <2>2 DEF Chosen, OtherTurn
  <2>3. QED
    BY <2>1, <2>2
<1>3. \A k \in {"read", "write"} : [kind |-> k, bank |-> b] \notin chosen
  BY <1>2 DEF Stuck, Sendable
<1>4. ASSUME NEW k \in {"read", "write"}
      PROVE  \E enqueue \in BOOLEAN : \E r :
                queues'[b][k].ready = Queue!RingEdge(queues[b][k].ready, enqueue, FALSE, r)
  <2> DEFINE into == IF Into(arriving, b, k) # {} THEN Into(arriving, b, k)
                     ELSE Into(Promotions, b, k)
             req == IF into = {} THEN NoRequest ELSE (CHOOSE m \in into : TRUE).req
  <2>1. queues'[b][k] = QueueAfter(Promotions, arriving, chosen, b, k)
    BY DEF ClockEdge, Kind
  <2>2. queues'[b][k].ready
           = Queue!RingEdge(queues[b][k].ready, into # {}, [kind |-> k, bank |-> b] \in chosen, req)
    BY <2>1 DEF QueueAfter, Queue!CmdQueueEdge
  <2>3. ([kind |-> k, bank |-> b] \in chosen) = FALSE
    BY <1>3
  <2> HIDE DEF into, req
  <2>4. queues'[b][k].ready = Queue!RingEdge(queues[b][k].ready, into # {}, FALSE, req)
    BY <2>2, <2>3
  <2>5. (into # {}) \in BOOLEAN
    OBVIOUS
  <2>6. QED
    BY <2>4, <2>5
<1>5. /\ queues[b]["read"].ready \in RingOf(Issued)
      /\ queues[b]["write"].ready \in RingOf(Issued)
  BY Tops DEF Kind, CmdQueueOf
<1>6. ASSUME NEW k \in {"read", "write"}
      PROVE  LET q == queues[b][k].ready
                 p == queues'[b][k].ready
             IN  ~Queue!empty(q) \/ Queue!empty(p) =>
                    (Queue!empty(p) => Queue!empty(q)) /\ Queue!req_out(p) = Queue!req_out(q)
  <2> DEFINE q == queues[b][k].ready
             p == queues'[b][k].ready
  <2>1. PICK enqueue \in BOOLEAN : \E r : p = Queue!RingEdge(q, enqueue, FALSE, r)
    BY <1>4
  <2>2. PICK r : p = Queue!RingEdge(q, enqueue, FALSE, r)
    BY <2>1
  <2>3. q \in RingOf(Issued)
    BY <1>5
  <2> HIDE DEF p, q
  <2>4. /\ Queue!empty(p) => Queue!empty(q) /\ ~enqueue
        /\ ~Queue!empty(q) \/ ~enqueue => Queue!req_out(p) = Queue!req_out(q)
    BY <2>2, <2>3, TopKept
  <2>5. ~Queue!empty(q) \/ Queue!empty(p) =>
           (Queue!empty(p) => Queue!empty(q)) /\ Queue!req_out(p) = Queue!req_out(q)
    BY <2>4
  <2>6. QED
    BY <2>5 DEF p, q
<1>7. /\ ~Queue!ready_empty(queues'[b]["read"])
      /\ Queue!ready_top(queues'[b]["read"]) = Queue!ready_top(queues[b]["read"])
      /\ \/ ~Queue!ready_empty(queues'[b]["write"])
         \/ Queue!ready_top(queues'[b]["write"]) = Queue!ready_top(queues[b]["write"])
  <2>1. ~Queue!empty(queues[b]["read"].ready)
    BY DEF Stuck, Queue!ready_empty
  <2>2. QED
    BY <1>6, <2>1 DEF Queue!ready_empty, Queue!ready_top
<1>8. banks'[b].active_row = banks[b].active_row
  <2>1. banks[b] \in State!Bank
    BY DEF TypeInv, TypeOK
  <2>2. ~\E c \in chosen : c.bank = b /\ c.kind = "activate"
    BY <1>2
  <2>3. QED
    BY <2>1, <2>2 DEF ClockEdge, BankAfter, State!BankEdge, State!Bank
<1>9. RowOf(ReadyTop(b, "read"))' = RowOf(ReadyTop(b, "read"))
  <2>1. ReadyTop(b, "read")' = ReadyTop(b, "read") /\ ReadyTop(b, "read") \in Issued
    BY <1>7, Tops DEF ReadyTop, Kind
  <2>2. QED
    BY <2>1, RequestsStep DEF RowOf
<1>10. QED
  BY <1>7, <1>8, <1>9 DEF Stuck, ReadyTop

\* A read that has priority while another row than its own was last activated stays
\* where it is, whatever else happens, until a write of its bank comes in behind it
\* (mem_scheduler.sv 494, 516): nothing that could open its row is sent.
THEOREM StuckStaysHolds == Spec => StuckStays
<1> DEFINE Stays == \A b \in Banks :
                       Stuck(b) /\ Queue!ready_empty(queues[b]["write"]) =>
                          Stuck(b)' \/ ~Queue!ready_empty(queues[b]["write"])'
<1>1. TypeInv /\ [Next]_vars => TypeInv'
  <2> SUFFICES ASSUME TypeInv, [Next]_vars PROVE TypeInv'
    OBVIOUS
  <2>1. CASE Next
    BY <2>1, StepTypeInv DEF Next
  <2>2. CASE UNCHANGED vars
    BY <2>2 DEF vars, schedVars, TypeInv, TypeOK, Issued
  <2>3. QED
    BY <2>1, <2>2
<1>2. TypeInv /\ [Next]_vars => [Stays]_vars
  BY StepStuck DEF Next
<1>3. QED
  BY InitTypeInv, <1>1, <1>2, PTL DEF Spec, StuckStays
-----------------------------------------------------------------------------
(* The books.  A place is a slot of one of the rings; a live one, among    *)
(* the `size' slots from the head on, holds a request.                     *)

Side == {"ready", "pending"}
Place == [bank : Banks, kind : Kind, side : Side, slot : Queue!RingSlot]

Offset(h, s) == IF s >= h THEN s - h ELSE s - h + QUEUE_SIZE
Live(q) == {s \in Queue!RingSlot : Offset(q.head, s) < q.size}
NewSlot(q) == (q.head + q.size) % QUEUE_SIZE

RingAt(p) == IF p.side = "ready" THEN queues[p.bank][p.kind].ready
             ELSE queues[p.bank][p.kind].pending
At(p, i) == p.slot \in Live(RingAt(p)) /\ RingAt(p).slots[p.slot] = i

\* The slot n places behind the head.
LEMMA SlotAfter ==
  ASSUME NEW m \in Nat \ {0}, NEW h \in 0 .. m - 1, NEW n \in 0 .. m
  PROVE  (h + n) % m = IF h + n < m THEN h + n ELSE h + n - m
<1> DEFINE sum == h + n
<1>1. sum \in 0 .. 2 * m - 1
  OBVIOUS
<1> HIDE DEF sum
<1>2. sum % m = IF sum < m THEN sum ELSE sum - m
  BY <1>1, RemainderOnce
<1>3. QED
  BY <1>2 DEF sum

\* What an edge does to the live slots of a ring, q before it and p after.
RingMoved(q, p, enqueue, dequeue, r) ==
    /\ \A s \in Live(p) :
         \/ s \in Live(q) /\ p.slots[s] = q.slots[s] /\ ~(dequeue /\ s = q.head)
         \/ s = NewSlot(q) /\ p.slots[s] = r /\ enqueue
    /\ \A s \in Live(q) : ~(dequeue /\ s = q.head) => s \in Live(p) /\ p.slots[s] = q.slots[s]
    /\ enqueue /\ ~Queue!full(q) /\ ~dequeue =>
         NewSlot(q) \in Live(p) /\ p.slots[NewSlot(q)] = r
    /\ ~Queue!empty(q) => q.head \in Live(q)

LEMMA RingMove ==
  ASSUME NEW S, NEW q \in RingOf(S), NEW enqueue \in BOOLEAN, NEW dequeue \in BOOLEAN, NEW r,
         NEW p, p = Queue!RingEdge(q, enqueue, dequeue, r),
         dequeue => ~Queue!empty(q)
  PROVE  RingMoved(q, p, enqueue, dequeue, r)
<1> USE DEF RingMoved
<1> DEFINE h == q.head
           n == q.size
           t == (h + n) % QUEUE_SIZE
           g == (h + 1) % QUEUE_SIZE
           takes == enqueue /\ ~Queue!full(q)
<1>1. /\ QUEUE_SIZE \in Nat \ {0} /\ h \in 0 .. QUEUE_SIZE - 1 /\ n \in 0 .. QUEUE_SIZE
      /\ q.slots \in [0 .. QUEUE_SIZE - 1 -> S] /\ Queue!RingSlot = 0 .. QUEUE_SIZE - 1
  BY SchedulerAssumption DEF RingOf, Queue!RingSlot
<1>2. /\ p.slots = IF takes THEN [q.slots EXCEPT ![t] = r] ELSE q.slots
      /\ p.head = IF dequeue THEN g ELSE h
      /\ p.size = IF dequeue THEN n - 1 ELSE IF takes THEN n + 1 ELSE n
  BY DEF Queue!RingEdge
<1>3. (takes => enqueue /\ n < QUEUE_SIZE) /\ (enqueue /\ ~Queue!full(q) => takes)
      /\ (dequeue => n > 0) /\ (~Queue!empty(q) => n > 0) /\ NewSlot(q) = t
  BY <1>1 DEF Queue!full, Queue!empty, NewSlot
<1> HIDE DEF takes, h, n
<1>0. /\ t = IF h + n < QUEUE_SIZE THEN h + n ELSE h + n - QUEUE_SIZE
      /\ g = IF h + 1 < QUEUE_SIZE THEN h + 1 ELSE h + 1 - QUEUE_SIZE
  <2>1. 1 \in 0 .. QUEUE_SIZE
    BY <1>1
  <2>2. QED
    BY <1>1, <2>1, SlotAfter
<1> HIDE DEF t, g
<1>4. /\ t \in 0 .. QUEUE_SIZE - 1 /\ (n < QUEUE_SIZE => ~(Offset(h, t) < n))
      /\ n > 0 => Offset(h, h) < n
  BY <1>0, <1>1 DEF Offset
<1>5. /\ \A s : s \in Live(q) <=> s \in 0 .. QUEUE_SIZE - 1 /\ Offset(h, s) < n
      /\ \A s : s \in Live(p) <=> s \in 0 .. QUEUE_SIZE - 1 /\ Offset(p.head, s) < p.size
  BY <1>1 DEF Live, h, n
<1>6. t \in 0 .. QUEUE_SIZE - 1
  BY <1>1, <1>4
<1>7. /\ takes => p.slots[t] = r
      /\ \A s \in 0 .. QUEUE_SIZE - 1 : s # t \/ ~takes => p.slots[s] = q.slots[s]
  BY <1>1, <1>2, <1>6
<1>8. \A s \in Live(q) : p.slots[s] = q.slots[s] /\ s \in 0 .. QUEUE_SIZE - 1
  <2>1. \A s \in Live(q) : takes => s # t
    BY <1>1, <1>3, <1>4, <1>5
  <2>2. QED
    BY <1>5, <1>7, <2>1
<1>9. n > 0 => h \in Live(q)
  BY <1>1, <1>4, <1>5
<1>10. CASE dequeue
  <2>1. p.head = g /\ p.size = n - 1
    BY <1>2, <1>10
  <2>2. ASSUME NEW s \in 0 .. QUEUE_SIZE - 1
        PROVE  Offset(g, s) < n - 1 <=> Offset(h, s) < n /\ s # h
    BY <1>0, <1>1 DEF Offset
  <2>3. \A s : s \in Live(p) <=> s \in Live(q) /\ s # h
    BY <1>5, <2>1, <2>2
  <2>4. QED
    BY <1>3, <1>7, <1>8, <1>9, <1>10, <2>3 DEF h
<1>11. CASE ~dequeue
  <2>1. p.head = h /\ p.size = IF takes THEN n + 1 ELSE n
    BY <1>2, <1>11
  <2>2. ASSUME NEW s \in 0 .. QUEUE_SIZE - 1, takes
        PROVE  Offset(h, s) < n + 1 <=> Offset(h, s) < n \/ s = t
    BY <1>0, <1>1, <1>3, <2>2 DEF Offset
  <2>3. \A s : s \in Live(p) <=> s \in Live(q) \/ (s = t /\ takes)
    BY <1>5, <1>6, <2>1, <2>2
  <2>4. QED
    BY <1>3, <1>7, <1>8, <1>9, <1>11, <2>3 DEF h
<1>12. QED
  BY <1>10, <1>11

\* A ring with room that gives nothing takes what comes.
LEMMA RingTakes ==
  ASSUME NEW S, NEW q \in RingOf(S), NEW enqueue \in BOOLEAN, NEW dequeue \in BOOLEAN, NEW r,
         NEW p, p = Queue!RingEdge(q, enqueue, dequeue, r), enqueue, ~dequeue, ~Queue!full(q)
  PROVE  NewSlot(q) \in Live(p) /\ p.slots[NewSlot(q)] = r
<1>1. RingMoved(q, p, enqueue, dequeue, r)
  BY RingMove
<1>2. QED
  BY <1>1 DEF RingMoved

\* The positions of r in a ring are the distances of its live slots from the head.
LEMMA PositionsLive ==
  ASSUME NEW S, NEW q \in RingOf(S), NEW r
  PROVE  /\ \A k \in Queue!Positions(q, r) :
              \E s \in Live(q) : q.slots[s] = r /\ Offset(q.head, s) = k
         /\ \A s \in Live(q) : q.slots[s] = r =>
              Offset(q.head, s) \in Queue!Positions(q, r) /\ Offset(q.head, s) \in Queue!RingSlot
<1> DEFINE h == q.head
           n == q.size
           slot(k) == IF h + k < QUEUE_SIZE THEN h + k ELSE h + k - QUEUE_SIZE
<1>1. QUEUE_SIZE \in Nat \ {0} /\ h \in 0 .. QUEUE_SIZE - 1 /\ n \in 0 .. QUEUE_SIZE /\ Queue!RingSlot = 0 .. QUEUE_SIZE - 1
  BY SchedulerAssumption DEF RingOf, Queue!RingSlot
<1>2. ASSUME NEW k \in 0 .. n - 1
      PROVE  /\ (h + k) % QUEUE_SIZE = slot(k) /\ slot(k) \in Live(q)
             /\ Offset(h, slot(k)) = k
  <2>1. k \in 0 .. QUEUE_SIZE /\ k < n
    BY <1>1
  <2>2. (h + k) % QUEUE_SIZE = slot(k)
    BY <1>1, <2>1, SlotAfter
  <2>3. slot(k) \in 0 .. QUEUE_SIZE - 1 /\ Offset(h, slot(k)) = k
    <3> HIDE DEF h, n
    <3>1. CASE h + k < QUEUE_SIZE
      BY <1>1, <2>1, <3>1 DEF Offset
    <3>2. CASE ~(h + k < QUEUE_SIZE)
      BY <1>1, <2>1, <3>2 DEF Offset
    <3>3. QED
      BY <3>1, <3>2
  <2>4. QED
    BY <1>1, <2>1, <2>2, <2>3 DEF Live
<1>3. ASSUME NEW s \in Live(q)
      PROVE  /\ Offset(h, s) \in 0 .. n - 1 /\ slot(Offset(h, s)) = s
             /\ Offset(h, s) \in Queue!RingSlot
  BY <1>1 DEF Live, Offset
<1> HIDE DEF slot
<1>4. Queue!Positions(q, r) = {k \in 0 .. n - 1 : q.slots[(h + k) % QUEUE_SIZE] = r}
  BY DEF Queue!Positions
<1>5. ASSUME NEW k \in Queue!Positions(q, r)
      PROVE  \E s \in Live(q) : q.slots[s] = r /\ Offset(h, s) = k
  BY <1>2, <1>4
<1>6. ASSUME NEW s \in Live(q), q.slots[s] = r
      PROVE  Offset(h, s) \in Queue!Positions(q, r)
  BY <1>2, <1>3, <1>4, <1>6
<1>7. QED
  BY <1>3, <1>5, <1>6

\* The place at the top of a ring, a place that gives up its request, and where the
\* request goes: from `ready' to `pending', from there to the next command.
Gives(p, incoming, bursting) ==
    /\ p.slot = RingAt(p).head
    /\ IF p.side = "ready" THEN [kind |-> p.kind, bank |-> p.bank] \in Chosen(bursting)
       ELSE Leaves(Promotions, Arrival(incoming), p.bank, p.kind)

Enters(o, p) ==
    /\ p.bank = o.bank /\ p.slot = NewSlot(RingAt(p))
    /\ IF o.side = "ready" THEN p.side = "pending" /\ p.kind = o.kind
       ELSE p.side = "ready" /\ p.kind = Onward(o.kind, PendingTop(o.bank, o.kind))

Arrives(p, incoming) ==
    /\ p.side = "ready" /\ p.slot = NewSlot(RingAt(p))
    /\ \E r \in incoming : r.bank = p.bank /\ Route(r) = p.kind

LEMMA KindDistinct ==
  /\ Kind = {"read", "write", "activate", "precharge"} /\ "" \notin Kind
  /\ \A i : Onward("precharge", i) = "activate"
  /\ \A i : Onward("activate", i) = IF requests[i].write THEN "write" ELSE "read"
  /\ \A i : \A k \in Column : Onward(k, i) = ""
  BY DEF Kind, Onward, Column

\* A pending top leaves when it is to be promoted and nothing comes in where it goes.
LEMMA LeavesMeans ==
  ASSUME NEW arriving, NEW b \in Banks, NEW k \in Kind
  PROVE  Leaves(Promotions, arriving, b, k) <=>
            /\ Queue!promote(queues[b][k], Latency(k), cycle_counter)
            /\ Into(arriving, b, Onward(k, PendingTop(b, k))) = {}
<1>1. ASSUME NEW m \in Promotions, m.bank = b, m.from = k
      PROVE  /\ Queue!promote(queues[b][k], Latency(k), cycle_counter)
             /\ m.to = Onward(k, PendingTop(b, k))
  <2>1. PICK c \in Banks, l \in Kind :
           m = Promotion(c, l) /\ Queue!promote(queues[c][l], Latency(l), cycle_counter)
    BY DEF Promotions
  <2>2. QED
    BY <1>1, <2>1 DEF Promotion
<1>2. ASSUME Queue!promote(queues[b][k], Latency(k), cycle_counter)
      PROVE  Promotion(b, k) \in Promotions
  <2>1. << b, k >> \in {q \in Banks \X Kind :
                          Queue!promote(queues[q[1]][q[2]], Latency(q[2]), cycle_counter)}
    BY <1>2
  <2>2. QED
    BY <2>1 DEF Promotions
<1>3. /\ Promotion(b, k).bank = b /\ Promotion(b, k).from = k
      /\ Promotion(b, k).to = Onward(k, PendingTop(b, k))
  BY DEF Promotion
<1>4. QED
  BY <1>1, <1>2, <1>3 DEF Leaves

\* At most one promotion enters a queue.
LEMMA IntoPromoted ==
  ASSUME NEW b \in Banks, NEW k \in Kind, NEW m \in Into(Promotions, b, k)
  PROVE  /\ m.from \in Kind /\ m = Promotion(b, m.from) /\ Into(Promotions, b, k) = {m}
         /\ Queue!promote(queues[b][m.from], Latency(m.from), cycle_counter)
         /\ Onward(m.from, PendingTop(b, m.from)) = k /\ m.req = PendingTop(b, m.from)
<1>1. ASSUME NEW n \in Into(Promotions, b, k)
      PROVE  /\ n.from \in Kind /\ n = Promotion(b, n.from)
             /\ Queue!promote(queues[b][n.from], Latency(n.from), cycle_counter)
             /\ Onward(n.from, PendingTop(b, n.from)) = k
             /\ n.from = IF k = "activate" THEN "precharge" ELSE "activate"
             /\ n.req = PendingTop(b, n.from)
  <2>1. n \in Promotions /\ n.bank = b /\ n.to = k
    BY DEF Into
  <2>2. PICK c \in Banks, l \in Kind :
           n = Promotion(c, l) /\ Queue!promote(queues[c][l], Latency(l), cycle_counter)
    BY <2>1 DEF Promotions
  <2>3. c = b /\ n.from = l /\ Onward(l, PendingTop(b, l)) = k /\ n.req = PendingTop(b, l)
    BY <2>1, <2>2 DEF Promotion
  <2>4. l = IF k = "activate" THEN "precharge" ELSE "activate"
    <3>1. l \notin Column
      BY <2>3, KindDistinct
    <3>2. l = "precharge" => k = "activate"
      BY <2>3, KindDistinct
    <3>3. l = "activate" => k # "activate"
      <4>1. l = "activate" => k \in {"read", "write"}
        BY <2>3, KindDistinct
      <4>2. QED
        BY <4>1
    <3>4. QED
      BY <3>1, <3>2, <3>3 DEF Kind, Column
  <2>5. QED
    BY <2>2, <2>3, <2>4
<1>2. \A n \in Into(Promotions, b, k) : n = m
  <2>1. \A n \in Into(Promotions, b, k) : n.from = m.from
    BY <1>1
  <2>2. QED
    BY <1>1, <2>1
<1>3. QED
  BY <1>1, <1>2

\* An edge, ring by ring.
LEMMA RingsStep ==
  ASSUME TypeInv, NEW incoming \in Arrivals, NEW bursting, NEW due,
         ClockEdge(incoming, bursting, due), NEW b \in Banks, NEW k \in Kind
  PROVE  LET c == queues[b][k]
             arriving == Arrival(incoming)
             into == IF Into(arriving, b, k) # {} THEN Into(arriving, b, k)
                     ELSE Into(Promotions, b, k)
             send == [kind |-> k, bank |-> b] \in Chosen(bursting)
             leave == Leaves(Promotions, arriving, b, k)
         IN  /\ queues'[b][k].ready = Queue!RingEdge(c.ready, into # {}, send,
                        IF into = {} THEN NoRequest ELSE (CHOOSE m \in into : TRUE).req)
             /\ queues'[b][k].pending = Queue!RingEdge(c.pending, send, leave, ReadyTop(b, k))
             /\ c.ready \in RingOf(Issued) /\ c.pending \in RingOf(Issued)
             /\ send => ~Queue!empty(c.ready)
             /\ leave => ~Queue!empty(c.pending)
             /\ send \in BOOLEAN /\ leave \in BOOLEAN
<1> DEFINE arriving == Arrival(incoming)
<1>1. queues'[b][k] = QueueAfter(Promotions, arriving, Chosen(bursting), b, k)
  BY DEF ClockEdge
<1>2. queues[b][k].ready \in RingOf(Issued) /\ queues[b][k].pending \in RingOf(Issued)
  BY Tops DEF CmdQueueOf
<1>3. ASSUME [kind |-> k, bank |-> b] \in Chosen(bursting)
      PROVE  ~Queue!empty(queues[b][k].ready)
  <2>1. Sendable(b, k)
    BY <1>3, ChosenCommand
  <2>2. QED
    BY <2>1 DEF Sendable, Queue!ready_empty
<1>4. Leaves(Promotions, arriving, b, k) => ~Queue!empty(queues[b][k].pending)
  BY LeavesMeans DEF Queue!promote
<1>5. Leaves(Promotions, arriving, b, k) \in BOOLEAN
  BY DEF Leaves
<1>6. QED
  BY <1>1, <1>2, <1>3, <1>4, <1>5 DEF QueueAfter, Queue!CmdQueueEdge, ReadyTop

\* What comes in at one edge is one request, for one queue.
LEMMA IntoArrival ==
  ASSUME TypeInv, NEW incoming \in Arrivals, NEW b, NEW k
  PROVE  \/ Into(Arrival(incoming), b, k) = {}
         \/ \E r \in incoming : \E m :
               /\ Into(Arrival(incoming), b, k) = {m} /\ m.req = Len(requests) + 1
               /\ incoming = {r} /\ r.bank = b /\ Route(r) = k
<1>1. CASE incoming = {}
  BY <1>1 DEF Into, Arrival
<1>2. CASE incoming # {}
  <2>1. PICK r \in Request : incoming = {r}
    BY <1>2, ArrivalsTyped
  <2> DEFINE m == [bank |-> r.bank, from |-> "", to |-> Route(r), req |-> Len(requests) + 1]
  <2>2. Arrival(incoming) = {m}
    BY <2>1 DEF Arrival
  <2>3. m.bank = r.bank /\ m.to = Route(r) /\ m.req = Len(requests) + 1
    OBVIOUS
  <2> HIDE DEF m
  <2>4. Into(Arrival(incoming), b, k) = IF m.bank = b /\ m.to = k THEN {m} ELSE {}
    <3>1. Into({m}, b, k) = IF m.bank = b /\ m.to = k THEN {m} ELSE {}
      BY DEF Into
    <3>2. QED
      BY <2>2, <3>1
  <2>5. QED
    BY <2>1, <2>3, <2>4
<1>3. QED
  BY <1>1, <1>2

\* The top of a ring that is not empty is a place, and the one that gives.
LEMMA TopPlace ==
  ASSUME TypeInv, NEW b \in Banks, NEW k \in Kind
  PROVE  /\ ~Queue!empty(queues[b][k].ready) =>
              \E p \in Place : /\ p.bank = b /\ p.kind = k /\ p.side = "ready"
                              /\ p.slot = RingAt(p).head /\ At(p, ReadyTop(b, k))
         /\ ~Queue!empty(queues[b][k].pending) =>
              \E p \in Place : /\ p.bank = b /\ p.kind = k /\ p.side = "pending"
                              /\ p.slot = RingAt(p).head /\ At(p, PendingTop(b, k))
<1>1. /\ queues[b][k].ready \in RingOf(Issued) /\ queues[b][k].pending \in RingOf(Issued)
      /\ ReadyTop(b, k) = queues[b][k].ready.slots[queues[b][k].ready.head]
      /\ PendingTop(b, k) = queues[b][k].pending.slots[queues[b][k].pending.head]
  BY Tops DEF CmdQueueOf, ReadyTop, PendingTop, Queue!ready_top, Queue!pending_top, Queue!req_out
<1>2. \A q \in RingOf(Issued) : q.head \in Queue!RingSlot /\ (~Queue!empty(q) => q.head \in Live(q))
  <2>1. ASSUME NEW q \in RingOf(Issued)
        PROVE  ~Queue!empty(q) => q.head \in Live(q)
    <3>1. /\ q.head \in 0 .. QUEUE_SIZE - 1 /\ q.size \in 0 .. QUEUE_SIZE
          /\ QUEUE_SIZE \in Nat \ {0} /\ Queue!RingSlot = 0 .. QUEUE_SIZE - 1
      BY SchedulerAssumption DEF RingOf, Queue!RingSlot
    <3>2. Offset(q.head, q.head) = 0
      BY <3>1 DEF Offset
    <3>3. QED
      BY <3>1, <3>2 DEF Live, Queue!empty
  <2>2. QED
    BY <2>1 DEF RingOf
<1>3. ASSUME ~Queue!empty(queues[b][k].ready)
      PROVE  \E p \in Place : /\ p.bank = b /\ p.kind = k /\ p.side = "ready"
                             /\ p.slot = RingAt(p).head /\ At(p, ReadyTop(b, k))
  <2> DEFINE p == [bank |-> b, kind |-> k, side |-> "ready", slot |-> queues[b][k].ready.head]
  <2>1. p \in Place
    BY <1>1, <1>2 DEF Place, Side
  <2>2. p.bank = b /\ p.kind = k /\ p.side = "ready" /\ p.slot = queues[b][k].ready.head
    OBVIOUS
  <2> HIDE DEF p
  <2>3. QED
    BY <1>1, <1>2, <1>3, <2>1, <2>2 DEF RingAt, At
<1>4. ASSUME ~Queue!empty(queues[b][k].pending)
      PROVE  \E p \in Place : /\ p.bank = b /\ p.kind = k /\ p.side = "pending"
                             /\ p.slot = RingAt(p).head /\ At(p, PendingTop(b, k))
  <2> DEFINE p == [bank |-> b, kind |-> k, side |-> "pending", slot |-> queues[b][k].pending.head]
  <2>1. p \in Place
    BY <1>1, <1>2 DEF Place, Side
  <2>2. p.bank = b /\ p.kind = k /\ p.side = "pending" /\ p.slot = queues[b][k].pending.head
    OBVIOUS
  <2> HIDE DEF p
  <2>3. QED
    BY <1>1, <1>2, <1>4, <2>1, <2>2 DEF RingAt, At
<1>5. QED
  BY <1>3, <1>4

\* Where the request of a place comes from at an edge.
LEMMA PlaceOrigin ==
  ASSUME TypeInv, NEW incoming \in Arrivals, NEW bursting, NEW due,
         ClockEdge(incoming, bursting, due), NEW p \in Place, NEW i, At(p, i)'
  PROVE  \/ At(p, i) /\ ~Gives(p, incoming, bursting)
         \/ \E o \in Place : At(o, i) /\ Gives(o, incoming, bursting) /\ Enters(o, p)
         \/ i = Len(requests) + 1 /\ Arrives(p, incoming)
<1> DEFINE b == p.bank
           k == p.kind
           arriving == Arrival(incoming)
           into == IF Into(arriving, b, k) # {} THEN Into(arriving, b, k)
                   ELSE Into(Promotions, b, k)
           enter == into # {}
           req == IF into = {} THEN NoRequest ELSE (CHOOSE m \in into : TRUE).req
           send == [kind |-> k, bank |-> b] \in Chosen(bursting)
           leave == Leaves(Promotions, arriving, b, k)
<1>1. b \in Banks /\ k \in Kind /\ p.side \in Side /\ p.slot \in Queue!RingSlot
  BY DEF Place
<1>2. /\ queues'[b][k].ready = Queue!RingEdge(queues[b][k].ready, enter, send, req)
      /\ queues'[b][k].pending = Queue!RingEdge(queues[b][k].pending, send, leave, ReadyTop(b, k))
      /\ queues[b][k].ready \in RingOf(Issued) /\ queues[b][k].pending \in RingOf(Issued)
      /\ send => ~Queue!empty(queues[b][k].ready)
      /\ leave => ~Queue!empty(queues[b][k].pending)
      /\ send \in BOOLEAN /\ leave \in BOOLEAN /\ enter \in BOOLEAN
  BY <1>1, RingsStep
<1>3. enter =>
         \/ /\ req = Len(requests) + 1
            /\ \E r \in incoming : r.bank = b /\ Route(r) = k
         \/ /\ Into(arriving, b, k) = {}
            /\ \E m \in Into(Promotions, b, k) : req = m.req
  <2>1. CASE Into(arriving, b, k) # {}
    BY <2>1, IntoArrival
  <2>2. CASE Into(arriving, b, k) = {}
    BY <2>2
  <2>3. QED
    BY <2>1, <2>2
<1> HIDE DEF into, enter, req, send, leave, arriving
<1>4. /\ send <=> [kind |-> k, bank |-> b] \in Chosen(bursting)
      /\ leave <=> Leaves(Promotions, Arrival(incoming), b, k)
  BY DEF send, leave, arriving
<1>5. CASE p.side = "ready"
  <2>1. RingAt(p) = queues[b][k].ready /\ RingAt(p)' = queues'[b][k].ready
    BY <1>5 DEF RingAt
  <2>2. \/ p.slot \in Live(RingAt(p)) /\ RingAt(p).slots[p.slot] = i /\ ~(send /\ p.slot = RingAt(p).head)
        \/ p.slot = NewSlot(RingAt(p)) /\ i = req /\ enter
    <3>1. RingMoved(RingAt(p), RingAt(p)', enter, send, req)
      BY <1>2, <2>1, RingMove
    <3>2. QED
      BY <3>1 DEF RingMoved, At
  <2>3. CASE p.slot \in Live(RingAt(p)) /\ RingAt(p).slots[p.slot] = i
             /\ ~(send /\ p.slot = RingAt(p).head)
    BY <1>4, <1>5, <2>3 DEF At, Gives
  <2>4. CASE p.slot = NewSlot(RingAt(p)) /\ i = req /\ enter
    <3>1. CASE req = Len(requests) + 1 /\ \E r \in incoming : r.bank = b /\ Route(r) = k
      BY <1>5, <2>4, <3>1 DEF Arrives
    <3>2. CASE Into(arriving, b, k) = {} /\ \E m \in Into(Promotions, b, k) : req = m.req
      <4>1. PICK m \in Into(Promotions, b, k) : req = m.req
        BY <3>2
      <4>2. /\ m.from \in Kind /\ Onward(m.from, PendingTop(b, m.from)) = k
            /\ Queue!promote(queues[b][m.from], Latency(m.from), cycle_counter)
            /\ i = PendingTop(b, m.from)
        BY <1>1, <2>4, <4>1, IntoPromoted
      <4>3. Leaves(Promotions, arriving, b, m.from)
        BY <1>1, <3>2, <4>2, LeavesMeans
      <4>4. PICK o \in Place : /\ o.bank = b /\ o.kind = m.from /\ o.side = "pending"
                              /\ o.slot = RingAt(o).head /\ At(o, i)
        BY <1>1, <4>2, TopPlace DEF Queue!promote
      <4>5. Gives(o, incoming, bursting) /\ Enters(o, p)
        BY <1>5, <2>4, <4>2, <4>3, <4>4 DEF Gives, Enters, arriving
      <4>6. QED
        BY <4>4, <4>5
    <3>3. QED
      BY <1>3, <2>4, <3>1, <3>2
  <2>5. QED
    BY <2>2, <2>3, <2>4
<1>6. CASE p.side = "pending"
  <2>1. RingAt(p) = queues[b][k].pending /\ RingAt(p)' = queues'[b][k].pending
    BY <1>6 DEF RingAt
  <2>2. \/ p.slot \in Live(RingAt(p)) /\ RingAt(p).slots[p.slot] = i /\ ~(leave /\ p.slot = RingAt(p).head)
        \/ p.slot = NewSlot(RingAt(p)) /\ i = ReadyTop(b, k) /\ send
    <3>1. RingMoved(RingAt(p), RingAt(p)', send, leave, ReadyTop(b, k))
      BY <1>2, <2>1, RingMove
    <3>2. QED
      BY <3>1 DEF RingMoved, At
  <2>3. CASE p.slot \in Live(RingAt(p)) /\ RingAt(p).slots[p.slot] = i
             /\ ~(leave /\ p.slot = RingAt(p).head)
    BY <1>4, <1>6, <2>3 DEF At, Gives
  <2>4. CASE p.slot = NewSlot(RingAt(p)) /\ i = ReadyTop(b, k) /\ send
    <3>1. PICK o \in Place : /\ o.bank = b /\ o.kind = k /\ o.side = "ready"
                            /\ o.slot = RingAt(o).head /\ At(o, i)
      BY <1>1, <1>2, <2>4, TopPlace
    <3>2. Gives(o, incoming, bursting) /\ Enters(o, p)
      BY <1>4, <1>6, <2>4, <3>1 DEF Gives, Enters
    <3>3. QED
      BY <3>1, <3>2
  <2>5. QED
    BY <2>2, <2>3, <2>4
<1>7. QED
  BY <1>1, <1>5, <1>6 DEF Side

\* A request that comes to a `ready' ring with room, which gives none, has a place.
LEMMA ReadyTakes ==
  ASSUME TypeInv, NEW incoming \in Arrivals, NEW bursting, NEW due,
         ClockEdge(incoming, bursting, due), NEW b \in Banks, NEW k \in Kind, NEW m,
         \/ Into(Arrival(incoming), b, k) = {m}
         \/ Into(Arrival(incoming), b, k) = {} /\ Into(Promotions, b, k) = {m},
         ~Queue!full(queues[b][k].ready), [kind |-> k, bank |-> b] \notin Chosen(bursting)
  PROVE  \E o \in Place : At(o, m.req)'
<1> DEFINE arriving == Arrival(incoming)
           into == IF Into(arriving, b, k) # {} THEN Into(arriving, b, k)
                   ELSE Into(Promotions, b, k)
           q == queues[b][k].ready
           req == (CHOOSE n \in into : TRUE).req
<1>1. into = {m}
  OBVIOUS
<1>2. req = m.req
  BY <1>1
<1>3. NewSlot(q) \in Live(queues'[b][k].ready) /\ queues'[b][k].ready.slots[NewSlot(q)] = m.req
  <2> DEFINE enter == into # {}
             send == [kind |-> k, bank |-> b] \in Chosen(bursting)
  <2>1. /\ q \in RingOf(Issued) /\ send \in BOOLEAN
        /\ queues'[b][k].ready = Queue!RingEdge(q, enter, send, IF into = {} THEN NoRequest ELSE req)
    BY RingsStep
  <2>2. enter /\ enter \in BOOLEAN /\ ~send /\ ~Queue!full(q)
    BY <1>1
  <2>3. (IF into = {} THEN NoRequest ELSE req) = m.req
    BY <1>1, <1>2
  <2> HIDE DEF enter, send, into, req, q
  <2> DEFINE r == m.req
             p == queues'[b][k].ready
  <2>4. p = Queue!RingEdge(q, enter, send, r)
    BY <2>1, <2>3
  <2> HIDE DEF p, r
  <2>5. NewSlot(q) \in Live(p) /\ p.slots[NewSlot(q)] = r
    BY <2>1, <2>2, <2>4, RingTakes
  <2>6. QED
    BY <2>5 DEF p, r
<1>4. PICK o \in Place : o.bank = b /\ o.kind = k /\ o.side = "ready" /\ o.slot = NewSlot(q)
  <2>1. [bank |-> b, kind |-> k, side |-> "ready", slot |-> NewSlot(q)] \in Place
    BY <1>3 DEF Place, Side, Live
  <2>2. QED
    BY <2>1
<1>5. At(o, m.req)'
  BY <1>3, <1>4 DEF At, RingAt
<1>6. QED
  BY <1>5

\* Where the request of a place goes at an edge: it stays, or it moves on, unless a
\* ring is crowded.
LEMMA PlaceKept ==
  ASSUME TypeInv, NEW incoming \in Arrivals, NEW bursting, NEW due,
         ClockEdge(incoming, bursting, due), NEW p \in Place, NEW i, At(p, i)
  PROVE  \/ \E o \in Place : At(o, i)'
         \/ Crowded(Promotions, Arrival(incoming), Chosen(bursting))
         \/ /\ Gives(p, incoming, bursting) /\ p.side = "pending"
            /\ Onward(p.kind, i) = ""
<1> DEFINE b == p.bank
           k == p.kind
           arriving == Arrival(incoming)
           chosen == Chosen(bursting)
<1>1. b \in Banks /\ k \in Kind /\ p.side \in Side /\ p.slot \in Queue!RingSlot
  BY DEF Place
<1> HIDE DEF arriving
<1>2. ASSUME ~Gives(p, incoming, bursting)
      PROVE  At(p, i)'
  <2> DEFINE into == IF Into(Arrival(incoming), b, k) # {} THEN Into(Arrival(incoming), b, k)
                     ELSE Into(Promotions, b, k)
             enter == into # {}
             req == IF into = {} THEN NoRequest ELSE (CHOOSE m \in into : TRUE).req
             send == [kind |-> k, bank |-> b] \in Chosen(bursting)
             leave == Leaves(Promotions, Arrival(incoming), b, k)
  <2>1. /\ queues'[b][k].ready = Queue!RingEdge(queues[b][k].ready, enter, send, req)
        /\ queues'[b][k].pending = Queue!RingEdge(queues[b][k].pending, send, leave, ReadyTop(b, k))
        /\ queues[b][k].ready \in RingOf(Issued) /\ queues[b][k].pending \in RingOf(Issued)
        /\ send => ~Queue!empty(queues[b][k].ready)
        /\ leave => ~Queue!empty(queues[b][k].pending)
        /\ send \in BOOLEAN /\ leave \in BOOLEAN /\ enter \in BOOLEAN
    BY <1>1, RingsStep
  <2>2. ~(p.slot = RingAt(p).head /\ IF p.side = "ready" THEN send ELSE leave)
    BY <1>2 DEF Gives
  <2> HIDE DEF into, enter, req, send, leave
  <2>3. CASE p.side = "ready"
    <3>1. RingAt(p) = queues[b][k].ready /\ RingAt(p)' = queues'[b][k].ready
      BY <2>3 DEF RingAt
    <3>2. p.slot \in Live(RingAt(p)') /\ RingAt(p)'.slots[p.slot] = i
      <4>1. RingMoved(RingAt(p), RingAt(p)', enter, send, req)
        BY <2>1, <3>1, RingMove
      <4>2. QED
        BY <2>2, <2>3, <4>1 DEF RingMoved, At
    <3>3. QED
      BY <3>2 DEF At
  <2>4. CASE p.side = "pending"
    <3>1. RingAt(p) = queues[b][k].pending /\ RingAt(p)' = queues'[b][k].pending
      BY <2>4 DEF RingAt
    <3>2. p.slot \in Live(RingAt(p)') /\ RingAt(p)'.slots[p.slot] = i
      <4>1. RingMoved(RingAt(p), RingAt(p)', send, leave, ReadyTop(b, k))
        BY <2>1, <3>1, RingMove
      <4>2. QED
        BY <2>2, <2>4, <4>1 DEF RingMoved, At
    <3>3. QED
      BY <3>2 DEF At
  <2>5. QED
    BY <1>1, <2>3, <2>4 DEF Side
<1>3. CASE Gives(p, incoming, bursting) /\ p.side = "ready"
  <2> DEFINE c == [kind |-> k, bank |-> b]
             q == queues[b][k].pending
  <2>1. c \in chosen /\ c.kind = k /\ c.bank = b
    BY <1>3 DEF Gives
  <2>2. i = ReadyTop(b, k)
    BY <1>3 DEF Gives, At, RingAt, ReadyTop, Queue!ready_top, Queue!req_out
  <2>3. CASE Queue!full(q) \/ Leaves(Promotions, arriving, b, k)
    BY <2>1, <2>3 DEF Crowded, arriving
  <2>4. CASE ~(Queue!full(q) \/ Leaves(Promotions, arriving, b, k))
    <3>1. NewSlot(q) \in Live(queues'[b][k].pending) /\ queues'[b][k].pending.slots[NewSlot(q)] = i
      <4> DEFINE send == c \in chosen
                 leave == Leaves(Promotions, arriving, b, k)
      <4>1. q \in RingOf(Issued) /\ queues'[b][k].pending = Queue!RingEdge(q, send, leave, i)
        BY <1>1, <2>2, RingsStep DEF arriving
      <4>2. send /\ ~leave /\ send \in BOOLEAN /\ leave \in BOOLEAN /\ ~Queue!full(q)
        <5>1. leave \in BOOLEAN
          BY DEF Leaves
        <5>2. QED
          BY <2>1, <2>4, <5>1
      <4> HIDE DEF send, leave, q
      <4>3. QED
        BY <4>1, <4>2, RingTakes
    <3>2. PICK o \in Place : o.bank = b /\ o.kind = k /\ o.side = "pending" /\ o.slot = NewSlot(q)
      <4>1. [bank |-> b, kind |-> k, side |-> "pending", slot |-> NewSlot(q)] \in Place
        BY <1>1, <3>1 DEF Place, Side, Live
      <4>2. QED
        BY <4>1
    <3>3. At(o, i)'
      BY <3>1, <3>2 DEF At, RingAt
    <3>4. QED
      BY <3>3
  <2>5. QED
    BY <2>3, <2>4
<1>4. CASE Gives(p, incoming, bursting) /\ p.side = "pending"
  <2> DEFINE to == Onward(k, i)
             m == Promotion(b, k)
  <2>1. i = PendingTop(b, k) /\ Leaves(Promotions, arriving, b, k)
    BY <1>4 DEF Gives, At, RingAt, PendingTop, Queue!pending_top, Queue!req_out, arriving
  <2>2. CASE to = ""
    BY <1>4, <2>2
  <2>3. CASE to # ""
    <3>1. to \in Kind
      BY <1>1, <2>3, KindDistinct DEF Onward
    <3>2. m \in Promotions /\ m.bank = b /\ m.to = to /\ m.req = i /\ Into(arriving, b, to) = {}
      <4>1. Queue!promote(queues[b][k], Latency(k), cycle_counter) /\ Into(arriving, b, to) = {}
        BY <1>1, <2>1, LeavesMeans
      <4>2. << b, k >> \in {q \in Banks \X Kind :
                              Queue!promote(queues[q[1]][q[2]], Latency(q[2]), cycle_counter)}
        BY <1>1, <4>1
      <4>3. m \in Promotions
        BY <4>2 DEF Promotions
      <4>4. QED
        BY <2>1, <4>1, <4>3 DEF Promotion
    <3> HIDE DEF m, to
    <3>3. Into(Promotions, b, to) = {m}
      <4>1. m \in Into(Promotions, b, to)
        BY <3>2 DEF Into
      <4>2. QED
        BY <1>1, <3>1, <4>1, IntoPromoted
    <3>4. CASE Queue!full(queues[b][to].ready) \/ [kind |-> to, bank |-> b] \in chosen
      BY <2>3, <3>2, <3>4 DEF Crowded
    <3>5. CASE ~(Queue!full(queues[b][to].ready) \/ [kind |-> to, bank |-> b] \in chosen)
      BY <1>1, <3>1, <3>2, <3>3, <3>5, ReadyTakes DEF arriving
    <3>6. QED
      BY <3>4, <3>5
  <2>4. QED
    BY <2>2, <2>3
<1>5. QED
  BY <1>1, <1>2, <1>3, <1>4 DEF Side

\* The books are kept: a live slot holds a request there is, no request is in two
\* places, and its column command has been sent once if it waits behind it.
BookInv ==
    /\ \A p \in Place, i \in Issued : At(p, i) => i # NoRequest
    /\ \A p, o \in Place, i \in Issued : At(p, i) /\ At(o, i) => p = o
    /\ \A i \in Id : sent[i] <= 1 /\ (i > Len(requests) => sent[i] = 0)
    /\ \A p \in Place, i \in Id :
         At(p, i) => sent[i] = IF p.side = "pending" /\ p.kind \in Column THEN 1 ELSE 0

LEMMA AtIssued ==
  ASSUME TypeInv, NEW p \in Place, NEW i, At(p, i)
  PROVE  i \in Issued /\ Len(requests) + 1 \notin Issued /\ Len(requests) \in Nat
<1>1. RingAt(p) \in RingOf(Issued)
  BY Tops DEF RingAt, CmdQueueOf, Place
<1>2. Len(requests) \in Nat
  BY DEF TypeInv, TypeOK
<1>3. QED
  BY <1>1, <1>2 DEF At, Live, RingOf, Issued

LEMMA InitBookInv == Init => BookInv
<1> SUFFICES ASSUME Init PROVE BookInv
  OBVIOUS
<1>1. ASSUME NEW p \in Place
      PROVE  RingAt(p).size = 0 /\ RingAt(p).head = 0
  <2>1. queues[p.bank][p.kind] = Queue!EmptyCmdQueue
    BY DEF Init, Place
  <2>2. QED
    BY <2>1 DEF RingAt, Queue!EmptyCmdQueue, Queue!EmptyRing
<1>2. \A p \in Place : \A i : ~At(p, i)
  <2>1. \A s \in Queue!RingSlot : ~(Offset(0, s) < 0)
    BY SchedulerAssumption DEF Offset, Queue!RingSlot
  <2>2. QED
    BY <1>1, <2>1 DEF At, Live
<1>3. \A i \in Id : sent[i] = 0
  BY DEF Init
<1>4. QED
  BY <1>2, <1>3 DEF BookInv

\* A place that holds the request of another one is that one.
LEMMA SamePlace ==
  ASSUME NEW p \in Place, NEW o \in Place, p.bank = o.bank, p.kind = o.kind,
         p.side = o.side, p.slot = o.slot
  PROVE  p = o
  BY DEF Place

\* What is sent at an edge.
LEMMA SentStep ==
  ASSUME TypeInv, BookInv, NEW incoming \in Arrivals, NEW bursting, NEW due,
         ClockEdge(incoming, bursting, due), NEW i \in Id
  PROVE  \/ /\ sent'[i] = sent[i]
            /\ \A c \in Chosen(bursting) : c.kind \in Column => ReadyTop(c.bank, c.kind) # i
         \/ /\ sent'[i] = 1 /\ sent[i] = 0
            /\ \E p \in Place : /\ At(p, i) /\ Gives(p, incoming, bursting)
                               /\ p.side = "ready" /\ p.kind \in Column
<1> DEFINE chosen == Chosen(bursting)
           goes == \E c \in chosen : c.kind \in Column /\ ReadyTop(c.bank, c.kind) = i
<1>1. i # 0 /\ sent[i] \in 0 .. 2
  BY DEF Id, TypeInv, TypeOK
<1>2. (\E c \in Output(chosen) : c.id = i /\ c.kind \in {"read", "write"}) <=> goes
  <2>1. CASE refr_out(refresh)
    BY <1>1, <2>1, ChosenCommand DEF Output
  <2>2. CASE ~refr_out(refresh)
    <3> DEFINE cmd(c) == [kind |-> c.kind, bank |-> c.bank, row |-> RowOf(ReadyTop(c.bank, c.kind)),
                          id |-> ReadyTop(c.bank, c.kind)]
    <3>1. Output(chosen) = {cmd(c) : c \in chosen}
      BY <2>2 DEF Output
    <3>2. \A c : cmd(c).kind = c.kind /\ cmd(c).id = ReadyTop(c.bank, c.kind)
      OBVIOUS
    <3> HIDE DEF cmd
    <3>3. QED
      BY <3>1, <3>2 DEF Column
  <2>3. QED
    BY <2>1, <2>2
<1>3. sent'[i] = IF sent[i] < 2 /\ goes THEN sent[i] + 1 ELSE sent[i]
  BY <1>2 DEF ClockEdge
<1>4. CASE ~goes
  BY <1>3, <1>4
<1>5. CASE goes
  <2>1. PICK c \in chosen : c.kind \in Column /\ ReadyTop(c.bank, c.kind) = i
    BY <1>5
  <2>2. /\ c.bank \in Banks /\ c.kind \in Kind /\ c = [kind |-> c.kind, bank |-> c.bank]
        /\ ~Queue!empty(queues[c.bank][c.kind].ready)
    BY ChosenCommand DEF Sendable, Queue!ready_empty
  <2>3. PICK p \in Place : /\ p.bank = c.bank /\ p.kind = c.kind /\ p.side = "ready"
                          /\ p.slot = RingAt(p).head /\ At(p, i)
    BY <2>1, <2>2, TopPlace
  <2>4. Gives(p, incoming, bursting)
    BY <2>1, <2>2, <2>3 DEF Gives
  <2>5. sent[i] = 0
    BY <2>3 DEF BookInv
  <2>6. QED
    BY <1>3, <1>5, <2>1, <2>3, <2>4, <2>5
<1>6. QED
  BY <1>4, <1>5

LEMMA StepBookInv ==
  ASSUME TypeInv, BookInv, NEW incoming \in Arrivals, NEW bursting \in Bursting,
         NEW due \in RefreshDue, ClockEdge(incoming, bursting, due)
  PROVE  BookInv'
<1> DEFINE new == Len(requests) + 1
           gives(p) == Gives(p, incoming, bursting)
<1>1. \A p \in Place : \A i : At(p, i)' =>
         \/ At(p, i) /\ ~gives(p)
         \/ \E o \in Place : At(o, i) /\ gives(o) /\ Enters(o, p)
         \/ i = new /\ Arrives(p, incoming)
  BY PlaceOrigin
<1>2. \A p \in Place : \A i : At(p, i) => i \in Issued /\ i # new /\ i # NoRequest
  BY AtIssued DEF BookInv
<1>3. \A p, o \in Place : \A i : At(p, i) /\ At(o, i) => p = o
  BY <1>2 DEF BookInv
<1>4. Len(requests) \in Nat /\ Len(requests)' \in Nat /\ Len(requests)' >= Len(requests)
  <2>1. requests \in Seq(Request) /\ requests' \in Seq(Request) /\ Issued \subseteq Issued'
    BY RequestsStep DEF TypeInv, TypeOK
  <2>2. QED
    BY <2>1 DEF Issued
<1>5. \A p, q, o \in Place : Enters(o, p) /\ Enters(o, q) => p = q
  <2>1. \A p, q \in Place : p.bank = q.bank /\ p.kind = q.kind /\ p.side = q.side =>
           RingAt(p) = RingAt(q)
    BY DEF RingAt
  <2>2. QED
    BY <2>1, SamePlace DEF Enters
<1>6. \A p, q \in Place : Arrives(p, incoming) /\ Arrives(q, incoming) => p = q
  <2>1. \A p, q \in Place : p.bank = q.bank /\ p.kind = q.kind /\ p.side = q.side =>
           RingAt(p) = RingAt(q)
    BY DEF RingAt
  <2>2. \A r, t \in incoming : r = t
    BY ArrivalsTyped
  <2>3. QED
    BY <2>1, <2>2, SamePlace DEF Arrives
<1>7. ASSUME NEW p \in Place, NEW i, At(p, i)'
      PROVE  i # NoRequest
  BY <1>1, <1>2, <1>4, <1>7 DEF NoRequest
<1> HIDE DEF gives, new
<1>8. ASSUME NEW p \in Place, NEW q \in Place, NEW i, At(p, i)', At(q, i)'
      PROVE  p = q
  BY <1>1, <1>2, <1>3, <1>5, <1>6, <1>8
<1>9. ASSUME NEW i \in Id
      PROVE  sent'[i] <= 1 /\ (i > Len(requests)' => sent'[i] = 0)
  <2>1. sent[i] <= 1 /\ (i > Len(requests) => sent[i] = 0) /\ i \in Nat
    BY DEF BookInv, Id
  <2>2. CASE sent'[i] = sent[i]
    BY <1>4, <2>1, <2>2
  <2>3. CASE sent'[i] = 1 /\ \E p \in Place : At(p, i)
    BY <1>2, <1>4, <2>1, <2>3 DEF Issued
  <2>4. QED
    BY <2>2, <2>3, SentStep
<1>10. ASSUME NEW p \in Place, NEW i \in Id, At(p, i)'
       PROVE  sent'[i] = IF p.side = "pending" /\ p.kind \in Column THEN 1 ELSE 0
  <2>1. \/ /\ sent'[i] = sent[i]
           /\ \A c \in Chosen(bursting) : c.kind \in Column => ReadyTop(c.bank, c.kind) # i
        \/ /\ sent'[i] = 1 /\ sent[i] = 0
           /\ \E o \in Place : At(o, i) /\ gives(o) /\ o.side = "ready" /\ o.kind \in Column
    BY SentStep DEF gives
  <2>2. \A o \in Place : At(o, i) => sent[i] = IF o.side = "pending" /\ o.kind \in Column THEN 1 ELSE 0
    BY DEF BookInv
  <2>3. CASE At(p, i) /\ ~gives(p)
    BY <1>3, <2>1, <2>2, <2>3
  <2>4. CASE \E o \in Place : At(o, i) /\ gives(o) /\ Enters(o, p)
    <3>1. PICK o \in Place : At(o, i) /\ gives(o) /\ Enters(o, p)
      BY <2>4
    <3>2. CASE o.side = "ready"
      <4>1. p.side = "pending" /\ p.kind = o.kind /\ sent[i] = 0
        BY <2>2, <3>1, <3>2 DEF Enters
      <4>2. CASE o.kind \in Column
        <5>1. [kind |-> o.kind, bank |-> o.bank] \in Chosen(bursting)
          BY <3>1, <3>2 DEF gives, Gives
        <5>2. ReadyTop(o.bank, o.kind) = i
          BY <3>1, <3>2 DEF gives, Gives, At, RingAt, ReadyTop, Queue!ready_top, Queue!req_out
        <5>3. QED
          BY <2>1, <4>1, <4>2, <5>1, <5>2
      <4>3. CASE o.kind \notin Column
        BY <1>3, <2>1, <3>1, <4>1, <4>3
      <4>4. QED
        BY <4>2, <4>3
    <3>3. CASE o.side # "ready"
      <4>1. p.side = "ready" /\ p.kind = Onward(o.kind, PendingTop(o.bank, o.kind))
        BY <3>1, <3>3 DEF Enters
      <4>2. o.kind \notin Column
        BY <4>1, KindDistinct DEF Place
      <4>3. QED
        BY <1>3, <2>1, <2>2, <3>1, <3>3, <4>1, <4>2
    <3>4. QED
      BY <3>2, <3>3
  <2>5. CASE i = new /\ Arrives(p, incoming)
    <3>1. sent[i] = 0 /\ p.side = "ready"
      BY <1>4, <2>5 DEF BookInv, new, Arrives
    <3>2. \A o \in Place : ~At(o, i)
      BY <1>2, <2>5
    <3>3. QED
      BY <2>1, <3>1, <3>2
  <2>6. QED
    BY <1>1, <1>10, <2>3, <2>4, <2>5
<1>11. QED
  BY <1>7, <1>8, <1>9, <1>10 DEF BookInv

\* The position of a place.
PositionOf(p) == << p.bank, p.kind, Offset(RingAt(p).head, p.slot) >>

\* A request has a position for each of its places.
LEMMA InPlaces ==
  ASSUME TypeInv, NEW i
  PROVE  /\ \A q \in InReady(i) :
              \E p \in Place : At(p, i) /\ p.side = "ready" /\ q = PositionOf(p)
         /\ \A q \in InPending(i) :
              \E p \in Place : At(p, i) /\ p.side = "pending" /\ q = PositionOf(p)
         /\ \A p \in Place : At(p, i) => PositionOf(p) \in InReady(i) \cup InPending(i)
<1>1. \A b \in Banks, k \in Kind :
         queues[b][k].ready \in RingOf(Issued) /\ queues[b][k].pending \in RingOf(Issued)
  BY Tops DEF CmdQueueOf
<1>2. ASSUME NEW b \in Banks, NEW k \in Kind, NEW x \in Side, NEW s \in Queue!RingSlot
      PROVE  \E p \in Place : p.bank = b /\ p.kind = k /\ p.side = x /\ p.slot = s
  <2>1. [bank |-> b, kind |-> k, side |-> x, slot |-> s] \in Place
    BY DEF Place
  <2>2. QED
    BY <2>1
<1>3. ASSUME NEW q \in InReady(i)
      PROVE  \E p \in Place : At(p, i) /\ p.side = "ready" /\ q = PositionOf(p)
  <2>1. PICK b \in Banks, k \in Kind, n \in Queue!RingSlot :
          q = << b, k, n >> /\ n \in Queue!Positions(queues[b][k].ready, i)
    BY DEF InReady
  <2>2. PICK s \in Live(queues[b][k].ready) :
          queues[b][k].ready.slots[s] = i /\ Offset(queues[b][k].ready.head, s) = n
    BY <1>1, <2>1, PositionsLive
  <2>3. s \in Queue!RingSlot /\ "ready" \in Side
    BY DEF Live, Side
  <2>4. PICK p \in Place : p.bank = b /\ p.kind = k /\ p.side = "ready" /\ p.slot = s
    BY <1>2, <2>3
  <2>5. RingAt(p) = queues[b][k].ready
    BY <2>4 DEF RingAt
  <2>6. QED
    BY <2>1, <2>2, <2>4, <2>5 DEF At, PositionOf
<1>4. ASSUME NEW q \in InPending(i)
      PROVE  \E p \in Place : At(p, i) /\ p.side = "pending" /\ q = PositionOf(p)
  <2>1. PICK b \in Banks, k \in Kind, n \in Queue!RingSlot :
          q = << b, k, n >> /\ n \in Queue!Positions(queues[b][k].pending, i)
    BY DEF InPending
  <2>2. PICK s \in Live(queues[b][k].pending) :
          queues[b][k].pending.slots[s] = i /\ Offset(queues[b][k].pending.head, s) = n
    BY <1>1, <2>1, PositionsLive
  <2>3. s \in Queue!RingSlot /\ "pending" \in Side
    BY DEF Live, Side
  <2>4. PICK p \in Place : p.bank = b /\ p.kind = k /\ p.side = "pending" /\ p.slot = s
    BY <1>2, <2>3
  <2>5. RingAt(p) = queues[b][k].pending
    BY <2>4 DEF RingAt
  <2>6. QED
    BY <2>1, <2>2, <2>4, <2>5 DEF At, PositionOf
<1>5. ASSUME NEW p \in Place, At(p, i)
      PROVE  PositionOf(p) \in InReady(i) \cup InPending(i)
  <2>1. p.bank \in Banks /\ p.kind \in Kind /\ p.side \in Side
    BY DEF Place
  <2>2. /\ Offset(RingAt(p).head, p.slot) \in Queue!Positions(RingAt(p), i)
        /\ Offset(RingAt(p).head, p.slot) \in Queue!RingSlot
    BY <1>1, <1>5, <2>1, PositionsLive DEF At, RingAt
  <2>3. CASE p.side = "ready"
    BY <2>1, <2>2, <2>3 DEF PositionOf, RingAt, InReady
  <2>4. CASE p.side = "pending"
    BY <2>1, <2>2, <2>4 DEF PositionOf, RingAt, InPending
  <2>5. QED
    BY <2>1, <2>3, <2>4 DEF Side
<1>6. QED
  BY <1>3, <1>4, <1>5

LEMMA BooksStay == TypeInv /\ BookInv /\ [Next]_vars => (TypeInv /\ BookInv)'
<1> SUFFICES ASSUME TypeInv, BookInv, [Next]_vars PROVE (TypeInv /\ BookInv)'
  OBVIOUS
<1>1. CASE Next
  BY <1>1, StepTypeInv, StepBookInv DEF Next
<1>2. CASE UNCHANGED vars
  <2>1. /\ UNCHANGED << queues, requests, sent >>
        /\ UNCHANGED << schedVars, refresh, refreshes, row_command, mishaps >>
    BY <1>2 DEF vars, schedVars
  <2>2. Issued' = Issued /\ \A p, i : At(p, i)' <=> At(p, i)
    BY <2>1 DEF Issued, At, RingAt
  <2>3. TypeInv'
    BY <2>1, <2>2 DEF schedVars, TypeInv, TypeOK
  <2>4. BookInv'
    BY <2>1, <2>2 DEF BookInv
  <2>5. QED
    BY <2>3, <2>4
<1>3. QED
  BY <1>1, <1>2

\* A request is at one position of the rings at most (mem_scheduler.sv 283-371, which
\* send, promote and take it on conditions of their own), for rings of every size.
THEOREM InOnePlaceHolds == Spec => []InOnePlace
<1>1. TypeInv /\ BookInv => InOnePlace
  <2> SUFFICES ASSUME TypeInv, BookInv, NEW i \in Id
               PROVE  Cardinality(InReady(i)) + Cardinality(InPending(i)) <= 1
    BY DEF InOnePlace
  <2>1. \A p, o \in Place : At(p, i) /\ At(o, i) => p = o
    BY AtIssued DEF BookInv
  <2>2. \A q, r \in InReady(i) : q = r
    BY <2>1, InPlaces
  <2>3. \A q, r \in InPending(i) : q = r
    BY <2>1, InPlaces
  <2>4. InReady(i) = {} \/ InPending(i) = {}
    BY <2>1, InPlaces
  <2>5. \A T : (\A q, r \in T : q = r) => T = {} \/ \E q : T = {q}
    OBVIOUS
  <2>6. Cardinality({}) = 0 /\ \A q : Cardinality({q}) = 1
    BY FS_EmptySet, FS_Singleton
  <2>7. /\ Cardinality(InReady(i)) \in {0, 1} /\ (InReady(i) = {} => Cardinality(InReady(i)) = 0)
        /\ Cardinality(InPending(i)) \in {0, 1}
        /\ (InPending(i) = {} => Cardinality(InPending(i)) = 0)
    BY <2>2, <2>3, <2>5, <2>6
  <2>8. QED
    BY <2>4, <2>7
<1>2. QED
  BY InitTypeInv, InitBookInv, BooksStay, <1>1, PTL DEF Spec

\* The column command of a request is sent at most once (mem_scheduler.sv 492-583).
THEOREM SentOnceHolds == Spec => []SentOnce
<1>1. BookInv => SentOnce
  BY DEF BookInv, SentOnce
<1>2. QED
  BY InitTypeInv, InitBookInv, BooksStay, <1>1, PTL DEF Spec

-----------------------------------------------------------------------------
(* Nothing is lost while no ring is crowded.                               *)

KeptInv ==
    "crowded" \notin mishaps =>
        \A i \in 1 .. Len(requests) : sent[i] > 0 \/ \E p \in Place : At(p, i)

LEMMA StepKeptInv ==
  ASSUME TypeInv, BookInv, KeptInv, NEW incoming \in Arrivals, NEW bursting \in Bursting,
         NEW due \in RefreshDue, ClockEdge(incoming, bursting, due)
  PROVE  KeptInv'
<1> SUFFICES ASSUME "crowded" \notin mishaps', NEW i \in 1 .. Len(requests)', ~(sent'[i] > 0)
             PROVE  \E p \in Place : At(p, i)'
  BY DEF KeptInv
<1>1. "crowded" \notin mishaps /\ ~Crowded(Promotions, Arrival(incoming), Chosen(bursting))
  BY DEF ClockEdge, Remember
<1>2. i \in Id /\ Len(requests) \in Nat
  <2>1. Len(requests)' \in Nat /\ Len(requests)' <= MaxRequests /\ MaxRequests \in Nat
    BY RequestsStep, SchedulerAssumption
  <2>2. QED
    BY <2>1 DEF Id, TypeInv, TypeOK
<1>3. CASE i \in 1 .. Len(requests)
  <2>1. sent[i] \in 0 .. 2 /\ ~(sent[i] > 0)
    BY <1>2, SentStep DEF TypeInv, TypeOK
  <2>2. PICK p \in Place : At(p, i)
    BY <1>1, <1>3, <2>1 DEF KeptInv
  <2>3. p.side = "pending" => p.kind \notin Column
    BY <1>2, <2>1, <2>2 DEF BookInv
  <2>4. p.kind \notin Column => Onward(p.kind, i) # ""
    BY KindDistinct DEF Place, Kind, Column
  <2>5. QED
    BY <1>1, <2>2, <2>3, <2>4, PlaceKept
<1>4. CASE i \notin 1 .. Len(requests)
  <2>1. i = Len(requests) + 1 /\ incoming # {}
    <3>1. requests' = IF incoming = {} THEN requests ELSE Append(requests, CHOOSE r \in incoming : TRUE)
      BY DEF ClockEdge
    <3>2. Len(requests)' = Len(requests) + 1 /\ incoming # {}
      <4>1. CASE incoming = {}
        BY <1>4, <3>1, <4>1
      <4>2. CASE incoming # {}
        BY <3>1, <4>2 DEF TypeInv, TypeOK
      <4>3. QED
        BY <4>1, <4>2
    <3>3. QED
      BY <1>2, <1>4, <3>2
  <2>2. PICK r \in Request : incoming = {r}
    BY <2>1, ArrivalsTyped
  <2> DEFINE m == [bank |-> r.bank, from |-> "", to |-> Route(r), req |-> Len(requests) + 1]
  <2>3. Arrival(incoming) = {m} /\ m.bank = r.bank /\ m.to = Route(r) /\ m.req = i
    BY <2>1, <2>2 DEF Arrival
  <2>4. r.bank \in Banks /\ Route(r) \in Kind
    BY DEF Request, Route, Kind
  <2> HIDE DEF m
  <2>5. Into(Arrival(incoming), r.bank, Route(r)) = {m}
    BY <2>3 DEF Into
  <2>6. [kind |-> m.to, bank |-> m.bank] \notin Chosen(bursting) /\ ~Queue!full(queues[m.bank][m.to].ready)
    BY <1>1, <2>3, <2>4, KindDistinct DEF Crowded
  <2>7. QED
    BY <2>3, <2>4, <2>5, <2>6, ReadyTakes
<1>5. QED
  BY <1>3, <1>4

\* No request disappears as long as no ring takes one on the edge it gives one or
\* while full (comb_util.sv 150-162, req_queue.sv), for rings of every size.
THEOREM NoneLostHolds == Spec => []NoneLost
<1>1. Init => KeptInv
  BY DEF Init, KeptInv
<1>2. TypeInv /\ BookInv /\ KeptInv /\ [Next]_vars => KeptInv'
  <2> SUFFICES ASSUME TypeInv, BookInv, KeptInv, [Next]_vars PROVE KeptInv'
    OBVIOUS
  <2>1. CASE Next
    BY <2>1, StepKeptInv DEF Next
  <2>2. CASE UNCHANGED vars
    BY <2>2 DEF vars, schedVars, KeptInv, At, RingAt
  <2>3. QED
    BY <2>1, <2>2
<1>3. TypeInv /\ KeptInv => NoneLost
  <2> SUFFICES ASSUME TypeInv, KeptInv, "crowded" \notin mishaps, NEW i \in DOMAIN requests
               PROVE  InReady(i) \cup InPending(i) # {} \/ sent[i] > 0
    BY DEF NoneLost
  <2>1. i \in 1 .. Len(requests)
    BY DEF TypeInv, TypeOK
  <2>2. QED
    BY <2>1, InPlaces DEF KeptInv
<1>4. QED
  BY InitTypeInv, InitBookInv, BooksStay, <1>1, <1>2, <1>3, PTL DEF Spec

-----------------------------------------------------------------------------
(* Columns meet their row.  In a closed bank no read or write can be sent: *)
(* the one at the top, if there is one, waits for another row than the     *)
(* bank remembers.                                                         *)

Waits(b, k) ==
    Queue!ready_empty(queues[b][k]) \/ RowOf(ReadyTop(b, k)) # banks[b].active_row

ClosedInv ==
    mishaps \subseteq {"crowded"} =>
        \A b \in Banks : ~banks[b].active => \A k \in Column : Waits(b, k)

LEMMA Remembered ==
  ASSUME NEW promoted, NEW arriving, NEW chosen, Remember(promoted, arriving, chosen),
         mishaps' \subseteq {"crowded"}
  PROVE  /\ mishaps \subseteq {"crowded"} /\ ~refr_out(refresh) /\ ~Late(promoted)
         /\ ~Crossed(promoted \cup arriving, chosen) /\ ~Overlooked(chosen)
<1> DEFINE all == {"crowded", "crossed", "overlooked", "late", "refreshed"}
           bad(m) == CASE m = "crowded" -> Crowded(promoted, arriving, chosen)
                       [] m = "crossed" -> Crossed(promoted \cup arriving, chosen)
                       [] m = "overlooked" -> Overlooked(chosen)
                       [] m = "late" -> Late(promoted)
                       [] m = "refreshed" -> refr_out(refresh)
<1>1. mishaps' = mishaps \cup {m \in all : bad(m)}
  BY DEF Remember
<1>2. /\ bad("crossed") = Crossed(promoted \cup arriving, chosen)
      /\ bad("overlooked") = Overlooked(chosen)
      /\ bad("late") = Late(promoted)
      /\ bad("refreshed") = refr_out(refresh)
  OBVIOUS
<1>3. {"crossed", "overlooked", "late", "refreshed"} \subseteq all
  OBVIOUS
<1> HIDE DEF all, bad
<1>4. mishaps \subseteq {"crowded"} /\ \A m \in all : bad(m) => m = "crowded"
  BY <1>1
<1>5. ~bad("crossed") /\ ~bad("overlooked") /\ ~bad("late") /\ ~bad("refreshed")
  BY <1>3, <1>4
<1>6. QED
  BY <1>2, <1>4, <1>5

\* A precharge goes out only when no write can.
LEMMA PrechargeLast ==
  ASSUME NEW bursting, NEW c \in Chosen(bursting), c.kind = "precharge", NEW b \in Banks
  PROVE  ~Sendable(b, "write")
<1>1. \A k : \A d \in Send(k) : d.kind = k
  BY DEF Send
<1>2. Send("write") = {}
  BY <1>1 DEF Chosen
<1>3. QED
  BY <1>2 DEF Send

\* A queue that nothing enters and that gives nothing keeps its top.
LEMMA QueueKept ==
  ASSUME TypeInv, NEW incoming \in Arrivals, NEW bursting, NEW due,
         ClockEdge(incoming, bursting, due), NEW b \in Banks, NEW k \in Kind,
         Into(Arrival(incoming), b, k) = {}, Into(Promotions, b, k) = {},
         [kind |-> k, bank |-> b] \notin Chosen(bursting)
  PROVE  /\ Queue!ready_empty(queues[b][k])' <=> Queue!ready_empty(queues[b][k])
         /\ RowOf(ReadyTop(b, k))' = RowOf(ReadyTop(b, k))
<1> DEFINE into == IF Into(Arrival(incoming), b, k) # {} THEN Into(Arrival(incoming), b, k)
                   ELSE Into(Promotions, b, k)
           enter == into # {}
           send == [kind |-> k, bank |-> b] \in Chosen(bursting)
           q == queues[b][k].ready
           r == IF into = {} THEN NoRequest ELSE (CHOOSE m \in into : TRUE).req
<1>1. queues'[b][k].ready = Queue!RingEdge(q, enter, send, r) /\ q \in RingOf(Issued)
  BY RingsStep
<1>2. ~enter /\ ~send
  OBVIOUS
<1> HIDE DEF into, enter, send, r
<1>3. queues'[b][k].ready = [slots |-> q.slots, head |-> q.head, size |-> q.size]
  BY <1>1, <1>2 DEF Queue!RingEdge
<1>4. ReadyTop(b, k)' = ReadyTop(b, k) /\ ReadyTop(b, k) \in Issued
  BY <1>3, Tops DEF ReadyTop, Queue!ready_top, Queue!req_out
<1>5. RowOf(ReadyTop(b, k))' = RowOf(ReadyTop(b, k))
  BY <1>4, RequestsStep DEF RowOf
<1>6. QED
  BY <1>3, <1>5 DEF Queue!ready_empty, Queue!empty

\* What enters a column queue, but for a late promotion, is for the open row.
LEMMA IntoColumn ==
  ASSUME TypeInv, NEW incoming \in Arrivals, NEW b \in Banks, NEW k \in Column,
         ~Late(Promotions),
         Into(Arrival(incoming), b, k) # {} \/ Into(Promotions, b, k) # {}
  PROVE  banks[b].active /\ \E m \in Promotions \cup Arrival(incoming) : m.bank = b /\ m.to = k
<1>1. CASE Into(Promotions, b, k) # {}
  BY <1>1 DEF Late, Into
<1>2. CASE Into(Arrival(incoming), b, k) # {}
  <2>1. \E r \in incoming : r.bank = b /\ Route(r) = k
    BY <1>2, IntoArrival
  <2>2. banks[b].active
    BY <2>1 DEF Route, Column
  <2>3. QED
    BY <1>2, <2>2 DEF Into
<1>3. QED
  BY <1>1, <1>2

LEMMA StepClosedInv ==
  ASSUME TypeInv, ClosedInv, NEW incoming \in Arrivals, NEW bursting \in Bursting,
         NEW due \in RefreshDue, ClockEdge(incoming, bursting, due)
  PROVE  ClosedInv'
<1> SUFFICES ASSUME mishaps' \subseteq {"crowded"}, NEW b \in Banks, ~banks'[b].active,
                    NEW k \in Column
             PROVE  Waits(b, k)'
  BY DEF ClosedInv
<1> DEFINE chosen == Chosen(bursting)
           moves == Promotions \cup Arrival(incoming)
           closes == Closes(chosen, b)
           opens == \E c \in chosen : c.bank = b /\ c.kind = "activate"
<1>1. /\ mishaps \subseteq {"crowded"} /\ ~refr_out(refresh) /\ ~Late(Promotions)
      /\ ~Crossed(moves, chosen) /\ ~Overlooked(chosen)
  BY Remembered DEF ClockEdge
<1>2. k \in Kind /\ k # "precharge" /\ k # "activate" /\ banks[b] \in State!Bank
  BY DEF Column, Kind, TypeInv, TypeOK
<1>3. closes <=> \E c \in chosen : c.bank = b /\ c.kind = "precharge"
  BY ChosenCommand DEF Closes
<1>4. banks'[b] = State!BankEdge(banks[b], closes, opens, RowOf(ReadyTop(b, "activate")))
  <2>1. banks'[b] = BankAfter(b, chosen)
    BY DEF ClockEdge
  <2> HIDE DEF closes
  <2>2. (\/ refr_out(refresh) /\ refr_bank_idx(refresh) = b
         \/ \E c \in chosen : c.bank = b /\ c.kind = "precharge") = closes
    <3>1. closes \in BOOLEAN
      BY DEF closes, Closes
    <3>2. QED
      BY <1>1, <1>3, <3>1
  <2>3. QED
    BY <2>1, <2>2 DEF BankAfter
<1>5. /\ closes \/ opens => ~banks[b].blocked /\ chosen # {}
      /\ [kind |-> k, bank |-> b] \in chosen => Sendable(b, k)
      /\ \A c, d \in chosen : c = d
  BY <1>3, ChosenCommand DEF Sendable
<1>6. banks'[b].active_row = banks[b].active_row /\ (banks[b].active => closes) /\ ~opens
  <2>1. CASE opens
    <3>1. ~banks[b].blocked /\ ~closes
      BY <1>3, <1>5, <2>1
    <3>2. banks'[b].active
      BY <1>2, <1>4, <2>1, <3>1 DEF State!BankEdge, State!Bank
    <3>3. QED
      BY <3>2
  <2>2. CASE ~opens
    BY <1>2, <1>4, <2>2 DEF State!BankEdge, State!Bank
  <2>3. QED
    BY <2>1, <2>2
<1> HIDE DEF closes, opens
<1>7. Waits(b, k)
  <2>1. CASE ~banks[b].active
    BY <1>1, <2>1 DEF ClosedInv
  <2>2. CASE closes /\ k = "read"
    BY <1>1, <2>2 DEF Overlooked, closes, Waits
  <2>3. CASE closes /\ k = "write"
    <3>1. PICK c \in chosen : c.bank = b /\ c.kind = "precharge"
      BY <1>3, <2>3
    <3>2. ~Sendable(b, "write") /\ ~banks[b].blocked
      BY <1>5, <2>3, <3>1, PrechargeLast
    <3>3. QED
      BY <2>3, <3>2 DEF Sendable, Waits
  <2>4. QED
    BY <1>6, <2>1, <2>2, <2>3 DEF Column
<1>8. [kind |-> k, bank |-> b] \notin chosen
  BY <1>5, <1>7 DEF Waits, Sendable, Column
<1>9. Into(Arrival(incoming), b, k) = {} /\ Into(Promotions, b, k) = {}
  <2>1. SUFFICES ASSUME Into(Arrival(incoming), b, k) # {} \/ Into(Promotions, b, k) # {}
                 PROVE  FALSE
    OBVIOUS
  <2>2. banks[b].active /\ \E m \in moves : m.bank = b /\ m.to = k
    BY <1>1, <2>1, IntoColumn
  <2>3. Crossed(moves, chosen)
    BY <1>6, <2>2 DEF Crossed, closes
  <2>4. QED
    BY <1>1, <2>3
<1>10. QED
  BY <1>2, <1>6, <1>7, <1>8, <1>9, QueueKept DEF Waits

\* A command that goes out to a column, but for a refresh, meets its row.
LEMMA StepColumn ==
  ASSUME TypeInv, ClosedInv, NEW incoming \in Arrivals, NEW bursting \in Bursting,
         NEW due \in RefreshDue, ClockEdge(incoming, bursting, due)
  PROVE  ColumnMeetsOpenRow'
<1> SUFFICES ASSUME mishaps' \subseteq {"crowded"}, NEW o \in out', o.kind \in Column
             PROVE  banks'[o.bank].active /\ banks'[o.bank].active_row = o.row
  BY DEF ColumnMeetsOpenRow
<1> DEFINE chosen == Chosen(bursting)
<1>1. mishaps \subseteq {"crowded"} /\ ~refr_out(refresh)
  BY Remembered DEF ClockEdge
<1>2. PICK c \in chosen : /\ o.kind = c.kind /\ o.bank = c.bank
                          /\ o.row = RowOf(ReadyTop(c.bank, c.kind))
  <2>1. out' = {[kind |-> c.kind, bank |-> c.bank, row |-> RowOf(ReadyTop(c.bank, c.kind)),
                 id |-> ReadyTop(c.bank, c.kind)] : c \in chosen}
    BY <1>1 DEF ClockEdge, Output
  <2>2. QED
    BY <2>1
<1>3. /\ c.bank \in Banks /\ chosen = {c} /\ Sendable(c.bank, c.kind)
      /\ banks[c.bank] \in State!Bank
  BY ChosenCommand DEF TypeInv, TypeOK
<1>4. /\ ~banks[c.bank].blocked /\ o.row = banks[c.bank].active_row
      /\ ~Queue!ready_empty(queues[c.bank][c.kind])
  BY <1>2, <1>3 DEF Sendable, Column
<1>5. banks[c.bank].active
  BY <1>1, <1>2, <1>3, <1>4 DEF ClosedInv, Waits
<1>6. banks'[c.bank] = banks[c.bank]
  <2>1. c.kind # "precharge" /\ c.kind # "activate"
    BY <1>2 DEF Column
  <2>2. banks'[c.bank] = BankAfter(c.bank, chosen)
    BY <1>3 DEF ClockEdge
  <2>3. QED
    BY <1>1, <1>3, <1>4, <2>1, <2>2 DEF BankAfter, State!BankEdge
<1>7. QED
  BY <1>2, <1>4, <1>5, <1>6

\* A read or write goes to a bank whose open row is its own, but for the four ways
\* to get it wrong that ColumnMeetsOpenRow names (mem_scheduler.sv 122-126, 449-478,
\* 492-583), for every geometry, latency and size of the rings.
THEOREM ColumnMeetsOpenRowHolds == Spec => []ColumnMeetsOpenRow
<1>1. Init => ClosedInv /\ ColumnMeetsOpenRow
  <2> SUFFICES ASSUME Init PROVE ClosedInv /\ ColumnMeetsOpenRow
    OBVIOUS
  <2>1. \A b \in Banks, k \in Kind : Queue!ready_empty(queues[b][k])
    BY DEF Init, Queue!ready_empty, Queue!empty, Queue!EmptyCmdQueue, Queue!EmptyRing
  <2>2. ClosedInv
    BY <2>1 DEF ClosedInv, Waits, Column, Kind
  <2>3. ColumnMeetsOpenRow
    BY DEF Init, ColumnMeetsOpenRow
  <2>4. QED
    BY <2>2, <2>3
<1>2. TypeInv /\ ClosedInv /\ ColumnMeetsOpenRow /\ [Next]_vars
         => (TypeInv /\ ClosedInv /\ ColumnMeetsOpenRow)'
  <2> SUFFICES ASSUME TypeInv, ClosedInv, ColumnMeetsOpenRow, [Next]_vars
               PROVE  (TypeInv /\ ClosedInv /\ ColumnMeetsOpenRow)'
    OBVIOUS
  <2>1. CASE Next
    BY <2>1, StepTypeInv, StepClosedInv, StepColumn DEF Next
  <2>2. CASE UNCHANGED vars
    BY <2>2 DEF vars, schedVars, TypeInv, TypeOK, Issued, ClosedInv, Waits, ReadyTop, RowOf,
       ColumnMeetsOpenRow
  <2>3. QED
    BY <2>1, <2>2
<1>3. QED
  BY InitTypeInv, <1>1, <1>2, PTL DEF Spec
=============================================================================
