------------------------------ MODULE LsuQueue ------------------------------
(***************************************************************************)
(* lsu_queue of load_store_unit.sv: the circular buffer of loads and       *)
(* stores, with store-to-load forwarding and the choice of what to send to *)
(* memory.                                                                 *)
(*                                                                         *)
(* The code is one clocked block of six parts in a fixed order, all        *)
(* non-blocking: every part reads the entries as they were before the      *)
(* edge, and where two parts write the same field the later part wins.     *)
(* Each part is an operator from the entries written so far (q) to the     *)
(* entries with its own writes on top; its conditions read `queue'.        *)
(***************************************************************************)
EXTENDS Integers, FiniteSetsExt

CONSTANTS Depths,        \* values of QUEUE_DEPTH; powers of two, pointers wrap by width
          Tag,           \* instruction tags
          Addr,          \* word addresses, 0 among them (the reset value)
          Value          \* data words, 0 among them (the reset value)

ASSUME QueueAssumption ==
    /\ Depths \subseteq Nat \ {0, 1}
    /\ 0 \in Addr /\ 0 \in Value

VARIABLES
    QUEUE_DEPTH,              \* entries: the parameter, chosen once
    queue,                    \* the entries, by slot
    head_ptr, tail_ptr,       \* oldest slot, next free slot
    count,                    \* entries in use, as the code counts them
    waiting_for_data_count,   \* entries without address, as the code counts them
    queue_completion          \* completion_{valid,tag,value}_out: a set of at most one

queueVars == << QUEUE_DEPTH, queue, head_ptr, tail_ptr, count, waiting_for_data_count,
                queue_completion >>

Slot == 0 .. QUEUE_DEPTH - 1

Entry == [valid : BOOLEAN, ea_resolved : BOOLEAN, dispatched : BOOLEAN, complete : BOOLEAN,
          tag : Tag \cup {0}, store : BOOLEAN, addr : Addr, value : Value]

Completion == [tag : Tag \cup {0}, value : Value]

QueueTypeOK ==
    /\ QUEUE_DEPTH \in Depths
    /\ queue \in [Slot -> Entry]
    /\ head_ptr \in Slot /\ tail_ptr \in Slot
    /\ count \in 0 .. QUEUE_DEPTH
    /\ waiting_for_data_count \in 0 .. 2 * QUEUE_DEPTH - 1
    /\ queue_completion \in {{}} \cup {{c} : c \in Completion}

\* After reset.  `complete' has no reset; it powers up low in the Verilator and
\* FPGA builds.
QueueInit ==
    /\ QUEUE_DEPTH \in Depths
    /\ queue = [s \in Slot |-> [valid |-> FALSE, ea_resolved |-> FALSE, dispatched |-> FALSE,
                                complete |-> FALSE, tag |-> 0, store |-> FALSE,
                                addr |-> 0, value |-> 0]]
    /\ head_ptr = 0 /\ tail_ptr = 0
    /\ count = 0 /\ waiting_for_data_count = 0
    /\ queue_completion = {}

\* Mutant: full is seen one entry late.
full_out_late == count = QUEUE_DEPTH + 1

full_out == count = QUEUE_DEPTH
waiting_for_data_out == waiting_for_data_count # 0

-----------------------------------------------------------------------------
\* Ring order.  Distance forward from slot a to slot b, and the same where a
\* walk that starts on its goal has to go all the way round.
Dist(a, b) == (b - a + QUEUE_DEPTH) % QUEUE_DEPTH
Walk(a, b) == IF a = b THEN QUEUE_DEPTH ELSE Dist(a, b)

\* is_older(i, j): a walk back from i meets j no later than the head.
is_older(i, j) == i # j /\ Dist(j, i) <= Walk(head_ptr, i)

\* is_younger(i, j): a walk forward from j meets i no later than the tail.
is_younger(i, j) == i # j /\ Dist(j, i) <= Walk(j, tail_ptr)

Store(s) == queue[s].valid /\ queue[s].store
Load(s) == queue[s].valid /\ ~queue[s].store
ResolvedTo(s, a) == queue[s].ea_resolved /\ queue[s].addr = a

\* A loop over the slots with a break acts on the lowest slot that qualifies.
Lowest(S) == IF S = {} THEN {} ELSE {Min(S)}

-----------------------------------------------------------------------------
\* Which entry may go to memory, and how (check_dispatchable).
LoadKind(i) ==
    LET blockers == {s \in Slot : /\ Store(s) /\ is_older(i, s) /\ ~queue[s].complete
                                  /\ ~queue[s].ea_resolved \/ queue[s].addr = queue[i].addr}
    IN  IF blockers = {} THEN "DISPATCH_MEMORY"
        ELSE IF queue[Min(blockers)].ea_resolved THEN "DISPATCH_FORWARD" ELSE "DISPATCH_NONE"

StoreKind(i) ==
    IF \E j \in Slot : /\ Store(j) /\ is_younger(j, i)
                       /\ ~queue[j].ea_resolved \/ queue[j].addr = queue[i].addr
    THEN "DISPATCH_NONE" ELSE "DISPATCH_MEMORY"

check_dispatchable(i) == IF queue[i].store THEN StoreKind(i) ELSE LoadKind(i)

\* The candidate search: loads first, then stores, each from the head over
\* `count' slots.  A set of at most one slot.
Candidates(store) ==
    {k \in 0 .. count - 1 :
        LET s == (head_ptr + k) % QUEUE_DEPTH
        IN  /\ queue[s].valid /\ queue[s].ea_resolved
            /\ ~queue[s].dispatched /\ ~queue[s].complete
            /\ queue[s].store = store
            /\ check_dispatchable(s) # "DISPATCH_NONE"}

Candidate ==
    LET first == IF Candidates(FALSE) # {} THEN Candidates(FALSE) ELSE Candidates(TRUE)
    IN  {(head_ptr + k) % QUEUE_DEPTH : k \in Lowest(first)}

-----------------------------------------------------------------------------
\* Part 1: one completed entry leaves for the processor.
\* Mutant: any valid entry counts as completed.
Completed_any == Lowest({s \in Slot : queue[s].valid})

Completed == Lowest({s \in Slot : queue[s].valid /\ queue[s].complete})

\* Mutant: the completed entry stays valid.
SendCompletion_keep(q) == q

\* Mutant: the slot is freed with its complete bit set.
SendCompletion_stale(q) ==
    [s \in Slot |-> IF s \in Completed THEN [q[s] EXCEPT !.valid = FALSE] ELSE q[s]]

SendCompletion(q) ==
    [s \in Slot |-> IF s \in Completed
                    THEN [q[s] EXCEPT !.valid = FALSE, !.complete = FALSE] ELSE q[s]]

\* Part 2: the candidate goes to the dispatch register; a "forwarded" one is freed.
\* Mutant: a dispatched entry is not marked.
MarkDispatched_never(q, loaded) == q

MarkDispatched(q, loaded) ==
    [s \in Slot |-> IF s \notin loaded THEN q[s]
                    ELSE IF check_dispatchable(s) = "DISPATCH_FORWARD"
                    THEN [q[s] EXCEPT !.valid = FALSE]
                    ELSE [q[s] EXCEPT !.dispatched = TRUE]]

\* Mutant: the slot's last address is taken for that of the new instruction.
Insert_resolved(q, instr) ==
    IF instr = {} THEN q
    ELSE LET n == CHOOSE n \in instr : TRUE
         IN  [q EXCEPT ![tail_ptr].valid = TRUE, ![tail_ptr].dispatched = FALSE,
                       ![tail_ptr].tag = n.tag, ![tail_ptr].store = n.store]

\* Part 3: a new instruction (a set of at most one) takes the tail slot.
\* `complete' keeps what the slot's last user left in it.
Insert(q, instr) ==
    IF instr = {} THEN q
    ELSE LET n == CHOOSE n \in instr : TRUE
         IN  [q EXCEPT ![tail_ptr] = [valid |-> TRUE, ea_resolved |-> FALSE, dispatched |-> FALSE,
                                      complete |-> @.complete, tag |-> n.tag, store |-> n.store,
                                      addr |-> 0, value |-> 0]]

\* Part 4: address and data arrive for a tag and are forwarded.
DataTargets(data) ==
    Lowest({s \in Slot : /\ queue[s].valid /\ ~queue[s].ea_resolved
                         /\ \E d \in data : d.tag = queue[s].tag})

\* forward_from_older_store: the closest resolved store between head and load.
ClosestStore(load, a) ==
    LET older == {s \in Slot : /\ Dist(head_ptr, s) < Dist(head_ptr, load)
                               /\ Store(s) /\ is_older(load, s) /\ ResolvedTo(s, a)}
    IN  {s \in older : \A t \in older : Dist(head_ptr, t) <= Dist(head_ptr, s)}

\* forward_to_younger_loads: resolved loads to the address, not yet dispatched.
WaitingLoads(store, a) ==
    {l \in Slot : /\ Load(l) /\ is_younger(l, store)
                  /\ ResolvedTo(l, a) /\ ~queue[l].dispatched}

\* check_for_younger_store: the first slot at which the loop stops decides
\* whether the store counts as done at once.
LoadBetween(s, store) == \E mid \in s + 1 .. store - 1 : Load(mid)

Coalesces(store, a) ==
    LET stops == {s \in Slot : /\ s # store /\ Store(s) /\ ~queue[s].dispatched
                               /\ is_older(s, store)
                               /\ LoadBetween(s, store) \/ ~queue[s].ea_resolved \/ queue[s].addr = a}
    IN  \E s \in Lowest(stops) : ~LoadBetween(s, store) /\ ResolvedTo(s, a)

ResolveLoad(q, l, d) ==
    LET from == ClosestStore(l, d.addr)
        resolved == [q EXCEPT ![l].addr = d.addr, ![l].ea_resolved = TRUE]
    IN  IF from = {} THEN resolved
        ELSE [resolved EXCEPT ![l].valid = TRUE, ![l].complete = TRUE,
                              ![l].value = queue[CHOOSE s \in from : TRUE].value]

\* Mutant: the store's own value is not written.
ResolveStore_no_value(q, st, d) ==
    [q EXCEPT ![st].addr = d.addr, ![st].ea_resolved = TRUE]

ResolveStore(q, st, d) ==
    LET resolved == [q EXCEPT ![st].addr = d.addr, ![st].value = d.value, ![st].ea_resolved = TRUE]
        forwarded == [s \in Slot |->
                        IF s \in WaitingLoads(st, d.addr)
                        THEN [resolved[s] EXCEPT !.value = d.value, !.valid = TRUE, !.complete = TRUE]
                        ELSE resolved[s]]
    IN  IF Coalesces(st, d.addr)
        THEN [forwarded EXCEPT ![st].valid = TRUE, ![st].complete = TRUE]
        ELSE forwarded

ArriveData(q, data) ==
    IF DataTargets(data) = {} THEN q
    ELSE LET s == CHOOSE s \in DataTargets(data) : TRUE
             d == CHOOSE d \in data : TRUE
         IN  IF queue[s].store THEN ResolveStore(q, s, d) ELSE ResolveLoad(q, s, d)

\* Part 5: memory has answered; the entry is freed (`complete' is not touched).
FreeCompleted(q, response) ==
    LET hit == Lowest({s \in Slot : /\ queue[s].valid /\ queue[s].dispatched
                                    /\ \E r \in response : r.tag = queue[s].tag})
    IN  [s \in Slot |->
            IF s \notin hit THEN q[s]
            ELSE IF queue[s].store THEN [q[s] EXCEPT !.valid = FALSE]
            ELSE [q[s] EXCEPT !.valid = FALSE,
                              !.value = (CHOOSE r \in response : TRUE).value]]

\* Part 6: the head slot is given back when it is free.
Pops == count > 0 /\ ~queue[head_ptr].valid

-----------------------------------------------------------------------------
\* One clock edge: `loaded' is the candidate the dispatch register takes (or {}),
\* `instr', `data' and `response' the valid inputs of the edge (or {}).
QueueEdge(loaded, instr, data, response) ==
    /\ UNCHANGED QUEUE_DEPTH
    /\ queue' = FreeCompleted(
                  ArriveData(
                    Insert(MarkDispatched(SendCompletion(queue), loaded), instr), data), response)
    /\ queue_completion' = {[tag |-> queue[s].tag, value |-> queue[s].value] : s \in Completed}
    /\ tail_ptr' = IF instr # {} THEN (tail_ptr + 1) % QUEUE_DEPTH ELSE tail_ptr
    /\ head_ptr' = IF Pops THEN (head_ptr + 1) % QUEUE_DEPTH ELSE head_ptr
    \* The counters have one writer per part as well: the last one wins.
    /\ count' = IF Pops THEN count - 1
                ELSE IF instr # {} THEN count + 1 ELSE count
    /\ waiting_for_data_count' =
         LET delta == IF DataTargets(data) # {} THEN -1
                      ELSE IF instr # {} THEN 1
                      ELSE IF Completed # {} /\ ~queue[head_ptr].ea_resolved THEN -1
                      ELSE 0
         IN  (waiting_for_data_count + delta) % (2 * QUEUE_DEPTH)
=============================================================================
