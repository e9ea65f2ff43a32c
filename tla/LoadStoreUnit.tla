--------------------------- MODULE LoadStoreUnit ---------------------------
(***************************************************************************)
(* load_store_unit.sv as a whole: lsu_control joins the queue (LsuQueue)   *)
(* and the dispatch path to the L1D (DispatchPath) and merges their        *)
(* completions.  Around it stand the processor, which follows the protocol *)
(* of uvm/lsu_driver.sv, and a memory behind the L1D port.                 *)
(*                                                                         *)
(* Instruction n of the program carries tag n, and a store writes its own  *)
(* tag, so that a value names the store it came from; 0 is the initial     *)
(* content of memory.                                                      *)
(***************************************************************************)
EXTENDS LsuQueue, SequencesExt

CONSTANTS None,
          MaxOps,       \* bound: instructions the processor issues
          MaxWaiting    \* instructions that may be without their address at once:
                        \* 1 is lsu_driver's protocol, more is lsu_tb1's

VARIABLES
    curr_state, lat, dispatch_ready_out, l1d_valid_out, l1d_req_out, mem_completion,
    reg_dispatch, l1d_port, l1d_taken,    \* the dispatch path
    completion,      \* lsu_control's completion_{valid,tag,value}_out, at most one
    program,         \* the instructions issued so far, in program order
    sent,            \* tags whose address has been put on the data interface
    data_in,         \* proc_data_{valid,tag,addr,value} as driven, at most one
    taken,           \* tags of the requests the L1D has taken, in order
    pending,         \* responses the L1D still owes, in the order it took the requests
    done,            \* how often each tag was reported complete (up to 2)
    mishaps          \* history: which of the two edges below have happened

pathVars == << curr_state, lat, dispatch_ready_out, l1d_valid_out, l1d_req_out,
               mem_completion, reg_dispatch, l1d_port, l1d_taken >>
vars == << queueVars, pathVars, completion, program, sent, data_in, taken, pending,
           done, mishaps >>

Request == [tag : Tag, store : BOOLEAN, addr : Addr, value : Value]
Response == [tag : Tag, value : Value, write_complete : BOOLEAN]
Instruction == [store : BOOLEAN, addr : Addr]

ASSUME LsuAssumption ==
    /\ MaxOps \in Nat /\ MaxWaiting \in Nat \ {0}
    /\ Tag = 1 .. MaxOps /\ Tag \subseteq Value
    /\ None \notin Request \cup Response

Path == INSTANCE DispatchPath

TypeOK ==
    /\ QueueTypeOK
    /\ Path!TypeOK
    /\ completion \in {{}} \cup {{c} : c \in Completion}
    /\ program \in Seq(Instruction) /\ Len(program) <= MaxOps
    /\ sent \subseteq 1 .. Len(program)
    /\ data_in \in {{}} \cup {{[tag |-> t, addr |-> a, value |-> t]} : t \in Tag, a \in Addr}
    /\ taken \in Seq(Tag) /\ Len(taken) <= 2 * MaxOps
    /\ pending \in Seq(Response) /\ Len(pending) <= MaxOps
    /\ done \in [Tag -> 0 .. 2]
    /\ mishaps \subseteq {"uncounted", "overtaken"}

Init ==
    /\ QueueInit
    /\ Path!Init
    /\ completion = {}
    /\ program = << >> /\ sent = {} /\ data_in = {}
    /\ taken = << >>
    /\ pending = << >>
    /\ done = [t \in Tag |-> 0]
    /\ mishaps = {}

-----------------------------------------------------------------------------
\* What the queue offers to the dispatch register.
Offer ==
    IF Candidate = {} THEN None
    ELSE LET e == queue[CHOOSE s \in Candidate : TRUE]
         IN  [tag |-> e.tag, store |-> e.store, addr |-> e.addr, value |-> e.value]

Loaded == IF Path!Loads(Offer) THEN Candidate ELSE {}

\* lsu_control: a completion of the queue hides one of memory_interface.
Merge ==
    completion' = IF queue_completion # {} THEN queue_completion
                  ELSE IF mem_completion = None THEN {}
                  ELSE {[tag |-> mem_completion.tag, value |-> mem_completion.value]}

\* The processor takes every completion of the edge.
Retire == done' = [t \in Tag |-> IF (\E c \in completion : c.tag = t) /\ done[t] < 2
                                 THEN done[t] + 1 ELSE done[t]]

\* Phase 1 of the driver: an instruction is accepted on valid and not stalled;
\* the driver goes on to the next only when the address has been accepted.
Issue(i) ==
    /\ ~full_out
    /\ Len(program) < MaxOps
    /\ Len(program) - Cardinality(sent) + Cardinality(data_in) < MaxWaiting
    /\ program' = Append(program, i)

\* Phase 2: data valid is held until ready is sampled high, then the next
\* waiting tag may be driven (or nothing).
Drive ==
    IF data_in # {} /\ ~waiting_for_data_out THEN UNCHANGED << data_in, sent >>
    ELSE \/ data_in' = {} /\ UNCHANGED sent
         \/ \E t \in DOMAIN program' \ sent :
              /\ data_in' = {[tag |-> t, addr |-> program'[t].addr, value |-> t]}
              /\ sent' = sent \cup {t}

\* The memory side of the L1D: it performs the request it takes and owes a
\* response, which it gives at any later edge; those to one address in order
\* (they hit, or wait in one MSHR), others in any order.
Writers(a) == {k \in DOMAIN taken : program[taken[k]].store /\ program[taken[k]].addr = a}

Content(a) == IF Writers(a) = {} THEN 0 ELSE taken[Max(Writers(a))]

Answer(r) == [tag |-> r.tag, write_complete |-> r.store,
              value |-> IF r.store THEN 0 ELSE Content(r.addr)]

Ready == {k \in DOMAIN pending :
            \A j \in 1 .. k - 1 : program[pending[j].tag].addr # program[pending[k].tag].addr}

MemoryEdge(answered) ==
    LET left == IF answered = {} THEN pending
                ELSE RemoveAt(pending, CHOOSE k \in answered : TRUE)
    IN  /\ pending' = IF Path!Accepts THEN Append(left, Answer(l1d_req_out)) ELSE left
        /\ taken' = IF Path!Accepts THEN Append(taken, l1d_req_out.tag) ELSE taken

\* Two edges after which the unit's bookkeeping is off.  An instruction comes in
\* as the head is popped, and count does not count it; its slot may be given to
\* another while it is in use.  A load is taken for dispatch and completed from
\* a store on one edge.
Uncounted(instr) == Pops /\ instr # {}
Overtaken == \E s \in Loaded : ~queue[s].complete /\ queue'[s].complete

Remember(instr) ==
    mishaps' = mishaps \cup {m \in {"uncounted", "overtaken"} :
                                IF m = "uncounted" THEN Uncounted(instr) ELSE Overtaken}

-----------------------------------------------------------------------------
\* One clock edge of the unit and of what is around it: at most one instruction
\* comes in, at most one of the owed responses is given.
ClockEdge(instr, answered) ==
    /\ QueueEdge(Loaded, instr, data_in,
                 IF mem_completion = None THEN {} ELSE {mem_completion})
    /\ Path!ClockEdge(Offer, IF answered = {} THEN None
                             ELSE pending[CHOOSE k \in answered : TRUE])
    /\ Merge /\ Retire
    /\ Drive
    /\ MemoryEdge(answered)
    /\ Remember(instr)

Edge(answered) ==
    \/ UNCHANGED program /\ ClockEdge({}, answered)
    \/ \E i \in Instruction :
          /\ Issue(i)
          /\ ClockEdge({[tag |-> Len(program'), store |-> i.store]}, answered)

Next == \E answered \in {{}} \cup {{k} : k \in Ready} : Edge(answered)

\* The clock does not stop, but no fill need come; the L1D does not stay busy for
\* ever and answers the request it has owed a response longest, and the processor
\* does not sit on an address.
Fairness ==
    /\ WF_vars(Next /\ ~Path!MeetFill)
    /\ WF_vars(Next /\ Path!Reopen)
    /\ WF_vars(pending # << >> /\ Edge({1}))

Spec == Init /\ [][Next]_vars /\ Fairness

-----------------------------------------------------------------------------
\* lsu_driver supplies the address of an instruction before it issues the next.
OneAtATime == MaxWaiting = 1

\* What the processor supplied for a tag is what the L1D port carries for it,
\* whatever forwarding, coalescing and slot reuse did to the entry.  With several
\* instructions waiting for their addresses this needs the count to be right.
RequestIntegrity ==
    (OneAtATime \/ "uncounted" \notin mishaps) /\ l1d_valid_out =>
        LET r == l1d_req_out
            p == program[r.tag]
        IN  r.tag \in sent /\ r.store = p.store /\ r.addr = p.addr /\ (r.store => r.value = r.tag)

\* A completion names an instruction whose address was supplied, as long as no
\* insertion was left out of count (an overwritten slot completes for its user).
CompletedAfterAddress ==
    OneAtATime /\ "uncounted" \notin mishaps => \A c \in completion : c.tag \in sent

\* No instruction completes twice: the three ways to complete (memory,
\* forwarding, coalescing) exclude each other but for the two edges of `mishaps'.
\* (Not so with several instructions waiting: in a full ring the load at the head
\* counts as younger than any store and is forwarded to while it is on its way.)
CompletedOnce == OneAtATime /\ mishaps = {} => \A t \in Tag : done[t] <= 1

\* The L1D is given each instruction at most once, so no load or store is
\* performed twice although the dispatch register, memory_interface and the
\* L1D each keep a copy of it.
TakenOnce == IsInjective(taken)

\* The value program order gives to load t: that of the last older store.
Expected(t) ==
    LET older == {s \in 1 .. t - 1 : program[s].store /\ program[s].addr = program[t].addr}
    IN  IF older = {} THEN 0 ELSE Max(older)

\* uvm/lsu_scoreboard.sv compares every load with a reference memory in program
\* order.  (Violated: the younger of two stores to one address can be completed
\* and dropped while the older one's value stays.)
LoadValueCorrect ==
    \A c \in completion : ~program[c.tag].store => c.value = Expected(c.tag)

\* The L1D loses no request to a fill, and in the end it has no more fills to serve
\* and a free MSHR: the rest is for DispatchPath and L1DSystem.
L1dAvailable == []~Path!LetsGo /\ <>[](l1d_port \notin {"fill", "full"})

\* uvm/lsu_scoreboard.sv reports a load that never completes.  (Violated: an
\* instruction accepted at the edge that pops the head is not counted, and what
\* is not counted is not searched for a candidate.)
LoadsComplete ==
    L1dAvailable =>
        \A t \in Tag : (t \in sent /\ data_in = {} /\ ~program[t].store) ~> done[t] > 0
=============================================================================
