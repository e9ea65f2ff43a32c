----------------------------- MODULE L1DSystem -----------------------------
(***************************************************************************)
(* The L1D between the LSU's end of its port (MemoryInterface) and an LLC  *)
(* that behaves like uvm/llc_responder.sv: always ready, one line for each *)
(* read after some delay, held until the L1D shows ready.                  *)
(*                                                                         *)
(* Request n carries tag n and a store writes its own tag, so that a value *)
(* names its store; 0 is the initial content of memory.                    *)
(***************************************************************************)
EXTENDS L1DataCache, SequencesExt

CONSTANTS MaxOps,      \* bound: requests the LSU queue dispatches
          UsedBlock    \* bound: the blocks they are for

Response == [tag : Tag \cup {0}, value : Value, write_complete : BOOLEAN]

ASSUME SystemAssumption ==
    /\ MaxOps \in Nat /\ Tag = 1 .. MaxOps /\ Tag \subseteq Value /\ UsedBlock \subseteq Block
    /\ None \notin Response

VARIABLES
    reg_dispatch, curr_state, lat, dispatch_ready_out, l1d_valid_out, l1d_req_out,
    mem_completion,     \* the LSU's end of the port
    program,            \* the requests dispatched so far, in order
    taken,              \* tags of the requests the L1D has accepted, in order
    answered,           \* how often each tag was answered (up to 2)
    llc_memory,         \* the LLC's lines
    owed,               \* fills the LLC has not driven yet, oldest first
    llc_fill,           \* the fill it drives, None when not valid
    phantom             \* a secondary miss has entered an empty MSHR

Mif == INSTANCE MemoryInterface WITH Request <- LsuRequest

envVars == << program, taken, answered, llc_memory, owed, llc_fill, phantom >>
vars == << l1dVars, Mif!mifVars, envVars >>

TypeOK ==
    /\ L1dTypeOK
    /\ Mif!MifTypeOK
    /\ program \in Seq([store : BOOLEAN, addr : Address]) /\ Len(program) <= MaxOps
    /\ taken \in Seq(Tag)
    /\ answered \in [Tag -> 0 .. 2]
    /\ llc_memory \in [Block -> Line]
    /\ owed \in Seq(Fill)
    /\ llc_fill \in Fill \cup {None}
    /\ phantom \in BOOLEAN

Init ==
    /\ L1dInit
    /\ Mif!MifInit
    /\ program = << >> /\ taken = << >>
    /\ answered = [t \in Tag |-> 0]
    /\ llc_memory = [b \in Block |-> ZeroLine]
    /\ owed = << >> /\ llc_fill = None
    /\ phantom = FALSE

-----------------------------------------------------------------------------
\* What the LSU's end of the port presents, and what the L1D answers.
Presented == IF l1d_valid_out THEN l1d_req_out ELSE None
Answered == IF lsu_out.valid
            THEN [tag |-> lsu_out.tag, value |-> lsu_out.value,
                  write_complete |-> lsu_out.write_complete]
            ELSE None

\* The LLC takes a writeback at once; for a read it owes the line.
LlcTakes ==
    /\ llc_memory' = IF lc_out.valid /\ lc_out.we
                     THEN [llc_memory EXCEPT ![lc_out.block] = lc_out.line] ELSE llc_memory
    /\ LET asked == IF lc_out.valid /\ ~lc_out.we
                    THEN << [block |-> lc_out.block, line |-> llc_memory[lc_out.block]] >>
                    ELSE << >>
       IN  \/ /\ owed' = owed \o asked
              /\ llc_fill' = IF lc_ready_out THEN None ELSE llc_fill
           \/ /\ llc_fill = None /\ owed # << >>
              /\ owed' = Tail(owed) \o asked
              /\ llc_fill' = Head(owed)

\* The front slot of a ring that is empty still names a block, that of its last
\* request or block 0, and a miss on that block is filed there.
EntersEmpty ==
    /\ l1d_state = "CHECK_MSHR" /\ l1d_state' = "IDLE"
    /\ Queue!empty(mshr[Min(Tracking)])

History ==
    /\ taken' = IF Accepts(Presented, llc_fill) THEN Append(taken, l1d_req_out.tag) ELSE taken
    /\ answered' = [t \in Tag |-> IF lsu_out.valid /\ lsu_out.tag = t /\ answered[t] < 2
                                  THEN answered[t] + 1 ELSE answered[t]]
    /\ phantom' = (phantom \/ EntersEmpty)

ClockEdge(candidate) ==
    /\ Mif!MifEdge(candidate, lsu_ready_out, Answered)
    /\ L1dEdge(Presented, llc_fill, TRUE)
    /\ LlcTakes
    /\ History

\* The queue dispatches nothing, or the next request of the program.
NoDispatch == UNCHANGED program /\ ClockEdge(None)

NewDispatch ==
    \E store \in BOOLEAN, addr \in [block : UsedBlock, word : Word] :
        LET t == Len(program) + 1
            r == [tag |-> t, store |-> store, addr |-> addr, value |-> IF store THEN t ELSE 0]
        IN  /\ t <= MaxOps
            /\ Mif!Loads(r)
            /\ program' = Append(program, [store |-> store, addr |-> addr])
            /\ ClockEdge(r)

Next == NoDispatch \/ NewDispatch

\* The clock does not stop, and the LLC drives what it owes.
Fairness ==
    /\ WF_vars(Next)
    /\ WF_vars(Next /\ llc_fill = None /\ llc_fill' # None)

Spec == Init /\ [][Next]_vars /\ Fairness

-----------------------------------------------------------------------------
Held(m) == Queue!Contents(mshr[m])

\* No request is answered twice: a hit, a forwarded value, the countdown of a
\* write and MSHR playback exclude each other.
AnsweredOnce == \A t \in Tag : answered[t] <= 1

\* An answer is for a request the L1D accepted and says rightly whether that was
\* a store, although tag and kind come from different registers in each state.
AnswerMatchesRequest ==
    lsu_out.valid =>
        /\ lsu_out.tag \in ToSet(taken)
        /\ lsu_out.write_complete = program[lsu_out.tag].store

\* All requests in one MSHR wait for one block: a fill replays all of them.
OneBlockPerMshr ==
    \A m \in Mshr : \A i, j \in DOMAIN Held(m) : Held(m)[i].addr.block = Held(m)[j].addr.block

\* No block is tracked by two MSHRs, as long as no empty one was taken for the
\* block's: requests to one block stay in one queue, and so in order.
OneMshrPerBlock ==
    ~phantom => \A m, n \in Mshr : m # n /\ ~Queue!empty(mshr[m]) /\ ~Queue!empty(mshr[n])
                       => Oldest(m).addr.block # Oldest(n).addr.block

\* The blocks of the reads that are on their way to or from the LLC.
OutstandingReads ==
    [i \in DOMAIN owed |-> owed[i].block]
    \o (IF llc_fill = None THEN << >> ELSE << llc_fill.block >>)
    \o (IF lc_out.valid /\ ~lc_out.we THEN << lc_out.block >> ELSE << >>)

\* A block that is being fetched is not asked for again (secondary misses wait).
OneReadPerBlock == IsInjective(OutstandingReads)

\* Somebody waits for each line the LLC still owes.
ReadHasMshr ==
    \A i \in DOMAIN owed :
        \E m \in Mshr : ~Queue!empty(mshr[m]) /\ Oldest(m).addr.block = owed[i].block

\* The L1D accepts each request once, although memory_interface goes on driving
\* it until it has seen ready fall.
TakenOnce == IsInjective(taken)

\* What the L1D shows on its request port, in the words of DispatchPath.
PortNow ==
    IF l1d_state = "IDLE"
    THEN IF lc_in_reg.valid THEN "fill"
         ELSE IF FreeMshrs = {} THEN "full"
         ELSE IF lsu_ready_out THEN "idle_hi" ELSE "idle_lo"
    ELSE IF lsu_ready_out THEN "late_hi" ELSE "busy"

RequestOf(t) == [tag |-> t, store |-> program[t].store, addr |-> program[t].addr,
                 value |-> IF program[t].store THEN t ELSE 0]

LastTaken == IF taken = << >> THEN None ELSE RequestOf(Last(taken))

Port == INSTANCE DispatchPath WITH
            Request <- LsuRequest, l1d_port <- PortNow, l1d_taken <- LastTaken

\* The L1D keeps to the port DispatchPath shows the LSU, whatever its MSHRs, the
\* cache and the LLC do: ready follows IDLE by one edge, a request is accepted
\* only with no fill presented or latched and an MSHR free, a fill is held until
\* it has been served, and none is still latched when the L1D returns to IDLE.
\* (On an edge the queue's candidate is what its register holds afterwards.)
L1dKeepsPort ==
    Port!Init /\ [][Port!ClockEdge(reg_dispatch', mem_completion')]_(Port!pathVars)

\* Every MSHR counts as in use, and no line is on its way.  An emptied ring comes
\* to this once it has wrapped: a dequeue leaves the valid bit in the slot that is
\* in front again after QUEUE_SIZE requests.
Shut ==
    /\ l1d_state = "IDLE" /\ ~lc_in_reg.valid
    /\ FreeMshrs = {} /\ OutstandingReads = << >>

\* An L1D that is shut stays so: no edge frees an MSHR but one that plays back a
\* fill, and no request is accepted that could cause one.
ShutForGood == [][Shut => Shut' /\ taken' = taken]_vars

\* The L1D always comes back to IDLE: no lookup is left without an answer, and a
\* miss without an MSHR.  DispatchPath and LoadStoreUnit assume it as fairness.
ComesBack == []<>(l1d_state = "IDLE")

\* The value the order of acceptance gives to load t: that of the last store to
\* its address accepted before it.
Expected(t) ==
    LET before == SubSeq(taken, 1, CHOOSE k \in DOMAIN taken : taken[k] = t)
        stores == SelectSeq(before, LAMBDA u : program[u].store /\ program[u].addr = program[t].addr)
    IN  IF stores = << >> THEN 0 ELSE Last(stores)

\* docs/l1d_cache_spec.md 8.2: a load after a store to the same address that
\* missed is answered with the store's value.  (Violated: SEND_RESP_HC drives
\* the cache's value register, not the one forwarded.)
LoadValueCorrect ==
    lsu_out.valid /\ ~lsu_out.write_complete => lsu_out.value = Expected(lsu_out.tag)

\* docs/l1d_cache_spec.md 4.1: a dirty line is written back to the LLC before
\* its way is used for another block.  (Violated: cur_hit stays set after the
\* first hit, so that a miss overwrites the line that was hit last.)
DirtyLineWrittenBack ==
    [][\A w \in Way, s \in Set :
          LET old == tag_array[w][s]
          IN  old.dirty /\ tag_array'[w][s].tag # old.tag
              => llc_memory[old.tag] = cache_data[w][s]]_vars

\* docs/l1d_cache_spec.md 6: a request that meets a fill is taken on a later
\* cycle.  (Violated: memory_interface reads the low ready as acceptance.)
RequestsTaken == \A t \in Tag : t <= Len(program) ~> t \in ToSet(taken)

\* docs/l1d_cache_spec.md 5.3: a primary miss is answered when its line returns.
\* (Violated for block 0, which an MSHR that was never used seems to track.)
RequestsAnswered == \A t \in Tag : t \in ToSet(taken) ~> answered[t] > 0
=============================================================================
