--------------------------- MODULE L1dScoreboard ---------------------------
(***************************************************************************)
(* uvm/l1d_scoreboard.sv around the golden model, beside an L1D that does  *)
(* what its port promises: a load returns the last store to its address in *)
(* program order, every request is answered once, and a request is taken   *)
(* only while an MSHR is free.  The question is whether the scoreboard     *)
(* finds such an L1D right.                                                *)
(*                                                                         *)
(* This L1D keeps the golden model's replacement policy but applies it     *)
(* where cache.sv does: when the fill reaches the cache, so that the       *)
(* victim can still be hit while its successor is being fetched.  Requests *)
(* carry tags 1, 2, ... and a store writes its tag, so the queue of early  *)
(* completions is a set: no two have the same tag.  pending_tags and the   *)
(* counters of the report are left out: nothing reads them.                *)
(***************************************************************************)
EXTENDS GoldenL1D

CONSTANTS MaxOps,    \* bound: requests the sequences drive
          None

ASSUME ScoreboardAssumption ==
    /\ MaxOps \in Nat /\ Tag = 1 .. MaxOps /\ Tag \subseteq Value
    /\ None \notin Block \cup Completion \cup [block : Block, line : Line]

VARIABLES
    expected,       \* expected[tag]: the completion awaited, None without one
    early_comps,    \* completions that found no expectation
    mismatches,     \* the tags reported as DATA MISMATCH
    issued,         \* requests accepted so far: the next tag is issued + 1
    memory,         \* memory as the accepted requests define it
    dut_array,      \* the block in each way and set of the L1D, or None
    dut_plru,
    dut_mshr,       \* per block being fetched: the answers that wait for it
    dut_line,       \* per block being fetched: the LLC's line
    answers,        \* answers of the L1D the monitor has not seen yet, in order
    fill_event,     \* the fill the L1D has taken and the monitor has not seen
    overlapped,     \* history: a set saw another block while a fill was due
    forgotten       \* history: the tags the golden model gave up

scoreboardVars == << expected, early_comps, mismatches >>
dutVars == << issued, memory, dut_array, dut_plru, dut_mshr, dut_line, answers, fill_event >>
historyVars == << overlapped, forgotten >>
vars == << goldenVars, scoreboardVars, dutVars, historyVars >>

TypeOK ==
    /\ GoldenTypeOK
    /\ expected \in [Tag -> Completion \cup {None}]
    /\ early_comps \subseteq Completion
    /\ mismatches \subseteq Tag
    /\ issued \in 0 .. MaxOps
    /\ memory \in [Block -> Line]
    /\ dut_array \in [Way -> [Set -> Block \cup {None}]]
    /\ dut_plru \in [Set -> SUBSET Way]
    /\ dut_mshr \in [Block -> Seq(Completion)]
    /\ dut_line \in [Block -> Line]
    /\ answers \in Seq(Completion)
    /\ fill_event \in [block : Block, line : Line] \cup {None}
    /\ overlapped \in BOOLEAN
    /\ forgotten \subseteq Tag

Init ==
    /\ GoldenInit
    /\ expected = [t \in Tag |-> None]
    /\ early_comps = {} /\ mismatches = {}
    /\ issued = 0
    /\ memory = [b \in Block |-> [i \in Word |-> 0]]
    /\ dut_array = [w \in Way |-> [s \in Set |-> None]]
    /\ dut_plru = [s \in Set |-> {}]
    /\ dut_mshr = [b \in Block |-> << >>]
    /\ dut_line = [b \in Block |-> [i \in Word |-> 0]]
    /\ answers = << >> /\ fill_event = None
    /\ overlapped = FALSE /\ forgotten = {}

-----------------------------------------------------------------------------
\* drain_model_completions: a completion is filed under its tag.
Drained(pushed) ==
    [t \in Tag |-> LET K == {k \in DOMAIN pushed : pushed[k].tag = t}
                   IN  IF K = {} THEN expected[t] ELSE pushed[Max(K)]]

\* check_completion: only the value of a load is compared.
Wrong(c, e) == ~e.is_write /\ c.data # e.data

-----------------------------------------------------------------------------
\* The L1D: ways that hold a block, blocks being fetched, what a request returns.
DutWays(b) == {w \in Way : dut_array[w][SetOf[b]] = b}
Fetched == {b \in Block : dut_mshr[b] # << >>}

Answer(r) == [tag |-> r.proc_tag, is_write |-> r.we,
              data |-> IF r.we THEN 0 ELSE memory[r.paddr.block][r.paddr.word]]

\* A load whose word a waiting store writes is answered at once.
DutForwards(r) ==
    ~r.we /\ memory[r.paddr.block][r.paddr.word] # dut_line[r.paddr.block][r.paddr.word]

DutTakes(r) ==
    LET b == r.paddr.block
        s == SetOf[b]
    IN  /\ fill_event = None /\ answers = << >>    \* it is back in IDLE
        /\ Cardinality(Fetched) < MSHR_COUNT
        /\ \/ /\ DutWays(b) # {}
              /\ dut_plru' = [dut_plru EXCEPT ![s] = plru_update(@, Min(DutWays(b)))]
              /\ answers' = Append(answers, Answer(r))
              /\ UNCHANGED << dut_mshr, dut_line >>
           \/ /\ DutWays(b) = {} /\ b \in Fetched /\ DutForwards(r)
              /\ answers' = Append(answers, Answer(r))
              /\ UNCHANGED << dut_plru, dut_mshr, dut_line >>
           \/ /\ DutWays(b) = {} /\ b \in Fetched /\ ~DutForwards(r)
              /\ Len(dut_mshr[b]) < MSHR_QUEUE_SIZE
              /\ dut_mshr' = [dut_mshr EXCEPT ![b] = Append(@, Answer(r))]
              /\ UNCHANGED << answers, dut_plru, dut_line >>
           \/ /\ DutWays(b) = {} /\ b \notin Fetched
              /\ dut_mshr' = [dut_mshr EXCEPT ![b] = << Answer(r) >>]
              /\ dut_line' = [dut_line EXCEPT ![b] = memory[b]]
              /\ UNCHANGED << answers, dut_plru >>
        /\ memory' = IF r.we THEN [memory EXCEPT ![b][r.paddr.word] = r.data] ELSE memory
        /\ UNCHANGED << dut_array, fill_event >>

\* Another block of the set is being fetched.
Overlaps(r) == \E b \in Fetched : b # r.paddr.block /\ SetOf[b] = SetOf[r.paddr.block]

\* write_req: completions are drained only after a request that pushed one.
write_req ==
    \E we \in BOOLEAN, a \in Address :
        LET t == issued + 1
            r == [paddr |-> a, we |-> we, data |-> IF we THEN t ELSE 0, proc_tag |-> t]
        IN  /\ issued < MaxOps
            /\ DutTakes(r)
            /\ l1d_model_request(r)
            /\ expected' = Drained(RequestPushes(r))
            /\ issued' = t
            /\ overlapped' = (overlapped \/ Overlaps(r))
            /\ forgotten' = IF Forgets(r) THEN forgotten \cup {t} ELSE forgotten
            /\ UNCHANGED << early_comps, mismatches >>

\* The L1D takes the LLC's line and answers what waited for it.  The LLC's latency
\* can be configured: fills come in any order.
DutFills ==
    \E b \in Fetched :
        LET s == SetOf[b]
            w == plru_victim(dut_plru[s])
        IN  /\ fill_event = None
            /\ fill_event' = [block |-> b, line |-> dut_line[b]]
            /\ dut_array' = [dut_array EXCEPT ![w][s] = b]
            /\ dut_plru' = [dut_plru EXCEPT ![s] = plru_update(@, w)]
            /\ answers' = answers \o dut_mshr[b]
            /\ dut_mshr' = [dut_mshr EXCEPT ![b] = << >>]
            /\ UNCHANGED << goldenVars, scoreboardVars, historyVars, issued, memory, dut_line >>

\* Mutant: buffered completions are not looked at again after a fill.
Resolved_never(filed) == {}

\* resolve_early_completions: those that now have an expectation.
Resolved(filed) == {c \in early_comps : filed[c.tag] # None}

\* write_fill: play back, drain, and check what came early.
write_fill ==
    /\ fill_event # None
    /\ l1d_model_fill(fill_event.block, fill_event.line)
    /\ LET filed == Drained(FillPushes(fill_event.block, fill_event.line))
           found == Resolved(filed)
       IN  /\ early_comps' = early_comps \ found
           /\ expected' = [t \in Tag |-> IF \E c \in found : c.tag = t THEN None ELSE filed[t]]
           /\ mismatches' = mismatches \cup {c.tag : c \in {d \in found : Wrong(d, filed[d.tag])}}
    /\ fill_event' = None
    /\ UNCHANGED << issued, memory, dut_array, dut_plru, dut_mshr, dut_line, answers, historyVars >>

\* write_comp: check the completion, or buffer it when nothing is expected yet.
write_comp ==
    /\ answers # << >>
    /\ LET c == Head(answers)
           e == expected[c.tag]
       IN  IF e = None
           THEN early_comps' = early_comps \cup {c} /\ UNCHANGED << expected, mismatches >>
           ELSE /\ expected' = [expected EXCEPT ![c.tag] = None]
                /\ mismatches' = IF Wrong(c, e) THEN mismatches \cup {c.tag} ELSE mismatches
                /\ UNCHANGED early_comps
    /\ answers' = Tail(answers)
    /\ UNCHANGED << goldenVars, historyVars, issued, memory, dut_array, dut_plru, dut_mshr,
                    dut_line, fill_event >>

Next == write_req \/ DutFills \/ write_fill \/ write_comp

Spec == Init /\ [][Next]_vars

-----------------------------------------------------------------------------
\* Tags the golden model still holds, expects, or has given to be checked.
Waiting == UNION {{mshr[m].entries[k].proc_tag : k \in DOMAIN mshr[m].entries} : m \in Mshr}
Expected == {t \in Tag : expected[t] # None}

\* A request waits in one MSHR at most, and not for a second expectation: whatever
\* the two disagree about, no request is expected twice.
ExpectedOnce ==
    /\ Waiting \cap Expected = {}
    /\ \A m, n \in Mshr : \A j \in DOMAIN mshr[m].entries, k \in DOMAIN mshr[n].entries :
           mshr[m].entries[j].proc_tag = mshr[n].entries[k].proc_tag => m = n /\ j = k

\* A fill empties one MSHR completely: all it holds is for one block, and no other
\* MSHR holds requests for that block.
OneBlockPerMshr ==
    \A m, n \in Mshr : \A j \in DOMAIN mshr[m].entries, k \in DOMAIN mshr[n].entries :
        (m = n) <=> (mshr[m].entries[j].paddr.block = mshr[n].entries[k].paddr.block)

\* A buffered completion has no expectation: the request handler drains without
\* looking at the buffer, and must never file what the buffer waits for.
EarlyHasNoExpectation == \A c \in early_comps : c.tag \notin Expected

\* As long as no set sees another block while a fill for it is due, the scoreboard
\* raises no error against an L1D that returns the right values.
NoFalseAlarm == ~overlapped => mismatches = {}

\* The same for "All MSHRs full -- should not happen if DUT back-pressures
\* correctly" and for the silent drop at a full queue.
NothingForgotten == ~overlapped => forgotten = {}

\* The final report: once the L1D has answered everything, nothing is unmatched
\* and nothing is unreceived.
Quiet == answers = << >> /\ fill_event = None /\ Fetched = {}
CleanReport == Quiet /\ ~overlapped => early_comps = {} /\ Expected = {} /\ Waiting = {}

\* The golden cache follows the L1D's: the same blocks in the same ways, but for
\* the victim it gives up too early, and the values of program order in both the
\* lines and the flat map.
SameCache ==
    ~overlapped /\ fill_event = None =>
        /\ \A b \in Block :
               /\ HitWays(b) \subseteq DutWays(b)
               /\ (\A f \in Fetched : SetOf[f] # SetOf[b]) => HitWays(b) = DutWays(b)
               /\ \A w \in HitWays(b) : data_array[w][SetOf[b]] = memory[b]
        /\ legacy_mem = memory
=============================================================================
