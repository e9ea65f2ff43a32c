# A verification project for the Ozone processor

Ozone is an out-of-order processor core in SystemVerilog: a front end (fetch, branch prediction, decode), a
renaming back end with a reorder buffer, and a memory system (load-store unit, non-blocking L1 data cache, last-level
cache, DDR4 controller). Every module here is translated from the sources under `src/`; documents and
test benches are used for what they claim, and where the code disagrees the disagreement is a finding.

Contents: [the system](#1-the-system) · [how hardware becomes TLA+](#2-how-hardware-becomes-tla) ·
[the modules](#3-the-modules) · [the runs](#4-the-runs) · [what disagrees](#5-what-disagrees) ·
[the proofs](#6-the-proofs) · [the plan](#7-the-plan) · [what is left out](#8-what-is-left-out)

To repeat the checks: `tlc -config LsuProtocol.cfg MCLoadStoreUnit.tla` (table in section 4),
`tlapm L1DProofs.tla`. All runs together take about nine minutes.

## 1. The system

### Components

| component | source | state it keeps | operations | modelled |
|---|---|---|---|---|
| LSU queue (`lsu_queue`) | `mem/src/load_store_unit.sv` 105-650 | ring of entries (valid, address known, dispatched, complete), head, tail, count, count of entries without address, completion register, dispatch register | insert, supply address/data, forward, coalesce, dispatch, complete, pop | yes |
| LSU memory interface (`memory_interface`) | same, 653-841 | three-state machine, latched request, valid/ready registers | accept a dispatch, drive it, withdraw it, report a response | yes |
| LSU control (`lsu_control`, `load_store_unit`) | same, 846-1076 | completion register | merge the completions of queue and memory interface | yes |
| L1 data cache (`l1_data_cache`) | `mem/src/l1_data_cache.sv` | FSM of 13 states, input registers, MSHR rings | look up, track a miss, forward, play back after a fill, evict, flush | all but flush |
| MSHR queue (`mshr_queue`) | same, 756-811 | ring, head, size | enqueue, dequeue | yes |
| generic cache (`cache`) | `mem/src/cache.sv` | tags, data, PLRU bits, FSM | read, write, fill, evict, flush | all but flush |
| LLC wrapper | `mem/src/last_level_cache.sv` | a cache and a DRAM scheduler, ready bit | request, fill, writeback | its ready bit |
| DRAM request queues (`mem_req_queue`, `mem_cmd_queue`) | `mem/src/mem_control/comb_util.sv` 117-168, `req_queue.sv` | rings of requests, `ready` and `pending`, four pairs per bank | enqueue, send, promote | yes |
| SDRAM bank state | `mem/src/mem_control/bank_state.sv` | open row, active, ready, blocked and a countdown per bank | activate, precharge, count down | yes |
| auto refresh | `mem/src/mem_control/auto_refresh.sv` | interval counter, position of the walk, stage | start, step | all but the interval counter |
| DRAM request scheduler | `mem/src/mem_control/mem_scheduler.sv` | cycle counter, times of the last read and write, output registers | route a request, choose a command, refresh | yes |
| command sender, address map | `mem/src/mem_control/comb_util.sv` 7-60, 171-319 | queue of reads in flight, burst counters | burst in and out | its `bursting` bit |
| DDR4 DIMM model | `mem/src/ddr4_dimm.sv` | rows and timing of the chip | commands | no: simulation stand-in |
| reorder buffer | `src/backend/insn_ds/reorder_buffer.sv` | ring of instructions | enter, issue, write back, commit | planned |
| renaming: RAT, RRAT, free list, register file | `src/backend/registers/` | maps, free list ring | allocate, free, commit, restore | planned |
| backend load queue (`lsu_ins_decoder`) | `src/backend/exec/` | queue of loads in flight | dispatch, retire | planned |
| other execution units, FPU | `src/backend/exec/`, `src/fpu/` | none, or pipeline registers | arithmetic | no: combinational |
| instruction queue, return stack | `src/util/` | ring, stack | push, pop | planned |
| branch predictor | `src/frontend/branch_pred.sv` | pattern counters, redirect register | predict, train | planned |
| fetch, L0 and L1 instruction caches | `src/frontend/` | discard and waiting bits, lines | fetch, flush, stall | planned |
| decode | `src/frontend/decode.sv` | none | table | no: combinational |
| top level, MMU, priority multiplexer | `src/ozone.sv`, `mem/src/` | none | wiring | no |
| golden model of the L1D | `uvm/ref_model.cpp` | tags, lines, PLRU bits, MSHR queues, flat map | request (hit, forward, secondary miss, primary miss, no MSHR), fill (tracked, untracked) | yes |
| L1D scoreboard | `uvm/l1d_scoreboard.sv` | expected completions by tag, buffer of early completions | request, fill, completion, final report | yes |
| C++ bench of L1D and LLC | `mem/verif/l1d_llc_verif.cpp` | one pending request, DRAM state and countdown, the bench's loops | ten tests on two stand-ins, edge by edge | yes |
| other C++ benches | `mem/verif/`, `src/backend/verif/` | none beside the design they drive | fixed stimulus | no (section 8) |
| UVM environment of the LSU | `uvm/` | drivers, LLC responder, scoreboard | the stimulus and the claims | as environment and as properties |

Source paths in this document are relative to `src/`.

### How they interact

```
 processor --(1) instruction: tag, load/store-->  lsu_queue --dispatch reg--> memory_interface --port--> l1_data_cache --> LLC --> DRAM
           --(2) address and data, same tag--->      |                              |                    |  cache
           <--- completion ------------------- lsu_control <------------------------+ <-- response ------+  MSHR rings
```

```
 requests -->  L1D under test  --> completions --+            bench loop --request--> stand-in L1D --pulse--> stand-in LLC
    |              ^ fills                       v             ^  ready, answer <------'    ^                    |
    +--> golden model <-- fills -- scoreboard: expected[tag], early_comps                   '---- line ----------'
```

Of these the golden model and the scoreboard are called by the monitors, one handler at a time, in the order in which
the simulator schedules the monitors; the C++ bench is one thread that evaluates L1D and LLC once per edge.

Everything in the hardware is one clock domain. Modules exchange *valid/ready* pairs, and nearly all of these are registers: what
one side shows at an edge is acted upon by the other at the next edge. There is no message loss and no crash; reset is the
initial state. The program's concurrency is several such machines advancing at every edge, each on what the
others showed one edge ago, and several parts of one clocked block writing one register.

### What is hard, and what makes each part correct

* **LSU queue.** Six parts of one clocked block write the same entries and counters with non-blocking assignments; the
  last writer wins. *Correct when:* what is sent to memory for a tag is what the processor supplied for it, each
  instruction is sent at most once and completes exactly once, a load returns the last older store to its
  address, the count counts the entries, a slot's next user sees nothing of its last.
* **Dispatch path.** A request exists in up to three registers at once and is released by ready bits that are a cycle old.
  The machine concludes "taken" from a ready that falls, and ready also falls for a fill. *Correct when:* it is a FIFO: nothing lost, doubled or reordered. The code loses to fills (section 5).
* **L1D and MSHRs.** Lookup, fill, playback and forwarding interleave; a fill can arrive at any edge; rings fill and wrap;
  a write is assumed to have hit after five silent edges. *Correct when:* each accepted request is answered exactly once, with
  its own tag and kind and the right value; one MSHR per block, one block per MSHR, one read per block;
  dirty lines reach the LLC.
* **Generic cache.** A sticky hit register feeds the lookup. *Correct when:* a dirty line is written back before its way is reused.
* **Golden model and scoreboard.** The model learns of requests and fills from two monitors and must come to what the L1D did, which
  works with replacement decisions of its own. It picks and invalidates the victim at the miss; the L1D does so at the fill. Completions may
  overtake the fill that explains them. *Correct when:* an L1D that is right is found right: no false mismatch, nothing dropped, nothing left over
  in the final report; each request is expected once.
* **C++ bench.** One pulse asks the LLC, one pulse answers; the bench acknowledges for one edge while the L1D tosses a coin.
  *Correct when:* each read gets its own answer, no wait times out, the program ends and its verdict says something about the caches.
* **DRAM controller.** At every edge a request may come in, one be sent, and one per queue be promoted, on conditions of their own; the tracker of
  the banks changes under the requests that wait. *Correct when:* each request is in one place and leaves it once, with its column command; a column command
  meets the open row of its request; commands keep their distance; refresh closes the bank it is for; no request starves.
* **Back end** (planned). *Correct when:* a physical register is free or in use, never both; commit is in program order; a
  full ring is seen as full.
* **Front end** (planned). *Correct when:* no instruction of an abandoned path is decoded after a flush; counters saturate.

The hazards, each at its line, are under `hazards` in `PROJECT.json`.

## 2. How hardware becomes TLA+

* **One action is one clock edge.** In a block of non-blocking assignments all reads are of unprimed variables; where two
  parts of a block write one register, the later one in the text wins. `LsuQueue!QueueEdge` keeps the code's six parts as
  operators, each putting its writes on top of the last one's, in the code's order.
* **Combinational blocks are operators** of the current state; a state machine's `case` is a disjunction, one operator per
  state (`Dispatch`, `CheckMshr`, ...), whose conjuncts are the register updates. A system of several machines is the *conjunction* of their edges.
* **Valid bits.** A register with a valid bit is the value `None` or an empty set when the bit is low, wherever the code
  looks at the payload only under the bit. Where the code reads a payload although nothing is valid (MSHR slots, `lat_*`, cache
  registers) the payload is kept.
* **Data.** An address is a block and a word or an opaque index; tag and value are small integers; a store writes its own tag, so a value names the
  store it came from and 0 is the initial content of memory. Pointers and counters keep the code's width (`% 2^w`).
* **Power-up.** A few registers are not in the reset branch (`queue[i].complete`, the cache's data array and outputs). They power up
  low, as in the Verilator and FPGA builds of the repository.
* **Mutants.** Operators named `X_something` next to `X` are plausible bugs: `X` with a dropped guard or reset. No
  specification uses them; `PROJECT.json` pairs each with the property that detects it.

## 3. The modules

| module | models | corresponds to |
|---|---|---|
| `LossyFifo` | the abstract promise: a FIFO of `Capacity` places with the item given out last, which may drop its front only while the receiver is obstructed | what two handshakes in a row come to, before an L1D that also has fills to serve |
| `MemoryInterface` | `memory_interface` and the dispatch register of `lsu_queue` | `Idle`, `Dispatch`, `WaitResp` = the three states; `DispatchRegister` = lines 423-440; `MifEdge` = one edge |
| `DispatchPath` | `MemoryInterface` before the L1D's request port, with fills and full MSHRs | `StayIdle`, `TakeRequest`, `MeetFill`, `ServeFill`, `StayFull` = IDLE by what is presented, latched and free (`l1_data_cache.sv` 261-283); `LowerReady`, `Work`, `Reopen` = the other states, as the port shows them |
| `LsuQueue` | `lsu_queue` | `SendCompletion`, `MarkDispatched`, `Insert`, `ArriveData`, `FreeCompleted`, `Pops` = the six parts; `is_older`, `is_younger`, `check_dispatchable` keep the code's names |
| `LoadStoreUnit` | `lsu_control` and the unit, with the processor of `uvm/lsu_driver.sv` and a memory that answers when it likes | `Merge` = the completion mux; `Issue`, `Drive` = the driver's two phases; `MemoryEdge` = the L1D as the port shows it |
| `MshrQueue` | one MSHR ring | `Enqueued`, `Dequeued` on a record; stale slots stay as in the code |
| `Cache` | the generic cache as the L1D drives it | tag search with `hit_reg`, PLRU, the FSM with `EVICT_BLOCK` |
| `L1DataCache` | the L1D's FSM and registers around a `Cache` and `MSHR_COUNT` rings | one operator per FSM state: IDLE, READ_CACHE, WRITE_CACHE, WAIT_CACHE, CHECK_MSHR, CLEAR_MSHR, COMPLETE_WRITE, EVICT, SEND_REQ_LC, SEND_RESP_HC |
| `L1DSystem` | L1D + `MemoryInterface` + the LLC of `uvm/llc_responder.sv` | `LlcTakes` = the responder: writebacks at once, one line per read after any delay |
| `GoldenL1D` | `ref_model.cpp` | one operator per case of `l1d_model_request` (`Hit`, `Forward`, `Secondary`, `Primary`, `NoFreeMshr`) and of `l1d_model_fill` (`FillTracked`, `FillUntracked`); what a case pushes to `completions` is an operator (`HitPushes`, ...) |
| `L1dScoreboard` | `l1d_scoreboard.sv` around `GoldenL1D`, beside an L1D that is right | `write_req`, `write_fill`, `write_comp` = the three handlers; `Drained`, `Resolved`, `Wrong` = its functions; `DutTakes`, `DutFills` = the L1D |
| `SimL1D`, `SimLLC` | the stand-ins `L1DataCache` and `LastLevelCache` of `l1d_llc_verif.cpp` | `L1dEdge`, `LlcEdge` = one call of `evaluate` |
| `L1dLlcBench` | the bench `L1DLLCTB` and its tests | `Reset`, `IssueLoop`, `Issue`, `WaitWrite`, `WaitRead`, `Ack` = where the bench is when it waits for an edge; a test is the sequence of its operations |
| `MemCmdQueue` | `mem_req_queue` and `mem_cmd_queue` | `RingEdge` = one edge of a ring, its two writers of `next_size` in the code's order; `CmdQueueEdge` = one edge of the pair; `promote` as in the code |
| `SdramBankState` | `sdram_bank_state` | `BankEdge` = one edge of one bank |
| `AutoRefresh` | `auto_refresh` | `refr_out` = `valid_out`; `NextStep`, `LastStep` = the walk; `RefreshEdge` = one edge |
| `RequestScheduler` | `request_scheduler` around the three, and the ready bit of `last_level_cache` | `Route` = queue selection; `Sendable`, `Send` = `process_bank_commands`; `Chosen` = the order of priorities; `Promotions`, `Leaves`, `QueueAfter` = the wiring of the queues; `ClockEdge` = one edge |
| `MCLoadStoreUnit`, `MCL1DSystem`, `MCL1dScoreboard`, `MCRequestScheduler` | instances for TLC | |
| `MinMaxLemmas` | what `Min` and `Max` of `FiniteSetsExt` return on a set of naturals | |
| `DispatchPathProofs`, `MshrQueueProofs`, `L1DProofs`, `L1dScoreboardProofs`, `L1dLlcBenchProofs`, `RequestSchedulerProofs`, `LoadStoreUnitProofs` | theorems | section 6 |

`LoadStoreUnit` instantiates `DispatchPath` (the L1D abstracted to its port); `L1DSystem` puts the real L1D behind the same
`MemoryInterface`, and `L1dKeepsPort` says that the L1D is the port of `DispatchPath`: its state machine, input latch, MSHRs and `lsu_ready_out` map to one phase (`PortNow`), and
every edge of the system maps to an edge of `DispatchPath`. `Cache` and `MshrQueue` are used by `L1DataCache`. No module uses a `RECURSIVE` operator.

Branches that the model has and no run takes, because the code cannot take them: `Evict` and the cache's `EvictBlock` (theorem
`NeverWritesBack`); a primary miss with no free MSHR (IDLE lowers ready first; it would never leave CHECK_MSHR, and `ComesBack` would not hold). `FLUSH`, `PROCESS_MSHR`
and `COMPLETE_READ` cannot be entered with `flush_in` low, which every instantiation ties low, and are not modelled.

### Environment assumptions

* The processor follows `uvm/lsu_driver.sv` 47-77: an instruction is accepted on valid and not full, then its address is
  driven until ready is seen. `MaxWaiting` is how many instructions may be without address at once; the driver's value is 1.
* The memory behind `LoadStoreUnit` performs requests in the order the port took them; answers to one address come in that
  order, others in any.
* The LLC is `uvm/llc_responder.sv` 60-111: always ready, fills one after another, each held until the L1D shows ready. The
  delay is arbitrary rather than random. In `DispatchPath` and `LoadStoreUnit` a fill may be presented at any edge.
* The L1D beside the scoreboard is not `L1DataCache` (whose disagreements are section 5) but what `docs/l1d_cache_spec.md` promises of one:
  loads return program order, each request is answered once, requests are taken only in IDLE with an MSHR free, a full MSHR queue
  is back-pressure. It shares the replacement policy of `cache.sv` and applies it when the fill reaches the cache. The LLC's
  line is fixed at the miss. Fills come in any order; the fill monitor reports the fill before or after any of the completions it
  caused. An eviction needs no step: the flat memory has every store already.
* Tags of requests to the scoreboard are 1, 2, ...: no two alike, so `early_comps`, a queue in the code, is a set.
* The cache above the DRAM scheduler may present a request at every edge but the first. `command_sender` is its bit `bursting`, low until a read command
  has gone out (a refresh counts as one, section 5) and arbitrary from then on. The refresh counter ends at an arbitrary edge, but not
  during a refresh: its interval is 64 000 000 edges.
* The coin of the stand-in L1D (`rand() % 4`) may fall either way every time.

## 4. The runs

| run | module | question | bounds | result |
|---|---|---|---|---|
| `DispatchPath` | `DispatchPath` | Which requests do two registered handshakes hand over, and where does each one end? | 3 requests, any number of fills | holds, 2,051 states |
| `LsuProtocol` | `MCLoadStoreUnit` | Is each instruction sent once, as supplied, and completed at most once and only after its address, whatever a slot keeps from its last user? | depths 2 and 4, 4 operations, 2 addresses of which the first operation has 0, one without address at a time, any number of fills | holds, 1,922,238 states |
| `L1dMshr` | `MCL1DSystem` | Are misses tracked consistently, answered once, with the right tag and kind, behind the port the LSU expects? | 2 MSHRs of 2 slots, 2 blocks in one set, 5 operations | holds, 970,050 states |
| `GoldenModel` | `MCL1dScoreboard` | Does the scoreboard find a right L1D right? | 4 blocks in a set of 3 ways and 1 block alone, 2 MSHRs of 2 slots, 5 requests | holds, 1,277,685 states |
| `L1dLlcBench` | `L1dLlcBench` | Does each read get its own answer, and does the bench end? | none: all ten tests, the source's latencies; test 8 draws from two addresses | holds, 29,879 states |
| `DramScheduler` | `MCRequestScheduler` | Where is each request, which command reaches which bank when, and what can go wrong? | rings of 2, 3 requests to 2 rows of one bank and 1 row of the other group, 1 refresh, latencies 3 and 2 | holds, 758,879 states |
| `LsuLoadValue` | `MCLoadStoreUnit` | Does a load return the last older store? | depth 4, 4 operations, 1 address | violated |
| `LsuLoadTimeout` | `MCLoadStoreUnit` | Does a load complete? | depth 4, 2 operations, 1 address | violated |
| `L1dForwardedLoad` | `MCL1DSystem` | Does a load get the store it waits behind? | 1 block, 2 operations | violated |
| `L1dDirtyLine` | `MCL1DSystem` | Is a dirty line written back before its way is reused? | 2 blocks, 3 operations | violated |
| `L1dLostRequest` | `MCL1DSystem` | Is every dispatched request taken? | 1 block, 2 operations | violated |
| `L1dBlockZero` | `MCL1DSystem` | Is every accepted request answered? | block 0, 1 operation | violated |

**The properties.** `HandoverLosesOnlyToFill`: the path is the abstract FIFO under a refinement mapping that reads off three registers and
two phases which requests are in transit. The FIFO may drop its front item only while it is obstructed, and the mapping calls the path obstructed in one phase (`LetsGo`): `memory_interface` has seen
ready high and waits for it to fall, the L1D has latched a fill in IDLE. So a request is handed over in order, unchanged, once, or is lost on such an edge and on no other.
`DispatchEnds`: the liveness of the same. A dispatched request is accepted, lost that way, or waits before an L1D that is out of MSHRs for good. `L1dKeepsPort`: the L1D has the port both are about; in
particular no fill is still latched when it returns to IDLE, and ready is never shown with a fill or without an MSHR. `RequestIntegrity`: the request on the
port carries what the processor supplied, whatever forwarding, coalescing and slot reuse did. `CompletedAfterAddress`,
`CompletedOnce`, `TakenOnce`: three ways of completing and three copies of a request exclude each other. The two about completions
are stated for histories without the edges that `mishaps` remembers (section 5); with the driver's protocol the other two hold in every history.
`AnsweredOnce`, `AnswerMatchesRequest`: a hit, a forwarded value, the write countdown and playback do. `OneBlockPerMshr`,
`OneMshrPerBlock`, `OneReadPerBlock`, `ReadHasMshr`: what the miss tracking must keep up between rings, LLC requests and fills
in flight. `OneMshrPerBlock` is stated until a miss has entered an empty MSHR (`phantom`, section 5); the others hold in every history. `ShutForGood`: once every ring
has wrapped, and with no line on its way, the L1D accepts nothing any more (section 5). `ComesBack`: it always returns to IDLE, from a lookup, a miss, a playback or a write that is only counted down.

`NoFalseAlarm`, `NothingForgotten`, `CleanReport`: against a right L1D the scoreboard reports no mismatch, the model drops no request, and once all
is answered nothing is left in `expected`, in `early_comps` or in the model's MSHRs. `SameCache`: why this is so; model and L1D hold the same blocks in the same
ways but for the victim, with the values of program order. All four are stated for histories that are not `overlapped`, in which no set
sees a request for one block while a fill for another block of it is due; that this condition is needed is shown in section 5.
`EarlyHasNoExpectation`: the bookkeeping, which holds in every history; so do `ExpectedOnce` and `OneBlockPerMshr`, which are
only proved.

`LlcServesPending`, `OwnAnswer`: request and answer between the stand-ins are pulses without a handshake, and still meet. `NeverTimesOut`:
the precharge is over before the next read can ask; it depends on the latencies together (`LLC_PRECHARGE_LATENCY_slow` is its mutant).
`NeverAllPassed`, `StuckForGood`, `EndsOrHangs`: what the bench's verdict is worth (section 5).

`InOnePlace`, `SentOnce`, `NoneLost`: sending, promotion and arrival are wired by different conditions, and a request is still at one position of the
rings of its bank or sent, once. `ColumnMeetsOpenRow`: `docs/llc_spec.md` 6.2, as far as the code keeps it; `NoneLost` and it are stated for histories
without the edges that `mishaps` remembers (section 5). `RefreshCloses`: the tracker ignores a precharge while it is blocked, and a refresh step asks
for long enough. `CommandsSpaced`: promotion does not wait for the latencies, the blocked bit does. `StuckStays`: how the scheduler comes to a standstill.

**Why the bounds are enough.** *LSU:* four operations fill four slots, so the full case, the candidate search over the whole ring, and a
store between loads and stores in every arrangement occur; two addresses give answers out of order and stores that must not
forward. The addresses are alike but for 0, the value an unused slot holds after reset; the constraint `FirstToZero` keeps the programs that
start with it, and the rest are not explored. Wrapping pointers and reused slots need more operations than slots, hence the ring of two slots; the depth is
chosen once, at the start. Five
operations with depth four and two addresses exceed ten million states and are left out; random simulation of twelve operations
at depth four (fourteen million states) was used beyond that, and is what made the conditions on the two completion properties precise. *L1D:* two slots in a ring make it
full, make it wrap, and leave stale valid bits in front; two MSHRs are the least for which "which one" is a question; two blocks in
one set of three ways (the code's number) and four requests give primary and secondary misses, hits after the fill, forwarding, playback of mixed
loads and stores, and a dropped secondary miss. Four requests wrap both rings, the fifth meets an L1D that is shut. Block 0 is not used in `L1dMshr`: it is the subject of
`L1dBlockZero`. One word per block is enough, since tracking is by block and the value properties are per word.
*Golden model:* the fourth block of a set of three ways evicts, and two more requests can then meet the eviction; the block
alone in its set occupies an MSHR without overlapping; two slots are filled and dropped at by three requests to one block. The blocks of the crowded set are
interchangeable (symmetry). *C++ bench:* no bound is needed, the program is finite; the address is only passed through, so two addresses stand for
the 65536 of test 8.
*DRAM scheduler:* two requests fill a ring of two, so that it is full, wraps, and gives and takes on one edge; the third meets what the
first two left. Two rows of one bank conflict, the other bank competes for the bus and is the one never promoted. Latencies 3 and 2 for 8 and 5, refresh
steps of 8 edges for 16 with 5 for 12 asking, keep the order of the events and the edges between two steps in which commands go out.
`cycle_counter` is followed to `Horizon`, beyond which no comparison of the run changes; runs of 2^32 cycles, where it wraps, are left out. Random simulation of 7 requests
with the latencies and stages of the source and rings of four refuted none of the properties.
The code's sizes (LSU depth 8, 16 slots per MSHR, 4 MSHRs) differ only in how many operations they need.

**Deadlock** is checked in all runs but `GoldenModel`, whose requests are bounded: there the handlers stop when all is
answered. Elsewhere some edge is always possible; when the C++ bench has ended, `Done` stutters.

**Fairness.** The clock runs: `WF_vars(Next)`, in `DispatchPath` and `LoadStoreUnit` of an edge at which no fill comes (`Tick`), since fills and new requests need not come. The L1D does not stay busy for ever (`WF` of `Reopen`):
this is `ComesBack`, checked of the L1D itself in `L1dMshr` under `WF_vars(Next)` and the LLC's fairness. `FillsAnswerRequests`: infinitely many fills need infinitely many
accepted requests, since each line the LLC sends answers a read and each read has an accepted request behind it (`ReadHasMshr`, `OneReadPerBlock`). In `LoadStoreUnit` the L1D answers the request it owes longest; in `L1DSystem` the LLC drives what it owes, as
`llc_responder.sv` does after a bounded delay. The C++ bench toggles its clock itself, and its coin is not assumed fair. The violated liveness runs state these too, so that their
counterexamples are not a stopped clock or a silent memory: each ends in a loop in which the machines go on and the request stays.

## 5. What disagrees

1. **A younger store is dropped** (`LoadValueCorrect` of `LoadStoreUnit`; `load_store_unit.sv:317`). A store whose data arrives while an older resolved
   store to its address is in the queue counts as coalesced and completes without going to memory; nothing gives the older entry the
   younger value. `is_older` asks whether a walk back from `j` meets `i` before the head; for `j` at the head itself the walk goes all the way round. `uvm/lsu_scoreboard.sv` 60-62, 97-101 expects program order.
2. **An insertion is not counted** (`LoadsComplete`; `load_store_unit.sv:510`). Insert and pop at one edge both assign `count`; the
   pop wins. The candidate search covers `count` slots and never reaches the last entry. `uvm/lsu_scoreboard.sv` 113-117 reports a load that never completes as an error.
3. **A forwarded value is overwritten** (`LoadValueCorrect` of `L1DSystem`; `l1_data_cache.sv:562`). CHECK_MSHR forwards a store's value;
   the next state, which raises valid, drives the cache's value register instead. `docs/l1d_cache_spec.md:433`: "The store's data is forwarded".
4. **A dirty line is overwritten** (`DirtyLineWrittenBack`; `cache.sv:198`). `hit_reg` feeds the lookup and is never cleared, so after the first hit every lookup is a hit on
   the way hit last. A store to another block relabels that way. `docs/l1d_cache_spec.md:147-148` promises a writeback.
   The other side of it is `NeverWritesBack`, a theorem: dirty needs a hit, eviction needs a miss, and after a hit there is no miss.
5. **A request is lost when a fill arrives** (`RequestsTaken`; `load_store_unit.sv:745`). With a fill and a request in IDLE the L1D lowers ready and
   does not take the request; `memory_interface` reads the low ready as acceptance. `docs/l1d_cache_spec.md:377-380`: "the LSU must retry on a subsequent cycle".
   `HandoverLosesOnlyToFill` shows that nothing else is wrong with the handover: but for this edge, one after `memory_interface` has seen ready high, every request arrives once and in order.
   `LoadsComplete` of `LoadStoreUnit` is stated under `L1dAvailable`, which excludes this loss and an L1D out of MSHRs: item 2 is the LSU's own.
6. **Block 0 is never fetched** (`RequestsAnswered`; `l1_data_cache.sv:354`). The search for a block's MSHR ignores the valid bit, and an unused
   MSHR holds address 0: the first miss on block 0 is a secondary miss of nothing. `docs/l1d_cache_spec.md:239-252`.

### Where a property needs a condition

No document promises what follows, so it is stated as properties that hold and not as violations.

* **The LSU's completions are right except after two kinds of edge** (`CompletedAfterAddress`, `CompletedOnce`). An insertion on the edge
  of a pop is not counted (item 2 above); a ring that is full then does not know it, the next instruction overwrites a slot in use, and what
  arrives for the old user completes the new one. And a load at the head of a full ring is, for `is_younger`, younger than every
  store, so a store whose data arrives as the load goes to the dispatch register completes it too, and memory completes it again.
  Without the conditions simulation refutes both properties from seven operations at depth four; with them none of its histories of twelve operations does.
  The second kind of edge needs more operations than the exhaustive runs have, so there the condition on it excludes nothing; the
  theorems of `LoadStoreUnitProofs` cover it.
* **They also need the driver's protocol** (`OneAtATime`). With several instructions waiting for their addresses (`MaxWaiting` above 1, the overlap
  that `lsu_tb1` drives) TLC refutes `RequestIntegrity` after an uncounted insertion, since the overwritten slot takes the address of its old user, and
  `CompletedOnce` even without one: in a full ring the load at the head counts as younger than any store, so a store forwards to it while it is on its way.
  So `RequestIntegrity` asks for one at a time or no uncounted insertion, the other two for one at a time. `TakenOnce` needs neither.

* **A block may get a second MSHR after a miss has entered an empty one** (`OneMshrPerBlock`, `phantom`; `l1_data_cache.sv:354`). The search for a block's MSHR looks at
  the front slot of each ring and neither at its valid bit nor at the size. The front slot of an empty ring still names a block: block 0 before its first use (item 6), and
  once the ring has wrapped the block of an earlier request. The next miss on that block enters the empty MSHR as a secondary miss and is not fetched. It leaves the
  MSHR in use without a read, and another ring can come to hold the same block. Simulation reaches this with 6 blocks, 0 among them, 4 MSHRs
  of 2 slots and nine or more operations. Within the bounds of `L1dMshr` no empty MSHR is entered, so there the condition excludes nothing; the theorem covers the histories beyond.
* **A ring that has wrapped is used up** (`ShutForGood`; `l1_data_cache.sv:263`, `359`). An MSHR counts as free by the valid bit of its front slot. A dequeue only moves the head, so from the
  `QUEUE_SIZE`th request on the slot in front of an empty ring is one that was used, and the MSHR never counts as free again; a request enters it only as in the case before. When all rings have come to this
  the L1D keeps ready low in IDLE for ever. `docs/l1d_cache_spec.md:193-194` calls the valid bit equivalent to an empty queue. With the code's sizes this takes 64 requests that
  miss (4 rings of 16 slots). It is why `DispatchEnds` and `L1dAvailable` have a case for it.
* **The golden model is exact up to overlapping misses of a set.** Without `~overlapped` TLC refutes three of the four properties within five requests: two
  overlapping misses of a set choose the same way in the model and different ways in the L1D (`SameCache`); a request for the block that the model lost
  hits in the L1D, misses in the model and waits there for a fill that never comes (`CleanReport`), holding an MSHR that the next
  miss does not find free (`NothingForgotten`). A request for the victim of a miss whose fill is due has the same effect.
  A false `DATA MISMATCH` takes at least eight requests (a stale line that comes back to be read), beyond exhaustive search; it was found by simulation. Of the
  sequences in `uvm/l1d_sequences.sv`, those that drive one block per set at a time are judged rightly; `l1d_set_conflict_seq`, which drives
  four blocks of one set, and `l1d_mixed_random_seq` are not always.
* **The C++ bench never prints "ALL TESTS PASSED"** (`NeverAllPassed`; `l1d_llc_verif.cpp:1372`, `1403`): reads return one of two fixed values, so tests 3, 7, 9 and 10 fail whatever
  the caches do.
* **The DRAM scheduler loses a request on a crowded edge** (`NoneLost`, `crowded`; `comb_util.sv:157`, `159`). A ring that takes a request on the edge it gives one counts from the old size,
  so the new one is written but not counted. A request that meets a full ring is dropped too, as the scheduler does not look at `full`.
* **A column command may meet a closed row** (`ColumnMeetsOpenRow`). Four events lead there, each of them alone: a request for the open row
  arrives on the edge on which the row is closed (`crossed`; `mem_scheduler.sv:459`); a precharge goes out while a read for the row waits, since a read that came before the write on top of its
  bank has no priority and nothing else sends it (`overlooked`, needs more than the three requests of the run; found with six); a request is promoted for a row that
  another has closed meanwhile (`late`); a refresh closes the bank (`refreshed`). The comparison with the active row (line 125) does not look at `active`.
* **Promotion is not by time** (`req_queue.sv:68`). `docs/llc_spec.md` 6.1.2 says promotion waits for `cycle_count + LATENCY`. `CYCLE_START_BIT` (`mem_scheduler.sv:33`) is counted as if the fields came in
  the opposite order; in `mem_request_t` (37-45) these bits hold bank group, bank, row, column and the top of the data. So requests to bank group 1 are not promoted in any run of realistic length, those to
  a row not before a cycle number that grows with it, the others at once. `Key` is this field; `CommandsSpaced` shows that the blocked bit repairs "at once". The field `cycle_count` itself is the
  cycle of arrival and never renewed, so it would not measure the stage either.
* **Reads have priority when they are newer** (`mem_scheduler.sv:412`). The comment at line 494 and `docs/llc_spec.md` 6.1.4 say older; the comparison is with the top of the write queue,
  which keeps its last content when it is empty.
* **The scheduler can come to a standstill** (`StuckStays`; `mem_scheduler.sv:494`). Two requests that arrive at a precharged bank both go to the activation queue and open two rows one after the other; the first, a read, then waits
  with priority for a row that is not open, and nothing but reads is considered. Only a write of the same bank behind it ends that.
* **A refresh looks like a read** (`mem_scheduler.sv:420`, `479`). It leaves `cmd_out` at 0, which is READ, so `command_sender` files a read that nobody asked for. And the walk leaves out the last row of
  all banks but the first of each group (`auto_refresh.sv:59`).
* **The C++ bench may not end** (`EndsOrHangs`, `StuckForGood`; `l1d_llc_verif.cpp:525`, `584`). The answer ends a read only if `ready` is high at that edge. `ready` is low from the second read on, so
  the bench acknowledges on the next edge, when the L1D tosses a new coin: on a miss the read stays pending, `ready` has fallen
  again, and the loop before the next request waits for ever. Either that happens or all ten tests run.

## 6. The proofs

| module | theorem | says |
|---|---|---|
| `DispatchPathProofs` | `TypeCorrect` | `Spec => []TypeOK` |
| | `InvariantHolds` | which phase of the port, fills and full MSHRs included, goes with which state of `memory_interface` |
| | `HandoverCorrect` | `Spec => HandoverLosesOnlyToFill`: the path implements `LossyFifo` with two places |
| `MshrQueueProofs` | `EnqueueAppends`, `DequeueRemovesOldest` | the ring is a queue: its contents, read from the head, change by `Append` and `Tail`, for every size and every position of the head |
| `L1DProofs` | `TypeCorrect` | `Spec => []TypeOK` for L1D, cache, rings, port and LLC together |
| | `NeverWritesBack` | `Spec => []NothingWrittenBack`: the L1D never drives a write to the LLC |
| | `TakenOnceHolds` | `Spec => []TakenOnce` |
| | `AnsweredOnceHolds`, `AnswerMatchesRequestHolds` | `Spec => []AnsweredOnce`, `Spec => []AnswerMatchesRequest` |
| | `OneBlockPerMshrHolds`, `OneMshrPerBlockHolds` | `Spec => []OneBlockPerMshr`, `Spec => []OneMshrPerBlock` |
| | `OneReadPerBlockHolds`, `ReadHasMshrHolds` | `Spec => []OneReadPerBlock`, `Spec => []ReadHasMshr` |
| | `L1dKeepsPortHolds` | `Spec => L1dKeepsPort`: the L1D implements the port of `DispatchPath` |
| | `HandoverInSystem` | `HandoverLosesOnlyToFill` before the real L1D and its LLC |
| | `ShutForGoodHolds` | `Spec => ShutForGood`, an action property |
| `L1dScoreboardProofs` | `ScoreboardTypeCorrect` | `Spec => []TypeOK` for golden model, scoreboard and L1D |
| | `GoldenOneBlockPerMshr` | `Spec => []OneBlockPerMshr` |
| | `ScoreboardExpectsOnce` | `Spec => []ExpectedOnce` |
| | `BufferHasNoExpectation` | `Spec => []EarlyHasNoExpectation` |
| | `GoldenAgreesWithL1d` | the inductive invariant of golden model and L1D, until misses overlap |
| | `ScoreboardRaisesNoFalseAlarm` | `Spec => []NoFalseAlarm` |
| | `GoldenForgetsNothing` | `Spec => []NothingForgotten` |
| | `FinalReportClean` | `Spec => []CleanReport` |
| | `GoldenCacheFollows` | `Spec => []SameCache` |
| `L1dLlcBenchProofs` | `LlcServesPendingHolds` | `Spec => []LlcServesPending` |
| | `OwnAnswerHolds` | `Spec => []OwnAnswer` |
| | `BenchTypeCorrect` | `Spec => []TypeOK` for bench and both stand-ins |
| | `NeverTimesOutHolds` | `Spec => []NeverTimesOut` |
| | `NeverAllPassedHolds` | `Spec => []NeverAllPassed` |
| | `StuckForGoodHolds` | `Spec => StuckForGood`, an action property |
| `RequestSchedulerProofs` | `SchedulerTypeCorrect` | `Spec => []TypeOK` for scheduler, queues, bank states and refresh |
| | `RefreshClosesHolds` | `Spec => []RefreshCloses` |
| | `CommandsSpacedHolds` | `Spec => CommandsSpaced`, an action property |
| | `StuckStaysHolds` | `Spec => StuckStays`, an action property |
| | `InOnePlaceHolds` | `Spec => []InOnePlace` |
| | `SentOnceHolds` | `Spec => []SentOnce` |
| | `NoneLostHolds` | `Spec => []NoneLost` |
| | `ColumnMeetsOpenRowHolds` | `Spec => []ColumnMeetsOpenRow` |
| `LoadStoreUnitProofs` | `InvariantHolds` | the inductive invariant of the whole unit |
| | `TypeCorrect` | `Spec => []TypeOK` for queue, dispatch path, port and processor |
| | `TakenOnceHolds` | `Spec => []TakenOnce` |
| | `RequestIntegrityHolds` | `Spec => []RequestIntegrity` |
| | `CompletedAfterAddressHolds` | `Spec => []CompletedAfterAddress` |
| | `CompletedOnceHolds` | `Spec => []CompletedOnce` |
| | `HandoverInUnit` | `Spec => HandoverLosesOnlyToFill` of the dispatch path inside the unit |

**Assumptions.** Only those the modules name: `NoneAssumption` (`None` is no request), `CacheAssumption`, `L1dAssumption`, `SystemAssumption`, `GoldenAssumption`, `ScoreboardAssumption`, `SimL1DAssumption`, `BenchAssumption`, `QueueAssumption`, `LsuAssumption`, `SchedulerAssumption` (sizes are positive,
0 is an address and a value, tags are `1 .. MaxOps`). They hold for every set of requests, any geometry and any number of operations. `StagesAssumption` says that a refresh step asks for at least
two edges more than an activation takes (12 and 8 in the source). TLC evaluates them in the runs.

**`HandoverCorrect`.** `TypeOK` says nothing of how the two machines relate, and the refinement mapping needs it: whether a request is driven twice, lost or taken
depends on phases. `PortInv` relates them: what the port shows while `memory_interface` is in each of its states, that the port carries `lat`,
that ready towards the queue is low while a request is held. `IInv == TypeOK /\ PortInv` is inductive (TLC had agreed first). With
it every edge maps to one step of `LossyFifo` (an item in, out, both, or one dropped) or a stutter; `StepHandover` splits on the state of `memory_interface`, and the drop
appears in one case of `WaitResp` only.

**`L1dKeepsPortHolds`.** That an edge of the L1D maps to an edge of the port rests on `KeepInv`: `ShownInv`, what ready shows in which state; `ValueInv`, that the request on the wires is the program's of its tag; and from `CoreInv` below `FillInv`, that a latched fill is still
the presented one and is latched in IDLE and WRITE_CACHE only. The port's other steps follow from the L1D's case
by case (`PortInv`, `TakenOnceHolds`). `HandoverInSystem` is then `HandoverCorrect` through the mapping: the invariant and `StepHandover` of `DispatchPathProofs` hold of the mapped variables.

**`EnqueueAppends`, `DequeueRemovesOldest`.** `RingAt` is a sum with one conditional subtraction, so position arithmetic stays linear; the rest is
extensionality of sequences.

**`TypeCorrect` of `L1DProofs`.** The type of the write countdown is not inductive: that it does not pass its end follows from the state it is used in
(`WaitInv`); that a ring is not dequeued below zero follows from the ring operators. `TypeInv == TypeOK /\ WaitInv`. One lemma per machine (`CacheStepTypeOK`,
`L1dStepTypeOK`, `MifStepTypeOK`, `LlcStepTypeOK`), one step per FSM state under it.

**`NeverWritesBack`.** `WriteBackInv` adds the reason: as long as `hit_reg` is low no line is dirty, and while it is high no lookup
misses. So the eviction branch's guard, a miss on a dirty line, is never true, and EVICT, the only source of a write to the LLC, is not entered.

**The L1D's tracking.** The seven properties `TakenOnce` to `ReadHasMshr` of `L1dMshr` follow from one inductive invariant, `TrackingInv`, in three layers.

* `CoreInv` is about control. `PortInv`: once a request is accepted the L1D leaves IDLE, and does not accept again, before `memory_interface` has seen ready fall. This is `TakenOnce`. `FillInv`: a latched
  fill is the one the LLC drives. `LockInv`: the L1D never asks whether its cache is busy, so which states of the cache go with which state of the L1D, counted
  in edges, is a fact to be proved (`PhaseInv`); so is what the request and the cache's latch hold meanwhile (`InputsInv`), and that an MSHR stays free for a request once it is accepted (`FreeInv`).
* `PlaceInv` gives each accepted request one place: the input latch, one slot of one ring, or the answer on the wires; a request without one has been answered, once. `Moves` says that an edge does one of five
  things: it moves nothing (`Rests`), takes a request (`TakesOne`), answers it (`AnswersOne`), files it in a ring (`FilesOne`) or replays the front of a ring (`ReplaysOne`). The invariants are then
  proved over these five and not over the 13 states. What a ring holds after either operation is in lemmas of its own (`FiledSlots`, `ServedSlots`).
* `BlockInv` and `ReadInv` are about blocks: the live slots of a ring name one block; the blocks on their way to or from the LLC are different, and each has a ring that
  is not empty. The last holds because a ring is emptied by the fill of its own block only. `OneMshrPerBlock` is inductive with them.

TLC had agreed first, exhaustively within the bounds of `L1dMshr` and on eight million states simulated with 6 blocks including 0, 4 MSHRs and 12 operations. It is there
that the condition of `OneMshrPerBlock` was found to be needed. The theorems hold for every geometry, every number and depth of the MSHRs, and block 0.

**The scoreboard's bookkeeping.** `ExpectedOnce` and `EarlyHasNoExpectation` are not inductive: a request filed now could be one that waits already. `TagsIssued` says
that what waits, is expected or is buffered was issued, so that the next tag is fresh everywhere. `OneBlockPerMshr` adds that a fill empties one
MSHR and files exactly what waited in it (`FillEmpties`). `IInv == TypeOK /\ OneBlockPerMshr /\ Books` is inductive; the
first four theorems read it off. The lemmas say what a request and a fill do to the requests that wait, and one step per handler puts them together. Nothing is assumed of
`overlapped`: these facts hold for any disagreement between model and L1D. The assumption used most is that requests carry different tags.

**The scoreboard's verdict.** `NoFalseAlarm`, `NothingForgotten`, `CleanReport` and `SameCache` relate two caches that apply the same replacement policy at different times: the golden
model empties the victim when it takes the request, the L1D overwrites it when the line comes. None of them is inductive, and none follows from the others; `AgreeInv` says, for histories that are not
`overlapped`, all of what the two have in common:

* `WaitInv`: a block is fetched by the L1D if the golden model tracks it and its fill is not on its way, and what the L1D will answer then is, completion by completion, what the golden model will push (`Pushes`).
* `ValueInv`: memory is the line being fetched with the stores that wait played back, the flat map is memory, and a store is younger than every value in the line it waits for. The last is why the two
  forward the same loads: the L1D where memory differs from the line, the golden model where a store waits (`ForwardAlike`).
* `VictimInv`, `HeldInv`, `OneWayInv`, `PlruInv`: a block being fetched has its set to itself, so the replacement bits of the set do not move and the L1D chooses the way the golden model gave up; a
  valid way holds the same block and memory's values in both; a way that is not valid is empty in the L1D too, or is that victim.
* `AnswerInv`: an answer on its way is what is expected under its tag, or what the fill on its way will make expected; the buffer of early completions and the expectations are exactly the rest of those.

Each request is one of four cases (`HitAgrees`, `ForwardAgrees`, `SecondaryAgrees`, `PrimaryAgrees`; that the L1D takes the same one is part of each), and the error paths are shown not to be taken: an
MSHR is free because those in use fetch different blocks, so there are no more of them than the L1D has (`FreeWhenTaken`, by cardinality), and a queue has room because the two queues have the same length. The
write-back of a dirty victim puts into the flat map what is there already. `overlapped` enters in two places only: the set of the request has no other block being fetched, so its bits
and its victim are not touched (`Taken`). What a line holds after playback needs no induction: `StoresAppend` and `PlayedBackLaws` say what one more request changes, and that
playing back twice is playing back once, which is what a fill does to the flat map. TLC had agreed first, within the bounds of `GoldenModel` and on 19 million states simulated with two words, queues of
three and 12 operations. The theorems hold for any geometry, MSHRs of any number and depth, fills in any order, and any number of requests; without `~overlapped` none of the four holds (section 5).

**The bench.** `LlcServesPending` needs one fact more, `PulseInv`: the LLC answers on the edge on which it starts precharging, so the line it shows is
still the one of `llc_addr`. `OwnAnswer` needs that the operation presented is the one pending while the bench waits (`OpInv`). Both are
independent of the tests, of the coin and of the latencies. The other four build on each other:

* `BenchTypeCorrect`: that a wait loop's counter stays in range follows from the limit of the operation presented, that a result is filed under a test from
  the position in the list of tests; `PlaceInv` says both, and `TypeInv == TypeOK /\ PlaceInv` is inductive.
* `NeverAllPassedHolds`: `ThirdInv` follows test 3 to its second operation, a read that is compared; an answer has one of the two fixed values, so it
  ends in a mismatch and no later step overwrites the result.
* `NeverTimesOutHolds`: `TimeInv` is the budget of a wait. While the L1D counts down, the edges waited and the edges left are at most 9 for a read, 4 for a write; from
  the request to the LLC on, edges waited plus the DRAM's countdown are at most 18, then 41, then the answer is there. The step from one to the other needs an idle DRAM: it may still
  precharge when the read is taken, but with fewer edges left than the L1D's delay (`PrechargeTime`), and `LlcServesPending` excludes every other state. Here the
  latencies of the source are used: a precharge longer than the delay of a read would lose the request.
* `StuckForGoodHolds`: `HeldInv` says that a read still held when the bench issues finds `ready` low. It uses `NeverTimesOut`: a time-out is the only other way to leave
  a read behind.

**The DRAM scheduler.** What is read of `requests` must be there: `TypeInv` adds to `TypeOK` that every slot of every ring names a request that has come in. `ChosenCommand` is the lemma the rest
hangs on: a command that is sent is the only one, its bank is not blocked, and no refresh step is asking. On top of it:

* `RefreshClosesHolds`: `RefreshInv` follows the bank through the step. While it is still open it is blocked by an activation with `cycle_count + stage` at most the latency, or just unblocked.
* `CommandsSpacedHolds`: `SpacingInv` says that what is missing of a row command's latency, its bank is still blocked for. A refresh does not disturb it, since the tracker ignores it while blocked.
* `StuckStaysHolds` needs no further invariant: with a read of priority only reads are sent, the stuck one is not, and a ring that gives nothing keeps its top (`TopKept`).

* `InOnePlaceHolds`, `SentOnceHolds`: `BookInv` is about all rings as one collection. No two live slots of any rings hold one request, each names one that has come in, and
  a request has been sent if and only if nothing is live for it but a row command that its column command did not wait for; then it was sent once. The lemmas follow a slot over an edge: it stays, it is
  given, or it takes what came in, and a promotion moves a request from one ring to the next on one edge.
* `NoneLostHolds`: `KeptInv` adds that without a crowded edge the size of a ring is what is in it, so what is taken in is counted.
* `ColumnMeetsOpenRowHolds`: `ClosedInv` says that in a closed bank the top of each column queue is missing or waits for another row than `active_row`, which still holds the row last opened.
  It is what the four remembered events break, and the proof is that nothing else does.

**The load-store unit.** The properties are about a tag, and a tag is at any time in the queue, in one of three registers on the way to the L1D, owed an answer, or done; `IInv` says how all of these
agree. It is the conjunction of `TypeInv` (types, the phases of `DispatchPath`, and that each entry and each supplied address belongs to an issued instruction), `TakenInv` (a
tag is not dispatched, travelling, or taken, and only one of them), `PendingInv` (answers are owed to different instructions that were taken), `ProcessorInv`, `RingInv` (without an
uncounted insertion the tail is the head plus the count and the valid slots are those in between), `IntegrityInv` (what entries and registers hold is what was supplied),
`AddressInv` (with one instruction at a time only the last slot can lack its address), `FinishedInv` (where a complete entry can be), `ReportInv` and `OnceInv` (an instruction that was
reported, or is about to be, is `Over`: nothing can report it again). Seven parts hold in every history; the conditions of the three properties enter in the last ones only.

The queue's edge is six operators put on top of each other, so the proof first says what the whole edge does to one slot (`EntryStep`, from one lemma per part): the entry is kept,
inserted, resolved, forwarded to, completed or freed. Every invariant is then proved over these cases and not over the text of the edge. `PathStep` shows that an edge of the unit is an edge of
`DispatchPath` with the queue as its source of requests, so `InvariantHolds` and `StepHandover` of `DispatchPathProofs` carry over: `HandoverInUnit`. It needs of the queue that it offers requests
only, and of the memory that it answers with responses only.

What is model-checked only is liveness (`DispatchEnds`, `ComesBack`, `EndsOrHangs`, and the violated ones): the proof system has no rules for fairness over `ENABLED`. Every other property of
a passing run is a theorem.

## 7. The plan

Order: the path of a memory access first, from the processor down, then what surrounds it.

1. *Done.* `LossyFifo`, `MemoryInterface`, `DispatchPath`, `DispatchPathProofs`.
2. *Done.* `LsuQueue`, `LoadStoreUnit`.
3. *Done.* `MshrQueue`, `Cache`, `L1DataCache`, `L1DSystem`, `MshrQueueProofs`, `L1DProofs`.
4. *Done.* What judges the L1D: `GoldenL1D`, `L1dScoreboard`, `L1dScoreboardProofs`; `SimL1D`, `SimLLC`, `L1dLlcBench`, `L1dLlcBenchProofs`.
5. LSU and L1D composed (their ports are already: `L1dKeepsPort`): completions dropped by `lsu_control`, `MaxWaiting` above 1 (the overlap of `lsu_tb1`), the top level's one-edge
   protocol (`ozone.sv:146-154`). Bounds: depth 2, 3 operations, 1 block.
6. *Done.* The DRAM controller: `MemCmdQueue`, `SdramBankState`, `AutoRefresh`, `RequestScheduler`, `RequestSchedulerProofs`. To come: the command sender with a DIMM behind it, `AddressMap` as a function with
   its inverse, the LLC's cache in front, and how long a request waits when none of the events of `mishaps` happens.
7. Back end: `FreeList` with `Rat`/`Rrat` (free or in use, never both), `ReorderBuffer` (commit order, full and empty), `LoadQueue`.
   Runs: 4 physical registers, 4 reorder buffer slots.
8. Front end: `InstrQueue` and `ReturnStack` against an abstract queue and stack, `PatternCounter` (pure function, over all bounded inputs), `FetchDiscard` (flush against stall), the L1 instruction cache.
9. Theorems still to come: the rings of 7 and 8 against their abstract queues
   (the lemmas of `MshrQueueProofs` carry over); the bijection of the address map.

Runs that share a module will be merged where a question of the plan needs one more.

## 8. What is left out

* Flushing of the L1D and the cache (never driven), debug displays, `lsu_addr_out` and `l1d_ready_out` of the memory interface (nothing reads them).
* The edge at which an MSHR ring enqueues and dequeues: no L1D state drives both. The DRAM queues reach it (`MemCmdQueue`).
* Arithmetic: execution units, FPU, decode tables: combinational, 64 bits wide, without state.
* Of `l1d_llc_verif.cpp` what nothing reads: the cache arrays and LRU counters with `findVictim`, `updateLRU`, `findLine`, the MSHR entries, `MemoryModel` (never
  written: the stand-in L1D never writes to the LLC, so `WRITING` is not entered), tags. Of `ref_model.cpp`: `mem_write`, `mem_read`, `mem_reset` (an interface for the LSU
  scoreboard) and `llc_default_word` (never called). Of `l1d_scoreboard.sv`: `pending_tags` and the counters.
* The other C++ benches. `mem/verif/dimm_tb2.cpp` does not compile; `l1d_test_cpp.cpp` cannot be built against the ports it names (an `int` is assigned to a 512-bit
  line); `l1d_lsu_verif.cpp` connects no design, and waits in its first `issueLoad` for a ready nobody drives; `llc_dimm_verif.cpp`,
  `ddr4_sys_verif.cpp` and `backend_tb.cpp` are fixed stimulus without a model of what they drive.
* Of the DRAM controller: columns, data and encoded addresses, banks that no request of the instance uses, the wrapping of `cycle_counter`, the interval counter of the refresh. Liveness of
  the scheduler is not checked: `StuckStays` shows that it does not hold in general.
* The DIMM model and the remaining test code, except as environment; `HANDOFF.md`'s remarks on empty clocked blocks and
  blocking assignments describe an earlier version of the code.
* Real sizes and real time: cycle counts are kept where the code counts (the five silent edges of a write), and delays of the environment are arbitrary.
