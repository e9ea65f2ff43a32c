------------------------------- MODULE Cache -------------------------------
(***************************************************************************)
(* cache.sv as the L1D uses it (one set of ways per set, three ways, PLRU; *)
(* word writes only, flush_in low): one action per state of its machine.   *)
(* Inputs are taken from the L1D's registers (to_cache) and all outputs    *)
(* are registers (cache_out).                                              *)
(*                                                                         *)
(* A block is its block address; `set' and `tag' are parts of it, so that  *)
(* a stored tag is the block itself.  A line is a function from words.     *)
(***************************************************************************)
EXTENDS Integers, FiniteSetsExt

CONSTANTS Block,     \* block addresses, 0 among them (the reset value)
          Word,      \* words of a block, 0 among them
          Value,     \* data words, 0 among them
          NUM_SETS

ASSUME CacheAssumption ==
    /\ Block \subseteq Nat /\ 0 \in Block
    /\ 0 \in Word /\ 0 \in Value
    /\ NUM_SETS \in Nat \ {0}

Way == 0 .. 2
Set == 0 .. NUM_SETS - 1
SetOf(block) == block % NUM_SETS

Address == [block : Block, word : Word]
Line == [Word -> Value]
ZeroAddress == [block |-> 0, word |-> 0]
ZeroLine == [w \in Word |-> 0]

VARIABLES
    to_cache,         \* the L1D's cache_*_reg: the inputs of the cache
    cache_state,      \* cur_state
    hc,               \* hc_*_reg: the latched request of the higher level
    lc,               \* lc_*_reg: the latched fill of the lower level
    hit_reg, hit_way_reg,
    tag_array, cache_data, plru_bits,
    evict_data_reg,
    cache_out         \* the registered outputs

cacheVars == << cache_state, hc, lc, hit_reg, hit_way_reg, tag_array, cache_data,
                plru_bits, evict_data_reg, cache_out >>

ToCache == [hc_valid : BOOLEAN, hc_ready : BOOLEAN, hc_addr : Address, hc_value : Value,
            hc_we : BOOLEAN, lc_valid : BOOLEAN, lc_ready : BOOLEAN, lc_block : Block,
            lc_line : Line]

CacheOut == [hc_valid : BOOLEAN, hc_ready : BOOLEAN, hc_value : Value,
             lc_valid : BOOLEAN, lc_ready : BOOLEAN, lc_block : Block, we : BOOLEAN]

CacheTypeOK ==
    /\ to_cache \in ToCache
    /\ cache_state \in {"IDLE", "LOOKUP", "SEND_LOWER_CACHE_REQ", "WRITE_CACHE",
                        "EVICT_BLOCK", "RESPOND_HC"}
    /\ hc \in [valid : BOOLEAN, ready : BOOLEAN, addr : Address, value : Value, we : BOOLEAN]
    /\ lc \in [valid : BOOLEAN, ready : BOOLEAN, block : Block, line : Line]
    /\ hit_reg \in BOOLEAN /\ hit_way_reg \in Way
    /\ tag_array \in [Way -> [Set -> [valid : BOOLEAN, dirty : BOOLEAN, tag : Block]]]
    /\ cache_data \in [Way -> [Set -> Line]]
    /\ plru_bits \in [Set -> [Way -> BOOLEAN]]
    /\ evict_data_reg \in Line
    /\ cache_out \in CacheOut

\* Outputs of a state that drives none of them.
Quiet == [hc_valid |-> FALSE, hc_ready |-> FALSE, hc_value |-> 0, lc_valid |-> FALSE,
          lc_ready |-> TRUE, lc_block |-> 0, we |-> FALSE]

\* After reset.  The data array and the outputs have no reset; they power up low.
CacheInit ==
    /\ to_cache = [hc_valid |-> FALSE, hc_ready |-> FALSE, hc_addr |-> ZeroAddress,
                   hc_value |-> 0, hc_we |-> FALSE, lc_valid |-> FALSE, lc_ready |-> FALSE,
                   lc_block |-> 0, lc_line |-> ZeroLine]
    /\ cache_state = "IDLE"
    /\ hc = [valid |-> FALSE, ready |-> FALSE, addr |-> ZeroAddress, value |-> 0, we |-> FALSE]
    /\ lc = [valid |-> FALSE, ready |-> FALSE, block |-> 0, line |-> ZeroLine]
    /\ hit_reg = FALSE /\ hit_way_reg = 0
    /\ tag_array = [w \in Way |-> [s \in Set |-> [valid |-> FALSE, dirty |-> FALSE, tag |-> 0]]]
    /\ cache_data = [w \in Way |-> [s \in Set |-> ZeroLine]]
    /\ plru_bits = [s \in Set |-> [w \in Way |-> FALSE]]
    /\ evict_data_reg = ZeroLine
    /\ cache_out = [Quiet EXCEPT !.lc_ready = FALSE]

-----------------------------------------------------------------------------
\* A fill goes before a request that is latched with it.
cur_block == IF lc.valid THEN lc.block ELSE hc.addr.block
cur_set == SetOf(cur_block)

Matches == {w \in Way : tag_array[w][cur_set].valid /\ tag_array[w][cur_set].tag = cur_block}

\* cur_hit is set by a match and never cleared: hit_reg feeds it back.
cur_hit == hit_reg \/ Matches # {}

\* The PLRU bits after an access to way w of a set.
Touched(bits, w) ==
    IF \A v \in Way \ {w} : bits[v]
    THEN [v \in Way |-> v = w]
    ELSE [bits EXCEPT ![w] = TRUE]

Victim(bits) == IF ~bits[0] THEN 0 ELSE IF ~bits[1] THEN 1 ELSE 2

\* Registers every state writes alike.  The ready bits of both sides are
\* sampled at every edge; the valid bits fall on the way back to IDLE.
Latch(next) ==
    LET latches == cache_state = "IDLE" /\ (to_cache.hc_valid \/ to_cache.lc_valid)
        clears == next = "IDLE" /\ cache_state # "IDLE"
    IN  /\ cache_state' = next
        /\ hc' = IF latches
                 THEN [valid |-> to_cache.hc_valid, ready |-> to_cache.hc_ready,
                       addr |-> to_cache.hc_addr, value |-> to_cache.hc_value,
                       we |-> to_cache.hc_we]
                 ELSE [hc EXCEPT !.ready = to_cache.hc_ready, !.valid = @ /\ ~clears]
        /\ lc' = IF latches
                 THEN [valid |-> to_cache.lc_valid, ready |-> to_cache.lc_ready,
                       block |-> to_cache.lc_block, line |-> to_cache.lc_line]
                 ELSE [lc EXCEPT !.ready = to_cache.lc_ready, !.valid = @ /\ ~clears]

KeepArrays == UNCHANGED << tag_array, cache_data >>
KeepHit == UNCHANGED << hit_reg, hit_way_reg, plru_bits >>

-----------------------------------------------------------------------------
CacheIdle ==
    /\ cache_state = "IDLE"
    /\ Latch(IF lc.valid \/ hc.valid THEN "LOOKUP" ELSE "IDLE")
    /\ cache_out' = [Quiet EXCEPT !.lc_ready = lc.valid \/ ~hc.valid,
                                  !.hc_ready = hc.valid /\ ~lc.valid]
    /\ KeepArrays /\ KeepHit /\ UNCHANGED evict_data_reg

Lookup ==
    LET way == IF Matches # {} THEN Max(Matches) ELSE hit_way_reg
        victim == Victim(plru_bits[cur_set])
        dirty == tag_array[victim][cur_set].valid /\ tag_array[victim][cur_set].dirty
        writes == hc.we \/ lc.valid
    IN  /\ cache_state = "LOOKUP"
        /\ hit_reg' = cur_hit
        /\ hit_way_reg' = IF cur_hit THEN way ELSE victim
        \* The way last used is marked on a miss as well.
        /\ plru_bits' = [plru_bits EXCEPT ![cur_set] = Touched(@, way)]
        /\ Latch(IF cur_hit
                 THEN IF writes THEN "WRITE_CACHE" ELSE "RESPOND_HC"
                 ELSE IF writes /\ dirty THEN "EVICT_BLOCK"
                 ELSE IF lc.valid THEN "WRITE_CACHE" ELSE "SEND_LOWER_CACHE_REQ")
        /\ cache_out' = Quiet
        /\ KeepArrays /\ UNCHANGED evict_data_reg

\* A miss: ask for the block until the other side is ready.
SendLowerCacheReq ==
    /\ cache_state = "SEND_LOWER_CACHE_REQ"
    /\ Latch(IF lc.ready THEN "IDLE" ELSE cache_state)
    /\ cache_out' = [Quiet EXCEPT !.lc_valid = TRUE, !.lc_block = hc.addr.block]
    /\ KeepArrays /\ KeepHit /\ UNCHANGED evict_data_reg

RespondHc ==
    /\ cache_state = "RESPOND_HC"
    /\ Latch(IF hc.ready THEN "IDLE" ELSE cache_state)
    /\ cache_out' = [Quiet EXCEPT !.hc_valid = TRUE,
                                  !.hc_value = cache_data[hit_way_reg][cur_set][hc.addr.word]]
    /\ KeepArrays /\ KeepHit /\ UNCHANGED evict_data_reg

\* A fill leaves the line clean, whatever stores it carries.
LeavesDirty == ~lc.valid

\* A fill replaces the line, a request writes one word; the
\* way becomes the block's either way.
WriteCache ==
    /\ cache_state = "WRITE_CACHE"
    /\ Latch("IDLE")
    /\ cache_data' = IF lc.valid THEN [cache_data EXCEPT ![hit_way_reg][cur_set] = lc.line]
                     ELSE [cache_data EXCEPT ![hit_way_reg][cur_set][hc.addr.word] = hc.value]
    /\ tag_array' = [tag_array EXCEPT ![hit_way_reg][cur_set] =
                        [valid |-> TRUE, dirty |-> LeavesDirty, tag |-> cur_block]]
    /\ cache_out' = Quiet
    /\ KeepHit /\ UNCHANGED evict_data_reg

\* A dirty victim is offered with lc_addr_out left at zero.
EvictBlock ==
    /\ cache_state = "EVICT_BLOCK"
    /\ Latch(IF lc.ready THEN "WRITE_CACHE" ELSE cache_state)
    /\ evict_data_reg' = cache_data[hit_way_reg][cur_set]
    /\ cache_out' = [Quiet EXCEPT !.lc_valid = TRUE, !.we = TRUE]
    /\ KeepArrays /\ KeepHit

CacheEdge ==
    \/ CacheIdle \/ Lookup \/ SendLowerCacheReq \/ RespondHc \/ WriteCache \/ EvictBlock
=============================================================================
