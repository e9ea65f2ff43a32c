---------------------------- MODULE L1DataCache ----------------------------
(***************************************************************************)
(* l1_data_cache.sv: the state machine between the LSU, the generic cache  *)
(* (Cache), the MSHR queues (MshrQueue) and the LLC.  One action per state *)
(* the machine can reach with flush_in low and the chip selected.          *)
(*                                                                         *)
(* Inputs of an edge: `lsu', what the LSU presents (None when not valid),  *)
(* `fill', what the LLC presents (None likewise), and lc_ready_in.         *)
(***************************************************************************)
EXTENDS Cache

CONSTANTS Tag,          \* processor tags
          MSHR_COUNT,   \* number of MSHRs
          QUEUE_SIZE,   \* requests that can wait in one MSHR
          None

\* Mutant: the countdown ends before the cache has answered.
WriteWait_short == 1

\* Edges a write without answer is waited for (wait_comb).
WriteWait == 5

Mshr == 0 .. MSHR_COUNT - 1
LsuRequest == [tag : Tag, store : BOOLEAN, addr : Address, value : Value]
Fill == [block : Block, line : Line]

\* An MSHR slot is a request with its valid bit; the block is part of addr.
MshrEntry == [valid : BOOLEAN, tag : Tag \cup {0}, store : BOOLEAN, addr : Address, value : Value]
ZeroEntry == [valid |-> FALSE, tag |-> 0, store |-> FALSE, addr |-> ZeroAddress, value |-> 0]

ASSUME L1dAssumption ==
    /\ MSHR_COUNT \in Nat \ {0} /\ QUEUE_SIZE \in Nat \ {0}
    /\ None \notin LsuRequest \cup Fill

Queue == INSTANCE MshrQueue WITH Entry <- MshrEntry

VARIABLES
    l1d_state,         \* cur_state
    lsu_in_reg,        \* lsu_{tag,we,addr,value}_in_reg, as an MSHR slot
    lc_in_reg,         \* lc_{valid,addr,value}_in_reg
    lc_ready_in_reg,
    mshr,              \* the MSHR queues
    wait_reg,          \* countdown of a write without answer
    lsu_ready_out,
    lsu_out,           \* lsu_{valid,tag,value,write_complete}_out
    lc_ready_out,
    lc_out             \* lc_{valid,we,addr,value}_out

l1dVars == << cacheVars, to_cache, l1d_state, lsu_in_reg, lc_in_reg, lc_ready_in_reg, mshr,
              wait_reg, lsu_ready_out, lsu_out, lc_ready_out, lc_out >>

L1dTypeOK ==
    /\ CacheTypeOK
    /\ l1d_state \in {"IDLE", "READ_CACHE", "WRITE_CACHE", "WAIT_CACHE", "CHECK_MSHR",
                      "SEND_REQ_LC", "SEND_RESP_HC", "CLEAR_MSHR", "EVICT", "COMPLETE_WRITE"}
    /\ lsu_in_reg \in MshrEntry
    /\ lc_in_reg \in [valid : BOOLEAN, block : Block, line : Line]
    /\ mshr \in [Mshr -> Queue!Ring]
    /\ wait_reg \in 0 .. WriteWait
    /\ lc_ready_in_reg \in BOOLEAN /\ lsu_ready_out \in BOOLEAN /\ lc_ready_out \in BOOLEAN
    /\ lsu_out \in [valid : BOOLEAN, tag : Tag \cup {0}, value : Value, write_complete : BOOLEAN]
    /\ lc_out \in [valid : BOOLEAN, we : BOOLEAN, block : Block, line : Line]

L1dInit ==
    /\ CacheInit
    /\ l1d_state = "IDLE"
    /\ lsu_in_reg = ZeroEntry
    /\ lc_in_reg = [valid |-> FALSE, block |-> 0, line |-> ZeroLine]
    /\ mshr = [m \in Mshr |-> Queue!EmptyRing]
    /\ wait_reg = 0
    /\ lc_ready_in_reg = FALSE /\ lsu_ready_out = FALSE /\ lc_ready_out = FALSE
    /\ lsu_out = [valid |-> FALSE, tag |-> 0, value |-> 0, write_complete |-> FALSE]
    /\ lc_out = [valid |-> FALSE, we |-> FALSE, block |-> 0, line |-> ZeroLine]

-----------------------------------------------------------------------------
Oldest(m) == Queue!req_out(mshr[m])

\* An MSHR counts as free when its front slot is not valid.
FreeMshrs == {m \in Mshr : ~Oldest(m).valid}

\* Mutant: the block is ignored.
Tracking_any == {m \in Mshr : ~Queue!empty(mshr[m])}

\* Mutant: the search leaves out the first MSHR.
Tracking_rest == {m \in Mshr : m # 0 /\ Oldest(m).addr.block = lsu_in_reg.addr.block}

\* The MSHR that tracks the block of the latched request, by the front slot
\* alone; the MSHR a fill is for must also hold something.
Tracking == {m \in Mshr : Oldest(m).addr.block = lsu_in_reg.addr.block}

\* Mutant: a fill empties the first MSHR that holds anything.
Filled_any == {m \in Mshr : ~Queue!empty(mshr[m])}

Filled == {m \in Mshr : /\ ~Queue!empty(mshr[m])
                        /\ Oldest(m).addr.block = lc_in_reg.block}

\* Outputs and cache inputs of a state that drives none of them.
LsuQuiet == [lsu_out EXCEPT !.valid = FALSE, !.write_complete = FALSE]
LcQuiet == [lc_out EXCEPT !.valid = FALSE, !.we = FALSE]
CacheQuiet == [hc_valid |-> FALSE, hc_ready |-> FALSE, hc_addr |-> to_cache.hc_addr,
               hc_value |-> lsu_in_reg.value, hc_we |-> lsu_in_reg.store,
               lc_valid |-> FALSE, lc_ready |-> FALSE,
               lc_block |-> lc_in_reg.block, lc_line |-> lc_in_reg.line]

\* The registers only some states write.
NoAccept == lsu_ready_out' = FALSE /\ lc_ready_out' = FALSE /\ UNCHANGED lsu_in_reg
KeepFill == UNCHANGED lc_in_reg
KeepMshr == UNCHANGED mshr
KeepWait == UNCHANGED wait_reg

-----------------------------------------------------------------------------
\* Mutant: a request is accepted although no MSHR counts as free.
CanAccept_anyway(fill) == fill = None

\* Mutant: a request is accepted next to a fill.
CanAccept_blind(fill) == FreeMshrs # {}

\* IDLE: with anything presented, latch all of it; go on with a fill latched at
\* the edge before, or with the request if it can be accepted.
CanAccept(fill) == fill = None /\ FreeMshrs # {}
Accepts(lsu, fill) ==
    l1d_state = "IDLE" /\ ~lc_in_reg.valid /\ lsu # None /\ CanAccept(fill)

L1dIdle(lsu, fill) ==
    LET shown == IF lsu = None THEN lsu_in_reg
                 ELSE [valid |-> TRUE, tag |-> lsu.tag, store |-> lsu.store,
                       addr |-> lsu.addr, value |-> lsu.value]
    IN  /\ l1d_state = "IDLE"
        /\ lsu_ready_out' = CanAccept(fill)
        /\ lc_ready_out' = lc_in_reg.valid
        /\ l1d_state' = IF lc_in_reg.valid THEN "WRITE_CACHE"
                        ELSE IF ~Accepts(lsu, fill) THEN "IDLE"
                        ELSE IF lsu.store THEN "WRITE_CACHE" ELSE "READ_CACHE"
        /\ IF lsu # None \/ fill # None
           THEN /\ lsu_in_reg' = shown
                /\ lc_in_reg' = IF fill = None THEN [lc_in_reg EXCEPT !.valid = FALSE]
                                ELSE [valid |-> TRUE, block |-> fill.block, line |-> fill.line]
           ELSE UNCHANGED << lsu_in_reg, lc_in_reg >>
        /\ lsu_out' = [LsuQuiet EXCEPT !.tag = IF lsu = None THEN @ ELSE lsu.tag]
        /\ lc_out' = LcQuiet /\ to_cache' = CacheQuiet
        /\ wait_reg' = WriteWait
        /\ KeepMshr

ReadCache ==
    /\ l1d_state = "READ_CACHE"
    /\ to_cache' = [CacheQuiet EXCEPT !.hc_addr = lsu_in_reg.addr,
                                      !.hc_valid = ~cache_out.hc_ready]
    /\ l1d_state' = IF cache_out.hc_ready THEN "WAIT_CACHE" ELSE l1d_state
    /\ lsu_out' = LsuQuiet /\ lc_out' = LcQuiet
    /\ NoAccept /\ KeepFill /\ KeepMshr /\ KeepWait

\* A fill goes on to MSHR playback; a store goes to the cache.
L1dWriteCache ==
    /\ l1d_state = "WRITE_CACHE"
    /\ IF lc_in_reg.valid
       THEN /\ l1d_state' = "CLEAR_MSHR"
            /\ lc_in_reg' = [lc_in_reg EXCEPT !.valid = FALSE]
            /\ to_cache' = CacheQuiet
       ELSE /\ l1d_state' = IF cache_out.hc_ready THEN "WAIT_CACHE" ELSE l1d_state
            /\ to_cache' = [CacheQuiet EXCEPT !.hc_addr = lsu_in_reg.addr, !.hc_valid = TRUE,
                                              !.hc_we = cache_out.hc_ready \/ cache_out.lc_ready]
            /\ KeepFill
    /\ lsu_out' = LsuQuiet /\ lc_out' = LcQuiet
    /\ NoAccept /\ KeepMshr /\ KeepWait

\* WAIT_CACHE: the cache misses, evicts or answers; a write that does none of
\* them for five edges is taken to have hit.
CacheMisses ==
    /\ cache_out.lc_valid
    /\ l1d_state' = IF cache_out.we THEN "EVICT" ELSE "CHECK_MSHR"
    /\ to_cache' = [CacheQuiet EXCEPT !.lc_ready = TRUE]
    /\ lc_out' = IF cache_out.we
                 THEN [valid |-> FALSE, we |-> TRUE, block |-> cache_out.lc_block,
                       line |-> evict_data_reg]
                 ELSE LcQuiet
    /\ lsu_out' = LsuQuiet
    /\ KeepWait

CacheHits ==
    /\ ~cache_out.lc_valid /\ cache_out.hc_valid
    /\ l1d_state' = "SEND_RESP_HC"
    /\ to_cache' = [CacheQuiet EXCEPT !.hc_ready = TRUE]
    /\ lsu_out' = [LsuQuiet EXCEPT !.value = cache_out.hc_value]
    /\ lc_out' = LcQuiet
    /\ KeepWait

\* Mutant: the countdown runs one edge too long.
CacheSilent_late ==
    /\ ~cache_out.lc_valid /\ ~cache_out.hc_valid
    /\ wait_reg' = wait_reg - 1
    /\ l1d_state' = IF wait_reg = 0 THEN "COMPLETE_WRITE" ELSE l1d_state
    /\ to_cache' = CacheQuiet /\ lsu_out' = LsuQuiet /\ lc_out' = LcQuiet

CacheSilent ==
    /\ ~cache_out.lc_valid /\ ~cache_out.hc_valid
    /\ wait_reg' = wait_reg - 1
    /\ l1d_state' = IF wait_reg = 1 THEN "COMPLETE_WRITE" ELSE l1d_state
    /\ to_cache' = CacheQuiet /\ lsu_out' = LsuQuiet /\ lc_out' = LcQuiet

WaitCache ==
    /\ l1d_state = "WAIT_CACHE"
    /\ CacheMisses \/ CacheHits \/ CacheSilent
    /\ NoAccept /\ KeepFill /\ KeepMshr

-----------------------------------------------------------------------------
\* CHECK_MSHR, by whether an MSHR tracks the block.
PrimaryMiss ==
    /\ Tracking = {}
    /\ IF FreeMshrs = {} THEN KeepMshr /\ UNCHANGED l1d_state
       ELSE /\ mshr' = [mshr EXCEPT ![Min(FreeMshrs)] = Queue!Enqueued(@, lsu_in_reg)]
            /\ l1d_state' = "SEND_REQ_LC"
    /\ lsu_out' = LsuQuiet

\* Stores to the address of the latched load anywhere in the ring's array.
Forwarders(m) == {s \in Queue!RingSlot :
                    LET e == mshr[m].queue[s] IN e.valid /\ e.store /\ e.addr = lsu_in_reg.addr}

\* Mutant: a secondary miss asks the LLC for the block as well.
SecondaryMiss_asks ==
    LET m == Min(Tracking)
    IN  /\ Tracking # {}
        /\ mshr' = [mshr EXCEPT ![m] = Queue!Enqueued(@, lsu_in_reg)]
        /\ l1d_state' = "SEND_REQ_LC"
        /\ lsu_out' = LsuQuiet

\* Mutant: a full queue holds the request up.
SecondaryMiss_blocks ==
    LET m == Min(Tracking)
        forwards == ~lsu_in_reg.store /\ Forwarders(m) # {}
    IN  /\ Tracking # {}
        /\ IF Queue!full(mshr[m])
           THEN KeepMshr /\ lsu_out' = LsuQuiet /\ UNCHANGED l1d_state
           ELSE IF forwards
           THEN /\ l1d_state' = "SEND_RESP_HC" /\ KeepMshr
                /\ lsu_out' = [LsuQuiet EXCEPT !.value = mshr[m].queue[Min(Forwarders(m))].value]
           ELSE /\ l1d_state' = "IDLE"
                /\ mshr' = [mshr EXCEPT ![m] = Queue!Enqueued(@, lsu_in_reg)]
                /\ lsu_out' = LsuQuiet

\* A full queue drops the request.
SecondaryMiss ==
    LET m == Min(Tracking)
        forwards == ~lsu_in_reg.store /\ Forwarders(m) # {}
    IN  /\ Tracking # {}
        /\ IF Queue!full(mshr[m])
           THEN l1d_state' = "IDLE" /\ KeepMshr /\ lsu_out' = LsuQuiet
           ELSE IF forwards
           THEN /\ l1d_state' = "SEND_RESP_HC" /\ KeepMshr
                /\ lsu_out' = [LsuQuiet EXCEPT !.value = mshr[m].queue[Min(Forwarders(m))].value]
           ELSE /\ l1d_state' = "IDLE"
                /\ mshr' = [mshr EXCEPT ![m] = Queue!Enqueued(@, lsu_in_reg)]
                /\ lsu_out' = LsuQuiet

CheckMshr ==
    /\ l1d_state = "CHECK_MSHR"
    /\ PrimaryMiss \/ SecondaryMiss
    /\ to_cache' = [CacheQuiet EXCEPT !.hc_we = FALSE]
    /\ lc_out' = LcQuiet
    /\ NoAccept /\ KeepFill /\ KeepWait

\* CLEAR_MSHR: one request of the filled MSHR is answered from the fill line,
\* which takes the stores; when none is left the line goes to the cache.
Replays == Filled # {} /\ Oldest(Min(Filled)).valid

\* Mutant: the replayed request stays in the MSHR for one more turn.
Playback_keep ==
    LET m == Min(Filled)
        e == Oldest(m)
    IN  /\ Replays
        /\ mshr' = [mshr EXCEPT ![m] = IF lsu_out.valid THEN Queue!Dequeued(@) ELSE @]
        /\ lsu_out' = [valid |-> TRUE, tag |-> e.tag, write_complete |-> e.store,
                       value |-> lc_in_reg.line[e.addr.word]]
        /\ to_cache' = CacheQuiet
        /\ UNCHANGED << l1d_state, lc_in_reg >>

Playback ==
    LET m == Min(Filled)
        e == Oldest(m)
    IN  /\ Replays
        /\ mshr' = [mshr EXCEPT ![m] = Queue!Dequeued(@)]
        /\ lsu_out' = [valid |-> TRUE, tag |-> e.tag, write_complete |-> e.store,
                       value |-> IF e.store THEN lsu_out.value
                                 ELSE lc_in_reg.line[e.addr.word]]
        /\ lc_in_reg' = IF e.store THEN [lc_in_reg EXCEPT !.line[e.addr.word] = e.value]
                        ELSE lc_in_reg
        /\ to_cache' = CacheQuiet
        /\ UNCHANGED l1d_state

Install ==
    /\ ~Replays
    /\ to_cache' = [CacheQuiet EXCEPT !.lc_valid = TRUE]
    /\ l1d_state' = "IDLE"
    /\ lsu_out' = LsuQuiet
    /\ KeepMshr /\ KeepFill

ClearMshr ==
    /\ l1d_state = "CLEAR_MSHR"
    /\ Playback \/ Install
    /\ lc_out' = LcQuiet
    /\ NoAccept /\ KeepWait

CompleteWrite ==
    /\ l1d_state = "COMPLETE_WRITE"
    /\ lsu_out' = [lsu_out EXCEPT !.valid = TRUE, !.write_complete = TRUE]
    /\ l1d_state' = "IDLE"
    /\ to_cache' = CacheQuiet /\ lc_out' = LcQuiet
    /\ NoAccept /\ KeepFill /\ KeepMshr /\ KeepWait

Evict ==
    /\ l1d_state = "EVICT"
    /\ lc_out' = [lc_out EXCEPT !.valid = TRUE, !.we = TRUE]
    /\ l1d_state' = IF lc_ready_in_reg THEN "CLEAR_MSHR" ELSE l1d_state
    /\ to_cache' = CacheQuiet /\ lsu_out' = LsuQuiet
    /\ NoAccept /\ KeepFill /\ KeepMshr /\ KeepWait

\* The address is read from the cache's output while the request is driven.
SendReqLc ==
    /\ l1d_state = "SEND_REQ_LC"
    /\ lc_out' = [LcQuiet EXCEPT !.valid = TRUE, !.block = cache_out.lc_block]
    /\ l1d_state' = IF lc_ready_in_reg THEN "IDLE" ELSE l1d_state
    /\ to_cache' = [CacheQuiet EXCEPT !.hc_we = IF lc_ready_in_reg THEN FALSE ELSE @]
    /\ lsu_out' = LsuQuiet
    /\ NoAccept /\ KeepFill /\ KeepMshr /\ KeepWait

\* The value is read from the cache again, also for a forwarded load.
SendRespHc ==
    /\ l1d_state = "SEND_RESP_HC"
    /\ lsu_out' = [LsuQuiet EXCEPT !.valid = TRUE, !.value = cache_out.hc_value]
    /\ l1d_state' = "IDLE"
    /\ to_cache' = [CacheQuiet EXCEPT !.hc_ready = TRUE]
    /\ lc_out' = LcQuiet
    /\ NoAccept /\ KeepFill /\ KeepMshr /\ KeepWait

\* One clock edge of the L1D and the cache inside it.
L1dEdge(lsu, fill, lc_ready_in) ==
    /\ \/ L1dIdle(lsu, fill) \/ ReadCache \/ L1dWriteCache \/ WaitCache \/ CheckMshr
       \/ ClearMshr \/ CompleteWrite \/ Evict \/ SendReqLc \/ SendRespHc
    /\ lc_ready_in_reg' = lc_ready_in
    /\ CacheEdge
=============================================================================
