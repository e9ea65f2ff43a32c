----------------------------- MODULE L1DProofs -----------------------------
(***************************************************************************)
(* What holds of the L1D and the cache inside it whatever their sizes, the *)
(* requests and the timing of the LLC.                                     *)
(***************************************************************************)
EXTENDS L1DSystem, MinMaxLemmas, SequenceTheorems, TLAPS

-----------------------------------------------------------------------------
(* Lemmas about the constants and the operators.                           *)

\* What the assumptions say of the zero values.
LEMMA Zeros ==
  /\ 0 \in Block /\ 0 \in Word /\ 0 \in Value /\ Block \subseteq Nat
  /\ ZeroAddress \in Address /\ ZeroLine \in Line /\ ZeroEntry \in MshrEntry
  BY CacheAssumption DEF ZeroAddress, Address, ZeroLine, Line, ZeroEntry, MshrEntry

\* The greatest of some ways is one of them.
LEMMA MaxWay ==
  ASSUME NEW S \in SUBSET Way, S # {}
  PROVE  Max(S) \in Way
<1>1. \A m \in S : m \in {0, 1, 2}
  BY DEF Way
<1>2. \E n \in S : \A m \in S : n >= m
  <2>1. CASE 2 \in S
    BY <1>1, <2>1
  <2>2. CASE 2 \notin S /\ 1 \in S
    BY <1>1, <2>2
  <2>3. CASE 2 \notin S /\ 1 \notin S
    BY <1>1, <2>3
  <2>4. QED
    BY <2>1, <2>2, <2>3
<1>3. QED
  BY <1>2 DEF Max

\* A block address selects a set.
LEMMA SetOfSet ==
  ASSUME NEW b \in Block
  PROVE  SetOf(b) \in Set
  BY CacheAssumption DEF SetOf, Set

-----------------------------------------------------------------------------
(* The cache.                                                              *)

\* One edge of the cache keeps its types, given well-typed inputs.
LEMMA CacheStepTypeOK ==
  ASSUME CacheTypeOK, CacheEdge, to_cache' \in ToCache
  PROVE  CacheTypeOK'
<1> USE DEF CacheTypeOK
<1>1. cur_block \in Block /\ cur_set \in Set
  BY SetOfSet DEF cur_block, cur_set, Address
<1>2. ASSUME NEW next \in {"IDLE", "LOOKUP", "SEND_LOWER_CACHE_REQ", "WRITE_CACHE",
                           "EVICT_BLOCK", "RESPOND_HC"},
             Latch(next)
      PROVE  /\ cache_state' \in {"IDLE", "LOOKUP", "SEND_LOWER_CACHE_REQ", "WRITE_CACHE",
                                  "EVICT_BLOCK", "RESPOND_HC"}
             /\ hc' \in [valid : BOOLEAN, ready : BOOLEAN, addr : Address, value : Value, we : BOOLEAN]
             /\ lc' \in [valid : BOOLEAN, ready : BOOLEAN, block : Block, line : Line]
  <2> DEFINE latches == cache_state = "IDLE" /\ (to_cache.hc_valid \/ to_cache.lc_valid)
             clears == next = "IDLE" /\ cache_state # "IDLE"
  <2>1. /\ cache_state' = next
        /\ hc' = IF latches
                 THEN [valid |-> to_cache.hc_valid, ready |-> to_cache.hc_ready,
                       addr |-> to_cache.hc_addr, value |-> to_cache.hc_value,
                       we |-> to_cache.hc_we]
                 ELSE [hc EXCEPT !.ready = to_cache.hc_ready, !.valid = @ /\ ~clears]
        /\ lc' = IF latches
                 THEN [valid |-> to_cache.lc_valid, ready |-> to_cache.lc_ready,
                       block |-> to_cache.lc_block, line |-> to_cache.lc_line]
                 ELSE [lc EXCEPT !.ready = to_cache.lc_ready, !.valid = @ /\ ~clears]
    BY <1>2 DEF Latch
  <2>2. clears \in BOOLEAN /\ to_cache \in ToCache
    OBVIOUS
  <2> HIDE DEF latches, clears
  <2>3. hc' \in [valid : BOOLEAN, ready : BOOLEAN, addr : Address, value : Value, we : BOOLEAN]
    BY <2>1, <2>2 DEF ToCache
  <2>4. lc' \in [valid : BOOLEAN, ready : BOOLEAN, block : Block, line : Line]
    BY <2>1, <2>2 DEF ToCache
  <2>5. QED
    BY <1>2, <2>1, <2>3, <2>4
<1>3. Quiet \in CacheOut
  BY Zeros DEF Quiet, CacheOut
\* What a state writes that is not latched.
<1> DEFINE TagEntry == [valid : BOOLEAN, dirty : BOOLEAN, tag : Block]
<1> SUFFICES /\ \E next \in {"IDLE", "LOOKUP", "SEND_LOWER_CACHE_REQ", "WRITE_CACHE",
                             "EVICT_BLOCK", "RESPOND_HC"} : Latch(next)
             /\ hit_reg' \in BOOLEAN /\ hit_way_reg' \in Way
             /\ tag_array' \in [Way -> [Set -> TagEntry]]
             /\ cache_data' \in [Way -> [Set -> Line]]
             /\ plru_bits' \in [Set -> [Way -> BOOLEAN]]
             /\ evict_data_reg' \in Line
             /\ cache_out' \in CacheOut
  BY <1>2
<1>4. CASE CacheIdle
  <2>1. cache_out' = [Quiet EXCEPT !.lc_ready = lc.valid \/ ~hc.valid,
                                   !.hc_ready = hc.valid /\ ~lc.valid]
    BY <1>4 DEF CacheIdle
  <2>2. cache_out' \in CacheOut
    BY <2>1, Zeros DEF CacheOut, Quiet
  <2>3. QED
    BY <1>4, <2>2 DEF CacheIdle, KeepArrays, KeepHit
<1>5. CASE Lookup
  <2> DEFINE way == IF Matches # {} THEN Max(Matches) ELSE hit_way_reg
             victim == Victim(plru_bits[cur_set])
  <2>1. way \in Way
    BY MaxWay DEF Matches
  <2>2. victim \in Way
    BY DEF Victim, Way
  <2>3. hit_way_reg' \in Way
    BY <1>5, <2>1, <2>2 DEF Lookup
  <2>4. hit_reg' \in BOOLEAN
    BY <1>5 DEF Lookup, cur_hit
  <2>5. Touched(plru_bits[cur_set], way) \in [Way -> BOOLEAN]
    BY <1>1, <2>1 DEF Touched
  <2>6. plru_bits' \in [Set -> [Way -> BOOLEAN]]
    BY <1>1, <1>5, <2>5 DEF Lookup
  <2>7. QED
    BY <1>3, <1>5, <2>3, <2>4, <2>6 DEF Lookup, KeepArrays
<1>6. CASE SendLowerCacheReq
  <2>1. cache_out' = [Quiet EXCEPT !.lc_valid = TRUE, !.lc_block = hc.addr.block]
    BY <1>6 DEF SendLowerCacheReq
  <2>2. cache_out' \in CacheOut
    BY <2>1, Zeros DEF CacheOut, Quiet, Address
  <2>3. QED
    BY <1>6, <2>2 DEF SendLowerCacheReq, KeepArrays, KeepHit
<1>7. CASE RespondHc
  <2>1. cache_data[hit_way_reg][cur_set][hc.addr.word] \in Value
    BY <1>1 DEF Line, Address
  <2>2. cache_out' = [Quiet EXCEPT !.hc_valid = TRUE,
                                   !.hc_value = cache_data[hit_way_reg][cur_set][hc.addr.word]]
    BY <1>7 DEF RespondHc
  <2>3. cache_out' \in CacheOut
    BY <2>1, <2>2, Zeros DEF CacheOut, Quiet
  <2>4. QED
    BY <1>7, <2>3 DEF RespondHc, KeepArrays, KeepHit
<1>8. CASE WriteCache
  <2>1. cache_data' \in [Way -> [Set -> Line]]
    <3>1. CASE lc.valid
      BY <1>1, <1>8, <3>1 DEF WriteCache
    <3>2. CASE ~lc.valid
      <4> DEFINE line == [cache_data[hit_way_reg][cur_set] EXCEPT ![hc.addr.word] = hc.value]
      <4>1. line \in Line
        BY <1>1 DEF Line, Address
      <4>2. cache_data' = [cache_data EXCEPT ![hit_way_reg][cur_set] = line]
        BY <1>8, <3>2 DEF WriteCache
      <4>3. QED
        BY <1>1, <4>1, <4>2
    <3>3. QED
      BY <3>1, <3>2
  <2>2. [valid |-> TRUE, dirty |-> LeavesDirty, tag |-> cur_block] \in TagEntry
    BY <1>1 DEF LeavesDirty
  <2>3. tag_array' \in [Way -> [Set -> TagEntry]]
    BY <1>1, <1>8, <2>2 DEF WriteCache
  <2>4. QED
    BY <1>3, <1>8, <2>1, <2>3 DEF WriteCache, KeepHit
<1>9. CASE EvictBlock
  <2>1. cache_out' = [Quiet EXCEPT !.lc_valid = TRUE, !.we = TRUE]
    BY <1>9 DEF EvictBlock
  <2>2. cache_out' \in CacheOut
    BY <2>1, Zeros DEF CacheOut, Quiet
  <2>3. evict_data_reg' \in Line
    BY <1>1, <1>9 DEF EvictBlock
  <2>4. QED
    BY <1>9, <2>2, <2>3 DEF EvictBlock, KeepArrays, KeepHit
<1>10. QED
  BY <1>4, <1>5, <1>6, <1>7, <1>8, <1>9 DEF CacheEdge

-----------------------------------------------------------------------------
(* The L1D's own state machine.                                            *)

\* The countdown of a write starts again for each request.
WaitInv == l1d_state \in {"READ_CACHE", "WRITE_CACHE", "WAIT_CACHE"} => wait_reg # 0

\* The least of some MSHRs is one of them, and so for the slots of a ring.
LEMMA MinMshr ==
  ASSUME NEW S \in SUBSET Mshr, S # {}
  PROVE  Min(S) \in Mshr
<1>1. S \in SUBSET Nat
  BY L1dAssumption DEF Mshr
<1>2. QED
  BY <1>1, MinMember

\* The front slot of an MSHR is an entry; an enqueue and a dequeue give a ring.
LEMMA RingTypes ==
  ASSUME L1dTypeOK, NEW m \in Mshr
  PROVE  /\ Oldest(m) \in MshrEntry
         /\ \A s \in Queue!RingSlot : mshr[m].queue[s] \in MshrEntry
         /\ \A e \in MshrEntry :
              [mshr EXCEPT ![m] = Queue!Enqueued(@, e)] \in [Mshr -> Queue!Ring]
         /\ [mshr EXCEPT ![m] = Queue!Dequeued(@)] \in [Mshr -> Queue!Ring]
<1> DEFINE r == mshr[m]
<1>1. /\ r \in Queue!Ring /\ QUEUE_SIZE \in Nat \ {0} /\ mshr \in [Mshr -> Queue!Ring]
  BY L1dAssumption DEF L1dTypeOK
<1>2. /\ r.queue \in [Queue!RingSlot -> MshrEntry] /\ r.head \in Queue!RingSlot
      /\ r.size \in 0 .. QUEUE_SIZE
      /\ r = [queue |-> r.queue, head |-> r.head, size |-> r.size]
  BY <1>1 DEF Queue!Ring
<1>3. ASSUME NEW e \in MshrEntry
      PROVE  Queue!Enqueued(r, e) \in Queue!Ring
  <2>1. CASE Queue!full(r)
    BY <1>1, <2>1 DEF Queue!Enqueued
  <2>2. CASE ~Queue!full(r)
    <3>1. Queue!Enqueued(r, e) = [queue |-> [r.queue EXCEPT ![Queue!RingAt(r, r.size)] = e],
                                  head |-> r.head, size |-> r.size + 1]
      BY <1>2, <2>2 DEF Queue!Enqueued
    <3>2. [r.queue EXCEPT ![Queue!RingAt(r, r.size)] = e] \in [Queue!RingSlot -> MshrEntry]
      BY <1>2
    <3>3. r.size + 1 \in 0 .. QUEUE_SIZE
      BY <1>1, <1>2, <2>2 DEF Queue!full
    <3>4. QED
      BY <1>2, <3>1, <3>2, <3>3 DEF Queue!Ring
  <2>3. QED
    BY <2>1, <2>2
<1>4. Queue!Dequeued(r) \in Queue!Ring
  <2>1. CASE Queue!empty(r)
    BY <1>1, <2>1 DEF Queue!Dequeued
  <2>2. CASE ~Queue!empty(r)
    <3>1. Queue!Dequeued(r) = [queue |-> r.queue, head |-> Queue!RingAt(r, 1), size |-> r.size - 1]
      BY <1>2, <2>2 DEF Queue!Dequeued
    <3>2. r.size - 1 \in 0 .. QUEUE_SIZE /\ Queue!RingAt(r, 1) \in Queue!RingSlot
      BY <1>1, <1>2, <2>2 DEF Queue!empty, Queue!RingAt, Queue!RingSlot
    <3>3. QED
      BY <1>2, <3>1, <3>2 DEF Queue!Ring
  <2>3. QED
    BY <2>1, <2>2
<1>5. Oldest(m) \in MshrEntry
  BY <1>2 DEF Oldest, Queue!req_out
<1>6. QED
  BY <1>1, <1>2, <1>3, <1>4, <1>5

\* The registers that are set by default in most states.
LEMMA QuietTypes ==
  ASSUME L1dTypeOK
  PROVE  /\ LsuQuiet \in [valid : BOOLEAN, tag : Tag \cup {0}, value : Value, write_complete : BOOLEAN]
         /\ LcQuiet \in [valid : BOOLEAN, we : BOOLEAN, block : Block, line : Line]
         /\ CacheQuiet \in ToCache
<1>1. LsuQuiet \in [valid : BOOLEAN, tag : Tag \cup {0}, value : Value, write_complete : BOOLEAN]
  BY DEF L1dTypeOK, LsuQuiet
<1>2. LcQuiet \in [valid : BOOLEAN, we : BOOLEAN, block : Block, line : Line]
  BY DEF L1dTypeOK, LcQuiet
<1>3. CacheQuiet \in ToCache
  BY DEF L1dTypeOK, CacheQuiet, CacheTypeOK, ToCache, MshrEntry
<1>4. QED
  BY <1>1, <1>2, <1>3

\* One edge of the L1D keeps its types, whatever is presented to it.
LEMMA L1dStepTypeOK ==
  ASSUME L1dTypeOK, WaitInv,
         NEW lsu \in LsuRequest \cup {None}, NEW fill \in Fill \cup {None},
         NEW ready \in BOOLEAN, L1dEdge(lsu, fill, ready)
  PROVE  L1dTypeOK' /\ WaitInv'
<1> DEFINE LsuOut == [valid : BOOLEAN, tag : Tag \cup {0}, value : Value, write_complete : BOOLEAN]
           LcOut == [valid : BOOLEAN, we : BOOLEAN, block : Block, line : Line]
           LcIn == [valid : BOOLEAN, block : Block, line : Line]
           State == {"IDLE", "READ_CACHE", "WRITE_CACHE", "WAIT_CACHE", "CHECK_MSHR",
                     "SEND_REQ_LC", "SEND_RESP_HC", "CLEAR_MSHR", "EVICT", "COMPLETE_WRITE"}
<1>1. /\ to_cache \in ToCache /\ cache_out \in CacheOut /\ evict_data_reg \in Line
      /\ l1d_state \in State /\ lsu_in_reg \in MshrEntry /\ lc_in_reg \in LcIn
      /\ mshr \in [Mshr -> Queue!Ring] /\ wait_reg \in 0 .. 5 /\ lc_ready_in_reg \in BOOLEAN
      /\ lsu_ready_out \in BOOLEAN /\ lc_ready_out \in BOOLEAN
      /\ lsu_out \in LsuOut /\ lc_out \in LcOut
  BY DEF L1dTypeOK, CacheTypeOK, WriteWait
<1>2. LsuQuiet \in LsuOut /\ LcQuiet \in LcOut /\ CacheQuiet \in ToCache
  BY QuietTypes
<1> USE <1>1, <1>2
\* It is enough that the L1D's registers are right: the cache follows.
<1> SUFFICES /\ to_cache' \in ToCache
             /\ l1d_state' \in State /\ lsu_in_reg' \in MshrEntry /\ lc_in_reg' \in LcIn
             /\ mshr' \in [Mshr -> Queue!Ring] /\ wait_reg' \in 0 .. 5
             /\ lsu_ready_out' \in BOOLEAN /\ lc_ready_out' \in BOOLEAN
             /\ lsu_out' \in LsuOut /\ lc_out' \in LcOut
             /\ WaitInv'
  <2>1. CacheTypeOK /\ CacheEdge /\ lc_ready_in_reg' \in BOOLEAN
    BY DEF L1dTypeOK, L1dEdge
  <2>2. ASSUME to_cache' \in ToCache
        PROVE  CacheTypeOK'
    BY <2>1, <2>2, CacheStepTypeOK
  <2>3. QED
    BY <2>1, <2>2 DEF L1dTypeOK, WriteWait
<1>3. CASE L1dIdle(lsu, fill)
  <2>1. to_cache' = CacheQuiet /\ lc_out' = LcQuiet /\ mshr' = mshr /\ wait_reg' = 5
    BY <1>3 DEF L1dIdle, KeepMshr, WriteWait
  <2>2. l1d_state' \in State
    BY <1>3 DEF L1dIdle
  <2>3. lsu_in_reg' \in MshrEntry
    <3> DEFINE shown == IF lsu = None THEN lsu_in_reg
                        ELSE [valid |-> TRUE, tag |-> lsu.tag, store |-> lsu.store,
                              addr |-> lsu.addr, value |-> lsu.value]
    <3>1. shown \in MshrEntry
      BY DEF LsuRequest, MshrEntry
    <3>2. lsu_in_reg' = shown \/ lsu_in_reg' = lsu_in_reg
      BY <1>3 DEF L1dIdle
    <3>3. QED
      BY <3>1, <3>2
  <2>4. lc_in_reg' \in LcIn
    <3> DEFINE shown == IF fill = None THEN [lc_in_reg EXCEPT !.valid = FALSE]
                        ELSE [valid |-> TRUE, block |-> fill.block, line |-> fill.line]
    <3>1. shown \in LcIn
      BY DEF Fill
    <3>2. lc_in_reg' = shown \/ lc_in_reg' = lc_in_reg
      BY <1>3 DEF L1dIdle
    <3>3. QED
      BY <3>1, <3>2
  <2>5. lsu_out' \in LsuOut
    BY <1>3 DEF L1dIdle, LsuRequest
  <2>6. lsu_ready_out' \in BOOLEAN /\ lc_ready_out' \in BOOLEAN
    BY <1>3 DEF L1dIdle, CanAccept
  <2>7. QED
    BY <2>1, <2>2, <2>3, <2>4, <2>5, <2>6 DEF WaitInv
<1>4. CASE ReadCache
  <2>1. to_cache' = [CacheQuiet EXCEPT !.hc_addr = lsu_in_reg.addr,
                                       !.hc_valid = ~cache_out.hc_ready]
    BY <1>4 DEF ReadCache
  <2>2. to_cache' \in ToCache
    BY <2>1 DEF ToCache, MshrEntry
  <2>3. QED
    BY <1>4, <2>2 DEF ReadCache, NoAccept, KeepFill, KeepMshr, KeepWait, WaitInv
<1>5. CASE L1dWriteCache
  <2>1. to_cache' \in ToCache
    <3>1. CASE lc_in_reg.valid
      BY <1>5, <3>1 DEF L1dWriteCache
    <3>2. CASE ~lc_in_reg.valid
      <4>1. to_cache' = [CacheQuiet EXCEPT !.hc_addr = lsu_in_reg.addr, !.hc_valid = TRUE,
                                           !.hc_we = cache_out.hc_ready \/ cache_out.lc_ready]
        BY <1>5, <3>2 DEF L1dWriteCache
      <4>2. QED
        BY <4>1 DEF ToCache, MshrEntry
    <3>3. QED
      BY <3>1, <3>2
  <2>2. lc_in_reg' \in LcIn
    BY <1>5 DEF L1dWriteCache, KeepFill
  <2>3. QED
    BY <1>5, <2>1, <2>2 DEF L1dWriteCache, NoAccept, KeepMshr, KeepWait, WaitInv
<1>6. CASE WaitCache
  <2>1. CASE CacheMisses
    <3>1. to_cache' \in ToCache
      BY <2>1 DEF CacheMisses, ToCache
    <3>2. lc_out' \in LcOut
      BY <2>1 DEF CacheMisses, CacheOut
    <3>3. QED
      BY <1>6, <2>1, <3>1, <3>2 DEF WaitCache, CacheMisses, NoAccept, KeepFill, KeepMshr, KeepWait,
         WaitInv
  <2>2. CASE CacheHits
    <3>1. to_cache' \in ToCache
      BY <2>2 DEF CacheHits, ToCache
    <3>2. lsu_out' \in LsuOut
      BY <2>2 DEF CacheHits, CacheOut
    <3>3. QED
      BY <1>6, <2>2, <3>1, <3>2 DEF WaitCache, CacheHits, NoAccept, KeepFill, KeepMshr, KeepWait,
         WaitInv
  <2>3. CASE CacheSilent
    <3>1. wait_reg' \in 0 .. 5 /\ WaitInv'
      BY <1>6, <2>3 DEF WaitCache, CacheSilent, WaitInv
    <3>2. QED
      BY <1>6, <2>3, <3>1 DEF WaitCache, CacheSilent, NoAccept, KeepFill, KeepMshr
  <2>4. QED
    BY <1>6, <2>1, <2>2, <2>3 DEF WaitCache
<1>7. CASE CheckMshr
  <2>1. /\ to_cache' \in ToCache /\ lc_out' \in LcOut
        /\ lsu_in_reg' = lsu_in_reg /\ lc_in_reg' = lc_in_reg /\ wait_reg' = wait_reg
        /\ lsu_ready_out' = FALSE /\ lc_ready_out' = FALSE
    BY <1>7 DEF CheckMshr, NoAccept, KeepFill, KeepWait, ToCache
  <2>2. mshr' \in [Mshr -> Queue!Ring] /\ lsu_out' \in LsuOut
        /\ l1d_state' \in {"CHECK_MSHR", "SEND_REQ_LC", "IDLE", "SEND_RESP_HC"}
    <3>1. CASE PrimaryMiss
      <4>1. FreeMshrs # {} => Min(FreeMshrs) \in Mshr
        BY MinMshr DEF FreeMshrs
      <4>2. QED
        BY <1>7, <3>1, <4>1, RingTypes DEF CheckMshr, PrimaryMiss, KeepMshr
    <3>2. CASE SecondaryMiss
      <4> DEFINE m == Min(Tracking)
      <4>1. m \in Mshr
        <5>1. Tracking # {} /\ Tracking \in SUBSET Mshr
          BY <3>2 DEF SecondaryMiss, Tracking
        <5>2. QED
          BY <5>1, MinMshr
      <4>2. Forwarders(m) # {} => mshr[m].queue[Min(Forwarders(m))].value \in Value
        <5>1. Forwarders(m) \subseteq Queue!RingSlot /\ Queue!RingSlot \subseteq Nat
          BY L1dAssumption DEF Forwarders, Queue!RingSlot
        <5>2. Forwarders(m) # {} => Min(Forwarders(m)) \in Queue!RingSlot
          BY <5>1, MinMember
        <5>3. QED
          BY <4>1, <5>2, RingTypes DEF MshrEntry
      <4>3. lsu_out' \in LsuOut
        BY <3>2, <4>2 DEF SecondaryMiss
      <4>4. mshr' \in [Mshr -> Queue!Ring]
        BY <3>2, <4>1, RingTypes DEF SecondaryMiss, KeepMshr
      <4>5. QED
        BY <3>2, <4>3, <4>4 DEF SecondaryMiss
    <3>3. QED
      BY <1>7, <3>1, <3>2 DEF CheckMshr
  <2>3. QED
    BY <2>1, <2>2 DEF WaitInv
<1>8. CASE ClearMshr
  <2>1. /\ lc_out' \in LcOut /\ lsu_in_reg' = lsu_in_reg /\ wait_reg' = wait_reg
        /\ lsu_ready_out' = FALSE /\ lc_ready_out' = FALSE
    BY <1>8 DEF ClearMshr, NoAccept, KeepWait
  <2>2. CASE Playback
    <3> DEFINE m == Min(Filled)
               e == Oldest(m)
    <3>1. m \in Mshr
      <4>1. Filled # {} /\ Filled \in SUBSET Mshr
        BY <2>2 DEF Playback, Replays, Filled
      <4>2. QED
        BY <4>1, MinMshr
    <3>2. e \in MshrEntry /\ mshr' \in [Mshr -> Queue!Ring]
      BY <2>2, <3>1, RingTypes DEF Playback
    <3>3. e.addr.word \in Word /\ e.value \in Value /\ e.tag \in Tag \cup {0} /\ e.store \in BOOLEAN
      BY <3>2 DEF MshrEntry, Address
    <3>4. lc_in_reg.line[e.addr.word] \in Value /\ lsu_out.value \in Value
      BY <3>3 DEF Line
    <3>5. lsu_out' \in LsuOut
      BY <2>2, <3>3, <3>4 DEF Playback
    <3>6. lc_in_reg' \in LcIn
      <4>1. [lc_in_reg.line EXCEPT ![e.addr.word] = e.value] \in Line
        BY <3>3 DEF Line
      <4>2. QED
        BY <2>2, <4>1 DEF Playback
    <3>7. QED
      BY <1>8, <2>1, <2>2, <3>2, <3>5, <3>6 DEF Playback, ClearMshr, WaitInv
  <2>3. CASE Install
    <3>1. to_cache' \in ToCache
      BY <2>3 DEF Install, ToCache
    <3>2. QED
      BY <2>1, <2>3, <3>1 DEF Install, KeepMshr, KeepFill, WaitInv
  <2>4. QED
    BY <1>8, <2>2, <2>3 DEF ClearMshr
<1>9. CASE CompleteWrite
  BY <1>9 DEF CompleteWrite, NoAccept, KeepFill, KeepMshr, KeepWait, WaitInv
<1>10. CASE Evict
  BY <1>10 DEF Evict, NoAccept, KeepFill, KeepMshr, KeepWait, WaitInv
<1>11. CASE SendReqLc
  <2>1. to_cache' \in ToCache
    BY <1>11 DEF SendReqLc, ToCache
  <2>2. lc_out' \in LcOut
    BY <1>11 DEF SendReqLc, CacheOut
  <2>3. QED
    BY <1>11, <2>1, <2>2 DEF SendReqLc, NoAccept, KeepFill, KeepMshr, KeepWait, WaitInv
<1>12. CASE SendRespHc
  <2>1. to_cache' \in ToCache
    BY <1>12 DEF SendRespHc, ToCache
  <2>2. lsu_out' \in LsuOut
    BY <1>12 DEF SendRespHc, CacheOut
  <2>3. QED
    BY <1>12, <2>1, <2>2 DEF SendRespHc, NoAccept, KeepFill, KeepMshr, KeepWait, WaitInv
<1>13. QED
  BY <1>3, <1>4, <1>5, <1>6, <1>7, <1>8, <1>9, <1>10, <1>11, <1>12 DEF L1dEdge

-----------------------------------------------------------------------------
(* The L1D between memory_interface and the LLC.                           *)

TypeInv == TypeOK /\ WaitInv

LEMMA InitTypeInv == Init => TypeInv
<1> SUFFICES ASSUME Init PROVE TypeInv
  OBVIOUS
<1> USE Zeros, CacheAssumption, L1dAssumption, SystemAssumption
<1>1. CacheTypeOK
  <2>1. to_cache \in ToCache
    BY DEF Init, L1dInit, CacheInit, ToCache
  <2>2. /\ hc \in [valid : BOOLEAN, ready : BOOLEAN, addr : Address, value : Value, we : BOOLEAN]
        /\ lc \in [valid : BOOLEAN, ready : BOOLEAN, block : Block, line : Line]
    BY DEF Init, L1dInit, CacheInit
  <2>3. /\ hit_reg \in BOOLEAN /\ hit_way_reg \in Way /\ evict_data_reg \in Line
        /\ plru_bits \in [Set -> [Way -> BOOLEAN]] /\ cache_data \in [Way -> [Set -> Line]]
    <3>1. hit_reg = FALSE /\ hit_way_reg \in Way /\ evict_data_reg = ZeroLine
      BY DEF Init, L1dInit, CacheInit, Way
    <3>2. cache_data \in [Way -> [Set -> Line]]
      BY DEF Init, L1dInit, CacheInit
    <3>3. plru_bits \in [Set -> [Way -> BOOLEAN]]
      BY DEF Init, L1dInit, CacheInit
    <3>4. QED
      BY <3>1, <3>2, <3>3
  <2>4. tag_array \in [Way -> [Set -> [valid : BOOLEAN, dirty : BOOLEAN, tag : Block]]]
    BY DEF Init, L1dInit, CacheInit
  <2>5. cache_out \in CacheOut
    BY DEF Init, L1dInit, CacheInit, Quiet, CacheOut
  <2>6. cache_state = "IDLE"
    BY DEF Init, L1dInit, CacheInit
  <2>7. QED
    BY <2>1, <2>2, <2>3, <2>4, <2>5, <2>6 DEF CacheTypeOK
<1>2. L1dTypeOK /\ WaitInv
  <2>1. mshr \in [Mshr -> Queue!Ring]
    <3>1. Queue!EmptyRing \in Queue!Ring
      BY DEF Queue!EmptyRing, Queue!Ring, Queue!RingSlot
    <3>2. QED
      BY <3>1 DEF Init, L1dInit
  <2>2. /\ l1d_state = "IDLE" /\ lsu_in_reg \in MshrEntry /\ wait_reg = 0
        /\ lc_ready_in_reg = FALSE /\ lsu_ready_out = FALSE /\ lc_ready_out = FALSE
    BY DEF Init, L1dInit
  <2>3. /\ lc_in_reg \in [valid : BOOLEAN, block : Block, line : Line]
        /\ lsu_out \in [valid : BOOLEAN, tag : Tag \cup {0}, value : Value, write_complete : BOOLEAN]
        /\ lc_out \in [valid : BOOLEAN, we : BOOLEAN, block : Block, line : Line]
    BY DEF Init, L1dInit
  <2>4. WaitInv
    BY <2>2 DEF WaitInv
  <2>5. wait_reg \in 0 .. WriteWait
    BY <2>2 DEF WriteWait
  <2>6. QED
    BY <1>1, <2>1, <2>2, <2>3, <2>4, <2>5 DEF L1dTypeOK
<1>3. Mif!MifTypeOK
  BY DEF Init, Mif!MifInit, Mif!MifTypeOK
<1>4. program = << >> /\ Len(program) <= MaxOps /\ taken = << >> /\ owed = << >>
  BY DEF Init
<1>5. /\ answered \in [Tag -> 0 .. 2] /\ llc_memory \in [Block -> Line]
      /\ llc_fill \in Fill \cup {None} /\ phantom \in BOOLEAN
  BY DEF Init
<1>6. QED
  BY <1>2, <1>3, <1>4, <1>5 DEF TypeOK, TypeInv

\* One edge of memory_interface keeps its types.
LEMMA MifStepTypeOK ==
  ASSUME Mif!MifTypeOK,
         NEW candidate \in LsuRequest \cup {None}, NEW ready \in BOOLEAN,
         NEW response \in Response \cup {None},
         Mif!MifEdge(candidate, ready, response)
  PROVE  Mif!MifTypeOK'
<1> USE DEF Mif!MifTypeOK, Mif!MifEdge
<1>1. reg_dispatch' \in LsuRequest \cup {None} /\ mem_completion' \in Response \cup {None}
  BY DEF Mif!DispatchRegister, Mif!Loads
<1>2. CASE Mif!Idle(reg_dispatch)
  BY <1>1, <1>2 DEF Mif!Idle
<1>3. CASE Mif!Dispatch(ready)
  BY <1>1, <1>3 DEF Mif!Dispatch
<1>4. CASE Mif!WaitResp(ready)
  BY <1>1, <1>4 DEF Mif!WaitResp
<1>5. QED
  BY <1>2, <1>3, <1>4

\* The LLC's lines and what it owes keep their types.
LEMMA LlcStepTypeOK ==
  ASSUME TypeOK, LlcTakes
  PROVE  llc_memory' \in [Block -> Line] /\ owed' \in Seq(Fill) /\ llc_fill' \in Fill \cup {None}
<1> DEFINE asked == IF lc_out.valid /\ ~lc_out.we
                    THEN << [block |-> lc_out.block, line |-> llc_memory[lc_out.block]] >>
                    ELSE << >>
<1>1. /\ lc_out.block \in Block /\ lc_out.line \in Line /\ llc_memory \in [Block -> Line]
      /\ owed \in Seq(Fill) /\ llc_fill \in Fill \cup {None}
  BY DEF TypeOK, L1dTypeOK
<1>2. llc_memory' \in [Block -> Line]
  BY <1>1 DEF LlcTakes
<1>3. asked \in Seq(Fill)
  <2>1. [block |-> lc_out.block, line |-> llc_memory[lc_out.block]] \in Fill
    BY <1>1 DEF Fill
  <2>2. QED
    BY <2>1
<1> HIDE DEF asked
<1>4. CASE owed' = owed \o asked /\ llc_fill' = IF lc_ready_out THEN None ELSE llc_fill
  BY <1>1, <1>2, <1>3, <1>4, ConcatProperties
<1>5. CASE owed # << >> /\ owed' = Tail(owed) \o asked /\ llc_fill' = Head(owed)
  <2>1. Tail(owed) \in Seq(Fill) /\ Head(owed) \in Fill
    BY <1>1, <1>5, HeadTailProperties
  <2>2. QED
    BY <1>2, <1>3, <1>5, <2>1, ConcatProperties
<1>6. QED
  BY <1>4, <1>5 DEF LlcTakes, asked

\* A clock edge with a well-typed candidate keeps all types but program's.
LEMMA EdgeTypeInv ==
  ASSUME TypeInv, NEW candidate \in LsuRequest \cup {None}, ClockEdge(candidate),
         program' \in Seq([store : BOOLEAN, addr : Address]), Len(program') <= MaxOps
  PROVE  TypeInv'
<1>1. Presented \in LsuRequest \cup {None} /\ llc_fill \in Fill \cup {None}
  BY DEF TypeInv, TypeOK, Mif!MifTypeOK, Presented
<1>2. L1dTypeOK' /\ WaitInv'
  BY <1>1, L1dStepTypeOK DEF ClockEdge, TypeInv, TypeOK
<1>3. Mif!MifTypeOK'
  <2>1. Answered \in Response \cup {None}
    BY DEF TypeInv, TypeOK, L1dTypeOK, Answered, Response
  <2>2. lsu_ready_out \in BOOLEAN
    BY DEF TypeInv, TypeOK, L1dTypeOK
  <2>3. QED
    BY <2>1, <2>2, MifStepTypeOK DEF ClockEdge, TypeInv, TypeOK
<1>4. llc_memory' \in [Block -> Line] /\ owed' \in Seq(Fill) /\ llc_fill' \in Fill \cup {None}
  BY LlcStepTypeOK DEF ClockEdge, TypeInv
<1>5. taken' \in Seq(Tag)
  <2>1. CASE Accepts(Presented, llc_fill)
    <3>1. l1d_req_out \in LsuRequest
      BY <1>1, <2>1 DEF Accepts, Presented
    <3>2. taken' = Append(taken, l1d_req_out.tag) /\ taken \in Seq(Tag) /\ l1d_req_out.tag \in Tag
      BY <2>1, <3>1 DEF ClockEdge, History, TypeInv, TypeOK, LsuRequest
    <3>3. QED
      BY <3>2, AppendProperties
  <2>2. CASE ~Accepts(Presented, llc_fill)
    BY <2>2 DEF ClockEdge, History, TypeInv, TypeOK
  <2>3. QED
    BY <2>1, <2>2
<1>6. answered' \in [Tag -> 0 .. 2]
  <2>1. ASSUME NEW t \in Tag
        PROVE  (IF lsu_out.valid /\ lsu_out.tag = t /\ answered[t] < 2
                THEN answered[t] + 1 ELSE answered[t]) \in 0 .. 2
    BY DEF TypeInv, TypeOK
  <2>2. QED
    BY <2>1 DEF ClockEdge, History
<1>7. phantom' \in BOOLEAN
  BY DEF ClockEdge, History, TypeInv, TypeOK
<1>8. QED
  BY <1>2, <1>3, <1>4, <1>5, <1>6, <1>7 DEF TypeInv, TypeOK

\* The request the queue dispatches next is well typed.
LEMMA StepTypeInv == TypeInv /\ [Next]_vars => TypeInv'
<1> SUFFICES ASSUME TypeInv, [Next]_vars PROVE TypeInv'
  OBVIOUS
<1>1. program \in Seq([store : BOOLEAN, addr : Address]) /\ Len(program) <= MaxOps
  BY DEF TypeInv, TypeOK
<1>2. CASE NoDispatch
  BY <1>1, <1>2, EdgeTypeInv DEF NoDispatch
<1>3. CASE NewDispatch
  <2>1. PICK store \in BOOLEAN, addr \in [block : UsedBlock, word : Word] :
          LET t == Len(program) + 1
              r == [tag |-> t, store |-> store, addr |-> addr, value |-> IF store THEN t ELSE 0]
          IN  /\ t <= MaxOps
              /\ program' = Append(program, [store |-> store, addr |-> addr])
              /\ ClockEdge(r)
    BY <1>3 DEF NewDispatch
  <2> DEFINE t == Len(program) + 1
             r == [tag |-> t, store |-> store, addr |-> addr, value |-> IF store THEN t ELSE 0]
  <2>2. Len(program) \in Nat /\ t \in Tag /\ t \in Value
    BY <1>1, <2>1, SystemAssumption, LenProperties
  <2>3. addr \in Address
    BY SystemAssumption DEF Address
  <2>4. r \in LsuRequest
    BY <2>2, <2>3, Zeros DEF LsuRequest
  <2>5. /\ program' \in Seq([store : BOOLEAN, addr : Address])
        /\ Len(program') = t
    BY <1>1, <2>1, <2>3, AppendProperties
  <2>6. QED
    BY <2>1, <2>4, <2>5, EdgeTypeInv
<1>4. CASE UNCHANGED vars
  BY <1>4 DEF vars, l1dVars, cacheVars, Mif!mifVars, envVars, TypeInv, TypeOK, WaitInv,
     L1dTypeOK, CacheTypeOK, Mif!MifTypeOK
<1>5. QED
  BY <1>2, <1>3, <1>4 DEF Next

\* Every register of the L1D, the cache, the MSHRs and memory_interface always
\* holds a value of its type, for every size and every LLC timing; the write
\* countdown never runs below zero.
THEOREM TypeCorrect == Spec => []TypeOK
<1>1. TypeInv => TypeOK
  BY DEF TypeInv
<1>2. QED
  BY InitTypeInv, StepTypeInv, <1>1, PTL DEF Spec

-----------------------------------------------------------------------------
(* Nothing is written back.                                                *)

\* No line is ever written back, although EVICT_BLOCK and EVICT exist for it.
NothingWrittenBack ==
    /\ cache_state # "EVICT_BLOCK" /\ l1d_state # "EVICT"
    /\ ~(lc_out.valid /\ lc_out.we)

\* As long as there was no hit no line is dirty, so that no miss finds a dirty
\* victim; a word is written on a hit only.
WriteBackInv ==
    /\ ~hit_reg => \A w \in Way, s \in Set : ~tag_array[w][s].dirty
    /\ cache_state = "WRITE_CACHE" => hit_reg \/ lc.valid
    /\ ~cache_out.we
    /\ NothingWrittenBack

LEMMA InitWriteBack == Init => WriteBackInv
  BY DEF Init, L1dInit, CacheInit, WriteBackInv, NothingWrittenBack, Quiet

\* The cache's half: EVICT_BLOCK is not entered.
LEMMA CacheWriteBack ==
  ASSUME CacheTypeOK, WriteBackInv, CacheEdge
  PROVE  /\ ~hit_reg' => \A w \in Way, s \in Set : ~tag_array'[w][s].dirty
         /\ cache_state' = "WRITE_CACHE" => hit_reg' \/ lc'.valid
         /\ ~cache_out'.we
         /\ cache_state' # "EVICT_BLOCK"
<1> USE DEF WriteBackInv, NothingWrittenBack
<1>1. cur_set \in Set
  BY SetOfSet DEF CacheTypeOK, cur_set, cur_block, Address
<1>2. CASE CacheIdle
  BY <1>2 DEF CacheIdle, Latch, KeepArrays, KeepHit, Quiet
<1>3. CASE Lookup
  <2> DEFINE victim == Victim(plru_bits[cur_set])
             dirty == tag_array[victim][cur_set].valid /\ tag_array[victim][cur_set].dirty
             writes == hc.we \/ lc.valid
             next == IF cur_hit
                     THEN IF writes THEN "WRITE_CACHE" ELSE "RESPOND_HC"
                     ELSE IF writes /\ dirty THEN "EVICT_BLOCK"
                     ELSE IF lc.valid THEN "WRITE_CACHE" ELSE "SEND_LOWER_CACHE_REQ"
  <2>1. victim \in Way
    BY DEF Victim, Way
  <2>2. ~cur_hit => ~dirty
    BY <1>1, <2>1 DEF cur_hit
  <2>3. Latch(next) /\ hit_reg' = cur_hit /\ tag_array' = tag_array /\ ~cache_out'.we
    BY <1>3 DEF Lookup, KeepArrays, Quiet
  <2>4. cache_state' = next /\ next # "IDLE" /\ next # "EVICT_BLOCK"
    BY <2>2, <2>3 DEF Latch
  <2>5. lc'.valid = lc.valid
    BY <1>3, <2>3, <2>4 DEF Lookup, Latch, CacheTypeOK
  <2>6. cache_state' = "WRITE_CACHE" => cur_hit \/ lc.valid
    BY <2>4
  <2>7. ~cur_hit => ~hit_reg
    BY DEF cur_hit
  <2>8. QED
    BY <2>3, <2>4, <2>5, <2>6, <2>7
<1>4. CASE SendLowerCacheReq
  BY <1>4 DEF SendLowerCacheReq, Latch, KeepArrays, KeepHit, Quiet
<1>5. CASE RespondHc
  BY <1>5 DEF RespondHc, Latch, KeepArrays, KeepHit, Quiet
<1>6. CASE WriteCache
  <2>1. /\ hit_reg' = hit_reg /\ cache_state' = "IDLE" /\ ~cache_out'.we
        /\ tag_array' = [tag_array EXCEPT ![hit_way_reg][cur_set] =
                           [valid |-> TRUE, dirty |-> LeavesDirty, tag |-> cur_block]]
    BY <1>6 DEF WriteCache, Latch, KeepHit, Quiet
  <2>2. ~hit_reg => ~LeavesDirty
    BY <1>6 DEF WriteCache, LeavesDirty
  <2>3. ASSUME ~hit_reg, NEW w \in Way, NEW s \in Set
        PROVE  ~tag_array'[w][s].dirty
    BY <1>1, <2>1, <2>2, <2>3 DEF CacheTypeOK
  <2>4. QED
    BY <2>1, <2>3
<1>7. CASE EvictBlock
  BY <1>7 DEF EvictBlock
<1>8. QED
  BY <1>2, <1>3, <1>4, <1>5, <1>6, <1>7 DEF CacheEdge

\* The L1D's half: EVICT is entered on a writeback of the cache only.
LEMMA L1dWriteBack ==
  ASSUME WriteBackInv, NEW lsu, NEW fill, NEW ready, L1dEdge(lsu, fill, ready)
  PROVE  l1d_state' # "EVICT" /\ ~(lc_out'.valid /\ lc_out'.we)
<1> USE DEF WriteBackInv, NothingWrittenBack, LcQuiet
<1>1. CASE L1dIdle(lsu, fill)
  BY <1>1 DEF L1dIdle
<1>2. CASE ReadCache
  BY <1>2 DEF ReadCache
<1>3. CASE L1dWriteCache
  BY <1>3 DEF L1dWriteCache
<1>4. CASE WaitCache
  <2>1. CASE CacheMisses
    <3>1. l1d_state' = "CHECK_MSHR" /\ lc_out' = LcQuiet
      BY <2>1 DEF CacheMisses
    <3>2. QED
      BY <3>1
  <2>2. CASE CacheHits
    BY <2>2 DEF CacheHits
  <2>3. CASE CacheSilent
    BY <1>4, <2>3 DEF WaitCache, CacheSilent
  <2>4. QED
    BY <1>4, <2>1, <2>2, <2>3 DEF WaitCache
<1>5. CASE CheckMshr
  BY <1>5 DEF CheckMshr, PrimaryMiss, SecondaryMiss
<1>6. CASE ClearMshr
  BY <1>6 DEF ClearMshr, Playback, Install
<1>7. CASE CompleteWrite
  BY <1>7 DEF CompleteWrite
<1>8. CASE SendReqLc
  BY <1>8 DEF SendReqLc
<1>9. CASE SendRespHc
  BY <1>9 DEF SendRespHc
<1>10. CASE Evict
  BY <1>10 DEF Evict
<1>11. QED
  BY <1>1, <1>2, <1>3, <1>4, <1>5, <1>6, <1>7, <1>8, <1>9, <1>10 DEF L1dEdge

LEMMA StepWriteBack ==
  ASSUME TypeInv, WriteBackInv, NEW lsu, NEW fill, NEW ready, L1dEdge(lsu, fill, ready)
  PROVE  WriteBackInv'
<1>1. CacheTypeOK /\ CacheEdge
  BY DEF TypeInv, TypeOK, L1dTypeOK, L1dEdge
<1>2. QED
  BY <1>1, CacheWriteBack, L1dWriteBack DEF WriteBackInv, NothingWrittenBack

\* The L1D never writes a line back to the LLC: with hit_reg never cleared, its
\* two eviction states are dead code for every size and every workload.
THEOREM NeverWritesBack == Spec => []NothingWrittenBack
<1>1. TypeInv /\ WriteBackInv /\ [Next]_vars => WriteBackInv'
  <2>1. ASSUME TypeInv, WriteBackInv, NEW candidate, ClockEdge(candidate)
        PROVE  WriteBackInv'
    BY <2>1, StepWriteBack DEF ClockEdge
  <2>2. ASSUME WriteBackInv, UNCHANGED vars
        PROVE  WriteBackInv'
    BY <2>2 DEF vars, l1dVars, cacheVars, WriteBackInv, NothingWrittenBack
  <2>3. QED
    BY <2>1, <2>2 DEF Next, NoDispatch, NewDispatch
<1>2. WriteBackInv => NothingWrittenBack
  BY DEF WriteBackInv
<1>3. QED
  BY InitTypeInv, StepTypeInv, InitWriteBack, <1>1, <1>2, PTL DEF Spec

-----------------------------------------------------------------------------
(* The steps of the system, with what the queue dispatches.                *)

\* A request is the one the program has for its tag.
Known(r) ==
    /\ r.tag \in 1 .. Len(program)
    /\ program[r.tag] = [store |-> r.store, addr |-> r.addr]

Offers(candidate) ==
    \/ candidate = None /\ program' = program
    \/ /\ candidate \in LsuRequest /\ candidate.tag = Len(program) + 1
       /\ candidate.value = IF candidate.store THEN candidate.tag ELSE 0
       /\ program' = Append(program, [store |-> candidate.store, addr |-> candidate.addr])
       /\ Mif!Loads(candidate)

Steps(candidate) == ClockEdge(candidate) /\ Offers(candidate)

LEMMA NextSteps ==
  ASSUME TypeInv, Next
  PROVE  \E candidate \in LsuRequest \cup {None} : Steps(candidate)
<1>1. CASE NoDispatch
  BY <1>1 DEF NoDispatch, Steps, Offers
<1>2. CASE NewDispatch
  <2>1. PICK store \in BOOLEAN, addr \in [block : UsedBlock, word : Word] :
          LET t == Len(program) + 1
              r == [tag |-> t, store |-> store, addr |-> addr, value |-> IF store THEN t ELSE 0]
          IN  /\ t <= MaxOps
              /\ Mif!Loads(r)
              /\ program' = Append(program, [store |-> store, addr |-> addr])
              /\ ClockEdge(r)
    BY <1>2 DEF NewDispatch
  <2> DEFINE t == Len(program) + 1
             r == [tag |-> t, store |-> store, addr |-> addr, value |-> IF store THEN t ELSE 0]
  <2>2. t \in Tag /\ t \in Value
    <3>1. Len(program) \in Nat
      BY LenProperties DEF TypeInv, TypeOK
    <3>2. QED
      BY <2>1, <3>1, SystemAssumption
  <2>3. addr \in Address
    BY SystemAssumption DEF Address
  <2>4. r \in LsuRequest
    BY <2>2, <2>3, Zeros DEF LsuRequest
  <2>5. Steps(r)
    BY <2>1, <2>4 DEF Steps, Offers
  <2>6. QED
    BY <2>4, <2>5
<1>3. QED
  BY <1>1, <1>2 DEF Next

\* What the program says of a request stays; a dispatched one is known.
LEMMA ProgramGrows ==
  ASSUME TypeInv, NEW candidate \in LsuRequest \cup {None}, Offers(candidate)
  PROVE  /\ Len(program) \in Nat /\ Len(program) <= Len(program')
         /\ Len(program') \in Nat
         /\ \A t \in 1 .. Len(program) : program'[t] = program[t]
         /\ candidate # None => candidate.tag = Len(program) + 1 /\ Known(candidate)'
<1>1. program \in Seq([store : BOOLEAN, addr : Address]) /\ Len(program) \in Nat
  BY LenProperties DEF TypeInv, TypeOK
<1>2. CASE candidate = None /\ program' = program
  BY <1>1, <1>2
<1>3. CASE /\ candidate \in LsuRequest /\ candidate.tag = Len(program) + 1
           /\ program' = Append(program, [store |-> candidate.store, addr |-> candidate.addr])
  <2> DEFINE p == [store |-> candidate.store, addr |-> candidate.addr]
  <2>1. p \in [store : BOOLEAN, addr : Address]
    BY <1>3 DEF LsuRequest
  <2>2. /\ Len(Append(program, p)) = Len(program) + 1
        /\ \A i \in 1 .. Len(program) : Append(program, p)[i] = program[i]
        /\ Append(program, p)[Len(program) + 1] = p
    BY <1>1, <2>1, AppendProperties
  <2>3. Known(candidate)'
    BY <1>1, <1>3, <2>2 DEF Known
  <2>4. QED
    BY <1>1, <1>3, <2>2, <2>3
<1>4. QED
  BY <1>2, <1>3 DEF Offers

\* The requests the L1D has accepted.
Taken == ToSet(taken)

LEMMA TakenGrows ==
  ASSUME TypeInv, NEW candidate, ClockEdge(candidate)
  PROVE  /\ Accepts(Presented, llc_fill) =>
              /\ taken' = Append(taken, l1d_req_out.tag) /\ Taken' = Taken \cup {l1d_req_out.tag}
              /\ l1d_valid_out /\ l1d_req_out \in LsuRequest /\ Presented = l1d_req_out
         /\ ~Accepts(Presented, llc_fill) => taken' = taken /\ Taken' = Taken
<1>1. taken \in Seq(Tag) /\ l1d_req_out \in LsuRequest \cup {None}
  BY DEF TypeInv, TypeOK, Mif!MifTypeOK
<1>2. CASE Accepts(Presented, llc_fill)
  <2>1. l1d_valid_out /\ l1d_req_out \in LsuRequest /\ Presented = l1d_req_out
    BY <1>1, <1>2 DEF Accepts, Presented
  <2>2. taken' = Append(taken, l1d_req_out.tag) /\ l1d_req_out.tag \in Tag
    BY <1>2, <2>1 DEF ClockEdge, History, LsuRequest
  <2>3. /\ Len(taken) \in Nat /\ Len(taken') = Len(taken) + 1
        /\ \A i \in 1 .. Len(taken) : taken'[i] = taken[i]
        /\ taken'[Len(taken) + 1] = l1d_req_out.tag /\ taken' \in Seq(Tag)
    BY <1>1, <2>2, AppendProperties, LenProperties
  <2>4. Taken = {taken[i] : i \in 1 .. Len(taken)} /\ Taken' = {taken'[i] : i \in 1 .. Len(taken')}
    BY <1>1, <2>3, LenProperties DEF Taken, ToSet
  <2>5. Taken' = Taken \cup {l1d_req_out.tag}
    BY <2>3, <2>4
  <2>6. QED
    BY <1>2, <2>1, <2>2, <2>5
<1>3. CASE ~Accepts(Presented, llc_fill)
  BY <1>3 DEF ClockEdge, History, Taken
<1>4. QED
  BY <1>2, <1>3

-----------------------------------------------------------------------------
(* A request is accepted once.  memory_interface drives a request on until *)
(* it has seen ready fall; by then the L1D has left IDLE and not returned. *)

PortInv ==
    /\ reg_dispatch # None => Known(reg_dispatch)
    /\ curr_state # "S_IDLE" => lat # None /\ Known(lat)
    /\ l1d_valid_out => curr_state # "S_IDLE" /\ l1d_req_out = lat /\ ~dispatch_ready_out
    /\ curr_state = "S_WAIT_RESP" => l1d_valid_out
    /\ reg_dispatch # None /\ ~(curr_state = "S_DISPATCH" /\ dispatch_ready_out)
         => reg_dispatch.tag \notin Taken
    /\ reg_dispatch # None /\ curr_state # "S_IDLE"
         => IF curr_state = "S_DISPATCH" /\ dispatch_ready_out THEN reg_dispatch = lat
            ELSE reg_dispatch.tag # lat.tag
    /\ curr_state = "S_DISPATCH" /\ ~l1d_valid_out => lat.tag \notin Taken
    /\ l1d_valid_out /\ lat.tag \in Taken =>
         \/ l1d_state \in {"READ_CACHE", "WRITE_CACHE"} /\ lsu_ready_out
         \/ l1d_state # "IDLE" /\ ~lsu_ready_out /\ curr_state = "S_WAIT_RESP"
    /\ TakenOnce
    /\ Taken \subseteq 1 .. Len(program)

\* Leaving IDLE is all the L1D does with ready high.
LEMMA ReadyFalls ==
  ASSUME NEW lsu, NEW fill, NEW ready, L1dEdge(lsu, fill, ready)
  PROVE  /\ l1d_state # "IDLE" => lsu_ready_out' = FALSE
         /\ l1d_state \in {"READ_CACHE", "WRITE_CACHE"} => l1d_state' # "IDLE"
         /\ Accepts(lsu, fill) =>
              l1d_state' \in {"READ_CACHE", "WRITE_CACHE"} /\ lsu_ready_out' = TRUE
<1> USE DEF NoAccept
<1>1. CASE L1dIdle(lsu, fill)
  BY <1>1 DEF L1dIdle, Accepts
<1>2. CASE ReadCache
  BY <1>2 DEF ReadCache, Accepts
<1>3. CASE L1dWriteCache
  BY <1>3 DEF L1dWriteCache, Accepts
<1>4. CASE WaitCache \/ CheckMshr \/ ClearMshr \/ CompleteWrite \/ Evict \/ SendReqLc \/ SendRespHc
  BY <1>4 DEF WaitCache, CheckMshr, ClearMshr, CompleteWrite, Evict, SendReqLc, SendRespHc, Accepts
<1>5. QED
  BY <1>1, <1>2, <1>3, <1>4 DEF L1dEdge

LEMMA StepPortInv ==
  ASSUME TypeInv, PortInv, NEW candidate \in LsuRequest \cup {None}, Steps(candidate)
  PROVE  PortInv'
<1>1. ClockEdge(candidate) /\ Offers(candidate)
  BY DEF Steps
<1>2. /\ reg_dispatch \in LsuRequest \cup {None} /\ lat \in LsuRequest \cup {None}
      /\ curr_state \in {"S_IDLE", "S_DISPATCH", "S_WAIT_RESP"} /\ None \notin LsuRequest
      /\ taken \in Seq(Tag) /\ dispatch_ready_out \in BOOLEAN /\ l1d_valid_out \in BOOLEAN
      /\ lsu_ready_out \in BOOLEAN
  BY L1dAssumption DEF TypeInv, TypeOK, L1dTypeOK, Mif!MifTypeOK
<1>3. /\ Mif!DispatchRegister(candidate)
      /\ Mif!Idle(reg_dispatch) \/ Mif!Dispatch(lsu_ready_out) \/ Mif!WaitResp(lsu_ready_out)
  BY <1>1 DEF ClockEdge, Mif!MifEdge
<1>4. /\ l1d_state # "IDLE" => lsu_ready_out' = FALSE
      /\ l1d_state \in {"READ_CACHE", "WRITE_CACHE"} => l1d_state' # "IDLE"
      /\ Accepts(Presented, llc_fill) =>
           l1d_state' \in {"READ_CACHE", "WRITE_CACHE"} /\ lsu_ready_out' = TRUE
  BY <1>1, ReadyFalls DEF ClockEdge
<1>5. /\ Accepts(Presented, llc_fill) =>
           /\ taken' = Append(taken, lat.tag) /\ Taken' = Taken \cup {lat.tag}
           /\ l1d_valid_out /\ lat.tag \notin Taken /\ l1d_state = "IDLE"
      /\ ~Accepts(Presented, llc_fill) => taken' = taken /\ Taken' = Taken
  <2>1. Accepts(Presented, llc_fill) => l1d_state = "IDLE"
    BY DEF Accepts
  <2>2. Accepts(Presented, llc_fill) => l1d_req_out = lat /\ lat.tag \notin Taken
    BY <1>1, <2>1, TakenGrows DEF PortInv
  <2>3. QED
    BY <1>1, <2>1, <2>2, TakenGrows
<1>6. /\ Len(program) \in Nat /\ Len(program') \in Nat /\ Len(program) <= Len(program')
      /\ \A r : Known(r) => Known(r)'
      /\ candidate # None => candidate.tag = Len(program) + 1 /\ Known(candidate)'
  <2>1. /\ Len(program) \in Nat /\ Len(program') \in Nat /\ Len(program) <= Len(program')
        /\ \A t \in 1 .. Len(program) : program'[t] = program[t]
        /\ candidate # None => candidate.tag = Len(program) + 1 /\ Known(candidate)'
    BY <1>1, ProgramGrows
  <2>2. ASSUME NEW r, Known(r)
        PROVE  Known(r)'
    <3>1. r.tag \in 1 .. Len(program) /\ program[r.tag] = [store |-> r.store, addr |-> r.addr]
      BY <2>2 DEF Known
    <3>2. r.tag \in 1 .. Len(program') /\ program'[r.tag] = program[r.tag]
      BY <2>1, <3>1
    <3>3. QED
      BY <3>1, <3>2 DEF Known
  <2>3. QED
    BY <2>1, <2>2
<1>7. TakenOnce'
  <2>1. CASE ~Accepts(Presented, llc_fill)
    BY <1>5, <2>1 DEF PortInv, TakenOnce, IsInjective
  <2>2. CASE Accepts(Presented, llc_fill)
    <3>1. taken' = Append(taken, lat.tag) /\ lat.tag \notin Taken
      BY <1>5, <2>2
    <3>2. lat.tag \in Tag
      BY <1>1, <1>2, <2>2, TakenGrows DEF PortInv, LsuRequest
    <3>3. /\ Len(taken) \in Nat /\ Len(taken') = Len(taken) + 1
          /\ \A i \in 1 .. Len(taken) : taken'[i] = taken[i] /\ taken[i] \in Taken
          /\ taken'[Len(taken) + 1] = lat.tag /\ taken' \in Seq(Tag)
      BY <1>2, <3>1, <3>2, AppendProperties, LenProperties DEF Taken, ToSet
    <3>4. DOMAIN taken = 1 .. Len(taken) /\ DOMAIN taken' = 1 .. Len(taken) + 1
      BY <1>2, <3>3, LenProperties
    <3>5. \A i, j \in 1 .. Len(taken) : taken[i] = taken[j] => i = j
      BY <3>4 DEF PortInv, TakenOnce, IsInjective
    <3>6. \A i, j \in 1 .. Len(taken) + 1 : taken'[i] = taken'[j] => i = j
      BY <3>1, <3>3, <3>5
    <3>7. QED
      BY <3>4, <3>6 DEF TakenOnce, IsInjective
  <2>3. QED
    BY <2>1, <2>2
<1>8. (Taken \subseteq 1 .. Len(program))'
  <2>1. Accepts(Presented, llc_fill) => lat.tag \in 1 .. Len(program)
    BY <1>2, <1>5 DEF PortInv, Known
  <2>2. Taken \subseteq 1 .. Len(program)
    BY DEF PortInv
  <2>3. ASSUME NEW t \in Taken'
        PROVE  t \in 1 .. Len(program')
    <3>1. t \in 1 .. Len(program)
      <4>1. t \in Taken \/ (t = lat.tag /\ Accepts(Presented, llc_fill))
        BY <1>5, <2>3
      <4>2. QED
        BY <2>1, <2>2, <4>1
    <3>2. QED
      BY <1>6, <3>1
  <2>4. QED
    BY <2>3
<1>9. candidate # None => candidate.tag \notin Taken' /\ (curr_state # "S_IDLE" => candidate.tag # lat.tag)
  BY <1>5, <1>6 DEF PortInv, Known
<1>10. PortInv!1 /\ PortInv!2 /\ PortInv!3 /\ PortInv!4 /\ PortInv!5 /\ PortInv!6 /\ PortInv!7 /\ PortInv!8
  BY DEF PortInv
<1> HIDE DEF PortInv
<1>11. CASE Mif!Idle(reg_dispatch)
  <2>1. /\ curr_state = "S_IDLE" /\ l1d_valid_out' = FALSE /\ dispatch_ready_out' = TRUE
        /\ IF reg_dispatch # None
           THEN lat' = reg_dispatch /\ curr_state' = "S_DISPATCH"
           ELSE lat' = lat /\ curr_state' = curr_state
        /\ reg_dispatch' = IF Mif!Loads(candidate) THEN candidate
                           ELSE IF dispatch_ready_out THEN None ELSE reg_dispatch
    BY <1>3, <1>11 DEF Mif!Idle, Mif!DispatchRegister
  <2>2. ~Accepts(Presented, llc_fill)
    BY <1>5, <1>10, <2>1
  <2>3. Mif!Loads(candidate) => reg_dispatch = None /\ candidate # None
    BY DEF Mif!Loads
  <2>4. QED
    BY <1>2, <1>5, <1>6, <1>7, <1>8, <1>9, <1>10, <2>1, <2>2, <2>3 DEF PortInv
<1>12. CASE Mif!Dispatch(lsu_ready_out)
  <2>1. /\ curr_state = "S_DISPATCH" /\ l1d_valid_out' = TRUE /\ dispatch_ready_out' = FALSE
        /\ l1d_req_out' = lat /\ lat' = lat
        /\ curr_state' = IF lsu_ready_out THEN "S_WAIT_RESP" ELSE curr_state
        /\ reg_dispatch' = IF Mif!Loads(candidate) THEN candidate
                           ELSE IF dispatch_ready_out THEN None ELSE reg_dispatch
    BY <1>3, <1>12 DEF Mif!Dispatch, Mif!DispatchRegister
  <2>2. Mif!Loads(candidate) => reg_dispatch = None /\ candidate # None
    BY DEF Mif!Loads
  <2>3. PortInv!8'
    BY <1>2, <1>4, <1>5, <1>10, <2>1
  <2>4. PortInv!5' /\ PortInv!6'
    BY <1>2, <1>5, <1>9, <1>10, <2>1, <2>2
  <2>5. PortInv!1' /\ PortInv!2' /\ PortInv!3' /\ PortInv!4' /\ PortInv!7'
    BY <1>2, <1>6, <1>10, <2>1, <2>2
  <2>6. QED
    BY <1>7, <1>8, <2>3, <2>4, <2>5 DEF PortInv
<1>13. CASE Mif!WaitResp(lsu_ready_out)
  <2>1. /\ curr_state = "S_WAIT_RESP" /\ dispatch_ready_out' = FALSE
        /\ IF lsu_ready_out
           THEN curr_state' = curr_state /\ l1d_valid_out' = l1d_valid_out
           ELSE curr_state' = "S_IDLE" /\ l1d_valid_out' = FALSE
        /\ l1d_req_out' = l1d_req_out /\ lat' = lat
        /\ reg_dispatch' = IF Mif!Loads(candidate) THEN candidate
                           ELSE IF dispatch_ready_out THEN None ELSE reg_dispatch
    BY <1>3, <1>13 DEF Mif!WaitResp, Mif!DispatchRegister
  <2>2. Mif!Loads(candidate) => reg_dispatch = None /\ candidate # None
    BY DEF Mif!Loads
  <2>3. PortInv!8'
    BY <1>2, <1>4, <1>5, <1>10, <2>1
  <2>4. PortInv!5' /\ PortInv!6'
    BY <1>2, <1>5, <1>9, <1>10, <2>1, <2>2
  <2>5. PortInv!1' /\ PortInv!2' /\ PortInv!3' /\ PortInv!4' /\ PortInv!7'
    BY <1>2, <1>6, <1>10, <2>1, <2>2
  <2>6. QED
    BY <1>7, <1>8, <2>3, <2>4, <2>5 DEF PortInv
<1>14. QED
  BY <1>3, <1>11, <1>12, <1>13

-----------------------------------------------------------------------------
(* The L1D and the cache in step.  The L1D never asks whether the cache is *)
(* still busy: that it finds a cache that listens, and reads an answer     *)
(* that is to its own request, rests on how many edges each takes.         *)

Resting == cache_state = "IDLE" /\ ~hc.valid /\ ~lc.valid

\* The cache takes in a fill, or works on a request.
Filling(states) == lc.valid /\ ~hc.valid /\ cache_state \in states
Works(states) == hc.valid /\ ~lc.valid /\ cache_state \in states

\* It has been told that its answer was taken.
Leaving ==
    /\ ~lc.valid
    /\ \/ cache_state = "SEND_LOWER_CACHE_REQ" /\ lc.ready
       \/ cache_state = "RESPOND_HC" /\ hc.ready

LEMMA CacheSamples ==
  ASSUME CacheTypeOK, CacheEdge
  PROVE  /\ hc'.ready <=> to_cache.hc_ready
         /\ lc'.ready <=> to_cache.lc_ready
         /\ cache_out'.hc_ready \/ cache_out'.lc_ready
         /\ cache_out'.hc_ready => Works({"IDLE"})
<1>1. /\ hc \in [valid : BOOLEAN, ready : BOOLEAN, addr : Address, value : Value, we : BOOLEAN]
      /\ lc \in [valid : BOOLEAN, ready : BOOLEAN, block : Block, line : Line]
  BY DEF CacheTypeOK
<1>2. ASSUME NEW next, Latch(next)
      PROVE  (hc'.ready <=> to_cache.hc_ready) /\ (lc'.ready <=> to_cache.lc_ready)
  BY <1>1, <1>2 DEF Latch
<1>3. CASE CacheIdle
  BY <1>2, <1>3 DEF CacheIdle, Quiet, Works
<1>4. CASE Lookup
  BY <1>2, <1>4 DEF Lookup, Quiet
<1>5. CASE SendLowerCacheReq
  BY <1>2, <1>5 DEF SendLowerCacheReq, Quiet
<1>6. CASE RespondHc
  BY <1>2, <1>6 DEF RespondHc, Quiet
<1>7. CASE WriteCache
  BY <1>2, <1>7 DEF WriteCache, Quiet
<1>8. CASE EvictBlock
  BY <1>2, <1>8 DEF EvictBlock, Quiet
<1>9. QED
  BY <1>3, <1>4, <1>5, <1>6, <1>7, <1>8 DEF CacheEdge

\* Nothing is answered by a cache that is not asked.
Silent == ~cache_out.hc_valid /\ ~cache_out.lc_valid

LEMMA CacheIdles ==
  ASSUME CacheTypeOK, CacheEdge, cache_state = "IDLE"
  PROVE  /\ Resting /\ ~to_cache.hc_valid /\ ~to_cache.lc_valid => Resting'
         /\ Resting /\ to_cache.hc_valid /\ ~to_cache.lc_valid =>
              /\ Works({"IDLE"})'
              /\ hc'.addr = to_cache.hc_addr /\ (hc'.we <=> to_cache.hc_we)
         /\ Resting /\ ~to_cache.hc_valid /\ to_cache.lc_valid => Filling({"IDLE"})'
         /\ Filling({"IDLE"}) /\ ~to_cache.hc_valid /\ ~to_cache.lc_valid => Filling({"LOOKUP"})'
         /\ Works({"IDLE"}) /\ to_cache.hc_valid /\ ~to_cache.lc_valid =>
              /\ Works({"LOOKUP"})' /\ cache_out'.hc_ready
              /\ hc'.addr = to_cache.hc_addr /\ (hc'.we <=> to_cache.hc_we)
         /\ Silent'
<1>1. /\ hc \in [valid : BOOLEAN, ready : BOOLEAN, addr : Address, value : Value, we : BOOLEAN]
      /\ lc \in [valid : BOOLEAN, ready : BOOLEAN, block : Block, line : Line]
      /\ to_cache \in ToCache
  BY DEF CacheTypeOK
<1>2. CacheIdle
  BY DEF CacheEdge, Lookup, SendLowerCacheReq, RespondHc, WriteCache, EvictBlock
<1> DEFINE next == IF lc.valid \/ hc.valid THEN "LOOKUP" ELSE "IDLE"
<1>3. /\ Latch(next)
      /\ cache_out' = [Quiet EXCEPT !.lc_ready = lc.valid \/ ~hc.valid,
                                    !.hc_ready = hc.valid /\ ~lc.valid]
  BY <1>2 DEF CacheIdle
<1>4. cache_state' = next
  BY <1>3 DEF Latch
<1>5. CASE to_cache.hc_valid \/ to_cache.lc_valid
  <2>1. /\ hc' = [valid |-> to_cache.hc_valid, ready |-> to_cache.hc_ready,
                  addr |-> to_cache.hc_addr, value |-> to_cache.hc_value, we |-> to_cache.hc_we]
        /\ lc' = [valid |-> to_cache.lc_valid, ready |-> to_cache.lc_ready,
                  block |-> to_cache.lc_block, line |-> to_cache.lc_line]
    BY <1>3, <1>5 DEF Latch
  <2>2. QED
    BY <1>1, <1>3, <1>4, <1>5, <2>1 DEF Resting, Works, Filling, Silent, Quiet
<1>6. CASE ~to_cache.hc_valid /\ ~to_cache.lc_valid
  <2>1. /\ hc' = [hc EXCEPT !.ready = to_cache.hc_ready, !.valid = @]
        /\ lc' = [lc EXCEPT !.ready = to_cache.lc_ready, !.valid = @]
    BY <1>1, <1>3, <1>6 DEF Latch
  <2>2. (hc'.valid <=> hc.valid) /\ (lc'.valid <=> lc.valid)
    BY <1>1, <2>1
  <2>3. QED
    BY <1>3, <1>4, <1>6, <2>2 DEF Resting, Works, Filling, Silent, Quiet
<1>7. QED
  BY <1>5, <1>6

LEMMA CacheWorks ==
  ASSUME CacheTypeOK, WriteBackInv, CacheEdge, cache_state # "IDLE"
  PROVE  /\ Filling({"LOOKUP"}) => Filling({"WRITE_CACHE"})'
         /\ Works({"LOOKUP"}) =>
              /\ Works(IF hc.we THEN {"WRITE_CACHE", "SEND_LOWER_CACHE_REQ"}
                       ELSE {"RESPOND_HC", "SEND_LOWER_CACHE_REQ"})'
              /\ Silent'
         /\ cache_state = "WRITE_CACHE" => Resting' /\ Silent'
         /\ cache_state = "SEND_LOWER_CACHE_REQ" =>
              /\ cache_out'.lc_valid /\ cache_out'.lc_block = hc.addr.block
              /\ Works({"SEND_LOWER_CACHE_REQ"}) /\ ~lc.ready => Works({"SEND_LOWER_CACHE_REQ"})'
              /\ ~lc.ready => cache_state' = cache_state
              /\ lc.ready => Resting'
         /\ cache_state = "RESPOND_HC" =>
              /\ cache_out'.hc_valid /\ ~cache_out'.lc_valid
              /\ Works({"RESPOND_HC"}) /\ ~hc.ready => Works({"RESPOND_HC"})'
              /\ ~hc.ready => cache_state' = cache_state
              /\ hc.ready => Resting'
         /\ hc'.addr = hc.addr /\ (hc'.we <=> hc.we)
         /\ ~lc.valid => ~lc'.valid
<1>1. /\ hc \in [valid : BOOLEAN, ready : BOOLEAN, addr : Address, value : Value, we : BOOLEAN]
      /\ lc \in [valid : BOOLEAN, ready : BOOLEAN, block : Block, line : Line]
  BY DEF CacheTypeOK
<1>2. cache_state' # "EVICT_BLOCK"
  BY CacheWriteBack
<1>3. ASSUME NEW next, Latch(next)
      PROVE  /\ cache_state' = next
             /\ hc'.valid <=> hc.valid /\ next # "IDLE"
             /\ lc'.valid <=> lc.valid /\ next # "IDLE"
             /\ hc'.addr = hc.addr /\ (hc'.we <=> hc.we)
  BY <1>1, <1>3 DEF Latch
<1>4. CASE cache_state = "LOOKUP"
  <2>1. Lookup
    BY <1>4 DEF CacheEdge, CacheIdle, SendLowerCacheReq, RespondHc, WriteCache, EvictBlock
  <2> DEFINE victim == Victim(plru_bits[cur_set])
             dirty == tag_array[victim][cur_set].valid /\ tag_array[victim][cur_set].dirty
             writes == hc.we \/ lc.valid
             next == IF cur_hit
                     THEN IF writes THEN "WRITE_CACHE" ELSE "RESPOND_HC"
                     ELSE IF writes /\ dirty THEN "EVICT_BLOCK"
                     ELSE IF lc.valid THEN "WRITE_CACHE" ELSE "SEND_LOWER_CACHE_REQ"
  <2>2. Latch(next) /\ cache_out' = Quiet
    BY <2>1 DEF Lookup
  <2>3. /\ cache_state' = next /\ next # "IDLE"
        /\ hc'.valid <=> hc.valid
        /\ lc'.valid <=> lc.valid
        /\ hc'.addr = hc.addr /\ (hc'.we <=> hc.we)
    <3>1. next # "IDLE"
      OBVIOUS
    <3> HIDE DEF next
    <3>2. QED
      BY <1>3, <2>2, <3>1
  <2>4. /\ lc.valid => cache_state' = "WRITE_CACHE"
        /\ ~lc.valid => cache_state' \in IF hc.we THEN {"WRITE_CACHE", "SEND_LOWER_CACHE_REQ"}
                                         ELSE {"RESPOND_HC", "SEND_LOWER_CACHE_REQ"}
    BY <1>2, <2>3
  <2>5. ~cache_out'.hc_valid /\ ~cache_out'.lc_valid
    BY <2>2 DEF Quiet
  <2> HIDE DEF next
  <2>6. QED
    BY <1>4, <2>3, <2>4, <2>5 DEF Filling, Works, Silent
<1>5. CASE cache_state = "WRITE_CACHE"
  <2>1. WriteCache
    BY <1>5 DEF CacheEdge, CacheIdle, SendLowerCacheReq, RespondHc, Lookup, EvictBlock
  <2>2. Latch("IDLE") /\ cache_out' = Quiet
    BY <2>1 DEF WriteCache
  <2>3. QED
    BY <1>3, <1>5, <2>2 DEF Filling, Works, Silent, Resting, Quiet
<1>6. CASE cache_state = "SEND_LOWER_CACHE_REQ"
  <2>1. SendLowerCacheReq
    BY <1>6 DEF CacheEdge, CacheIdle, WriteCache, RespondHc, Lookup, EvictBlock
  <2>2. /\ Latch(IF lc.ready THEN "IDLE" ELSE cache_state)
        /\ cache_out' = [Quiet EXCEPT !.lc_valid = TRUE, !.lc_block = hc.addr.block]
    BY <2>1 DEF SendLowerCacheReq
  <2>3. cache_out'.lc_valid /\ cache_out'.lc_block = hc.addr.block
    BY <2>2 DEF Quiet
  <2>4. QED
    BY <1>3, <1>6, <2>2, <2>3 DEF Filling, Works, Silent, Resting
<1>7. CASE cache_state = "RESPOND_HC"
  <2>1. RespondHc
    BY <1>7 DEF CacheEdge, CacheIdle, WriteCache, SendLowerCacheReq, Lookup, EvictBlock
  <2>2. /\ Latch(IF hc.ready THEN "IDLE" ELSE cache_state)
        /\ cache_out' = [Quiet EXCEPT !.hc_valid = TRUE,
                                      !.hc_value = cache_data[hit_way_reg][cur_set][hc.addr.word]]
    BY <2>1 DEF RespondHc
  <2>3. cache_out'.hc_valid /\ ~cache_out'.lc_valid
    BY <2>2 DEF Quiet
  <2>4. QED
    BY <1>3, <1>7, <2>2, <2>3 DEF Filling, Works, Silent, Resting
<1>8. QED
  <2>1. cache_state # "EVICT_BLOCK"
    BY DEF WriteBackInv, NothingWrittenBack
  <2>2. QED
    BY <1>4, <1>5, <1>6, <1>7, <2>1 DEF CacheTypeOK

\* The fill the L1D has latched is the one the LLC drives until it is told so.
FillInv ==
    /\ lc_in_reg.valid => /\ l1d_state \in {"IDLE", "WRITE_CACHE"}
                          /\ llc_fill # None /\ llc_fill.block = lc_in_reg.block
    /\ lc_ready_out <=> l1d_state = "WRITE_CACHE" /\ lc_in_reg.valid

LEMMA StepFillInv ==
  ASSUME TypeInv, WriteBackInv, FillInv, L1dEdge(Presented, llc_fill, TRUE), LlcTakes
  PROVE  /\ FillInv'
         /\ l1d_state = "IDLE" /\ lc_in_reg.valid =>
              l1d_state' = "WRITE_CACHE" /\ lc_in_reg'.valid
<1>1. /\ lc_in_reg \in [valid : BOOLEAN, block : Block, line : Line]
      /\ llc_fill \in Fill \cup {None} /\ None \notin Fill
      /\ lc_ready_out \in BOOLEAN
  BY L1dAssumption DEF TypeInv, TypeOK, L1dTypeOK
<1>2. llc_fill # None /\ ~lc_ready_out => llc_fill' = llc_fill
  BY DEF LlcTakes
<1>3. CASE L1dIdle(Presented, llc_fill)
  <2>1. l1d_state = "IDLE" /\ ~lc_ready_out /\ (lc_ready_out' <=> lc_in_reg.valid)
    BY <1>1, <1>3 DEF L1dIdle, FillInv
  <2>2. lc_in_reg.valid => l1d_state' = "WRITE_CACHE" /\ llc_fill # None
    BY <1>3 DEF L1dIdle, FillInv
  <2>3. CASE llc_fill # None
    <3>1. /\ lc_in_reg' = [valid |-> TRUE, block |-> llc_fill.block, line |-> llc_fill.line]
          /\ llc_fill' = llc_fill
      BY <1>2, <1>3, <2>1, <2>3 DEF L1dIdle
    <3>2. ~lc_in_reg.valid => l1d_state' = "IDLE"
      BY <1>3, <2>3 DEF L1dIdle, Accepts, CanAccept
    <3>3. QED
      BY <2>1, <2>2, <2>3, <3>1, <3>2 DEF FillInv
  <2>4. CASE llc_fill = None
    <3>1. ~lc_in_reg.valid
      BY <2>4 DEF FillInv
    <3>2. lc_in_reg' = lc_in_reg \/ lc_in_reg' = [lc_in_reg EXCEPT !.valid = FALSE]
      BY <1>3, <2>4 DEF L1dIdle
    <3>3. ~lc_in_reg'.valid
      BY <1>1, <3>1, <3>2
    <3>4. QED
      BY <2>1, <3>1, <3>3 DEF FillInv
  <2>5. QED
    BY <2>3, <2>4
<1>4. CASE L1dWriteCache
  <2>1. l1d_state = "WRITE_CACHE" /\ lc_ready_out' = FALSE
    BY <1>4 DEF L1dWriteCache, NoAccept
  <2>2. ~lc_in_reg'.valid
    BY <1>1, <1>4 DEF L1dWriteCache, KeepFill
  <2>3. QED
    BY <2>1, <2>2 DEF FillInv
<1>5. CASE ReadCache \/ WaitCache \/ CheckMshr \/ CompleteWrite \/ SendReqLc \/ SendRespHc
  <2>1. /\ l1d_state \notin {"IDLE", "WRITE_CACHE"} /\ lc_ready_out' = FALSE
        /\ lc_in_reg' = lc_in_reg
    BY <1>5 DEF ReadCache, WaitCache, CheckMshr, CompleteWrite, SendReqLc, SendRespHc,
       NoAccept, KeepFill
  <2>2. QED
    BY <2>1 DEF FillInv
<1>6. CASE ClearMshr
  <2>1. l1d_state = "CLEAR_MSHR" /\ lc_ready_out' = FALSE /\ ~lc_in_reg.valid
    BY <1>6 DEF ClearMshr, NoAccept, FillInv
  <2>2. ~lc_in_reg'.valid
    <3>1. CASE Playback
      <4> DEFINE e == Oldest(Min(Filled))
      <4>1. lc_in_reg' = lc_in_reg \/
              \E w, v : lc_in_reg' = [lc_in_reg EXCEPT !.line[w] = v]
        BY <3>1 DEF Playback
      <4>2. QED
        BY <1>1, <2>1, <4>1
    <3>2. CASE Install
      BY <2>1, <3>2 DEF Install, KeepFill
    <3>3. QED
      BY <1>6, <3>1, <3>2 DEF ClearMshr
  <2>3. QED
    BY <2>1, <2>2 DEF FillInv
<1>7. QED
  BY <1>3, <1>4, <1>5, <1>6 DEF L1dEdge, Evict, WriteBackInv, NothingWrittenBack

\* The request the cache works on, or is shown, is the one the L1D has latched.
Own == hc.addr = lsu_in_reg.addr /\ (hc.we <=> lsu_in_reg.store)
Shown == to_cache.hc_addr = lsu_in_reg.addr /\ (to_cache.hc_we <=> lsu_in_reg.store)

\* READ_CACHE, and WRITE_CACHE for a store: until the cache has the request.
Starting ==
    /\ wait_reg = WriteWait
    /\ to_cache.hc_valid => Shown /\ ~hc.ready
    /\ IF cache_out.hc_ready
       THEN to_cache.hc_valid /\ Works({"LOOKUP"}) /\ Own
       ELSE \/ Resting \/ Filling({"IDLE", "LOOKUP", "WRITE_CACHE"})
            \/ to_cache.hc_valid /\ Works({"IDLE"}) /\ Own

\* WAIT_CACHE: the lookup is over; an answer comes within two edges or, to a
\* store that has hit, never.
Waiting ==
    /\ ~hc.ready
    /\ \/ /\ wait_reg = WriteWait /\ Silent /\ Own
          /\ Works(IF lsu_in_reg.store THEN {"WRITE_CACHE", "SEND_LOWER_CACHE_REQ"}
                   ELSE {"RESPOND_HC", "SEND_LOWER_CACHE_REQ"})
       \/ /\ cache_out.lc_valid /\ Works({"SEND_LOWER_CACHE_REQ"}) /\ Own
       \/ /\ ~lsu_in_reg.store /\ ~cache_out.lc_valid /\ cache_out.hc_valid
          /\ Works({"RESPOND_HC"})
       \/ /\ lsu_in_reg.store /\ Silent /\ Resting /\ ~to_cache.hc_valid

\* Inputs are driven in certain states only, and sampled one edge later.
InputsInv ==
    /\ to_cache.lc_valid => l1d_state = "IDLE" /\ ~lc_in_reg.valid /\ Resting
    /\ to_cache.lc_ready => l1d_state = "CHECK_MSHR"
    /\ lc.ready => l1d_state \in {"SEND_REQ_LC", "SEND_RESP_HC", "IDLE"}
    /\ to_cache.hc_ready => l1d_state \in {"SEND_RESP_HC", "IDLE"}
    /\ hc.ready => l1d_state \in {"SEND_RESP_HC", "IDLE", "READ_CACHE", "WRITE_CACHE"}
    /\ l1d_state # "IDLE" => lc_ready_in_reg /\ (cache_out.hc_ready \/ cache_out.lc_ready)
    /\ Filling({"IDLE"}) => ~to_cache.hc_valid

\* What the cache is doing in each state of the L1D.
PhaseInv ==
    /\ l1d_state = "IDLE" =>
         /\ ~to_cache.hc_valid
         /\ Resting \/ Leaving \/ Filling({"IDLE", "LOOKUP", "WRITE_CACHE"})
    /\ l1d_state = "READ_CACHE" => ~lsu_in_reg.store /\ Starting
    /\ l1d_state = "WRITE_CACHE" =>
         IF lc_in_reg.valid
         THEN ~to_cache.hc_valid /\ (Resting \/ Filling({"LOOKUP", "WRITE_CACHE"}))
         ELSE lsu_in_reg.store /\ Starting
    /\ l1d_state = "WAIT_CACHE" => Waiting
    /\ l1d_state = "CHECK_MSHR" =>
         Works({"SEND_LOWER_CACHE_REQ"}) /\ Own /\ to_cache.lc_ready
    /\ l1d_state = "SEND_REQ_LC" =>
         /\ cache_state = "SEND_LOWER_CACHE_REQ" /\ ~lc.valid /\ lc.ready
         /\ cache_out.lc_block = lsu_in_reg.addr.block
    /\ l1d_state = "SEND_RESP_HC" =>
         /\ ~lsu_in_reg.store /\ ~lc.valid
         /\ \/ cache_state = "RESPOND_HC" /\ to_cache.hc_ready
            \/ cache_state = "SEND_LOWER_CACHE_REQ" /\ lc.ready
    /\ l1d_state = "COMPLETE_WRITE" => lsu_in_reg.store /\ Resting /\ ~to_cache.hc_valid
    /\ l1d_state = "CLEAR_MSHR" => ~to_cache.hc_valid /\ (Resting \/ Filling({"WRITE_CACHE"}))

\* An MSHR stays free for a request that was accepted.
FreeInv ==
    /\ l1d_state \in {"READ_CACHE", "WAIT_CACHE", "CHECK_MSHR"} => FreeMshrs # {}
    /\ l1d_state = "WRITE_CACHE" /\ ~lc_in_reg.valid => FreeMshrs # {}

LockInv == InputsInv /\ PhaseInv /\ FreeInv

LEMMA StepFreeInv ==
  ASSUME TypeInv, WriteBackInv, FillInv, FreeInv, L1dEdge(Presented, llc_fill, TRUE), LlcTakes
  PROVE  FreeInv'
<1>1. CASE L1dIdle(Presented, llc_fill)
  <2>1. mshr' = mshr /\ l1d_state = "IDLE"
    BY <1>1 DEF L1dIdle, KeepMshr
  <2>2. FreeMshrs' = FreeMshrs
    BY <2>1 DEF FreeMshrs, Oldest
  <2>3. \/ Accepts(Presented, llc_fill)
        \/ l1d_state' = "IDLE"
        \/ l1d_state' = "WRITE_CACHE" /\ lc_in_reg'.valid
    BY <1>1, StepFillInv DEF L1dIdle
  <2>4. Accepts(Presented, llc_fill) => FreeMshrs # {}
    BY DEF Accepts, CanAccept
  <2>5. QED
    BY <2>2, <2>3, <2>4 DEF FreeInv
<1>2. CASE ReadCache \/ WaitCache
  <2>1. mshr' = mshr /\ l1d_state \in {"READ_CACHE", "WAIT_CACHE"}
    BY <1>2 DEF ReadCache, WaitCache, KeepMshr
  <2>2. FreeMshrs' = FreeMshrs
    BY <2>1 DEF FreeMshrs, Oldest
  <2>3. QED
    BY <2>1, <2>2 DEF FreeInv
<1>3. CASE L1dWriteCache
  <2>1. /\ mshr' = mshr /\ l1d_state = "WRITE_CACHE"
        /\ lc_in_reg.valid => l1d_state' = "CLEAR_MSHR"
    BY <1>3 DEF L1dWriteCache, KeepMshr
  <2>2. FreeMshrs' = FreeMshrs
    BY <2>1 DEF FreeMshrs, Oldest
  <2>3. QED
    BY <2>1, <2>2 DEF FreeInv
<1>4. CASE CheckMshr
  <2>1. l1d_state = "CHECK_MSHR" /\ FreeMshrs # {}
    BY <1>4 DEF CheckMshr, FreeInv
  <2>2. l1d_state' \in {"SEND_REQ_LC", "SEND_RESP_HC", "IDLE"}
    BY <1>4, <2>1 DEF CheckMshr, PrimaryMiss, SecondaryMiss
  <2>3. QED
    BY <2>2 DEF FreeInv
<1>5. CASE ClearMshr \/ CompleteWrite \/ SendReqLc \/ SendRespHc
  <2>1. l1d_state' \in {"IDLE", "CLEAR_MSHR", "SEND_REQ_LC"}
    BY <1>5 DEF ClearMshr, Playback, Install, CompleteWrite, SendReqLc, SendRespHc
  <2>2. QED
    BY <2>1 DEF FreeInv
<1>6. QED
  BY <1>1, <1>2, <1>3, <1>4, <1>5 DEF L1dEdge, Evict, WriteBackInv, NothingWrittenBack

\* What the L1D drives to the cache, by its state.
LEMMA InputsDriven ==
  ASSUME TypeInv, NEW lsu, NEW fill, NEW ready, L1dEdge(lsu, fill, ready)
  PROVE  /\ to_cache'.hc_valid => l1d_state \in {"READ_CACHE", "WRITE_CACHE"}
         /\ to_cache'.lc_valid => l1d_state = "CLEAR_MSHR" /\ Install
         /\ to_cache'.lc_ready => l1d_state = "WAIT_CACHE" /\ CacheMisses
         /\ to_cache'.hc_ready => \/ l1d_state = "WAIT_CACHE" /\ CacheHits
                                  \/ l1d_state = "SEND_RESP_HC" /\ SendRespHc
<1> DEFINE Goal == /\ to_cache'.hc_valid => l1d_state \in {"READ_CACHE", "WRITE_CACHE"}
                   /\ to_cache'.lc_valid => l1d_state = "CLEAR_MSHR" /\ Install
                   /\ to_cache'.lc_ready => l1d_state = "WAIT_CACHE" /\ CacheMisses
                   /\ to_cache'.hc_ready => \/ l1d_state = "WAIT_CACHE" /\ CacheHits
                                            \/ l1d_state = "SEND_RESP_HC" /\ SendRespHc
<1> SUFFICES Goal
  OBVIOUS
<1>1. ASSUME to_cache' = CacheQuiet PROVE Goal
  BY <1>1 DEF CacheQuiet
<1>2. CASE L1dIdle(lsu, fill) \/ CompleteWrite \/ Evict
  BY <1>1, <1>2 DEF L1dIdle, CompleteWrite, Evict
<1>3. CASE ReadCache
  BY <1>3 DEF ReadCache, CacheQuiet
<1>4. CASE L1dWriteCache
  <2>1. l1d_state = "WRITE_CACHE" /\ ~to_cache'.lc_valid /\ ~to_cache'.lc_ready /\ ~to_cache'.hc_ready
    <3>1. CASE lc_in_reg.valid
      BY <1>4, <3>1 DEF L1dWriteCache, CacheQuiet
    <3>2. CASE ~lc_in_reg.valid
      BY <1>4, <3>2 DEF L1dWriteCache, CacheQuiet
    <3>3. QED
      BY <3>1, <3>2
  <2>2. QED
    BY <2>1
<1>5. CASE WaitCache
  <2>1. CASE CacheMisses
    BY <1>5, <2>1 DEF WaitCache, CacheMisses, CacheQuiet
  <2>2. CASE CacheHits
    BY <1>5, <2>2 DEF WaitCache, CacheHits, CacheQuiet
  <2>3. CASE CacheSilent
    BY <1>1, <2>3 DEF CacheSilent
  <2>4. QED
    BY <1>5, <2>1, <2>2, <2>3 DEF WaitCache
<1>6. CASE CheckMshr
  BY <1>6 DEF CheckMshr, CacheQuiet
<1>7. CASE ClearMshr
  <2>1. CASE Playback
    BY <1>1, <2>1 DEF Playback
  <2>2. CASE Install
    BY <1>7, <2>2 DEF ClearMshr, Install, CacheQuiet
  <2>3. QED
    BY <1>7, <2>1, <2>2 DEF ClearMshr
<1>8. CASE SendReqLc
  BY <1>8 DEF SendReqLc, CacheQuiet
<1>9. CASE SendRespHc
  BY <1>9 DEF SendRespHc, CacheQuiet
<1>10. QED
  BY <1>2, <1>3, <1>4, <1>5, <1>6, <1>7, <1>8, <1>9 DEF L1dEdge

\* What the request drives: the address and kind of the latched request.
LEMMA RequestDriven ==
  ASSUME TypeInv, NEW lsu, NEW fill, NEW ready, L1dEdge(lsu, fill, ready)
  PROVE  /\ l1d_state = "READ_CACHE" =>
              /\ to_cache'.hc_addr = lsu_in_reg.addr /\ (to_cache'.hc_we <=> lsu_in_reg.store)
              /\ to_cache'.hc_valid <=> ~cache_out.hc_ready
              /\ l1d_state' = IF cache_out.hc_ready THEN "WAIT_CACHE" ELSE "READ_CACHE"
         /\ l1d_state = "WRITE_CACHE" /\ ~lc_in_reg.valid =>
              /\ to_cache'.hc_addr = lsu_in_reg.addr
              /\ cache_out.hc_ready \/ cache_out.lc_ready => to_cache'.hc_we
              /\ to_cache'.hc_valid
              /\ l1d_state' = IF cache_out.hc_ready THEN "WAIT_CACHE" ELSE "WRITE_CACHE"
         /\ l1d_state \in {"READ_CACHE", "WRITE_CACHE"} => wait_reg' = wait_reg
         /\ l1d_state = "IDLE" => wait_reg' = WriteWait
         /\ l1d_state # "IDLE" => lsu_in_reg' = lsu_in_reg
<1>1. CASE L1dIdle(lsu, fill)
  BY <1>1 DEF L1dIdle
<1>2. CASE ReadCache
  <2>1. /\ l1d_state = "READ_CACHE" /\ wait_reg' = wait_reg /\ lsu_in_reg' = lsu_in_reg
        /\ to_cache' = [CacheQuiet EXCEPT !.hc_addr = lsu_in_reg.addr,
                                          !.hc_valid = ~cache_out.hc_ready]
        /\ l1d_state' = IF cache_out.hc_ready THEN "WAIT_CACHE" ELSE "READ_CACHE"
    BY <1>2 DEF ReadCache, KeepWait, NoAccept
  <2>2. QED
    BY <2>1 DEF CacheQuiet
<1>3. CASE L1dWriteCache
  <2>1. l1d_state = "WRITE_CACHE" /\ wait_reg' = wait_reg /\ lsu_in_reg' = lsu_in_reg
    BY <1>3 DEF L1dWriteCache, KeepWait, NoAccept
  <2>2. ~lc_in_reg.valid =>
          /\ to_cache' = [CacheQuiet EXCEPT !.hc_addr = lsu_in_reg.addr, !.hc_valid = TRUE,
                                            !.hc_we = cache_out.hc_ready \/ cache_out.lc_ready]
          /\ l1d_state' = IF cache_out.hc_ready THEN "WAIT_CACHE" ELSE "WRITE_CACHE"
    BY <1>3 DEF L1dWriteCache
  <2>3. QED
    BY <2>1, <2>2 DEF CacheQuiet
<1>4. CASE WaitCache \/ CheckMshr \/ ClearMshr \/ CompleteWrite \/ Evict \/ SendReqLc \/ SendRespHc
  BY <1>4 DEF WaitCache, CheckMshr, ClearMshr, CompleteWrite, Evict, SendReqLc, SendRespHc, NoAccept
<1>5. QED
  BY <1>1, <1>2, <1>3, <1>4 DEF L1dEdge

\* An edge of the L1D with the cache in step.
LEMMA StepPhases ==
  ASSUME TypeInv, WriteBackInv, FillInv, LockInv, L1dEdge(Presented, llc_fill, TRUE), LlcTakes
  PROVE  InputsInv' /\ PhaseInv'
<1>1. CacheTypeOK /\ CacheEdge /\ lc_ready_in_reg' = TRUE
  BY DEF TypeInv, TypeOK, L1dTypeOK, L1dEdge
<1>2. InputsInv /\ PhaseInv /\ FreeInv
  BY DEF LockInv
<1>3. ~cache_out.we /\ cache_state # "EVICT_BLOCK" /\ l1d_state # "EVICT" /\ ~cache_out'.we
  BY <1>1, CacheWriteBack DEF WriteBackInv, NothingWrittenBack
<1>4. /\ hc'.ready <=> to_cache.hc_ready
      /\ lc'.ready <=> to_cache.lc_ready
      /\ cache_out'.hc_ready \/ cache_out'.lc_ready
      /\ cache_out'.hc_ready => Works({"IDLE"})
  BY <1>1, CacheSamples
<1>5. /\ to_cache'.hc_valid => l1d_state \in {"READ_CACHE", "WRITE_CACHE"}
      /\ to_cache'.lc_valid => l1d_state = "CLEAR_MSHR" /\ Install
      /\ to_cache'.lc_ready => l1d_state = "WAIT_CACHE" /\ CacheMisses
      /\ to_cache'.hc_ready => \/ l1d_state = "WAIT_CACHE" /\ CacheHits
                               \/ l1d_state = "SEND_RESP_HC" /\ SendRespHc
  BY InputsDriven
<1>6. FillInv'
  BY StepFillInv
<1>7. CASE l1d_state = "IDLE"
  <2>1. L1dIdle(Presented, llc_fill)
    BY <1>7 DEF L1dEdge, ReadCache, L1dWriteCache, WaitCache, CheckMshr, ClearMshr, CompleteWrite,
       Evict, SendReqLc, SendRespHc
  <2>2. ~to_cache'.hc_valid /\ ~to_cache'.lc_valid /\ ~to_cache'.lc_ready /\ ~to_cache'.hc_ready
    BY <1>5, <1>7
  <2>3. ~to_cache.hc_valid /\ ~lc'.ready /\ wait_reg' = WriteWait
    BY <1>2, <1>4, <1>7, RequestDriven DEF InputsInv, PhaseInv
  <2>4. /\ ~cache_out'.hc_ready
        /\ Resting' \/ Filling({"IDLE", "LOOKUP", "WRITE_CACHE"})'
        /\ lc_in_reg.valid => Resting' \/ Filling({"LOOKUP", "WRITE_CACHE"})'
    <3>1. CASE Resting
      <4>1. /\ ~to_cache.lc_valid => Resting'
            /\ to_cache.lc_valid => Filling({"IDLE"})' /\ ~lc_in_reg.valid
        BY <1>1, <1>2, <2>3, <3>1, CacheIdles DEF Resting, InputsInv
      <4>2. QED
        BY <1>4, <3>1, <4>1 DEF Resting, Works, Filling
    <3>2. CASE Leaving
      <4>1. ~Resting /\ ~to_cache.lc_valid
        BY <1>2, <3>2 DEF Leaving, Resting, InputsInv
      <4>2. Resting'
        BY <1>1, <3>2, CacheWorks DEF Leaving
      <4>3. QED
        BY <1>4, <3>2, <4>2 DEF Leaving, Works
    <3>3. CASE Filling({"IDLE", "LOOKUP", "WRITE_CACHE"})
      <4>1. ~to_cache.lc_valid /\ ~cache_out'.hc_ready
        BY <1>2, <1>4, <3>3 DEF Filling, Resting, InputsInv, Works
      <4>2. cache_state = "IDLE" => Filling({"LOOKUP"})'
        BY <1>1, <2>3, <3>3, <4>1, CacheIdles DEF Filling
      <4>3. cache_state = "LOOKUP" => Filling({"WRITE_CACHE"})'
        BY <1>1, <3>3, CacheWorks DEF Filling
      <4>4. cache_state = "WRITE_CACHE" => Resting'
        BY <1>1, <3>3, CacheWorks DEF Filling
      <4>5. QED
        BY <3>3, <4>1, <4>2, <4>3, <4>4 DEF Filling
    <3>4. QED
      BY <1>2, <1>7, <3>1, <3>2, <3>3 DEF PhaseInv
  <2>5. \/ l1d_state' = "IDLE"
        \/ l1d_state' = "READ_CACHE" /\ ~lsu_in_reg'.store
        \/ l1d_state' = "WRITE_CACHE" /\ ~lc_in_reg'.valid /\ lsu_in_reg'.store
        \/ l1d_state' = "WRITE_CACHE" /\ lc_in_reg'.valid /\ lc_in_reg.valid
    <3>1. CASE lc_in_reg.valid
      BY <1>7, <3>1, StepFillInv
    <3>2. CASE ~lc_in_reg.valid /\ ~Accepts(Presented, llc_fill)
      BY <2>1, <3>2 DEF L1dIdle
    <3>3. CASE ~lc_in_reg.valid /\ Accepts(Presented, llc_fill)
      <4>1. Presented # None /\ llc_fill = None
        BY <3>3 DEF Accepts, CanAccept
      <4>2. /\ lc_in_reg' = [lc_in_reg EXCEPT !.valid = FALSE]
            /\ lsu_in_reg' = [valid |-> TRUE, tag |-> Presented.tag, store |-> Presented.store,
                              addr |-> Presented.addr, value |-> Presented.value]
            /\ l1d_state' = IF Presented.store THEN "WRITE_CACHE" ELSE "READ_CACHE"
        BY <2>1, <3>3, <4>1 DEF L1dIdle
      <4>3. lc_in_reg \in [valid : BOOLEAN, block : Block, line : Line]
        BY DEF TypeInv, TypeOK, L1dTypeOK
      <4>4. ~lc_in_reg'.valid /\ (lsu_in_reg'.store <=> Presented.store)
        BY <4>2, <4>3
      <4>5. QED
        BY <4>2, <4>4
    <3>4. QED
      BY <3>1, <3>2, <3>3
  <2>6. InputsInv'
    BY <1>1, <1>4, <2>2, <2>3, <2>5 DEF InputsInv
  <2>7. PhaseInv'
    BY <2>2, <2>3, <2>4, <2>5 DEF PhaseInv, Starting
  <2>8. QED
    BY <2>6, <2>7
<1>8. CASE l1d_state = "READ_CACHE" \/ (l1d_state = "WRITE_CACHE" /\ ~lc_in_reg.valid)
  <2>1. /\ Starting /\ wait_reg' = wait_reg /\ lsu_in_reg' = lsu_in_reg
        /\ to_cache'.hc_valid => Shown'
        /\ cache_out.hc_ready /\ ~lsu_in_reg.store => ~to_cache'.hc_valid
        /\ ~cache_out.hc_ready => to_cache'.hc_valid
        /\ l1d_state' = IF cache_out.hc_ready THEN "WAIT_CACHE" ELSE l1d_state
    BY <1>2, <1>8, RequestDriven DEF PhaseInv, InputsInv, Shown
  <2>2. /\ ~to_cache'.lc_valid /\ ~to_cache'.lc_ready /\ ~to_cache'.hc_ready
        /\ ~to_cache.lc_valid /\ ~hc'.ready /\ ~lc'.ready
    BY <1>2, <1>4, <1>5, <1>8 DEF InputsInv
  <2>3. ~lc_in_reg.valid /\ lc_in_reg' = lc_in_reg
    <3>1. CASE l1d_state = "READ_CACHE"
      <4>1. ReadCache
        BY <3>1 DEF L1dEdge, L1dIdle, L1dWriteCache, WaitCache, CheckMshr, ClearMshr,
           CompleteWrite, Evict, SendReqLc, SendRespHc
      <4>2. QED
        BY <3>1, <4>1 DEF ReadCache, KeepFill, FillInv
    <3>2. CASE l1d_state = "WRITE_CACHE" /\ ~lc_in_reg.valid
      <4>1. L1dWriteCache
        BY <3>2 DEF L1dEdge, L1dIdle, ReadCache, WaitCache, CheckMshr, ClearMshr,
           CompleteWrite, Evict, SendReqLc, SendRespHc
      <4>2. QED
        BY <3>2, <4>1 DEF L1dWriteCache, KeepFill
    <3>3. QED
      BY <1>8, <3>1, <3>2
  <2>4. lsu_in_reg.store <=> l1d_state = "WRITE_CACHE"
    BY <1>2, <1>8 DEF PhaseInv
  <2>5. CASE cache_out.hc_ready
    <3>1. /\ Works(IF hc.we THEN {"WRITE_CACHE", "SEND_LOWER_CACHE_REQ"}
                   ELSE {"RESPOND_HC", "SEND_LOWER_CACHE_REQ"})'
          /\ Silent' /\ hc'.addr = hc.addr /\ (hc'.we <=> hc.we)
          /\ cache_state = "LOOKUP" /\ Own
      BY <1>1, <2>1, <2>5, CacheWorks DEF Starting, Works
    <3>2. Waiting'
      <4>1. Own' /\ lsu_in_reg' = lsu_in_reg
        BY <2>1, <3>1 DEF Own
      <4>2. Works(IF lsu_in_reg.store THEN {"WRITE_CACHE", "SEND_LOWER_CACHE_REQ"}
                  ELSE {"RESPOND_HC", "SEND_LOWER_CACHE_REQ"})'
        BY <2>1, <3>1 DEF Own, Works
      <4>3. wait_reg' = WriteWait
        BY <2>1 DEF Starting
      <4>4. QED
        BY <2>2, <3>1, <4>1, <4>2, <4>3 DEF Waiting
    <3>3. PhaseInv'
      BY <2>1, <2>5, <3>2 DEF PhaseInv
    <3>4. ~Filling({"IDLE"})'
      BY <3>1 DEF Works, Filling
    <3>5. InputsInv'
      BY <1>1, <1>4, <2>1, <2>2, <2>5, <3>4 DEF InputsInv
    <3>6. QED
      BY <3>3, <3>5
  <2>6. CASE ~cache_out.hc_ready
    <3>1. /\ ~Filling({"IDLE"})'
          /\ IF cache_out'.hc_ready
             THEN Works({"LOOKUP"})' /\ Own'
             ELSE \/ Resting' \/ Filling({"IDLE", "LOOKUP", "WRITE_CACHE"})'
                  \/ Works({"IDLE"})' /\ Own'
      <4>1. CASE Resting
        <5>1. /\ ~to_cache.hc_valid => Resting'
              /\ to_cache.hc_valid => /\ Works({"IDLE"})'
                                      /\ hc'.addr = to_cache.hc_addr /\ (hc'.we <=> to_cache.hc_we)
          BY <1>1, <2>2, <4>1, CacheIdles DEF Resting
        <5>2. to_cache.hc_valid => Own'
          BY <2>1, <5>1 DEF Starting, Shown, Own
        <5>3. ~cache_out'.hc_ready
          BY <1>4, <4>1 DEF Resting, Works
        <5>4. QED
          BY <5>1, <5>2, <5>3 DEF Resting, Works, Filling
      <4>2. CASE Filling({"IDLE", "LOOKUP", "WRITE_CACHE"})
        <5>1. ~cache_out'.hc_ready
          BY <1>4, <4>2 DEF Filling, Works
        <5>2. cache_state = "IDLE" => Filling({"LOOKUP"})'
          BY <1>1, <1>2, <2>2, <4>2, CacheIdles DEF Filling, InputsInv
        <5>3. cache_state = "LOOKUP" => Filling({"WRITE_CACHE"})'
          BY <1>1, <4>2, CacheWorks DEF Filling
        <5>4. cache_state = "WRITE_CACHE" => Resting'
          BY <1>1, <4>2, CacheWorks DEF Filling
        <5>5. QED
          BY <4>2, <5>1, <5>2, <5>3, <5>4 DEF Filling, Resting
      <4>3. CASE to_cache.hc_valid /\ Works({"IDLE"}) /\ Own
        <5>1. /\ Works({"LOOKUP"})' /\ cache_out'.hc_ready
              /\ hc'.addr = to_cache.hc_addr /\ (hc'.we <=> to_cache.hc_we)
          BY <1>1, <2>2, <4>3, CacheIdles DEF Works
        <5>2. Own'
          BY <2>1, <4>3, <5>1 DEF Starting, Shown, Own
        <5>3. QED
          BY <5>1, <5>2 DEF Works, Filling
      <4>4. QED
        BY <2>1, <2>6, <4>1, <4>2, <4>3 DEF Starting
    <3>2. Starting'
      BY <2>1, <2>2, <2>6, <3>1 DEF Starting
    <3>3. PhaseInv'
      <4>1. l1d_state' = l1d_state /\ ~lc_in_reg'.valid /\ lsu_in_reg' = lsu_in_reg
        BY <2>1, <2>3, <2>6
      <4>2. QED
        BY <1>8, <2>4, <3>2, <4>1 DEF PhaseInv
    <3>4. InputsInv'
      BY <1>1, <1>4, <1>8, <2>1, <2>2, <2>6, <3>1 DEF InputsInv
    <3>5. QED
      BY <3>3, <3>4
  <2>7. QED
    BY <2>5, <2>6
<1>9. ASSUME l1d_state \notin {"IDLE", "READ_CACHE"},
             ~(l1d_state = "WRITE_CACHE" /\ ~lc_in_reg.valid)
      PROVE  /\ ~to_cache.lc_valid /\ ~cache_out.we /\ ~to_cache'.hc_valid
             /\ lsu_in_reg' = lsu_in_reg
             /\ l1d_state # "CHECK_MSHR" => ~lc'.ready
             /\ l1d_state # "SEND_RESP_HC" => ~hc'.ready
  <2>1. ~to_cache'.hc_valid
    <3>1. CASE l1d_state = "WRITE_CACHE"
      BY <1>9, <3>1 DEF L1dEdge, L1dIdle, ReadCache, L1dWriteCache, WaitCache, CheckMshr, ClearMshr,
         CompleteWrite, Evict, SendReqLc, SendRespHc, CacheQuiet
    <3>2. QED
      BY <1>5, <1>9, <3>1
  <2>2. QED
    BY <1>2, <1>3, <1>4, <1>9, <2>1, RequestDriven DEF InputsInv
<1>10. CASE l1d_state = "WRITE_CACHE" /\ lc_in_reg.valid
  <2>1. l1d_state' = "CLEAR_MSHR"
    BY <1>10 DEF L1dEdge, L1dIdle, ReadCache, L1dWriteCache, WaitCache, CheckMshr, ClearMshr,
       CompleteWrite, Evict, SendReqLc, SendRespHc
  <2>2. ~to_cache.hc_valid /\ (Resting \/ Filling({"LOOKUP", "WRITE_CACHE"}))
    BY <1>2, <1>10 DEF PhaseInv
  <2>3. Resting' \/ Filling({"WRITE_CACHE"})'
    <3>1. Resting => Resting'
      BY <1>1, <1>9, <1>10, <2>2, CacheIdles DEF Resting
    <3>2. Filling({"LOOKUP", "WRITE_CACHE"}) => Resting' \/ Filling({"WRITE_CACHE"})'
      BY <1>1, CacheWorks DEF Filling
    <3>3. QED
      BY <2>2, <3>1, <3>2
  <2>4. QED
    BY <1>1, <1>4, <1>5, <1>9, <1>10, <2>1, <2>3 DEF InputsInv, PhaseInv
<1>11. CASE l1d_state = "WAIT_CACHE"
  <2>1. WaitCache /\ Waiting
    BY <1>2, <1>11 DEF L1dEdge, L1dIdle, ReadCache, L1dWriteCache, CheckMshr, ClearMshr,
       CompleteWrite, Evict, SendReqLc, SendRespHc, PhaseInv
  <2>2. ~hc.ready /\ ~lc.ready /\ ~to_cache.hc_ready /\ ~to_cache.lc_ready
    BY <1>2, <1>11 DEF InputsInv
  <2>3. ~to_cache'.lc_valid /\ (to_cache'.lc_ready => CacheMisses) /\ (to_cache'.hc_ready => CacheHits)
    BY <1>5, <1>11
  <2>4. CASE CacheMisses
    <3>1. cache_out.lc_valid /\ l1d_state' = "CHECK_MSHR" /\ to_cache'.lc_ready
      BY <1>3, <2>4 DEF CacheMisses, CacheQuiet
    <3>2. Works({"SEND_LOWER_CACHE_REQ"}) /\ Own
      BY <2>1, <3>1 DEF Waiting, Silent
    <3>3. /\ Works({"SEND_LOWER_CACHE_REQ"})' /\ hc'.addr = hc.addr /\ (hc'.we <=> hc.we)
      BY <1>1, <2>2, <3>2, CacheWorks DEF Works
    <3>4. Own'
      BY <1>9, <1>11, <3>2, <3>3 DEF Own
    <3>5. ~to_cache'.hc_ready
      BY <2>3, <2>4 DEF CacheMisses, CacheHits
    <3>6. QED
      BY <1>1, <1>4, <1>9, <1>11, <2>3, <3>1, <3>3, <3>4, <3>5 DEF InputsInv, PhaseInv
  <2>5. CASE CacheHits
    <3>1. /\ ~cache_out.lc_valid /\ cache_out.hc_valid
          /\ l1d_state' = "SEND_RESP_HC" /\ to_cache'.hc_ready
      BY <2>5 DEF CacheHits, CacheQuiet
    <3>2. Works({"RESPOND_HC"}) /\ ~lsu_in_reg.store
      BY <2>1, <3>1 DEF Waiting, Silent
    <3>3. Works({"RESPOND_HC"})'
      BY <1>1, <2>2, <3>2, CacheWorks DEF Works
    <3>4. ~to_cache'.lc_ready
      BY <2>3, <2>5 DEF CacheMisses, CacheHits
    <3>5. cache_state' = "RESPOND_HC" /\ ~lc'.valid
      BY <3>3 DEF Works
    <3>6. QED
      BY <1>1, <1>4, <1>9, <1>11, <2>3, <3>1, <3>2, <3>4, <3>5 DEF InputsInv, PhaseInv
  <2>6. CASE CacheSilent
    <3>1. /\ ~cache_out.lc_valid /\ ~cache_out.hc_valid /\ wait_reg' = wait_reg - 1
          /\ l1d_state' = IF wait_reg = 1 THEN "COMPLETE_WRITE" ELSE "WAIT_CACHE"
      BY <1>11, <2>6 DEF CacheSilent
    <3>2. ~to_cache'.lc_ready /\ ~to_cache'.hc_ready
      BY <2>3, <2>6 DEF CacheMisses, CacheHits, CacheSilent
    <3>3. InputsInv'
      BY <1>1, <1>4, <1>9, <1>11, <2>3, <3>2 DEF InputsInv
    <3>4. CASE lsu_in_reg.store /\ Silent /\ Resting /\ ~to_cache.hc_valid
      <4>1. Resting' /\ Silent'
        BY <1>1, <1>9, <1>11, <3>4, CacheIdles DEF Resting
      <4>2. QED
        BY <1>9, <1>11, <3>1, <3>3, <3>4, <4>1 DEF Waiting, PhaseInv
    <3>5. CASE /\ wait_reg = WriteWait /\ Silent /\ Own
               /\ Works(IF lsu_in_reg.store THEN {"WRITE_CACHE", "SEND_LOWER_CACHE_REQ"}
                        ELSE {"RESPOND_HC", "SEND_LOWER_CACHE_REQ"})
      <4>1. l1d_state' = "WAIT_CACHE"
        BY <3>1, <3>5 DEF WriteWait
      <4>2. lsu_in_reg' = lsu_in_reg /\ ~hc'.ready /\ ~to_cache'.hc_valid
        BY <1>9, <1>11
      <4>3. Own'
        BY <1>1, <3>5, <4>2, CacheWorks DEF Own, Works
      <4>4. Waiting'
        <5>1. CASE cache_state = "SEND_LOWER_CACHE_REQ"
          BY <1>1, <2>2, <3>5, <4>2, <4>3, <5>1, CacheWorks DEF Waiting, Works
        <5>2. CASE cache_state = "WRITE_CACHE"
          BY <1>1, <3>5, <4>2, <5>2, CacheWorks DEF Waiting, Works
        <5>3. CASE cache_state = "RESPOND_HC"
          BY <1>1, <2>2, <3>5, <4>2, <5>3, CacheWorks DEF Waiting, Works
        <5>4. QED
          BY <3>5, <5>1, <5>2, <5>3 DEF Works
      <4>5. QED
        BY <3>3, <4>1, <4>4 DEF PhaseInv
    <3>6. QED
      BY <2>1, <3>1, <3>4, <3>5 DEF Waiting
  <2>7. QED
    BY <2>1, <2>4, <2>5, <2>6 DEF WaitCache
<1>12. CASE l1d_state = "CHECK_MSHR"
  <2>1. CheckMshr /\ FreeMshrs # {}
    BY <1>2, <1>12 DEF L1dEdge, L1dIdle, ReadCache, L1dWriteCache, WaitCache, ClearMshr,
       CompleteWrite, Evict, SendReqLc, SendRespHc, FreeInv
  <2>2. \/ l1d_state' \in {"SEND_REQ_LC", "IDLE"}
        \/ l1d_state' = "SEND_RESP_HC" /\ ~lsu_in_reg.store
    BY <2>1 DEF CheckMshr, PrimaryMiss, SecondaryMiss
  <2>3. Works({"SEND_LOWER_CACHE_REQ"}) /\ Own /\ to_cache.lc_ready /\ ~lc.ready
    BY <1>2, <1>12 DEF InputsInv, PhaseInv
  <2>4. /\ Works({"SEND_LOWER_CACHE_REQ"})' /\ cache_out'.lc_block = hc.addr.block /\ lc'.ready
    BY <1>1, <1>4, <2>3, CacheWorks DEF Works
  <2>5. cache_out'.lc_block = lsu_in_reg'.addr.block
    BY <1>9, <1>12, <2>3, <2>4 DEF Own
  <2>6. ~to_cache'.lc_valid /\ ~to_cache'.lc_ready /\ ~to_cache'.hc_ready /\ ~hc'.ready
    BY <1>5, <1>9, <1>12
  <2>7. InputsInv'
    BY <1>1, <1>4, <1>9, <1>12, <2>2, <2>6 DEF InputsInv
  <2>8. PhaseInv'
    BY <1>9, <1>12, <2>2, <2>4, <2>5 DEF PhaseInv, Works, Leaving
  <2>9. QED
    BY <2>7, <2>8
<1>13. CASE l1d_state = "SEND_REQ_LC"
  <2>1. l1d_state' = "IDLE"
    BY <1>2, <1>13 DEF L1dEdge, L1dIdle, ReadCache, L1dWriteCache, WaitCache, CheckMshr, ClearMshr,
       CompleteWrite, Evict, SendReqLc, SendRespHc, InputsInv
  <2>2. Resting'
    BY <1>1, <1>2, <1>13, CacheWorks DEF PhaseInv
  <2>3. QED
    BY <1>1, <1>4, <1>5, <1>9, <1>13, <2>1, <2>2 DEF InputsInv, PhaseInv
<1>14. CASE l1d_state = "SEND_RESP_HC"
  <2>1. l1d_state' = "IDLE"
    BY <1>14 DEF L1dEdge, L1dIdle, ReadCache, L1dWriteCache, WaitCache, CheckMshr, ClearMshr,
       CompleteWrite, Evict, SendReqLc, SendRespHc
  <2>2. Resting' \/ Leaving'
    <3>1. /\ ~lc.valid
          /\ \/ cache_state = "RESPOND_HC" /\ to_cache.hc_ready
             \/ cache_state = "SEND_LOWER_CACHE_REQ" /\ lc.ready
      BY <1>2, <1>14 DEF PhaseInv
    <3>2. QED
      BY <1>1, <1>4, <3>1, CacheWorks DEF Leaving
  <2>3. ~to_cache'.lc_valid /\ ~to_cache'.lc_ready /\ ~lc'.ready /\ ~to_cache'.hc_valid
    BY <1>5, <1>9, <1>14
  <2>4. QED
    BY <1>1, <1>4, <2>1, <2>2, <2>3 DEF InputsInv, PhaseInv
<1>15. CASE l1d_state = "COMPLETE_WRITE"
  <2>1. l1d_state' = "IDLE"
    BY <1>15 DEF L1dEdge, L1dIdle, ReadCache, L1dWriteCache, WaitCache, CheckMshr, ClearMshr,
       CompleteWrite, Evict, SendReqLc, SendRespHc
  <2>2. Resting'
    <3>1. Resting /\ ~to_cache.hc_valid /\ ~to_cache.lc_valid
      BY <1>2, <1>9, <1>15 DEF PhaseInv
    <3>2. QED
      BY <1>1, <3>1, CacheIdles DEF Resting
  <2>3. QED
    BY <1>1, <1>4, <1>5, <1>9, <1>15, <2>1, <2>2 DEF InputsInv, PhaseInv
<1>16. CASE l1d_state = "CLEAR_MSHR"
  <2>1. ClearMshr
    BY <1>16 DEF L1dEdge, L1dIdle, ReadCache, L1dWriteCache, WaitCache, CheckMshr,
       CompleteWrite, Evict, SendReqLc, SendRespHc
  <2>2. Resting'
    <3>1. ~to_cache.hc_valid /\ (Resting \/ Filling({"WRITE_CACHE"}))
      BY <1>2, <1>16 DEF PhaseInv
    <3>2. Resting => Resting'
      BY <1>1, <1>9, <1>16, <3>1, CacheIdles DEF Resting
    <3>3. Filling({"WRITE_CACHE"}) => Resting'
      BY <1>1, CacheWorks DEF Filling
    <3>4. QED
      BY <3>1, <3>2, <3>3
  <2>3. /\ Playback => l1d_state' = "CLEAR_MSHR"
        /\ Install => l1d_state' = "IDLE" /\ lc_in_reg' = lc_in_reg
        /\ ~lc_in_reg.valid
    BY <1>16 DEF Playback, Install, KeepFill, FillInv
  <2>4. ~to_cache'.lc_ready /\ ~to_cache'.hc_ready /\ (to_cache'.lc_valid => Install)
    BY <1>5, <1>16
  <2>5. Playback \/ Install
    BY <2>1 DEF ClearMshr
  <2>6. InputsInv'
    BY <1>1, <1>4, <1>9, <1>16, <2>2, <2>3, <2>4, <2>5 DEF InputsInv
  <2>7. PhaseInv'
    BY <1>9, <1>16, <2>2, <2>3, <2>5 DEF PhaseInv
  <2>8. QED
    BY <2>6, <2>7
<1>17. QED
  BY <1>3, <1>7, <1>8, <1>10, <1>11, <1>12, <1>13, <1>14, <1>15, <1>16 DEF L1dEdge, L1dIdle, ReadCache,
     L1dWriteCache, WaitCache, CheckMshr, ClearMshr, CompleteWrite, Evict, SendReqLc, SendRespHc

LEMMA InitLock == Init => PortInv /\ FillInv /\ LockInv
<1> SUFFICES ASSUME Init PROVE PortInv /\ FillInv /\ LockInv
  OBVIOUS
<1>1. /\ l1d_state = "IDLE" /\ cache_state = "IDLE" /\ ~hc.valid /\ ~lc.valid /\ ~hc.ready /\ ~lc.ready
      /\ ~to_cache.hc_valid /\ ~to_cache.hc_ready /\ ~to_cache.lc_valid /\ ~to_cache.lc_ready
      /\ ~lc_in_reg.valid /\ lc_ready_out = FALSE
  BY DEF Init, L1dInit, CacheInit
<1>2. FillInv
  BY <1>1 DEF FillInv
<1>3. LockInv
  BY <1>1 DEF LockInv, InputsInv, PhaseInv, FreeInv, Resting, Filling
<1>4. PortInv
  <2>1. /\ taken = << >> /\ program = << >> /\ curr_state = "S_IDLE" /\ reg_dispatch = None
        /\ ~l1d_valid_out
    BY DEF Init, Mif!MifInit
  <2>2. TakenOnce /\ Taken = {}
    BY <2>1 DEF TakenOnce, IsInjective, Taken, ToSet
  <2>3. QED
    BY <2>1, <2>2 DEF PortInv
<1>5. QED
  BY <1>2, <1>3, <1>4

\* What is proved so far, together.
CoreInv == TypeInv /\ WriteBackInv /\ PortInv /\ FillInv /\ LockInv

LEMMA InitCoreInv == Init => CoreInv
  BY InitTypeInv, InitWriteBack, InitLock DEF CoreInv

\* A step is a clock edge, with a request dispatched or not, or nothing.
LEMMA StepCoreInv ==
  ASSUME CoreInv, NEW candidate \in LsuRequest \cup {None}, Steps(candidate), TypeInv'
  PROVE  CoreInv'
<1>1. ClockEdge(candidate) /\ L1dEdge(Presented, llc_fill, TRUE) /\ LlcTakes
  BY DEF Steps, ClockEdge
<1>2. PortInv'
  BY StepPortInv DEF CoreInv
<1>3. FillInv' /\ FreeInv'
  BY <1>1, StepFillInv, StepFreeInv DEF CoreInv, LockInv
<1>4. InputsInv' /\ PhaseInv'
  BY <1>1, StepPhases DEF CoreInv
<1>5. WriteBackInv'
  BY <1>1, StepWriteBack DEF CoreInv
<1>6. QED
  BY <1>2, <1>3, <1>4, <1>5 DEF CoreInv, LockInv

LEMMA StutterCoreInv ==
  ASSUME CoreInv, UNCHANGED vars
  PROVE  CoreInv'
<1>1. /\ UNCHANGED << to_cache, l1d_state, lsu_in_reg, lc_in_reg, lc_ready_in_reg, mshr,
                      wait_reg, lsu_ready_out, lsu_out, lc_ready_out, lc_out >>
      /\ UNCHANGED << cache_state, hc, lc, hit_reg, tag_array, cache_data, cache_out >>
      /\ UNCHANGED << reg_dispatch, curr_state, lat, dispatch_ready_out, l1d_valid_out, l1d_req_out >>
      /\ UNCHANGED << program, taken, llc_fill >>
  BY DEF vars, l1dVars, cacheVars, Mif!mifVars, envVars
<1>2. TypeInv'
  BY StepTypeInv DEF CoreInv
<1>3. WriteBackInv' /\ FillInv'
  BY <1>1 DEF CoreInv, WriteBackInv, NothingWrittenBack, FillInv
<1>4. PortInv'
  BY <1>1 DEF CoreInv, PortInv, Known, Taken, TakenOnce
<1>5. InputsInv' /\ FreeInv'
  BY <1>1 DEF CoreInv, LockInv, InputsInv, FreeInv, Resting, Filling, FreeMshrs, Oldest
<1>6. PhaseInv'
  <2>1. /\ Resting' = Resting /\ Leaving' = Leaving /\ Own' = Own /\ Shown' = Shown /\ Silent' = Silent
        /\ \A s : Filling(s)' = Filling(s) /\ Works(s)' = Works(s)
    BY <1>1 DEF Resting, Leaving, Own, Shown, Silent, Filling, Works
  <2>2. Starting' = Starting /\ Waiting' = Waiting
    BY <1>1, <2>1 DEF Starting, Waiting
  <2>3. QED
    BY <1>1, <2>1, <2>2 DEF CoreInv, LockInv, PhaseInv
<1>7. QED
  BY <1>2, <1>3, <1>4, <1>5, <1>6 DEF CoreInv, LockInv

LEMMA CoreInvariant == Spec => []CoreInv
<1>1. CoreInv /\ [Next]_vars => CoreInv'
  <2>1. ASSUME CoreInv, Next PROVE CoreInv'
    <3>1. TypeInv /\ TypeInv'
      BY <2>1, StepTypeInv DEF CoreInv
    <3>2. PICK candidate \in LsuRequest \cup {None} : Steps(candidate)
      BY <2>1, <3>1, NextSteps
    <3>3. QED
      BY <2>1, <3>1, <3>2, StepCoreInv
  <2>2. QED
    BY <2>1, StutterCoreInv
<1>2. QED
  BY InitCoreInv, <1>1, PTL DEF Spec

\* The L1D accepts each request of the LSU once, although memory_interface goes
\* on driving it for two edges, whatever the timing of the LLC: an accepted
\* request takes the L1D out of IDLE before ready can be seen to fall.
THEOREM TakenOnceHolds == Spec => []TakenOnce
<1>1. CoreInv => TakenOnce
  BY DEF CoreInv, PortInv
<1>2. QED
  BY CoreInvariant, <1>1, PTL

-----------------------------------------------------------------------------
(* The request port is the one DispatchPath shows the LSU.                 *)

\* Ready is high only where the L1D was open for a request one edge ago, and the
\* requests on their way are the ones the program describes.
ShownInv ==
    lsu_ready_out => IF l1d_state = "IDLE" THEN ~lc_in_reg.valid /\ FreeMshrs # {}
                     ELSE l1d_state \in {"READ_CACHE", "WRITE_CACHE"}

Whole(r) == r.value = IF r.store THEN r.tag ELSE 0

ValueInv ==
    /\ reg_dispatch # None => Whole(reg_dispatch)
    /\ curr_state # "S_IDLE" => Whole(lat)

KeepInv == CoreInv /\ ShownInv /\ ValueInv

\* The L1D enters IDLE from another state with ready low and no fill latched.
LEMMA EntersIdle ==
  ASSUME CoreInv, L1dEdge(Presented, llc_fill, TRUE), l1d_state # "IDLE"
  PROVE  /\ lsu_ready_out' = FALSE /\ lsu_ready_out' # TRUE
         /\ l1d_state \in {"READ_CACHE", "WRITE_CACHE"} => l1d_state' # "IDLE"
         /\ l1d_state' = "IDLE" => ~lc_in_reg'.valid
<1>1. /\ lsu_ready_out' = FALSE
      /\ l1d_state \in {"READ_CACHE", "WRITE_CACHE"} => l1d_state' # "IDLE"
  BY ReadyFalls
<1>2. FillInv /\ lc_in_reg \in [valid : BOOLEAN, block : Block, line : Line]
  BY DEF CoreInv, TypeInv, TypeOK, L1dTypeOK
<1>3. ASSUME l1d_state' = "IDLE" PROVE ~lc_in_reg'.valid
  <2>1. l1d_state \notin {"IDLE", "WRITE_CACHE"} /\ ~lc_in_reg.valid
    BY <1>1, <1>2, <1>3 DEF FillInv
  <2>2. \/ lc_in_reg' = lc_in_reg
        \/ \E w, v : lc_in_reg' = [lc_in_reg EXCEPT !.line[w] = v]
    BY <2>1 DEF L1dEdge, L1dIdle, ReadCache, L1dWriteCache, WaitCache, CheckMshr, ClearMshr,
       Playback, Install, CompleteWrite, Evict, SendReqLc, SendRespHc, KeepFill
  <2>3. QED
    BY <1>2, <2>1, <2>2
<1>4. QED
  BY <1>1, <1>3

\* One edge in IDLE: a latched fill is served, a presented one latched; otherwise
\* the state of the MSHRs decides.
LEMMA IdleEdge ==
  ASSUME CoreInv, L1dEdge(Presented, llc_fill, TRUE), LlcTakes, l1d_state = "IDLE"
  PROVE  /\ FreeMshrs' = FreeMshrs
         /\ lsu_ready_out' = CanAccept(llc_fill)
         /\ lc_in_reg.valid => l1d_state' = "WRITE_CACHE" /\ llc_fill # None
         /\ ~lc_in_reg.valid /\ llc_fill # None => l1d_state' = "IDLE" /\ lc_in_reg'.valid
         /\ ~lc_in_reg.valid /\ llc_fill = None =>
              /\ ~lc_in_reg'.valid
              /\ IF FreeMshrs # {} /\ Presented # None
                 THEN l1d_state' \in {"READ_CACHE", "WRITE_CACHE"} ELSE l1d_state' = "IDLE"
<1>1. L1dIdle(Presented, llc_fill)
  BY DEF L1dEdge, ReadCache, L1dWriteCache, WaitCache, CheckMshr, ClearMshr, CompleteWrite,
     Evict, SendReqLc, SendRespHc
<1>2. FillInv /\ lc_in_reg \in [valid : BOOLEAN, block : Block, line : Line]
  BY DEF CoreInv, TypeInv, TypeOK, L1dTypeOK
<1>3. FreeMshrs' = FreeMshrs
  BY <1>1 DEF L1dIdle, KeepMshr, FreeMshrs, Oldest
<1>4. llc_fill # None =>
        lc_in_reg' = [valid |-> TRUE, block |-> llc_fill.block, line |-> llc_fill.line]
  BY <1>1 DEF L1dIdle
<1>5. llc_fill = None => lc_in_reg' \in {lc_in_reg, [lc_in_reg EXCEPT !.valid = FALSE]}
  BY <1>1 DEF L1dIdle
<1>6. QED
  BY <1>1, <1>2, <1>3, <1>4, <1>5 DEF L1dIdle, Accepts, CanAccept, FillInv

LEMMA StepShownInv ==
  ASSUME CoreInv, ShownInv, NEW candidate, ClockEdge(candidate)
  PROVE  ShownInv'
<1>1. L1dEdge(Presented, llc_fill, TRUE) /\ LlcTakes
  BY DEF ClockEdge
<1>2. CASE l1d_state # "IDLE"
  BY <1>1, <1>2, EntersIdle DEF ShownInv
<1>3. CASE l1d_state = "IDLE"
  BY <1>1, <1>3, IdleEdge DEF ShownInv, CanAccept
<1>4. QED
  BY <1>2, <1>3

LEMMA StepValueInv ==
  ASSUME CoreInv, ValueInv, NEW candidate \in LsuRequest \cup {None}, Steps(candidate)
  PROVE  ValueInv'
<1>1. /\ Mif!DispatchRegister(candidate)
      /\ Mif!Idle(reg_dispatch) \/ Mif!Dispatch(lsu_ready_out) \/ Mif!WaitResp(lsu_ready_out)
  BY DEF Steps, ClockEdge, Mif!MifEdge
<1>2. candidate # None => Whole(candidate)
  BY DEF Steps, Offers, Whole
<1>3. (reg_dispatch # None => Whole(reg_dispatch))'
  BY <1>1, <1>2 DEF Mif!DispatchRegister, Mif!Loads, ValueInv, Whole
<1>4. (curr_state # "S_IDLE" => Whole(lat))'
  BY <1>1 DEF Mif!Idle, Mif!Dispatch, Mif!WaitResp, ValueInv, Whole
<1>5. QED
  BY <1>3, <1>4 DEF ValueInv

LEMMA InitKeepInv == Init => KeepInv
  BY InitCoreInv DEF Init, L1dInit, Mif!MifInit, KeepInv, ShownInv, ValueInv

LEMMA StepKeepInv ==
  ASSUME KeepInv, [Next]_vars
  PROVE  KeepInv'
<1>1. ASSUME Next PROVE KeepInv'
  <2>1. TypeInv /\ TypeInv'
    BY <1>1, StepTypeInv DEF KeepInv, CoreInv
  <2>2. PICK candidate \in LsuRequest \cup {None} : Steps(candidate)
    BY <1>1, <2>1, NextSteps
  <2>3. CoreInv'
    BY <2>1, <2>2, StepCoreInv DEF KeepInv
  <2>4. ShownInv' /\ ValueInv'
    BY <2>2, StepShownInv, StepValueInv DEF KeepInv, Steps
  <2>5. QED
    BY <2>3, <2>4 DEF KeepInv
<1>2. ASSUME UNCHANGED vars PROVE KeepInv'
  <2>1. CoreInv'
    BY <1>2, StutterCoreInv DEF KeepInv
  <2>2. UNCHANGED << l1d_state, lsu_ready_out, lc_in_reg, mshr, reg_dispatch, curr_state, lat >>
    BY <1>2 DEF vars, l1dVars, Mif!mifVars
  <2>3. QED
    BY <2>1, <2>2 DEF KeepInv, ShownInv, ValueInv, Whole, FreeMshrs, Oldest
<1>3. QED
  BY <1>1, <1>2

\* What LastTaken says of an edge.
LEMMA LastTakenMoves ==
  ASSUME KeepInv, NEW candidate \in LsuRequest \cup {None}, Steps(candidate), TypeInv'
  PROVE  /\ Accepts(Presented, llc_fill) => LastTaken' = l1d_req_out
         /\ ~Accepts(Presented, llc_fill) => LastTaken' = LastTaken
<1>1. /\ \A t \in 1 .. Len(program) : program'[t] = program[t]
      /\ TypeInv /\ PortInv /\ ClockEdge(candidate)
  BY ProgramGrows DEF Steps, KeepInv, CoreInv
<1>2. taken \in Seq(Tag) /\ l1d_req_out \in LsuRequest \cup {None} /\ None \notin LsuRequest
  BY <1>1, L1dAssumption DEF TypeInv, TypeOK, Mif!MifTypeOK
<1>3. CASE Accepts(Presented, llc_fill)
  <2>1. /\ taken' = Append(taken, l1d_req_out.tag) /\ l1d_req_out \in LsuRequest
        /\ l1d_req_out.tag \in Tag /\ l1d_valid_out
    BY <1>1, <1>3, TakenGrows DEF LsuRequest
  <2>2. taken' # << >> /\ Last(taken') = l1d_req_out.tag
    <3>1. /\ Len(taken) \in Nat /\ Len(taken') = Len(taken) + 1
          /\ taken'[Len(taken) + 1] = l1d_req_out.tag
      BY <1>2, <2>1, AppendProperties, LenProperties
    <3>2. QED
      BY <3>1 DEF Last
  <2>3. Known(l1d_req_out) /\ Whole(l1d_req_out)
    BY <1>1, <2>1 DEF PortInv, KeepInv, ValueInv
  <2>4. program'[l1d_req_out.tag] = [store |-> l1d_req_out.store, addr |-> l1d_req_out.addr]
    BY <1>1, <2>3 DEF Known
  <2>5. LastTaken' = [tag |-> l1d_req_out.tag, store |-> l1d_req_out.store,
                      addr |-> l1d_req_out.addr, value |-> l1d_req_out.value]
    BY <2>2, <2>3, <2>4 DEF LastTaken, RequestOf, Whole
  <2>6. QED
    BY <1>3, <2>1, <2>5 DEF LsuRequest
<1>4. CASE ~Accepts(Presented, llc_fill)
  <2>1. taken' = taken
    BY <1>1, <1>4, TakenGrows
  <2>2. CASE taken = << >>
    BY <1>4, <2>1, <2>2 DEF LastTaken
  <2>3. CASE taken # << >>
    <3>1. Last(taken) \in 1 .. Len(program)
      <4>1. Len(taken) \in 1 .. Len(taken)
        BY <1>2, <2>3, EmptySeq, LenProperties
      <4>2. Last(taken) \in Taken
        BY <1>2, <4>1, LenProperties DEF Last, Taken, ToSet
      <4>3. QED
        BY <1>1, <4>2 DEF PortInv
    <3>2. program'[Last(taken)] = program[Last(taken)]
      BY <1>1, <3>1
    <3>3. QED
      BY <1>4, <2>1, <2>3, <3>2 DEF LastTaken, RequestOf
  <2>4. QED
    BY <2>2, <2>3
<1>5. QED
  BY <1>3, <1>4

\* One edge of the L1D is one edge of the port.
LEMMA PortEdgeHolds ==
  ASSUME KeepInv, NEW candidate \in LsuRequest \cup {None}, Steps(candidate), TypeInv'
  PROVE  Port!PortEdge
<1>1. L1dEdge(Presented, llc_fill, TRUE) /\ LlcTakes
  BY DEF Steps, ClockEdge
<1>2. /\ Accepts(Presented, llc_fill) => LastTaken' = l1d_req_out
      /\ ~Accepts(Presented, llc_fill) => LastTaken' = LastTaken
  BY LastTakenMoves
<1>3. lsu_ready_out \in BOOLEAN
  BY DEF KeepInv, CoreInv, TypeInv, TypeOK, L1dTypeOK
<1>4. Presented # None <=> l1d_valid_out
  BY DEF KeepInv, CoreInv, PortInv, Presented
<1> USE DEF Port!PortEdge
<1>5. CASE l1d_state # "IDLE"
  <2>1. /\ LastTaken' = LastTaken /\ lsu_ready_out' = FALSE
        /\ l1d_state \in {"READ_CACHE", "WRITE_CACHE"} => l1d_state' # "IDLE"
        /\ l1d_state' = "IDLE" => ~lc_in_reg'.valid
    BY <1>1, <1>2, <1>5, EntersIdle DEF KeepInv, Accepts
  <2>2. CASE lsu_ready_out
    <3>1. PortNow = "late_hi" /\ PortNow' = "busy"
      BY <1>5, <2>1, <2>2 DEF PortNow, KeepInv, ShownInv
    <3>2. QED
      BY <2>1, <3>1 DEF Port!LowerReady
  <2>3. CASE ~lsu_ready_out
    <3>1. PortNow = "busy" /\ PortNow' \in {"busy", "full", "idle_lo"}
      BY <1>5, <2>1, <2>3 DEF PortNow
    <3>2. QED
      BY <2>1, <3>1 DEF Port!Work, Port!Reopen
  <2>4. QED
    BY <2>2, <2>3
<1>6. CASE l1d_state = "IDLE" /\ lc_in_reg.valid
  <2>1. l1d_state' = "WRITE_CACHE" /\ lsu_ready_out' = FALSE
    BY <1>1, <1>6, IdleEdge DEF KeepInv, CanAccept
  <2>2. PortNow = "fill" /\ PortNow' = "busy" /\ LastTaken' = LastTaken
    BY <1>2, <1>6, <2>1 DEF PortNow, Accepts
  <2>3. QED
    BY <2>2 DEF Port!ServeFill
<1>7. CASE l1d_state = "IDLE" /\ ~lc_in_reg.valid /\ llc_fill # None
  <2>1. l1d_state' = "IDLE" /\ lc_in_reg'.valid
    BY <1>1, <1>7, IdleEdge DEF KeepInv
  <2>2. PortNow \in {"full", "idle_lo", "idle_hi"} /\ PortNow' = "fill" /\ LastTaken' = LastTaken
    BY <1>2, <1>7, <2>1 DEF PortNow, Accepts, CanAccept
  <2>3. QED
    BY <2>2 DEF Port!MeetFill, Port!Open
<1>8. CASE l1d_state = "IDLE" /\ ~lc_in_reg.valid /\ llc_fill = None /\ FreeMshrs = {}
  <2>1. l1d_state' = "IDLE" /\ ~lc_in_reg'.valid /\ FreeMshrs' = {}
    BY <1>1, <1>8, IdleEdge DEF KeepInv
  <2>2. PortNow = "full" /\ PortNow' = "full" /\ LastTaken' = LastTaken
    BY <1>2, <1>8, <2>1 DEF PortNow, Accepts, CanAccept
  <2>3. QED
    BY <2>2 DEF Port!StayFull
<1>9. CASE l1d_state = "IDLE" /\ ~lc_in_reg.valid /\ llc_fill = None /\ FreeMshrs # {}
  <2>1. /\ PortNow \in {"idle_lo", "idle_hi"} /\ lsu_ready_out' /\ FreeMshrs' # {}
        /\ ~lc_in_reg'.valid
    BY <1>1, <1>9, IdleEdge DEF PortNow, KeepInv, CanAccept
  <2>2. CASE Presented = None
    <3>1. l1d_state' = "IDLE" /\ LastTaken' = LastTaken
      BY <1>1, <1>2, <1>9, <2>2, IdleEdge DEF KeepInv, Accepts
    <3>2. PortNow' = "idle_hi" /\ ~l1d_valid_out
      BY <1>4, <2>1, <2>2, <3>1 DEF PortNow
    <3>3. QED
      BY <2>1, <3>1, <3>2 DEF Port!StayIdle, Port!Open
  <2>3. CASE Presented # None
    <3>1. l1d_state' # "IDLE" /\ LastTaken' = l1d_req_out
      BY <1>1, <1>2, <1>9, <2>3, IdleEdge DEF KeepInv, Accepts, CanAccept
    <3>2. PortNow' = "late_hi" /\ l1d_valid_out
      BY <1>4, <2>1, <2>3, <3>1 DEF PortNow
    <3>3. QED
      BY <2>1, <3>1, <3>2 DEF Port!TakeRequest, Port!Accepts, Port!Open
  <2>4. QED
    BY <2>2, <2>3
<1>10. QED
  BY <1>5, <1>6, <1>7, <1>8, <1>9

\* memory_interface sees the port's ready.
LEMMA MifEdgeHolds ==
  ASSUME KeepInv, NEW candidate \in LsuRequest \cup {None}, Steps(candidate)
  PROVE  Port!MifEdge(reg_dispatch', Port!L1dReady, mem_completion')
<1>1. lsu_ready_out \in BOOLEAN
  BY DEF KeepInv, CoreInv, TypeInv, TypeOK, L1dTypeOK
<1>2. Port!L1dReady <=> lsu_ready_out
  BY <1>1 DEF Port!L1dReady, PortNow, KeepInv, ShownInv
<1>3. Mif!MifEdge(candidate, lsu_ready_out, Answered)
  BY DEF Steps, ClockEdge
<1>4. Port!DispatchRegister(reg_dispatch')
  BY <1>3 DEF Mif!MifEdge, Mif!DispatchRegister, Mif!Loads, Port!DispatchRegister, Port!Loads
<1>5. Port!Idle(reg_dispatch) \/ Port!Dispatch(Port!L1dReady) \/ Port!WaitResp(Port!L1dReady)
  <2>1. CASE Mif!Idle(reg_dispatch)
    BY <2>1 DEF Mif!Idle, Port!Idle
  <2>2. CASE Mif!Dispatch(lsu_ready_out)
    BY <1>2, <2>2 DEF Mif!Dispatch, Port!Dispatch
  <2>3. CASE Mif!WaitResp(lsu_ready_out)
    BY <1>2, <2>3 DEF Mif!WaitResp, Port!WaitResp
  <2>4. QED
    BY <1>3, <2>1, <2>2, <2>3 DEF Mif!MifEdge
<1>6. QED
  BY <1>4, <1>5 DEF Port!MifEdge

LEMMA KeepsPortStep ==
  ASSUME KeepInv, [Next]_vars
  PROVE  [Port!ClockEdge(reg_dispatch', mem_completion')]_(Port!pathVars)
<1>1. ASSUME Next PROVE Port!ClockEdge(reg_dispatch', mem_completion')
  <2>1. TypeInv /\ TypeInv'
    BY <1>1, StepTypeInv DEF KeepInv, CoreInv
  <2>2. PICK candidate \in LsuRequest \cup {None} : Steps(candidate)
    BY <1>1, <2>1, NextSteps
  <2>3. QED
    BY <2>1, <2>2, PortEdgeHolds, MifEdgeHolds DEF Port!ClockEdge
<1>2. ASSUME UNCHANGED vars PROVE UNCHANGED Port!pathVars
  BY <1>2 DEF vars, l1dVars, envVars, Mif!mifVars, Port!pathVars, Port!mifVars, PortNow,
     LastTaken, RequestOf, FreeMshrs, Oldest
<1>3. QED
  BY <1>1, <1>2

LEMMA KeepsPortInit == Init => Port!Init
<1> SUFFICES ASSUME Init PROVE Port!Init
  OBVIOUS
<1>1. /\ l1d_state = "IDLE" /\ ~lsu_ready_out /\ taken = << >> /\ Mif!MifInit
      /\ mshr = [m \in Mshr |-> Queue!EmptyRing] /\ ~lc_in_reg.valid
  BY DEF Init, L1dInit
<1>2. 0 \in Mshr /\ 0 \in Queue!RingSlot
  BY L1dAssumption DEF Mshr, Queue!RingSlot
<1>3. 0 \in FreeMshrs
  <2>1. Oldest(0) = ZeroEntry
    BY <1>1, <1>2 DEF Oldest, Queue!req_out, Queue!EmptyRing
  <2>2. QED
    BY <1>2, <2>1 DEF FreeMshrs, ZeroEntry
<1>4. PortNow = "idle_lo"
  BY <1>1, <1>3 DEF PortNow
<1>5. LastTaken = None
  BY <1>1 DEF LastTaken
<1>6. QED
  BY <1>1, <1>4, <1>5 DEF Port!Init, Port!MifInit, Mif!MifInit

\* The L1D implements the request port DispatchPath and LoadStoreUnit are about,
\* for every size of it and every timing of the LLC.
THEOREM L1dKeepsPortHolds == Spec => L1dKeepsPort
<1>1. KeepInv /\ [Next]_vars => KeepInv'
  BY StepKeepInv
<1>2. KeepInv /\ [Next]_vars => [Port!ClockEdge(reg_dispatch', mem_completion')]_(Port!pathVars)
  BY KeepsPortStep
<1>3. QED
  BY InitKeepInv, KeepsPortInit, <1>1, <1>2, PTL DEF Spec, L1dKeepsPort

PathProofs == INSTANCE DispatchPathProofs WITH
                  Request <- LsuRequest, l1d_port <- PortNow, l1d_taken <- LastTaken

LEMMA PathAssumption == PathProofs!NoneAssumption
  BY L1dAssumption, SystemAssumption DEF PathProofs!NoneAssumption

LEMMA PathInit == Port!Init => PathProofs!Init
  BY DEF Port!Init, Port!MifInit, PathProofs!Init, PathProofs!MifInit

LEMMA PathStep ==
  ASSUME TypeInv', [Port!ClockEdge(reg_dispatch', mem_completion')]_(Port!pathVars)
  PROVE  [PathProofs!Next]_(PathProofs!pathVars)
<1>1. reg_dispatch' \in LsuRequest \cup {None} /\ mem_completion' \in Response \cup {None}
  BY DEF TypeInv, TypeOK, Mif!MifTypeOK
<1>2. ASSUME Port!ClockEdge(reg_dispatch', mem_completion')
      PROVE  PathProofs!ClockEdge(reg_dispatch', mem_completion')
  <2>1. PathProofs!MifEdge(reg_dispatch', PathProofs!L1dReady, mem_completion')
    BY <1>2 DEF Port!ClockEdge, Port!L1dReady, PathProofs!L1dReady, Port!MifEdge, PathProofs!MifEdge,
       Port!DispatchRegister, PathProofs!DispatchRegister, Port!Loads, PathProofs!Loads,
       Port!Idle, PathProofs!Idle, Port!Dispatch, PathProofs!Dispatch,
       Port!WaitResp, PathProofs!WaitResp
  <2>2. PathProofs!PortEdge
    BY <1>2 DEF Port!ClockEdge, Port!PortEdge, PathProofs!PortEdge,
       Port!TakeRequest, PathProofs!TakeRequest, Port!Accepts, PathProofs!Accepts,
       Port!Open, PathProofs!Open, Port!StayIdle, PathProofs!StayIdle,
       Port!StayFull, PathProofs!StayFull, Port!MeetFill, PathProofs!MeetFill,
       Port!ServeFill, PathProofs!ServeFill, Port!LowerReady, PathProofs!LowerReady,
       Port!Work, PathProofs!Work, Port!Reopen, PathProofs!Reopen
  <2>3. QED
    BY <2>1, <2>2 DEF PathProofs!ClockEdge
<1>3. CASE UNCHANGED Port!pathVars
  BY <1>3 DEF Port!pathVars, Port!mifVars, PathProofs!pathVars, PathProofs!mifVars
<1>4. QED
  BY <1>1, <1>2, <1>3 DEF PathProofs!Next

\* So the path of a request keeps its promise in the system too: what the queue
\* dispatches the L1D accepts at most once, unchanged and in order, and a request
\* is lost only where the L1D serves a fill after memory_interface has seen ready.
THEOREM HandoverInSystem == Spec => PathProofs!HandoverLosesOnlyToFill
<1>1. Init => PathProofs!IInv /\ PathProofs!Handover!FifoInit
  BY KeepsPortInit, PathInit, PathAssumption, PathProofs!InitIInv, PathProofs!InitHandover
<1>2. ASSUME KeepInv, [Next]_vars PROVE [PathProofs!Next]_(PathProofs!pathVars)
  BY <1>2, KeepsPortStep, StepKeepInv, PathStep DEF KeepInv, CoreInv
<1>3. ASSUME KeepInv, PathProofs!IInv, [Next]_vars
      PROVE  PathProofs!IInv' /\ [PathProofs!Handover!FifoNext]_(PathProofs!Handover!fifoVars)
  <2>1. [PathProofs!Next]_(PathProofs!pathVars)
    BY <1>2, <1>3
  <2>2. PathProofs!TypeOK' /\ PathProofs!PortInv'
    BY <1>3, <2>1, PathAssumption, PathProofs!StepTypeOK, PathProofs!StepPortInv DEF PathProofs!IInv
  <2>3. [PathProofs!Handover!FifoNext]_(PathProofs!Handover!fifoVars)
    BY <1>3, <2>1, PathAssumption, PathProofs!StepHandover
  <2>4. QED
    BY <2>2, <2>3 DEF PathProofs!IInv
<1>4. KeepInv /\ [Next]_vars => KeepInv'
  BY StepKeepInv
<1>5. QED
  BY InitKeepInv, <1>1, <1>3, <1>4, PTL
     DEF Spec, PathProofs!HandoverLosesOnlyToFill, PathProofs!Handover!FifoSpec

\* With every MSHR in use and no line on its way the L1D accepts nothing ever
\* again: a ring that has wrapped counts as in use although it is empty.
THEOREM ShutForGoodHolds == Spec => ShutForGood
<1>1. ASSUME KeepInv, [Next]_vars, Shut
      PROVE  Shut' /\ taken' = taken
  <2>1. /\ l1d_state = "IDLE" /\ ~lc_in_reg.valid /\ FreeMshrs = {}
        /\ owed = << >> /\ llc_fill = None /\ ~(lc_out.valid /\ ~lc_out.we)
    <3> DEFINE a == [i \in DOMAIN owed |-> owed[i].block]
               b == IF llc_fill = None THEN << >> ELSE << llc_fill.block >>
               c == IF lc_out.valid /\ ~lc_out.we THEN << lc_out.block >> ELSE << >>
    <3>1. owed \in Seq(Fill) /\ llc_fill \in Fill \cup {None} /\ lc_out.block \in Block
      BY <1>1 DEF KeepInv, CoreInv, TypeInv, TypeOK, L1dTypeOK
    <3>2. a \in Seq(Block) /\ Len(a) = Len(owed) /\ b \in Seq(Block) /\ c \in Seq(Block)
      <4>1. Len(owed) \in Nat /\ DOMAIN owed = 1 .. Len(owed) /\ \A i \in 1 .. Len(owed) : owed[i] \in Fill
        BY <3>1, LenProperties, ElementOfSeq
      <4>2. a \in [1 .. Len(owed) -> Block]
        BY <4>1 DEF Fill
      <4>3. a \in Seq(Block) /\ Len(a) = Len(owed)
        BY <4>1, <4>2
      <4>4. b \in Seq(Block) /\ c \in Seq(Block)
        BY <3>1 DEF Fill
      <4>5. QED
        BY <4>3, <4>4
    <3>3. a \o b \o c = << >>
      BY <1>1 DEF Shut, OutstandingReads
    <3> HIDE DEF a, b, c
    <3>4. Len(a) + Len(b) + Len(c) = 0
      BY <3>2, <3>3, ConcatProperties, LenProperties
    <3>5. Len(a) = 0 /\ Len(b) = 0 /\ Len(c) = 0
      BY <3>2, <3>4, LenProperties
    <3>6. owed = << >>
      BY <3>1, <3>2, <3>5, EmptySeq
    <3>7. llc_fill = None /\ ~(lc_out.valid /\ ~lc_out.we)
      BY <3>5 DEF b, c
    <3>8. QED
      BY <1>1, <3>6, <3>7 DEF Shut
  <2>2. ASSUME Next PROVE Shut' /\ taken' = taken
    <3>1. PICK candidate \in LsuRequest \cup {None} : Steps(candidate)
      BY <1>1, <2>2, NextSteps DEF KeepInv, CoreInv
    <3>2. ClockEdge(candidate) /\ L1dEdge(Presented, llc_fill, TRUE) /\ LlcTakes
      BY <3>1 DEF Steps, ClockEdge
    <3>3. l1d_state' = "IDLE" /\ ~lc_in_reg'.valid /\ FreeMshrs' = {}
      BY <1>1, <2>1, <3>2, IdleEdge DEF KeepInv
    <3>4. taken' = taken
      BY <2>1, <3>2 DEF ClockEdge, History, Accepts, CanAccept
    <3>5. owed' = << >> /\ llc_fill' = None
      BY <2>1, <3>2 DEF LlcTakes
    <3>6. ~lc_out'.valid
      <4>1. lc_out' = LcQuiet
        BY <2>1, <3>2 DEF L1dEdge, L1dIdle, ReadCache, L1dWriteCache, WaitCache, CheckMshr,
           ClearMshr, CompleteWrite, Evict, SendReqLc, SendRespHc
      <4>2. lc_out \in [valid : BOOLEAN, we : BOOLEAN, block : Block, line : Line]
        BY <1>1 DEF KeepInv, CoreInv, TypeInv, TypeOK, L1dTypeOK
      <4>3. QED
        BY <4>1, <4>2 DEF LcQuiet
    <3>7. OutstandingReads' = << >>
      BY <3>5, <3>6 DEF OutstandingReads
    <3>8. QED
      BY <3>3, <3>4, <3>7 DEF Shut
  <2>3. ASSUME UNCHANGED vars PROVE Shut' /\ taken' = taken
    BY <1>1, <2>3 DEF vars, l1dVars, envVars, Shut, OutstandingReads, FreeMshrs, Oldest
  <2>4. QED
    BY <1>1, <2>2, <2>3
<1>2. KeepInv /\ [Next]_vars => [Shut => Shut' /\ taken' = taken]_vars
  BY <1>1
<1>3. KeepInv /\ [Next]_vars => KeepInv'
  BY StepKeepInv
<1>4. QED
  BY InitKeepInv, <1>2, <1>3, PTL DEF Spec, ShutForGood

-----------------------------------------------------------------------------
(* The requests in the MSHRs.                                              *)

\* What waits k places behind the front of an MSHR, and for which k it counts.
Slot(m, k) == mshr[m].queue[Queue!RingAt(mshr[m], k)]
Live(m) == 0 .. mshr[m].size - 1

LEMMA RingFacts ==
  ASSUME L1dTypeOK, NEW m \in Mshr
  PROVE  /\ mshr[m].queue \in [Queue!RingSlot -> MshrEntry] /\ mshr[m].head \in Queue!RingSlot
         /\ mshr[m].size \in 0 .. QUEUE_SIZE /\ QUEUE_SIZE \in Nat \ {0}
         /\ mshr[m] = [queue |-> mshr[m].queue, head |-> mshr[m].head, size |-> mshr[m].size]
         /\ \A k \in 0 .. QUEUE_SIZE - 1 : Queue!RingAt(mshr[m], k) \in Queue!RingSlot
         /\ \A j, k \in 0 .. QUEUE_SIZE - 1 :
              Queue!RingAt(mshr[m], j) = Queue!RingAt(mshr[m], k) => j = k
         /\ Slot(m, 0) = Oldest(m)
         /\ \A k \in Live(m) : Slot(m, k) \in MshrEntry
<1>1. mshr[m] \in Queue!Ring /\ QUEUE_SIZE \in Nat \ {0}
  BY L1dAssumption DEF L1dTypeOK
<1>2. /\ mshr[m].queue \in [Queue!RingSlot -> MshrEntry] /\ mshr[m].head \in Queue!RingSlot
      /\ mshr[m].size \in 0 .. QUEUE_SIZE
      /\ mshr[m] = [queue |-> mshr[m].queue, head |-> mshr[m].head, size |-> mshr[m].size]
  BY <1>1 DEF Queue!Ring
<1>3. \A k \in 0 .. QUEUE_SIZE - 1 : Queue!RingAt(mshr[m], k) \in Queue!RingSlot
  BY <1>1, <1>2 DEF Queue!RingAt, Queue!RingSlot
<1>4. \A j, k \in 0 .. QUEUE_SIZE - 1 :
        Queue!RingAt(mshr[m], j) = Queue!RingAt(mshr[m], k) => j = k
  BY <1>1, <1>2 DEF Queue!RingAt, Queue!RingSlot
<1>5. Slot(m, 0) = Oldest(m)
  <2>1. Queue!RingAt(mshr[m], 0) = mshr[m].head
    BY <1>1, <1>2 DEF Queue!RingAt, Queue!RingSlot
  <2>2. QED
    BY <2>1 DEF Slot, Oldest, Queue!req_out
<1>6. \A k \in Live(m) : Slot(m, k) \in MshrEntry
  <2>1. Live(m) \subseteq 0 .. QUEUE_SIZE - 1
    BY <1>1, <1>2 DEF Live
  <2>2. QED
    BY <1>2, <1>3, <2>1 DEF Slot
<1>7. QED
  BY <1>1, <1>2, <1>3, <1>4, <1>5, <1>6

LEMMA KeptSlots ==
  ASSUME NEW m, mshr'[m] = mshr[m]
  PROVE  Live(m)' = Live(m) /\ Oldest(m)' = Oldest(m) /\ \A k : Slot(m, k)' = Slot(m, k)
  BY DEF Live, Slot, Oldest

\* A request is filed behind the others.
LEMMA FiledSlots ==
  ASSUME L1dTypeOK, NEW m \in Mshr, NEW e \in MshrEntry, ~Queue!full(mshr[m]),
         mshr' = [mshr EXCEPT ![m] = Queue!Enqueued(@, e)]
  PROVE  /\ \A n \in Mshr \ {m} : mshr'[n] = mshr[n]
         /\ \A k \in Live(m)' : Slot(m, k)' = IF k = mshr[m].size THEN e ELSE Slot(m, k)
         /\ Live(m)' = Live(m) \cup {mshr[m].size} /\ mshr[m].size \notin Live(m)
         /\ Oldest(m)' = IF Queue!empty(mshr[m]) THEN e ELSE Oldest(m)
         /\ ~Queue!empty(mshr'[m])
<1> DEFINE r == mshr[m]
<1>1. /\ r.queue \in [Queue!RingSlot -> MshrEntry] /\ r.head \in Queue!RingSlot
      /\ r.size \in 0 .. QUEUE_SIZE /\ QUEUE_SIZE \in Nat \ {0}
      /\ r = [queue |-> r.queue, head |-> r.head, size |-> r.size]
      /\ \A k \in 0 .. QUEUE_SIZE - 1 : Queue!RingAt(r, k) \in Queue!RingSlot
      /\ \A j, k \in 0 .. QUEUE_SIZE - 1 : Queue!RingAt(r, j) = Queue!RingAt(r, k) => j = k
      /\ Slot(m, 0) = Oldest(m)
  BY RingFacts
<1>2. r.size \in 0 .. QUEUE_SIZE - 1
  BY <1>1 DEF Queue!full
<1>3. mshr \in [Mshr -> Queue!Ring]
  BY DEF L1dTypeOK
<1>4. /\ mshr'[m] = Queue!Enqueued(r, e)
      /\ \A n \in Mshr \ {m} : mshr'[n] = mshr[n]
  BY <1>3
<1>5. mshr'[m] = [queue |-> [r.queue EXCEPT ![Queue!RingAt(r, r.size)] = e],
                  head |-> r.head, size |-> r.size + 1]
  BY <1>1, <1>4 DEF Queue!Enqueued
<1>6. \A k : Queue!RingAt(mshr'[m], k) = Queue!RingAt(r, k)
  BY <1>5 DEF Queue!RingAt
<1>7. Live(m)' = Live(m) \cup {r.size} /\ r.size \notin Live(m) /\ Live(m)' = 0 .. r.size
  <2>1. mshr'[m].size = r.size + 1
    BY <1>5
  <2>2. QED
    BY <1>2, <2>1 DEF Live
<1>8. \A k \in 0 .. QUEUE_SIZE - 1 : Slot(m, k)' = IF k = r.size THEN e ELSE Slot(m, k)
  <2>1. SUFFICES ASSUME NEW k \in 0 .. QUEUE_SIZE - 1
                 PROVE  Slot(m, k)' = IF k = r.size THEN e ELSE Slot(m, k)
    OBVIOUS
  <2>2. Slot(m, k)' = [r.queue EXCEPT ![Queue!RingAt(r, r.size)] = e][Queue!RingAt(r, k)]
    <3>1. Slot(m, k)' = mshr'[m].queue[Queue!RingAt(mshr'[m], k)]
      BY DEF Slot
    <3>2. mshr'[m].queue = [r.queue EXCEPT ![Queue!RingAt(r, r.size)] = e]
      BY <1>5
    <3>3. QED
      BY <1>6, <3>1, <3>2
  <2>3. Slot(m, k) = r.queue[Queue!RingAt(r, k)]
    BY DEF Slot
  <2> DEFINE i == Queue!RingAt(r, r.size)
             j == Queue!RingAt(r, k)
  <2>4. i \in Queue!RingSlot /\ j \in Queue!RingSlot /\ (i = j <=> k = r.size)
    BY <1>1, <1>2
  <2> HIDE DEF i, j
  <2>5. [r.queue EXCEPT ![i] = e][j] = IF j = i THEN e ELSE r.queue[j]
    BY <1>1, <2>4
  <2>6. QED
    BY <2>2, <2>3, <2>4, <2>5 DEF i, j
<1>9. \A k \in Live(m)' : k \in 0 .. QUEUE_SIZE - 1
  BY <1>1, <1>2, <1>7
<1>10. Oldest(m)' = IF Queue!empty(mshr[m]) THEN e ELSE Oldest(m)
  <2>1. Queue!RingAt(mshr'[m], 0) = r.head
    BY <1>1, <1>6 DEF Queue!RingAt, Queue!RingSlot
  <2>2. Oldest(m)' = Slot(m, 0)'
    BY <1>5, <2>1 DEF Oldest, Queue!req_out, Slot
  <2>3. 0 \in 0 .. QUEUE_SIZE - 1
    BY <1>1
  <2>4. QED
    BY <1>1, <1>8, <2>2, <2>3 DEF Queue!empty
<1>11. ~Queue!empty(mshr'[m])
  BY <1>1, <1>5 DEF Queue!empty
<1>12. QED
  BY <1>4, <1>7, <1>8, <1>9, <1>10, <1>11

\* The front of an MSHR is answered: the others move up.
LEMMA ServedSlots ==
  ASSUME L1dTypeOK, NEW m \in Mshr, ~Queue!empty(mshr[m]),
         mshr' = [mshr EXCEPT ![m] = Queue!Dequeued(@)]
  PROVE  /\ \A n \in Mshr \ {m} : mshr'[n] = mshr[n]
         /\ 0 \in Live(m)
         /\ \A k \in Live(m)' : k + 1 \in Live(m) /\ k + 1 # 0 /\ Slot(m, k)' = Slot(m, k + 1)
         /\ ~Queue!empty(mshr'[m]) => 1 \in Live(m) /\ Oldest(m)' = Slot(m, 1)
<1> DEFINE r == mshr[m]
<1>1. /\ r.queue \in [Queue!RingSlot -> MshrEntry] /\ r.head \in Queue!RingSlot
      /\ r.size \in 0 .. QUEUE_SIZE /\ QUEUE_SIZE \in Nat \ {0}
      /\ r = [queue |-> r.queue, head |-> r.head, size |-> r.size]
  BY RingFacts
<1>2. r.size \in 1 .. QUEUE_SIZE
  BY <1>1 DEF Queue!empty
<1>3. mshr \in [Mshr -> Queue!Ring]
  BY DEF L1dTypeOK
<1>4. /\ mshr'[m] = Queue!Dequeued(r)
      /\ \A n \in Mshr \ {m} : mshr'[n] = mshr[n]
  BY <1>3
<1>5. mshr'[m] = [queue |-> r.queue, head |-> Queue!RingAt(r, 1), size |-> r.size - 1]
  BY <1>1, <1>4 DEF Queue!Dequeued
<1>6. \A k \in 0 .. r.size - 2 : Queue!RingAt(mshr'[m], k) = Queue!RingAt(r, k + 1)
  <2> DEFINE h == r.head
  <2>1. h \in 0 .. QUEUE_SIZE - 1 /\ QUEUE_SIZE \in Nat /\ r.size \in 1 .. QUEUE_SIZE
    BY <1>1, <1>2 DEF Queue!RingSlot
  <2>2. mshr'[m].head = IF h + 1 < QUEUE_SIZE THEN h + 1 ELSE h + 1 - QUEUE_SIZE
    BY <1>5 DEF Queue!RingAt
  <2>3. ASSUME NEW k \in 0 .. r.size - 2
        PROVE  Queue!RingAt(mshr'[m], k) = Queue!RingAt(r, k + 1)
    <3>1. Queue!RingAt(r, k + 1) = IF h + (k + 1) < QUEUE_SIZE THEN h + (k + 1)
                                   ELSE h + (k + 1) - QUEUE_SIZE
      BY DEF Queue!RingAt
    <3>2. Queue!RingAt(mshr'[m], k) = IF mshr'[m].head + k < QUEUE_SIZE THEN mshr'[m].head + k
                                      ELSE mshr'[m].head + k - QUEUE_SIZE
      BY DEF Queue!RingAt
    <3> HIDE DEF h
    <3>3. k \in Nat /\ k <= QUEUE_SIZE - 2
      BY <2>1, <2>3
    <3>4. QED
      BY <2>1, <2>2, <3>1, <3>2, <3>3
  <2>4. QED
    BY <2>3
<1>7. Live(m)' = 0 .. r.size - 2 /\ 0 \in Live(m)
  <2>1. mshr'[m].size = r.size - 1
    BY <1>5
  <2>2. QED
    BY <1>2, <2>1 DEF Live
<1>8. \A k \in Live(m)' : k + 1 \in Live(m) /\ k + 1 # 0 /\ Slot(m, k)' = Slot(m, k + 1)
  <2>1. SUFFICES ASSUME NEW k \in 0 .. r.size - 2
                 PROVE  k + 1 \in Live(m) /\ k + 1 # 0 /\ Slot(m, k)' = Slot(m, k + 1)
    BY <1>7
  <2>2. k + 1 \in Live(m) /\ k + 1 # 0
    BY <1>2 DEF Live
  <2>3. Slot(m, k)' = Slot(m, k + 1)
    BY <1>5, <1>6 DEF Slot
  <2>4. QED
    BY <2>2, <2>3
<1>9. ~Queue!empty(mshr'[m]) => 1 \in Live(m) /\ Oldest(m)' = Slot(m, 1)
  <2>1. SUFFICES ASSUME ~Queue!empty(mshr'[m]) PROVE 1 \in Live(m) /\ Oldest(m)' = Slot(m, 1)
    OBVIOUS
  <2>2. r.size - 1 # 0
    BY <1>5, <2>1 DEF Queue!empty
  <2>3. 1 \in Live(m)
    BY <1>2, <2>2 DEF Live
  <2>4. QED
    BY <1>5, <2>3 DEF Oldest, Queue!req_out, Slot
<1>10. QED
  BY <1>4, <1>7, <1>8, <1>9

-----------------------------------------------------------------------------
(* Each accepted request has one place: the latch, an MSHR slot, or the    *)
(* answer that is on the wires; it is answered when it leaves the last.    *)

Open(t) == t \in Taken /\ answered[t] = 0
Waits(t) == \E m \in Mshr : \E k \in Live(m) : Slot(m, k).tag = t

\* The L1D works on the latched request.
Serving ==
    \/ l1d_state \in {"READ_CACHE", "WAIT_CACHE", "CHECK_MSHR", "SEND_RESP_HC", "COMPLETE_WRITE"}
    \/ l1d_state = "WRITE_CACHE" /\ ~lc_in_reg.valid

\* A request yet to be answered, with its kind as the program has it.
Fits(t, store) == Open(t) /\ (store <=> program[t].store)

SlotsInv ==
    /\ \A m \in Mshr : \A k \in Live(m) : Slot(m, k).valid /\ Fits(Slot(m, k).tag, Slot(m, k).store)
    /\ \A m, n \in Mshr : \A j \in Live(m), k \in Live(n) :
          Slot(m, j).tag = Slot(n, k).tag => m = n /\ j = k

ServingInv ==
    Serving => /\ lsu_in_reg.valid /\ ~lsu_out.valid /\ lsu_out.tag = lsu_in_reg.tag
               /\ Fits(lsu_in_reg.tag, lsu_in_reg.store) /\ ~Waits(lsu_in_reg.tag)

AnswerInv ==
    lsu_out.valid => /\ l1d_state \in {"IDLE", "CLEAR_MSHR"}
                     /\ Fits(lsu_out.tag, lsu_out.write_complete) /\ ~Waits(lsu_out.tag)

PlaceInv ==
    /\ AnsweredOnce
    /\ \A t \in Tag : answered[t] # 0 => t \in Taken
    /\ SlotsInv /\ ServingInv /\ AnswerInv

\* What an edge does with requests: nothing, accept one, answer the latched
\* one, file it in an MSHR, or answer the oldest of the MSHR that was filled.
Rests ==
    /\ mshr' = mshr /\ ~lsu_out'.valid
    /\ ~Accepts(Presented, llc_fill) /\ l1d_state' # "SEND_REQ_LC"
    /\ Serving' => Serving /\ lsu_in_reg' = lsu_in_reg /\ lsu_out'.tag = lsu_out.tag

TakesOne ==
    /\ mshr' = mshr /\ ~lsu_out'.valid
    /\ Accepts(Presented, llc_fill) /\ l1d_state' # "SEND_REQ_LC"
    /\ lsu_in_reg' = [valid |-> TRUE, tag |-> Presented.tag, store |-> Presented.store,
                      addr |-> Presented.addr, value |-> Presented.value]
    /\ lsu_out'.tag = Presented.tag

AnswersOne ==
    /\ mshr' = mshr /\ Serving
    /\ l1d_state' = "IDLE" /\ ~Accepts(Presented, llc_fill)
    /\ lsu_out'.valid /\ lsu_out'.tag = lsu_out.tag
    /\ lsu_out'.write_complete <=> lsu_in_reg.store

FilesOne(m) ==
    /\ l1d_state = "CHECK_MSHR" /\ lsu_in_reg' = lsu_in_reg
    /\ ~Queue!full(mshr[m])
    /\ mshr' = [mshr EXCEPT ![m] = Queue!Enqueued(@, lsu_in_reg)]
    /\ \/ Tracking = {} /\ m \in FreeMshrs /\ Queue!empty(mshr[m]) /\ l1d_state' = "SEND_REQ_LC"
       \/ m \in Tracking /\ m = Min(Tracking) /\ l1d_state' = "IDLE"
    /\ ~lsu_out'.valid /\ ~Serving' /\ ~Accepts(Presented, llc_fill)

ReplaysOne(m) ==
    /\ l1d_state = "CLEAR_MSHR" /\ l1d_state' = "CLEAR_MSHR"
    /\ m \in Filled /\ ~Queue!empty(mshr[m])
    /\ mshr' = [mshr EXCEPT ![m] = Queue!Dequeued(@)]
    /\ lc_in_reg'.block = lc_in_reg.block
    /\ lsu_out'.valid /\ lsu_out'.tag = Oldest(m).tag
    /\ lsu_out'.write_complete <=> Oldest(m).store
    /\ ~Accepts(Presented, llc_fill)

LEMMA Moves ==
  ASSUME TypeInv, WriteBackInv, FillInv, LockInv, SlotsInv,
         L1dEdge(Presented, llc_fill, TRUE), LlcTakes
  PROVE  Rests \/ TakesOne \/ AnswersOne \/ \E m \in Mshr : FilesOne(m) \/ ReplaysOne(m)
<1>1. /\ lsu_out \in [valid : BOOLEAN, tag : Tag \cup {0}, value : Value, write_complete : BOOLEAN]
      /\ lc_in_reg \in [valid : BOOLEAN, block : Block, line : Line]
      /\ lsu_in_reg \in MshrEntry /\ L1dTypeOK /\ Mshr \subseteq Nat
  BY L1dAssumption DEF TypeInv, TypeOK, L1dTypeOK, Mshr
<1>3. LsuQuiet.valid = FALSE /\ LsuQuiet.tag = lsu_out.tag
  BY <1>1 DEF LsuQuiet
<1>4. CASE L1dIdle(Presented, llc_fill)
  <2>1. CASE Accepts(Presented, llc_fill)
    <3>1. Presented # None
      BY <2>1 DEF Accepts
    <3>2. /\ lsu_out' = [LsuQuiet EXCEPT !.tag = Presented.tag] /\ mshr' = mshr
          /\ lsu_in_reg' = [valid |-> TRUE, tag |-> Presented.tag, store |-> Presented.store,
                            addr |-> Presented.addr, value |-> Presented.value]
      BY <1>4, <3>1 DEF L1dIdle, KeepMshr
    <3>3. lsu_out' = [lsu_out EXCEPT !.valid = FALSE, !.write_complete = FALSE, !.tag = Presented.tag]
      BY <3>2 DEF LsuQuiet
    <3>4. ~lsu_out'.valid /\ lsu_out'.tag = Presented.tag
      BY <1>1, <3>3
    <3>5. QED
      BY <1>4, <2>1, <3>2, <3>4 DEF TakesOne, L1dIdle
  <2>2. CASE ~Accepts(Presented, llc_fill)
    <3>1. mshr' = mshr /\ ~lsu_out'.valid
      BY <1>1, <1>4 DEF L1dIdle, KeepMshr, LsuQuiet
    <3>2. ~Serving' /\ l1d_state' # "SEND_REQ_LC"
      <4>1. lc_in_reg.valid => l1d_state' = "WRITE_CACHE" /\ lc_in_reg'.valid
        BY <1>4, StepFillInv DEF L1dIdle
      <4>2. ~lc_in_reg.valid => l1d_state' = "IDLE"
        BY <1>4, <2>2 DEF L1dIdle
      <4>3. QED
        BY <4>1, <4>2 DEF Serving
    <3>3. QED
      BY <2>2, <3>1, <3>2 DEF Rests
  <2>3. QED
    BY <2>1, <2>2
<1>5. CASE ReadCache \/ L1dWriteCache
  <2>1. mshr' = mshr /\ lsu_out' = LsuQuiet /\ lsu_in_reg' = lsu_in_reg /\ l1d_state # "IDLE"
    BY <1>5 DEF ReadCache, L1dWriteCache, NoAccept, KeepMshr
  <2>2. (Serving' => Serving) /\ l1d_state' # "SEND_REQ_LC"
    BY <1>5 DEF ReadCache, L1dWriteCache, Serving
  <2>3. QED
    BY <1>3, <2>1, <2>2 DEF Rests, Accepts
<1>6. CASE WaitCache
  <2>1. mshr' = mshr /\ lsu_in_reg' = lsu_in_reg /\ l1d_state = "WAIT_CACHE"
    BY <1>6 DEF WaitCache, NoAccept, KeepMshr
  <2>2. lsu_out'.valid = FALSE /\ lsu_out'.tag = lsu_out.tag
    <3>1. CacheMisses => lsu_out' = LsuQuiet
      BY DEF CacheMisses
    <3>2. CacheSilent => lsu_out' = LsuQuiet
      BY DEF CacheSilent
    <3>3. CacheHits => \E v : lsu_out' = [lsu_out EXCEPT !.valid = FALSE, !.write_complete = FALSE,
                                                         !.value = v]
      BY DEF CacheHits, LsuQuiet
    <3>4. QED
      BY <1>1, <1>3, <1>6, <3>1, <3>2, <3>3 DEF WaitCache
  <2>3. l1d_state' # "SEND_REQ_LC"
    BY <1>6 DEF WaitCache, CacheMisses, CacheHits, CacheSilent
  <2>4. QED
    BY <2>1, <2>2, <2>3 DEF Rests, Accepts, Serving
<1>7. CASE SendReqLc
  <2>1. mshr' = mshr /\ lsu_out' = LsuQuiet /\ l1d_state = "SEND_REQ_LC"
        /\ l1d_state' = "IDLE"
    BY <1>7 DEF SendReqLc, KeepMshr, LockInv, InputsInv
  <2>2. QED
    BY <1>3, <2>1 DEF Rests, Accepts, Serving
<1>8. CASE SendRespHc
  <2>1. mshr' = mshr /\ l1d_state = "SEND_RESP_HC" /\ l1d_state' = "IDLE" /\ ~lsu_in_reg.store
    BY <1>8 DEF SendRespHc, KeepMshr, LockInv, PhaseInv
  <2>2. lsu_out' = [lsu_out EXCEPT !.valid = TRUE, !.write_complete = FALSE,
                                   !.value = cache_out.hc_value]
    BY <1>8 DEF SendRespHc, LsuQuiet
  <2>3. lsu_out'.valid /\ lsu_out'.tag = lsu_out.tag /\ ~lsu_out'.write_complete
    BY <1>1, <2>2
  <2>4. QED
    BY <2>1, <2>3 DEF AnswersOne, Accepts, Serving
<1>9. CASE CompleteWrite
  <2>1. mshr' = mshr /\ l1d_state = "COMPLETE_WRITE" /\ l1d_state' = "IDLE" /\ lsu_in_reg.store
    BY <1>9 DEF CompleteWrite, KeepMshr, LockInv, PhaseInv
  <2>2. lsu_out' = [lsu_out EXCEPT !.valid = TRUE, !.write_complete = TRUE]
    BY <1>9 DEF CompleteWrite
  <2>3. lsu_out'.valid /\ lsu_out'.tag = lsu_out.tag /\ lsu_out'.write_complete
    BY <1>1, <2>2
  <2>4. QED
    BY <2>1, <2>3 DEF AnswersOne, Accepts, Serving
<1>10. CASE CheckMshr
  <2>1. /\ l1d_state = "CHECK_MSHR" /\ lsu_in_reg' = lsu_in_reg /\ FreeMshrs # {}
        /\ ~Accepts(Presented, llc_fill) /\ Serving
    BY <1>10 DEF CheckMshr, NoAccept, LockInv, FreeInv, Accepts, Serving
  <2>2. CASE PrimaryMiss
    <3> DEFINE m == Min(FreeMshrs)
    <3>1. m \in FreeMshrs /\ m \in Mshr
      BY <2>1, <1>1, MinMember DEF FreeMshrs
    <3>2. /\ Tracking = {} /\ l1d_state' = "SEND_REQ_LC" /\ lsu_out' = LsuQuiet
          /\ mshr' = [mshr EXCEPT ![m] = Queue!Enqueued(@, lsu_in_reg)]
      BY <2>1, <2>2 DEF PrimaryMiss
    <3> HIDE DEF m
    <3>3. /\ mshr[m].size \in 0 .. QUEUE_SIZE /\ QUEUE_SIZE \in Nat \ {0}
          /\ Slot(m, 0) = Oldest(m)
      BY <1>1, <3>1, RingFacts
    <3>4. 0 \notin Live(m)
      BY <3>1, <3>3 DEF SlotsInv, FreeMshrs
    <3>5. Queue!empty(mshr[m]) /\ ~Queue!full(mshr[m])
      BY <3>3, <3>4 DEF Live, Queue!empty, Queue!full
    <3>6. FilesOne(m)
      BY <1>3, <2>1, <3>1, <3>2, <3>5 DEF FilesOne, Serving
    <3>7. QED
      BY <3>1, <3>6
  <2>3. CASE SecondaryMiss
    <3> DEFINE m == Min(Tracking)
    <3>1. m \in Tracking /\ m \in Mshr
      BY <2>3, <1>1, MinMember DEF Tracking, SecondaryMiss
    <3>2. CASE Queue!full(mshr[m])
      <4>1. l1d_state' = "IDLE" /\ mshr' = mshr /\ lsu_out' = LsuQuiet
        BY <2>3, <3>2 DEF SecondaryMiss, KeepMshr
      <4>2. QED
        BY <1>3, <2>1, <4>1 DEF Rests, Serving
    <3>3. CASE ~Queue!full(mshr[m]) /\ (~lsu_in_reg.store /\ Forwarders(m) # {})
      <4>1. /\ l1d_state' = "SEND_RESP_HC" /\ mshr' = mshr
            /\ \E v : lsu_out' = [lsu_out EXCEPT !.valid = FALSE, !.write_complete = FALSE, !.value = v]
        BY <2>3, <3>3 DEF SecondaryMiss, KeepMshr, LsuQuiet
      <4>2. ~lsu_out'.valid /\ lsu_out'.tag = lsu_out.tag
        BY <1>1, <4>1
      <4>3. QED
        BY <2>1, <4>1, <4>2 DEF Rests
    <3>4. CASE ~Queue!full(mshr[m]) /\ ~(~lsu_in_reg.store /\ Forwarders(m) # {})
      <4>1. /\ l1d_state' = "IDLE" /\ lsu_out' = LsuQuiet
            /\ mshr' = [mshr EXCEPT ![m] = Queue!Enqueued(@, lsu_in_reg)]
        BY <2>3, <3>4 DEF SecondaryMiss
      <4>2. FilesOne(m)
        BY <1>3, <2>1, <3>1, <3>4, <4>1 DEF FilesOne, Serving
      <4>3. QED
        BY <3>1, <4>2
    <3>5. QED
      BY <3>2, <3>3, <3>4
  <2>4. QED
    BY <1>10, <2>2, <2>3 DEF CheckMshr
<1>11. CASE ClearMshr
  <2>1. l1d_state = "CLEAR_MSHR" /\ ~Accepts(Presented, llc_fill)
    BY <1>11 DEF ClearMshr, Accepts
  <2>2. CASE Playback
    <3> DEFINE m == Min(Filled)
               e == Oldest(m)
    <3>1. m \in Filled /\ m \in Mshr /\ ~Queue!empty(mshr[m])
      BY <2>2, <1>1, MinMember DEF Filled, Playback, Replays
    <3>2. /\ mshr' = [mshr EXCEPT ![m] = Queue!Dequeued(@)]
          /\ lsu_out' = [valid |-> TRUE, tag |-> e.tag, write_complete |-> e.store,
                         value |-> IF e.store THEN lsu_out.value
                                   ELSE lc_in_reg.line[e.addr.word]]
          /\ \/ lc_in_reg' = lc_in_reg
             \/ \E w, v : lc_in_reg' = [lc_in_reg EXCEPT !.line[w] = v]
          /\ l1d_state' = l1d_state
      BY <2>2 DEF Playback
    <3> HIDE DEF m, e
    <3>3. lsu_out'.valid /\ lsu_out'.tag = e.tag /\ (lsu_out'.write_complete <=> e.store)
      BY <3>2
    <3>4. lc_in_reg'.block = lc_in_reg.block
      BY <1>1, <3>2
    <3>5. ReplaysOne(m)
      BY <2>1, <3>1, <3>2, <3>3, <3>4 DEF ReplaysOne, e
    <3>6. QED
      BY <3>1, <3>5
  <2>3. CASE Install
    <3>1. l1d_state' = "IDLE" /\ lsu_out' = LsuQuiet /\ mshr' = mshr
      BY <2>3 DEF Install, KeepMshr
    <3>2. QED
      BY <1>3, <2>1, <3>1 DEF Rests, Serving
  <2>4. QED
    BY <1>11, <2>2, <2>3 DEF ClearMshr
<1>12. QED
  BY <1>4, <1>5, <1>6, <1>7, <1>8, <1>9, <1>10, <1>11 DEF L1dEdge, Evict, WriteBackInv, NothingWrittenBack

LEMMA StepPlaceInv ==
  ASSUME CoreInv, PlaceInv, NEW candidate \in LsuRequest \cup {None}, Steps(candidate), CoreInv'
  PROVE  PlaceInv'
<1>1. /\ ClockEdge(candidate) /\ Offers(candidate) /\ L1dEdge(Presented, llc_fill, TRUE) /\ LlcTakes
      /\ TypeInv /\ L1dTypeOK /\ SlotsInv
  BY DEF Steps, ClockEdge, CoreInv, TypeInv, TypeOK, PlaceInv
<1>2. /\ \A t \in Tag : answered'[t] = IF lsu_out.valid /\ lsu_out.tag = t /\ answered[t] < 2
                                       THEN answered[t] + 1 ELSE answered[t]
      /\ answered \in [Tag -> 0 .. 2]
  BY <1>1 DEF ClockEdge, History, TypeInv, TypeOK
<1>3. /\ Accepts(Presented, llc_fill) =>
           /\ Taken' = Taken \cup {Presented.tag} /\ Presented.tag \notin Taken
           /\ Presented \in LsuRequest /\ Known(Presented) /\ l1d_state = "IDLE" /\ ~lc_in_reg.valid
      /\ ~Accepts(Presented, llc_fill) => Taken' = Taken
      /\ Taken \subseteq Tag /\ Taken \subseteq 1 .. Len(program)
  <2>1. Accepts(Presented, llc_fill) => l1d_state = "IDLE" /\ ~lc_in_reg.valid
    BY DEF Accepts
  <2>2. Accepts(Presented, llc_fill) =>
          /\ Taken' = Taken \cup {l1d_req_out.tag} /\ Presented = l1d_req_out
          /\ Presented \in LsuRequest /\ l1d_valid_out
    BY <1>1, TakenGrows
  <2>3. l1d_valid_out => l1d_req_out = lat /\ Known(lat)
    BY DEF CoreInv, PortInv
  <2>4. Accepts(Presented, llc_fill) => lat.tag \notin Taken
    BY <2>1, <2>2 DEF CoreInv, PortInv
  <2>5. ~Accepts(Presented, llc_fill) => Taken' = Taken
    BY <1>1, TakenGrows
  <2>6. Taken \subseteq Tag
    BY <1>1 DEF Taken, ToSet, TypeInv, TypeOK
  <2>7. Taken \subseteq 1 .. Len(program)
    BY DEF CoreInv, PortInv
  <2>8. QED
    BY <2>1, <2>2, <2>3, <2>4, <2>5, <2>6, <2>7
<1>4. /\ \A t \in Tag : answered[t] <= 1
      /\ \A t \in Tag : answered[t] # 0 => t \in Taken
      /\ lsu_out.valid => /\ l1d_state \in {"IDLE", "CLEAR_MSHR"}
                          /\ Open(lsu_out.tag) /\ ~Waits(lsu_out.tag)
  BY DEF PlaceInv, AnsweredOnce, AnswerInv, Fits
<1>5. AnsweredOnce' /\ \A t \in Tag : answered'[t] # 0 => t \in Taken'
  <2>1. ASSUME NEW t \in Tag
        PROVE  answered'[t] <= 1 /\ (answered'[t] # 0 => t \in Taken')
    <3>1. CASE lsu_out.valid /\ lsu_out.tag = t
      BY <1>2, <1>3, <1>4, <3>1 DEF Open
    <3>2. CASE ~(lsu_out.valid /\ lsu_out.tag = t)
      BY <1>2, <1>3, <1>4, <3>2
    <3>3. QED
      BY <3>1, <3>2
  <2>2. QED
    BY <2>1 DEF AnsweredOnce
<1>6. \A t, store : Fits(t, store) /\ ~(lsu_out.valid /\ lsu_out.tag = t) =>
        t \in Taken' /\ answered'[t] = 0 /\ (store <=> program'[t].store)
  <2>1. ASSUME NEW t, NEW store, Fits(t, store), ~(lsu_out.valid /\ lsu_out.tag = t)
        PROVE  t \in Taken' /\ answered'[t] = 0 /\ (store <=> program'[t].store)
    <3>1. t \in Taken /\ t \in Tag /\ t \in 1 .. Len(program) /\ answered[t] = 0
      BY <1>3, <2>1 DEF Fits, Open
    <3>2. answered'[t] = 0 /\ t \in Taken'
      BY <1>2, <1>3, <2>1, <3>1
    <3>3. program'[t] = program[t]
      BY <1>1, <3>1, ProgramGrows
    <3>4. QED
      BY <2>1, <3>2, <3>3 DEF Fits, Open
  <2>2. QED
    BY <2>1
<1>7. /\ \A m \in Mshr : \A k \in Live(m) :
           /\ Slot(m, k).valid /\ Fits(Slot(m, k).tag, Slot(m, k).store)
           /\ Waits(Slot(m, k).tag)
           /\ ~(lsu_out.valid /\ lsu_out.tag = Slot(m, k).tag)
      /\ \A m, n \in Mshr : \A j \in Live(m), k \in Live(n) :
           Slot(m, j).tag = Slot(n, k).tag => m = n /\ j = k
  BY <1>1, <1>4 DEF SlotsInv, Waits
<1>8. ASSUME mshr' = mshr
      PROVE  /\ SlotsInv'
             /\ \A t : (\E m \in Mshr : \E k \in Live(m)' : Slot(m, k)'.tag = t) => Waits(t)
  <2>1. \A m \in Mshr : Live(m)' = Live(m) /\ \A k : Slot(m, k)' = Slot(m, k)
    BY <1>8, KeptSlots
  <2>2. \A t : (\E m \in Mshr : \E k \in Live(m)' : Slot(m, k)'.tag = t) => Waits(t)
    BY <2>1 DEF Waits
  <2>3. \A m \in Mshr : \A k \in Live(m)' :
          Slot(m, k)'.valid /\ Fits(Slot(m, k).tag, Slot(m, k).store)'
    BY <1>6, <1>7, <2>1 DEF Fits, Open
  <2>4. QED
    BY <1>7, <2>1, <2>2, <2>3 DEF SlotsInv
<1>9. Serving => /\ lsu_in_reg.valid /\ ~lsu_out.valid /\ lsu_out.tag = lsu_in_reg.tag
                 /\ Fits(lsu_in_reg.tag, lsu_in_reg.store) /\ ~Waits(lsu_in_reg.tag)
  BY DEF PlaceInv, ServingInv
<1>10. CASE Rests
  <2>1. SlotsInv' /\ AnswerInv'
    BY <1>8, <1>10 DEF Rests, AnswerInv
  <2>2. ServingInv'
    <3>1. SUFFICES ASSUME Serving'
                   PROVE  /\ lsu_in_reg'.valid /\ ~lsu_out'.valid /\ lsu_out'.tag = lsu_in_reg'.tag
                          /\ Fits(lsu_in_reg.tag, lsu_in_reg.store)' /\ ~Waits(lsu_in_reg.tag)'
      BY DEF ServingInv
    <3>2. /\ Serving /\ lsu_in_reg' = lsu_in_reg /\ lsu_out'.tag = lsu_out.tag /\ ~lsu_out'.valid
          /\ mshr' = mshr
      BY <1>10, <3>1 DEF Rests
    <3>3. Fits(lsu_in_reg.tag, lsu_in_reg.store)'
      BY <1>6, <1>9, <3>2 DEF Fits, Open
    <3>4. ~Waits(lsu_in_reg.tag)'
      BY <1>8, <1>9, <3>2 DEF Waits
    <3>5. QED
      BY <1>9, <3>2, <3>3, <3>4
  <2>3. QED
    BY <1>5, <2>1, <2>2 DEF PlaceInv
<1>11. CASE TakesOne
  <2>1. SlotsInv' /\ AnswerInv'
    BY <1>8, <1>11 DEF TakesOne, AnswerInv
  <2>2. ServingInv'
    <3> DEFINE t == Presented.tag
    <3>1. /\ t \in Taken' /\ t \notin Taken /\ t \in Tag /\ Known(Presented)
          /\ lsu_in_reg'.valid /\ lsu_in_reg'.tag = t /\ lsu_in_reg'.store = Presented.store
          /\ lsu_out'.tag = t /\ ~lsu_out'.valid /\ mshr' = mshr
      BY <1>3, <1>11 DEF TakesOne, LsuRequest
    <3>2. answered'[t] = 0
      BY <1>2, <1>4, <3>1 DEF Open
    <3>3. program'[t] = program[t] /\ program[t].store = Presented.store
      <4>1. t \in 1 .. Len(program) /\ program[t] = [store |-> Presented.store, addr |-> Presented.addr]
        BY <3>1 DEF Known
      <4>2. \A u \in 1 .. Len(program) : program'[u] = program[u]
        BY <1>1, ProgramGrows
      <4> HIDE DEF t
      <4>3. program'[t] = program[t]
        BY <4>1, <4>2
      <4>4. program[t].store = Presented.store
        BY <4>1
      <4>5. QED
        BY <4>3, <4>4
    <3> HIDE DEF t
    <3>4. Fits(lsu_in_reg.tag, lsu_in_reg.store)'
      BY <3>1, <3>2, <3>3 DEF Fits, Open
    <3>5. ~Waits(t)
      BY <1>7, <3>1 DEF Waits, Fits, Open
    <3>6. ~Waits(lsu_in_reg.tag)'
      BY <1>8, <3>1, <3>5 DEF Waits
    <3>7. QED
      BY <3>1, <3>4, <3>6 DEF ServingInv
  <2>3. QED
    BY <1>5, <2>1, <2>2 DEF PlaceInv
<1>12. CASE AnswersOne
  <2>1. SlotsInv' /\ ServingInv'
    BY <1>8, <1>12 DEF AnswersOne, ServingInv, Serving
  <2>2. AnswerInv'
    <3>1. /\ Serving /\ l1d_state' = "IDLE" /\ lsu_out'.tag = lsu_in_reg.tag /\ mshr' = mshr
          /\ lsu_out'.write_complete <=> lsu_in_reg.store
      BY <1>9, <1>12 DEF AnswersOne
    <3>2. Fits(lsu_out.tag, lsu_out.write_complete)'
      BY <1>6, <1>9, <3>1 DEF Fits, Open
    <3>3. ~Waits(lsu_out.tag)'
      BY <1>8, <1>9, <3>1 DEF Waits
    <3>4. QED
      BY <3>1, <3>2, <3>3 DEF AnswerInv
  <2>3. QED
    BY <1>5, <2>1, <2>2 DEF PlaceInv
<1>13. ASSUME NEW m \in Mshr, FilesOne(m)
       PROVE  PlaceInv'
  <2>1. /\ l1d_state = "CHECK_MSHR" /\ ~Queue!full(mshr[m]) /\ lsu_in_reg' = lsu_in_reg
        /\ mshr' = [mshr EXCEPT ![m] = Queue!Enqueued(@, lsu_in_reg)]
        /\ ~lsu_out'.valid /\ ~Serving'
    BY <1>13 DEF FilesOne
  <2>2. /\ lsu_in_reg.valid /\ ~lsu_out.valid /\ lsu_in_reg \in MshrEntry
        /\ Fits(lsu_in_reg.tag, lsu_in_reg.store) /\ ~Waits(lsu_in_reg.tag)
    BY <1>1, <1>9, <2>1 DEF Serving, L1dTypeOK
  <2> DEFINE New(n, k) == n = m /\ k = mshr[m].size
  <2>3. /\ mshr[m].size \notin Live(m)
        /\ \A n \in Mshr : \A k \in Live(n)' :
              \/ New(n, k) /\ Slot(n, k)' = lsu_in_reg
              \/ k \in Live(n) /\ Slot(n, k)' = Slot(n, k)
    <3>1. /\ \A n \in Mshr \ {m} : mshr'[n] = mshr[n]
          /\ \A k \in Live(m)' : Slot(m, k)' = IF k = mshr[m].size THEN lsu_in_reg ELSE Slot(m, k)
          /\ Live(m)' = Live(m) \cup {mshr[m].size} /\ mshr[m].size \notin Live(m)
      BY <1>1, <2>1, <2>2, FiledSlots
    <3>2. \A n \in Mshr \ {m} : Live(n)' = Live(n) /\ \A k : Slot(n, k)' = Slot(n, k)
      BY <3>1, KeptSlots
    <3>3. QED
      BY <3>1, <3>2
  <2>4. \A n \in Mshr : \A k \in Live(n)' :
          Slot(n, k)'.valid /\ Fits(Slot(n, k).tag, Slot(n, k).store)'
    <3>1. ASSUME NEW n \in Mshr, NEW k \in Live(n)'
          PROVE  Slot(n, k)'.valid /\ Fits(Slot(n, k).tag, Slot(n, k).store)'
      <4>1. CASE Slot(n, k)' = lsu_in_reg
        BY <1>6, <2>2, <4>1 DEF Fits, Open
      <4>2. CASE k \in Live(n) /\ Slot(n, k)' = Slot(n, k)
        BY <1>6, <1>7, <4>2 DEF Fits, Open
      <4>3. QED
        BY <2>3, <4>1, <4>2
    <3>2. QED
      BY <3>1
  <2>5. \A n, o \in Mshr : \A j \in Live(n)', k \in Live(o)' :
          Slot(n, j)'.tag = Slot(o, k)'.tag => n = o /\ j = k
    <3>1. \A n \in Mshr : \A k \in Live(n) : Slot(n, k).tag # lsu_in_reg.tag
      BY <2>2 DEF Waits
    <3>2. QED
      BY <1>7, <2>3, <3>1
  <2>6. SlotsInv'
    BY <2>4, <2>5 DEF SlotsInv
  <2>7. QED
    BY <1>5, <2>1, <2>6 DEF PlaceInv, ServingInv, AnswerInv
<1>14. ASSUME NEW m \in Mshr, ReplaysOne(m)
       PROVE  PlaceInv'
  <2>1. /\ l1d_state = "CLEAR_MSHR" /\ l1d_state' = "CLEAR_MSHR" /\ ~Queue!empty(mshr[m])
        /\ mshr' = [mshr EXCEPT ![m] = Queue!Dequeued(@)]
        /\ lsu_out'.tag = Slot(m, 0).tag
        /\ lsu_out'.write_complete <=> Slot(m, 0).store
    BY <1>1, <1>14, RingFacts DEF ReplaysOne
  <2> DEFINE Old(n, k) == IF n = m THEN k + 1 ELSE k
  <2>2. /\ 0 \in Live(m)
        /\ \A n \in Mshr : \A k \in Live(n)' :
              /\ Old(n, k) \in Live(n) /\ Slot(n, k)' = Slot(n, Old(n, k))
              /\ n = m => Old(n, k) # 0
    <3>1. /\ \A n \in Mshr \ {m} : mshr'[n] = mshr[n]
          /\ 0 \in Live(m)
          /\ \A k \in Live(m)' : k + 1 \in Live(m) /\ k + 1 # 0 /\ Slot(m, k)' = Slot(m, k + 1)
      BY <1>1, <2>1, ServedSlots
    <3>2. \A n \in Mshr \ {m} : Live(n)' = Live(n) /\ \A k : Slot(n, k)' = Slot(n, k)
      BY <3>1, KeptSlots
    <3>3. QED
      BY <3>1, <3>2
  <2>3. \A n \in Mshr : \A j, k \in Live(n)' : Old(n, j) = Old(n, k) => j = k
    <3>1. \A n \in Mshr : Live(n)' \subseteq Int
      BY DEF Live
    <3>2. QED
      BY <3>1
  <2> HIDE DEF Old
  <2>4. \A n \in Mshr : \A k \in Live(n)' :
          Slot(n, k)'.valid /\ Fits(Slot(n, k).tag, Slot(n, k).store)'
    BY <1>6, <1>7, <2>2 DEF Fits, Open
  <2>5. \A n, o \in Mshr : \A j \in Live(n)', k \in Live(o)' :
          Slot(n, j)'.tag = Slot(o, k)'.tag => n = o /\ j = k
    BY <1>7, <2>2, <2>3
  <2>6. SlotsInv'
    BY <2>4, <2>5 DEF SlotsInv
  <2>7. Fits(lsu_out.tag, lsu_out.write_complete)'
    <3> DEFINE t == Slot(m, 0).tag
               store == Slot(m, 0).store
    <3>1. Fits(t, store) /\ ~(lsu_out.valid /\ lsu_out.tag = t)
      BY <1>7, <2>2
    <3>2. lsu_out'.tag = t /\ (lsu_out'.write_complete <=> store)
      BY <2>1
    <3> HIDE DEF t, store
    <3>3. t \in Taken' /\ answered'[t] = 0 /\ (store <=> program'[t].store)
      BY <1>6, <3>1
    <3>4. QED
      BY <3>2, <3>3 DEF Fits, Open
  <2>8. ~Waits(lsu_out.tag)'
    <3>1. \A n \in Mshr : \A k \in Live(n)' : Slot(n, k)'.tag # Slot(m, 0).tag
      BY <1>7, <2>2
    <3>2. QED
      BY <2>1, <3>1 DEF Waits
  <2>9. AnswerInv' /\ ServingInv'
    BY <2>1, <2>7, <2>8 DEF AnswerInv, ServingInv, Serving
  <2>10. QED
    BY <1>5, <2>6, <2>9 DEF PlaceInv
<1>15. QED
  <2>1. Rests \/ TakesOne \/ AnswersOne \/ \E m \in Mshr : FilesOne(m) \/ ReplaysOne(m)
    BY <1>1, Moves DEF CoreInv
  <2>2. QED
    BY <1>10, <1>11, <1>12, <1>13, <1>14, <2>1

-----------------------------------------------------------------------------
(* The blocks of the MSHRs and of the reads under way.                     *)

BlockInv == \A m \in Mshr : \A k \in Live(m) : Slot(m, k).addr.block = Oldest(m).addr.block

LEMMA StepBlockInv ==
  ASSUME L1dTypeOK, BlockInv,
         mshr' = mshr \/ \E m \in Mshr : FilesOne(m) \/ ReplaysOne(m)
  PROVE  /\ BlockInv'
         /\ \A n \in Mshr : ~Queue!empty(mshr'[n]) =>
              IF Queue!empty(mshr[n]) THEN FilesOne(n) /\ Oldest(n)' = lsu_in_reg
              ELSE Oldest(n)'.addr.block = Oldest(n).addr.block
         /\ \A n \in Mshr : ~Queue!empty(mshr[n]) => ~Queue!empty(mshr'[n]) \/ ReplaysOne(n)
<1> DEFINE Fore(n) ==
             /\ ~Queue!empty(mshr'[n]) =>
                  IF Queue!empty(mshr[n]) THEN FilesOne(n) /\ Oldest(n)' = lsu_in_reg
                  ELSE Oldest(n)'.addr.block = Oldest(n).addr.block
             /\ ~Queue!empty(mshr[n]) => ~Queue!empty(mshr'[n]) \/ ReplaysOne(n)
           Even(n) == \A k \in Live(n)' : Slot(n, k)'.addr.block = Oldest(n)'.addr.block
<1>1. ASSUME NEW n \in Mshr, mshr'[n] = mshr[n]
      PROVE  Fore(n) /\ Even(n)
  <2>1. Live(n)' = Live(n) /\ Oldest(n)' = Oldest(n) /\ \A k : Slot(n, k)' = Slot(n, k)
    BY <1>1, KeptSlots
  <2>2. QED
    BY <1>1, <2>1 DEF BlockInv
<1>2. ASSUME NEW m \in Mshr, FilesOne(m)
      PROVE  \A n \in Mshr : Fore(n) /\ Even(n)
  <2>1. /\ ~Queue!full(mshr[m]) /\ lsu_in_reg \in MshrEntry
        /\ mshr' = [mshr EXCEPT ![m] = Queue!Enqueued(@, lsu_in_reg)]
        /\ Queue!empty(mshr[m]) \/ Oldest(m).addr.block = lsu_in_reg.addr.block
    BY <1>2 DEF FilesOne, L1dTypeOK, Tracking
  <2>2. /\ \A n \in Mshr \ {m} : mshr'[n] = mshr[n]
        /\ \A k \in Live(m)' : Slot(m, k)' = IF k = mshr[m].size THEN lsu_in_reg ELSE Slot(m, k)
        /\ Live(m)' = Live(m) \cup {mshr[m].size} /\ mshr[m].size \notin Live(m)
        /\ Oldest(m)' = IF Queue!empty(mshr[m]) THEN lsu_in_reg ELSE Oldest(m)
        /\ ~Queue!empty(mshr'[m])
    BY <2>1, FiledSlots
  <2>3. Fore(m)
    BY <1>2, <2>2
  <2>4. Even(m)
    <3>1. CASE Queue!empty(mshr[m])
      <4>1. Live(m) = {}
        BY <3>1 DEF Live, Queue!empty
      <4>2. QED
        BY <2>2, <3>1, <4>1
    <3>2. CASE ~Queue!empty(mshr[m])
      BY <2>1, <2>2, <3>2 DEF BlockInv
    <3>3. QED
      BY <3>1, <3>2
  <2>5. QED
    BY <1>1, <2>2, <2>3, <2>4
<1>3. ASSUME NEW m \in Mshr, ReplaysOne(m)
      PROVE  \A n \in Mshr : Fore(n) /\ Even(n)
  <2>1. ~Queue!empty(mshr[m]) /\ mshr' = [mshr EXCEPT ![m] = Queue!Dequeued(@)]
    BY <1>3 DEF ReplaysOne
  <2>2. /\ \A n \in Mshr \ {m} : mshr'[n] = mshr[n]
        /\ \A k \in Live(m)' : k + 1 \in Live(m) /\ Slot(m, k)' = Slot(m, k + 1)
        /\ ~Queue!empty(mshr'[m]) => 1 \in Live(m) /\ Oldest(m)' = Slot(m, 1)
    BY <2>1, ServedSlots
  <2>3. Fore(m)
    BY <1>3, <2>1, <2>2 DEF BlockInv
  <2>4. Even(m)
    <3>1. ASSUME NEW k \in Live(m)'
          PROVE  ~Queue!empty(mshr'[m])
      BY <3>1 DEF Live, Queue!empty
    <3>2. QED
      BY <2>2, <3>1 DEF BlockInv
  <2>5. QED
    BY <1>1, <2>2, <2>3, <2>4
<1>4. \A n \in Mshr : Fore(n) /\ Even(n)
  BY <1>1, <1>2, <1>3
<1>5. QED
  BY <1>4 DEF BlockInv

LEMMA StepOneMshrPerBlock ==
  ASSUME L1dTypeOK, BlockInv, OneMshrPerBlock, phantom' = (phantom \/ EntersEmpty),
         mshr' = mshr \/ \E m \in Mshr : FilesOne(m) \/ ReplaysOne(m)
  PROVE  OneMshrPerBlock'
<1>1. SUFFICES ASSUME ~phantom, ~EntersEmpty, NEW n \in Mshr, NEW o \in Mshr, n # o,
                      ~Queue!empty(mshr'[n]), ~Queue!empty(mshr'[o])
               PROVE  Oldest(n)'.addr.block # Oldest(o)'.addr.block
  BY DEF OneMshrPerBlock
<1>2. ASSUME NEW p \in Mshr, NEW q \in Mshr, p # q, Queue!empty(mshr[p]),
             ~Queue!empty(mshr'[p]), ~Queue!empty(mshr'[q])
      PROVE  Oldest(p)'.addr.block # Oldest(q)'.addr.block
  <2>1. FilesOne(p) /\ Oldest(p)' = lsu_in_reg
    BY <1>2, StepBlockInv
  <2>2. mshr'[q] = mshr[q]
    BY <1>2, <2>1 DEF FilesOne, L1dTypeOK
  <2>3. Oldest(q)' = Oldest(q)
    BY <2>2 DEF Oldest
  <2>4. Tracking = {}
    BY <1>1, <1>2, <2>1 DEF FilesOne, EntersEmpty
  <2>5. QED
    BY <2>1, <2>3, <2>4 DEF Tracking
<1>3. CASE Queue!empty(mshr[n]) \/ Queue!empty(mshr[o])
  BY <1>1, <1>2, <1>3
<1>4. CASE ~Queue!empty(mshr[n]) /\ ~Queue!empty(mshr[o])
  <2>1. /\ Oldest(n)'.addr.block = Oldest(n).addr.block
        /\ Oldest(o)'.addr.block = Oldest(o).addr.block
    BY <1>1, <1>4, StepBlockInv
  <2>2. QED
    BY <1>1, <1>4, <2>1 DEF OneMshrPerBlock
<1>5. QED
  BY <1>3, <1>4

\* Fills of one block each, and none for a block.
Distinct(s) == \A i, j \in DOMAIN s : s[i].block = s[j].block => i = j
Brings(s, b) == \E i \in DOMAIN s : s[i].block = b

LEMMA OneMoreFill ==
  ASSUME NEW s \in Seq(Fill), NEW x \in Fill
  PROVE  /\ \A b : Brings(s \o << x >>, b) <=> Brings(s, b) \/ x.block = b
         /\ Distinct(s) /\ ~Brings(s, x.block) => Distinct(s \o << x >>)
<1> DEFINE t == s \o << x >>
<1>1. /\ DOMAIN s = 1 .. Len(s) /\ Len(s) \in Nat
      /\ t = Append(s, x)
  BY LenProperties
<1>2. /\ t \in Seq(Fill) /\ Len(t) = Len(s) + 1 /\ DOMAIN t = 1 .. Len(s) + 1
      /\ \A i \in 1 .. Len(s) : t[i] = s[i]
      /\ t[Len(s) + 1] = x
  BY <1>1, AppendProperties, LenProperties
<1> HIDE DEF t
<1>3. \A b : Brings(t, b) <=> Brings(s, b) \/ x.block = b
  BY <1>1, <1>2 DEF Brings
<1>4. Distinct(s) /\ ~Brings(s, x.block) => Distinct(t)
  BY <1>1, <1>2 DEF Distinct, Brings
<1>5. QED
  BY <1>3, <1>4 DEF t

LEMMA OneFillLess ==
  ASSUME NEW s \in Seq(Fill), s # << >>
  PROVE  /\ Tail(s) \in Seq(Fill) /\ Head(s) \in Fill
         /\ \A b : Brings(s, b) <=> Brings(Tail(s), b) \/ Head(s).block = b
         /\ Distinct(s) => Distinct(Tail(s)) /\ ~Brings(Tail(s), Head(s).block)
<1>1. /\ DOMAIN s = 1 .. Len(s) /\ Len(s) \in Nat /\ Len(s) # 0
  BY LenProperties, EmptySeq
<1>2. /\ Tail(s) \in Seq(Fill) /\ Head(s) = s[1] /\ Head(s) \in Fill
      /\ DOMAIN Tail(s) = 1 .. Len(s) - 1
      /\ \A i \in 1 .. Len(s) - 1 : Tail(s)[i] = s[i + 1]
  BY <1>1, HeadTailProperties, LenProperties
<1>3. \A i \in 2 .. Len(s) : i - 1 \in 1 .. Len(s) - 1 /\ Tail(s)[i - 1] = s[i]
  BY <1>1, <1>2
<1>4. \A b : Brings(s, b) <=> Brings(Tail(s), b) \/ Head(s).block = b
  <2>1. ASSUME NEW b, Brings(s, b)
        PROVE  Brings(Tail(s), b) \/ Head(s).block = b
    <3>1. PICK i \in 1 .. Len(s) : s[i].block = b
      BY <1>1, <2>1 DEF Brings
    <3>2. CASE i = 1
      BY <1>2, <3>1, <3>2
    <3>3. CASE i # 1
      <4>1. i \in 2 .. Len(s)
        BY <1>1, <3>3
      <4>2. QED
        BY <1>2, <1>3, <3>1, <4>1 DEF Brings
    <3>4. QED
      BY <3>2, <3>3
  <2>2. ASSUME NEW b, Brings(Tail(s), b)
        PROVE  Brings(s, b)
    <3>1. PICK i \in 1 .. Len(s) - 1 : Tail(s)[i].block = b
      BY <1>2, <2>2 DEF Brings
    <3>2. i + 1 \in 1 .. Len(s) /\ Tail(s)[i] = s[i + 1]
      BY <1>1, <1>2
    <3>3. QED
      BY <1>1, <3>1, <3>2 DEF Brings
  <2>3. ASSUME NEW b, Head(s).block = b
        PROVE  Brings(s, b)
    <3>1. 1 \in DOMAIN s
      BY <1>1
    <3>2. QED
      BY <1>2, <2>3, <3>1 DEF Brings
  <2>4. QED
    BY <2>1, <2>2, <2>3
<1>5. Distinct(s) => Distinct(Tail(s)) /\ ~Brings(Tail(s), Head(s).block)
  BY <1>1, <1>2 DEF Distinct, Brings
<1>6. QED
  BY <1>2, <1>4, <1>5

\* A block is on its way when the LLC owes or drives its line, or is being
\* asked for it.
Coming(b) == Brings(owed, b) \/ (llc_fill # None /\ llc_fill.block = b)
Out(b) == Coming(b) \/ (lc_out.valid /\ lc_out.block = b)

HasMshr(b) == \E m \in Mshr : ~Queue!empty(mshr[m]) /\ Oldest(m).addr.block = b

ReadInv ==
    /\ Distinct(owed)
    /\ llc_fill # None => ~Brings(owed, llc_fill.block)
    /\ lc_out.valid => l1d_state = "IDLE" /\ ~Coming(lc_out.block)
    /\ \A b : Out(b) => HasMshr(b)
    /\ l1d_state = "SEND_REQ_LC" => ~Out(lsu_in_reg.addr.block) /\ HasMshr(lsu_in_reg.addr.block)
    /\ l1d_state = "CLEAR_MSHR" => ~Out(lc_in_reg.block)

\* What the LLC brings after an edge it brought or was asked for before.
LEMMA LlcMoves ==
  ASSUME TypeInv, WriteBackInv, LlcTakes,
         Distinct(owed), llc_fill # None => ~Brings(owed, llc_fill.block),
         lc_out.valid => ~Coming(lc_out.block)
  PROVE  /\ Distinct(owed)'
         /\ llc_fill' # None => ~Brings(owed', llc_fill'.block)
         /\ \A b : Coming(b)' => Out(b)
         /\ \A b : llc_fill # None /\ llc_fill.block = b /\ lc_ready_out /\ ~lc_out.valid => ~Coming(b)'
<1> DEFINE x == [block |-> lc_out.block, line |-> llc_memory[lc_out.block]]
           asked == IF lc_out.valid /\ ~lc_out.we THEN << x >> ELSE << >>
<1>1. /\ owed \in Seq(Fill) /\ llc_fill \in Fill \cup {None} /\ None \notin Fill
      /\ lc_out.block \in Block /\ llc_memory \in [Block -> Line]
  BY L1dAssumption DEF TypeInv, TypeOK, L1dTypeOK
<1>2. ~(lc_out.valid /\ lc_out.we)
  BY DEF WriteBackInv, NothingWrittenBack
<1>3. x \in Fill /\ x.block = lc_out.block
  BY <1>1 DEF Fill
<1>4. asked = IF lc_out.valid THEN << x >> ELSE << >>
  BY <1>2
<1>5. \/ /\ owed' = owed \o asked
         /\ llc_fill' = IF lc_ready_out THEN None ELSE llc_fill
      \/ /\ llc_fill = None /\ owed # << >>
         /\ owed' = Tail(owed) \o asked
         /\ llc_fill' = Head(owed)
  BY DEF LlcTakes
<1> HIDE DEF x, asked
<1>6. ASSUME NEW s \in Seq(Fill)
      PROVE  /\ \A b : Brings(s \o asked, b) <=> Brings(s, b) \/ (lc_out.valid /\ lc_out.block = b)
             /\ Distinct(s) /\ (lc_out.valid => ~Brings(s, lc_out.block)) => Distinct(s \o asked)
  <2>1. CASE lc_out.valid
    BY <1>3, <1>4, <2>1, OneMoreFill
  <2>2. CASE ~lc_out.valid
    <3>1. s \o asked = s
      BY <1>4, <2>2
    <3>2. QED
      BY <2>2, <3>1
  <2>3. QED
    BY <2>1, <2>2
<1>7. lc_out.valid => ~Brings(owed, lc_out.block) /\ (llc_fill # None => llc_fill.block # lc_out.block)
  BY DEF Coming
<1>8. CASE owed' = owed \o asked /\ llc_fill' = IF lc_ready_out THEN None ELSE llc_fill
  <2>1. Distinct(owed')
    BY <1>1, <1>6, <1>7, <1>8
  <2>2. \A b : Brings(owed', b) <=> Brings(owed, b) \/ (lc_out.valid /\ lc_out.block = b)
    BY <1>1, <1>6, <1>8
  <2>3. QED
    BY <1>7, <1>8, <2>1, <2>2 DEF Coming, Out, Distinct
<1>9. CASE /\ llc_fill = None /\ owed # << >>
           /\ owed' = Tail(owed) \o asked /\ llc_fill' = Head(owed)
  <2>1. /\ Tail(owed) \in Seq(Fill) /\ Head(owed) \in Fill
        /\ \A b : Brings(owed, b) <=> Brings(Tail(owed), b) \/ Head(owed).block = b
        /\ Distinct(Tail(owed)) /\ ~Brings(Tail(owed), Head(owed).block)
    BY <1>1, <1>9, OneFillLess
  <2>2. Distinct(owed')
    BY <1>6, <1>7, <1>9, <2>1
  <2>3. \A b : Brings(owed', b) <=> Brings(Tail(owed), b) \/ (lc_out.valid /\ lc_out.block = b)
    BY <1>6, <1>9, <2>1
  <2>4. QED
    BY <1>7, <1>9, <2>1, <2>2, <2>3 DEF Coming, Out, Distinct
<1>10. QED
  BY <1>5, <1>8, <1>9

\* When the L1D drives a read, and how it comes to play a fill back.
LEMMA LcMoves ==
  ASSUME TypeInv, WriteBackInv, LockInv, FillInv, L1dEdge(Presented, llc_fill, TRUE)
  PROVE  /\ lc_out'.valid => /\ l1d_state = "SEND_REQ_LC" /\ l1d_state' = "IDLE"
                             /\ lc_out'.block = lsu_in_reg.addr.block
         /\ l1d_state' = "CLEAR_MSHR" =>
              /\ lc_in_reg'.block = lc_in_reg.block
              /\ l1d_state = "CLEAR_MSHR" \/ (l1d_state = "WRITE_CACHE" /\ lc_in_reg.valid)
<1>1. /\ lc_out \in [valid : BOOLEAN, we : BOOLEAN, block : Block, line : Line]
      /\ lc_in_reg \in [valid : BOOLEAN, block : Block, line : Line]
  BY DEF TypeInv, TypeOK, L1dTypeOK
<1>2. ~cache_out.we /\ l1d_state # "EVICT"
  BY DEF WriteBackInv, NothingWrittenBack
<1>3. ASSUME lc_out' = LcQuiet PROVE ~lc_out'.valid
  BY <1>1, <1>3 DEF LcQuiet
<1>4. CASE L1dIdle(Presented, llc_fill) \/ ReadCache \/ CheckMshr \/ CompleteWrite \/ SendRespHc
  <2>1. lc_out' = LcQuiet /\ l1d_state' # "CLEAR_MSHR"
    BY <1>4 DEF L1dIdle, ReadCache, CheckMshr, PrimaryMiss, SecondaryMiss, CompleteWrite, SendRespHc
  <2>2. QED
    BY <1>3, <2>1
<1>5. CASE L1dWriteCache
  <2>1. /\ l1d_state = "WRITE_CACHE" /\ lc_out' = LcQuiet
        /\ lc_in_reg.valid => lc_in_reg' = [lc_in_reg EXCEPT !.valid = FALSE]
        /\ ~lc_in_reg.valid => l1d_state' # "CLEAR_MSHR"
    BY <1>5 DEF L1dWriteCache
  <2>2. QED
    BY <1>1, <1>3, <2>1
<1>6. CASE WaitCache
  <2>1. lc_out' = LcQuiet /\ l1d_state' # "CLEAR_MSHR"
    BY <1>2, <1>6 DEF WaitCache, CacheMisses, CacheHits, CacheSilent
  <2>2. QED
    BY <1>3, <2>1
<1>7. CASE ClearMshr
  <2>1. l1d_state = "CLEAR_MSHR" /\ lc_out' = LcQuiet
    BY <1>7 DEF ClearMshr
  <2>2. \/ lc_in_reg' = lc_in_reg
        \/ \E w, v : lc_in_reg' = [lc_in_reg EXCEPT !.line[w] = v]
    <3>1. Playback => lc_in_reg' = lc_in_reg \/ \E w, v : lc_in_reg' = [lc_in_reg EXCEPT !.line[w] = v]
      <4> DEFINE e == Oldest(Min(Filled))
      <4>1. Playback => lc_in_reg' = IF e.store THEN [lc_in_reg EXCEPT !.line[e.addr.word] = e.value]
                                     ELSE lc_in_reg
        BY DEF Playback
      <4> HIDE DEF e
      <4>2. QED
        BY <4>1
    <3>2. Install => lc_in_reg' = lc_in_reg
      BY DEF Install, KeepFill
    <3>3. QED
      BY <1>7, <3>1, <3>2 DEF ClearMshr
  <2>3. lc_in_reg'.block = lc_in_reg.block
    BY <1>1, <2>2
  <2>4. QED
    BY <1>3, <2>1, <2>3
<1>8. CASE SendReqLc
  <2>1. /\ l1d_state = "SEND_REQ_LC" /\ lc_ready_in_reg
        /\ cache_out.lc_block = lsu_in_reg.addr.block
    BY <1>8 DEF SendReqLc, LockInv, InputsInv, PhaseInv
  <2>2. /\ l1d_state' = "IDLE"
        /\ lc_out' = [LcQuiet EXCEPT !.valid = TRUE, !.block = cache_out.lc_block]
    BY <1>8, <2>1 DEF SendReqLc
  <2>3. lc_out' = [lc_out EXCEPT !.valid = TRUE, !.we = FALSE, !.block = cache_out.lc_block]
    BY <1>1, <2>2 DEF LcQuiet
  <2>4. QED
    BY <1>1, <2>1, <2>2, <2>3
<1>9. QED
  BY <1>2, <1>4, <1>5, <1>6, <1>7, <1>8 DEF L1dEdge, Evict

LEMMA StepReadInv ==
  ASSUME CoreInv, PlaceInv, BlockInv, ReadInv,
         NEW candidate \in LsuRequest \cup {None}, Steps(candidate)
  PROVE  ReadInv'
<1>1. /\ L1dEdge(Presented, llc_fill, TRUE) /\ LlcTakes
      /\ TypeInv /\ L1dTypeOK /\ SlotsInv /\ WriteBackInv /\ FillInv /\ LockInv
  BY DEF Steps, ClockEdge, CoreInv, TypeInv, TypeOK, PlaceInv
<1>2. /\ lc_out'.valid => /\ l1d_state = "SEND_REQ_LC" /\ l1d_state' = "IDLE"
                          /\ lc_out'.block = lsu_in_reg.addr.block
      /\ l1d_state' = "CLEAR_MSHR" =>
           /\ lc_in_reg'.block = lc_in_reg.block
           /\ l1d_state = "CLEAR_MSHR" \/ (l1d_state = "WRITE_CACHE" /\ lc_in_reg.valid)
  BY <1>1, LcMoves
<1>3. /\ Distinct(owed)'
      /\ llc_fill' # None => ~Brings(owed', llc_fill'.block)
      /\ \A b : Coming(b)' => Out(b)
      /\ \A b : llc_fill # None /\ llc_fill.block = b /\ lc_ready_out /\ ~lc_out.valid => ~Coming(b)'
  BY <1>1, LlcMoves DEF ReadInv
<1>4. Rests \/ TakesOne \/ AnswersOne \/ \E m \in Mshr : FilesOne(m) \/ ReplaysOne(m)
  BY <1>1, Moves
<1>5. mshr' = mshr \/ \E m \in Mshr : FilesOne(m) \/ ReplaysOne(m)
  BY <1>4 DEF Rests, TakesOne, AnswersOne
<1>6. \A b : Out(b)' <=> Coming(b)' \/ (lc_out'.valid /\ lc_out'.block = b)
  BY DEF Out
<1>7. \A b : HasMshr(b)' <=> \E m \in Mshr : ~Queue!empty(mshr'[m]) /\ Oldest(m)'.addr.block = b
  BY DEF HasMshr
<1>8. ASSUME NEW b, HasMshr(b), l1d_state = "CLEAR_MSHR" => b # lc_in_reg.block
      PROVE  HasMshr(b)'
  <2>1. PICK m \in Mshr : ~Queue!empty(mshr[m]) /\ Oldest(m).addr.block = b
    BY <1>8 DEF HasMshr
  <2>2. ~ReplaysOne(m)
    BY <1>8, <2>1 DEF ReplaysOne, Filled
  <2>3. ~Queue!empty(mshr'[m]) /\ Oldest(m)'.addr.block = b
    BY <1>1, <1>5, <2>1, <2>2, StepBlockInv
  <2>4. QED
    BY <1>7, <2>3
<1>9. ASSUME NEW b, Out(b)'
      PROVE  HasMshr(b)'
  <2>1. CASE Coming(b)'
    <3>1. Out(b) /\ HasMshr(b)
      BY <1>3, <2>1 DEF ReadInv
    <3>2. l1d_state = "CLEAR_MSHR" => b # lc_in_reg.block
      BY <3>1 DEF ReadInv
    <3>3. QED
      BY <1>8, <3>1, <3>2
  <2>2. CASE lc_out'.valid /\ lc_out'.block = b
    BY <1>2, <1>8, <2>2 DEF ReadInv
  <2>3. QED
    BY <1>6, <1>9, <2>1, <2>2
<1>10. lc_out'.valid => l1d_state' = "IDLE" /\ ~Coming(lc_out.block)'
  <2>1. SUFFICES ASSUME lc_out'.valid PROVE ~Coming(lc_out.block)'
    BY <1>2
  <2> DEFINE b == lsu_in_reg.addr.block
  <2>2. lc_out'.block = b /\ ~Out(b)
    BY <1>2, <2>1 DEF ReadInv
  <2> HIDE DEF b
  <2>3. ~(Brings(owed', b) \/ (llc_fill' # None /\ llc_fill'.block = b))
    BY <1>3, <2>2 DEF Coming
  <2>4. QED
    BY <2>2, <2>3 DEF Coming
<1>11. l1d_state' = "SEND_REQ_LC" =>
          ~Out(lsu_in_reg.addr.block)' /\ HasMshr(lsu_in_reg.addr.block)'
  <2>1. SUFFICES ASSUME l1d_state' = "SEND_REQ_LC"
                 PROVE  ~Out(lsu_in_reg.addr.block)' /\ HasMshr(lsu_in_reg.addr.block)'
    OBVIOUS
  <2>2. PICK m \in Mshr : FilesOne(m)
    BY <1>4, <2>1 DEF Rests, TakesOne, AnswersOne, ReplaysOne
  <2>3. /\ lsu_in_reg' = lsu_in_reg /\ Tracking = {} /\ Queue!empty(mshr[m])
        /\ ~Queue!full(mshr[m]) /\ lsu_in_reg \in MshrEntry
        /\ mshr' = [mshr EXCEPT ![m] = Queue!Enqueued(@, lsu_in_reg)]
    BY <1>1, <2>1, <2>2 DEF FilesOne, L1dTypeOK
  <2> DEFINE b == lsu_in_reg.addr.block
  <2>4. ~HasMshr(b) /\ ~Out(b)
    <3>1. ~HasMshr(b)
      BY <2>3 DEF HasMshr, Tracking
    <3>2. QED
      BY <3>1 DEF ReadInv
  <2>5. ~Queue!empty(mshr'[m]) /\ Oldest(m)' = lsu_in_reg
    BY <1>1, <2>3, FiledSlots
  <2>6. b' = b
    BY <2>3
  <2>7. \E n \in Mshr : ~Queue!empty(mshr'[n]) /\ Oldest(n)'.addr.block = b
    BY <2>5
  <2>8. ~lc_out'.valid
    BY <1>2, <2>1
  <2> HIDE DEF b
  <2>9. ~(Brings(owed', b) \/ (llc_fill' # None /\ llc_fill'.block = b))
    BY <1>3, <2>4 DEF Coming
  <2>10. ~Out(b)'
    BY <2>6, <2>8, <2>9 DEF Out, Coming
  <2>11. HasMshr(b)'
    BY <2>6, <2>7 DEF HasMshr
  <2>12. QED
    BY <2>10, <2>11 DEF b
<1>12. l1d_state' = "CLEAR_MSHR" => ~Out(lc_in_reg.block)'
  <2>1. SUFFICES ASSUME l1d_state' = "CLEAR_MSHR" PROVE ~Out(lc_in_reg.block)'
    OBVIOUS
  <2> DEFINE b == lc_in_reg.block
  <2>2. lc_in_reg'.block = b /\ ~lc_out'.valid
    BY <1>2, <2>1
  <2>3. ~(Brings(owed', b) \/ (llc_fill' # None /\ llc_fill'.block = b))
    <3>1. CASE l1d_state = "CLEAR_MSHR"
      BY <1>3, <3>1 DEF ReadInv, Coming
    <3>2. CASE l1d_state = "WRITE_CACHE" /\ lc_in_reg.valid
      <4>1. llc_fill # None /\ llc_fill.block = b /\ lc_ready_out /\ ~lc_out.valid
        BY <1>1, <3>2 DEF FillInv, ReadInv
      <4>2. QED
        BY <1>3, <4>1 DEF Coming
    <3>3. QED
      BY <1>2, <2>1, <3>1, <3>2
  <2> HIDE DEF b
  <2>4. QED
    BY <2>2, <2>3 DEF Out, Coming
<1>13. QED
  BY <1>2, <1>3, <1>9, <1>10, <1>11, <1>12 DEF ReadInv

-----------------------------------------------------------------------------
(* The invariant, and what it says of the requests.                        *)

TrackingInv == CoreInv /\ PlaceInv /\ BlockInv /\ OneMshrPerBlock /\ ReadInv

LEMMA InitTrackingInv == Init => TrackingInv
<1> SUFFICES ASSUME Init PROVE TrackingInv
  OBVIOUS
<1>1. /\ mshr = [m \in Mshr |-> Queue!EmptyRing] /\ l1d_state = "IDLE" /\ ~lsu_out.valid
      /\ ~lc_out.valid /\ answered = [t \in Tag |-> 0] /\ owed = << >> /\ llc_fill = None
  BY DEF Init, L1dInit
<1>2. \A m \in Mshr : Live(m) = {} /\ Queue!empty(mshr[m])
  <2>1. \A m \in Mshr : mshr[m].size = 0
    BY <1>1 DEF Queue!EmptyRing
  <2>2. QED
    BY <2>1 DEF Live, Queue!empty
<1>3. PlaceInv
  <2>1. SlotsInv
    BY <1>2 DEF SlotsInv
  <2>2. ServingInv /\ AnswerInv
    BY <1>1 DEF ServingInv, AnswerInv, Serving
  <2>3. QED
    BY <1>1, <2>1, <2>2 DEF PlaceInv, AnsweredOnce
<1>4. BlockInv /\ OneMshrPerBlock
  BY <1>2 DEF BlockInv, OneMshrPerBlock
<1>5. ReadInv
  BY <1>1 DEF ReadInv, Distinct, Brings, Out, Coming
<1>6. QED
  BY <1>3, <1>4, <1>5, InitCoreInv DEF TrackingInv

LEMMA StutterTrackingInv ==
  ASSUME TrackingInv, UNCHANGED vars
  PROVE  TrackingInv'
<1>1. UNCHANGED << mshr, l1d_state, lsu_in_reg, lc_in_reg, lsu_out, lc_out, answered, taken, program,
                   owed, llc_fill, phantom >>
  BY DEF vars, l1dVars, envVars
<1>2. \A m : Live(m)' = Live(m) /\ Oldest(m)' = Oldest(m) /\ \A k : Slot(m, k)' = Slot(m, k)
  BY <1>1 DEF Live, Oldest, Slot
<1>3. /\ Taken' = Taken /\ Serving' = Serving
      /\ \A t : Waits(t)' = Waits(t) /\ \A s : Fits(t, s)' = Fits(t, s)
  BY <1>1, <1>2 DEF Taken, Serving, Waits, Fits, Open
<1>4. SlotsInv'
  BY <1>1, <1>2, <1>3 DEF TrackingInv, PlaceInv, SlotsInv, Fits, Open
<1>5. ServingInv' /\ AnswerInv'
  BY <1>1, <1>2, <1>3 DEF TrackingInv, PlaceInv, ServingInv, AnswerInv, Fits, Open, Waits
<1>6. PlaceInv'
  BY <1>1, <1>3, <1>4, <1>5 DEF TrackingInv, PlaceInv, AnsweredOnce
<1>7. BlockInv' /\ OneMshrPerBlock'
  BY <1>1, <1>2 DEF TrackingInv, BlockInv, OneMshrPerBlock
<1>8. ReadInv'
  BY <1>1, <1>2 DEF TrackingInv, ReadInv, Distinct, Brings, Out, Coming, HasMshr
<1>9. QED
  BY <1>6, <1>7, <1>8, StutterCoreInv DEF TrackingInv

LEMMA TrackingInvariant == Spec => []TrackingInv
<1>1. TrackingInv /\ [Next]_vars => TrackingInv'
  <2>1. ASSUME TrackingInv, Next PROVE TrackingInv'
    <3>1. TypeInv /\ TypeInv' /\ L1dTypeOK
      BY <2>1, StepTypeInv DEF TrackingInv, CoreInv, TypeInv, TypeOK
    <3>2. PICK candidate \in LsuRequest \cup {None} : Steps(candidate)
      BY <2>1, <3>1, NextSteps
    <3>3. CoreInv /\ CoreInv' /\ PlaceInv /\ BlockInv /\ OneMshrPerBlock /\ ReadInv
      BY <2>1, <3>1, <3>2, StepCoreInv DEF TrackingInv
    <3>4. PlaceInv'
      BY <3>2, <3>3, StepPlaceInv
    <3>5. mshr' = mshr \/ \E m \in Mshr : FilesOne(m) \/ ReplaysOne(m)
      <4>1. /\ L1dEdge(Presented, llc_fill, TRUE) /\ LlcTakes
            /\ TypeInv /\ SlotsInv /\ WriteBackInv /\ FillInv /\ LockInv
        BY <3>2, <3>3 DEF Steps, ClockEdge, CoreInv, PlaceInv
      <4>2. QED
        BY <4>1, Moves DEF Rests, TakesOne, AnswersOne
    <3>6. BlockInv'
      BY <3>1, <3>3, <3>5, StepBlockInv
    <3>7. OneMshrPerBlock'
      <4>1. phantom' = (phantom \/ EntersEmpty)
        BY <3>2 DEF Steps, ClockEdge, History
      <4>2. QED
        BY <3>1, <3>3, <3>5, <4>1, StepOneMshrPerBlock
    <3>8. ReadInv'
      BY <3>2, <3>3, StepReadInv
    <3>9. QED
      BY <3>3, <3>4, <3>6, <3>7, <3>8 DEF TrackingInv
  <2>2. QED
    BY <2>1, StutterTrackingInv
<1>2. QED
  BY InitTrackingInv, <1>1, PTL DEF Spec

\* No request is answered twice, whatever the sizes and the timing: a hit, a
\* forwarded value, the countdown of a write and MSHR playback exclude each
\* other, because each takes the request from the one place it has.
THEOREM AnsweredOnceHolds == Spec => []AnsweredOnce
<1>1. TrackingInv => AnsweredOnce
  BY DEF TrackingInv, PlaceInv
<1>2. QED
  BY TrackingInvariant, <1>1, PTL

\* An answer is for a request the L1D accepted and says rightly whether that
\* was a store, although in COMPLETE_WRITE, SEND_RESP_HC and CLEAR_MSHR tag and
\* kind come from different registers.
THEOREM AnswerMatchesRequestHolds == Spec => []AnswerMatchesRequest
<1>1. TrackingInv => AnswerMatchesRequest
  <2>1. SUFFICES ASSUME TrackingInv, lsu_out.valid
                 PROVE  /\ lsu_out.tag \in ToSet(taken)
                        /\ lsu_out.write_complete = program[lsu_out.tag].store
    BY DEF AnswerMatchesRequest
  <2> DEFINE t == lsu_out.tag
  <2>2. t \in Taken /\ (lsu_out.write_complete <=> program[t].store)
    BY <2>1 DEF TrackingInv, PlaceInv, AnswerInv, Fits, Open
  <2>3. /\ program \in Seq([store : BOOLEAN, addr : Address]) /\ t \in 1 .. Len(program)
        /\ lsu_out.write_complete \in BOOLEAN
    BY <2>1, <2>2 DEF TrackingInv, CoreInv, TypeInv, TypeOK, L1dTypeOK, PortInv
  <2>4. program[t].store \in BOOLEAN
    <3>1. program[t] \in [store : BOOLEAN, addr : Address]
      BY <2>3, LenProperties
    <3>2. QED
      BY <3>1
  <2>5. QED
    BY <2>2, <2>3, <2>4 DEF Taken
<1>2. QED
  BY TrackingInvariant, <1>1, PTL

\* All requests in one MSHR wait for one block, for every number and size of
\* the MSHRs: a fill replays all of them, and rightly.
THEOREM OneBlockPerMshrHolds == Spec => []OneBlockPerMshr
<1>1. TrackingInv => OneBlockPerMshr
  <2>1. SUFFICES ASSUME TrackingInv, NEW m \in Mshr, NEW i \in DOMAIN Held(m), NEW j \in DOMAIN Held(m)
                 PROVE  Held(m)[i].addr.block = Held(m)[j].addr.block
    BY DEF OneBlockPerMshr
  <2>2. mshr[m].size \in Nat
    <3>1. L1dTypeOK
      BY <2>1 DEF TrackingInv, CoreInv, TypeInv, TypeOK
    <3>2. mshr[m].size \in 0 .. QUEUE_SIZE
      BY <2>1, <3>1, RingFacts
    <3>3. QED
      BY <3>2
  <2>3. ASSUME NEW k \in DOMAIN Held(m)
        PROVE  Held(m)[k].addr.block = Oldest(m).addr.block
    <3>1. k \in 1 .. mshr[m].size /\ Held(m)[k] = Slot(m, k - 1)
      BY <2>3 DEF Held, Queue!Contents, Slot
    <3>2. k - 1 \in Live(m)
      BY <2>2, <3>1 DEF Live
    <3>3. QED
      BY <2>1, <3>1, <3>2 DEF TrackingInv, BlockInv
  <2>4. QED
    BY <2>3
<1>2. QED
  BY TrackingInvariant, <1>1, PTL

\* No block is tracked by two MSHRs, for every number and size of the MSHRs,
\* until a miss has been filed behind the stale front of one that was empty.
THEOREM OneMshrPerBlockHolds == Spec => []OneMshrPerBlock
<1>1. TrackingInv => OneMshrPerBlock
  BY DEF TrackingInv
<1>2. QED
  BY TrackingInvariant, <1>1, PTL

\* The L1D never asks the LLC for a block that is on its way already: whoever
\* misses on it meanwhile finds the MSHR that tracks it.
THEOREM OneReadPerBlockHolds == Spec => []OneReadPerBlock
<1>1. TrackingInv => OneReadPerBlock
  <2> SUFFICES ASSUME TrackingInv PROVE OneReadPerBlock
    OBVIOUS
  <2> DEFINE a == [i \in DOMAIN owed |-> owed[i].block]
             b == IF llc_fill = None THEN << >> ELSE << llc_fill.block >>
             c == IF lc_out.valid /\ ~lc_out.we THEN << lc_out.block >> ELSE << >>
             Sound(s) == s \in Seq(Block) /\ IsInjective(s)
  <2>1. /\ owed \in Seq(Fill) /\ llc_fill \in Fill \cup {None} /\ lc_out.block \in Block
    BY DEF TrackingInv, CoreInv, TypeInv, TypeOK, L1dTypeOK
  <2>2. ASSUME NEW s \in Seq(Block), NEW x \in Block, IsInjective(s), \A i \in DOMAIN s : s[i] # x
        PROVE  /\ s \o << x >> \in Seq(Block) /\ IsInjective(s \o << x >>)
               /\ \A i \in DOMAIN (s \o << x >>) :
                     (s \o << x >>)[i] = x \/ \E j \in DOMAIN s : (s \o << x >>)[i] = s[j]
    <3> DEFINE t == s \o << x >>
    <3>1. DOMAIN s = 1 .. Len(s) /\ Len(s) \in Nat /\ t = Append(s, x)
      BY LenProperties
    <3>2. /\ t \in Seq(Block) /\ DOMAIN t = 1 .. Len(s) + 1
          /\ \A i \in 1 .. Len(s) : t[i] = s[i]
          /\ t[Len(s) + 1] = x
      BY <3>1, AppendProperties, LenProperties
    <3> HIDE DEF t
    <3>3. \A i \in DOMAIN t : t[i] = x \/ \E j \in DOMAIN s : t[i] = s[j]
      BY <3>1, <3>2
    <3>4. IsInjective(t)
      BY <2>2, <3>1, <3>2 DEF IsInjective
    <3>5. QED
      BY <3>2, <3>3, <3>4 DEF t
  <2>3. a \in Seq(Block) /\ DOMAIN a = DOMAIN owed /\ \A i \in DOMAIN owed : a[i] = owed[i].block
    <3>1. owed \in [1 .. Len(owed) -> Fill] /\ Len(owed) \in Nat
      BY <2>1, LenProperties
    <3>2. a \in [1 .. Len(owed) -> Block]
      BY <3>1 DEF Fill
    <3>3. QED
      BY <3>1, <3>2
  <2>4. Sound(a)
    BY <2>3 DEF IsInjective, TrackingInv, ReadInv, Distinct
  <2>5. /\ llc_fill # None => llc_fill.block \in Block /\ \A i \in DOMAIN a : a[i] # llc_fill.block
        /\ lc_out.valid => /\ \A i \in DOMAIN a : a[i] # lc_out.block
                           /\ llc_fill # None => llc_fill.block # lc_out.block
    BY <2>1, <2>3 DEF TrackingInv, ReadInv, Coming, Brings, Fill
  <2> HIDE DEF a
  <2>6. Sound(a \o b) /\ (lc_out.valid => \A i \in DOMAIN (a \o b) : (a \o b)[i] # lc_out.block)
    <3>1. CASE llc_fill = None
      <4>1. a \o b = a
        BY <2>4, <3>1
      <4>2. QED
        BY <2>4, <2>5, <4>1
    <3>2. CASE llc_fill # None
      <4>1. b = << llc_fill.block >>
        BY <3>2
      <4> HIDE DEF b
      <4>2. QED
        BY <2>2, <2>4, <2>5, <3>2, <4>1
    <3>3. QED
      BY <3>1, <3>2
  <2>7. Sound((a \o b) \o c)
    <3> DEFINE d == a \o b
    <3> HIDE DEF b, d
    <3>1. CASE lc_out.valid /\ ~lc_out.we
      BY <2>1, <2>2, <2>6, <3>1 DEF d
    <3>2. CASE ~(lc_out.valid /\ ~lc_out.we)
      <4>1. d \in Seq(Block)
        BY <2>6 DEF d
      <4>2. d \o c = d
        BY <3>2, <4>1
      <4>3. QED
        BY <2>6, <4>2 DEF d
    <3>3. QED
      BY <3>1, <3>2
  <2>8. QED
    BY <2>7 DEF OneReadPerBlock, OutstandingReads, a
<1>2. QED
  BY TrackingInvariant, <1>1, PTL

\* Somebody waits for each line the LLC still owes: an MSHR is emptied only by
\* the fill of its own block.
THEOREM ReadHasMshrHolds == Spec => []ReadHasMshr
<1>1. TrackingInv => ReadHasMshr
  <2>1. ASSUME TrackingInv, NEW i \in DOMAIN owed
        PROVE  HasMshr(owed[i].block)
    BY <2>1 DEF TrackingInv, ReadInv, Out, Coming, Brings
  <2>2. QED
    BY <2>1 DEF ReadHasMshr, HasMshr
<1>2. QED
  BY TrackingInvariant, <1>1, PTL
=============================================================================
