------------------------------- MODULE SimL1D -------------------------------
(***************************************************************************)
(* class L1DataCache of mem/verif/l1d_llc_verif.cpp: the stand-in for the  *)
(* L1D that the bench drives.  It keeps one request, decides by a coin     *)
(* whether a read hits, and answers with one of two fixed values; its      *)
(* cache arrays, LRU counters and MSHRs are never looked at.               *)
(*                                                                         *)
(* evaluate() runs once per positive edge: one action, the coin being the  *)
(* only choice in it.                                                      *)
(***************************************************************************)
EXTENDS Integers

CONSTANTS Addr,           \* addresses the tests use
          None

ASSUME SimL1DAssumption == None \notin Addr

\* Edges a read and a write take in the L1D ("Arbitrary delay").
ReadDelay == 10
WriteDelay == 5

\* Mutant: a hit returns what the bench stored.
HitValue_stored == "written"

\* The values a hit and a fill return ("Dummy value").
HitValue == "CAFEBABEDEADBEEF"
FillValue == "DEADC0DE12345678"

VARIABLES
    pending_read, pending_write, pending_addr, delay_counter, waiting_for_llc,
    lsu_out,          \* lsu_{valid,addr,value,write_complete}_out
    lsu_ready_out,
    lc_valid_out, lc_addr_out

l1dVars == << pending_read, pending_write, pending_addr, delay_counter, waiting_for_llc,
              lsu_out, lsu_ready_out, lc_valid_out, lc_addr_out >>

Answer == [valid : BOOLEAN, addr : Addr \cup {None}, value : {HitValue, FillValue, None},
           write_complete : BOOLEAN]
NoAnswer == [valid |-> FALSE, addr |-> None, value |-> None, write_complete |-> FALSE]

L1dTypeOK ==
    /\ pending_read \in BOOLEAN /\ pending_write \in BOOLEAN
    /\ pending_addr \in Addr \cup {None}
    /\ delay_counter \in 0 .. ReadDelay
    /\ waiting_for_llc \in BOOLEAN
    /\ lsu_out \in Answer
    /\ lsu_ready_out \in BOOLEAN
    /\ lc_valid_out \in BOOLEAN /\ lc_addr_out \in Addr \cup {None}

\* The bench's constructor: all outputs low, nothing pending.
L1dInit ==
    /\ pending_read = FALSE /\ pending_write = FALSE /\ pending_addr = None
    /\ delay_counter = 0 /\ waiting_for_llc = FALSE
    /\ lsu_out = NoAnswer /\ lsu_ready_out = FALSE
    /\ lc_valid_out = FALSE /\ lc_addr_out = None

\* An edge with reset low or the cache not selected: the default outputs.
L1dResetEdge ==
    /\ pending_read' = FALSE /\ pending_write' = FALSE /\ pending_addr' = None
    /\ delay_counter' = 0 /\ waiting_for_llc' = FALSE
    /\ lsu_out' = NoAnswer /\ lsu_ready_out' = TRUE
    /\ lc_valid_out' = FALSE /\ lc_addr_out' = None

\* Mutant: ready is shown while the LLC's answer is due.
Ready_early(reads, writes, waits) == ~reads /\ ~writes

\* Nothing is pending and nothing is due from the LLC.
Ready(reads, writes, waits) == ~reads /\ ~writes /\ ~waits

\* Mutant: a line from the LLC ends the read whether it is taken or not.
ReadEnds_fill(hit, filled, ready) == (hit /\ ready) \/ filled

\* An answer ends the read only if the bench takes it.
ReadEnds(hit, filled, ready) == (hit \/ filled) /\ ready

(***************************************************************************)
(* One edge.  valid, we and addr_in are the request presented, ready is    *)
(* lsu_ready_in, fill whether the LLC answers.  A request just taken       *)
(* counts its first edge down.  The read stays pending until some answer   *)
(* of it meets lsu_ready_in, and until then the coin is tossed again.      *)
(***************************************************************************)
L1dEdge(valid, we, addr_in, ready, fill) ==
    \E hits \in BOOLEAN :
        LET takes == valid /\ ~pending_read /\ ~pending_write /\ ~waiting_for_llc
            reads == pending_read \/ (takes /\ ~we)
            writes == pending_write \/ (takes /\ we)
            addr == IF takes THEN addr_in ELSE pending_addr
            delay == IF ~takes THEN delay_counter ELSE IF we THEN WriteDelay ELSE ReadDelay
            hit == reads /\ delay = 0 /\ hits
            asks == reads /\ delay = 0 /\ ~hits /\ ~waiting_for_llc   \* LLC ready or not
            filled == fill /\ (waiting_for_llc \/ asks)
            completes == ~reads /\ writes /\ delay = 0
            answered == hit \/ filled
        IN  /\ (~reads \/ delay > 0) => ~hits      \* no coin is tossed
            /\ pending_read' = (reads /\ ~ReadEnds(hit, filled, ready))
            /\ pending_write' = (writes /\ ~completes)
            /\ pending_addr' = addr
            /\ delay_counter' = IF (reads \/ writes) /\ delay > 0 THEN delay - 1 ELSE delay
            /\ waiting_for_llc' = ((waiting_for_llc \/ asks) /\ ~filled)
            /\ lsu_out' = [valid |-> answered,
                           addr |-> IF answered THEN addr ELSE None,
                           value |-> IF filled THEN FillValue ELSE IF hit THEN HitValue ELSE None,
                           write_complete |-> completes]
            /\ lsu_ready_out' = Ready(pending_read', pending_write', waiting_for_llc')
            /\ lc_valid_out' = asks
            /\ lc_addr_out' = IF asks THEN addr ELSE None
=============================================================================
