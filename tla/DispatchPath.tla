---------------------------- MODULE DispatchPath ----------------------------
(***************************************************************************)
(* The way of a memory request out of the load-store unit:                 *)
(*                                                                         *)
(*   lsu_queue's dispatch register  ->  memory_interface  ->  L1D port     *)
(*                                                                         *)
(* Two handshakes with registered valid and registered ready, so that each *)
(* side acts on what the other showed one clock edge ago.  Nothing marks a *)
(* request as taken but the timing of the ready bits.                      *)
(*                                                                         *)
(* The L1D side is what l1_data_cache.sv shows on its request port.  Which *)
(* states it goes through outside IDLE, and when the LLC presents a fill,  *)
(* is left open; L1DSystem has all of it.  A fill that is presented stays  *)
(* until the L1D shows lc_ready_out (uvm/llc_responder.sv).                *)
(***************************************************************************)
EXTENDS MemoryInterface, Sequences

VARIABLES
    l1d_port,       \* where the L1D is, as far as its request port shows
    l1d_taken       \* the request the L1D accepted last

pathVars == << mifVars, l1d_port, l1d_taken >>

\* idle_lo: first edge in IDLE, ready still low;  idle_hi: IDLE, ready high;
\* full: IDLE without a free MSHR, ready low;
\* fill: IDLE with a fill latched (lc_valid_in_reg), ready low;
\* late_hi: request accepted, ready still high;  busy: working, ready low.
PortPhase == {"idle_lo", "idle_hi", "full", "fill", "late_hi", "busy"}

TypeOK ==
    /\ MifTypeOK
    /\ l1d_port \in PortPhase
    /\ l1d_taken \in Request \cup {None}

Init ==
    /\ MifInit
    /\ l1d_port = "idle_lo"
    /\ l1d_taken = None

-----------------------------------------------------------------------------
\* The L1D side.
L1dReady == l1d_port \in {"idle_hi", "late_hi"}

\* IDLE, and a request that is presented would be accepted if no fill is.
Open == l1d_port \in {"idle_lo", "idle_hi"}

Accepts == Open /\ l1d_valid_out /\ l1d_port' = "late_hi"

TakeRequest == Accepts /\ l1d_taken' = l1d_req_out

StayIdle ==
    /\ Open /\ ~l1d_valid_out
    /\ l1d_port' = "idle_hi"
    /\ UNCHANGED l1d_taken

StayFull ==
    /\ l1d_port = "full"
    /\ UNCHANGED << l1d_port, l1d_taken >>

\* A fill is presented in IDLE: ready falls, and a request presented with it is
\* not accepted.
MeetFill ==
    /\ Open \/ l1d_port = "full"
    /\ l1d_port' = "fill"
    /\ UNCHANGED l1d_taken

\* The latched fill leaves IDLE, and a request presented now is not accepted.
ServeFill ==
    /\ l1d_port = "fill"
    /\ l1d_port' = "busy"
    /\ UNCHANGED l1d_taken

LowerReady ==
    /\ l1d_port = "late_hi"
    /\ l1d_port' = "busy"
    /\ UNCHANGED l1d_taken

Work ==
    /\ l1d_port = "busy"
    /\ UNCHANGED << l1d_port, l1d_taken >>

\* Back to IDLE, with a free MSHR or without.
Reopen ==
    /\ l1d_port = "busy"
    /\ l1d_port' \in {"idle_lo", "full"}
    /\ UNCHANGED l1d_taken

PortEdge ==
    \/ TakeRequest \/ StayIdle \/ StayFull \/ MeetFill \/ ServeFill
    \/ LowerReady \/ Work \/ Reopen

-----------------------------------------------------------------------------
ClockEdge(candidate, response) ==
    /\ MifEdge(candidate, L1dReady, response)
    /\ PortEdge

Next == \E candidate \in Request \cup {None}, response \in Response \cup {None} :
            ClockEdge(candidate, response)

\* An edge at which nothing comes in: no candidate, no response, no fill.
Tick == ClockEdge(None, None) /\ ~MeetFill

\* Every fill answers a read that an accepted request has caused.
FillsAnswerRequests ==
    []<><<MeetFill>>_pathVars => []<><<TakeRequest>>_pathVars

\* The clock does not stop, the L1D does not stay busy for ever, and fills run out.
\* (Nothing has to come in: the queue may have dispatched its last request.)
Fairness ==
    /\ WF_pathVars(Tick)
    /\ WF_pathVars(Next /\ Reopen)
    /\ FillsAnswerRequests

SafeSpec == Init /\ [][Next]_pathVars
Spec == SafeSpec /\ Fairness

-----------------------------------------------------------------------------
\* The request memory_interface holds and the L1D has not accepted yet.
Held ==
    \/ curr_state = "S_DISPATCH" /\ l1d_port # "late_hi"
    \/ curr_state = "S_WAIT_RESP" /\ l1d_port \in {"idle_hi", "fill"}

\* The dispatch register still holds a request memory_interface has not
\* latched: a register that is valid next to a ready in S_DISPATCH was latched
\* at the edge before.
Waiting ==
    /\ reg_dispatch # None
    /\ ~(curr_state = "S_DISPATCH" /\ dispatch_ready_out)

InTransit ==
    IF Held
    THEN IF Waiting THEN << lat, reg_dispatch >> ELSE << lat >>
    ELSE IF Waiting THEN << reg_dispatch >> ELSE << >>

\* memory_interface has seen ready high, the L1D serves a fill instead: the low
\* ready memory_interface sees now is that of the fill, and it lets go of `lat'.
LetsGo == curr_state = "S_WAIT_RESP" /\ l1d_port = "fill"

Handover == INSTANCE LossyFifo WITH
                Item <- Request, Capacity <- 2,
                fifo <- InTransit, last_out <- l1d_taken, obstructed <- LetsGo

\* The two handshakes together are a FIFO of two places that loses only to a
\* fill: a request the queue loads reaches the L1D at most once, unchanged and in
\* the order of loading, and exactly once unless the L1D lowers ready for a fill
\* after memory_interface has seen it high (spec: "the LSU must retry").
HandoverLosesOnlyToFill == Handover!FifoSpec

\* A request that is dispatched is accepted by the L1D, or lost to a fill, in the
\* end; unless the L1D is out of MSHRs for good (ShutForGood of L1DSystem).
DispatchEnds ==
    \A r \in Request :
        reg_dispatch = r ~> \/ l1d_taken = r
                            \/ LetsGo /\ lat = r
                            \/ [](l1d_port = "full")
=============================================================================
