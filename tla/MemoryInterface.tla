-------------------------- MODULE MemoryInterface --------------------------
(***************************************************************************)
(* The LSU's end of the L1D port (load_store_unit.sv): memory_interface,   *)
(* the three-state machine that takes one dispatch from the LSU queue,     *)
(* drives it on the port and turns an L1D response into a completion, and  *)
(* the dispatch register of lsu_queue that feeds it.  Every output is a    *)
(* register, so the other side sees it one clock edge later.               *)
(*                                                                         *)
(* A value None in a register stands for its valid bit being low.          *)
(***************************************************************************)
CONSTANTS Request,    \* what a dispatch carries: store bit, address, value, tag
          Response,   \* what an L1D response carries: tag, value, write-complete bit
          None        \* valid bit low

ASSUME NoneAssumption == None \notin Request \cup Response

VARIABLES
    reg_dispatch,         \* lsu_queue's reg_dispatch_*; None when not valid
    curr_state,           \* S_IDLE, S_DISPATCH or S_WAIT_RESP
    lat,                  \* lat_is_store, lat_addr, lat_value, lat_tag
    dispatch_ready_out,   \* "ready" towards the queue
    l1d_valid_out,        \* request valid towards the L1D
    l1d_req_out,          \* l1d_{we,addr,value,tag}_out
    mem_completion        \* completion_{valid,tag,value}_out

mifVars == << reg_dispatch, curr_state, lat, dispatch_ready_out, l1d_valid_out, l1d_req_out,
              mem_completion >>

MifTypeOK ==
    /\ reg_dispatch \in Request \cup {None}
    /\ curr_state \in {"S_IDLE", "S_DISPATCH", "S_WAIT_RESP"}
    /\ lat \in Request \cup {None}
    /\ dispatch_ready_out \in BOOLEAN
    /\ l1d_valid_out \in BOOLEAN
    /\ l1d_req_out \in Request \cup {None}
    /\ mem_completion \in Response \cup {None}

\* The registers after reset; lat and l1d_req_out are zero, and unused until valid.
MifInit ==
    /\ reg_dispatch = None
    /\ curr_state = "S_IDLE"
    /\ lat = None
    /\ dispatch_ready_out = FALSE
    /\ l1d_valid_out = FALSE
    /\ l1d_req_out = None
    /\ mem_completion = None

\* The queue side.  A candidate (None when there is none) is loaded when the
\* register is free and memory_interface showed ready; a loaded register is
\* released as soon as ready is seen.
Loads(candidate) ==
    reg_dispatch = None /\ candidate # None /\ dispatch_ready_out

DispatchRegister(candidate) ==
    reg_dispatch' = IF Loads(candidate) THEN candidate
                    ELSE IF dispatch_ready_out THEN None
                    ELSE reg_dispatch

\* S_IDLE: ready for a dispatch; one that is valid is latched.
Idle(dispatch) ==
    /\ curr_state = "S_IDLE"
    /\ l1d_valid_out' = FALSE
    /\ dispatch_ready_out' = TRUE
    /\ IF dispatch # None
       THEN lat' = dispatch /\ curr_state' = "S_DISPATCH"
       ELSE UNCHANGED << lat, curr_state >>
    /\ UNCHANGED l1d_req_out

\* Mutant: the request counts as taken without the L1D having been ready.
Dispatch_blind(l1d_ready) ==
    /\ curr_state = "S_DISPATCH"
    /\ dispatch_ready_out' = FALSE
    /\ l1d_valid_out' = TRUE
    /\ l1d_req_out' = lat
    /\ curr_state' = "S_WAIT_RESP"
    /\ UNCHANGED lat

\* S_DISPATCH: drive the request; leave once the L1D shows ready.
Dispatch(l1d_ready) ==
    /\ curr_state = "S_DISPATCH"
    /\ dispatch_ready_out' = FALSE
    /\ l1d_valid_out' = TRUE
    /\ l1d_req_out' = lat
    /\ curr_state' = IF l1d_ready THEN "S_WAIT_RESP" ELSE curr_state
    /\ UNCHANGED lat

\* Mutant: a low ready is read as a refusal and the request is driven again.
WaitResp_retry(l1d_ready) ==
    /\ curr_state = "S_WAIT_RESP"
    /\ dispatch_ready_out' = FALSE
    /\ IF l1d_ready
       THEN UNCHANGED << curr_state, l1d_valid_out >>
       ELSE curr_state' = "S_DISPATCH" /\ l1d_valid_out' = FALSE
    /\ UNCHANGED << lat, l1d_req_out >>

\* S_WAIT_RESP: a low ready is read as "the L1D has taken the request".
WaitResp(l1d_ready) ==
    /\ curr_state = "S_WAIT_RESP"
    /\ dispatch_ready_out' = FALSE
    /\ IF l1d_ready
       THEN UNCHANGED << curr_state, l1d_valid_out >>
       ELSE curr_state' = "S_IDLE" /\ l1d_valid_out' = FALSE
    /\ UNCHANGED << lat, l1d_req_out >>

\* Mutant: a request that has been taken is reported complete at once.
MifEdge_eager(candidate, l1d_ready, response) ==
    /\ DispatchRegister(candidate)
    /\ Idle(reg_dispatch) \/ Dispatch(l1d_ready) \/ WaitResp(l1d_ready)
    /\ mem_completion' = IF curr_state = "S_WAIT_RESP" /\ ~l1d_ready THEN lat ELSE response

\* One clock edge, on the inputs of that edge: the queue's candidate, the L1D's
\* ready and the L1D's response (None when its valid is low).
MifEdge(candidate, l1d_ready, response) ==
    /\ DispatchRegister(candidate)
    /\ Idle(reg_dispatch) \/ Dispatch(l1d_ready) \/ WaitResp(l1d_ready)
    /\ mem_completion' = response
=============================================================================
