------------------------------- MODULE SimLLC -------------------------------
(***************************************************************************)
(* class LastLevelCache of mem/verif/l1d_llc_verif.cpp: a DRAM access per  *)
(* request, and nothing cached.  The L1D never writes (lc_we_out is always *)
(* low), so WRITING is not entered and the memory model stays empty; and   *)
(* it is always ready for the answer, so READING answers for one edge.     *)
(***************************************************************************)
EXTENDS Integers

CONSTANTS Addr, None

\* Mutant: precharging takes longer than the next read's way through the L1D.
LLC_PRECHARGE_LATENCY_slow == 20

LLC_ACTIVATION_LATENCY == 8
LLC_CAS_LATENCY == 22
LLC_PRECHARGE_LATENCY == 5

VARIABLES dram_state, dram_counter,
          llc_addr,        \* pending_addr of the LLC
          hc_valid_out, hc_addr_out

LlcTypeOK ==
    /\ dram_state \in {"IDLE", "ACTIVATING", "READING", "PRECHARGING"}
    /\ dram_counter \in 0 .. LLC_CAS_LATENCY
    /\ llc_addr \in Addr \cup {None}
    /\ hc_valid_out \in BOOLEAN /\ hc_addr_out \in Addr \cup {None}

LlcInit ==
    /\ dram_state = "IDLE" /\ dram_counter = 0 /\ llc_addr = None
    /\ hc_valid_out = FALSE /\ hc_addr_out = None

LlcQuiet == hc_valid_out' = FALSE /\ hc_addr_out' = None

\* An edge with reset low.
LlcResetEdge ==
    dram_state' = "IDLE" /\ dram_counter' = 0 /\ llc_addr' = None /\ LlcQuiet

\* Mutant: counting goes on below zero.
CountDown_below ==
    /\ dram_state # "IDLE"
    /\ dram_counter' = dram_counter - 1
    /\ UNCHANGED << dram_state, llc_addr >> /\ LlcQuiet

\* A state counts down and is left on the edge after zero.
CountDown ==
    /\ dram_state # "IDLE" /\ dram_counter > 0
    /\ dram_counter' = dram_counter - 1
    /\ UNCHANGED << dram_state, llc_addr >> /\ LlcQuiet

\* Only an idle DRAM sees a request; any other is not kept.
LlcIdle(asked, addr) ==
    /\ dram_state = "IDLE"
    /\ IF asked
       THEN /\ dram_state' = "ACTIVATING" /\ dram_counter' = LLC_ACTIVATION_LATENCY
            /\ llc_addr' = addr
       ELSE UNCHANGED << dram_state, dram_counter, llc_addr >>
    /\ LlcQuiet

Activated ==
    /\ dram_state = "ACTIVATING" /\ dram_counter = 0
    /\ dram_state' = "READING" /\ dram_counter' = LLC_CAS_LATENCY
    /\ UNCHANGED llc_addr /\ LlcQuiet

\* Mutant: the answer is given again and again.
LlcRead_again ==
    /\ dram_state = "READING" /\ dram_counter = 0
    /\ hc_valid_out' = TRUE /\ hc_addr_out' = llc_addr
    /\ UNCHANGED << dram_state, dram_counter, llc_addr >>

LlcRead ==
    /\ dram_state = "READING" /\ dram_counter = 0
    /\ dram_state' = "PRECHARGING" /\ dram_counter' = LLC_PRECHARGE_LATENCY
    /\ hc_valid_out' = TRUE /\ hc_addr_out' = llc_addr
    /\ UNCHANGED llc_addr

Precharged ==
    /\ dram_state = "PRECHARGING" /\ dram_counter = 0
    /\ dram_state' = "IDLE"
    /\ UNCHANGED << dram_counter, llc_addr >> /\ LlcQuiet

\* One edge; asked and addr are what the L1D drives after the same edge.
LlcEdge(asked, addr) ==
    CountDown \/ LlcIdle(asked, addr) \/ Activated \/ LlcRead \/ Precharged
=============================================================================
