---------------------------- MODULE SdramBankState ----------------------------
(***************************************************************************)
(* sdram_bank_state (bank_state.sv): what the controller believes of each  *)
(* bank of the DIMM.                                                       *)
(***************************************************************************)
EXTENDS Integers

CONSTANTS Row, ACTIVATION_LATENCY, PRECHARGE_LATENCY

Bank == [active_row : Row, active : BOOLEAN, ready : BOOLEAN, blocked : BOOLEAN,
         cycle_count : 0 .. ACTIVATION_LATENCY + PRECHARGE_LATENCY]

ResetBank == [active_row |-> 0, active |-> FALSE, ready |-> TRUE, blocked |-> FALSE,
              cycle_count |-> 0]

\* Mutant: an activated bank is open at once.
BankEdge_open_at_once(b, precharge, activate, row) ==
    IF b.blocked THEN
        IF b.cycle_count = 0 THEN [b EXCEPT !.blocked = FALSE]
        ELSE [b EXCEPT !.cycle_count = @ - 1]
    ELSE IF precharge THEN
        [b EXCEPT !.blocked = TRUE, !.cycle_count = PRECHARGE_LATENCY,
                  !.active = FALSE, !.ready = TRUE]
    ELSE IF activate THEN [b EXCEPT !.active_row = row, !.active = TRUE, !.ready = FALSE]
    ELSE b

\* One clock edge of a bank.  A command to a blocked bank has no effect; `ready'
\* is high from the precharge on, although the bank is still blocked.
BankEdge(b, precharge, activate, row) ==
    IF b.blocked THEN
        IF b.cycle_count = 0 THEN [b EXCEPT !.blocked = FALSE]
        ELSE [b EXCEPT !.cycle_count = @ - 1]
    ELSE IF precharge THEN
        [b EXCEPT !.blocked = TRUE, !.cycle_count = PRECHARGE_LATENCY,
                  !.active = FALSE, !.ready = TRUE]
    ELSE IF activate THEN
        [b EXCEPT !.active_row = row, !.blocked = TRUE, !.cycle_count = ACTIVATION_LATENCY,
                  !.active = TRUE, !.ready = FALSE]
    ELSE b
=============================================================================
