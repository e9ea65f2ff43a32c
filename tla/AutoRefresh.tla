----------------------------- MODULE AutoRefresh -----------------------------
(***************************************************************************)
(* auto_refresh.sv: when its counter ends it goes through groups, rows and *)
(* banks; each step asks for a precharge during its first stages.          *)
(***************************************************************************)
EXTENDS Integers

CONSTANTS BANK_GROUPS, BANKS_PER_GROUP, ROWS,
          STAGES,          \* edges of one step (16: refresh_stage has 4 bits)
          REFRESH_STAGES   \* of these, those with valid_out (12)

Refresh == [in_progress : BOOLEAN, stage : 0 .. STAGES - 1, row : 0 .. ROWS - 1,
            bank : 0 .. BANKS_PER_GROUP - 1, bank_group : 0 .. BANK_GROUPS - 1]

ResetRefresh == [in_progress |-> FALSE, stage |-> 0, row |-> 0, bank |-> 0, bank_group |-> 0]

\* Mutant: a step asks for two edges less.
refr_out_short(f) == f.in_progress /\ f.stage < REFRESH_STAGES - 2

refr_out(f) == f.in_progress /\ f.stage < REFRESH_STAGES

\* bank_idx of the scheduler: {bank_group, bank}.
refr_bank_idx(f) == f.bank_group * BANKS_PER_GROUP + f.bank

LastStep(f) == f.row = ROWS - 1 /\ f.bank_group = BANK_GROUPS - 1

\* The next step: banks first, then rows, but the last row ends its group with
\* whatever bank it has reached.
NextStep(f) ==
    IF f.row = ROWS - 1
    THEN [f EXCEPT !.stage = 0, !.row = 0, !.bank = 0, !.bank_group = @ + 1]
    ELSE IF f.bank = BANKS_PER_GROUP - 1
    THEN [f EXCEPT !.stage = 0, !.bank = 0, !.row = @ + 1]
    ELSE [f EXCEPT !.stage = 0, !.bank = @ + 1]

\* One clock edge; `due' when refresh_counter is at REFRESH_INTERVAL - 1 (which
\* it is not while a refresh runs: 64_000_000 edges are longer than one takes).
RefreshEdge(f, due) ==
    IF due THEN [ResetRefresh EXCEPT !.in_progress = TRUE]
    ELSE IF ~f.in_progress THEN f
    ELSE IF f.stage # STAGES - 1 THEN [f EXCEPT !.stage = @ + 1]
    ELSE IF LastStep(f) THEN [f EXCEPT !.in_progress = FALSE, !.stage = 0]
    ELSE NextStep(f)
=============================================================================
