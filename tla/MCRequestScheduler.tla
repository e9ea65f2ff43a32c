------------------------- MODULE MCRequestScheduler -------------------------
(* An instance of RequestScheduler for TLC: two rows of one bank and a row  *)
(* of a bank of the second group.                                           *)
EXTENDS RequestScheduler

CONSTANTS LateKey,   \* a cycle in mid-run
          Never      \* beyond Horizon, as any key of bank group 1 is beyond 32 bits

MCAddress == {<<0, 0>>, <<0, 1>>, <<BANKS_PER_GROUP, 0>>}

MCKey(i, bank, row) == IF bank >= BANKS_PER_GROUP THEN Never ELSE IF row = 0 THEN 0 ELSE LateKey
=============================================================================
