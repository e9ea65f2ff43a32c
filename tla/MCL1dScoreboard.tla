-------------------------- MODULE MCL1dScoreboard --------------------------
(* An instance of L1dScoreboard for TLC: one crowded set and one other.    *)
EXTENDS L1dScoreboard, TLC

CONSTANT Other      \* the block that is alone in its set

MCTag == 1 .. MaxOps
MCValue == 0 .. MaxOps
MCSetOf == [b \in Block |-> IF b = Other THEN 1 ELSE 0]

\* The blocks of the crowded set are alike.
Symmetry == Permutations(Block \ {Other})
=============================================================================
