-------------------------- MODULE MCLoadStoreUnit --------------------------
(* Instances of LoadStoreUnit for TLC.                                     *)
EXTENDS LoadStoreUnit

CONSTANT NAddr      \* bound: addresses the program uses

MCTag == 1 .. MaxOps
MCValue == 0 .. MaxOps
MCAddr == 0 .. NAddr - 1

\* Bound: the first instruction is for address 0, the reset value of a slot's
\* address; a program that starts with another is not explored.
FirstToZero == program # << >> => program[1].addr = 0
=============================================================================
