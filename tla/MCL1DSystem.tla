---------------------------- MODULE MCL1DSystem ----------------------------
(* Instances of L1DSystem for TLC.                                         *)
EXTENDS L1DSystem

CONSTANT NWords       \* bound: words of a block

MCTag == 1 .. MaxOps
MCValue == 0 .. MaxOps
MCWord == 0 .. NWords - 1
=============================================================================
