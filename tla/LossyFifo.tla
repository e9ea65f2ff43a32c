----------------------------- MODULE LossyFifo -----------------------------
(***************************************************************************)
(* What a hand-over of registers promises: a FIFO of at most Capacity      *)
(* items.  A clock edge may push, pop, or do both; a pop hands over the    *)
(* item that was at the front before the edge.  While the receiver is      *)
(* obstructed nothing is handed over, and the item at the front may be     *)
(* dropped.                                                                *)
(***************************************************************************)
EXTENDS Naturals, Sequences

CONSTANTS Item,        \* what can be queued
          Capacity     \* how many items fit

VARIABLES fifo,        \* the items inside, oldest first
          last_out,    \* the item handed over last
          obstructed   \* the receiver looks at something else; changes freely

fifoVars == << fifo, last_out >>

FifoInit == fifo = << >>

Push(x) ==
    /\ Len(fifo) < Capacity
    /\ fifo' = Append(fifo, x)
    /\ UNCHANGED last_out

Pop ==
    /\ ~obstructed
    /\ fifo # << >>
    /\ fifo' = Tail(fifo)
    /\ last_out' = Head(fifo)

PushPop(x) ==
    /\ ~obstructed
    /\ fifo # << >>
    /\ fifo' = Append(Tail(fifo), x)
    /\ last_out' = Head(fifo)

Drop ==
    /\ obstructed
    /\ fifo # << >>
    /\ fifo' = Tail(fifo)
    /\ UNCHANGED last_out

FifoNext ==
    \/ \E x \in Item : Push(x) \/ PushPop(x)
    \/ Pop
    \/ Drop

FifoSpec == FifoInit /\ [][FifoNext]_fifoVars
=============================================================================
