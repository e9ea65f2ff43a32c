------------------------- MODULE DispatchPathProofs -------------------------
(***************************************************************************)
(* For every set of requests and responses: the types are right, and the   *)
(* two handshakes from the queue's dispatch register to the L1D behave as  *)
(* a FIFO of two places that loses only to a fill.                         *)
(***************************************************************************)
EXTENDS DispatchPath, SequenceTheorems, TLAPS

\* What the registered handshakes keep true, one fact per register pair.
PortInv ==
    /\ l1d_valid_out => curr_state # "S_IDLE" /\ l1d_req_out = lat
    /\ curr_state # "S_IDLE" => lat \in Request
    /\ curr_state = "S_WAIT_RESP" => l1d_valid_out /\ l1d_port \notin {"idle_lo", "full"}
    /\ l1d_port = "late_hi" => l1d_valid_out
    /\ curr_state = "S_WAIT_RESP" => ~dispatch_ready_out
    /\ curr_state = "S_DISPATCH" /\ dispatch_ready_out => ~l1d_valid_out

IInv == TypeOK /\ PortInv

USE NoneAssumption

LEMMA InitIInv == Init => IInv
  BY DEF Init, MifInit, IInv, TypeOK, MifTypeOK, PortInv, PortPhase

\* Types are preserved by every clock edge.
LEMMA StepTypeOK ==
  ASSUME TypeOK, [Next]_pathVars
  PROVE  TypeOK'
<1>1. ASSUME NEW c \in Request \cup {None}, NEW a \in Response \cup {None},
             ClockEdge(c, a)
      PROVE  TypeOK'
  <2> USE <1>1 DEF ClockEdge, TypeOK, MifTypeOK
  <2>1. reg_dispatch' \in Request \cup {None}
    BY DEF MifEdge, DispatchRegister, Loads
  <2>2. MifTypeOK'
    BY <2>1 DEF MifEdge, Idle, Dispatch, WaitResp
  <2>3. l1d_port' \in PortPhase /\ l1d_taken' \in Request \cup {None}
    BY DEF PortEdge, TakeRequest, StayIdle, StayFull, MeetFill, ServeFill, LowerReady, Work,
       Reopen, Accepts, Open, PortPhase
  <2>4. QED
    BY <2>1, <2>2, <2>3
<1>2. CASE UNCHANGED pathVars
  BY <1>2 DEF pathVars, mifVars, TypeOK, MifTypeOK
<1>3. QED
  BY <1>1, <1>2 DEF Next

\* The register invariant is inductive: one step per state of the machine.
LEMMA StepPortInv ==
  ASSUME IInv, [Next]_pathVars
  PROVE  PortInv'
<1>1. ASSUME NEW c \in Request \cup {None}, NEW a \in Response \cup {None},
             ClockEdge(c, a)
      PROVE  PortInv'
  <2> USE <1>1 DEF ClockEdge, MifEdge, IInv, TypeOK, MifTypeOK, PortInv, PortPhase,
                   PortEdge, TakeRequest, StayIdle, StayFull, MeetFill, ServeFill,
             LowerReady, Work, Reopen, Accepts, Open
  <2>1. CASE Idle(reg_dispatch)
    BY <2>1 DEF Idle
  <2>2. CASE Dispatch(L1dReady)
    BY <2>2 DEF Dispatch, L1dReady
  <2>3. CASE WaitResp(L1dReady)
    BY <2>3 DEF WaitResp, L1dReady
  <2>4. QED
    BY <2>1, <2>2, <2>3
<1>2. CASE UNCHANGED pathVars
  BY <1>2 DEF pathVars, mifVars, IInv, PortInv
<1>3. QED
  BY <1>1, <1>2 DEF Next

\* Every register of the dispatch path always holds a value of its type.
THEOREM TypeCorrect == Spec => []TypeOK
<1>1. Init => TypeOK
  BY InitIInv DEF IInv
<1>2. TypeOK /\ [Next]_pathVars => TypeOK'
  BY StepTypeOK
<1>3. QED
  BY <1>1, <1>2, PTL DEF Spec, SafeSpec

\* The register invariant holds in every state.
THEOREM InvariantHolds == Spec => []IInv
<1>1. IInv /\ [Next]_pathVars => IInv'
  BY StepTypeOK, StepPortInv DEF IInv
<1>2. QED
  BY InitIInv, <1>1, PTL DEF Spec, SafeSpec

-----------------------------------------------------------------------------
\* Sequences of at most two requests, as the FIFO's operations see them.
LEMMA ShortSequences ==
  ASSUME NEW a \in Request, NEW b \in Request
  PROVE  /\ Append(<< >>, a) = << a >>
         /\ Append(<< a >>, b) = << a, b >>
         /\ Tail(<< a >>) = << >> /\ Head(<< a >>) = a /\ << a >> # << >>
         /\ Tail(<< a, b >>) = << b >> /\ Head(<< a, b >>) = a /\ << a, b >> # << >>
         /\ Len(<< >>) = 0 /\ Len(<< a >>) = 1 /\ Len(<< a, b >>) = 2
<1>1. Len(<< >>) = 0 /\ Len(<< a >>) = 1 /\ Len(<< a, b >>) = 2
  OBVIOUS
<1>2. Head(<< a >>) = a /\ Head(<< a, b >>) = a
  OBVIOUS
<1>3. << a >> # << >> /\ << a, b >> # << >>
  OBVIOUS
<1>4. Append(<< >>, a) = << a >>
  OBVIOUS
<1>5. Append(<< a >>, b) = << a, b >>
  <2>1. << a >> \in Seq(Request) /\ << a, b >> \in Seq(Request)
    OBVIOUS
  <2>2. Append(<< a >>, b) \in Seq(Request) /\ Len(Append(<< a >>, b)) = 2
    BY <2>1, AppendProperties
  <2>3. Append(<< a >>, b)[1] = a /\ Append(<< a >>, b)[2] = b
    BY <2>1, AppendProperties
  <2>4. ASSUME NEW i \in 1 .. Len(Append(<< a >>, b))
        PROVE  Append(<< a >>, b)[i] = << a, b >>[i]
    <3>1. i = 1 \/ i = 2
      BY <2>2
    <3>2. QED
      BY <2>3, <3>1
  <2>5. Len(Append(<< a >>, b)) = Len(<< a, b >>)
    BY <2>2
  <2>6. QED
    BY <2>1, <2>2, <2>4, <2>5, SeqEqual
<1>6. Tail(<< a >>) = << >>
  OBVIOUS
<1>7. Tail(<< a, b >>) = << b >>
  OBVIOUS
<1>8. QED
  BY <1>1, <1>2, <1>3, <1>4, <1>5, <1>6, <1>7

\* The dispatch path starts as an empty FIFO.
LEMMA InitHandover == Init => Handover!FifoInit
  BY DEF Init, MifInit, Handover!FifoInit, InTransit, Held, Waiting

\* Nothing moves in an edge that neither loads, takes nor lets go of a request.
LEMMA StepHandover ==
  ASSUME IInv, [Next]_pathVars
  PROVE  [Handover!FifoNext]_Handover!fifoVars
<1> USE DEF IInv, TypeOK, MifTypeOK, PortInv, PortPhase
<1> USE DEF Handover!FifoNext, Handover!fifoVars, Handover!Push, Handover!Pop, Handover!PushPop,
            Handover!Drop
<1>1. ASSUME NEW c \in Request \cup {None}, NEW a \in Response \cup {None},
             ClockEdge(c, a)
      PROVE  [Handover!FifoNext]_Handover!fifoVars
  <2> USE <1>1 DEF ClockEdge, MifEdge
  \* Between taking and not taking there is nothing else the port does to l1d_taken.
  <2>0. /\ Accepts => l1d_taken' = l1d_req_out
        /\ ~Accepts => l1d_taken' = l1d_taken
    BY DEF PortEdge, TakeRequest, StayIdle, StayFull, MeetFill, ServeFill,
             LowerReady, Work, Reopen, Accepts, Open
  \* In S_IDLE a dispatch moves from the register into lat, or is loaded.
  <2>1. CASE Idle(reg_dispatch)
    <3>1. l1d_taken' = l1d_taken
      BY <2>1, <2>0 DEF Idle, Accepts
    <3>2. CASE Loads(c)
      <4>1. InTransit = << >> /\ InTransit' = << c >> /\ c \in Request
        BY <2>1, <3>2 DEF Idle, Loads, DispatchRegister, InTransit, Held, Waiting
      <4>2. QED
        BY <3>1, <4>1, ShortSequences
    <3>3. CASE ~Loads(c)
      <4>1. InTransit' = InTransit
        <5>1. CASE reg_dispatch = None
          BY <2>1, <3>3, <5>1 DEF Idle, Loads, DispatchRegister, InTransit, Held, Waiting
        <5>2. CASE reg_dispatch # None
          BY <2>1, <3>3, <5>2 DEF Idle, DispatchRegister, InTransit, Held, Waiting, PortEdge,
             TakeRequest, StayIdle, StayFull, MeetFill, ServeFill,
             LowerReady, Work, Reopen, Accepts, Open
        <5>3. QED
          BY <5>1, <5>2
      <4>2. QED
        BY <3>1, <4>1
    <3>4. QED
      BY <3>2, <3>3
  \* In S_DISPATCH the L1D may take lat; a load happens only at the first edge.
  <2>2. CASE Dispatch(L1dReady)
    <3>1. CASE Loads(c)
      <4>1. ~Accepts
        BY <2>2, <3>1 DEF Loads, Accepts
      <4>2. /\ InTransit = << lat >> /\ InTransit' = << lat, c >>
            /\ lat \in Request /\ c \in Request
        BY <2>2, <3>1, <4>1 DEF Dispatch, L1dReady, Loads, DispatchRegister, InTransit, Held,
           Waiting, PortEdge, TakeRequest, StayIdle, StayFull, MeetFill, ServeFill,
             LowerReady, Work, Reopen, Accepts, Open
      <4>3. QED
        BY <2>0, <4>1, <4>2, ShortSequences
    <3>2. CASE ~Loads(c) /\ ~Accepts
      <4>1. Held' = Held /\ lat' = lat
        BY <2>2, <3>2 DEF Dispatch, L1dReady, Held,
           PortEdge, TakeRequest, StayIdle, StayFull, MeetFill, ServeFill,
             LowerReady, Work, Reopen, Accepts, Open
      <4>2. Waiting' = Waiting /\ (Waiting => reg_dispatch' = reg_dispatch)
        BY <2>2, <3>2 DEF Dispatch, Loads, DispatchRegister, Waiting
      <4>3. InTransit' = InTransit
        BY <4>1, <4>2 DEF InTransit
      <4>4. QED
        BY <2>0, <3>2, <4>3
    <3>3. CASE ~Loads(c) /\ Accepts
      <4>1. l1d_taken' = lat /\ Held /\ ~Held' /\ lat \in Request /\ ~LetsGo
        BY <2>0, <2>2, <3>3 DEF Dispatch, L1dReady, Held, LetsGo, Accepts, Open
      <4>2. Waiting' = Waiting /\ (Waiting => reg_dispatch \in Request /\ reg_dispatch' = reg_dispatch)
        BY <2>2, <3>3 DEF Dispatch, Loads, DispatchRegister, Waiting
      <4>3. QED
        BY <4>1, <4>2, ShortSequences DEF InTransit
    <3>4. QED
      BY <3>1, <3>2, <3>3
  \* In S_WAIT_RESP nothing is loaded; the L1D may take lat, or serve a fill.
  <2>3. CASE WaitResp(L1dReady)
    <3>1. Waiting' = Waiting /\ (Waiting => reg_dispatch \in Request /\ reg_dispatch' = reg_dispatch)
      BY <2>3 DEF WaitResp, DispatchRegister, Loads, Waiting
    <3>2. CASE LetsGo
      <4>1. ~Accepts /\ Held /\ ~Held' /\ lat \in Request
        BY <2>3, <3>2 DEF WaitResp, L1dReady, Held, LetsGo, Accepts, Open
      <4>2. QED
        BY <2>0, <3>1, <3>2, <4>1, ShortSequences DEF InTransit
    <3>3. CASE ~LetsGo /\ ~Accepts
      <4>1. Held' = Held /\ lat' = lat
        BY <2>3, <3>3 DEF WaitResp, L1dReady, Held, LetsGo,
           PortEdge, TakeRequest, StayIdle, StayFull, MeetFill, ServeFill,
             LowerReady, Work, Reopen, Accepts, Open
      <4>2. InTransit' = InTransit
        BY <3>1, <4>1 DEF InTransit
      <4>3. QED
        BY <2>0, <3>3, <4>2
    <3>4. CASE ~LetsGo /\ Accepts
      <4>1. l1d_taken' = lat /\ Held /\ ~Held' /\ lat \in Request
        BY <2>0, <2>3, <3>4 DEF WaitResp, L1dReady, Held, LetsGo, Accepts, Open
      <4>2. QED
        BY <3>1, <3>4, <4>1, ShortSequences DEF InTransit
    <3>5. QED
      BY <3>2, <3>3, <3>4
  <2>4. QED
    BY <2>1, <2>2, <2>3
<1>2. CASE UNCHANGED pathVars
  BY <1>2 DEF pathVars, mifVars, InTransit, Held, Waiting
<1>3. QED
  BY <1>1, <1>2 DEF Next

\* The dispatch register, memory_interface and the L1D port hand a loaded request
\* to the L1D at most once, unchanged and in the order of loading; and they drop
\* one only where memory_interface reads the low ready of a fill as acceptance.
THEOREM HandoverCorrect == Spec => HandoverLosesOnlyToFill
<1>1. IInv /\ [Next]_pathVars => [Handover!FifoNext]_Handover!fifoVars
  BY StepHandover
<1>2. QED
  BY InitHandover, InvariantHolds, <1>1, PTL DEF Spec, SafeSpec, HandoverLosesOnlyToFill, Handover!FifoSpec
=============================================================================
