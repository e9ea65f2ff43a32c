------------------------- MODULE L1dLlcBenchProofs -------------------------
(*************************************************************************)
(* For any addresses and any fall of the coin: the DRAM works for the    *)
(* pending read, and a read takes its own answer, independent of the     *)
(* latencies; with the latencies of the source, no operation times out;  *)
(* test 3 fails; and a read that outlives its acknowledgement stops the  *)
(* bench for good.                                                       *)
(*************************************************************************)
EXTENDS L1dLlcBench, TLAPS

\* The answer of the LLC is one edge long, and the DRAM is then precharging: it
\* cannot take the next request on the edge that ends the wait for this one.
PulseInv == hc_valid_out => dram_state = "PRECHARGING"

LlcInv == PulseInv /\ LlcServesPending

\* What the L1D shows and holds, for the operation the bench is at.
OpInv ==
    /\ lsu_ready_out => ~pending_read /\ ~pending_write /\ ~waiting_for_llc
    /\ pc = "wait" => pending_addr = op.addr

OwnInv == OpInv /\ OwnAnswer

-----------------------------------------------------------------------------
\* Every step is an edge of both models, an edge in reset, or no edge at all.
LEMMA StepIsEdge ==
  ASSUME [Next]_vars
  PROVE  \/ UNCHANGED vars
         \/ L1dResetEdge /\ LlcResetEdge
         \/ \E valid, we, addr : Duts(valid, we, addr)
<1>1. CASE Reset
  BY <1>1 DEF Reset, QuietEdge
<1>2. CASE WaitWrite \/ WaitRead \/ Ack
  BY <1>2 DEF WaitWrite, WaitRead, Ack, QuietEdge
<1>3. CASE IssueLoop
  BY <1>3 DEF IssueLoop, QuietEdge
<1>4. CASE Issue
  BY <1>4 DEF Issue
<1>5. QED
  BY <1>1, <1>2, <1>3, <1>4 DEF Next, Done

\* One edge of the L1D, as far as the invariants look at it.
LEMMA L1dEdgeEffect ==
  ASSUME NEW valid, NEW we, NEW addr, NEW ready, NEW fill,
         L1dEdge(valid, we, addr, ready, fill)
  PROVE  /\ lsu_ready_out' => ~pending_read' /\ ~pending_write' /\ ~waiting_for_llc'
         /\ lc_valid_out' => lc_addr_out' = pending_addr'
         /\ lc_valid_out' /\ ~fill => waiting_for_llc'
         /\ waiting_for_llc /\ ~fill => waiting_for_llc'
         /\ waiting_for_llc => pending_addr' = pending_addr /\ ~lc_valid_out'
         /\ ~valid => pending_addr' = pending_addr
         /\ valid /\ ~pending_read /\ ~pending_write /\ ~waiting_for_llc
              => pending_addr' = addr
         /\ lsu_out'.valid => lsu_out'.addr = pending_addr'
<1> DEFINE takes == valid /\ ~pending_read /\ ~pending_write /\ ~waiting_for_llc
           reads == pending_read \/ (takes /\ ~we)
           taken == IF takes THEN addr ELSE pending_addr
           delay == IF ~takes THEN delay_counter ELSE IF we THEN WriteDelay ELSE ReadDelay
           asks(hits) == reads /\ delay = 0 /\ ~hits /\ ~waiting_for_llc
           filled(hits) == fill /\ (waiting_for_llc \/ asks(hits))
           answered(hits) == (reads /\ delay = 0 /\ hits) \/ filled(hits)
<1>1. PICK hits \in BOOLEAN :
         /\ pending_addr' = taken
         /\ waiting_for_llc' = ((waiting_for_llc \/ asks(hits)) /\ ~filled(hits))
         /\ lsu_out'.valid = answered(hits)
         /\ lsu_out'.addr = IF answered(hits) THEN taken ELSE None
         /\ lc_valid_out' = asks(hits)
         /\ lc_addr_out' = IF asks(hits) THEN taken ELSE None
  <2>1. PICK hits \in BOOLEAN :
           /\ pending_addr' = taken
           /\ waiting_for_llc' = ((waiting_for_llc \/ asks(hits)) /\ ~filled(hits))
           /\ \E value, done :
                  lsu_out' = [valid |-> answered(hits),
                              addr |-> IF answered(hits) THEN taken ELSE None,
                              value |-> value, write_complete |-> done]
           /\ lc_valid_out' = asks(hits)
           /\ lc_addr_out' = IF asks(hits) THEN taken ELSE None
    BY ZenonT(60) DEF L1dEdge
  <2>2. QED
    BY <2>1
<1>2. lsu_ready_out' => ~pending_read' /\ ~pending_write' /\ ~waiting_for_llc'
  BY DEF L1dEdge, Ready
<1>3. QED
  BY <1>1, <1>2

\* One edge of the LLC.
LEMMA LlcEdgeEffect ==
  ASSUME NEW asked, NEW addr, LlcEdge(asked, addr)
  PROVE  /\ hc_valid_out' => dram_state' = "PRECHARGING"
         /\ dram_state' \in {"ACTIVATING", "READING"} \/ hc_valid_out' =>
              \/ dram_state \in {"ACTIVATING", "READING"} /\ llc_addr' = llc_addr
              \/ dram_state = "IDLE" /\ asked /\ llc_addr' = addr
         /\ dram_state = "PRECHARGING" => dram_state' \in {"PRECHARGING", "IDLE"}
  BY DEF LlcEdge, CountDown, LlcIdle, Activated, LlcRead, Precharged, LlcQuiet

-----------------------------------------------------------------------------
LEMMA StepLlcInv ==
  ASSUME LlcInv, [Next]_vars
  PROVE  LlcInv'
<1> USE DEF LlcInv, PulseInv, LlcServesPending
<1>1. CASE UNCHANGED vars
  BY <1>1 DEF vars, l1dVars
<1>2. CASE L1dResetEdge /\ LlcResetEdge
  BY <1>2 DEF LlcResetEdge, LlcQuiet
<1>3. ASSUME NEW valid, NEW we, NEW addr, Duts(valid, we, addr)
      PROVE  LlcInv'
  <2>1. L1dEdge(valid, we, addr, l1d_lsu_ready_in, hc_valid_out) /\ LlcEdge(lc_valid_out', lc_addr_out')
    BY <1>3 DEF Duts
  <2> DEFINE Effects == /\ lc_valid_out' => lc_addr_out' = pending_addr'
                        /\ lc_valid_out' /\ ~hc_valid_out => waiting_for_llc'
                        /\ waiting_for_llc /\ ~hc_valid_out => waiting_for_llc'
                        /\ waiting_for_llc => pending_addr' = pending_addr /\ ~lc_valid_out'
  <2>2. Effects
    BY <2>1, L1dEdgeEffect
  <2>3. QED
    BY <2>1, <2>2, LlcEdgeEffect
<1>4. QED
  BY <1>1, <1>2, <1>3, StepIsEdge

\* The DRAM fetches only for the pending read, and no answer is left behind.
THEOREM LlcServesPendingHolds == Spec => []LlcServesPending
<1>1. Init => LlcInv
  BY DEF Init, LlcInit, LlcInv, PulseInv, LlcServesPending
<1>2. LlcInv => LlcServesPending
  BY DEF LlcInv
<1>3. QED
  BY <1>1, <1>2, StepLlcInv, PTL DEF Spec

-----------------------------------------------------------------------------
LEMMA StepOwnInv ==
  ASSUME OwnInv, [Next]_vars
  PROVE  OwnInv'
<1> USE DEF OwnInv, OpInv, OwnAnswer
<1>1. CASE Reset
  <2>1. pc' # "wait" /\ pc' # "ack"
    BY <1>1 DEF Reset
  <2>2. lsu_ready_out' => ~pending_read' /\ ~pending_write' /\ ~waiting_for_llc'
    BY <1>1, L1dEdgeEffect DEF Reset, Duts, QuietEdge, L1dResetEdge
  <2>3. QED
    BY <2>1, <2>2
<1>2. CASE IssueLoop
  BY <1>2, L1dEdgeEffect DEF IssueLoop, Duts, QuietEdge, benchVars
<1>3. CASE Issue
  <2>1. PICK o \in Chosen : Duts(TRUE, o.we, o.addr) /\ op' = o
    BY <1>3 DEF Issue
  <2>2. QED
    BY <1>3, <2>1, L1dEdgeEffect DEF Issue, Duts
<1>4. CASE WaitWrite
  BY <1>4, L1dEdgeEffect DEF WaitWrite, Duts, QuietEdge, NextOp, EndTest
<1>5. CASE WaitRead
  BY <1>5, L1dEdgeEffect DEF WaitRead, Duts, QuietEdge, EndTest
<1>6. CASE Ack
  BY <1>6, L1dEdgeEffect DEF Ack, Duts, QuietEdge, NextOp, EndTest
<1>7. CASE UNCHANGED vars
  BY <1>7 DEF vars, l1dVars, benchVars
<1>8. QED
  BY <1>1, <1>2, <1>3, <1>4, <1>5, <1>6, <1>7 DEF Next, Done

\* A read takes its own answer, although nobody compares addresses or tags.
THEOREM OwnAnswerHolds == Spec => []OwnAnswer
<1>1. Init => OwnInv
  BY DEF Init, L1dInit, OwnInv, OpInv, OwnAnswer
<1>2. OwnInv => OwnAnswer
  BY DEF OwnInv
<1>3. QED
  BY <1>1, <1>2, StepOwnInv, PTL DEF Spec

-----------------------------------------------------------------------------
\* Operations on the addresses of the tests.
LEMMA OpsTyped == \A a \in Addr : Write(a) \in Op /\ Read(a) \in Op /\ Check(a) \in Op
<1>1. ASSUME NEW a \in Addr
      PROVE  Write(a) \in Op /\ Read(a) \in Op
  BY DEF Write, Read, Op
<1>2. ASSUME NEW o \in Op
      PROVE  [o EXCEPT !.check = TRUE] \in Op
  <2> DEFINE Rec(C) == [we : BOOLEAN, addr : Addr, check : C, limit : {1000, 2000}]
  <2>1. \A C : \A v \in C : \A r \in Rec(C) : [r EXCEPT !.check = v] \in Rec(C)
    OBVIOUS
  <2>2. o \in Rec(BOOLEAN) /\ TRUE \in BOOLEAN
    BY DEF Op
  <2> HIDE DEF Rec
  <2>3. [o EXCEPT !.check = TRUE] \in Rec(BOOLEAN)
    BY <2>1, <2>2, Zenon
  <2>4. QED
    BY <2>3 DEF Rec, Op
<1>3. ASSUME NEW a \in Addr
      PROVE  Check(a) \in Op
  BY <1>1, <1>2, Zenon DEF Check
<1>4. QED
  BY <1>1, <1>3

\* The tests are what the operations range over.
LEMMA TestsTyped ==
  /\ Test = 1 .. 10 /\ Len(runTests) = 10
  /\ \A t \in Test : /\ Len(runTests[t]) \in 1 .. 20
                     /\ \A p \in 1 .. Len(runTests[t]) : runTests[t][p] \in Op \cup {Random}
<1> DEFINE Typed(s) == Len(s) \in 1 .. 20 /\ \A p \in 1 .. Len(s) : s[p] \in Op \cup {Random}
<1>1. \A a \in Addr : Write(a) \in Op /\ Read(a) \in Op /\ Check(a) \in Op
  BY OpsTyped
<1>2. \A n \in 1 .. 20 : \A o \in Op \cup {Random} : Typed(Repeat(n, o))
  BY DEF Repeat
<1>3. Typed(runSimpleReadTest) /\ Typed(runSimpleWriteTest) /\ Typed(runReadAfterWriteTest)
  BY <1>1, BenchAssumption DEF runSimpleReadTest, runSimpleWriteTest, runReadAfterWriteTest
<1>4. Typed(runConsecutiveReadsTest) /\ Typed(runConsecutiveWritesTest) /\ Typed(runRandomAccessTest)
  <2>1. Read("3000") \in Op /\ Write("4000") \in Op
    BY <1>1, BenchAssumption
  <2>2. QED
    BY <1>2, <2>1 DEF runConsecutiveReadsTest, runConsecutiveWritesTest, runRandomAccessTest
<1>5. Typed(runCacheMissTest)
  <2> DEFINE slow(a) == [Read(a) EXCEPT !.limit = 2000]
  <2>1. ASSUME NEW a \in Addr
        PROVE  slow(a) \in Op
    <3>1. ASSUME NEW o \in Op
          PROVE  [o EXCEPT !.limit = 2000] \in Op
      BY DEF Op
    <3>2. Read(a) \in Op
      BY <1>1
    <3>3. QED
      BY <3>1, <3>2
  <2>2. runCacheMissTest = << slow("10000"), slow("20000"), slow("30000") >>
    BY DEF runCacheMissTest
  <2>3. slow("10000") \in Op /\ slow("20000") \in Op /\ slow("30000") \in Op
    BY <2>1, BenchAssumption
  <2> HIDE DEF slow
  <2>4. QED
    BY <2>2, <2>3
<1>6. Typed(runReadModifyWriteTest) /\ Typed(runAddressMappingTest) /\ Typed(runBoundaryTest)
  BY <1>1, BenchAssumption DEF runReadModifyWriteTest, runAddressMappingTest, runBoundaryTest
<1> HIDE DEF Typed
<1>7. Test = 1 .. 10 /\ Len(runTests) = 10
  BY DEF Test, runTests
<1>8. \A t \in Test : Typed(runTests[t])
  BY <1>3, <1>4, <1>5, <1>6, <1>7 DEF runTests
<1>9. QED
  BY <1>7, <1>8 DEF Typed

\* Where the bench is in its tests, and how long a loop has waited.
PlaceInv ==
    /\ pc # "done" => test \in Test /\ position \in 1 .. Len(runTests[test])
    /\ pc = "reset" => cycles_waited \in 0 .. 3
    /\ pc = "wait" => op \in Op /\ cycles_waited \in 0 .. op.limit - 1
    /\ pc = "ack" => op \in Op

TypeInv == TypeOK /\ PlaceInv

\* One edge of the L1D keeps its types, and an answer has one of the two values.
LEMMA L1dEdgeTypeOK ==
  ASSUME L1dTypeOK, NEW valid \in BOOLEAN, NEW we \in BOOLEAN, NEW addr \in Addr \cup {None},
         NEW ready \in BOOLEAN, NEW fill \in BOOLEAN, L1dEdge(valid, we, addr, ready, fill)
  PROVE  L1dTypeOK' /\ (lsu_out'.valid => lsu_out'.value \in {HitValue, FillValue})
<1> DEFINE takes == valid /\ ~pending_read /\ ~pending_write /\ ~waiting_for_llc
           reads == pending_read \/ (takes /\ ~we)
           writes == pending_write \/ (takes /\ we)
           taken == IF takes THEN addr ELSE pending_addr
           delay == IF ~takes THEN delay_counter ELSE IF we THEN WriteDelay ELSE ReadDelay
           hit(hits) == reads /\ delay = 0 /\ hits
           asks(hits) == reads /\ delay = 0 /\ ~hits /\ ~waiting_for_llc
           filled(hits) == fill /\ (waiting_for_llc \/ asks(hits))
           completes == ~reads /\ writes /\ delay = 0
           answered(hits) == hit(hits) \/ filled(hits)
<1>1. delay \in 0 .. ReadDelay /\ taken \in Addr \cup {None}
  BY DEF L1dTypeOK, ReadDelay, WriteDelay
<1>2. PICK hits \in BOOLEAN :
         /\ pending_read' = (reads /\ ~ReadEnds(hit(hits), filled(hits), ready))
         /\ pending_write' = (writes /\ ~completes)
         /\ pending_addr' = taken
         /\ delay_counter' = IF (reads \/ writes) /\ delay > 0 THEN delay - 1 ELSE delay
         /\ waiting_for_llc' = ((waiting_for_llc \/ asks(hits)) /\ ~filled(hits))
         /\ lsu_out' = [valid |-> answered(hits),
                        addr |-> IF answered(hits) THEN taken ELSE None,
                        value |-> IF filled(hits) THEN FillValue
                                  ELSE IF hit(hits) THEN HitValue ELSE None,
                        write_complete |-> completes]
         /\ lsu_ready_out' = Ready(pending_read', pending_write', waiting_for_llc')
         /\ lc_valid_out' = asks(hits)
         /\ lc_addr_out' = IF asks(hits) THEN taken ELSE None
  BY ZenonT(60) DEF L1dEdge
<1>3. delay_counter' \in 0 .. ReadDelay
  BY <1>1, <1>2 DEF ReadDelay
<1>4. pending_addr' \in Addr \cup {None} /\ lc_addr_out' \in Addr \cup {None}
  BY <1>1, <1>2
<1>5. /\ pending_read' \in BOOLEAN /\ pending_write' \in BOOLEAN /\ waiting_for_llc' \in BOOLEAN
      /\ lsu_ready_out' \in BOOLEAN /\ lc_valid_out' \in BOOLEAN
  BY <1>2, Zenon DEF Ready
<1>6. lsu_out' \in Answer
  <2> DEFINE value == IF filled(hits) THEN FillValue ELSE IF hit(hits) THEN HitValue ELSE None
             shown == IF answered(hits) THEN taken ELSE None
  <2>1. value \in {HitValue, FillValue, None} /\ shown \in Addr \cup {None}
    BY <1>1
  <2>2. answered(hits) \in BOOLEAN /\ completes \in BOOLEAN
    BY Zenon
  <2>3. lsu_out' = [valid |-> answered(hits), addr |-> shown, value |-> value,
                    write_complete |-> completes]
    BY <1>2, Zenon
  <2> HIDE DEF value, shown, answered, completes
  <2>4. QED
    BY <2>1, <2>2, <2>3, Zenon DEF Answer
<1>7. lsu_out'.valid => lsu_out'.value \in {HitValue, FillValue}
  BY <1>2
<1>8. QED
  BY <1>3, <1>4, <1>5, <1>6, <1>7 DEF L1dTypeOK

\* One edge of the LLC keeps its types.
LEMMA LlcEdgeTypeOK ==
  ASSUME LlcTypeOK, NEW asked \in BOOLEAN, NEW addr \in Addr \cup {None}, LlcEdge(asked, addr)
  PROVE  LlcTypeOK'
<1>1. dram_counter' \in 0 .. LLC_CAS_LATENCY
  BY DEF LlcTypeOK, LlcEdge, CountDown, LlcIdle, Activated, LlcRead, Precharged,
         LLC_CAS_LATENCY, LLC_ACTIVATION_LATENCY, LLC_PRECHARGE_LATENCY
<1>2. dram_state' \in {"IDLE", "ACTIVATING", "READING", "PRECHARGING"}
  BY DEF LlcTypeOK, LlcEdge, CountDown, LlcIdle, Activated, LlcRead, Precharged
<1>3. llc_addr' \in Addr \cup {None} /\ hc_addr_out' \in Addr \cup {None}
  BY DEF LlcTypeOK, LlcEdge, CountDown, LlcIdle, Activated, LlcRead, Precharged, LlcQuiet
<1>4. hc_valid_out' \in BOOLEAN
  BY Zenon DEF LlcEdge, CountDown, LlcIdle, Activated, LlcRead, Precharged, LlcQuiet
<1>5. QED
  BY <1>1, <1>2, <1>3, <1>4 DEF LlcTypeOK

\* Both, as the bench evaluates them.
LEMMA DutsTypeOK ==
  ASSUME TypeOK, NEW valid \in BOOLEAN, NEW we \in BOOLEAN, NEW addr \in Addr \cup {None},
         Duts(valid, we, addr)
  PROVE  L1dTypeOK' /\ LlcTypeOK' /\ (lsu_out'.valid => lsu_out'.value \in {HitValue, FillValue})
<1>1. L1dTypeOK' /\ (lsu_out'.valid => lsu_out'.value \in {HitValue, FillValue})
  BY L1dEdgeTypeOK DEF TypeOK, LlcTypeOK, Duts
<1>2. LlcTypeOK'
  BY <1>1, LlcEdgeTypeOK DEF TypeOK, L1dTypeOK, Duts
<1>3. QED
  BY <1>1, <1>2

LEMMA IssueTypeOK ==
  ASSUME TypeOK, NEW we \in BOOLEAN, NEW addr \in Addr \cup {None}, Duts(TRUE, we, addr)
  PROVE  L1dTypeOK' /\ LlcTypeOK'
<1>1. PICK valid \in BOOLEAN : valid = TRUE
  OBVIOUS
<1>2. Duts(valid, we, addr)
  BY <1>1, Zenon
<1>3. QED
  BY <1>2, DutsTypeOK

\* The bench's own state: what a step leaves typed, and in its place.
BenchOK ==
    /\ pc \in {"reset", "issue", "wait", "ack", "done"}
    /\ cycles_waited \in 0 .. 2000
    /\ test \in Test \cup {Len(runTests) + 1} /\ position \in 1 .. 20
    /\ test_results \in [Test -> {"none", "PASS", "TIMEOUT", "MISMATCH"}]
    /\ PlaceInv

LEMMA EndTestPlace ==
  ASSUME TypeInv, pc # "done",
         NEW result \in {"PASS", "TIMEOUT", "MISMATCH"}, EndTest(result)
  PROVE  /\ pc' \in {"issue", "done"}
         /\ test' \in Test \cup {Len(runTests) + 1} /\ position' = 1
         /\ pc' = "issue" => test' \in Test /\ position' \in 1 .. Len(runTests[test'])
         /\ test_results' \in [Test -> {"none", "PASS", "TIMEOUT", "MISMATCH"}]
<1>1. test \in 1 .. 10 /\ test' = test + 1 /\ position' = 1
  BY TestsTyped DEF TypeInv, PlaceInv, EndTest
<1>2. pc' = IF test = 10 THEN "done" ELSE "issue"
  BY TestsTyped DEF EndTest
<1>3. test_results' \in [Test -> {"none", "PASS", "TIMEOUT", "MISMATCH"}]
  <2> DEFINE R == {"none", "PASS", "TIMEOUT", "MISMATCH"}
  <2>1. test_results \in [Test -> R] /\ result \in R
    BY DEF TypeInv, TypeOK
  <2>2. test_results' = [test_results EXCEPT ![test] = result]
    BY DEF EndTest
  <2> HIDE DEF R
  <2>3. test_results' \in [Test -> R]
    BY <2>1, <2>2
  <2>4. QED
    BY <2>3 DEF R
<1>4. test' \in 1 .. 11 /\ (pc' = "issue" => test' \in Test)
  BY <1>1, <1>2, TestsTyped
<1>5. pc' = "issue" => 1 \in 1 .. Len(runTests[test'])
  <2>1. ASSUME pc' = "issue"
        PROVE  1 \in 1 .. Len(runTests[test'])
    <3> DEFINE n == Len(runTests[test'])
    <3>1. n \in 1 .. 20
      BY <1>4, <2>1, TestsTyped
    <3> HIDE DEF n
    <3>2. 1 \in 1 .. n
      BY <3>1
    <3>3. QED
      BY <3>2 DEF n
  <2>2. QED
    BY <2>1
<1>6. QED
  BY <1>1, <1>2, <1>3, <1>4, <1>5, TestsTyped

LEMMA NextOpPlace ==
  ASSUME TypeInv, pc # "done", NextOp
  PROVE  /\ pc' \in {"issue", "done"}
         /\ test' \in Test \cup {Len(runTests) + 1} /\ position' \in 1 .. 20
         /\ pc' = "issue" => test' \in Test /\ position' \in 1 .. Len(runTests[test'])
         /\ test_results' \in [Test -> {"none", "PASS", "TIMEOUT", "MISMATCH"}]
<1>1. test \in Test /\ position \in 1 .. Len(runTests[test]) /\ Len(runTests[test]) \in 1 .. 20
  BY TestsTyped DEF TypeInv, PlaceInv
<1>2. CASE position = Len(runTests[test])
  BY <1>2, EndTestPlace DEF NextOp
<1>3. CASE position # Len(runTests[test])
  <2>1. position' = position + 1 /\ pc' = "issue" /\ test' = test /\ test_results' = test_results
    BY <1>3 DEF NextOp
  <2>2. position' \in 1 .. Len(runTests[test]) /\ position' \in 1 .. 20
    <3> DEFINE n == Len(runTests[test])
    <3>1. n \in 1 .. 20 /\ position \in 1 .. n /\ position # n /\ position' = position + 1
      BY <1>1, <1>3, <2>1
    <3> HIDE DEF n
    <3>2. position' \in 1 .. n /\ position' \in 1 .. 20
      BY <3>1
    <3>3. QED
      BY <3>2 DEF n
  <2>3. runTests[test'] = runTests[test] /\ test' \in Test
    BY <1>1, <2>1
  <2>4. test_results' \in [Test -> {"none", "PASS", "TIMEOUT", "MISMATCH"}]
    BY <2>1 DEF TypeInv, TypeOK
  <2>5. QED
    BY <2>1, <2>2, <2>3, <2>4
<1>4. QED
  BY <1>2, <1>3

\* What the bench may issue.
LEMMA ChosenTyped ==
  ASSUME TypeInv, pc # "done"
  PROVE  \A o \in Chosen : /\ o \in Op
                           /\ runTests[test][position] = Random => o.addr \in RandomAddr
<1>1. runTests[test][position] \in Op \cup {Random}
  BY TestsTyped DEF TypeInv, PlaceInv
<1>2. \A a \in RandomAddr : Write(a) \in Op /\ Check(a) \in Op
  BY OpsTyped, BenchAssumption
<1>3. \A a : Write(a).addr = a /\ Check(a).addr = a
  BY DEF Write, Check, Read
<1>4. expected_values \subseteq RandomAddr
  BY DEF TypeInv, TypeOK
<1>5. QED
  BY <1>1, <1>2, <1>3, <1>4 DEF Chosen

\* The values at reset are typed.
LEMMA ResetTyped ==
  NoAnswer \in Answer /\ 0 \in 0 .. ReadDelay /\ 0 \in 0 .. LLC_CAS_LATENCY
<1>1. NoAnswer \in Answer
  BY Zenon DEF NoAnswer, Answer
<1>2. QED
  BY <1>1 DEF ReadDelay, LLC_CAS_LATENCY

LEMMA StepTypeInv ==
  ASSUME TypeInv, [Next]_vars
  PROVE  TypeInv'
<1> USE DEF TypeInv
<1>1. CASE Reset
  <2>1. L1dTypeOK' /\ LlcTypeOK'
    <3>1. CASE cycles_waited < 3
      <4>1. L1dResetEdge /\ LlcResetEdge
        BY <1>1, <3>1 DEF Reset
      <4>2. QED
        BY <4>1, ResetTyped DEF L1dResetEdge, LlcResetEdge, LlcQuiet, L1dTypeOK, LlcTypeOK
    <3>2. CASE ~(cycles_waited < 3)
      BY <1>1, <3>2, DutsTypeOK DEF Reset, QuietEdge
    <3>3. QED
      BY <3>1, <3>2
  <2>2. BenchOK'
    BY <1>1 DEF Reset, TypeOK, BenchOK, PlaceInv
  <2>3. QED
    BY <1>1, <2>1, <2>2 DEF Reset, TypeOK, BenchOK
<1>2. CASE IssueLoop
  <2>1. L1dTypeOK' /\ LlcTypeOK'
    BY <1>2, DutsTypeOK DEF IssueLoop, QuietEdge
  <2>2. QED
    BY <1>2, <2>1 DEF IssueLoop, TypeOK, PlaceInv, benchVars
<1>3. CASE Issue
  <2>1. PICK o \in Chosen :
           /\ Duts(TRUE, o.we, o.addr) /\ op' = o
           /\ expected_values' = IF runTests[test][position] = Random /\ o.we
                                 THEN expected_values \cup {o.addr} ELSE expected_values
    BY <1>3 DEF Issue
  <2>2. o \in Op /\ expected_values' \subseteq RandomAddr
    BY <1>3, <2>1, ChosenTyped DEF Issue, TypeOK
  <2>3. o.we \in BOOLEAN /\ o.addr \in Addr /\ o.limit \in {1000, 2000}
    BY <2>2 DEF Op
  <2>4. L1dTypeOK' /\ LlcTypeOK'
    <3>1. TRUE \in BOOLEAN /\ o.addr \in Addr \cup {None}
      BY <2>3
    <3>2. QED
      <4>1. PICK we \in BOOLEAN : we = o.we
        BY <2>3
      <4>2. PICK addr \in Addr \cup {None} : addr = o.addr
        BY <3>1
      <4>3. Duts(TRUE, we, addr)
        BY <2>1, <4>1, <4>2, Zenon
      <4>4. TypeOK
        OBVIOUS
      <4>5. QED
        BY <4>3, <4>4, IssueTypeOK
  <2>5. QED
    BY <1>3, <2>1, <2>2, <2>3, <2>4 DEF Issue, TypeOK, PlaceInv
<1>4. CASE WaitWrite
  <2>1. L1dTypeOK' /\ LlcTypeOK'
    BY <1>4, DutsTypeOK DEF WaitWrite, QuietEdge
  <2>2. op \in Op /\ op.limit \in {1000, 2000} /\ cycles_waited \in 0 .. op.limit - 1
    BY <1>4 DEF WaitWrite, PlaceInv, Op
  <2>3. BenchOK'
    <3>1. CASE NextOp /\ cycles_waited' = 0
      BY <1>4, <3>1, NextOpPlace DEF WaitWrite, BenchOK, PlaceInv
    <3>2. CASE EndTest("TIMEOUT") /\ cycles_waited' = 0
      BY <1>4, <3>2, EndTestPlace DEF WaitWrite, BenchOK, PlaceInv
    <3>3. CASE /\ cycles_waited + 1 # op.limit /\ cycles_waited' = cycles_waited + 1
               /\ UNCHANGED << pc, test, position, test_results >>
      BY <1>4, <2>2, <3>3 DEF WaitWrite, BenchOK, PlaceInv, TypeOK
    <3>4. QED
      BY <1>4, <3>1, <3>2, <3>3 DEF WaitWrite
  <2>4. QED
    BY <1>4, <2>1, <2>3 DEF WaitWrite, TypeOK, BenchOK
<1>5. CASE WaitRead
  <2>1. L1dTypeOK' /\ LlcTypeOK' /\ lsu_out'.valid \in BOOLEAN
        /\ (lsu_out'.valid => lsu_out'.value \in {HitValue, FillValue})
    BY <1>5, DutsTypeOK DEF WaitRead, QuietEdge, L1dTypeOK, Answer
  <2>2. op \in Op /\ op.limit \in {1000, 2000} /\ cycles_waited \in 0 .. op.limit - 1
    BY <1>5 DEF WaitRead, PlaceInv, Op
  <2>3. readValue' \in {HitValue, FillValue, None}
    BY <1>5, <2>1 DEF WaitRead, TypeOK
  <2>4. l1d_lsu_ready_in' \in BOOLEAN
    BY <1>5, Zenon DEF WaitRead
  <2>5. BenchOK'
    <3>1. CASE /\ pc' = "ack" /\ cycles_waited' = 0
               /\ UNCHANGED << test, position, test_results >>
      BY <1>5, <2>2, <3>1 DEF WaitRead, BenchOK, PlaceInv, TypeOK
    <3>2. CASE EndTest("TIMEOUT") /\ cycles_waited' = 0
      BY <1>5, <3>2, EndTestPlace DEF WaitRead, BenchOK, PlaceInv
    <3>3. CASE /\ cycles_waited + 1 # op.limit /\ cycles_waited' = cycles_waited + 1
               /\ UNCHANGED << pc, test, position, test_results >>
      BY <1>5, <2>2, <3>3 DEF WaitRead, BenchOK, PlaceInv, TypeOK
    <3>4. QED
      BY <1>5, <3>1, <3>2, <3>3 DEF WaitRead
  <2>6. QED
    BY <1>5, <2>1, <2>3, <2>4, <2>5 DEF WaitRead, TypeOK, BenchOK
<1>6. CASE Ack
  <2>1. L1dTypeOK' /\ LlcTypeOK'
    BY <1>6, DutsTypeOK DEF Ack, QuietEdge
  <2>2. BenchOK'
    <3>1. CASE NextOp
      BY <1>6, <3>1, NextOpPlace DEF Ack, BenchOK, PlaceInv, TypeOK
    <3>2. CASE EndTest("MISMATCH")
      BY <1>6, <3>2, EndTestPlace DEF Ack, BenchOK, PlaceInv, TypeOK
    <3>3. QED
      BY <1>6, <3>1, <3>2 DEF Ack
  <2>3. l1d_lsu_ready_in' \in BOOLEAN
    BY <1>6, Zenon DEF Ack
  <2>4. QED
    BY <1>6, <2>1, <2>2, <2>3 DEF Ack, TypeOK, BenchOK
<1>7. CASE UNCHANGED vars
  <2>1. L1dTypeOK'
    <3>1. /\ pending_read' = pending_read /\ pending_write' = pending_write
          /\ pending_addr' = pending_addr /\ delay_counter' = delay_counter
          /\ waiting_for_llc' = waiting_for_llc /\ lsu_out' = lsu_out
          /\ lsu_ready_out' = lsu_ready_out
          /\ lc_valid_out' = lc_valid_out /\ lc_addr_out' = lc_addr_out
      BY <1>7 DEF vars, l1dVars
    <3>2. /\ pending_read' \in BOOLEAN /\ pending_write' \in BOOLEAN
          /\ waiting_for_llc' \in BOOLEAN /\ lsu_ready_out' \in BOOLEAN
          /\ lc_valid_out' \in BOOLEAN /\ lsu_out' \in Answer
      <4>1. /\ pending_read \in BOOLEAN /\ pending_write \in BOOLEAN
            /\ waiting_for_llc \in BOOLEAN /\ lsu_ready_out \in BOOLEAN
            /\ lc_valid_out \in BOOLEAN /\ lsu_out \in Answer
        BY DEF TypeOK, L1dTypeOK
      <4> HIDE DEF TypeInv
      <4>2. QED
        BY <3>1, <4>1, Zenon
    <3>3. QED
      BY <3>1, <3>2 DEF TypeOK, L1dTypeOK
  <2>2. LlcTypeOK'
    <3>1. /\ dram_state' = dram_state /\ dram_counter' = dram_counter /\ llc_addr' = llc_addr
          /\ hc_valid_out' = hc_valid_out /\ hc_addr_out' = hc_addr_out
      BY <1>7 DEF vars
    <3>2. hc_valid_out' \in BOOLEAN
      <4>1. hc_valid_out \in BOOLEAN
        BY DEF TypeOK, LlcTypeOK
      <4> HIDE DEF TypeInv
      <4>2. QED
        BY <3>1, <4>1, Zenon
    <3>3. QED
      BY <3>1, <3>2 DEF TypeOK, LlcTypeOK
  <2>3. QED
    BY <1>7, <2>1, <2>2 DEF vars, benchVars, TypeOK, PlaceInv
<1>8. QED
  BY <1>1, <1>2, <1>3, <1>4, <1>5, <1>6, <1>7 DEF Next, Done

LEMMA InitTypeInv == Init => TypeInv
<1> SUFFICES ASSUME Init PROVE TypeInv
  OBVIOUS
<1>1. L1dTypeOK
  BY ResetTyped, Zenon DEF Init, L1dInit, L1dTypeOK
<1>2. LlcTypeOK
  BY ResetTyped, Zenon DEF Init, LlcInit, LlcTypeOK
<1>3. 1 \in Test /\ 1 \in 1 .. Len(runTests[1])
  <2>1. 1 \in Test
    BY TestsTyped
  <2>2. Len(runTests[1]) \in 1 .. 20
    BY <2>1, TestsTyped
  <2>3. QED
    BY <2>1, <2>2
<1>4. PlaceInv
  BY <1>3 DEF Init, PlaceInv
<1>5. QED
  BY <1>1, <1>2, <1>3, <1>4 DEF Init, TypeInv, TypeOK

\* The countdowns and the wait loops keep their bounds.
THEOREM BenchTypeCorrect == Spec => []TypeOK
<1>1. TypeInv => TypeOK
  BY DEF TypeInv
<1>2. QED
  BY <1>1, InitTypeInv, StepTypeInv, PTL DEF Spec

-----------------------------------------------------------------------------
\* Test 3 reads back what it wrote, and an answer is never what was written.
ThirdInv ==
    /\ test > 3 => test_results[3] # "PASS"
    /\ test = 3 /\ position = 2 /\ pc \in {"wait", "ack"} => op = Check("2000")
    /\ pc = "ack" => readValue \in {HitValue, FillValue}
    /\ pc = "done" => test > 3

LEMMA ThirdTest ==
  /\ Len(runTests[3]) = 2 /\ runTests[3][2] = Check("2000")
  /\ Check("2000") # Random /\ ~Check("2000").we /\ Check("2000").check
<1>1. runTests[3] = runReadAfterWriteTest
  BY DEF runTests
<1>2. Len(runTests[3]) = 2 /\ runTests[3][2] = Check("2000")
  BY <1>1 DEF runReadAfterWriteTest
<1>3. "2000" \in Addr
  BY BenchAssumption
<1>4. Random.addr = None /\ Read("2000").addr = "2000" /\ ~Read("2000").we
  BY DEF Random, Read
<1>5. Check("2000").addr = "2000" /\ ~Check("2000").we /\ Check("2000").check
  BY DEF Check, Read
<1>6. QED
  BY <1>2, <1>3, <1>4, <1>5, SimL1DAssumption

\* A test that ends leaves the invariant, unless it is the third and passes.
LEMMA EndTestThird ==
  ASSUME TypeInv, ThirdInv, pc # "done", NEW result \in {"PASS", "TIMEOUT", "MISMATCH"},
         test = 3 => result # "PASS", EndTest(result)
  PROVE  /\ test' > 3 => test_results'[3] # "PASS"
         /\ pc' \in {"issue", "done"}
         /\ pc' = "done" => test' > 3
<1>1. test \in 1 .. 10 /\ 3 \in Test
  BY TestsTyped DEF TypeInv, PlaceInv
<1>2. test' = test + 1 /\ pc' = IF test = 10 THEN "done" ELSE "issue"
  BY TestsTyped DEF EndTest
<1>3. test_results'[3] = IF test = 3 THEN result ELSE test_results[3]
  <2>1. test_results' = [test_results EXCEPT ![test] = result]
    BY DEF EndTest
  <2>2. 3 \in DOMAIN test_results
    BY <1>1 DEF TypeInv, TypeOK
  <2>3. QED
    BY <2>1, <2>2
<1>4. test > 3 => test_results[3] # "PASS"
  BY DEF ThirdInv
<1>5. QED
  BY <1>1, <1>2, <1>3, <1>4

LEMMA NextOpThird ==
  ASSUME TypeInv, ThirdInv, pc # "done", ~(test = 3 /\ position = 2), NextOp
  PROVE  /\ test' > 3 => test_results'[3] # "PASS"
         /\ pc' \in {"issue", "done"}
         /\ pc' = "done" => test' > 3
<1>1. CASE position = Len(runTests[test])
  <2>1. test # 3 /\ EndTest("PASS")
    BY <1>1, ThirdTest DEF NextOp
  <2>2. QED
    BY <2>1, EndTestThird
<1>2. CASE position # Len(runTests[test])
  BY <1>2 DEF NextOp, ThirdInv
<1>3. QED
  BY <1>1, <1>2

LEMMA StepThirdInv ==
  ASSUME TypeInv, ThirdInv, [Next]_vars
  PROVE  ThirdInv'
<1>1. CASE Reset
  BY <1>1 DEF Reset, ThirdInv
<1>2. CASE IssueLoop
  BY <1>2 DEF IssueLoop, benchVars, ThirdInv
<1>3. CASE Issue
  <2>1. PICK o \in Chosen : op' = o
    BY <1>3 DEF Issue
  <2>2. test = 3 /\ position = 2 => o = Check("2000")
    BY <2>1, ThirdTest DEF Chosen
  <2>3. QED
    BY <1>3, <2>1, <2>2 DEF Issue, ThirdInv
<1>4. CASE WaitWrite
  <2>1. pc = "wait" /\ op.we /\ ~(test = 3 /\ position = 2)
    BY <1>4, ThirdTest DEF WaitWrite, ThirdInv
  <2>2. CASE NextOp
    BY <2>1, <2>2, NextOpThird DEF ThirdInv
  <2>3. CASE EndTest("TIMEOUT")
    BY <2>1, <2>3, EndTestThird DEF ThirdInv
  <2>4. CASE UNCHANGED << pc, test, position, test_results >>
    BY <1>4, <2>1, <2>4 DEF WaitWrite, ThirdInv
  <2>5. QED
    BY <1>4, <2>2, <2>3, <2>4 DEF WaitWrite
<1>5. CASE WaitRead
  <2>1. pc = "wait" /\ op' = op
    BY <1>5 DEF WaitRead
  <2>2. lsu_out'.valid => lsu_out'.value \in {HitValue, FillValue}
    BY <1>5, DutsTypeOK DEF WaitRead, QuietEdge, TypeInv
  <2>3. CASE lsu_out'.valid
    <3>1. /\ readValue' \in {HitValue, FillValue}
          /\ pc' = "ack" /\ UNCHANGED << test, position, test_results >>
      BY <1>5, <2>2, <2>3 DEF WaitRead
    <3>2. QED
      BY <2>1, <3>1 DEF ThirdInv
  <2>4. CASE EndTest("TIMEOUT")
    BY <2>1, <2>4, EndTestThird DEF ThirdInv
  <2>5. CASE UNCHANGED << pc, test, position, test_results >>
    BY <2>1, <2>5 DEF ThirdInv
  <2>6. QED
    BY <1>5, <2>3, <2>4, <2>5 DEF WaitRead
<1>6. CASE Ack
  <2>1. pc = "ack" /\ readValue # Written
    BY <1>6 DEF Ack, ThirdInv, Written, HitValue, FillValue
  <2>2. CASE op.check
    <3>1. EndTest("MISMATCH")
      BY <1>6, <2>1, <2>2 DEF Ack
    <3>2. QED
      BY <2>1, <3>1, EndTestThird DEF ThirdInv
  <2>3. CASE ~op.check
    <3>1. NextOp /\ ~(test = 3 /\ position = 2)
      BY <1>6, <2>1, <2>3, ThirdTest DEF Ack, ThirdInv
    <3>2. QED
      BY <2>1, <3>1, NextOpThird DEF ThirdInv
  <2>4. QED
    BY <2>2, <2>3
<1>7. CASE UNCHANGED vars
  BY <1>7 DEF vars, benchVars, ThirdInv
<1>8. QED
  BY <1>1, <1>2, <1>3, <1>4, <1>5, <1>6, <1>7 DEF Next, Done

\* Whatever the coin and the addresses, reportResults does not print "ALL TESTS
\* PASSED": test 3 fails.
THEOREM NeverAllPassedHolds == Spec => []NeverAllPassed
<1>1. Init => ThirdInv
  BY DEF Init, ThirdInv
<1>2. ThirdInv => NeverAllPassed
  BY TestsTyped DEF ThirdInv, NeverAllPassed
<1>3. QED
  BY <1>1, <1>2, InitTypeInv, StepTypeInv, StepThirdInv, PTL DEF Spec

-----------------------------------------------------------------------------
\* How long a wait can last: a write five edges; a read ten until it asks the LLC,
\* and then as long as the DRAM is from its answer.
FetchTime ==
    \/ dram_state = "ACTIVATING" /\ cycles_waited + dram_counter <= 18
    \/ dram_state = "READING" /\ cycles_waited + dram_counter <= 41
    \/ hc_valid_out /\ cycles_waited <= 42

WriteTime == pending_write /\ ~pending_read /\ delay_counter + cycles_waited <= 4

\* Until it asks, the DRAM is idle or will have precharged in time.
ReadTime ==
    /\ pending_read
    /\ IF waiting_for_llc THEN FetchTime
       ELSE /\ delay_counter + cycles_waited <= 9
            /\ dram_state = "PRECHARGING" => dram_counter < delay_counter

PrechargeTime == dram_state = "PRECHARGING" => dram_counter <= IF hc_valid_out THEN 5 ELSE 4

TimeInv ==
    /\ PrechargeTime
    /\ pc = "wait" /\ op.we => WriteTime
    /\ pc = "wait" /\ ~op.we => ReadTime
    /\ NeverTimesOut

\* The L1D's countdown, as the bench waits for it.
LEMMA L1dEdgeTime ==
  ASSUME L1dTypeOK, NEW valid \in BOOLEAN, NEW we \in BOOLEAN, NEW addr,
         NEW ready \in BOOLEAN, NEW fill \in BOOLEAN, L1dEdge(valid, we, addr, ready, fill)
  PROVE  /\ valid /\ ~pending_read /\ ~pending_write /\ ~waiting_for_llc =>
              /\ we => pending_write' /\ ~pending_read' /\ delay_counter' = 4
              /\ ~we => pending_read' /\ ~waiting_for_llc' /\ ~lc_valid_out' /\ delay_counter' = 9
         /\ ~valid /\ pending_write /\ ~pending_read =>
              \/ lsu_out'.write_complete
              \/ /\ pending_write' /\ ~pending_read'
                 /\ delay_counter > 0 /\ delay_counter' = delay_counter - 1
         /\ ~valid /\ pending_read /\ ~lsu_out'.valid =>
              /\ pending_read'
              /\ waiting_for_llc => waiting_for_llc' /\ ~fill
              /\ ~waiting_for_llc /\ delay_counter > 0 =>
                   /\ ~waiting_for_llc' /\ ~lc_valid_out' /\ delay_counter' = delay_counter - 1
              /\ ~waiting_for_llc /\ delay_counter = 0 => waiting_for_llc' /\ lc_valid_out'
<1> DEFINE takes == valid /\ ~pending_read /\ ~pending_write /\ ~waiting_for_llc
           reads == pending_read \/ (takes /\ ~we)
           writes == pending_write \/ (takes /\ we)
           delay == IF ~takes THEN delay_counter ELSE IF we THEN WriteDelay ELSE ReadDelay
           hit(hits) == reads /\ delay = 0 /\ hits
           asks(hits) == reads /\ delay = 0 /\ ~hits /\ ~waiting_for_llc
           filled(hits) == fill /\ (waiting_for_llc \/ asks(hits))
           completes == ~reads /\ writes /\ delay = 0
           answered(hits) == hit(hits) \/ filled(hits)
<1>1. delay_counter \in Nat
  BY DEF L1dTypeOK
<1>2. PICK hits \in BOOLEAN :
         /\ pending_read' = (reads /\ ~((hit(hits) \/ filled(hits)) /\ ready))
         /\ pending_write' = (writes /\ ~completes)
         /\ delay_counter' = IF (reads \/ writes) /\ delay > 0 THEN delay - 1 ELSE delay
         /\ waiting_for_llc' = ((waiting_for_llc \/ asks(hits)) /\ ~filled(hits))
         /\ lsu_out'.valid = answered(hits) /\ lsu_out'.write_complete = completes
         /\ lc_valid_out' = asks(hits)
  <2>1. PICK hits \in BOOLEAN :
           /\ pending_read' = (reads /\ ~((hit(hits) \/ filled(hits)) /\ ready))
           /\ pending_write' = (writes /\ ~completes)
           /\ delay_counter' = IF (reads \/ writes) /\ delay > 0 THEN delay - 1 ELSE delay
           /\ waiting_for_llc' = ((waiting_for_llc \/ asks(hits)) /\ ~filled(hits))
           /\ \E shown, value :
                  lsu_out' = [valid |-> answered(hits), addr |-> shown, value |-> value,
                              write_complete |-> completes]
           /\ lc_valid_out' = asks(hits)
    BY ZenonT(60) DEF L1dEdge, ReadEnds
  <2>2. QED
    BY <2>1
<1>7. delay \in Nat /\ (takes => delay = IF we THEN 5 ELSE 10) /\ (~takes => delay = delay_counter)
  BY <1>1 DEF WriteDelay, ReadDelay
<1> HIDE DEF delay
<1>3. ASSUME takes
      PROVE  /\ we => pending_write' /\ ~pending_read' /\ delay_counter' = 4
             /\ ~we => pending_read' /\ ~waiting_for_llc' /\ ~lc_valid_out' /\ delay_counter' = 9
  <2>1. delay # 0 /\ delay > 0 /\ delay = IF we THEN 5 ELSE 10
    BY <1>7, <1>3
  <2>2. /\ we => pending_write' /\ ~pending_read'
        /\ ~we => pending_read' /\ ~waiting_for_llc' /\ ~lc_valid_out'
    BY <1>2, <1>3, <2>1, Zenon
  <2>3. delay_counter' = delay - 1
    BY <1>2, <1>3, <2>1, Zenon
  <2>4. QED
    BY <2>1, <2>2, <2>3
<1>4. ASSUME ~valid, pending_write, ~pending_read
      PROVE  \/ lsu_out'.write_complete
             \/ /\ pending_write' /\ ~pending_read'
                /\ delay_counter > 0 /\ delay_counter' = delay_counter - 1
  <2>1. delay = delay_counter
    BY <1>7, <1>4
  <2>2. CASE delay = 0
    BY <1>2, <1>4, <2>2, Zenon
  <2>3. CASE delay # 0
    <3>1. delay > 0
      BY <1>7, <2>3
    <3>2. pending_write' /\ ~pending_read' /\ delay_counter' = delay - 1
      BY <1>2, <1>4, <2>3, <3>1, Zenon
    <3>3. QED
      BY <2>1, <3>1, <3>2
  <2>4. QED
    BY <2>2, <2>3
<1>5. ASSUME ~valid, pending_read, ~lsu_out'.valid
      PROVE  /\ pending_read'
             /\ waiting_for_llc => waiting_for_llc' /\ ~fill
             /\ ~waiting_for_llc /\ delay_counter > 0 =>
                  /\ ~waiting_for_llc' /\ ~lc_valid_out' /\ delay_counter' = delay_counter - 1
             /\ ~waiting_for_llc /\ delay_counter = 0 => waiting_for_llc' /\ lc_valid_out'
  <2>1. delay = delay_counter
    BY <1>7, <1>5
  <2>2. ~(answered(hits))
    BY <1>2, <1>5, Zenon
  <2>3. /\ pending_read'
        /\ waiting_for_llc => waiting_for_llc' /\ ~fill
        /\ ~waiting_for_llc /\ delay # 0 => ~waiting_for_llc' /\ ~lc_valid_out'
        /\ ~waiting_for_llc /\ delay = 0 => waiting_for_llc' /\ lc_valid_out'
    BY <1>2, <1>5, <2>2, Zenon
  <2>4. delay > 0 => delay_counter' = delay - 1
    BY <1>2, <1>5, Zenon
  <2>5. QED
    BY <1>1, <2>1, <2>3, <2>4
<1>6. QED
  BY <1>3, <1>4, <1>5

\* The DRAM's countdown.
LEMMA LlcEdgeTime ==
  ASSUME LlcTypeOK, NEW asked \in BOOLEAN, NEW addr, LlcEdge(asked, addr)
  PROVE  /\ dram_state = "ACTIVATING" =>
              \/ /\ dram_state' = "ACTIVATING"
                 /\ dram_counter > 0 /\ dram_counter' = dram_counter - 1
              \/ dram_state' = "READING" /\ dram_counter = 0 /\ dram_counter' = 22
         /\ dram_state = "READING" =>
              \/ /\ dram_state' = "READING"
                 /\ dram_counter > 0 /\ dram_counter' = dram_counter - 1
              \/ hc_valid_out' /\ dram_counter = 0
         /\ dram_state = "PRECHARGING" =>
              /\ ~hc_valid_out'
              /\ \/ /\ dram_state' = "PRECHARGING"
                    /\ dram_counter > 0 /\ dram_counter' = dram_counter - 1
                 \/ dram_state' = "IDLE"
         /\ dram_state = "IDLE" =>
              IF asked THEN dram_state' = "ACTIVATING" /\ dram_counter' = 8
              ELSE dram_state' = "IDLE"
         /\ dram_state' = "PRECHARGING" => IF hc_valid_out' THEN dram_counter' = 5
                                           ELSE dram_state = "PRECHARGING"
<1> USE DEF LlcTypeOK, LlcQuiet, LLC_CAS_LATENCY, LLC_ACTIVATION_LATENCY, LLC_PRECHARGE_LATENCY
<1>1. CASE CountDown
  BY <1>1 DEF CountDown
<1>2. CASE LlcIdle(asked, addr)
  BY <1>2 DEF LlcIdle
<1>3. CASE Activated
  BY <1>3 DEF Activated
<1>4. CASE LlcRead
  BY <1>4 DEF LlcRead
<1>5. CASE Precharged
  BY <1>5 DEF Precharged
<1>6. QED
  BY <1>1, <1>2, <1>3, <1>4, <1>5 DEF LlcEdge

\* No result is a time-out as long as no test ends with one.
LEMMA EndTestInTime ==
  ASSUME TypeOK, NeverTimesOut, NEW result \in {"PASS", "MISMATCH"}, EndTest(result)
  PROVE  NeverTimesOut' /\ pc' # "wait"
<1>1. test_results' = [test_results EXCEPT ![test] = result] /\ pc' # "wait"
  BY DEF EndTest
<1>2. ASSUME NEW t \in Test
      PROVE  test_results'[t] # "TIMEOUT"
  BY <1>1 DEF TypeOK, NeverTimesOut
<1>3. QED
  BY <1>1, <1>2 DEF NeverTimesOut

LEMMA NextOpInTime ==
  ASSUME TypeOK, NeverTimesOut, NextOp
  PROVE  NeverTimesOut' /\ pc' # "wait"
<1>1. CASE EndTest("PASS")
  BY <1>1, EndTestInTime
<1>2. CASE pc' = "issue" /\ UNCHANGED << test, test_results >>
  BY <1>2 DEF NeverTimesOut
<1>3. QED
  BY <1>1, <1>2 DEF NextOp

LEMMA StepPrecharge ==
  ASSUME TypeOK, PrechargeTime, NEW asked \in BOOLEAN, NEW addr, LlcEdge(asked, addr)
  PROVE  PrechargeTime'
<1>1. dram_counter \in Nat
  BY DEF TypeOK, LlcTypeOK
<1>2. CASE hc_valid_out'
  BY <1>2, LlcEdgeTime DEF TypeOK, PrechargeTime
<1>3. CASE ~hc_valid_out' /\ dram_state' = "PRECHARGING"
  <2>1. dram_state = "PRECHARGING"
    BY <1>3, LlcEdgeTime DEF TypeOK
  <2>2. dram_counter' = dram_counter - 1
    BY <1>3, <2>1, LlcEdgeTime DEF TypeOK
  <2>3. dram_counter <= 5
    BY <1>1, <2>1 DEF PrechargeTime
  <2>4. QED
    BY <1>1, <1>3, <2>2, <2>3 DEF PrechargeTime
<1>4. QED
  BY <1>2, <1>3 DEF PrechargeTime

\* A write that is not complete, one edge later.
LEMMA WaitWriteTime ==
  ASSUME TypeInv, WriteTime, cycles_waited \in Nat, QuietEdge, ~lsu_out'.write_complete,
         cycles_waited' = cycles_waited + 1
  PROVE  WriteTime'
<1>1. PICK no \in BOOLEAN : ~no /\ L1dEdge(no, no, None, l1d_lsu_ready_in, hc_valid_out)
  BY DEF QuietEdge, Duts
<1>2. L1dTypeOK /\ l1d_lsu_ready_in \in BOOLEAN /\ hc_valid_out \in BOOLEAN
  BY DEF TypeInv, TypeOK, LlcTypeOK
<1>3. pending_write' /\ ~pending_read' /\ delay_counter > 0 /\ delay_counter' = delay_counter - 1
  BY <1>1, <1>2, L1dEdgeTime DEF WriteTime
<1>4. delay_counter \in Nat /\ delay_counter + cycles_waited <= 4
  BY <1>2 DEF L1dTypeOK, WriteTime
<1>5. delay_counter' + cycles_waited' <= 4
  BY <1>3, <1>4
<1>6. QED
  BY <1>3, <1>5 DEF WriteTime

\* A read that is not answered, one edge later.
LEMMA WaitReadTime ==
  ASSUME TypeInv, LlcInv, ReadTime, cycles_waited \in Nat, QuietEdge, ~lsu_out'.valid,
         cycles_waited' = cycles_waited + 1
  PROVE  ReadTime'
<1>1. PICK no \in BOOLEAN : ~no /\ L1dEdge(no, no, None, l1d_lsu_ready_in, hc_valid_out)
  BY DEF QuietEdge, Duts
<1>2. LlcEdge(lc_valid_out', lc_addr_out') /\ lc_valid_out' \in BOOLEAN
  <2>1. L1dTypeOK'
    BY DutsTypeOK DEF QuietEdge, TypeInv
  <2>2. QED
    BY <2>1 DEF QuietEdge, Duts, L1dTypeOK
<1>3. /\ L1dTypeOK /\ LlcTypeOK /\ l1d_lsu_ready_in \in BOOLEAN /\ hc_valid_out \in BOOLEAN
      /\ delay_counter \in Nat /\ dram_counter \in Nat
  BY DEF TypeInv, TypeOK, LlcTypeOK, L1dTypeOK
<1>4. /\ pending_read'
      /\ waiting_for_llc => waiting_for_llc' /\ ~hc_valid_out
      /\ ~waiting_for_llc /\ delay_counter > 0 =>
           /\ ~waiting_for_llc' /\ ~lc_valid_out' /\ delay_counter' = delay_counter - 1
      /\ ~waiting_for_llc /\ delay_counter = 0 => waiting_for_llc' /\ lc_valid_out'
  BY <1>1, <1>3, L1dEdgeTime DEF ReadTime
<1>5. CASE waiting_for_llc
  <2>1. FetchTime /\ ~hc_valid_out /\ waiting_for_llc'
    BY <1>4, <1>5 DEF ReadTime
  <2>2. CASE dram_state = "ACTIVATING" /\ cycles_waited + dram_counter <= 18
    <3>1. FetchTime'
      BY <1>2, <1>3, <2>2, LlcEdgeTime DEF FetchTime
    <3>2. QED
      BY <1>4, <2>1, <3>1 DEF ReadTime
  <2>3. CASE dram_state = "READING" /\ cycles_waited + dram_counter <= 41
    <3>1. FetchTime'
      BY <1>2, <1>3, <2>3, LlcEdgeTime DEF FetchTime
    <3>2. QED
      BY <1>4, <2>1, <3>1 DEF ReadTime
  <2>4. QED
    BY <2>1, <2>2, <2>3 DEF FetchTime
<1>6. CASE ~waiting_for_llc
  <2>1. dram_state \in {"IDLE", "PRECHARGING"} /\ ~hc_valid_out
    BY <1>3, <1>6 DEF LlcInv, LlcServesPending, LlcTypeOK
  <2>2. /\ delay_counter + cycles_waited <= 9
        /\ dram_state = "PRECHARGING" => dram_counter < delay_counter
    BY <1>6 DEF ReadTime
  <2>3. CASE delay_counter > 0
    <3>1. ~waiting_for_llc' /\ delay_counter' = delay_counter - 1 /\ ~lc_valid_out'
      BY <1>4, <1>6, <2>3
    <3>2. delay_counter' + cycles_waited' <= 9
      BY <1>3, <2>2, <3>1
    <3>3. dram_state' = "PRECHARGING" => dram_counter' < delay_counter'
      BY <1>2, <1>3, <2>1, <2>2, <3>1, LlcEdgeTime
    <3>4. QED
      BY <1>4, <3>1, <3>2, <3>3 DEF ReadTime
  <2>4. CASE delay_counter = 0
    <3>1. waiting_for_llc' /\ lc_valid_out' /\ dram_state = "IDLE"
      BY <1>3, <1>4, <1>6, <2>1, <2>2, <2>4
    <3>2. dram_state' = "ACTIVATING" /\ dram_counter' = 8
      BY <1>2, <1>3, <3>1, LlcEdgeTime
    <3>3. cycles_waited' + dram_counter' <= 18
      BY <1>3, <2>2, <2>4, <3>2
    <3>4. QED
      BY <1>4, <3>1, <3>2, <3>3 DEF ReadTime, FetchTime
  <2>5. QED
    BY <1>3, <2>3, <2>4
<1>7. QED
  BY <1>5, <1>6

\* The edge that takes an operation starts its countdown; the DRAM is idle, or will
\* have precharged before the countdown is over.
LEMMA IssueTime ==
  ASSUME TypeInv, LlcInv, OpInv, PrechargeTime, lsu_ready_out, cycles_waited' = 0,
         NEW we \in BOOLEAN, NEW addr \in Addr \cup {None}, Duts(TRUE, we, addr)
  PROVE  IF we THEN WriteTime' ELSE ReadTime'
<1>1. PICK yes \in BOOLEAN : yes /\ L1dEdge(yes, we, addr, l1d_lsu_ready_in, hc_valid_out)
  BY DEF Duts
<1>2. LlcEdge(lc_valid_out', lc_addr_out') /\ lc_valid_out' \in BOOLEAN
  <2>1. L1dTypeOK'
    BY IssueTypeOK DEF TypeInv
  <2>2. QED
    BY <2>1 DEF Duts, L1dTypeOK
<1>3. /\ L1dTypeOK /\ LlcTypeOK /\ l1d_lsu_ready_in \in BOOLEAN /\ hc_valid_out \in BOOLEAN
      /\ dram_counter \in Nat
  BY DEF TypeInv, TypeOK, LlcTypeOK
<1>4. ~pending_read /\ ~pending_write /\ ~waiting_for_llc
  BY DEF OpInv
<1>5. /\ we => pending_write' /\ ~pending_read' /\ delay_counter' = 4
      /\ ~we => pending_read' /\ ~waiting_for_llc' /\ ~lc_valid_out' /\ delay_counter' = 9
  BY <1>1, <1>3, <1>4, L1dEdgeTime
<1>6. dram_state \in {"IDLE", "PRECHARGING"} /\ ~hc_valid_out
  BY <1>3, <1>4 DEF LlcInv, LlcServesPending, LlcTypeOK
<1>7. dram_state' = "PRECHARGING" => dram_counter' < 9
  <2>1. PrechargeTime'
    BY <1>2, StepPrecharge DEF TypeInv
  <2>2. dram_counter' \in Nat
    <3>1. LlcTypeOK'
      BY IssueTypeOK DEF TypeInv
    <3>2. QED
      BY <3>1 DEF LlcTypeOK
  <2>3. QED
    BY <2>1, <2>2 DEF PrechargeTime
<1>8. CASE we
  BY <1>5, <1>8 DEF WriteTime
<1>9. CASE ~we
  BY <1>5, <1>7, <1>9 DEF ReadTime
<1>10. QED
  BY <1>8, <1>9

LEMMA StepTimeInv ==
  ASSUME TypeInv, LlcInv, OwnInv, TimeInv, [Next]_vars
  PROVE  TimeInv'
<1>1. PrechargeTime'
  <2>1. CASE UNCHANGED vars
    BY <2>1 DEF vars, TimeInv, PrechargeTime
  <2>2. CASE LlcResetEdge
    BY <2>2 DEF LlcResetEdge, PrechargeTime
  <2>3. ASSUME NEW we \in BOOLEAN, NEW addr \in Addr \cup {None}, Duts(TRUE, we, addr)
        PROVE  PrechargeTime'
    <3>1. lc_valid_out' \in BOOLEAN
      BY <2>3, IssueTypeOK DEF TypeInv, L1dTypeOK
    <3>2. QED
      BY <2>3, <3>1, StepPrecharge DEF Duts, TypeInv, TimeInv
  <2>4. CASE QuietEdge
    <3>1. lc_valid_out' \in BOOLEAN
      BY <2>4, DutsTypeOK DEF QuietEdge, TypeInv, L1dTypeOK
    <3>2. QED
      BY <2>4, <3>1, StepPrecharge DEF QuietEdge, Duts, TypeInv, TimeInv
  <2>5. CASE Issue
    <3>1. PICK o \in Chosen : Duts(TRUE, o.we, o.addr)
      BY <2>5 DEF Issue
    <3>2. o \in Op
      BY <2>5, <3>1, ChosenTyped DEF Issue, TypeInv, PlaceInv
    <3>3. PICK we \in BOOLEAN, addr \in Addr : we = o.we /\ addr = o.addr
      BY <3>2 DEF Op
    <3>4. Duts(TRUE, we, addr)
      BY <3>1, <3>3
    <3>5. QED
      BY <2>3, <3>4
  <2>6. QED
    BY <2>1, <2>2, <2>4, <2>5 DEF Next, Reset, IssueLoop, WaitWrite, WaitRead, Ack, Done
<1> DEFINE Waits == /\ pc = "wait" /\ op.we => WriteTime
                    /\ pc = "wait" /\ ~op.we => ReadTime
<1>2. Waits /\ NeverTimesOut /\ TypeOK
  BY DEF TimeInv, TypeInv
<1>3. SUFFICES Waits' /\ NeverTimesOut'
  BY <1>1 DEF TimeInv
<1>4. CASE Reset \/ IssueLoop
  BY <1>2, <1>4 DEF Reset, IssueLoop, benchVars, NeverTimesOut
<1>5. CASE Issue
  <2>1. PICK o \in Chosen : Duts(TRUE, o.we, o.addr) /\ op' = o
    BY <1>5 DEF Issue
  <2>2. o \in Op
    BY <1>5, <2>1, ChosenTyped DEF Issue, TypeInv, PlaceInv
  <2>3. IF o.we THEN WriteTime' ELSE ReadTime'
    <3>1. PICK we \in BOOLEAN, addr \in Addr : we = o.we /\ addr = o.addr
      BY <2>2 DEF Op
    <3>2. Duts(TRUE, we, addr)
      BY <2>1, <3>1
    <3>3. IF we THEN WriteTime' ELSE ReadTime'
      BY <1>5, <3>2, IssueTime DEF Issue, TimeInv, OwnInv
    <3>4. QED
      BY <3>1, <3>3
  <2>4. QED
    BY <1>2, <1>5, <2>1, <2>3 DEF Issue, NeverTimesOut
<1>6. CASE WaitWrite
  <2>1. pc = "wait" /\ op.we /\ op' = op /\ QuietEdge
    BY <1>6 DEF WaitWrite
  <2>2. cycles_waited \in 0 .. op.limit - 1 /\ op.limit \in {1000, 2000}
    BY <2>1 DEF TypeInv, PlaceInv, Op
  <2>3. cycles_waited + 1 # op.limit
    BY <1>2, <2>1, <2>2 DEF WriteTime, TypeOK, L1dTypeOK
  <2>4. CASE lsu_out'.write_complete
    BY <1>2, <1>6, <2>4, NextOpInTime DEF WaitWrite
  <2>5. CASE ~lsu_out'.write_complete
    <3>1. cycles_waited' = cycles_waited + 1 /\ UNCHANGED << pc, test, position, test_results >>
      BY <1>6, <2>3, <2>5 DEF WaitWrite
    <3>2. WriteTime'
      BY <1>2, <2>1, <2>2, <2>5, <3>1, WaitWriteTime
    <3>3. QED
      BY <1>2, <2>1, <3>1, <3>2 DEF NeverTimesOut
  <2>6. QED
    BY <2>4, <2>5
<1>7. CASE WaitRead
  <2>1. pc = "wait" /\ ~op.we /\ op' = op /\ QuietEdge
    BY <1>7 DEF WaitRead
  <2>2. cycles_waited \in 0 .. op.limit - 1 /\ op.limit \in {1000, 2000}
    BY <2>1 DEF TypeInv, PlaceInv, Op
  <2>3. cycles_waited + 1 # op.limit
    <3>1. cycles_waited <= 42
      BY <1>2, <2>1, <2>2 DEF ReadTime, FetchTime, TypeOK, L1dTypeOK, LlcTypeOK
    <3>2. QED
      BY <2>2, <3>1
  <2>4. CASE lsu_out'.valid
    <3>1. pc' = "ack" /\ UNCHANGED test_results
      BY <1>7, <2>4 DEF WaitRead
    <3>2. QED
      BY <1>2, <3>1 DEF NeverTimesOut
  <2>5. CASE ~lsu_out'.valid
    <3>1. cycles_waited' = cycles_waited + 1 /\ UNCHANGED << pc, test, position, test_results >>
      BY <1>7, <2>3, <2>5 DEF WaitRead
    <3>2. ReadTime'
      BY <1>2, <2>1, <2>2, <2>5, <3>1, WaitReadTime
    <3>3. QED
      BY <1>2, <2>1, <3>1, <3>2 DEF NeverTimesOut
  <2>6. QED
    BY <2>4, <2>5
<1>8. CASE Ack
  BY <1>2, <1>8, EndTestInTime, NextOpInTime DEF Ack
<1>9. CASE UNCHANGED vars
  <2>1. UNCHANGED << pc, op, cycles_waited, pending_write, pending_read, delay_counter,
                     waiting_for_llc, dram_state, dram_counter, hc_valid_out, test_results >>
    BY <1>9 DEF vars, l1dVars, benchVars
  <2>2. QED
    BY <1>2, <2>1 DEF WriteTime, ReadTime, FetchTime, NeverTimesOut
<1>10. QED
  BY <1>4, <1>5, <1>6, <1>7, <1>8, <1>9 DEF Next, Done

\* With the delays and the latencies of the source, no wait loop runs into its limit.
THEOREM NeverTimesOutHolds == Spec => []NeverTimesOut
<1>1. Init => LlcInv
  BY DEF Init, LlcInit, LlcInv, PulseInv, LlcServesPending
<1>2. Init => OwnInv
  BY DEF Init, L1dInit, OwnInv, OpInv, OwnAnswer
<1>3. Init => TimeInv
  BY DEF Init, LlcInit, TimeInv, PrechargeTime, NeverTimesOut
<1>4. TimeInv => NeverTimesOut
  BY DEF TimeInv
<1>5. QED
  BY <1>1, <1>2, <1>3, <1>4, InitTypeInv, StepTypeInv, StepLlcInv, StepOwnInv, StepTimeInv,
     PTL DEF Spec

-----------------------------------------------------------------------------
\* A read that is still held when the bench issues has outlived its acknowledgement,
\* and the bench no longer takes answers.
HeldInv ==
    /\ pc = "reset" => ~pending_read
    /\ Stuck => ~l1d_lsu_ready_in

\* An edge without a request starts no read, and ends one only if the bench takes the
\* answer.
LEMMA QuietHolds ==
  ASSUME QuietEdge
  PROVE  /\ pending_read' => pending_read
         /\ pending_read /\ ~l1d_lsu_ready_in => pending_read'
<1>1. PICK no : ~no /\ L1dEdge(no, no, None, l1d_lsu_ready_in, hc_valid_out)
  BY DEF QuietEdge, Duts
<1>2. \E ends : pending_read' = (pending_read /\ ~(ends /\ l1d_lsu_ready_in))
  <2>1. \E reads, ends :
           /\ reads = (pending_read \/ (no /\ ~no))
           /\ pending_read' = (reads /\ ~(ends /\ l1d_lsu_ready_in))
    BY <1>1, Zenon DEF L1dEdge, ReadEnds
  <2>2. QED
    BY <1>1, <2>1
<1>3. QED
  BY <1>2

LEMMA StepHeldInv ==
  ASSUME TypeInv, TimeInv, HeldInv, [Next]_vars, NeverTimesOut'
  PROVE  HeldInv'
<1> USE DEF HeldInv, Stuck
<1>1. CASE Reset
  BY <1>1, QuietHolds DEF Reset, L1dResetEdge
<1>2. CASE IssueLoop
  BY <1>2, QuietHolds DEF IssueLoop, benchVars
<1>3. CASE Issue
  BY <1>3 DEF Issue
<1>4. CASE WaitWrite
  BY <1>4, QuietHolds DEF WaitWrite, TimeInv, WriteTime, NextOp, EndTest
<1>5. CASE WaitRead
  <2>1. pc = "wait" /\ ~EndTest("TIMEOUT")
    <3>1. ASSUME EndTest("TIMEOUT")
          PROVE  FALSE
      <4>1. test \in Test
        BY <1>5 DEF WaitRead, TypeInv, PlaceInv
      <4>2. test_results'[test] = "TIMEOUT"
        BY <3>1, <4>1 DEF EndTest, TypeInv, TypeOK
      <4>3. QED
        BY <4>1, <4>2 DEF NeverTimesOut
    <3>2. QED
      BY <1>5, <3>1 DEF WaitRead
  <2>2. QED
    BY <1>5, <2>1 DEF WaitRead
<1>6. CASE Ack
  BY <1>6 DEF Ack, NextOp, EndTest
<1>7. CASE UNCHANGED vars
  BY <1>7 DEF vars, l1dVars, benchVars
<1>8. QED
  BY <1>1, <1>2, <1>3, <1>4, <1>5, <1>6, <1>7 DEF Next, Done

\* Once a read has outlived its acknowledgement, the bench never issues again.
THEOREM StuckForGoodHolds == Spec => StuckForGood
<1>1. ASSUME OwnInv, HeldInv, [Next]_vars
      PROVE  Stuck => Stuck'
  <2>1. SUFFICES ASSUME Stuck PROVE Stuck'
    OBVIOUS
  <2>2. pc = "issue" /\ pending_read /\ ~l1d_lsu_ready_in
    BY <1>1, <2>1 DEF HeldInv, Stuck
  <2>3. ~Issue
    BY <1>1, <2>2 DEF Issue, OwnInv, OpInv
  <2>4. CASE IssueLoop
    BY <2>2, <2>4, QuietHolds DEF IssueLoop, benchVars, Stuck
  <2>5. CASE UNCHANGED vars
    BY <2>2, <2>5 DEF vars, l1dVars, benchVars, Stuck
  <2>6. QED
    BY <1>1, <2>2, <2>3, <2>4, <2>5 DEF Next, Reset, WaitWrite, WaitRead, Ack, Done
<1>2. OwnInv /\ HeldInv /\ [Next]_vars => [Stuck => Stuck']_vars
  BY <1>1
<1>3. Init => LlcInv
  BY DEF Init, LlcInit, LlcInv, PulseInv, LlcServesPending
<1>4. Init => OwnInv
  BY DEF Init, L1dInit, OwnInv, OpInv, OwnAnswer
<1>5. Init => TimeInv
  BY DEF Init, LlcInit, TimeInv, PrechargeTime, NeverTimesOut
<1>6. Init => HeldInv
  BY DEF Init, L1dInit, HeldInv, Stuck
<1>7. TimeInv => NeverTimesOut
  BY DEF TimeInv
<1>8. QED
  BY <1>2, <1>3, <1>4, <1>5, <1>6, <1>7, InitTypeInv, StepTypeInv, StepLlcInv, StepOwnInv,
     StepTimeInv, StepHeldInv, PTL DEF Spec, StuckForGood

=============================================================================
