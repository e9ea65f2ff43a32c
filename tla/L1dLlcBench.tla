---------------------------- MODULE L1dLlcBench ----------------------------
(***************************************************************************)
(* mem/verif/l1d_llc_verif.cpp: the bench L1DLLCTB that runs ten tests on  *)
(* the stand-ins SimL1D and SimLLC.  One step is one positive clock edge:  *)
(* the bench has set its inputs, the L1D is evaluated with what the LLC    *)
(* drove after the edge before, the LLC with what the L1D drives now, and  *)
(* the bench reads the outputs and goes on.                                *)
(*                                                                         *)
(* A test is the sequence of its operations; an operation that times out   *)
(* or reads a wrong value ends it.  Tags are left out: nothing reads them. *)
(***************************************************************************)
EXTENDS SimL1D, Sequences

CONSTANT RandomAddr       \* what generateAddress may return

ASSUME BenchAssumption ==
    /\ RandomAddr # {} /\ RandomAddr \subseteq Addr
    /\ {"0", "40", "80", "1000", "2000", "3000", "4000", "5000", "10000", "20000", "30000",
        "block", "l1d", "llc", "max"} \subseteq Addr

Write(a) == [we |-> TRUE, addr |-> a, check |-> FALSE, limit |-> 1000]
Read(a) == [we |-> FALSE, addr |-> a, check |-> FALSE, limit |-> 1000]
Check(a) == [Read(a) EXCEPT !.check = TRUE]

Random == Read(None)     \* chosen when it is issued
Repeat(n, op) == [i \in 1 .. n |-> op]

\* The five addresses of tests 4 and 5 are in one block.
runSimpleReadTest == << Read("1000") >>
runSimpleWriteTest == << Write("2000") >>
runReadAfterWriteTest == << Write("2000"), Check("2000") >>
runConsecutiveReadsTest == Repeat(5, Read("3000"))
runConsecutiveWritesTest == Repeat(5, Write("4000"))
runCacheMissTest ==
    LET slow(a) == [Read(a) EXCEPT !.limit = 2000]
    IN  << slow("10000"), slow("20000"), slow("30000") >>
runReadModifyWriteTest == << Write("5000"), Read("5000"), Write("5000"), Check("5000") >>
runRandomAccessTest == Repeat(20, Random)

\* "First block in set 1" is 0x40 again: the six addresses are three.
runAddressMappingTest ==
    << Write("0"), Write("40"), Write("80"), Write("40"), Write("80"), Write("80"),
       Check("0"), Check("40"), Check("80"), Check("40"), Check("80"), Check("80") >>
runBoundaryTest ==
    << Write("block"), Check("block"), Write("l1d"), Check("l1d"),
       Write("llc"), Check("llc"), Write("max"), Check("max") >>

runTests ==
    << runSimpleReadTest, runSimpleWriteTest, runReadAfterWriteTest, runConsecutiveReadsTest,
       runConsecutiveWritesTest, runCacheMissTest, runReadModifyWriteTest, runRandomAccessTest,
       runAddressMappingTest, runBoundaryTest >>

Test == DOMAIN runTests
Op == [we : BOOLEAN, addr : Addr, check : BOOLEAN, limit : {1000, 2000}]

VARIABLES
    dram_state, dram_counter, llc_addr, hc_valid_out, hc_addr_out,   \* SimLLC
    pc,               \* "reset", "issue", "wait", "ack" or "done"
    cycles_waited,    \* edges of the reset, or of the wait loop
    test, position,   \* the operation the bench is at
    op,               \* the operation presented
    readValue,        \* what the last read returned
    l1d_lsu_ready_in,
    expected_values,  \* test 8: the addresses written so far
    test_results

INSTANCE SimLLC

benchVars == << pc, cycles_waited, test, position, op, readValue, l1d_lsu_ready_in,
                expected_values, test_results >>
vars == << l1dVars, dram_state, dram_counter, llc_addr, hc_valid_out, hc_addr_out, benchVars >>

TypeOK ==
    /\ L1dTypeOK /\ LlcTypeOK
    /\ pc \in {"reset", "issue", "wait", "ack", "done"}
    /\ cycles_waited \in 0 .. 2000
    /\ test \in Test \cup {Len(runTests) + 1} /\ position \in 1 .. 20
    /\ op \in Op \cup {None}
    /\ readValue \in {HitValue, FillValue, None}
    /\ l1d_lsu_ready_in \in BOOLEAN
    /\ expected_values \subseteq RandomAddr
    /\ test_results \in [Test -> {"none", "PASS", "TIMEOUT", "MISMATCH"}]

Init ==
    /\ L1dInit /\ LlcInit
    /\ pc = "reset" /\ cycles_waited = 0
    /\ test = 1 /\ position = 1 /\ op = None /\ readValue = None
    /\ l1d_lsu_ready_in = TRUE
    /\ expected_values = {}
    /\ test_results = [t \in Test |-> "none"]

-----------------------------------------------------------------------------
\* The edge of both models, with the request the bench presents.
Duts(valid, we, addr) ==
    /\ L1dEdge(valid, we, addr, l1d_lsu_ready_in, hc_valid_out)
    /\ LlcEdge(lc_valid_out', lc_addr_out')

\* An edge on which nothing is presented.
QuietEdge == Duts(FALSE, FALSE, None)

\* Three edges in reset, and one after it.
Reset ==
    /\ pc = "reset"
    /\ IF cycles_waited < 3 THEN L1dResetEdge /\ LlcResetEdge ELSE QuietEdge
    /\ cycles_waited' = (cycles_waited + 1) % 4
    /\ pc' = IF cycles_waited = 3 THEN "issue" ELSE pc
    /\ UNCHANGED << test, position, op, readValue, l1d_lsu_ready_in, expected_values,
                    test_results >>

\* The test is over, with that result.
EndTest(result) ==
    /\ test_results' = [test_results EXCEPT ![test] = result]
    /\ test' = test + 1 /\ position' = 1
    /\ pc' = IF test = Len(runTests) THEN "done" ELSE "issue"

\* The operation is over; the last one of a test passes it.
NextOp ==
    IF position = Len(runTests[test]) THEN EndTest("PASS")
    ELSE position' = position + 1 /\ pc' = "issue" /\ UNCHANGED << test, test_results >>

\* Test 8 writes or, if the address has a value, may read it back.
Chosen ==
    IF runTests[test][position] # Random THEN {runTests[test][position]}
    ELSE {Write(a) : a \in RandomAddr} \cup {Check(a) : a \in expected_values}

\* issueRead, issueWrite: wait for ready without a limit, present for one edge.
IssueLoop ==
    /\ pc = "issue" /\ ~lsu_ready_out
    /\ QuietEdge
    /\ UNCHANGED benchVars

Issue ==
    /\ pc = "issue" /\ lsu_ready_out
    /\ \E o \in Chosen :
           /\ Duts(TRUE, o.we, o.addr)
           /\ op' = o
           /\ expected_values' = IF runTests[test][position] = Random /\ o.we
                                 THEN expected_values \cup {o.addr} ELSE expected_values
    /\ pc' = "wait" /\ cycles_waited' = 0
    /\ UNCHANGED << test, position, readValue, l1d_lsu_ready_in, test_results >>

\* waitForWriteComplete.
WaitWrite ==
    /\ pc = "wait" /\ op.we
    /\ QuietEdge
    /\ IF lsu_out'.write_complete THEN cycles_waited' = 0 /\ NextOp
       ELSE IF cycles_waited + 1 = op.limit THEN cycles_waited' = 0 /\ EndTest("TIMEOUT")
       ELSE cycles_waited' = cycles_waited + 1 /\ UNCHANGED << pc, test, position, test_results >>
    /\ UNCHANGED << op, readValue, l1d_lsu_ready_in, expected_values >>

\* waitForReadResponse up to the answer, whose address is not looked at.
WaitRead ==
    /\ pc = "wait" /\ ~op.we
    /\ QuietEdge
    /\ l1d_lsu_ready_in' = (l1d_lsu_ready_in \/ lsu_out'.valid)
    /\ readValue' = IF lsu_out'.valid THEN lsu_out'.value ELSE readValue
    /\ IF lsu_out'.valid
       THEN pc' = "ack" /\ cycles_waited' = 0 /\ UNCHANGED << test, position, test_results >>
       ELSE IF cycles_waited + 1 = op.limit THEN cycles_waited' = 0 /\ EndTest("TIMEOUT")
       ELSE cycles_waited' = cycles_waited + 1 /\ UNCHANGED << pc, test, position, test_results >>
    /\ UNCHANGED << op, expected_values >>

\* The values the bench writes, and would like to read back: all are different from
\* the two values the L1D returns, also the inverted one of test 7.
Written == "written"

\* One edge of acknowledgement; then the value read is compared.
Ack ==
    /\ pc = "ack"
    /\ QuietEdge
    /\ l1d_lsu_ready_in' = FALSE
    /\ IF op.check /\ readValue # Written THEN EndTest("MISMATCH") ELSE NextOp
    /\ UNCHANGED << cycles_waited, op, readValue, expected_values >>

\* reportResults has run; the program exits.
Done == pc = "done" /\ UNCHANGED vars

Next == Reset \/ IssueLoop \/ Issue \/ WaitWrite \/ WaitRead \/ Ack \/ Done

\* The bench toggles the clock itself: it does not stop.
Spec == Init /\ [][Next]_vars /\ WF_vars(Next)

-----------------------------------------------------------------------------
\* What the LLC is fetching, or has just fetched, is awaited and is the line of
\* the pending address: a hit in the meantime does not leave an answer behind that
\* a later read could be given.
LlcServesPending ==
    dram_state \in {"ACTIVATING", "READING"} \/ hc_valid_out =>
        waiting_for_llc /\ llc_addr = pending_addr

\* The answer a read takes is its own, although the bench checks neither address
\* nor tag and an LLC answer may come after a hit.
OwnAnswer == pc = "ack" => lsu_out.addr = op.addr

\* No wait loop runs into its limit, however the coin falls: a read that misses
\* asks an idle LLC, because the DRAM has precharged before the L1D looks.
NeverTimesOut == \A t \in Test : test_results[t] # "TIMEOUT"

\* reportResults does not print "ALL TESTS PASSED".
NeverAllPassed == pc = "done" => \E t \in Test : test_results[t] # "PASS"

\* The bench waits to issue, and the L1D still holds a read.
Stuck == pc = "issue" /\ pending_read

\* Once a read has outlived its acknowledgement, the bench never issues again.
StuckForGood == [][Stuck => Stuck']_vars

\* The tests come to an end unless a read outlives its acknowledgement.
EndsOrHangs == <>(pc = "done" \/ Stuck)
=============================================================================
