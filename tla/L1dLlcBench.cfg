\* The bench as it is: all ten tests, the latencies of the source; test 8 draws from
\* two addresses, so that it meets a written address again.
CONSTANTS
    Addr = {"0", "40", "80", "1000", "2000", "3000", "4000", "5000", "10000", "20000", "30000",
            "block", "l1d", "llc", "max", "r1", "r2"}
    RandomAddr = {"r1", "r2"}
    None = None
SPECIFICATION Spec
INVARIANT TypeOK
INVARIANT LlcServesPending
INVARIANT OwnAnswer
INVARIANT NeverTimesOut
INVARIANT NeverAllPassed
PROPERTY StuckForGood
PROPERTY EndsOrHangs
