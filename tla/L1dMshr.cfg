\* Two blocks that share a set, two MSHRs of two slots: both rings fill, wrap and drop.
CONSTANTS
    Block = {0, 1, 2}
    UsedBlock = {1, 2}
    NWords = 1
    NUM_SETS = 1
    MSHR_COUNT = 2
    QUEUE_SIZE = 2
    MaxOps = 5
    Tag <- MCTag
    Value <- MCValue
    Word <- MCWord
    None = None
SPECIFICATION Spec
INVARIANT TypeOK
INVARIANT AnsweredOnce
INVARIANT AnswerMatchesRequest
INVARIANT OneBlockPerMshr
INVARIANT OneMshrPerBlock
INVARIANT OneReadPerBlock
INVARIANT ReadHasMshr
INVARIANT TakenOnce
PROPERTY L1dKeepsPort
PROPERTY ShutForGood
PROPERTY ComesBack
