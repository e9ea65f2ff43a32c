\* One request for block 0.
CONSTANTS
    Block = {0}
    UsedBlock = {0}
    NWords = 1
    NUM_SETS = 1
    MSHR_COUNT = 2
    QUEUE_SIZE = 2
    MaxOps = 1
    Tag <- MCTag
    Value <- MCValue
    Word <- MCWord
    None = None
SPECIFICATION Spec
PROPERTY RequestsAnswered
