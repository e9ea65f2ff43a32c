\* Two stores to one block, one to another of the same set.
CONSTANTS
    Block = {0, 1, 2}
    UsedBlock = {1, 2}
    NWords = 1
    NUM_SETS = 1
    MSHR_COUNT = 2
    QUEUE_SIZE = 2
    MaxOps = 3
    Tag <- MCTag
    Value <- MCValue
    Word <- MCWord
    None = None
SPECIFICATION Spec
PROPERTY DirtyLineWrittenBack
