\* Two requests for one block.
CONSTANTS
    Block = {0, 1}
    UsedBlock = {1}
    NWords = 1
    NUM_SETS = 1
    MSHR_COUNT = 2
    QUEUE_SIZE = 2
    MaxOps = 2
    Tag <- MCTag
    Value <- MCValue
    Word <- MCWord
    None = None
SPECIFICATION Spec
PROPERTY RequestsTaken
