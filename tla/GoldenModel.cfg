\* Four blocks share a set of three ways, one has a set of its own.
CONSTANTS
    Block = {A, B, C, D, E}
    Other = E
    Word = {0}
    Set = {0, 1}
    SetOf <- MCSetOf
    MSHR_COUNT = 2
    MSHR_QUEUE_SIZE = 2
    MaxOps = 5
    Tag <- MCTag
    Value <- MCValue
    None = None
SYMMETRY Symmetry
CHECK_DEADLOCK FALSE
SPECIFICATION Spec
INVARIANT TypeOK
INVARIANT EarlyHasNoExpectation
INVARIANT NoFalseAlarm
INVARIANT NothingForgotten
INVARIANT CleanReport
INVARIANT SameCache
