\* Two operations are enough to lose one.
CONSTANTS
    Depths = {4}
    MaxOps = 2
    MaxWaiting = 1
    NAddr = 1
    Tag <- MCTag
    Value <- MCValue
    Addr <- MCAddr
    None = None
SPECIFICATION Spec
PROPERTY LoadsComplete
