\* Four operations to one address.
CONSTANTS
    Depths = {4}
    MaxOps = 4
    MaxWaiting = 1
    NAddr = 1
    Tag <- MCTag
    Value <- MCValue
    Addr <- MCAddr
    None = None
SPECIFICATION Spec
INVARIANT LoadValueCorrect
