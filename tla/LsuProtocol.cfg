\* Four operations fill four slots, and use each of two slots twice; two
\* addresses let memory answer out of order. FirstToZero bounds the programs.
CONSTANTS
    Depths = {2, 4}
    MaxOps = 4
    MaxWaiting = 1
    NAddr = 2
    Tag <- MCTag
    Value <- MCValue
    Addr <- MCAddr
    None = None
SPECIFICATION Spec
CONSTRAINT FirstToZero
INVARIANT TypeOK
INVARIANT RequestIntegrity
INVARIANT CompletedAfterAddress
INVARIANT CompletedOnce
INVARIANT TakenOnce
