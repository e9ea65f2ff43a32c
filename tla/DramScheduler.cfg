\* Three requests to rings of two; latencies and stages scaled in proportion.
CONSTANTS
    BANK_GROUPS = 2
    BANKS_PER_GROUP = 2
    ROWS = 2
    STAGES = 8
    REFRESH_STAGES = 5
    ACTIVATION_LATENCY = 3
    PRECHARGE_LATENCY = 2
    QUEUE_SIZE = 2
    Address <- MCAddress
    Key <- MCKey
    LateKey = 6
    Never = 100
    Horizon = 9
    MaxRequests = 3
    MaxRefreshes = 1
SPECIFICATION Spec
INVARIANT TypeOK
INVARIANT InOnePlace
INVARIANT SentOnce
INVARIANT NoneLost
INVARIANT ColumnMeetsOpenRow
INVARIANT RefreshCloses
PROPERTY CommandsSpaced
PROPERTY StuckStays
