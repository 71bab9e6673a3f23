SPECIFICATION FairSpec
CONSTANTS
    MOD = 20
    RCV_WND = 4
    SACKS = 2
    Bytes = 5
    ISNs = {0, 7, 12, 14, 16, 19}
INVARIANT StreamInOrder
INVARIANT KeptUntilReceived
INVARIANT SackTells
PROPERTY OfoAhead
PROPERTY Transferred
CHECK_DEADLOCK FALSE
