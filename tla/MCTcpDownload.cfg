SPECIFICATION Spec
CONSTANTS
    ISS = 1
    IRS = 10
    SMSS = 1
    RCV_WND = 2
    DELACK_LEN = 1
    TCP_CONN_RETRIES = 1
    RTO_INIT = 1
    RTO_MAX = 2
    NonBlock = {TRUE, FALSE}
    AppBytes = 0
    WriteSizes = {1}
    ReadSizes = {2}
    RttSamples = {1}
    Expirable = {"delack"}
    MaxThreads = 2
    PeerModes = {"listen"}
    PeerBytes = 3
    PeerCloses = TRUE
    PeerResets = FALSE
INVARIANT TypeOK
INVARIANT InOrder
INVARIANT NoLostWakeup
INVARIANT PollTellsTruth
PROPERTY ReadsStream
CHECK_DEADLOCK FALSE
