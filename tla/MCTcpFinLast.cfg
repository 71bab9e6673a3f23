SPECIFICATION Spec
CONSTANTS
    ISS = 1
    IRS = 10
    SMSS = 1
    RCV_WND = 5
    DELACK_LEN = 1
    TCP_CONN_RETRIES = 1
    RTO_INIT = 1
    RTO_MAX = 2
    NonBlock = {FALSE}
    AppBytes = 2
    WriteSizes = {2}
    ReadSizes = {1}
    RttSamples = {1}
    Expirable = {"conn", "rto", "delack"}
    MaxThreads = 1
    PeerModes = {"listen"}
    PeerBytes = 0
    PeerCloses = TRUE
    PeerResets = FALSE
INVARIANT FinAfterData
CHECK_DEADLOCK FALSE
