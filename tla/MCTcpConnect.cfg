SPECIFICATION FairSpec
CONSTANTS
    ISS = 1
    IRS = 10
    SMSS = 1
    RCV_WND = 5
    DELACK_LEN = 1
    TCP_CONN_RETRIES = 1
    RTO_INIT = 1
    RTO_MAX = 1
    NonBlock = {FALSE}
    AppBytes = 1
    WriteSizes = {1}
    ReadSizes = {1}
    RttSamples = {1}
    Expirable = {"conn", "rto", "delack", "user", "2msl", "gc"}
    MaxThreads = 1
    PeerModes = {"listen", "refuse"}
    PeerBytes = 0
    PeerCloses = TRUE
    PeerResets = FALSE
PROPERTY ConnectReturns
PROPERTY ClosedIsFreed
CHECK_DEADLOCK FALSE
