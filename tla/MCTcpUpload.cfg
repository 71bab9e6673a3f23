SPECIFICATION Spec
CONSTANTS
    ISS = 1
    IRS = 10
    SMSS = 1
    RCV_WND = 5
    DELACK_LEN = 1
    TCP_CONN_RETRIES = 1
    RTO_INIT = 1
    RTO_MAX = 4
    NonBlock = {FALSE}
    AppBytes = 5
    WriteSizes = {1, 3}
    ReadSizes = {1}
    RttSamples = {0, 1, 2}
    Expirable = {"conn", "rto", "delack"}
    MaxThreads = 2
    PeerModes = {"listen"}
    PeerBytes = 0
    PeerCloses = FALSE
    PeerResets = FALSE
INVARIANT InflightCount
INVARIANT UnackedTimed
PROPERTY WritesStream
CHECK_DEADLOCK FALSE
