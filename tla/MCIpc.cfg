SPECIFICATION FairSpec
CONSTANTS
    App = {a1, a2}
    Conns = {c1}
    NoConn = NoConn
INVARIANT OwnAnswer
INVARIANT WrittenWhole
INVARIANT NoOrphan
PROPERTY CallsReturn
PROPERTY ThreadsEnd
CHECK_DEADLOCK FALSE
