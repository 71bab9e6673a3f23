SPECIFICATION FairSpec
CONSTANTS
    Socks = {s1}
    Pollers = {p1}
    NoThread = NoThread
INVARIANT TypeOK
INVARIANT NoDeadlock
INVARIANT RefcntExact
INVARIANT FreedOnce
INVARIANT FreedUses
PROPERTY Collected
CHECK_DEADLOCK FALSE
