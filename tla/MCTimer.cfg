SPECIFICATION FairSpec
CONSTANTS
    Timers = {t1, t2, t3}
    Slots = {retransmit, linger}
    Delays = {0, 1}
    NULL = NULL
INVARIANT TypeOK
INVARIANT PointersCounted
INVARIANT StartedOnce
PROPERTY Reclaimed
PROPERTY FiresOrCancelled
