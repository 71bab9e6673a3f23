SPECIFICATION FairSpec
CONSTANTS
    Hosts = {gw, h}
    Gateway = gw
    Far = {far}
    Loopback = {}
    Dests = {far, gw}
    Us = us
    Lo = lo
    Threads = {app, core}
    Core = core
    Movers = {gw}
    MaxMoves = 1
    MaxAnnounced = 1
    NULL = NULL
INVARIANT TypeOK
INVARIANT FrameAddressed
INVARIANT EntryCurrent
PROPERTY Resolved
