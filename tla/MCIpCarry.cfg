SPECIFICATION Spec
CONSTANTS
    BYTE = 4
    MyAddr = 6
    Routed = {1, 6, 15}
    Sources = {1, 9, 15}
    Options = {0, 1, 5, 14, 15}
    Messages <- MCMessages
    OurAddrs = {0, 74, 201}
    PeerAddrs = {0, 17, 54, 55, 60, 128, 165, 166, 170, 180, 181, 182, 200, 254, 255}
    Payloads <- MCPayloads



INVARIANT SegmentVerifies
