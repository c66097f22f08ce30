CONSTANTS
    Slots = 2
    ArenaPages = 2
    MaxPages = 1
    Buffers = {b1, b2}
    MaxPackets = 3
    PingLen = 2
    Timeout = 2
    SlowestIdle = 1

SPECIFICATION Spec

INVARIANTS
    ArenaExclusive
    FirstNicFound
    TokensSafe
    EchoIsAccepted

PROPERTIES
    SmokeEnds

\* The program really stops: it writes its exit code to the test device.
CHECK_DEADLOCK FALSE
