CONSTANTS
    Timeout = 2
    CloseWait = 1
    SlowestIdle = 1
    SlowestTail = 2
    MaxMessages = 2
    MaxParts = 2
    MaxControls = 1

SPECIFICATION Spec

INVARIANTS
    WaitsBounded
    SmokeFailsOnlyForPeer

PROPERTIES
    ImplementsChannel
    EveryMessageReturned
    Resolves

\* The program really stops: it writes its exit code to the test device.
CHECK_DEADLOCK FALSE
