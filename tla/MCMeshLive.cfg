CONSTANTS
    t1 = t1
    NoText = NoText
    Texts = {t1}
    MaxStepsArgs = {2}
    MaxStepsCeil = 2
    StepTimeout = 1
    IdleQuantum = 1
    AwakeTicks = 1
    Modes = {"live"}
    Replies <- MCReplies
    Faults = TRUE
    MaxUnasked = 1
    GatewayTicks = 1
    SendTimeout = 2

SPECIFICATION MeshSpec

INVARIANTS
    OneTurnPerStep

PROPERTIES
    VerdictOfOwnTurn
    LastVerdictDecides
    ImplementsLoop
    Terminates

\* The program really stops: it writes its exit code to the test device.
CHECK_DEADLOCK FALSE
