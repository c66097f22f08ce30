CONSTANTS
    t1 = t1
    NoText = NoText
    Texts = {t1}
    MaxStepsArgs = {8}
    MaxStepsCeil = 8
    StepTimeout = 4
    IdleQuantum = 2
    AwakeTicks = 1
    Modes = {"llm", "silent"}
    Replies <- MCReplies
    Faults = FALSE
    MaxUnasked = 0
    GatewayTicks = 1
    SendTimeout = 3

SPECIFICATION MockSpec

PROPERTIES
    GateOutcome

\* The program really stops: it writes its exit code to the test device.
CHECK_DEADLOCK FALSE
