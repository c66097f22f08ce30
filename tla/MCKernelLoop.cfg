CONSTANTS
    t1 = t1
    NoText = NoText
    Texts = {t1}
    MaxStepsArgs = {0, 2, 5}
    MaxStepsCeil = 3
    StepTimeout = 3
    IdleQuantum = 2
    AwakeTicks = 1

SPECIFICATION FairSpec

INVARIANTS
    TypeOK
    StallDeadline
    ExitAgreesWithLog

PROPERTIES
    WatchdogNeverEarly
    ImplementsLifecycle
    Terminates

\* The program really stops: it writes its exit code to the test device.
CHECK_DEADLOCK FALSE
