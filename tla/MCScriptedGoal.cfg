CONSTANTS
    t1 = t1
    NoText = NoText
    Texts = {t1}
    MaxLen = 3
    Scripts <- MCScripts
    MaxStepsArgs = {0, 2, 3}
    MaxStepsCeil = 3
    StepTimeout = 2
    IdleQuantum = 2
    AwakeTicks = 2

SPECIFICATION ScriptedSpec

INVARIANTS
    DeterministicLog
    DeterministicPolls
    SteerOfPreviousEntry

PROPERTIES
    ImplementsFairLifecycle

\* The program really stops: it writes its exit code to the test device.
CHECK_DEADLOCK FALSE
