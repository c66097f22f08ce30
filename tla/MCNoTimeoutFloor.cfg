\* APEXRV_STEP_TIMEOUT_SECS=0: the override has no floor.
CONSTANTS
    t1 = t1
    NoText = NoText
    Texts = {t1}
    MaxLen = 3
    Scripts <- MCScripts
    MaxStepsArgs = {0, 2, 3}
    MaxStepsCeil = 3
    StepTimeout = 0
    IdleQuantum = 2
    AwakeTicks = 1

SPECIFICATION ScriptedSpec

INVARIANT
    DeterministicLog

CHECK_DEADLOCK FALSE
