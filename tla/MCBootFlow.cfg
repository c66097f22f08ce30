CONSTANTS
    t1 = t1
    NoText = NoText
    Texts = {t1}
    WrapUp = t1
    MaxStepsArgs = {8}
    MaxStepsCeil = 12
    Features <- MCFeatures

SPECIFICATION Spec

INVARIANTS
    OomIsVisible
    ExitZeroIsTheNarrative

PROPERTIES
    GatesPass
    EveryBuildEnds

\* The program really stops: it writes its exit code to the test device.
CHECK_DEADLOCK FALSE
