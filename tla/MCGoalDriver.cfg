CONSTANTS
    t1 = t1
    t2 = t2
    NoText = NoText
    Texts = {t1, t2}
    MaxStepsArgs = {0, 1, 2, 3, 4, 5, 6, 7}
    MaxStepsCeil = 6

SPECIFICATION DriverSpec

INVARIANTS
    LogTracksDriver
