CONSTANTS
    NoText = NoText
    MaxTokens = 6

SPECIFICATION VerdictSpec

INVARIANTS
    LastLineDecides
    SteerIsOneLine
    EchoNeverConcludes

\* A goal that concluded needs no more replies.
CHECK_DEADLOCK FALSE
