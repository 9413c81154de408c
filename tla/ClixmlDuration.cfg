SPECIFICATION Spec
CONSTANTS
    MicroDigits = 1
    NanoDigits = 2
    Nanos = 100
    IntMax = 127
    LongMax = 1000
    Texts <- MCTexts
    Messages <- MCMessages
    Spans <- MCSpans
    Steps <- MCSteps
    Numbers <- MCNumbers
    Start <- MCStart
    MaxWrites = 2
    MaxWaits = 2
CHECK_DEADLOCK FALSE
INVARIANT DurationKept
