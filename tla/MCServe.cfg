\* Three lines; of three numbers the last is u64::MAX.  Every line of up to six
\* bytes is scanned; three levels are one too many.
SPECIFICATION MCSpec
CONSTANTS
    MaxId = 2
    MaxLines = 3
    MaxDepth = 2
    MaxLength = 6
INVARIANTS
    ScanRight
    AnswersRight
PROPERTIES
    SessionEnds
