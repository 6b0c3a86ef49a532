SPECIFICATION MCSpec
CONSTANTS
    Prelude <- MCPrelude
    Books <- MCBooks
    Budget = 60
    Judge <- MCJudge
    Holds <- MCHolds
    Sources <- MCSources
    Limit = 12
    Keeps <- MCKeeps
    Precision = 3
    EMin <- MCEMin
    EMax = 3
    PrefixBits = 6
    DecimalCap = 5
    ExponentCap = 100
    ShowDigits = 4
    ShowFrom <- MCShowFrom
    ShowTo = 2
    MaxNat = 8
    MaxDepth = 2
    Width = 3
    Tasks <- MCTasks
CHECK_DEADLOCK FALSE
INVARIANTS
    Sound
    EvaluateAgrees
    CompiledAgrees
    NativeAgrees
    FirstMatch
    NumbersRight
