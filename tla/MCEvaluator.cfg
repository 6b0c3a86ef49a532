\* Thirteen programs and a family of 64, each lazy and by value, with and without sharing of
\* variables, under six settings of the limits.
SPECIFICATION FairSpec
CONSTANTS
    Programs <- MCPrograms
    Terms <- MCTerms
    Limits <- MCLimits
INVARIANTS
    HeapSound
    Adequate
PROPERTIES
    EvaluationEnds
