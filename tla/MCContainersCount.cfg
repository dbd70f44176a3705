SPECIFICATION Spec
CONSTANTS
    NumLetters = 3
    NumBuckets = 2
    InitialAllocation = 2
    Extra <- ExtraFrequencies
    LargePrime = 3
    EvenLargerPrime = 5
    Distance = 3
    MaxLetters = 3
    MaxCalls = 3
    Garbage = Garbage
    NULL = NULL
INVARIANT
    CountIsNumberOfElements
