SPECIFICATION Spec
CONSTANTS
    MaxInt = 15
    MaxEntries = 7
    Sizes <- AllSizes
INVARIANT
    NeverPanics
