SPECIFICATION FairSpec
CONSTANTS
    MaxInt = 15
    MaxEntries = 7
    Sizes <- SmallSizes
INVARIANTS
    TypeOK
    EachEntryOnce
PROPERTY
    ReaderSeesEnd
