SPECIFICATION WalkSpec
CONSTANTS
    DotNames <- MCDotNames
    ExtOf <- MCExtOf
    NameBefore <- MCNameBefore
    Suffixed <- MCSuffixed
    MapWith <- MCMapWith
    Jobs <- MCJobs
    Trees <- MCTrees
    MaxChanges = 3
INVARIANTS
    WalkTypeOK
    UndisturbedWalkIsMaterialize
    NothingSteadyIsMissed
PROPERTIES
    RenamedStays
    WalkEnds
