SPECIFICATION Spec
CONSTANTS
    Callers = {c1, c2}
    Requests <- LookupRequests
    Others = {}
    Targets <- Deep
    Scopes <- MCScopes
    Trees <- KindTrees
    FirstTree <- FirstKindTree
    Nodes <- MCNodes
    RouteIDs <- MCRouteIDs
    SharedID <- MCSharedID
    RouteOf <- CatchAllRouteOf
    RouterAnswers <- GuardedAnswers
    OpenDecisionFor <- GuardedDecision
    SourceOpen <- MCSourceOpen
    DefaultTTL <- Forever
    NegativeTTL = 1
    CacheFaults = {"invalidate"}
    MaxTTL = 1
    MaxFetch = 0
    MaxVersions = 3
    QuietAfter = 0
    MaxClock = 0
SYMMETRY CallerSymmetry
INVARIANTS
    TypeOK
    FreshAfterInvalidation
PROPERTY
    ReadsThrough
