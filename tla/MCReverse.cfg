SPECIFICATION Spec
CONSTANTS
    Callers = {c1, c2}
    Requests <- ReverseRequests
    Others = {"malformed", "invalidate", "clear", "delete"}
    Targets <- Flat
    Scopes <- MCScopes
    Trees <- ToggledTrees
    FirstTree <- Empty
    Nodes <- MCNodes
    RouteIDs <- MCRouteIDs
    SharedID <- MCSharedID
    RouteOf <- CatchAllRouteOf
    RouterAnswers <- CatchAllAnswers
    OpenDecisionFor <- CatchAllDecision
    SourceOpen <- MCSourceOpen
    DefaultTTL <- Forever
    NegativeTTL = 1
    CacheFaults = {"get", "put", "invalidate"}
    MaxTTL = 1
    MaxFetch = 0
    MaxVersions = 2
    QuietAfter = 0
    MaxClock = 0
SYMMETRY CallerSymmetry
INVARIANTS
    FreshAfterInvalidation
    AnswersComeFromTheSource
PROPERTY
    SourceInvalidationReaches
