SPECIFICATION FairSpec
CONSTANTS
    Callers = {c1, c2}
    Requests <- TimeRequests
    Others = {}
    Targets <- Flat
    Scopes <- MCScopes
    Trees <- ToggledTrees
    FirstTree <- FirstFileTree
    Nodes <- MCNodes
    RouteIDs <- MCRouteIDs
    SharedID <- MCSharedID
    RouteOf <- CatchAllRouteOf
    RouterAnswers <- CatchAllAnswers
    OpenDecisionFor <- CatchAllDecision
    SourceOpen <- MCSourceOpen
    DefaultTTL = 2
    NegativeTTL = 1
    CacheFaults = {"put"}
    MaxTTL = 2
    MaxFetch = 1
    MaxVersions = 2
    QuietAfter = 0
    MaxClock = 3
INVARIANT
    BoundedStaleness
PROPERTY
    EventuallyFresh
