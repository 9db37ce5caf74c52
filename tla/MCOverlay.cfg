SPECIFICATION Spec
CONSTANTS
    Callers = {c1, c2}
    Requests <- TimeRequests
    Others = {}
    Targets <- Wide
    Scopes <- MCScopes
    Trees <- OverlayTrees
    FirstTree <- OverlayTree
    Nodes <- MCNodes
    RouteIDs <- MCRouteIDs
    SharedID <- MCSharedID
    RouteOf <- OverlayRouteOf
    RouterAnswers <- OverlayAnswers
    OpenDecisionFor <- CatchAllDecision
    SourceOpen <- MCSourceOpen
    DefaultTTL <- Forever
    NegativeTTL = 1
    CacheFaults = {}
    MaxTTL = 1
    MaxFetch = 0
    MaxVersions = 3
    QuietAfter = 0
    MaxClock = 0
INVARIANT
    OwnerServesItsPath
