SPECIFICATION RouteSetSpec
CONSTANTS
    DotNames <- MCDotNames
    ExtOf <- MCExtOf
    NameBefore <- MCNameBefore
    Suffixed <- MCSuffixed
    MapWith <- MCMapWith
    Configs <- AllConfigs
    Policies = {"mostspecific", "first", "last"}
    MaxRoutes = 2
    Targets <- MCPaths
    Providers <- MCProviders
    Trees <- MCTrees
    Global <- MCGlobal
VIEW Compiling
INVARIANTS
    RoutingTypeOK
    OneOwner
    ListedNodeIsResolvedNode
    ResolvableIsListed
    ReverseMappingSound
    ReverseMappingComplete
    HiddenIsNotShown
    HintsCover
