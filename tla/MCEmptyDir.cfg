SPECIFICATION RouteSetSpec
CONSTANTS
    DotNames <- MCDotNames
    ExtOf <- MCExtOf
    NameBefore <- MCNameBefore
    Suffixed <- MCSuffixed
    MapWith <- MCMapWith
    Configs <- CatchAllConfigs
    Policies = {"error"}
    MaxRoutes = 2
    Targets <- MCPaths
    Providers <- MCProviders
    Trees <- MCTrees
    Global <- MCGlobal
INVARIANT
    DirectoryCanBeListed
