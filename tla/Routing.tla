------------------------------ MODULE Routing ------------------------------
(* What the router of a route set promises its callers, for every route set  *)
(* the application can build: the properties of RouteSet and Router together *)
(* over the target paths and source trees given as constants.                *)
EXTENDS RouteSet

CONSTANTS
    Targets,      \* the target and source paths asked about
    Trees,        \* the source trees asked about
    Providers,    \* the providers of virtual nodes
    Global        \* the filter of the FS

ASSUME RoutingAssumption ==
    /\ Targets \subseteq Seq(STRING \ {""})
    /\ \A tree \in Trees :
           WellFormed(tree) /\ IsFiniteSet(DOMAIN tree) /\ DOMAIN tree \subseteq Seq(STRING)
    /\ OrdersNames(Trees)

\* A filter is a list of clauses, and Transform's functions answer with lists.
Lists(cfg) ==
    /\ IsList(cfg.filter)
    /\ cfg.handler.type = "transform" =>
           \A tree \in Trees : \A p, q \in DOMAIN tree :
               HasPathPrefix(p, q) /\ p # q =>
                   /\ IsList(MapWith(cfg.handler.mapDir, q, Below(p, Len(q))))
                   /\ IsList(MapWith(cfg.handler.mapFile, q, Below(p, Len(q))))

ASSUME ListsAssumption == IsList(Global) /\ \A cfg \in Configs : Lists(cfg)

(* The handlers are the built-in ones. A Mount has a clean root. Transform's *)
(* functions give an entry clean paths below the root of the route: a node   *)
(* at the root itself would be listed by it and hidden by virtualRootNode.   *)
HandlerOK(handler) ==
    /\ handler.type \in Materializing \cup {"identity", "mount", "virtual", "none"}
    /\ handler.type = "mount" => handler.root \in Seq(STRING)
    /\ handler.type = "virtual" => handler.provider \in Providers
    /\ handler.type = "transform" =>
           \A tree \in Trees : \A p, q \in DOMAIN tree :
               HasPathPrefix(p, q) /\ p # q =>
                   \A function \in {handler.mapDir, handler.mapFile} :
                       ToSet(MapWith(function, q, Below(p, Len(q))))
                           \subseteq Seq(STRING) \ {Root}

ASSUME HandlersAssumption ==
    /\ \A cfg \in Configs : HandlerOK(cfg.handler)
    /\ \A p \in Providers :
           /\ p.children \in Seq(Providers)
           /\ \A i, j \in DOMAIN p.children : p.children[i].name = p.children[j].name => i = j

router == built.router

---------------------------------------------------------------------------
(* Type invariant: a compiled router has one route per configuration, and    *)
(* no two of them carry the same id.                                         *)
RoutingTypeOK ==
    /\ Len(configs) <= MaxRoutes
    /\ policy \in Policies \cup {"error"}
    /\ optionErr \in BOOLEAN
    /\ built.status \in {"none", "ready", "error"}
    /\ \A i, j \in DOMAIN router.routes :
           router.routes[i].id = router.routes[j].id => i = j

(* Of a router that NewRouter accepted, no target path ever makes bestMatch  *)
(* fail with "ambiguous routes", and the route it returns beats every other  *)
(* route that matches, whatever the declaration order: the pairwise check    *)
(* made at construction (checkRouteAmbiguity, whose canOverlap never sees a  *)
(* path) is enough for every path.                                           *)
OneOwner ==
    Ready =>
        \A t \in Targets :
            LET matching == {i \in DOMAIN router.routes :
                                Matches(router.routes[i].pattern, t)}
                best == BestMatch(router.routes, t)
            IN  matching # {} =>
                    /\ best \in matching
                    /\ \A i \in matching \ {best} :
                           Beats(router.routes[best], router.routes[i])

\* Two routes own their paths alike: the same id answers for both.
SameOwner(t, u) ==
    /\ Owned(router, t)
    /\ Owned(router, u)
    /\ OwnerOf(router, t) = OwnerOf(router, u)

(* What a handler lists is the node that it resolves: every entry of a       *)
(* listing -- of the source, flattened and renamed, mapped, a category, a    *)
(* virtual file -- is what Resolve answers for it, as long as the route that *)
(* listed it also owns its path, in the tree of the names or in that of the  *)
(* entry's info. readDirNodes relies on it: it caches every listed node      *)
(* under the key that resolve reads.                                         *)
ListedNodeIsResolvedNode ==
    Ready =>
        \A t \in Targets, first, last \in Trees :
            \A n \in OwnListing(router, Global, first, InfosOf(first, last), t).nodes :
                SameOwner(t, n.path) =>
                    \E tree \in {first, last} :
                        Resolve(router, Global, tree, n.path).nodes = {n}

(* Whatever resolves is found by walking: it is named by the listing of its  *)
(* parent when one route owns both, unless the owner's listing or the whole  *)
(* failed. An entry may be replaced under the conflict policy, never         *)
(* dropped.                                                                  *)
ResolvableIsListed ==
    Ready =>
        \A t \in Targets \ {Root}, tree \in Trees :
            LET parent  == ParentPath(t)
                listing == ReadDir(router, Global, tree, InfosOf(tree, tree), parent)
            IN  /\ SameOwner(t, parent)
                /\ Resolve(router, Global, tree, t).err = "none"
                /\ OwnListing(router, Global, tree, InfosOf(tree, tree), parent).err = "none"
                /\ listing.err \notin {"conflict", "other"}
                => \E n \in listing.nodes : n.path = t

\* No parameter name is used twice.
DistinctParams(segments) ==
    \A i, j \in 1..Len(segments) :
        segments[i].kind = "named" /\ segments[j] = segments[i] => i = j

(* Reverse mapping is sound where a mapped target path belongs to the route  *)
(* that named it: SourcePaths leads back to the source path that TargetPaths *)
(* was asked about, through flattening, renaming, categories and mapping     *)
(* functions. (A Mount reads another root than its template matches; a       *)
(* template with a parameter that the pattern lacks resolves nothing; of a   *)
(* name that a template uses twice MatchSource keeps the last value only.)   *)
ReverseMappingSound ==
    Ready =>
        \A s \in Targets, tree \in Trees :
            \A r \in {x \in ToSet(router.routes) : CanMapBack(x, s)} :
                \A t \in MapBack(Global, r, tree, s).paths :
                    /\ r = OwnerOf(router, t)
                    /\ r.handler.type # "mount"
                    /\ DistinctParams(r.source)
                    /\ CanRequest(r, MatchOf(r.pattern, t))
                    => SourcePaths(router, Global, tree, t).paths = {s}

(* Reverse mapping is complete where the source template is the pattern's    *)
(* prefix, as it is for a route without wildcards and without a Source       *)
(* option, and names its parameters once: a source entry that the route      *)
(* shows at a path is mapped to that path, unless some other route fails the *)
(* whole of TargetPaths.                                                     *)
ReverseMappingComplete ==
    Ready =>
        \A t \in Targets, tree \in Trees :
            LET result == Resolve(router, Global, tree, t)
                route  == OwnerOf(router, t)
            IN  /\ result.err = "none"
                /\ route.handler.type # "mount"
                /\ route.source = route.pattern.segments
                /\ DistinctParams(route.source)
                => \A n \in {x \in result.nodes : ~x.virtual} :
                       LET back == TargetPaths(router, Global, tree, n.source)
                       IN  back.err \in {"none", "notexist"} => t \in back.paths

\* What a handler shows that was not filtered under the path it has now.
Unfiltered(handler, node) ==
    \/ handler.type = "classifier" /\ node.kind = "dir"
    \/ handler.type \in Materializing /\ handler.policy = "rename"

(* What the FS's filter hides in FilterTarget is not shown by any lookup of  *)
(* any handler, listed or resolved, under whatever path the handler gives    *)
(* it. Not covered are the directories of categories, which no filter is     *)
(* asked about, and what the rename policy named after it was filtered.      *)
HiddenIsNotShown ==
    Ready =>
        \A t \in Targets, tree \in Trees :
            LET own    == Resolve(router, Global, tree, t).nodes
                              \cup OwnListing(router, Global, tree, InfosOf(tree, tree), t).nodes
                merged == ReadDir(router, Global, tree, InfosOf(tree, tree), t).nodes
            IN  \A n \in own \cup merged :
                    \/ TargetDecision(Global, n) = "include"
                    \/ n \in own /\ Unfiltered(OwnerOf(router, t).handler, n)

(* What an answer names of the source is at or below a source root of its    *)
(* CacheHint, which is all that Invalidate of a source path goes by: the     *)
(* source of every node that is shown, the paths of SourcePaths, the path    *)
(* that TargetPaths was asked about -- through mounts, templates, merged     *)
(* listings and materialized ones. Not covered are the source paths of nodes *)
(* that a handler makes up, a category's above all.                          *)
HintsCover ==
    Ready =>
        \A t \in Targets, tree \in Trees :
            LET resolved == Resolve(router, Global, tree, t)
                listed(last) == ReadDir(router, Global, tree, InfosOf(tree, last), t)
                sources  == SourcePaths(router, Global, tree, t)
                targets  == TargetPaths(router, Global, tree, t)
                backed(answer) == {n \in answer.nodes : ~n.virtual}
            IN  /\ \A n \in backed(resolved) : CoveredBy(n.source, resolved.sources)
                /\ \A last \in Trees : \A n \in backed(listed(last)) :
                       CoveredBy(n.source, listed(last).sources)
                /\ \A n \in backed(resolved) :
                       \A p \in sources.paths : CoveredBy(p, sources.sources)
                /\ targets.err = "none" => CoveredBy(t, targets.sources)

---------------------------------------------------------------------------
(* Statements of the README that the code does not keep; each is checked by  *)
(* a run that is expected to find it violated.                               *)

(* README.md:67 "The simplest setup exposes the source filesystem            *)
(* unchanged": a directory of the source can be listed.                      *)
DirectoryCanBeListed ==
    Ready =>
        \A t \in Targets, tree \in Trees :
            \A n \in Resolve(router, Global, tree, t).nodes :
                n.kind = "dir" => ReadDir(router, Global, tree, InfosOf(tree, tree), t).err = "none"
=============================================================================
