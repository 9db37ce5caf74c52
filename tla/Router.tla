------------------------------ MODULE Router ------------------------------
(* The router (route.go): which route owns a target path, and what each of   *)
(* the four lookups answers from the source tree, over the built-in handlers *)
(* (Handlers). Everything here is a pure function of the compiled routes and *)
(* of the tree; RouteSet builds the routes, ProxyFS caches the answers.      *)
(*                                                                           *)
(* A router is [routes, policy]; a route is                                  *)
(* [id, pattern, source, handler, filter, priority]. `global` is the filter  *)
(* of the file system, which comes before that of the route.                 *)
EXTENDS Patterns, Handlers

RouterID == <<"_router">>      \* the route id of what no single route owns

---------------------------------------------------------------------------
(* Which route owns a path.                                                  *)

\* compareRoutes > 0: specificity first, then priority.
Beats(left, right) ==
    LET l == Specificity(left.pattern)
        r == Specificity(right.pattern)
    IN  MoreSpecific(l, r) \/ (l = r /\ left.priority > right.priority)

\* checkRouteAmbiguity rejects these two routes.
AmbiguousPair(left, right) ==
    /\ left.priority = right.priority
    /\ Specificity(left.pattern) = Specificity(right.pattern)
    /\ CanOverlap(left.pattern, right.pattern)

NoRoute == 0
Ambiguous == -1

\* bestMatch's loop: what route i makes of the best match so far.
Kept(routes, target, best, i) ==
    IF best = Ambiguous \/ ~Matches(routes[i].pattern, target) THEN best
    ELSE IF best = NoRoute \/ Beats(routes[i], routes[best]) THEN i
    ELSE IF Beats(routes[best], routes[i]) THEN best ELSE Ambiguous

(* bestMatch: one pass in declaration order that keeps the best match so     *)
(* far; a tie with it ends the search with an error.                         *)
BestMatch(routes, target) ==
    LET keep(best, i) == Kept(routes, target, best, i)
    IN  FoldLeft(keep, NoRoute, [i \in 1..Len(routes) |-> i])

Owned(router, target) == BestMatch(router.routes, target) \in DOMAIN router.routes
OwnerOf(router, target) == router.routes[BestMatch(router.routes, target)]

RouteIDFor(router, target) ==
    IF Owned(router, target) THEN OwnerOf(router, target).id ELSE RouterID

(* RouteFor and applyOpenFilter: And(global, filter of the owner) decides    *)
(* whether a node may be opened.                                             *)
OpenDecision(router, global, node) ==
    LET filter == IF Owned(router, node.path)
                  THEN global \o OwnerOf(router, node.path).filter ELSE global
    IN  FilterDecision(filter, FilterEntry("open", node.path, node.kind))

---------------------------------------------------------------------------
(* Requests.                                                                 *)

\* requestForRoute; impossible when the template needs another parameter.
CanRequest(route, match) == CanInstantiate(route.source, match.params)

RequestFor(global, route, target) ==
    LET match == MatchOf(route.pattern, target)
    IN  [target |-> target, rel |-> match.targetRel,
         sourceRoot |-> Instantiate(route.source, match.params),
         targetRoot |-> match.targetRoot,
         filter |-> global \o route.filter, id |-> route.id]

\* The source path that Identity or Mount reads for a target path of the route.
SourcePathFor(route, target) ==
    LET req == MountRequest(route.handler, RequestFor(NoFilter, route, target))
    IN  JoinPath(req.sourceRoot, req.rel)

\* The request by which TargetPaths asks a route about a source path.
TargetPathsRequest(global, route, source) ==
    LET match == SourceMatchOf(route.source, source)
        root  == TargetRoot(route.pattern, match.params)
    IN  [target |-> JoinPath(root, match.sourceRel), rel |-> match.sourceRel,
         sourceRoot |-> match.sourceRoot, targetRoot |-> root,
         filter |-> global \o route.filter, id |-> route.id]

---------------------------------------------------------------------------
(* Resolve and SourcePaths.                                                  *)

Resolve(router, global, tree, target) ==
    LET best  == BestMatch(router.routes, target)
        route == router.routes[best]
    IN  CASE best = Ambiguous -> Failure("other")
          [] best = NoRoute -> Failure("notexist")
          [] OTHER -> IF CanRequest(route, MatchOf(route.pattern, target))
                      THEN HandlerResolve(route.handler, RequestFor(global, route, target), tree)
                      ELSE Failure("notexist")

SourcePaths(router, global, tree, target) ==
    SourcePathsOf(Resolve(router, global, tree, target))

---------------------------------------------------------------------------
(* ReadDir.                                                                  *)

\* Mutant of Merge: a directory met twice is deleted before it is put back.
MergeDeleting(router, merged, next) ==
    LET same == {m \in merged : BaseName(m.node.path) = BaseName(next.node.path)}
    IN  IF same = {} THEN merged \cup {next} ELSE merged \ same

\* mergeNode: what the listing holds for a name that it already has.
Merge(router, merged, next) ==
    LET same  == {m \in merged : BaseName(m.node.path) = BaseName(next.node.path)}
        swap  == (merged \ same) \cup {next}
        isDirPair(m) == /\ m.node.path = next.node.path
                        /\ m.node.kind = "dir"
                        /\ next.node.kind = "dir"
    IN  IF same = {} THEN swap
        ELSE LET m == CHOOSE x \in same : TRUE
             IN  CASE isDirPair(m) ->
                        IF m.node.virtual /\ ~next.node.virtual THEN swap ELSE merged
                   [] ~isDirPair(m) /\ router.policy = "first" -> merged
                   [] ~isDirPair(m) /\ router.policy = "last" -> swap
                   [] ~isDirPair(m) /\ router.policy = "mostspecific" ->
                        IF Beats(next.route, m.route) THEN swap ELSE merged
                   [] OTHER -> {}

\* The route's pattern goes on below target with a static segment.
HasShownChild(route, target) ==
    /\ HasNextChild(route.pattern, target)
    /\ CanInstantiate(route.source, NextChild(route.pattern, target).params)

ShownChild(route, target) ==
    LET child == NextChild(route.pattern, target)
    IN  [node  |-> [path |-> child.targetPath,
                    source |-> Instantiate(route.source, child.params),
                    kind |-> "dir", stamp |-> 0, virtual |-> TRUE],
         route |-> route]

\* A listing in the making: what it holds, by whom it was shown, its failure.
AddChild(router, global, target, acc, route) ==
    LET merging(child, merged) ==
            IF merged = {} THEN [acc EXCEPT !.err = "conflict"]
            ELSE [acc EXCEPT !.merged = merged, !.shown = acc.shown \cup {child}]
        decided(child, decision) ==
            CASE decision = "error" -> [acc EXCEPT !.err = "other"]
              [] decision = "include" -> merging(child, Merge(router, acc.merged, child))
              [] OTHER -> acc
        adding(child) == decided(child, TargetDecision(global \o route.filter, child.node))
    IN  IF acc.err # "none" THEN acc ELSE adding(ShownChild(route, target))

AddRoute(router, global, target, acc, route) ==
    IF HasShownChild(route, target) THEN AddChild(router, global, target, acc, route) ELSE acc

\* What the owner of target answers by itself.
OwnListing(router, global, first, later, target) ==
    LET best  == BestMatch(router.routes, target)
        owner == router.routes[best]
    IN  CASE best = Ambiguous -> Failure("other")
          [] best \in DOMAIN router.routes /\ CanRequest(owner, MatchOf(owner.pattern, target)) ->
                HandlerReadDir(owner.handler, RequestFor(global, owner, target), first, later)
          [] OTHER -> Failure("notexist")

\* Mutant of MergedListing: the source roots of the owner's hint are dropped.
MergedListingOfRoutes(router, global, target, owner, own) ==
    LET start == [err |-> "none", shown |-> {},
                  merged |-> {[node |-> n, route |-> owner] : n \in own.nodes}]
        add(acc, route) == AddRoute(router, global, target, acc, route)
        answer(result) ==
            CASE result.err # "none" -> Failure(result.err)
              [] result.err = "none" /\ result.merged = {} ->
                    Failure(IF own.err = "none" THEN "notexist" ELSE own.err)
              [] OTHER ->
                    Success({m.node : m \in result.merged}, {},
                            {m.node.source : m \in result.shown},
                            own.routes \cup {m.route.id : m \in result.shown})
    IN  answer(FoldLeft(add, start, router.routes))

(* The owner's listing, then each route's next segment in declaration order. *)
(* Any failure of the owner is dropped when some route shows a child; of the *)
(* handler's hint only the source roots are kept. A conflict, or a filter    *)
(* that fails on a child, fails the listing.                                 *)
MergedListing(router, global, target, owner, own) ==
    LET start == [err |-> "none", shown |-> {},
                  merged |-> {[node |-> n, route |-> owner] : n \in own.nodes}]
        add(acc, route) == AddRoute(router, global, target, acc, route)
        answer(result) ==
            CASE result.err # "none" -> Failure(result.err)
              [] result.err = "none" /\ result.merged = {} ->
                    Failure(IF own.err = "none" THEN "notexist" ELSE own.err)
              [] OTHER ->
                    Success({m.node : m \in result.merged}, {},
                            own.sources \cup {m.node.source : m \in result.shown},
                            own.routes \cup {m.route.id : m \in result.shown})
    IN  answer(FoldLeft(add, start, router.routes))

ReadDir(router, global, first, later, target) ==
    LET best  == BestMatch(router.routes, target)
        owner == router.routes[best]
        refused == \/ best = Ambiguous
                   \/ best # NoRoute /\ ~CanRequest(owner, MatchOf(owner.pattern, target))
        own   == OwnListing(router, global, first, later, target)
    IN  IF refused THEN own ELSE MergedListing(router, global, target, owner, own)

---------------------------------------------------------------------------
(* TargetPaths: every route whose source template matches the source path    *)
(* answers, whether or not it owns the target paths it names; one that fails *)
(* otherwise than with fs.ErrNotExist fails the whole.                       *)

CanMapBack(route, source) ==
    /\ MatchesSource(route.source, source)
    /\ HasTargetRoot(route.pattern, SourceMatchOf(route.source, source).params)

\* A route's answer, of which only paths that its pattern matches are kept.
MapBack(global, route, tree, source) ==
    LET answer == HandlerTargetPaths(route.handler,
                      TargetPathsRequest(global, route, source), source, tree)
    IN  [answer EXCEPT !.paths = {t \in answer.paths : Matches(route.pattern, t)}]

TargetPaths(router, global, tree, source) ==
    LET routes == router.routes
        asked  == {i \in DOMAIN routes : CanMapBack(routes[i], source)}
        joined(answers) ==
            LET failing == {i \in asked : answers[i].err \notin {"none", "notexist"}}
                from    == {i \in asked : answers[i].paths # {}}
            IN  CASE failing # {} -> Failure(answers[Min(failing)].err)
                  [] failing = {} /\ from = {} -> Failure("notexist")
                  [] OTHER ->
                        Success({}, UNION {answers[i].paths : i \in from},
                                {SourceMatchOf(routes[i].source, source).sourceRoot : i \in from},
                                {routes[i].id : i \in from})
    IN  joined([i \in asked |-> MapBack(global, routes[i], tree, source)])

=============================================================================
