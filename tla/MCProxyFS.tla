---------------------------- MODULE MCProxyFS ----------------------------
(* Small instances of ProxyFS over the real router: the constants are the    *)
(* operators of Router, tabulated over the spans of the source, for the      *)
(* route sets below. The source has one or two names.                        *)
EXTENDS ProxyFS, TLC

NoDotNames == {}
NoExt(name) == ""
InOrder(m, n) == <<m, n>> \in {<<"a", "b">>, <<"a", "x">>, <<"b", "x">>}
NeverSuffixed(name, n) == name
NeverMapped(function, root, rel) == << >>

\* Identity and Mount only: nothing is filtered by name, renamed or mapped.
R == INSTANCE Router WITH
    DotNames <- NoDotNames, ExtOf <- NoExt, NameBefore <- InOrder,
    Suffixed <- NeverSuffixed, MapWith <- NeverMapped

A == <<"a">>
AX == <<"a", "x">>

Static(n) == [kind |-> "static", text |-> n]
IdentityHandler == [type |-> "identity", root |-> << >>]

RouteAt(name, segments, glob, handler) ==
    [id |-> <<name>>, pattern |-> [segments |-> segments, glob |-> glob],
     source |-> segments, handler |-> handler, filter |-> R!NoFilter, priority |-> 0]

CatchAllRoute == RouteAt("all", << >>, TRUE, IdentityHandler)

\* "/**" with Identity, the default of NewRouter.
CatchAll == [routes |-> <<CatchAllRoute>>, policy |-> "error"]

\* The catch-all, and "/a/**" mounted on "b".
Overlay ==
    [routes |-> <<CatchAllRoute,
                  RouteAt("a", <<Static("a")>>, TRUE, [type |-> "mount", root |-> <<"b">>])>>,
     policy |-> "error"]

Dir == [kind |-> "dir", stamp |-> 0]
File(s) == [kind |-> "file", stamp |-> s]
TreeOf(f) == [p \in {<< >>} \cup DOMAIN f |-> IF p = << >> THEN Dir ELSE f[p]]

\* The source holds nothing, the file "a" in two states, or the directory "a".
Empty == TreeOf([p \in {} |-> Dir])
WithFile(s) == TreeOf([p \in {A} |-> File(s)])
WithFileBelow == TreeOf([p \in {A, AX} |-> IF p = A THEN Dir ELSE File(1)])

FileTrees == {Empty, WithFile(1), WithFile(2)}
ToggledTrees == {Empty, WithFile(1)}
KindTrees == {WithFile(1), WithFileBelow}

FirstKindTree == WithFileBelow
FirstFileTree == WithFile(1)

\* The files "a" and "b", or another file "b" alone.
BothFiles == TreeOf([p \in {A, <<"b">>} |-> File(1)])
PairTrees == {BothFiles, TreeOf([p \in {<<"b">>} |-> File(2)])}

Flat == {<< >>, A}
Deep == {<< >>, A, AX}
Wide == {<< >>, A, <<"b">>}

MCNodes == [path : Targets, source : Targets, kind : {"file", "dir"}, stamp : 0..2,
            virtual : BOOLEAN]
MCRouteIDs == {R!RouterID, <<"all">>, <<"a">>}

NothingFiltered == R!NoFilter

(* What a router answers, read over the states: a resolve and a reverse      *)
(* lookup read one of them; a listing reads its names in one and the infos   *)
(* in that and later ones, entry by entry.                                   *)
InfosOver(states, i) ==
    LET names == DOMAIN states[i]
        moments == {at \in [names -> i..Len(states)] :
                       \A p, q \in names : R!WalkedBefore(p, q) => at[p] <= at[q]}
    IN  {[q \in names |-> states[at[q]]] : at \in moments}

AnswersOver(router, global, states, kind, path) ==
    LET moments == DOMAIN states
    IN  CASE kind = "node" -> {R!Resolve(router, global, states[i], path) : i \in moments}
          [] kind = "dir" ->
                UNION {{R!ReadDir(router, global, states[i], later, path) :
                           later \in InfosOver(states, i)} : i \in moments}
          [] kind = "sources" -> {R!SourcePaths(router, global, states[i], path) : i \in moments}
          [] kind = "targets" -> {R!TargetPaths(router, global, states[i], path) : i \in moments}

Table(router, global) ==
    [kind \in CacheKinds |-> [path \in Targets |-> [states \in Spans |->
        AnswersOver(router, global, states, kind, path)]]]

(* The catch-all under a filter that denies "a/x" to be opened and hides     *)
(* nothing.                                                                  *)
Guard == <<[or |-> FALSE,
            of |-> <<[type |-> "paths", hide |-> {}, deny |-> {AX}, fail |-> {}]>>]>>
Guarded == [CatchAll EXCEPT !.routes[1].filter = Guard]
GuardedTable == Table(Guarded, NothingFiltered)
GuardedAnswers(states, kind, path) == GuardedTable[kind][path][states]
GuardedDecision(node) == R!OpenDecision(Guarded, NothingFiltered, node)

CatchAllTable == Table(CatchAll, NothingFiltered)
CatchAllAnswers(states, kind, path) == CatchAllTable[kind][path][states]
CatchAllRoutes == [path \in Targets |-> R!RouteIDFor(CatchAll, path)]
CatchAllRouteOf(path) == CatchAllRoutes[path]
CatchAllDecision(node) == R!OpenDecision(CatchAll, NothingFiltered, node)

MCSharedID == R!RouterID

MCSourceOpen(tree, node) ==
    IF R!Exists(tree, node.source)
    THEN R!Success({R!NodeFromFileInfo(node.path, node.source, tree[node.source])}, {}, {}, {})
    ELSE R!Failure("notexist")

MCScopes ==
    {[root |-> << >>, recursive |-> TRUE, routes |-> {}, sources |-> {}],
     [root |-> A, recursive |-> FALSE, routes |-> {<<"all">>}, sources |-> {}],
     [root |-> << >>, recursive |-> TRUE, routes |-> {}, sources |-> {A}]}

(* The calls that the callers make: those around one file and its directory, *)
(* lookups alone, both halves of Open with a listing and an invalidation,    *)
(* the reverse lookups with the lookup and the listing of what they are      *)
(* about.                                                                    *)
FileRequests ==
    {<<"stat", A>>, <<"readdir", << >>>>, <<"invalidatepath", A>>}
TimeRequests == {<<"stat", A>>, <<"readdir", << >>>>}

LookupRequests ==
    {<<"open", A>>, <<"open", AX>>, <<"invalidatepath", AX>>}
ReverseRequests ==
    {<<"stat", A>>, <<"sourcepaths", A>>, <<"targetpaths", A>>, <<"readdir", << >>>>}

\* The callers are interchangeable.
CallerSymmetry == Permutations(Callers)

\* A negative TTL: nothing expires, or nothing negative is cached.
Forever == -1

(* The catch-all with a directory "a", and a mount of "b" over "a".          *)
OverlayTable == Table(Overlay, NothingFiltered)
OverlayAnswers(states, kind, path) == OverlayTable[kind][path][states]
OverlayRoutes == [path \in Targets |-> R!RouteIDFor(Overlay, path)]
OverlayRouteOf(path) == OverlayRoutes[path]
OverlayTree == TreeOf([p \in {A, <<"b">>} |-> IF p = A THEN Dir ELSE [Dir EXCEPT !.stamp = 1]])
OverlayTrees == {OverlayTree}

(* TLC computes the values of a function when it first compares it: it does  *)
(* so here, once for the run.                                                *)
ASSUME Tabulated ==
    /\ GuardedTable = GuardedTable /\ CatchAllTable = CatchAllTable
    /\ OverlayTable = OverlayTable

---------------------------------------------------------------------------
(* Statements of the README that the code does not keep.                     *)

(* README.md:134 "More specific routes win over broader routes": what Stat   *)
(* answers for a path comes from the source path that the route owning it    *)
(* maps it to.                                                               *)
OwnerServesItsPath ==
    \A c \in Callers :
        Answered(c) /\ call[c].op = "stat" =>
            \A n \in call[c].answer.nodes :
                n.source = R!SourcePathFor(R!OwnerOf(Overlay, n.path), n.path)

(* README.md:67 "The simplest setup exposes the source filesystem            *)
(* unchanged": a listing answers fs.ErrNotExist only if at some moment since *)
(* it was read the directory was not there, or without entries (for which    *)
(* see DirectoryCanBeListed).                                                *)
MissingOnlyIfGone ==
    \A c \in Callers :
        Answered(c) /\ call[c].kind = "dir" /\ call[c].answer.err = "notexist" =>
            \E v \in call[c].first..Version : R!Listing(Tree(v), call[c].path) = {}
=============================================================================
