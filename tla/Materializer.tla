--------------------------- MODULE Materializer ---------------------------
(* The materializer (materializer.go): one walk of a source directory that   *)
(* maps every entry to target nodes, filters them and settles clashes of     *)
(* their target paths. The mappers are those of Flat, Classifier             *)
(* (handler_builtin.go) and Transform (handler_transform.go).                *)
(*                                                                           *)
(* A request is [target, rel, sourceRoot, targetRoot, filter, id]: the path  *)
(* asked about, whole and below the route's prefix, the source directory and *)
(* target path the route stands for, And(global, route) and the route's id.  *)
EXTENDS Filters, SourceTree

CONSTANTS
    NameBefore(_, _),   \* the order of names, in which fs.ReadDir lists
    Suffixed(_, _),     \* a name with "_n" before its extension
    MapWith(_, _, _)    \* the paths a Transform function gives an entry, below the target
                        \* root, by the source root of the request and the path below it

\* NodeFromFileInfo.
NodeFromFileInfo(target, source, info) ==
    [path |-> target, source |-> source, kind |-> info.kind, stamp |-> info.stamp,
     virtual |-> FALSE]

---------------------------------------------------------------------------
(* Mappers: the nodes of one source entry, by the handler.                   *)

FallbackCategory == "Other"

\* classifierMapper.Map: a category that is no single segment is "Other".
CategoryOf(handler, name) ==
    LET ext   == ExtOf(name)
        found == IF ext \in DOMAIN handler.categories THEN handler.categories[ext]
                 ELSE handler.fallback
    IN  IF found \in handler.unusable THEN FallbackCategory ELSE found

(* The paths below the target root that the mapper gives an entry, in order. *)
(* (A function of a Transform gets the whole request; what it answers here   *)
(* does not depend on the target path that the request is about.)            *)
MappedRels(handler, root, rel, info) ==
    CASE handler.type = "flat" ->
            IF info.kind = "dir" THEN << >> ELSE <<BaseName(rel)>>
      [] handler.type = "classifier" ->
            IF info.kind = "dir" THEN << >>
            ELSE <<<<CategoryOf(handler, rel[Len(rel)])>> \o BaseName(rel)>>
      [] handler.type = "transform" ->
            IF info.kind = "dir" THEN MapWith(handler.mapDir, root, rel)
                                 ELSE MapWith(handler.mapFile, root, rel)

Mapped(handler, req, source, info) ==
    LET rels == MappedRels(handler, req.sourceRoot, Below(source, Len(req.sourceRoot)), info)
    IN  [i \in DOMAIN rels |->
            NodeFromFileInfo(JoinPath(req.targetRoot, rels[i]), source, info)]

---------------------------------------------------------------------------
(* materializeState: the nodes so far, at most one per target path, and the  *)
(* counts of the rename policy; err ends the walk.                           *)

EmptyState == [err |-> "none", nodes |-> {}, counts |-> << >>]

FailedState(err) == [EmptyState EXCEPT !.err = err]

TargetsOf(nodes) == {n.path : n \in nodes}

CountOf(state, target) ==
    IF target \in DOMAIN state.counts THEN state.counts[target] ELSE 0

Counted(state, target, n) ==
    [t \in DOMAIN state.counts \cup {target} |->
        IF t = target THEN n ELSE state.counts[t]]

Renamed(target, n) == Append(ParentPath(target), Suffixed(target[Len(target)], n))

\* Mutant of RenameIndex: the new name is not looked up.
RenameIndexBlindly(state, target) == CountOf(state, target) + 1

\* uniqueTargetPath: the first index after the last used whose name is free.
RenameIndex(state, target) ==
    LET from == CountOf(state, target) + 1
    IN  Min({n \in from..(from + Cardinality(state.nodes)) :
                Renamed(target, n) \notin TargetsOf(state.nodes)})

Placed(state, node) ==
    [state EXCEPT !.nodes = {n \in state.nodes : n.path # node.path} \cup {node}]

\* Rename: the first of a name keeps it and is counted as 1.
AddRenamed(state, node) ==
    IF node.path \notin TargetsOf(state.nodes)
    THEN [Placed(state, node) EXCEPT !.counts = Counted(state, node.path, 1)]
    ELSE LET n == RenameIndex(state, node.path)
         IN  [Placed(state, [node EXCEPT !.path = Renamed(node.path, n)])
                EXCEPT !.counts = Counted(state, node.path, n)]

\* materializeState.add.
Add(policy, state, node) ==
    LET taken == node.path \in TargetsOf(state.nodes)
    IN  CASE policy = "rename" -> AddRenamed(state, node)
          [] policy = "first" -> IF taken THEN state ELSE Placed(state, node)
          [] policy = "last" -> Placed(state, node)
          [] OTHER -> IF taken THEN FailedState("conflict") ELSE Placed(state, node)

\* Mutant of AddVisible: what FilterTarget hides is added too.
AddAll(handler, filter, state, nodes) ==
    LET add(acc, node) == IF acc.err # "none" THEN acc ELSE Add(handler.policy, acc, node)
    IN  FoldLeft(add, state, nodes)

\* The loop over the nodes of one entry, after FilterTarget's decision on a node.
Decided(policy, decision, state, node) ==
    CASE decision = "error" -> FailedState("other")
      [] decision = "include" -> Add(policy, state, node)
      [] OTHER -> state

AddIfVisible(policy, filter, state, node) ==
    IF state.err # "none" THEN state
    ELSE Decided(policy, TargetDecision(filter, node), state, node)

AddVisible(handler, filter, state, nodes) ==
    LET add(acc, node) == AddIfVisible(handler.policy, filter, acc, node)
    IN  FoldLeft(add, state, nodes)

---------------------------------------------------------------------------
(* The walk.                                                                 *)

\* MaxDepth of the handler; 0 is no bound.
TooDeep(handler, req, source) ==
    handler.maxDepth > 0 /\ Len(source) - Len(req.sourceRoot) > handler.maxDepth

\* What FilterIndex decides for an entry, by its path before any mapping.
IndexDecision(req, source, info) ==
    FilterDecision(req.filter,
        FilterEntry("index", JoinPath(req.targetRoot, Below(source, Len(req.sourceRoot))),
                    info.kind))

\* Only these two keep the walk out of an entry: FilterExclude does not.
Prunes(decision) == decision \in {"excludetree", "deny"}

\* One entry: its decision, its nodes.
VisitEntry(handler, req, state, source, info) ==
    LET decided(decision) ==
            CASE decision = "error" -> FailedState("other")
              [] Prunes(decision) -> state
              [] OTHER -> AddVisible(handler, req.filter, state,
                                     Mapped(handler, req, source, info))
    IN  decided(IndexDecision(req, source, info))

\* The source paths that the walk comes to in a tree that stays as it is.
Visited(handler, req, tree) ==
    {p \in DOMAIN tree :
        /\ HasPathPrefix(p, req.sourceRoot) /\ p # req.sourceRoot
        /\ ~TooDeep(handler, req, p)
        /\ \A n \in (Len(req.sourceRoot) + 1)..(Len(p) - 1) :
               LET above == SubSeq(p, 1, n)
               IN  ~Prunes(IndexDecision(req, above, tree[above]))}

\* Depth first, a directory before what is below it.
WalkedBefore(p, q) ==
    \/ HasPathPrefix(q, p)
    \/ \E i \in (1..Len(p)) \cap (1..Len(q)) :
           /\ NameBefore(p[i], q[i])
           /\ \A j \in 1..(i - 1) : p[j] = q[j]

\* The names in some trees, of which NameBefore has to be a strict total order.
NamesIn(trees) == UNION {ToSet(p) : p \in UNION {DOMAIN t : t \in trees}}

OrdersNames(trees) ==
    \A a, b, c \in NamesIn(trees) :
        /\ ~NameBefore(a, a)
        /\ NameBefore(a, b) /\ NameBefore(b, c) => NameBefore(a, c)
        /\ a = b \/ NameBefore(a, b) \/ NameBefore(b, a)

InOrder(paths) ==
    [i \in 1..Cardinality(paths) |->
        CHOOSE p \in paths : Cardinality({q \in paths : WalkedBefore(q, p)}) = i - 1]

\* An entry is visited unless the walk has failed.
VisitNext(handler, req, tree, acc, p) ==
    IF acc.err # "none" THEN acc ELSE VisitEntry(handler, req, acc, p, tree[p])

\* Materialize, over one state of the source.
Materialize(handler, req, tree) ==
    LET visit(acc, p) == VisitNext(handler, req, tree, acc, p)
    IN  CASE ~Exists(tree, req.sourceRoot) -> FailedState("notexist")
          [] Exists(tree, req.sourceRoot) /\ ~IsDir(tree, req.sourceRoot) ->
                FailedState("invalid")
          [] OTHER -> FoldLeft(visit, EmptyState, InOrder(Visited(handler, req, tree)))

=============================================================================
