------------------------------ MODULE Handlers ------------------------------
(* The built-in handlers: Identity, Mount, Flat and Classifier               *)
(* (handler_builtin.go), Transform (handler_transform.go) and Virtual with   *)
(* its providers (handler_virtual.go): what each answers a request of the    *)
(* router from the source tree. See Materializer for requests.               *)
(*                                                                           *)
(* A listing of Identity reads the names in one tree (first) and then each   *)
(* entry's info in a tree of its own (later, a function from source paths to *)
(* trees). Every other operation reads one tree: a materializing handler's   *)
(* walk is torn apart in module Walk.                                        *)
EXTENDS Materializer

---------------------------------------------------------------------------
(* Answers. `err` is "none", "notexist" (fs.ErrNotExist), "invalid"          *)
(* (fs.ErrInvalid), "conflict" or "other"; `nodes` is the node of a resolve  *)
(* or the listing of a ReadDir, `paths` what SourcePaths and TargetPaths     *)
(* return; the rest is the CacheHint, of which only these fields are ever    *)
(* read again.                                                               *)

Failure(err) ==
    [err |-> err, nodes |-> {}, paths |-> {}, cacheable |-> FALSE, ttl |-> 0,
     sources |-> {}, routes |-> {}]

Success(nodes, paths, sources, routes) ==
    [err |-> "none", nodes |-> nodes, paths |-> paths, cacheable |-> TRUE, ttl |-> 0,
     sources |-> sources, routes |-> routes]

\* An answer that a filter lets through, and what there is when it does not.
Filtered(decision, answer) ==
    CASE decision = "include" -> answer
      [] decision = "error" -> Failure("other")
      [] OTHER -> Failure("notexist")

FilteredNode(req, node, sources) ==
    Filtered(TargetDecision(req.filter, node), Success({node}, {}, sources, {req.id}))

---------------------------------------------------------------------------
(* Identity, and Mount, which only puts its own source root in the request.  *)

\* mountHandler.request; a Mount of "" is Identity.
MountRequest(handler, req) ==
    IF handler.type = "mount" THEN [req EXCEPT !.sourceRoot = handler.root] ELSE req

IdentityResolve(req, tree) ==
    LET source == JoinPath(req.sourceRoot, req.rel)
    IN  IF Exists(tree, source)
        THEN FilteredNode(req, NodeFromFileInfo(req.target, source, tree[source]), {source})
        ELSE Failure("notexist")

\* Mutant of IdentityReadDir: the listing is not filtered.
IdentityReadDirUnfiltered(req, first, later) ==
    LET source == JoinPath(req.sourceRoot, req.rel)
        names  == Listing(first, source)
        node(q) == NodeFromFileInfo(JoinPath(req.target, BaseName(q)), q, later[q][q])
    IN  IF IsDir(first, source) /\ \A q \in names : Exists(later[q], q)
        THEN Success({node(q) : q \in names}, {}, {source}, {req.id})
        ELSE Failure("notexist")

(* A listing of nodes, a function of their source paths like the decision    *)
(* about each: what is gone, or fails its filter, first fails the whole.     *)
ListingOf(req, source, node, decision) ==
    LET faulty == {q \in DOMAIN node : decision[q] \in {"gone", "error"}}
        first  == CHOOSE q \in faulty : \A r \in faulty : r = q \/ WalkedBefore(q, r)
    IN  IF faulty # {}
        THEN Failure(IF decision[first] = "gone" THEN "notexist" ELSE "other")
        ELSE Success({node[q] : q \in {r \in DOMAIN node : decision[r] = "include"}},
                     {}, {source}, {req.id})

\* The infos of a listing that are all read in one tree.
InfosOf(first, last) == [q \in DOMAIN first |-> last]

(* fs.ReadDir takes the names from the tree at one moment, entry.Info each   *)
(* one's info at a later one, when the entry may be gone.                    *)
IdentityReadDir(req, first, later) ==
    LET source == JoinPath(req.sourceRoot, req.rel)
        names  == Listing(first, source)
        there(q) == Exists(later[q], q)
        info(q) == IF there(q) THEN later[q][q] ELSE first[q]
        node   == [q \in names |->
                      NodeFromFileInfo(JoinPath(req.target, BaseName(q)), q, info(q))]
        decision == [q \in names |->
                        IF there(q) THEN TargetDecision(req.filter, node[q]) ELSE "gone"]
    IN  CASE ~Exists(first, source) -> Failure("notexist")
          [] Exists(first, source) /\ ~IsDir(first, source) -> Failure("other")
          [] OTHER -> ListingOf(req, source, node, decision)

---------------------------------------------------------------------------
(* Flat, Classifier and Transform over the materialized nodes.               *)

\* virtualRootNode: the root of a materializing route.
RootNode(req, tree) ==
    IF ~Exists(tree, req.sourceRoot) THEN Failure("notexist")
    ELSE IF ~IsDir(tree, req.sourceRoot) THEN Failure("invalid")
    ELSE FilteredNode(req,
            [NodeFromFileInfo(req.targetRoot, req.sourceRoot, tree[req.sourceRoot])
                EXCEPT !.virtual = TRUE],
            {req.sourceRoot})

\* An answer made of those materialized nodes that `wanted` selects.
FromNodes(req, state, wanted, emptyIsMissing) ==
    CASE state.err # "none" -> Failure(state.err)
      [] state.err = "none" /\ wanted = {} /\ emptyIsMissing -> Failure("notexist")
      [] OTHER -> Success(wanted, {}, {req.sourceRoot}, {req.id})

(* categoryNode: a directory that no source entry backs. Its SourcePath is   *)
(* the target root of the route.                                             *)
CategoryNode(req, category) ==
    [path |-> Append(req.targetRoot, category), source |-> req.targetRoot,
     kind |-> "dir", stamp |-> 0, virtual |-> TRUE]

\* categoryNodes and hasCategory.
CategoriesOf(req, nodes) ==
    {CategoryNode(req, n.path[Len(n.path) - 1]) : n \in nodes}

\* How deep below the route's prefix a handler knows nodes of its own.
Levels(handler) == IF handler.type = "flat" THEN 1 ELSE 2

\* What a materializing handler resolves and lists of a materialization.
ResolvedIn(handler, req, state) ==
    LET nodes == IF handler.type = "classifier" /\ Len(req.rel) = 1
                 THEN CategoriesOf(req, state.nodes) ELSE state.nodes
    IN  FromNodes(req, state, {n \in nodes : n.path = req.target}, TRUE)

(* Flat and Classifier list an empty root; a category without files and a    *)
(* directory of Transform without children are missing.                      *)
ListedIn(handler, req, state) ==
    LET below == {n \in state.nodes : ParentPath(n.path) = req.target}
        all   == IF handler.type = "classifier" THEN CategoriesOf(req, state.nodes)
                                                ELSE state.nodes
    IN  IF handler.type # "transform" /\ req.rel = Root
        THEN FromNodes(req, state, all, FALSE)
        ELSE FromNodes(req, state,
                IF handler.type = "classifier" /\ Len(req.rel) > 1 THEN {} ELSE below, TRUE)

MaterializedResolve(handler, req, tree) ==
    CASE req.rel = Root -> RootNode(req, tree)
      [] req.rel # Root /\ handler.type # "transform" /\ Len(req.rel) > Levels(handler) ->
            Failure("notexist")
      [] OTHER -> ResolvedIn(handler, req, Materialize(handler, req, tree))

MaterializedReadDir(handler, req, tree) ==
    IF handler.type = "flat" /\ req.rel # Root THEN Failure("notexist")
    ELSE ListedIn(handler, req, Materialize(handler, req, tree))

\* Of all that it shows, the nodes of one source path.
MappedFrom(req, source, state) ==
    FromNodes(req, state, {n \in state.nodes : n.source = source}, TRUE)

---------------------------------------------------------------------------
(* Virtual: a provider is [name, type, children], type being "dir"           *)
(* (StaticDir, whose name is "", and Dir) or "file" (StaticFile, TextFile,   *)
(* JSONFile). Siblings have distinct names, each of one segment.             *)

Nameless == ""

\* Node.SourcePath = "".
NoSource == <<"">>

VirtualNode(target, provider) ==
    [path |-> target, source |-> NoSource, kind |-> provider.type, stamp |-> 0,
     virtual |-> TRUE]

\* childRequest: the first child with that name.
ChildNamed(provider, name) ==
    LET hits == {i \in DOMAIN provider.children : provider.children[i].name = name}
    IN  IF hits = {} THEN << >> ELSE <<provider.children[Min(hits)]>>

(* localRel and childRequest down a path: the provider at it, as a sequence  *)
(* of one, or of none. A named provider at the top answers below its name.   *)
ProviderAt(provider, rel) ==
    LET down(at, name) ==
            IF at = << >> \/ at[1].type = "file" THEN << >>
            ELSE ChildNamed(at[1], name)
        top == IF provider.name = Nameless THEN <<provider>>
               ELSE <<[name |-> Nameless, type |-> "dir", children |-> <<provider>>]>>
    IN  IF rel = Root /\ (provider.name # Nameless \/ provider.type = "file") THEN << >>
        ELSE FoldLeft(down, top, rel)

VirtualResolve(req, provider) ==
    LET at == ProviderAt(provider, req.rel)
    IN  IF at = << >> THEN Failure("notexist")
        ELSE FilteredNode(req, VirtualNode(req.target, at[1]), {req.sourceRoot})

(* The children that resolve; one that is missing or hidden is left out, one *)
(* that fails otherwise fails the listing.                                   *)
VirtualReadDir(req, provider) ==
    LET at == ProviderAt(provider, req.rel)
        nodes == {VirtualNode(Append(req.target, child.name), child) :
                     child \in {x \in ToSet(at[1].children) : x.name # Nameless}}
    IN  IF at = << >> \/ at[1].type = "file" THEN Failure("notexist")
        ELSE IF \E n \in nodes : TargetDecision(req.filter, n) = "error" THEN Failure("other")
        ELSE Success({n \in nodes : TargetDecision(req.filter, n) = "include"}, {},
                     {req.sourceRoot}, {req.id})

---------------------------------------------------------------------------
(* The four operations of a handler.                                         *)

Materializing == {"flat", "classifier", "transform"}

HandlerResolve(handler, req, tree) ==
    CASE handler.type \in Materializing -> MaterializedResolve(handler, req, tree)
      [] handler.type = "virtual" -> VirtualResolve(req, handler.provider)
      [] OTHER -> IdentityResolve(MountRequest(handler, req), tree)

HandlerReadDir(handler, req, first, later) ==
    CASE handler.type \in Materializing -> MaterializedReadDir(handler, req, first)
      [] handler.type = "virtual" -> VirtualReadDir(req, handler.provider)
      [] OTHER -> IdentityReadDir(MountRequest(handler, req), first, later)

\* SourcePaths of every handler: Resolve, of which it keeps the source path.
SourcePathsOf(answer) ==
    [answer EXCEPT !.nodes = {},
                   !.paths = {n.source : n \in answer.nodes} \ {NoSource}]

(* TargetPaths, of a request whose target is the target path that Identity   *)
(* gives the source path: Identity and Mount ask for the source path itself, *)
(* the materializing handlers look for it in all that they show, Virtual     *)
(* answers nothing.                                                          *)
HandlerTargetPaths(handler, req, source, tree) ==
    LET pathsOf(answer) ==
            [answer EXCEPT !.nodes = {}, !.paths = {n.path : n \in answer.nodes}]
    IN  pathsOf(
            CASE handler.type \in Materializing ->
                    MappedFrom(req, source, Materialize(handler, req, tree))
              [] handler.type \in {"identity", "mount"} /\ Exists(tree, source) ->
                    FilteredNode(req, NodeFromFileInfo(req.target, source, tree[source]),
                                 {source})
              [] OTHER -> Failure("notexist"))

=============================================================================
