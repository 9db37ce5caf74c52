-------------------------- MODULE ConsistentRouter --------------------------
(* What a router has to keep, beside RouterAssumption, for some of what      *)
(* ProxyFS says to hold. Type safety, freshness after an invalidation and    *)
(* the bound on staleness need none of this: those theorems do not read it.  *)
EXTENDS ProxyFS

(* An error comes without nodes and paths, a listing without paths, and the  *)
(* Kind of a node is set (fs.go:216 makes fs.ErrNotExist of a cached node    *)
(* whose Kind is not; every handler sets it but one that returns nodes of    *)
(* an application's provider).                                               *)
ASSUME ShapeAssumption ==
    \A states \in Spans, kind \in CacheKinds, path \in Targets :
        \A answer \in RouterAnswers(states, kind, path) :
            /\ answer.err # "none" => answer.nodes = {} /\ answer.paths = {}
            /\ kind = "dir" => answer.paths = {}
            /\ \A n \in answer.nodes : n.kind # "none"

(* The paths at which the router may show a node that no source entry stands *)
(* behind, a category or a child of Virtual: what it gives for the node's    *)
(* source path is made up.                                                   *)
MadeUp ==
    {path \in Targets :
        \E states \in Spans : \E answer \in RouterAnswers(states, "node", path) :
            \E n \in answer.nodes : n.virtual}

(* A CacheHint's SourceRoots cover the source paths that its answer names:   *)
(* that of each node that the source backs, each path of SourcePaths where   *)
(* nothing is made up, and the path that TargetPaths was asked about.        *)
(* Routing checks and proves it of the built-in handlers (HintsCover). Paths *)
(* are sequences of the same segments.                                       *)
Segments == UNION {{p[i] : i \in DOMAIN p} : p \in Targets}

ASSUME HintAssumption ==
    /\ Targets \subseteq Seq(Segments)
    /\ \A n \in Nodes : n.virtual \in BOOLEAN /\ (~n.virtual => n.source \in Targets)
    /\ \A scope \in Scopes : scope.sources \subseteq Targets
    /\ \A states \in Spans, kind \in CacheKinds, path \in Targets :
           \A answer \in RouterAnswers(states, kind, path) :
               answer.err = "none" =>
                   /\ \A n \in answer.nodes : ~n.virtual => CoveredBy(n.source, answer.sources)
                   /\ kind = "sources" /\ path \notin MadeUp =>
                          \A p \in answer.paths : CoveredBy(p, answer.sources)
                   /\ kind = "targets" => CoveredBy(path, answer.sources)

\* The source paths that an entry names, those made up left out.
NamedBy(e) ==
    {n.source : n \in {m \in e.nodes : ~m.virtual}}
        \cup (IF e.key.kind = "sources" /\ e.key.path \notin MadeUp THEN e.paths ELSE {})
        \cup (IF e.key.kind = "targets" THEN {e.key.path} ELSE {})

(* A watcher's Invalidate of source paths reaches what was read from them:   *)
(* afterwards no entry is left that names a source path at or below one of   *)
(* them, as the source of a node, of a child in a listing, or as the answer  *)
(* or the subject of a reverse lookup. (An entry that names none, a negative *)
(* one above all, is not reached: see the README.)                           *)
SourceInvalidationReaches ==
    [][\A c \in Callers, scope \in Scopes :
           /\ scope.recursive /\ scope.root = << >> /\ scope.routes = {}
           /\ scope.sources # {}
           /\ call'[c].step = "done" /\ call'[c].answer.err = "none"
           /\ InvalidateScope(c, scope)
           => \A e \in {x \in entries' : ~x.negative}, root \in scope.sources :
                  \A p \in NamedBy(e) : p # root /\ ~HasPathPrefix(p, root)]_vars

=============================================================================
