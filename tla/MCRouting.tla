---------------------------- MODULE MCRouting ----------------------------
(* Small instances of Routing. The names are "a", ".b", which begins with a  *)
(* dot and has itself as its extension, and those that the rename policy     *)
(* makes of them; paths have at most two segments. The configurations cover  *)
(* every kind of segment, every handler and conflict policy, two priorities, *)
(* a Source option, the filters, clashing ids and what NewRouter refuses.    *)
EXTENDS Routing

MCNames == {"a", ".b"}
MCPaths == {Root} \cup {<<n>> : n \in MCNames} \cup (MCNames \X MCNames)
               \cup {<<"a_2">>, <<"_2.b">>}

MCDotNames == {".b"}
MCExtOf(name) == IF name \in {".b", "_1.b", "_2.b"} THEN ".b" ELSE ""
MCNameBefore(m, n) == m = ".b" /\ n # ".b"
MCSuffixed(name, n) ==
    IF name = ".b" THEN (IF n = 1 THEN "_1.b" ELSE "_2.b")
                   ELSE (IF n = 1 THEN "a_1" ELSE "a_2")

(* Two functions for Transform: one keeps the paths, one gives the entries   *)
(* of a directory a second path, with the segments swapped.                  *)
MCMapWith(function, root, rel) ==
    CASE function = "none" -> << >>
      [] function = "keep" -> <<rel>>
      [] function = "both" -> IF Len(rel) = 2 /\ rel[1] # rel[2]
                              THEN <<rel, <<rel[2], rel[1]>>>> ELSE <<rel>>

Static(n) == [kind |-> "static", text |-> n]
Named(x) == [kind |-> "named", text |-> x]
Wildcard == [kind |-> "wildcard", text |-> "*"]
Glob == [kind |-> "glob", text |-> "**"]
Malformed == [kind |-> "bad", text |-> "{"]

IdentityHandler == [type |-> "identity", root |-> Root]
MountHandler(root) == [type |-> "mount", root |-> root]
NoHandler == [type |-> "none", root |-> Root]
FlatHandler(clash, depth) == [type |-> "flat", policy |-> clash, maxDepth |-> depth]
TransformHandler(clash, file, dir) ==
    [type |-> "transform", policy |-> clash, maxDepth |-> 0, mapFile |-> file, mapDir |-> dir]

\* ".b" files in category "a"; the fallback "x/y" is no single segment.
ClassifierHandler(clash) ==
    [type |-> "classifier", policy |-> clash, maxDepth |-> 0,
     categories |-> [e \in {".b"} |-> "a"], fallback |-> "x/y", unusable |-> {"x/y", ""}]

StaticFile(name) == [name |-> name, type |-> "file", children |-> << >>]
StaticDir(name, children) == [name |-> name, type |-> "dir", children |-> children]
VirtualHandler(provider) == [type |-> "virtual", provider |-> provider]

Is(predicate) == <<[or |-> FALSE, of |-> <<predicate>>]>>
Or(predicates) == <<[or |-> TRUE, of |-> predicates]>>
DotFiles == [type |-> "dotfiles"]
Depth(n) == [type |-> "maxdepth", depth |-> n]
Names(patterns) == [type |-> "names", patterns |-> patterns]
Pattern(names) == [malformed |-> FALSE, names |-> names]
BadPattern == [malformed |-> TRUE, names |-> {}]
Allow(exts) == [type |-> "allow", exts |-> exts]
Deny(exts) == [type |-> "deny", exts |-> exts]
Hide(paths) == [type |-> "paths", hide |-> paths, deny |-> {}, fail |-> {}]

Config(pattern, handler) ==
    [id |-> NoID, pattern |-> pattern, hasSource |-> FALSE, source |-> Root,
     handler |-> handler, filter |-> NoFilter, priority |-> 0, optionError |-> FALSE]
WithSource(cfg, source) == [cfg EXCEPT !.hasSource = TRUE, !.source = source]

CatchAll == Config(<<Glob>>, IdentityHandler)
ExactRoot == Config(<< >>, IdentityHandler)
SubtreeA == Config(<<Static("a"), Glob>>, IdentityHandler)
MountA == Config(<<Static("a"), Glob>>, MountHandler(<<".b">>))
NamedTree == Config(<<Named("x"), Glob>>, IdentityHandler)
WildTree == Config(<<Wildcard, Glob>>, IdentityHandler)
ExactAB == Config(<<Static("a"), Static(".b")>>, IdentityHandler)
NamedThenB == Config(<<Named("x"), Static(".b"), Glob>>, IdentityHandler)
AThenNamed == Config(<<Static("a"), Named("y"), Glob>>, IdentityHandler)
Twice == Config(<<Named("x"), Named("x"), Glob>>, IdentityHandler)
TwiceInSource == WithSource(NamedTree, <<Named("x"), Named("x")>>)
TwiceToOne == WithSource(Twice, <<Named("x")>>)

\* Routes that compile, alone or together.
MCConfigs ==
    {CatchAll, ExactRoot, MountA, NamedTree, ExactAB,
     NamedThenB, AThenNamed, Twice, TwiceInSource, TwiceToOne,
     [NamedTree EXCEPT !.priority = 1], WithSource(SubtreeA, <<Static(".b")>>),
     [ExactAB EXCEPT !.id = AutoID(1)],
     Config(<<Glob, Static("a")>>, IdentityHandler),
     Config(<<Malformed>>, IdentityHandler),
     Config(<<Static("a")>>, NoHandler),
     WithSource(SubtreeA, <<Wildcard>>), WithSource(SubtreeA, <<Named("z")>>),
     [CatchAll EXCEPT !.optionError = TRUE]}

\* Routes of the materializing handlers and of virtual nodes, with filters.
HandlerConfigs ==
    {Config(<<Glob>>, FlatHandler("rename", 0)),
     Config(<<Static("a"), Glob>>, FlatHandler("error", 0)),
     [Config(<<Glob>>, FlatHandler("first", 2)) EXCEPT !.filter = Is(DotFiles)],
     Config(<<Glob>>, ClassifierHandler("last")),
     WithSource(Config(<<Static("a"), Glob>>, ClassifierHandler("rename")), <<Static(".b")>>),
     [Config(<<Named("x"), Glob>>, TransformHandler("last", "keep", "keep"))
        EXCEPT !.filter = Or(<<Deny({".b"}), Depth(1)>>)],
     Config(<<Glob>>, TransformHandler("first", "both", "none")),
     [Config(<<Glob>>, VirtualHandler(StaticDir(Nameless,
        <<StaticFile("a"), StaticDir(".b", <<StaticFile(".b"), StaticFile("a")>>)>>)))
        EXCEPT !.filter = Is(Names(<<Pattern({"a"})>>))],
     WithSource(Config(<<Static("a"), Glob>>, VirtualHandler(StaticDir("a", <<StaticFile("a")>>))),
                <<Static(".b")>>),
     [CatchAll EXCEPT !.filter = Is(Depth(-1)) \o Is(Names(<<Pattern({"a"}), BadPattern>>))],
     [CatchAll EXCEPT !.filter = Is(Depth(1)) \o Is(Allow({".b"}))],
     [WildTree EXCEPT !.filter = Or(<<DotFiles, Names(<<Pattern({".b"})>>)>>)]}

AllConfigs == MCConfigs \cup HandlerConfigs

VirtualConfigs == {cfg \in AllConfigs : cfg.handler.type = "virtual"}
ChildrenOf(providers) == UNION {ToSet(p.children) : p \in providers}
TopProviders == {cfg.handler.provider : cfg \in VirtualConfigs}
MCProviders == TopProviders \cup ChildrenOf(TopProviders) \cup ChildrenOf(ChildrenOf(TopProviders))

Dir == [kind |-> "dir", stamp |-> 0]
File(s) == [kind |-> "file", stamp |-> s]
TreeOf(dirs, files) ==
    [p \in {Root} \cup dirs \cup files |-> IF p \in files THEN File(1) ELSE Dir]

MCTrees ==
    {TreeOf({}, {}), TreeOf({<<"a">>}, {<<"a", ".b">>, <<".b">>}),
     TreeOf({<<".b">>, <<".b", "a">>}, {<<".b", ".b">>}),
     TreeOf({<<"a">>, <<".b">>}, {<<"a", "a">>, <<".b", "a">>, <<"a", ".b">>})}

MCGlobal == Is(Hide({<<".b", ".b">>}))

(* What a set holds beside the router it was compiled to. Once it was, only  *)
(* the router counts: the longer set, and another policy, are compiled from  *)
(* the start as well.                                                        *)
Compiling == IF Ready THEN <<built>> ELSE routeSetVars

\* The routes of README.md:110 with shorter paths, and of README.md:67.
ReadmeConfigs ==
    {ExactRoot,
     WithSource(Config(<<Static("a"), Named("x"), Static(".b"), Glob>>, IdentityHandler),
                <<Static(".b"), Named("x"), Static("a")>>)}
CatchAllConfigs == {CatchAll}


=============================================================================
