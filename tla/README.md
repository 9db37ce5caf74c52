# Verification of go-proxyfs

TLA+ models of `proxyfs`, a read-only virtual file system in Go that shows a
source `fs.FS` under other names: routes map target paths to source paths, and a
cache with time-to-live and invalidation stands in front of them. The modules
are checked by TLC on small instances; the most important invariants are proved
by TLAPS for every value of the constants.

Paths below are relative to the repository (`src/`). "README.md" alone is the
repository's own.

## 1. Inventory

| Component | State | Operations | Calls |
|---|---|---|---|
| File system facade, `fs.go` | none of its own but the configuration; all state is in the cache | `Open`, `Stat`, `ReadDir`, `SourcePaths`, `TargetPaths`, `Invalidate`, `InvalidatePath`, `ClearCache` | cache, router, filter, source |
| Memory cache, `cache.go`, `cache_memory.go` | map from `CacheKey` (path, route id, kind) to `CacheEntry`, behind an RWMutex | `Get`, `Put`, `Delete`, `Invalidate(Scope)`, `Clear` | none |
| Route set, `route.go` | configurations, conflict policy, first option error | `Handle`, `ConflictPolicy`, compiled by `NewRouter` | patterns |
| Router, `route.go` | compiled routes, immutable | `Resolve`, `ReadDir`, `SourcePaths`, `TargetPaths`, `RouteIDFor`, `RouteFor` | patterns, handlers, filters |
| Patterns and source templates, `pattern.go` | immutable | match, next child, target root, specificity, overlap, instantiate, match source | paths |
| Paths, `path.go` | none | clean, parent, join, relative | none |
| Identity and Mount, `handler_builtin.go` | none | the four handler operations | source, filter |
| Flat and Classifier, `handler_builtin.go` | none | the same, over a walked tree | source, filter |
| Materializer and Transform, `materializer.go`, `handler_transform.go` | the nodes and counts of one walk | `Materialize`, the four handler operations | source, filter, a mapper of the application |
| Virtual handlers, `handler_virtual.go` | tables and providers of the application | the four handler operations | providers |
| Filters, `filter.go` | none | `Apply` per phase: the library of predicates, `And`, `Or`, an application's `FilterFunc` | none |
| Directory handle, `file.go` | entries, offset, closed | `ReadDir(n)`, `Close` | none |
| In-memory file, FileInfo adapters, `file.go`, `node.go`, `errors.go` | a `bytes.Reader` | read, seek, stat | none |

How they interact. A lookup of the facade takes the time, builds a key (asking
the router which route owns the path), reads the cache, and on a miss asks the
router, which asks the owning route's handler, which reads the source. The
answer goes back into the cache, errors that are `fs.ErrNotExist` as negative
entries; a listing is stored together with each of its children. The mutex of
the cache is only held for one cache operation, so between any two of these
steps other goroutines look up, invalidate, and clear, the source changes, and
time passes.

What is hard here:

- the gap between reading the source and storing the answer, into which an
  invalidation falls (`fs.go:221-238`, `253-285`);
- one key written by two kinds of lookup: a Stat, and the listing of the parent;
- reads of the source at several moments that end up in one answer: names first,
  then the infos entry by entry (`handler_builtin.go:42-51`), most of all the walk
  of a whole directory
  (`materializer.go:54-109`), each with reads of its own;
- names that clash once directories are flattened or mapped, and names made up to
  avoid it (`handler_builtin.go:566`), which must be the same in a listing, a
  lookup and a reverse lookup, each of which walks anew;
- filters asked in three phases at five places, about paths before and after
  mapping;
- invalidation by path, by route and by source root over entries that do not all
  carry the same data (`fs.go:299`, `cache_memory.go:90-121`);
- an Open that is two lookups, an InvalidatePath that is two invalidations;
- which route owns a path, decided in two places by different means: pairwise on
  patterns at construction, in one pass over the routes for each path;
- two directions of mapping, and listings merged from several routes;
- integer arithmetic of a cursor that callers control.

What makes each component correct:

- *facade*: after an invalidation no older answer; without one, staleness
  bounded by TTL and fetch time; nothing returned that the router would not have
  said; old answers die out;
- *cache*: one entry per key; Invalidate deletes all that its scope names;
- *route set*: unique ids, and no path that two routes own;
- *router and handlers*: listing and resolving agree; reverse mapping is sound
  and, where the template allows it, complete; what a filter hides is not shown;
- *materializer*: a walk ends, over a quiet source visits what it should in order,
  over a restless one misses nothing that was there all the time; no node is lost
  to a clash under the rename policy;
- *directory handle*: each entry once, in order, then `io.EOF`.

`PROJECT.json` lists the hazards at their lines with the properties that cover
them.

## 2. Modules

```
Paths <- Patterns <--------------------+
  ^                                    |
  Filters <- Materializer <- Handlers <- Router <- RouteSet <- Routing <- MCRouting
SourceTree <-+   ^   ^                    ^                       ^------ Routing_proofs
                 |   |                    |                                 ^
                 |   Walk <- MCWalk       | (tabulated)         Lookups_proofs
                 |     ^---- Walk_proofs  |
            Materializer_proofs           |   (also used by Routing_proofs)
                                          |
MemoryCache <- ProxyFS <--------------- MCProxyFS <------+
                 ^ ^ ^--- ConsistentRouter <----------- MCReads
                 | | |          ^--- ReadThrough_proofs
                 | | |          ^--- Entries_proofs
                 | | +--- ProxyFS_proofs (used by both)
                 | Promises <- MCPromises
                 +- - - implements - - -> ReadThrough
DirFile <- MCDirFile, DirFile_proofs
```

**Paths**, **Patterns**, **SourceTree**, **Filters**, **Materializer**,
**Handlers** and **Router** are pure operators. A path is the sequence of its
segments and `.` is the empty one. A raw pattern is the sequence of its parsed
parts; the characters inside a part are abstracted to the case of
`ParsePattern`'s switch they fall in. A source tree is a function from existing
paths to kind and stamp, the stamp standing for size, mode and time; it is the
only external part.

**Filters** is `filter.go`. `And` flattens, so a filter is the sequence of its
clauses and a nil filter the empty one; a clause is a predicate or an `Or` of
predicates, with every predicate of the library and "paths" for an application's
`FilterFunc`. What depends on the characters of a name (a leading dot, the
extension, a match of a `path.Match` pattern) is given by constants and sets.

**Materializer** is one walk over a source that stays as it is: the entries that
no depth and no `FilterIndex` keeps away (`Visited`) in depth-first order of
their names, each mapped (`MappedRels`: Flat, Classifier, or the function of a
Transform), filtered, and added to the state (`Add`, with the counts and names of
the rename policy). **Handlers** makes of it what Flat, Classifier and Transform
answer, and has Identity, Mount and Virtual beside them. `materializeState`,
`uniqueTargetPath`, `virtualRootNode`, `categoryNode` and so on have an operator
each. A listing of Identity reads the names in one tree and the info of each entry
in a tree of its own (`later`), as `fs.ReadDir` and `entry.Info` do; one of a
materializing handler reads one tree here, and step by step in Walk. A function of
a Transform (`MapWith`) sees the source root of the request and the path below it;
what it answers does not depend on the target path that the request is about.

**Walk** is the same walk as a state machine over a source that changes. `stack`
is the chain of recursive calls of `walk`, each with the rest of its listing;
`out` is `materializeState`. One `ReadDirectory` per directory, one `Visit` (or
`SkipDeep`, or `EntryGone` when `entry.Info` fails) per entry; whether it goes
down is decided by the kind in the listing, everything else by the info. The
ghost `lasting` is what has been there all the time in this walk. The walk of a
quiet source is a function of `InOrder`, the walk of a restless one is not, and
both need of the source what `OrdersNames` says: its names have a total order.

**Router** is `route.go`: `BestMatch` is the fold that `bestMatch` is, `Merge` is
`mergeNode` with its four policies, and the four lookups ask Handlers.

**RouteSet** has the variables of `RouteSet` (`configs`, `policy`, `optionErr`)
and the last router that `NewRouter` built; its actions are `Handle`,
`ConflictPolicy` and `NewRouter`, in any order, as the type allows.
**Routing** states the router's properties over all target paths and trees given
as constants. It assumes finite well-formed trees with names that can be sorted,
and clean target paths (`RoutingAssumption`); filters and mapping functions that
answer lists (`ListsAssumption`); and of the handlers (`HandlersAssumption`) that
they are the built-in ones, that a Mount's root is a clean path, as `cleanRoot`
leaves it, that a Transform's functions place their nodes below the root of the
route, and that the children of a virtual directory have names of their own. The
last two are up to the application: no code checks them.

**MemoryCache** is the cache as a set of entries; each operator is one critical
section. **ProxyFS** has

| Variable | In the code |
|---|---|
| `entries` | `MemoryCache.entries` |
| `call[c]` | the local variables of the method a goroutine is in, with a step |
| `clock` | `time.Now()` |
| `history` | ghost: the states of the source so far, and since when |
| `floor` | ghost: per key, the oldest version an answer may come from |

A lookup goes `get -> read -> finish -> put -> children -> done`, or from `get`
to `done` on a hit. Each step is one interaction with something shared: the time
and the cache (`Begin`, `Hit`, `Miss`), the source (`Read`, `Finish`), the cache
again (`PutAnswer`, one `PutChild` per child). Open continues in `opened`
(`OpenDenied`, `OpenDir` with a second lookup, `OpenFile`), InvalidatePath in
`dropparent`. Invalidate, ClearCache and Delete are one step each. A custom
cache may fail: `CacheFaults` says in which operations.

What the router may answer is the constant operator `RouterAnswers(states, kind,
path)`, a set, of the states that the source goes through while it is read (a
member of `Spans`); `RouterAssumption` is all that ProxyFS and its proofs assume of
it. **MCProxyFS** gives it the operators of Router, tabulated for a few route
sets, so that what is checked is the cache in front of the real router: a resolve
and a reverse lookup read one of the states, a listing its names in one and each
info in that or a later one, in the order of the names. So a listing may be torn
apart. The listing of a materializing handler reads one state even there; Walk
says what tearing it can do. **Promises** adds ghosts that take InvalidatePath at
its word.

**ConsistentRouter** is what a router has to keep beyond `RouterAssumption` for
the source roots of entries to be worth something: errors come without nodes, and
kinds are set (`ShapeAssumption`); and a hint's source roots cover the source
paths that its answer names (`HintAssumption`), nodes left out that no source
entry backs (`MadeUp`): the source path of a category is none, and that of
Virtual's nodes is empty. `HintsCover` of Routing is the same statement about the
built-in handlers, checked and proved. TLC evaluates both assumptions of the
tabulated router in every run of **MCReads**. Nothing is assumed of how listings
and resolves agree: an overlay, or a source that changes during a walk, makes them
differ, and the theorems hold all the same.

**ReadThrough** is what the facade promises with no cache in sight: the states of
the source so far, per key the oldest that may still be answered from, and per
caller the lookup it is in. A lookup is answered with what the router would say of
that path, or, for a node, what its listing of the parent would say of it
(`SaidOf`; readDirNodes stores the children), reading the source between two of
the states from the promised one on. An answer of the second kind may differ from
one of the first, as the run `overlay` shows; `ListingAddsNothing` has TLC check
that over the catch-all it does not, so that there the two are one. An
invalidation of a region raises the promise of its keys, except of those that a
lookup in progress may still renew. ProxyFS implements it (`ReadsThrough`) under
this mapping:

| ReadThrough | ProxyFS |
|---|---|
| `trees` | `history`, without the times |
| `promise` | `floor` |
| `asked[c]` asked | `call[c]` from `get` to `children`, with its key and its bar |
| `asked[c]` answered | a lookup that is done, or an Open whose node is known (`opened`) |
| none | everything else: idle, an error of the cache, the end of an Open |

So `Begin` and `OpenDir` are `Ask`, `Hit` and the last step of a miss are
`Answer`, InvalidatePath is two `Forget`s, and the cache, the clock and the steps
in between are stutters.

**DirFile** is `virtualDirFile`, with `offset+n` wrapping at `MaxInt`.

Comments that begin "Mutant of" mark variants of an operator with a plausible
mistake. Each property is known to fail when its mutant takes the operator's
place (the pairs are in `PROJECT.json`).

## 3. Runs

| Run | Question | Instance |
|---|---|---|
| routing | `RoutingTypeOK`, `OneOwner`, `ListedNodeIsResolvedNode`, `ResolvableIsListed`, `ReverseMappingSound`, `ReverseMappingComplete`, `HiddenIsNotShown`, `HintsCover` | up to 2 of 31 configurations, 4 policies, 9 paths, 4 trees |
| lookups | `TypeOK`, `FreshAfterInvalidation`, `ReadsThrough` | 2 callers; Open of a directory and of a guarded file below it, and InvalidatePath, either half of which may fail, while the path changes kind |
| reverse | `FreshAfterInvalidation`, `AnswersComeFromTheSource`, `SourceInvalidationReaches` | 2 callers; SourcePaths, TargetPaths, Stat, ReadDir, Invalidate with 3 scopes, Clear, Delete, faults of the cache |
| time | `BoundedStaleness`, `EventuallyFresh` | 2 callers, TTL 2 and 1, fetches of up to 1, clock up to 3, a Put that may fail, under fairness |
| walk | `WalkTypeOK`, `UndisturbedWalkIsMaterialize`, `NothingSteadyIsMissed`, `RenamedStays`, `WalkEnds` | 5 walks (four policies, two depths, two filters, a mapping of directories) over 5 trees that change 3 times, under fairness |
| dirfile | `TypeOK`, `EachEntryOnce`, `ReaderSeesEnd` | up to 7 entries, batches from -1 to 8, under fairness |

**Bounds.** Two routes are enough for every statement about a pair of routes,
which is what the ambiguity check, the merge and an overlay are about; the
configurations cover all kinds of segment, `**` or not, two priorities, a Source
option, every handler with several conflict policies and mappings, the library of
filters, clashing ids and every reason for which `NewRouter` refuses. The names
are an ordinary one, one that begins with a dot (and so is all extension, for
`path.Ext`), and those that the rename policy makes of them; the trees have the
same name in two directories, so that flattening clashes, and an empty one. Paths
of two segments reach below a pattern's prefix, and above it. Two callers are
enough for a lookup and an operation that overtakes it; three source versions give
a fetch, a change before and one after the invalidation (`reverse`, with many more
operations, has two). One file and its directory are the smallest tree in which a
listing and a lookup write the same key, and two files in a directory that of
which a listing reads the infos in two states of the source (`torn_listing`). In
`time`, 3 is a TTL plus a fetch, so an entry that is served or renewed too long is
caught at the last tick. A VIEW in `routing` (`Compiling`) tells apart only the
routers once a set has been compiled: what is added to it afterwards is compiled
from the start as well. In `walk`, three levels, a name in all of them and one
that is already what the rename policy would call another (`a_2`) are what it
takes for its names to be taken twice; three changes let an entry go and come back
around its listing. `MaxRoutes`, `MaxVersions`, `MaxClock`, `QuietAfter`,
`MaxFetch`, `MaxTTL`, `MaxChanges`, `MaxEntries` and the width of `MaxInt` are the
only bounds; `lookups` and `reverse` let no time pass and entries not expire (a
negative TTL), since expiry only removes answers. The callers are interchangeable,
which `SYMMETRY` uses in the runs without liveness.

**Fairness.** `Fairness` of ProxyFS says that a call that has begun goes on
(goroutines are scheduled, the source and the cache answer) and that time passes
up to the bound. Nothing forces a call to begin or the source to change.
`EventuallyFresh` is checked under it.
`WalkSpec` says the same of a walk, one loop in one goroutine; that the walk ends
is then due to its listings being finite and read once, whatever the source does.
`ReaderFairness` of DirFile is a property of the caller, one that goes on
reading in positive batches: what is shown is that such a reader meets the end.

### What the code does not keep

Six runs are expected to find a violation, of a sentence of README.md:

| Run | Sentence | What happens |
|---|---|---|
| invalidation_race | `InvalidatePath` invalidates the target path (397) | a resolve that read the source before and reaches `Put` after it restores the old entry for a TTL |
| overlay | more specific routes win (134) | ReadDir of the parent caches the broad route's node under the specific route's key; Stat then answers it |
| listed | implements `fs.ReadDirFS` and `fs.StatFS` (13) | with the two routes of README.md:110-116, the listing of the root makes up a directory for the second route's next segment (`route.go:268`), and Stat does not find it |
| torn_listing | the source is exposed unchanged (67) | a file removed between `fs.ReadDir` and its `Info` (`handler_builtin.go:48`) makes the listing of its directory `fs.ErrNotExist`, and cached, with another file in it all the time |
| empty_dir | the source is exposed unchanged (67) | an empty directory cannot be listed: `fs.ErrNotExist`, and cached |
| dirfile_panic | a standard `io/fs` file system (3) | `ReadDir(1)`, then `ReadDir(math.MaxInt)`: the sum overflows and the slice panics |

The preconditions of other properties are where the code is weaker than one may
expect. `ReverseMappingSound` asks that the route which maps a source path also
owns the target path: `Router.TargetPaths` asks only the route's own pattern
(`route.go:371`). It leaves out Mount, whose root is not what the source path is
matched with (`route.go:343`, `handler_builtin.go:157`).
`ListedNodeIsResolvedNode` asks that one route owns the directory and the entry,
which is what the overlay run violates; without an overlay too, a directory made
up for a route's next segment (`route.go:268`) may be cached under the key of the
route that owns its path. `FreshAfterInvalidation` excuses a fetch that the
invalidation overtakes (`Overtaken`), which is what invalidation_race is about: of
a listing under way that means its own entry until it is stored, and every child
until that is stored (`MayStore`), so it says nothing of children put back in
between the Puts of a listing (`fs.go:276`); `InvalidatePathSticks`, which excuses
nothing, is what they violate. Nothing else that could restore an old answer is
excused. `ReadsThrough` has the same excuse in `Contended`.
`SourceInvalidationReaches` leaves out negative entries: they carry no source
roots (`fs.go:299`), so an Invalidate that names the source path of a file just
created leaves the entry that says it is missing; a watcher has to name the target
path as well. It also leaves out, as `HintsCover` does, what a handler makes up:
the source path of a Classifier's category directory is the target root of the
route (`handler_builtin.go:537`), which SourcePaths answers and the source need
not have.

`ReverseMappingSound` further excuses a source template that uses a parameter name
twice (`{x}/{x}`): MatchSource keeps the last of the two values (`pattern.go:367`),
so a source path where they differ is mapped to a target path that reads another
one. It excuses a template with a parameter that the pattern does not bind: such a
route resolves nothing and TargetPaths names its paths all the same
(`pattern.go:347`). Nothing more is excused: that the template must not use a name
twice came out of the proof, and a *pattern* that does (with a Source option that
does not) turned out to be harmless; both are configurations of the run.
`ReverseMappingComplete` excuses a template that is not the pattern's own prefix,
again one with a name used twice, and a TargetPaths that some other route fails
(`route.go:364`). `HiddenIsNotShown` excuses category directories, about which no
filter is asked, and names made by the rename policy after the filter was asked
about the original. `NothingSteadyIsMissed` promises nothing of a file that moves
during the walk: it may be shown twice or not at all.

## 4. Proofs

Every theorem is about all values of the constants that satisfy the named
assumptions: any number of callers, keys, routes and configurations, any trees of
the source, any TTLs and fetch lengths, any int width. An invariant is proved from
an inductive one, whose conjuncts say what the code relies on between two steps.

**ProxyFS_proofs** proves `TypeCorrect` (`Spec => []TypeOK`) and `Freshness`
(`Spec => []FreshAfterInvalidation`) from `ProxyFSAssumption` and
`RouterAssumption`, for every router, source, set of callers and bound.
FreshAfterInvalidation is not inductive: it speaks of calls that have their
answer, and an answer comes from an entry or from a read. The invariant `IInv`
therefore says of every entry that it is no older than the floor under its key
(`EntryOK`), and of every call (`CallOK`): before it has read, its bar is not
above the floor; afterwards its version is not below its bar; and its version is
not below the floor of *any* key it may still store under (`MayFill`), a
listing's children included. The last conjunct is the one that carries the
argument: an invalidation raises the floor only of keys that no overtaken call
may fill (`Raised`), so it stays true of calls under way, and when such a call
stores, EntryOK holds of what it stores. Every action replaces a call, stores an
entry, or drops entries and raises the floor; the lemmas `CallStep`, `StoreStep`
and `DropStep` do the work once for each, and there is one lemma per action that
meets their hypotheses.

**ReadThrough_proofs** says what the answers are. `SourceInv` gives every entry
and every call that has read a witness: the span of states of the source over which
it was read, no older than the version it carries, of which the router gives this
answer for this key, or of which it lists this node with its parent.
`NothingMadeUp` (`AnswersComeFromTheSource`) reads it off; `ImplementsReadThrough`
(`Spec => ReadsThrough`) uses it step by step: every action maps to a step of
ReadThrough or to a stutter, and the one that matters, the answer of a call, to an
answer from the region of versions that its witness lies in. Both rest on
`ShapeAssumption` besides those of ProxyFS; that listings and resolves agree is not
assumed.

**Entries_proofs** says how old and how wide the entries are. `StalenessBounded`
proves `BoundedStaleness` from `AgeInv`: a version of the source that a call or an
entry does not know of began no earlier than the read that missed it; from there
an answer is stored within a fetch and served for no longer than its TTL.
`WatchersReachEntries` proves `SourceInvalidationReaches` from `RootsInv`: the roots
of an entry or of a call about to store one, a listing's children one by one
included, cover every source path that it names. What it needs of the router,
`HintAssumption`, is the content of `HintsAreWide` (below), which starts from the
handlers themselves.

**Routing_proofs** is about every router that `NewRouter` accepts. The invariant
`RouteSetInv` says that a compiled router has no ambiguous pair and distinct ids;
`RoutingTypeCorrect` is read off it. `OverlapCoversMatches` (two patterns that
match one path, of any length, overlap) and `BeatsIsStrictOrder` (no route beats
itself, Beats is transitive, and of two routes one beats the other exactly if
specificity or priority tell them apart) give `RoutesNeverTie`. `OneOwnerHolds`
then goes along the fold that bestMatch is: after k routes it holds the one of
them that matches and beats the others that do, which the next route keeps so
because there is no tie and Beats is transitive. `FilterHides` proves
`HiddenIsNotShown`: a request's filter is the FS's before the route's, And
includes only what both include (`BothInclude`), and every loop that makes nodes
(`AddVisible`, `Materialize`, ReadDir over the entries and over the routes) adds
only what its filter includes. The children of a listing that routes contribute
are never excused.

**Lookups_proofs** proves that the lookups agree with each other, for every router
that NewRouter accepts, every handler and every source tree: the four invariants
of Routing that relate two lookups, and the one about their hints.
`ListedIsResolved` (`ListedNodeIsResolvedNode`) and `ResolvableListed`
(`ResolvableIsListed`) go in three layers. *Requests* (`ChildRequest`): a path and
an entry of it that one route owns are asked about with the same roots, filter and
parameters, although each request binds the parameters from its own path.
*Handlers* (`HandlerAgrees`): asked so, a handler lists at an entry's path exactly
what it resolves there. For Identity and Mount both read one entry of one tree.
For the materializing handlers the invariant of their loop is `MadeOf`: each node
stands for a visited entry, lies below the target root, at the depth that Flat and
Classifier know, and no other node has its path; and the materialization depends
on the roots and the filter of a request only, not on the path it is about
(`MaterializeAlike`), so that a listing, a lookup and a reverse lookup, each with
a walk of its own, agree on every name made up on the way. For Virtual, going down
a tree of providers name by name comes to the child that the directory lists.
*Merge* (`MergedNames`): no policy, no order of the routes and no synthesized
segment drops a name that is already in the listing.

`ReverseMapping` (`ReverseMappingSound`) adds the way back: below the target root
that TargetPaths derives from a source path, the route's pattern binds the
parameters that the template needs to the values it had (`RoundTrip`), so both
requests start from one source root; a materializing handler then has the node
again in the same materialization, and Identity reads the same path.
`ReverseMappingFinds` (`ReverseMappingComplete`) is the converse: with the pattern's
prefix as template, a target path and the source paths it may show give the same
roots, the handler finds the node by its source path, and TargetPaths drops no
route's answer unless it fails.

`HintsAreWide` (`HintsCover`) goes through the handlers and the merge once more: a
node that the source backs lies below the source root that its request was made
with, and that root, or the path itself, is in the hint; the merge adds the roots of
the routes whose children it shows; and the source root at which TargetPaths asks a
route about a source path is at or above that path (`MatchedRootCovers`).

**Materializer_proofs** holds what the loops of the model have in common. The folds
of the community modules are defined by a CHOOSE of a recursive function on sets;
`FoldExists` shows that there is one, by induction over the naturals. The library's
own induction takes an operator as its parameter, which the provers cannot
instantiate; `NatInd` says the same of the *set* of the numbers that are done,
which they can. Then, of one materialization: `InOrder` lists the paths of
a tree, each once, in the order of `WalkedBefore`, which is total on them because
`NameBefore` is (`TreeInOrder`); `Materialize` and `AddVisible` are what their
loops do, one step after the other; and `RenameIndex` is defined, for of one
more number than there are nodes one is free: a pigeonhole over finite sets.

**Walk_proofs** is about the same walk in small steps, of a source that changes
between them. `WalkTyped` (`WalkTypeOK`) follows from `StackInv`: the frames are a
chain of directories, each with entries of its own directory only.
`RenamedNodesStay` proves the action property `RenamedStays` from `CountInv`: the
nodes are finitely many, so `RenameIndex` finds a name that is free and the new
node replaces none. It assumes `SuffixesDiffer`, that different numbers make
different names; it is a hypothesis of the theorem and not an ASSUME, since TLC
cannot evaluate it over all numbers, and it is a fact about
`fmt.Sprintf("%s_%d%s")` for names of one extension. `NothingIsMissed` proves
`NothingSteadyIsMissed` from `SteadyInv`: an entry that has been there all the
time is shown, or on the stack, or below an entry of the stack.
`QuietWalkIsMaterialize` proves `UndisturbedWalkIsMaterialize` from `QuietInv`:
while nothing changes, what is still to come by the stack is exactly the rest of
the list that Materialize folds over, in its order, and the state is what the fold
makes of what has come before. So the recursive walk of the code and the fold that
the other modules use for it are the same, errors and names of clashes included.

**DirFile_proofs** proves `DirFileTypeCorrect` and `DeliversEachOnce` for every
int width, number of entries and batch size, overflow included: what is delivered
is the entries before the cursor.

Every invariant and every action property that a passing run checks is proved, and
so is the refinement. Only model-checked are the temporal properties
`EventuallyFresh`, `WalkEnds` and `ReaderSeesEnd`, as liveness is out of the
prover's reach. The step from `HintsAreWide` to `HintAssumption`, from the
operators of Router over trees to `RouterAnswers` over spans, is not proved but
evaluated by TLC, of the routers that MCProxyFS tabulates; likewise
`ShapeAssumption`.

## 5. Not modelled

`bytesFile`, the FileInfo adapters and error wrapping, which keep no state but the
position of a `bytes.Reader` and a flag of one handle; node Openers, which take
the place of `source.Open`; the contents of files. Mapping functions of a
Transform that return errors, nodes that are not of their entry, or nodes outside
the route or at its root (which virtualRootNode hides). Siblings of a
virtual directory with one name, or with a name of several segments. Mapping
functions whose answer depends on the target path asked about, which would make
each lookup see a materialization of its own. Symbolic links: `fs.Stat` follows them
and `DirEntry.Info` does not, so a lookup and a listing may disagree about one; in a
tree of SourceTree both are the same lookup. The errors of
a source other than a missing path and a file where a directory is asked for.

Allowed by the parameters of ProxyFS but supplied by no run: handlers that answer
uncacheable results, TTLs of their own (`FlatConfig.TTL` and so on) or nodes of
kind 0. The runs of ProxyFS are over Identity and Mount; the other handlers differ
for the cache only in their hints' scopes (`HintsCover`) and in reading the source
at many moments. There a listing, a resolve or a TargetPaths of a materializing
handler reads one state of the source: what a torn walk would put into the cache
is not in an instance, while the theorems, which take any set of answers over a
span, cover it.

## 6. Plan

Written, in this order: Paths, Patterns, SourceTree, Router, RouteSet and
Routing (which route answers); MemoryCache and ProxyFS (the cache in front);
Promises; DirFile; Filters, Materializer and Handlers (what the
handlers answer); Walk; ReadThrough and the refinement; the proofs.

Next:

1. That the tabulated router of every route set keeps `ShapeAssumption` and
   `HintAssumption`, from `HintsAreWide` and the shape of the answers of Router.
2. ProxyFS's runs over a handler with a TTL of its own and uncacheable answers, and
   over one whose walk is torn.
