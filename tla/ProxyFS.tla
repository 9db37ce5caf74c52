------------------------------ MODULE ProxyFS ------------------------------
(* The file system (fs.go): concurrent calls of Stat, Open, ReadDir,         *)
(* SourcePaths, TargetPaths and of the invalidation methods, over one cache  *)
(* and a source that changes while they run. What the router answers is a    *)
(* parameter (Router says what it is for the built-in handlers); this module *)
(* is about what the cache makes of it.                                      *)
(*                                                                           *)
(* A lookup takes several steps, between which other calls, changes of the   *)
(* source and the passing of time interleave:                                *)
(*   idle -> get -> (hit) done                                               *)
(*               -> (miss) read -> finish -> put -> children -> done         *)
(* An Open that resolved a node waits in "opened" for its second half; an    *)
(* InvalidatePath waits in "dropparent" between its two invalidations.       *)
EXTENDS MemoryCache, FiniteSets

CONSTANTS
    Callers,            \* goroutines that call the file system
    Targets,            \* the target (and source) paths there are
    Requests,           \* <<op, path>>: the lookups and InvalidatePath calls they make
    Others,             \* the calls they make beside: names in OtherCalls
    Scopes,             \* the scopes they pass to Invalidate
    Trees,              \* the states the source can be in
    FirstTree,          \* the one it starts in
    Nodes,              \* the nodes there are
    RouteIDs,           \* the ids of the routes
    SharedID,           \* "_router"
    RouteOf(_),         \* Router.RouteIDFor
    RouterAnswers(_, _, _),  \* what it may answer for a kind and path, read over a span
    OpenDecisionFor(_), \* applyOpenFilter's decision for a node
    SourceOpen(_, _),   \* what opening a file node returns in a tree
    DefaultTTL, NegativeTTL,   \* Config.DefaultTTL and NegativeTTL, after New
    CacheFaults,        \* the operations of a custom Cache that may fail
    MaxTTL,             \* bound: no TTL is longer
    MaxFetch,           \* bound: a lookup reads and stores in this much time
    MaxVersions,        \* bound: the source has this many states in a run
    QuietAfter,         \* bound: the source changes at no later time
    MaxClock            \* bound: time stops here

LookupOps == {"stat", "open", "readdir", "sourcepaths", "targetpaths"}
OtherCalls == {"malformed", "invalidate", "clear", "delete"}

FirstKind == [stat |-> "node", open |-> "node", readdir |-> "dir",
              sourcepaths |-> "sources", targetpaths |-> "targets"]

\* The key that each lookup builds; only nodes and source paths are per route.
KeyFor(kind, path) ==
    [path |-> path, kind |-> kind,
     route |-> IF kind \in {"node", "sources"} THEN RouteOf(path) ELSE SharedID]

Keys == {KeyFor(kind, path) : kind \in CacheKinds, path \in Targets}

Errors == {"none", "notexist", "permission", "invalid", "conflict", "other", "cache"}
NodeKinds == {"file", "dir", "none"}    \* "none" is a node whose Kind was never set

(* What a lookup answers, with the fields of the router's CacheHint that are *)
(* read again: the nodes of a resolve or a listing, or the source or target  *)
(* paths of a reverse lookup.                                                *)
Answers ==
    [err : Errors, nodes : SUBSET Nodes, paths : SUBSET Targets, cacheable : BOOLEAN,
     ttl : Int, sources : SUBSET Targets, routes : SUBSET RouteIDs]

Failed(err) ==
    [err |-> err, nodes |-> {}, paths |-> {}, cacheable |-> FALSE, ttl |-> 0,
     sources |-> {}, routes |-> {}]

ASSUME ProxyFSAssumption ==
    /\ Requests \subseteq (LookupOps \cup {"invalidatepath"}) \X Targets
    /\ Others \subseteq OtherCalls
    /\ << >> \in Targets
    /\ FirstTree \in Trees
    /\ DefaultTTL \in Int \ {0} /\ DefaultTTL <= MaxTTL
    /\ NegativeTTL \in Int \ {0} /\ NegativeTTL <= MaxTTL
    /\ CacheFaults \subseteq {"get", "put", "invalidate"}
    /\ MaxTTL \in Nat \ {0} /\ MaxFetch \in Nat /\ MaxVersions \in Nat \ {0}
    /\ QuietAfter \in Nat /\ MaxClock \in Nat

\* The states that the source can go through while a router reads it.
Spans == UNION {[1..n -> Trees] : n \in 1..MaxVersions}

(* What the file system may assume of a router: it has an answer, a resolve  *)
(* that succeeds names one node, and a listing only children of the listed   *)
(* path.                                                                     *)
ASSUME RouterAssumption ==
    /\ SharedID \in RouteIDs
    /\ \A path \in Targets : RouteOf(path) \in RouteIDs
    /\ \A n \in Nodes : n.path \in Targets /\ n.kind \in NodeKinds
    /\ \A tree \in Trees, n \in Nodes : SourceOpen(tree, n) \in Answers
    /\ \A states \in Spans, kind \in CacheKinds, path \in Targets :
           /\ RouterAnswers(states, kind, path) # {}
           /\ \A answer \in RouterAnswers(states, kind, path) :
                  /\ answer \in Answers
                  /\ answer.ttl <= MaxTTL
                  /\ kind = "node" /\ answer.err = "none" =>
                         \E n \in Nodes : answer.nodes = {n}
                  /\ kind = "dir" => \A n \in answer.nodes : ChildOf(n.path, path)

VARIABLES
    clock,      \* time.Now()
    history,    \* ghost: the source's states so far, [tree, since]
    call,       \* the call each caller is in
    floor       \* ghost: per key, the oldest version an answer may be read from

vars == <<entries, clock, history, call, floor>>

---------------------------------------------------------------------------
(* The state of a call. first is 0 until the call has read the source or an  *)
(* entry; then it is the oldest version of the source behind its answer.     *)

Steps == {"idle", "get", "read", "finish", "put", "children", "opened",
          "dropparent", "done"}

NoCall ==
    [step |-> "idle", op |-> "none", path |-> << >>, kind |-> "node", now |-> 0,
     bar |-> 0, first |-> 0, readAt |-> 0, answer |-> Failed("none"), todo |-> {}]

Init ==
    /\ CacheInit
    /\ clock = 0
    /\ history = <<[tree |-> FirstTree, since |-> 0]>>
    /\ call = [c \in Callers |-> NoCall]
    /\ floor = [k \in Keys |-> 1]

Version == Len(history)
Tree(v) == history[v].tree

\* The states of the source from version v to version w.
Span(v, w) == [i \in 1..(w - v + 1) |-> Tree(v + i - 1)]

CallKey(c) == KeyFor(call[c].kind, call[c].path)

At(c, step) == call[c].step = step

(* The start of a lookup: the time is taken before the cache is read. The    *)
(* ghost bar is the floor under the key at that moment.                      *)
Lookup(op, kind, path) ==
    [NoCall EXCEPT !.step = "get", !.op = op, !.path = path, !.kind = kind,
                   !.now = clock, !.bar = floor[KeyFor(kind, path)]]

(* What a lookup of c does with its answer: an Open that resolved a node     *)
(* goes on with it, everything else returns it.                              *)
Settled(c, answer, first) ==
    [call[c] EXCEPT
        !.step = IF call[c].op = "open" /\ call[c].kind = "node"
                    /\ answer.err = "none"
                 THEN "opened" ELSE "done",
        !.first = first, !.answer = answer, !.readAt = 0, !.todo = {}]

\* The end of a call that returns no answer of a lookup, but err.
Returned(err) == [NoCall EXCEPT !.step = "done", !.answer = Failed(err)]

---------------------------------------------------------------------------
(* Cache entries.                                                            *)

\* expiresAt: computed when the entry is stored.
Expiry(ttl) == IF ttl < 0 THEN Never ELSE clock + ttl

\* cacheTTL and cacheNegative: which answers are cached, and for how long.
Stored(answer) ==
    \/ answer.err = "none" /\ answer.cacheable /\ answer.ttl >= 0
    \/ answer.err = "notexist" /\ NegativeTTL >= 0

TTLOf(answer) ==
    CASE answer.err # "none" -> NegativeTTL
      [] answer.err = "none" /\ answer.ttl = 0 -> DefaultTTL
      [] OTHER -> answer.ttl

\* Mutant of EntryOf: cachePaths forgets the paths.
EntryWithoutPaths(key, answer, nodes, first) ==
    [key |-> key, negative |-> answer.err # "none", nodes |-> nodes,
     paths |-> {}, expires |-> Expiry(TTLOf(answer)),
     sources |-> answer.sources,
     routes |-> IF answer.err = "none" THEN answer.routes ELSE {key.route},
     asOf |-> first]

EntryOf(key, answer, nodes, first) ==
    [key |-> key, negative |-> answer.err # "none", nodes |-> nodes,
     paths |-> answer.paths, expires |-> Expiry(TTLOf(answer)),
     sources |-> answer.sources,
     routes |-> IF answer.err = "none" THEN answer.routes ELSE {key.route},
     asOf |-> first]

\* Mutant of Served: Negative is not looked at.
ServedAnyway(entry) == [Failed("none") EXCEPT !.nodes = entry.nodes, !.paths = entry.paths]

(* What a lookup returns of an entry that it found: a negative entry, and a  *)
(* node whose Kind is not set, are fs.ErrNotExist.                           *)
Served(entry) ==
    IF entry.negative \/ (entry.key.kind = "node" /\ \E n \in entry.nodes : n.kind = "none")
    THEN Failed("notexist")
    ELSE [Failed("none") EXCEPT !.nodes = entry.nodes, !.paths = entry.paths]

---------------------------------------------------------------------------
(* Lookups.                                                                  *)

\* Every method starts with cleanTargetPath, which refuses a malformed name.
Reject(c) ==
    /\ At(c, "idle")
    /\ "malformed" \in Others
    /\ call' = [call EXCEPT ![c] = Returned("invalid")]
    /\ UNCHANGED <<entries, clock, history, floor>>

Begin(c, op, path) ==
    /\ At(c, "idle")
    /\ <<op, path>> \in Requests
    /\ call' = [call EXCEPT ![c] = Lookup(op, FirstKind[op], path)]
    /\ UNCHANGED <<entries, clock, history, floor>>

\* Mutant of Hit: reading an entry renews it.
HitRenewing(c) ==
    /\ At(c, "get")
    /\ \E e \in Found(CallKey(c)) :
           /\ ~Expired(e, call[c].now)
           /\ Put([e EXCEPT !.expires = Expiry(IF e.negative THEN NegativeTTL ELSE DefaultTTL)])
           /\ call' = [call EXCEPT ![c] = Settled(c, Served(e), e.asOf)]
    /\ UNCHANGED <<clock, history, floor>>

Hit(c) ==
    /\ At(c, "get")
    /\ \E e \in Found(CallKey(c)) :
           /\ ~Expired(e, call[c].now)
           /\ call' = [call EXCEPT ![c] = Settled(c, Served(e), e.asOf)]
    /\ UNCHANGED <<entries, clock, history, floor>>

Miss(c) ==
    /\ At(c, "get")
    /\ \A e \in Found(CallKey(c)) : Expired(e, call[c].now)
    /\ call' = [call EXCEPT ![c].step = "read"]
    /\ UNCHANGED <<entries, clock, history, floor>>

\* A Cache whose Get returns an error ends the lookup.
GetFails(c) ==
    /\ At(c, "get")
    /\ "get" \in CacheFaults
    /\ call' = [call EXCEPT ![c] = Returned("cache")]
    /\ UNCHANGED <<entries, clock, history, floor>>

\* The router starts to read the source.
Read(c) ==
    /\ At(c, "read")
    /\ call' = [call EXCEPT ![c].step = "finish", ![c].first = Version, ![c].readAt = clock]
    /\ UNCHANGED <<entries, clock, history, floor>>

(* The router has read the last of the source. An answer that is not cached  *)
(* is returned.                                                              *)
Finish(c) ==
    /\ At(c, "finish")
    /\ \E answer \in RouterAnswers(Span(call[c].first, Version), call[c].kind, call[c].path) :
           call' = [call EXCEPT ![c] =
                       IF Stored(answer) THEN [@ EXCEPT !.step = "put", !.answer = answer]
                                         ELSE Settled(c, answer, call[c].first)]
    /\ UNCHANGED <<entries, clock, history, floor>>

\* An error of Put is ignored; the entry that was there stays.
PutOrFail(entry) ==
    \/ Put(entry)
    \/ "put" \in CacheFaults /\ UNCHANGED entries

PutAnswer(c) ==
    /\ At(c, "put")
    /\ PutOrFail(EntryOf(CallKey(c), call[c].answer, call[c].answer.nodes, call[c].first))
    /\ call' = [call EXCEPT ![c] =
                   IF @.kind = "dir" /\ @.answer.nodes # {}
                   THEN [@ EXCEPT !.step = "children", !.todo = call[c].answer.nodes]
                   ELSE Settled(c, @.answer, @.first)]
    /\ UNCHANGED <<clock, history, floor>>

(* A listing's answer stores the node n under a key of its own: unless the   *)
(* route that owns n had no part in the listing.                             *)
Shares(answer, n) == answer.routes = {} \/ RouteOf(n.path) \in answer.routes

(* readDirNodes then stores every child that it shares under the key that    *)
(* resolve reads, one Put each. (The code goes through them in path order;   *)
(* here any order is possible.)                                              *)
PutChild(c) ==
    /\ At(c, "children")
    /\ \E n \in call[c].todo :
           LET key == KeyFor("node", n.path)
               answer == call[c].answer
           IN  /\ IF Shares(answer, n)
                  THEN PutOrFail(EntryOf(key, answer, {n}, call[c].first))
                  ELSE UNCHANGED entries
               /\ call' = [call EXCEPT ![c] =
                              IF @.todo = {n} THEN Settled(c, answer, @.first)
                              ELSE [@ EXCEPT !.todo = call[c].todo \ {n}]]
    /\ UNCHANGED <<clock, history, floor>>

---------------------------------------------------------------------------
(* The second half of Open, for the node that the first half resolved.       *)

OpenedNode(c) == CHOOSE n \in call[c].answer.nodes : TRUE

\* An Open ends with something else than the answer of a lookup.
Ended(c, answer) == [call[c] EXCEPT !.step = "done", !.first = 0, !.answer = answer]

OpenError(decision) ==
    CASE decision = "deny" -> "permission"
      [] decision = "error" -> "other"
      [] OTHER -> "notexist"

OpenDenied(c) ==
    /\ At(c, "opened")
    /\ OpenDecisionFor(OpenedNode(c)) # "include"
    /\ call' = [call EXCEPT ![c] =
                   Ended(c, Failed(OpenError(OpenDecisionFor(OpenedNode(c)))))]
    /\ UNCHANGED <<entries, clock, history, floor>>

\* A directory is listed by a second lookup, with a time of its own.
OpenDir(c) ==
    /\ At(c, "opened")
    /\ OpenDecisionFor(OpenedNode(c)) = "include"
    /\ OpenedNode(c).kind = "dir"
    /\ call' = [call EXCEPT ![c] = Lookup("open", "dir", @.path)]
    /\ UNCHANGED <<entries, clock, history, floor>>

\* Anything else is opened in the source as it is now.
OpenFile(c) ==
    /\ At(c, "opened")
    /\ OpenDecisionFor(OpenedNode(c)) = "include"
    /\ OpenedNode(c).kind # "dir"
    /\ call' = [call EXCEPT ![c] = Ended(c, SourceOpen(Tree(Version), OpenedNode(c)))]
    /\ UNCHANGED <<entries, clock, history, floor>>

\* The caller takes its result.
Return(c) ==
    /\ At(c, "done")
    /\ call' = [call EXCEPT ![c] = NoCall]
    /\ UNCHANGED <<entries, clock, history, floor>>

---------------------------------------------------------------------------
(* Invalidation. The ghost floor says what the caller may rely on from then  *)
(* on: for the keys that the operation is documented to drop, no answer read *)
(* from a version older than the current one -- except for a key that a      *)
(* lookup still under way is going to fill from an older version.            *)

InFlight(c) == call[c].step \in {"finish", "put", "children"}

(* A lookup stores its own entry; a listing, until it has read the source,   *)
(* may store any child, and then those that it shows and has not stored yet. *)
MayStore(c, key) ==
    \/ call[c].step \in {"finish", "put"} /\ key = CallKey(c)
    \/ /\ call[c].kind = "dir"
       /\ key.kind = "node"
       /\ \/ At(c, "finish") /\ ChildOf(key.path, call[c].path)
          \/ At(c, "put") /\ \E n \in call[c].answer.nodes : n.path = key.path
          \/ At(c, "children") /\ \E n \in call[c].todo : n.path = key.path

Overtaken(key) == \E c \in Callers : MayStore(c, key) /\ call[c].first < Version

Raised(dropped) ==
    [k \in Keys |-> IF k \in dropped /\ ~Overtaken(k) THEN Version ELSE floor[k]]

\* The scope of the two invalidations of InvalidatePath.
ScopeOf(path) == [root |-> path, recursive |-> FALSE, routes |-> {}, sources |-> {}]

\* A Cache whose Invalidate or Clear returns an error; the method returns it.
InvalidateFails(c) ==
    /\ "invalidate" \in CacheFaults
    /\ call' = [call EXCEPT ![c] = Returned("cache")]
    /\ UNCHANGED <<entries, clock, history, floor>>

\* InvalidatePath, first half: the target path.
InvalidatePath(c, path) ==
    /\ At(c, "idle")
    /\ <<"invalidatepath", path>> \in Requests
    /\ \/ /\ Invalidate(ScopeOf(path))
          /\ floor' = Raised({k \in Keys : k.path = path /\ k.kind # "targets"})
          /\ call' = [call EXCEPT ![c] = [NoCall EXCEPT !.step = "dropparent",
                                                        !.op = "invalidatepath",
                                                        !.path = path]]
          /\ UNCHANGED <<clock, history>>
       \/ InvalidateFails(c)

\* Mutant of InvalidateParent: the target path is dropped again, not its parent.
InvalidateSelf(c) ==
    /\ At(c, "dropparent")
    /\ Invalidate(ScopeOf(call[c].path))
    /\ floor' = Raised({k \in Keys : k.path = ParentPath(call[c].path) /\ k.kind = "dir"})
    /\ call' = [call EXCEPT ![c] = Returned("none")]
    /\ UNCHANGED <<clock, history>>

\* Second half: its parent listing.
InvalidateParent(c) ==
    /\ At(c, "dropparent")
    /\ \/ /\ Invalidate(ScopeOf(ParentPath(call[c].path)))
          /\ floor' = Raised({k \in Keys : k.path = ParentPath(call[c].path) /\ k.kind = "dir"})
          /\ call' = [call EXCEPT ![c] = Returned("none")]
          /\ UNCHANGED <<clock, history>>
       \/ InvalidateFails(c)

(* Invalidate drops, of the region it names, what belongs to the routes it   *)
(* names. With source roots it promises nothing for a key by itself: which   *)
(* entries go depends on what they were read from.                           *)
InRegion(path, scope) ==
    \/ path = scope.root
    \/ /\ scope.recursive
       /\ Len(scope.root) < Len(path)
       /\ SubSeq(path, 1, Len(scope.root)) = scope.root

Promised(key, scope) ==
    /\ InRegion(key.path, scope)
    /\ scope.routes = {} \/ key.route \in scope.routes
    /\ scope.sources = {}

InvalidateScope(c, scope) ==
    /\ At(c, "idle")
    /\ "invalidate" \in Others
    /\ \/ /\ Invalidate(scope)
          /\ floor' = Raised({k \in Keys : Promised(k, scope)})
          /\ call' = [call EXCEPT ![c] = Returned("none")]
          /\ UNCHANGED <<clock, history>>
       \/ InvalidateFails(c)

ClearCache(c) ==
    /\ At(c, "idle")
    /\ "clear" \in Others
    /\ \/ /\ Clear
          /\ floor' = Raised(Keys)
          /\ call' = [call EXCEPT ![c] = Returned("none")]
          /\ UNCHANGED <<clock, history>>
       \/ InvalidateFails(c)

(* An application that kept the Cache it configured may delete a key itself. *)
(* (The key of no entry is left out: deleting it does nothing.)              *)
DeleteKey(c) ==
    /\ At(c, "idle")
    /\ "delete" \in Others
    /\ \E e \in entries : Delete(e.key) /\ floor' = Raised({e.key})
    /\ call' = [call EXCEPT ![c] = Returned("none")]
    /\ UNCHANGED <<clock, history>>

---------------------------------------------------------------------------
(* The world around.                                                         *)

SourceChanges(tree) ==
    /\ tree # Tree(Version)
    /\ Version < MaxVersions
    /\ clock <= QuietAfter
    /\ history' = Append(history, [tree |-> tree, since |-> clock])
    /\ UNCHANGED <<entries, clock, call, floor>>

\* Time passes, but no lookup takes longer than MaxFetch to read and store.
Tick ==
    /\ clock < MaxClock
    /\ \A c \in Callers : InFlight(c) => clock < call[c].readAt + MaxFetch
    /\ clock' = clock + 1
    /\ UNCHANGED <<entries, history, call, floor>>

\* A call that has begun goes on.
Advance(c) ==
    \/ Hit(c) \/ Miss(c) \/ GetFails(c)
    \/ Read(c) \/ Finish(c) \/ PutAnswer(c) \/ PutChild(c)
    \/ OpenDenied(c) \/ OpenDir(c) \/ OpenFile(c)
    \/ InvalidateParent(c) \/ Return(c)

Start(c) ==
    \/ Reject(c)
    \/ \E op \in LookupOps, path \in Targets : Begin(c, op, path)
    \/ \E path \in Targets : InvalidatePath(c, path)
    \/ \E scope \in Scopes : InvalidateScope(c, scope)
    \/ ClearCache(c)
    \/ DeleteKey(c)

Next ==
    \/ \E c \in Callers : Start(c) \/ Advance(c)
    \/ \E tree \in Trees : SourceChanges(tree)
    \/ Tick

Spec == Init /\ [][Next]_vars

(* Goroutines are scheduled and the source answers, so a call that has begun *)
(* goes on; time passes. Nothing forces a call to begin or the source to     *)
(* change.                                                                   *)
Fairness == WF_vars(Tick) /\ \A c \in Callers : WF_vars(Advance(c))

FairSpec == Spec /\ Fairness

---------------------------------------------------------------------------
(* Type invariant. The cache is a map: one entry per key, and only keys that *)
(* a lookup builds.                                                          *)
Calls ==
    [step : Steps, op : LookupOps \cup {"none", "invalidatepath"}, path : Targets,
     kind : CacheKinds, now : Nat, bar : Nat, first : Nat, readAt : Nat,
     answer : Answers, todo : SUBSET Nodes]

Entries ==
    [key : Keys, negative : BOOLEAN, nodes : SUBSET Nodes, paths : SUBSET Targets,
     expires : Nat \cup {Never}, sources : SUBSET Targets, routes : SUBSET RouteIDs,
     asOf : Nat]

OneEntryPerKey == \A e, f \in entries : e.key = f.key => e = f

TypeOK ==
    /\ clock \in Nat
    /\ history \in Seq([tree : Trees, since : Nat])
    /\ Version \in 1..MaxVersions
    /\ floor \in [Keys -> Nat]
    /\ call \in [Callers -> Calls]
    /\ entries \subseteq Entries
    /\ OneEntryPerKey
    /\ \A e \in entries : e.asOf \in 1..Version
    /\ \A c \in Callers : call[c].first <= Version

(* A lookup of c has ended with an answer taken from the cache or from the   *)
(* router: no error of the cache, no node that Open went on with.            *)
Answered(c) == At(c, "done") /\ call[c].first # 0

(* A lookup that begins after an invalidation of its key was documented to   *)
(* be done answers from no older source: fs.go's InvalidatePath, Invalidate  *)
(* and ClearCache drop everything they promise to, and what a concurrent     *)
(* ReadDir or an Open's second lookup puts back was read afterwards. The     *)
(* exception is written in Raised: a fetch the invalidation overtakes.       *)
FreshAfterInvalidation ==
    \A c \in Callers :
        Answered(c) \/ At(c, "opened") => call[c].first >= call[c].bar

(* Without any invalidation an answer is at most a TTL plus the time of the  *)
(* fetch that cached it out of date: the version it was read from was still  *)
(* the source's that long before the lookup.                                 *)
BoundedStaleness ==
    DefaultTTL > 0 =>
        \A c \in Callers :
            (Answered(c) \/ At(c, "opened")) /\ call[c].first < Version =>
                history[call[c].first + 1].since > call[c].now - (MaxTTL + MaxFetch)

\* What a caller sees of an answer.
Seen(answer) == [err |-> answer.err, nodes |-> answer.nodes, paths |-> answer.paths]

(* What may be said of a key from the source over a span: what the router    *)
(* answers, and, of a node, what the router's listing of its parent shows    *)
(* and shares.                                                               *)
ListedAs(states, path) ==
    UNION {{n \in answer.nodes : n.path = path /\ Shares(answer, n)} :
              answer \in RouterAnswers(states, "dir", ParentPath(path))}

SaidOf(states, key) ==
    {Seen(answer) : answer \in RouterAnswers(states, key.kind, key.path)}
        \cup (IF key.kind = "node"
              THEN {Seen([Failed("none") EXCEPT !.nodes = {n}]) : n \in ListedAs(states, key.path)}
              ELSE {})

(* The cache makes nothing up: what a lookup returns was read from states    *)
(* that the source has had since the version the answer dates from: by the   *)
(* router for that very path, or by its listing of the parent. It covers the *)
(* nodes that ReadDir stores under its children's keys, whoever looks them   *)
(* up, and the negative entries.                                             *)
AnswersComeFromTheSource ==
    \A c \in Callers :
        Answered(c) =>
            \E v \in call[c].first..Version : \E w \in v..Version :
                Seen(call[c].answer) \in SaidOf(Span(v, w), CallKey(c))

(* Once the source has stopped changing, callers stop getting old answers:   *)
(* no entry is renewed by being read, and each one dies of its TTL.          *)
EventuallyFresh ==
    <>[](\A c \in Callers :
            Answered(c) =>
                Seen(call[c].answer) \in SaidOf(Span(Version, Version), CallKey(c)))

---------------------------------------------------------------------------
(* The file system implements a read-through of the source: its lookups wait *)
(* from the moment they take the time until they settle, InvalidatePath is   *)
(* two invalidations, and the cache is not to be seen.                       *)

PromiseOfPath(path) == {k \in Keys : k.path = path /\ k.kind # "targets"}
PromiseOfListing(path) == {k \in Keys : k.path = path /\ k.kind = "dir"}

PromisedRegions ==
    {PromiseOfPath(path) : path \in Targets} \cup {PromiseOfListing(path) : path \in Targets}
        \cup {{k \in Keys : Promised(k, scope)} : scope \in Scopes}
        \cup {{k} : k \in Keys} \cup {Keys}

\* A lookup stores its own entry, a listing those of the children too.
MayRenew(key, other) ==
    \/ other = key
    \/ key.kind = "dir" /\ other.kind = "node" /\ ChildOf(other.path, key.path)

Abstractly(c) ==
    CASE call[c].step \in {"get", "read", "finish", "put", "children"} ->
            [state |-> "asked", key |-> CallKey(c), since |-> call[c].bar]
      [] Answered(c) \/ At(c, "opened") ->
            [state |-> "answered", answer |-> Seen(call[c].answer)]
      [] OTHER -> [state |-> "none"]

Abstract == INSTANCE ReadThrough WITH
    Regions <- PromisedRegions, Fills <- MayRenew, AnswersTo <- SaidOf,
    trees <- [v \in 1..Version |-> Tree(v)], promise <- floor,
    asked <- [c \in Callers |-> Abstractly(c)]

(* Whatever the cache does, no caller can tell the file system from one that *)
(* reads the source through, within what the invalidations promised.         *)
ReadsThrough == Abstract!Spec

=============================================================================
