-------------------------------- MODULE Walk --------------------------------
(* One materialization step by step (materializer.go: Materialize and walk)  *)
(* over a source that changes meanwhile: a Stat of the root, one ReadDir per *)
(* directory, one Info per entry, each at a moment of its own. Whether to go *)
(* down is decided by the kind in the listing, everything else by the Info.  *)
(*                                                                           *)
(* Materializer says what a walk makes of a source that stays as it is.      *)
EXTENDS Materializer

CONSTANTS
    Jobs,           \* the walks there are: [handler, req]
    Trees,          \* the states the source can be in
    MaxChanges      \* bound: the source changes so often in a walk

ASSUME WalkAssumption ==
    /\ MaxChanges \in Nat
    /\ \A t \in Trees :
           WellFormed(t) /\ IsFiniteSet(DOMAIN t) /\ DOMAIN t \subseteq Seq(STRING)
    /\ \A j \in Jobs :
           /\ j.handler.maxDepth \in Int
           /\ j.req.sourceRoot \in Seq(STRING)
           /\ j.req.targetRoot \in Seq(STRING)

\* A mapper answers an entry below the source root with a list of paths.
ASSUME MapperAssumption ==
    \A j \in Jobs, t \in Trees : \A p \in DOMAIN t :
        HasPathPrefix(p, j.req.sourceRoot) /\ p # j.req.sourceRoot =>
            MappedRels(j.handler, j.req.sourceRoot, Below(p, Len(j.req.sourceRoot)), t[p]) \in Seq(Seq(STRING))

ASSUME OrderAssumption == OrdersNames(Trees)

VARIABLES
    tree,       \* the source now
    job,        \* the walk, and where it is:
    step,       \* "idle", "stat", "read" a directory, "visit" an entry, "done"
    stack,      \* the calls of walk, the innermost first: [dir, todo]
    out,        \* materializeState
    changes,    \* how often the source has changed in this walk
    lasting     \* ghost: the entries <<path, info>> there all the time in this walk

walkVars == <<tree, job, step, stack, out, changes, lasting>>

EntriesOf(t) == {<<p, t[p]>> : p \in DOMAIN t}

WalkInit ==
    /\ tree \in Trees
    /\ job \in Jobs
    /\ step = "idle" /\ stack = << >> /\ out = EmptyState
    /\ changes = 0 /\ lasting = EntriesOf(tree)

\* A lookup of a materializing handler walks anew.
Start(j) ==
    /\ step \in {"idle", "done"}
    /\ job' = j /\ step' = "stat" /\ out' = EmptyState
    /\ changes' = 0 /\ lasting' = EntriesOf(tree)
    /\ UNCHANGED <<tree, stack>>

\* The walk ends; what it has collected counts only without an error.
Ends(result) ==
    /\ step' = "done" /\ stack' = << >> /\ out' = result
    /\ UNCHANGED <<tree, job, changes, lasting>>

Enter(dir) == <<[dir |-> dir, todo |-> << >>]>> \o stack

StatRoot ==
    /\ step = "stat"
    /\ \/ ~Exists(tree, job.req.sourceRoot) /\ Ends(FailedState("notexist"))
       \/ /\ Exists(tree, job.req.sourceRoot) /\ ~IsDir(tree, job.req.sourceRoot)
          /\ Ends(FailedState("invalid"))
       \/ /\ IsDir(tree, job.req.sourceRoot)
          /\ step' = "read" /\ stack' = Enter(job.req.sourceRoot)
          /\ UNCHANGED <<tree, job, out, changes, lasting>>

\* Mutant of Listed: in the opposite order.
ListedBackwards(dir) ==
    LET paths == Reverse(InOrder(Listing(tree, dir)))
    IN  [i \in DOMAIN paths |-> [path |-> paths[i], isDir |-> IsDir(tree, paths[i])]]

\* The listing, sorted by name, with the kinds as they are now.
Listed(dir) ==
    LET paths == InOrder(Listing(tree, dir))
    IN  [i \in DOMAIN paths |-> [path |-> paths[i], isDir |-> IsDir(tree, paths[i])]]

ReadDirectory ==
    /\ step = "read"
    /\ LET dir == stack[1].dir
       IN  \/ ~Exists(tree, dir) /\ Ends(FailedState("notexist"))
           \/ Exists(tree, dir) /\ ~IsDir(tree, dir) /\ Ends(FailedState("other"))
           \/ /\ IsDir(tree, dir)
              /\ step' = "visit"
              /\ stack' = [stack EXCEPT ![1].todo = Listed(dir)]
              /\ UNCHANGED <<tree, job, out, changes, lasting>>

---------------------------------------------------------------------------
(* The loop over the entries of the innermost directory.                     *)

Visiting == step = "visit" /\ stack[1].todo # << >>
Next1 == stack[1].todo[1]
Rest == [stack EXCEPT ![1].todo = Tail(@)]

SkipDeep ==
    /\ Visiting /\ TooDeep(job.handler, job.req, Next1.path)
    /\ stack' = Rest
    /\ UNCHANGED <<tree, job, step, out, changes, lasting>>

EntryGone ==
    /\ Visiting /\ ~TooDeep(job.handler, job.req, Next1.path)
    /\ ~Exists(tree, Next1.path)
    /\ Ends(FailedState("notexist"))

\* Mutant of Deeper: the rest of the directory comes first.
DeeperLast(entry, decision) ==
    IF entry.isDir /\ ~Prunes(decision)
    THEN [step |-> "read", stack |-> Append(Rest, [dir |-> entry.path, todo |-> << >>])]
    ELSE [step |-> "visit", stack |-> Rest]

\* Where the walk goes after an entry: down, if the listing said directory.
Deeper(entry, decision) ==
    IF entry.isDir /\ ~Prunes(decision)
    THEN [step |-> "read", stack |-> <<[dir |-> entry.path, todo |-> << >>]>> \o Rest]
    ELSE [step |-> "visit", stack |-> Rest]

\* Mutant of Visit: an entry that is pruned ends the loop of its directory.
VisitUntilPruned ==
    /\ Visiting /\ ~TooDeep(job.handler, job.req, Next1.path)
    /\ Exists(tree, Next1.path)
    /\ LET info     == tree[Next1.path]
           decision == IndexDecision(job.req, Next1.path, info)
           result   == VisitEntry(job.handler, job.req, out, Next1.path, info)
           onward   == Deeper(Next1, decision)
       IN  \/ result.err # "none" /\ Ends(result)
           \/ /\ result.err = "none" /\ Prunes(decision)
              /\ stack' = [stack EXCEPT ![1].todo = << >>]
              /\ UNCHANGED <<tree, job, step, out, changes, lasting>>
           \/ /\ result.err = "none" /\ ~Prunes(decision)
              /\ out' = result /\ step' = onward.step /\ stack' = onward.stack
              /\ UNCHANGED <<tree, job, changes, lasting>>

Visit ==
    /\ Visiting /\ ~TooDeep(job.handler, job.req, Next1.path)
    /\ Exists(tree, Next1.path)
    /\ LET info   == tree[Next1.path]
           result == VisitEntry(job.handler, job.req, out, Next1.path, info)
           onward == Deeper(Next1, IndexDecision(job.req, Next1.path, info))
       IN  \/ result.err # "none" /\ Ends(result)
           \/ /\ result.err = "none"
              /\ out' = result /\ step' = onward.step /\ stack' = onward.stack
              /\ UNCHANGED <<tree, job, changes, lasting>>

\* Mutant of Leave: the walk stays in the directory.
LeaveNever ==
    /\ step = "visit" /\ stack[1].todo = << >>
    /\ IF Len(stack) = 1 THEN Ends(out) ELSE UNCHANGED walkVars

\* A directory is done, and with the outermost the walk.
Leave ==
    /\ step = "visit" /\ stack[1].todo = << >>
    /\ IF Len(stack) = 1 THEN Ends(out)
       ELSE /\ stack' = Tail(stack)
            /\ UNCHANGED <<tree, job, step, out, changes, lasting>>

SourceChanges(t) ==
    /\ t # tree
    /\ changes < MaxChanges
    /\ tree' = t /\ changes' = changes + 1
    /\ lasting' = lasting \cap EntriesOf(t)
    /\ UNCHANGED <<job, step, stack, out>>

Walks == StatRoot \/ ReadDirectory \/ SkipDeep \/ EntryGone \/ Visit \/ Leave

WalkNext ==
    \/ Walks
    \/ \E j \in Jobs : Start(j)
    \/ \E t \in Trees : SourceChanges(t)

(* The walk is a loop in one goroutine, over a source that answers; nothing  *)
(* forces a walk to start or the source to change.                           *)
WalkSpec == WalkInit /\ [][WalkNext]_walkVars /\ WF_walkVars(Walks)

---------------------------------------------------------------------------
(* Type invariant: the stack is the chain of directories down to the one the *)
(* walk is in, each still to be done with entries of its own only.           *)
WalkTypeOK ==
    /\ tree \in Trees /\ job \in Jobs
    /\ step \in {"idle", "stat", "read", "visit", "done"}
    /\ changes \in 0..MaxChanges
    /\ lasting \subseteq EntriesOf(tree)
    /\ (step \in {"read", "visit"}) = (stack # << >>)
    /\ \A i \in DOMAIN stack :
           /\ i = Len(stack) => stack[i].dir = job.req.sourceRoot
           /\ i < Len(stack) => ParentPath(stack[i].dir) = stack[i + 1].dir
           /\ \A e \in ToSet(stack[i].todo) : ParentPath(e.path) = stack[i].dir
    /\ \A m, n \in out.nodes : m.path = n.path => m = n

(* A walk that no change of the source disturbs makes what Materializer says *)
(* of that source, errors and the names under the rename policy included:    *)
(* the loop and the recursion visit every entry that no depth and no filter  *)
(* keeps away, once, a directory before what is in it.                       *)
UndisturbedWalkIsMaterialize ==
    step = "done" /\ changes = 0 =>
        out = Materialize(job.handler, job.req, tree)

\* The walk comes to p by directories that are there all the time.
SteadilyReached(p) ==
    LET above == {SubSeq(p, 1, n) : n \in Len(job.req.sourceRoot)..(Len(p) - 1)}
        info(q) == (CHOOSE e \in lasting : e[1] = q)[2]
    IN  /\ HasPathPrefix(p, job.req.sourceRoot) /\ p # job.req.sourceRoot
        /\ ~TooDeep(job.handler, job.req, p)
        /\ \A q \in above \cup {p} :
               /\ \E e \in lasting : e[1] = q
               /\ q # job.req.sourceRoot => ~Prunes(IndexDecision(job.req, q, info(q)))

(* A walk that succeeds misses nothing that was there all the time, whatever *)
(* came and went around it: under the rename policy each such entry is shown *)
(* itself, under the others its target path is.                              *)
NothingSteadyIsMissed ==
    step = "done" /\ out.err = "none" =>
        \A e \in {x \in lasting : SteadilyReached(x[1])} :
            \A m \in ToSet(Mapped(job.handler, job.req, e[1], e[2])) :
                TargetDecision(job.req.filter, m) = "include" =>
                    \E n \in out.nodes :
                        IF job.handler.policy = "rename"
                        THEN n.source = m.source /\ n.stamp = m.stamp
                        ELSE n.path = m.path

(* The rename policy never gives up a node: an entry that has been placed    *)
(* keeps its name to the end of the walk, and no later one takes it, though  *)
(* entries that already carry a suffixed name come in between.               *)
RenamedStays ==
    [][Walks /\ job.handler.policy = "rename" /\ out'.err = "none" =>
           out.nodes \subseteq out'.nodes]_walkVars

(* Every walk ends, also when directories come and go under it.              *)
WalkEnds == step = "stat" ~> step = "done"

=============================================================================
