---------------------------- MODULE Walk_proofs ----------------------------
(* Proofs about one materialization step by step (Walk): its stack of        *)
(* directories, its nodes, the rename policy, and that a walk that succeeds  *)
(* misses nothing that was there all the time.                               *)
EXTENDS Walk, Materializer_proofs

---------------------------------------------------------------------------
(* What it reads.                                                            *)

\* ReadDir of a directory of the source lists what is in it, and nothing else.
LEMMA ListingInOrder ==
    ASSUME NEW t \in Trees, NEW d \in DOMAIN t
    PROVE  LET paths == Listing(t, d)
               n     == Cardinality(paths)
           IN  /\ n \in Nat
               /\ InOrder(paths) \in [1..n -> paths]
               /\ \A p \in paths : \E i \in 1..n : InOrder(paths)[i] = p
               /\ \A i, j \in 1..n : WalkedBefore(InOrder(paths)[i], InOrder(paths)[j]) <=> i < j
<1>1. Listing(t, d) \in SUBSET (DOMAIN t \ {Root})
  BY DEF Listing, ChildOf
<1>2. DOMAIN t \subseteq Dirs /\ IsFiniteSet(DOMAIN t)
  BY WalkAssumption DEF Dirs
<1> QED
  BY <1>1, <1>2, OrderAssumption, TreeInOrder

---------------------------------------------------------------------------
(* The inductive invariant: what WalkTypeOK says, with frames of paths at or *)
(* below the source root, each with entries of its own directory only, a     *)
(* walk on its way that has not failed, and one node per target path.        *)

Frames == [dir : Dirs, todo : Seq([path : Dirs, isDir : BOOLEAN])]

\* A frame and what is directly in its directory.
OwnEntries(frame) ==
    \A k \in 1..Len(frame.todo) : ChildOf(frame.todo[k].path, frame.dir)

Chain(frames, root) ==
    \A i \in 1..Len(frames) :
        /\ i = Len(frames) => frames[i].dir = root
        /\ i < Len(frames) => ParentPath(frames[i].dir) = frames[i + 1].dir
        /\ OnWay(root, frames[i].dir)
        /\ OwnEntries(frames[i])

StackInv ==
    /\ tree \in Trees /\ job \in Jobs
    /\ step \in {"idle", "stat", "read", "visit", "done"}
    /\ changes \in 0..MaxChanges
    /\ lasting \subseteq EntriesOf(tree)
    /\ stack \in Seq(Frames)
    /\ step \in {"read", "visit"} <=> stack # << >>
    /\ step \in {"stat", "read", "visit"} => out.err = "none"
    /\ step = "read" => stack[1].todo = << >>
    /\ Chain(stack, job.req.sourceRoot)
    /\ OneEach(out)

LEMMA StackInvTypes == StackInv => WalkTypeOK
<1> SUFFICES ASSUME StackInv PROVE WalkTypeOK
  OBVIOUS
<1>1. DOMAIN stack = 1..Len(stack) /\ \A i \in 1..Len(stack) : stack[i] \in Frames
  BY DEF StackInv
<1>2. ASSUME NEW i \in 1..Len(stack), NEW e \in ToSet(stack[i].todo)
      PROVE  ParentPath(e.path) = stack[i].dir
  <2>1. stack[i].todo \in Seq([path : Dirs, isDir : BOOLEAN])
    BY <1>1 DEF Frames
  <2>2. DOMAIN stack[i].todo = 1..Len(stack[i].todo)
    BY <2>1
  <2>3. PICK k \in 1..Len(stack[i].todo) : e = stack[i].todo[k]
    BY <2>2 DEF ToSet
  <2> QED
    BY <2>3 DEF StackInv, Chain, OwnEntries, ChildOf
<1>3. \A i \in 1..Len(stack) :
          /\ i = Len(stack) => stack[i].dir = job.req.sourceRoot
          /\ i < Len(stack) => ParentPath(stack[i].dir) = stack[i + 1].dir
  BY DEF StackInv, Chain
<1>4. \A m, n \in out.nodes : m.path = n.path => m = n
  BY DEF StackInv, OneEach
<1>5. /\ tree \in Trees /\ job \in Jobs
      /\ step \in {"idle", "stat", "read", "visit", "done"}
      /\ changes \in 0..MaxChanges
      /\ lasting \subseteq EntriesOf(tree)
      /\ (step \in {"read", "visit"}) = (stack # << >>)
  BY DEF StackInv
<1> QED
  BY <1>1, <1>2, <1>3, <1>4, <1>5 DEF WalkTypeOK

---------------------------------------------------------------------------
(* The stack of the walk.                                                    *)

\* Going down, going on, and coming back up.
LEMMA PushOK ==
    ASSUME NEW s \in Seq(Frames), NEW f \in Frames
    PROVE  /\ <<f>> \o s \in Seq(Frames) /\ <<f>> \o s # << >>
           /\ Len(<<f>> \o s) = Len(s) + 1 /\ (<<f>> \o s)[1] = f
           /\ \A i \in 1..Len(s) : (<<f>> \o s)[i + 1] = s[i]
<1>1. <<f>> \in Seq(Frames) /\ Len(<<f>>) = 1 /\ Len(s) \in Nat
  OBVIOUS
<1>2. <<f>> \o s \in Seq(Frames) /\ Len(<<f>> \o s) = 1 + Len(s)
      /\ \A i \in 1..(1 + Len(s)) : (<<f>> \o s)[i] = IF i <= 1 THEN <<f>>[i] ELSE s[i - 1]
  BY <1>1, ConcatProperties
<1> DEFINE t == <<f>> \o s
<1> HIDE DEF t
<1>3. t \in Seq(Frames) /\ Len(t) = 1 + Len(s)
      /\ \A i \in 1..(1 + Len(s)) : t[i] = IF i <= 1 THEN <<f>>[i] ELSE s[i - 1]
  BY <1>2 DEF t
<1>4. t[1] = f /\ t # << >>
  BY <1>1, <1>3
<1>5. \A i \in 1..Len(s) : t[i + 1] = s[i]
  <2>1. \A i \in 1..Len(s) : i + 1 \in 1..(1 + Len(s)) /\ ~(i + 1 <= 1) /\ i + 1 - 1 = i
    BY <1>1
  <2> QED
    BY <1>3, <2>1
<1> QED
  BY <1>1, <1>3, <1>4, <1>5 DEF t

LEMMA TodoOK ==
    ASSUME NEW s \in Seq(Frames), s # << >>, NEW todo \in Seq([path : Dirs, isDir : BOOLEAN])
    PROVE  LET t == [s EXCEPT ![1].todo = todo]
           IN  /\ t \in Seq(Frames) /\ Len(t) = Len(s) /\ t # << >>
               /\ t[1].dir = s[1].dir /\ t[1].todo = todo
               /\ \A i \in 1..Len(s) : i # 1 => t[i] = s[i]
<1>1. Len(s) \in Nat /\ Len(s) # 0 /\ DOMAIN s = 1..Len(s) /\ 1 \in 1..Len(s) /\ s[1] \in Frames
  OBVIOUS
<1> DEFINE f == [s[1] EXCEPT !.todo = todo]
           t == [s EXCEPT ![1] = f]
<1>2. f \in Frames /\ f.dir = s[1].dir /\ f.todo = todo
  BY <1>1 DEF Frames
<1> HIDE DEF f
<1>3. t \in Seq(Frames) /\ Len(t) = Len(s)
  BY <1>1, <1>2, ExceptSeq
<1>4. t[1] = f /\ \A i \in 1..Len(s) : i # 1 => t[i] = s[i]
  BY <1>1
<1>5. t # << >>
  BY <1>1, <1>3
<1> HIDE DEF t
<1>6. /\ t \in Seq(Frames) /\ Len(t) = Len(s) /\ t # << >>
      /\ t[1].dir = s[1].dir /\ t[1].todo = todo
      /\ \A i \in 1..Len(s) : i # 1 => t[i] = s[i]
  BY <1>2, <1>3, <1>4, <1>5
<1> QED
  BY <1>6 DEF t, f

LEMMA PopOK ==
    ASSUME NEW s \in Seq(Frames), s # << >>, Len(s) # 1
    PROVE  /\ Tail(s) \in Seq(Frames) /\ Tail(s) # << >> /\ Len(Tail(s)) = Len(s) - 1
           /\ \A i \in 1..(Len(s) - 1) : Tail(s)[i] = s[i + 1]
<1>1. Len(s) \in Nat /\ Len(s) # 0
  OBVIOUS
<1>2. Tail(s) \in Seq(Frames) /\ Len(Tail(s)) = Len(s) - 1
      /\ \A i \in 1..Len(Tail(s)) : Tail(s)[i] = s[i + 1]
  BY HeadTailProperties
<1> DEFINE t == Tail(s)
<1> HIDE DEF t
<1>3. t \in Seq(Frames) /\ Len(t) = Len(s) - 1 /\ \A i \in 1..Len(t) : t[i] = s[i + 1]
  BY <1>2 DEF t
<1>4. Len(t) # 0
  BY <1>1, <1>3
<1>5. t # << >> /\ \A i \in 1..(Len(s) - 1) : t[i] = s[i + 1]
  BY <1>3, <1>4
<1> QED
  BY <1>3, <1>5 DEF t

\* The rest of a list.
LEMMA RestOK ==
    ASSUME NEW S, NEW todo \in Seq(S), todo # << >>
    PROVE  /\ Tail(todo) \in Seq(S) /\ todo[1] \in S
           /\ 1 \in 1..Len(todo)
           /\ Len(Tail(todo)) \in Nat
           /\ \A k \in 1..Len(Tail(todo)) : k + 1 \in 1..Len(todo) /\ Tail(todo)[k] = todo[k + 1]
           /\ \A k \in 1..Len(todo) : k # 1 =>
                  k - 1 \in 1..Len(Tail(todo)) /\ Tail(todo)[k - 1] = todo[k]
<1>1. Len(todo) \in Nat /\ Len(todo) # 0
  OBVIOUS
<1>2. Tail(todo) \in Seq(S) /\ Len(Tail(todo)) = Len(todo) - 1
      /\ \A k \in 1..Len(Tail(todo)) : Tail(todo)[k] = todo[k + 1]
  BY HeadTailProperties
<1> DEFINE r == Tail(todo)
<1>3. 1 \in 1..Len(todo) /\ todo[1] \in S /\ Len(r) \in Nat
  BY <1>1, <1>2
<1> HIDE DEF r
<1>4. \A k \in 1..Len(r) : k + 1 \in 1..Len(todo) /\ r[k] = todo[k + 1]
  BY <1>1, <1>2 DEF r
<1>5. \A k \in 1..Len(todo) : k # 1 => k - 1 \in 1..Len(r) /\ r[k - 1] = todo[k]
  <2>1. \A k \in 1..Len(todo) : k # 1 => k - 1 \in 1..Len(r) /\ k - 1 + 1 = k
    BY <1>1, <1>2 DEF r
  <2> QED
    BY <1>4, <2>1
<1> QED
  BY <1>2, <1>3, <1>4, <1>5 DEF r

LEMMA ChainPush ==
    ASSUME NEW s \in Seq(Frames), s # << >>, NEW root, Chain(s, root),
           NEW f \in Frames, f.todo = << >>, ParentPath(f.dir) = s[1].dir, OnWay(root, f.dir)
    PROVE  Chain(<<f>> \o s, root)
<1> DEFINE t == <<f>> \o s
<1>1. Len(t) = Len(s) + 1 /\ t[1] = f /\ \A i \in 1..Len(s) : t[i + 1] = s[i]
  BY PushOK
<1>2. Len(s) \in Nat /\ Len(s) # 0
  OBVIOUS
<1> HIDE DEF t
<1>3. ASSUME NEW i \in 1..Len(t)
      PROVE  /\ i = Len(t) => t[i].dir = root
             /\ i < Len(t) => ParentPath(t[i].dir) = t[i + 1].dir
             /\ OnWay(root, t[i].dir)
             /\ OwnEntries(t[i])
  <2>1. CASE i = 1
    <3>1. t[i] = f /\ i < Len(t) /\ t[i + 1] = s[1]
      BY <1>1, <1>2, <2>1
    <3>2. OwnEntries(f)
      BY DEF OwnEntries
    <3> QED
      BY <1>1, <1>2, <3>1, <3>2
  <2>2. CASE i # 1
    <3> DEFINE j == i - 1
    <3>1. j \in 1..Len(s) /\ i = j + 1
      BY <1>1, <1>2, <2>2
    <3> HIDE DEF j
    <3>2. t[i] = s[j]
      BY <1>1, <3>1
    <3>3. i < Len(t) => j < Len(s) /\ t[i + 1] = s[j + 1]
      <4>1. i < Len(t) => j + 1 \in 1..Len(s) /\ j < Len(s)
        BY <1>1, <1>2, <3>1
      <4> QED
        BY <1>1, <3>1, <4>1
    <3>4. i = Len(t) => j = Len(s)
      BY <1>1, <1>2, <3>1
    <3> QED
      BY <3>1, <3>2, <3>3, <3>4 DEF Chain
  <2> QED
    BY <2>1, <2>2
<1>4. Chain(t, root)
  BY <1>3 DEF Chain
<1> QED
  BY <1>4 DEF t

LEMMA ChainPop ==
    ASSUME NEW s \in Seq(Frames), s # << >>, Len(s) # 1, NEW root, Chain(s, root)
    PROVE  Chain(Tail(s), root)
<1> DEFINE t == Tail(s)
<1>1. Len(t) = Len(s) - 1 /\ \A i \in 1..(Len(s) - 1) : t[i] = s[i + 1]
  BY PopOK
<1>2. Len(s) \in Nat /\ Len(s) # 0
  OBVIOUS
<1> HIDE DEF t
<1>3. ASSUME NEW i \in 1..Len(t)
      PROVE  /\ i = Len(t) => t[i].dir = root
             /\ i < Len(t) => ParentPath(t[i].dir) = t[i + 1].dir
             /\ OnWay(root, t[i].dir)
             /\ OwnEntries(t[i])
  <2> DEFINE j == i + 1
  <2>1. j \in 1..Len(s) /\ i \in 1..(Len(s) - 1) /\ (i = Len(t) => j = Len(s))
        /\ (i < Len(t) => j < Len(s) /\ i + 1 \in 1..(Len(s) - 1))
    BY <1>1, <1>2
  <2>2. t[i] = s[j] /\ (i < Len(t) => t[i + 1] = s[j + 1])
    BY <1>1, <2>1
  <2> HIDE DEF j
  <2> QED
    BY <2>1, <2>2 DEF Chain
<1>4. Chain(t, root)
  BY <1>3 DEF Chain
<1> QED
  BY <1>4 DEF t

LEMMA ChainTodo ==
    ASSUME NEW s \in Seq(Frames), s # << >>, NEW root, Chain(s, root),
           NEW todo \in Seq([path : Dirs, isDir : BOOLEAN]),
           \A k \in 1..Len(todo) : ChildOf(todo[k].path, s[1].dir)
    PROVE  Chain([s EXCEPT ![1].todo = todo], root)
<1> DEFINE t == [s EXCEPT ![1].todo = todo]
<1>1. /\ Len(t) = Len(s) /\ t[1].dir = s[1].dir /\ t[1].todo = todo
      /\ \A i \in 1..Len(s) : i # 1 => t[i] = s[i]
  BY TodoOK
<1>2. Len(s) \in Nat /\ Len(s) # 0
  OBVIOUS
<1> HIDE DEF t
<1>3. \A i \in 1..Len(s) : t[i].dir = s[i].dir
  BY <1>1
<1>4. \A i \in 1..Len(s) : OwnEntries(t[i])
  <2>1. OwnEntries(t[1])
    BY <1>1 DEF OwnEntries
  <2> QED
    BY <1>1, <2>1 DEF Chain
<1>5. \A i \in 1..Len(s) : i < Len(s) => i + 1 \in 1..Len(s)
  BY <1>2
<1>6. Chain(t, root)
  BY <1>1, <1>3, <1>4, <1>5 DEF Chain
<1> QED
  BY <1>6 DEF t

---------------------------------------------------------------------------
(* What one entry adds to materializeState.                                  *)

\* Of the nodes of an entry, those that FilterTarget lets through are there.
ShownIn(j, s, p, info) ==
    LET nodes == Mapped(j.handler, j.req, p, info)
    IN  \A i \in DOMAIN nodes :
            TargetDecision(j.req.filter, nodes[i]) = "include" =>
                Holds(j.handler.policy, s, nodes[i])

LEMMA MappedOK ==
    ASSUME NEW j \in Jobs, NEW t \in Trees, NEW p \in DOMAIN t,
           Len(j.req.sourceRoot) < Len(p), OnWay(j.req.sourceRoot, p)
    PROVE  \E n \in Nat :
               /\ DOMAIN Mapped(j.handler, j.req, p, t[p]) = 1..n
               /\ \A i \in 1..n : IsNode(Mapped(j.handler, j.req, p, t[p])[i])
<1> DEFINE rels == MappedRels(j.handler, j.req.sourceRoot, Below(p, Len(j.req.sourceRoot)), t[p])
           info == t[p]
           root == j.req.targetRoot
           nodes == [i \in DOMAIN rels |-> NodeFromFileInfo(JoinPath(root, rels[i]), p, info)]
<1>1. p \in Dirs /\ j.req.sourceRoot \in Dirs /\ root \in Seq(STRING)
  BY WalkAssumption DEF Dirs
<1>2. rels \in Seq(Seq(STRING))
  BY <1>1, PrefixIs, MapperAssumption
<1>3. Mapped(j.handler, j.req, p, t[p]) = nodes
  BY DEF Mapped
<1> HIDE DEF rels, info, root
<1>4. Len(rels) \in Nat /\ DOMAIN rels = 1..Len(rels) /\ \A i \in 1..Len(rels) : rels[i] \in Seq(STRING)
  BY <1>2
<1>5. \A i \in 1..Len(rels) : JoinPath(root, rels[i]) \in Dirs
  BY <1>1, <1>4, ConcatProperties DEF JoinPath, Dirs
<1>6. \A i \in 1..Len(rels) : IsNode(nodes[i])
  BY <1>4, <1>5 DEF IsNode, NodeFromFileInfo
<1>7. DOMAIN nodes = 1..Len(rels)
  BY <1>4
<1> HIDE DEF nodes
<1> QED
  BY <1>3, <1>4, <1>6, <1>7

LEMMA VisitEntryOK ==
    ASSUME NEW j \in Jobs, NEW t \in Trees, NEW p \in DOMAIN t,
           Len(j.req.sourceRoot) < Len(p), OnWay(j.req.sourceRoot, p),
           NEW s, OneEach(s)
    PROVE  LET r == VisitEntry(j.handler, j.req, s, p, t[p])
           IN  /\ OneEach(r)
               /\ SuffixesDiffer /\ Numbered(s) =>
                      /\ Numbered(r)
                      /\ r.err = "none" =>
                             /\ Keeps(j.handler.policy, s, r)
                             /\ ~Prunes(IndexDecision(j.req, p, t[p])) => ShownIn(j, r, p, t[p])
<1> DEFINE r == VisitEntry(j.handler, j.req, s, p, t[p])
           d == IndexDecision(j.req, p, t[p])
           nodes == Mapped(j.handler, j.req, p, t[p])
<1>1. CASE d = "error"
  <2>1. r = FailedState("other")
    BY <1>1 DEF VisitEntry, Prunes
  <2> QED
    BY <2>1, StartsEmpty
<1>2. CASE d # "error" /\ Prunes(d)
  <2>1. r = s
    BY <1>2 DEF VisitEntry
  <2>2. Keeps(j.handler.policy, s, s)
    BY DEF Keeps
  <2> QED
    BY <1>2, <2>1, <2>2
<1>3. CASE d # "error" /\ ~Prunes(d)
  <2>1. r = AddVisible(j.handler, j.req.filter, s, nodes)
    BY <1>3 DEF VisitEntry
  <2>2. PICK n \in Nat : DOMAIN nodes = 1..n /\ \A i \in 1..n : IsNode(nodes[i])
    BY MappedOK
  <2> HIDE DEF r
  <2>3. /\ OneEach(r)
        /\ SuffixesDiffer /\ Numbered(s) =>
               /\ Numbered(r)
               /\ r.err = "none" =>
                      /\ Keeps(j.handler.policy, s, r)
                      /\ \A i \in 1..n : TargetDecision(j.req.filter, nodes[i]) = "include" =>
                             Holds(j.handler.policy, r, nodes[i])
    <3> HIDE DEF nodes
    <3> QED
      BY <2>1, <2>2, AddVisibleOK
  <2>4. (\A i \in 1..n : TargetDecision(j.req.filter, nodes[i]) = "include" =>
             Holds(j.handler.policy, r, nodes[i])) => ShownIn(j, r, p, t[p])
    BY <2>2 DEF ShownIn
  <2> QED
    BY <2>3, <2>4 DEF r
<1> QED
  BY <1>1, <1>2, <1>3

---------------------------------------------------------------------------
(* The invariant holds.                                                      *)

LEMMA StackInit == WalkInit => StackInv
<1> SUFFICES ASSUME WalkInit PROVE StackInv
  OBVIOUS
<1>1. stack = << >> /\ stack \in Seq(Frames) /\ Len(stack) = 0
  BY DEF WalkInit
<1>2. Chain(stack, job.req.sourceRoot)
  BY <1>1 DEF Chain
<1>3. OneEach(out)
  BY StartsEmpty DEF WalkInit
<1>4. changes \in 0..MaxChanges
  BY WalkAssumption DEF WalkInit
<1> QED
  BY <1>1, <1>2, <1>3, <1>4 DEF WalkInit, StackInv

\* A walk that ends.
LEMMA EndsOK ==
    ASSUME StackInv, NEW result, OneEach(result), Ends(result)
    PROVE  StackInv'
<1>1. stack' = << >> /\ stack' \in Seq(Frames) /\ Len(stack') = 0
  BY DEF Ends
<1>2. Chain(stack', job'.req.sourceRoot)
  BY <1>1 DEF Chain
<1> QED
  BY <1>1, <1>2 DEF Ends, StackInv, EntriesOf

LEMMA HeadEntry ==
    ASSUME StackInv, Visiting
    PROVE  /\ stack \in Seq(Frames) /\ stack # << >> /\ 1 \in 1..Len(stack)
           /\ stack[1].dir \in Dirs
           /\ stack[1].todo \in Seq([path : Dirs, isDir : BOOLEAN]) /\ stack[1].todo # << >>
           /\ Next1 \in [path : Dirs, isDir : BOOLEAN]
           /\ Next1 = stack[1].todo[1] /\ 1 \in 1..Len(stack[1].todo)
           /\ job.req.sourceRoot \in Dirs
           /\ OnWay(job.req.sourceRoot, stack[1].dir)
           /\ OnWay(job.req.sourceRoot, Next1.path)
           /\ Len(job.req.sourceRoot) < Len(Next1.path)
           /\ ChildOf(Next1.path, stack[1].dir)
<1>1. stack \in Seq(Frames) /\ stack # << >>
  BY DEF StackInv, Visiting
<1>2. 1 \in 1..Len(stack) /\ stack[1] \in Frames
  BY <1>1
<1>3. stack[1].dir \in Dirs /\ stack[1].todo \in Seq([path : Dirs, isDir : BOOLEAN])
  BY <1>2 DEF Frames
<1>4. stack[1].todo # << >> /\ Next1 = stack[1].todo[1]
  BY DEF Visiting, Next1
<1>5. 1 \in 1..Len(stack[1].todo) /\ Next1 \in [path : Dirs, isDir : BOOLEAN]
  BY <1>3, <1>4, RestOK
<1>6. job.req.sourceRoot \in Dirs
  BY WalkAssumption DEF StackInv, Dirs
<1>7. OnWay(job.req.sourceRoot, stack[1].dir) /\ ChildOf(Next1.path, stack[1].dir)
  BY <1>2, <1>4, <1>5 DEF StackInv, Chain, OwnEntries
<1>8. Len(Next1.path) = Len(stack[1].dir) + 1 /\ OnWay(stack[1].dir, Next1.path)
  BY <1>3, <1>5, <1>7, ChildIs
<1>9. OnWay(job.req.sourceRoot, Next1.path)
  BY <1>3, <1>5, <1>6, <1>7, <1>8, OnWayTrans
<1>10. Len(job.req.sourceRoot) < Len(Next1.path)
  <2>1. Len(job.req.sourceRoot) \in Nat /\ Len(stack[1].dir) \in Nat
        /\ Len(job.req.sourceRoot) <= Len(stack[1].dir)
    BY <1>3, <1>6, <1>7, OnWayIs
  <2> QED
    BY <1>8, <2>1
<1> QED
  BY <1>1, <1>2, <1>3, <1>4, <1>5, <1>6, <1>7, <1>9, <1>10

\* The rest of the innermost directory.
LEMMA RestInv ==
    ASSUME StackInv, Visiting
    PROVE  /\ Rest \in Seq(Frames) /\ Rest # << >> /\ Len(Rest) = Len(stack)
           /\ Rest[1].dir = stack[1].dir /\ Rest[1].todo = Tail(stack[1].todo)
           /\ \A i \in 1..Len(stack) : i # 1 => Rest[i] = stack[i]
           /\ Chain(Rest, job.req.sourceRoot)
<1> DEFINE todo == Tail(stack[1].todo)
<1>1. /\ stack \in Seq(Frames) /\ stack # << >> /\ 1 \in 1..Len(stack)
      /\ stack[1].todo \in Seq([path : Dirs, isDir : BOOLEAN]) /\ stack[1].todo # << >>
  BY HeadEntry
<1>2. /\ todo \in Seq([path : Dirs, isDir : BOOLEAN])
      /\ \A k \in 1..Len(todo) : k + 1 \in 1..Len(stack[1].todo) /\ todo[k] = stack[1].todo[k + 1]
  BY <1>1, RestOK
<1>3. Rest = [stack EXCEPT ![1].todo = todo]
  BY DEF Rest
<1> HIDE DEF todo
<1>4. Chain(stack, job.req.sourceRoot)
  BY DEF StackInv
<1>5. \A k \in 1..Len(todo) : ChildOf(todo[k].path, stack[1].dir)
  BY <1>1, <1>2, <1>4 DEF Chain, OwnEntries
<1>6. Chain(Rest, job.req.sourceRoot)
  BY <1>1, <1>2, <1>3, <1>4, <1>5, ChainTodo
<1>7. /\ Rest \in Seq(Frames) /\ Rest # << >> /\ Len(Rest) = Len(stack)
      /\ Rest[1].dir = stack[1].dir /\ Rest[1].todo = todo
      /\ \A i \in 1..Len(stack) : i # 1 => Rest[i] = stack[i]
  <2> DEFINE t == [stack EXCEPT ![1].todo = todo]
  <2>1. /\ t \in Seq(Frames) /\ Len(t) = Len(stack) /\ t # << >>
        /\ t[1].dir = stack[1].dir /\ t[1].todo = todo
        /\ \A i \in 1..Len(stack) : i # 1 => t[i] = stack[i]
    BY <1>1, <1>2, TodoOK
  <2>2. Rest = t
    BY <1>3
  <2> HIDE DEF t
  <2> QED
    BY <2>1, <2>2
<1> QED
  BY <1>6, <1>7 DEF todo

\* A step that goes on with frames of its own.
LEMMA FramesOK ==
    ASSUME StackInv, NEW frames \in Seq(Frames), frames # << >>,
           Chain(frames, job.req.sourceRoot),
           NEW s \in {"read", "visit"}, s = "read" => frames[1].todo = << >>,
           NEW o, OneEach(o), o.err = "none",
           step' = s, stack' = frames, out' = o, UNCHANGED <<tree, job, changes, lasting>>
    PROVE  StackInv'
  BY DEF StackInv, EntriesOf

LEMMA DeeperOK ==
    ASSUME StackInv, Visiting, NEW d
    PROVE  LET onward == Deeper(Next1, d)
           IN  /\ onward.stack \in Seq(Frames) /\ onward.stack # << >>
               /\ Chain(onward.stack, job.req.sourceRoot)
               /\ onward.step \in {"read", "visit"}
               /\ onward.step = "read" => onward.stack[1].todo = << >>
<1> DEFINE onward == Deeper(Next1, d)
           f == [dir |-> Next1.path, todo |-> << >>]
           down == <<f>> \o Rest
<1>1. /\ Rest \in Seq(Frames) /\ Rest # << >> /\ Rest[1].dir = stack[1].dir
      /\ Chain(Rest, job.req.sourceRoot)
  BY RestInv
<1>2. /\ f \in Frames /\ f.todo = << >> /\ ParentPath(f.dir) = stack[1].dir
      /\ OnWay(job.req.sourceRoot, f.dir)
  BY HeadEntry DEF Frames, ChildOf
<1> HIDE DEF f
<1>3. down \in Seq(Frames) /\ down # << >> /\ down[1] = f
  BY <1>1, <1>2, PushOK
<1>4. Chain(down, job.req.sourceRoot)
  BY <1>1, <1>2, ChainPush
<1>5. \/ onward = [step |-> "read", stack |-> down]
      \/ onward = [step |-> "visit", stack |-> Rest]
  <2> HIDE DEF down
  <2> QED
    BY DEF Deeper, down, f
<1> HIDE DEF onward, down
<1>6. CASE onward = [step |-> "read", stack |-> down]
  BY <1>2, <1>3, <1>4, <1>6 DEF onward
<1>7. CASE onward = [step |-> "visit", stack |-> Rest]
  BY <1>1, <1>7 DEF onward
<1> QED
  BY <1>5, <1>6, <1>7

\* What ReadDir of the innermost directory gives.
LEMMA ListedOK ==
    ASSUME StackInv, step = "read", IsDir(tree, stack[1].dir)
    PROVE  LET dir == stack[1].dir
           IN  /\ Listed(dir) \in Seq([path : Dirs, isDir : BOOLEAN])
               /\ \A k \in 1..Len(Listed(dir)) : ChildOf(Listed(dir)[k].path, dir)
               /\ \A p \in Listing(tree, dir) : \E k \in 1..Len(Listed(dir)) :
                      Listed(dir)[k] = [path |-> p, isDir |-> IsDir(tree, p)]
               /\ \A k \in 1..Len(Listed(dir)) :
                      Listed(dir)[k].isDir = IsDir(tree, Listed(dir)[k].path)
               /\ \A k \in 1..Len(Listed(dir)) : Listed(dir)[k].path \in DOMAIN tree
               /\ \A k, l \in 1..Len(Listed(dir)) :
                      k < l => WalkedBefore(Listed(dir)[k].path, Listed(dir)[l].path)
<1> DEFINE dir == stack[1].dir
           paths == Listing(tree, dir)
           n == Cardinality(paths)
           entries == [i \in 1..n |-> [path |-> InOrder(paths)[i],
                                       isDir |-> IsDir(tree, InOrder(paths)[i])]]
<1>1. tree \in Trees /\ dir \in DOMAIN tree /\ DOMAIN tree \subseteq Dirs
  BY WalkAssumption DEF StackInv, IsDir, Exists, Dirs
<1>2. /\ n \in Nat
      /\ InOrder(paths) \in [1..n -> paths]
      /\ \A p \in paths : \E i \in 1..n : InOrder(paths)[i] = p
      /\ \A i, j \in 1..n : WalkedBefore(InOrder(paths)[i], InOrder(paths)[j]) <=> i < j
  BY <1>1, ListingInOrder
<1>3. Listed(dir) = entries
  <2>1. DOMAIN InOrder(paths) = 1..n
    BY <1>2
  <2> QED
    BY <2>1 DEF Listed
<1>4. \A p \in paths :
          p \in Dirs /\ ChildOf(p, dir) /\ IsDir(tree, p) \in BOOLEAN /\ p \in DOMAIN tree
  BY <1>1 DEF Listing, IsDir, Exists
<1> HIDE DEF paths, n
<1>5. \A i \in 1..n : entries[i] \in [path : Dirs, isDir : BOOLEAN] /\ ChildOf(entries[i].path, dir)
  BY <1>2, <1>4
<1>6. entries \in Seq([path : Dirs, isDir : BOOLEAN]) /\ Len(entries) = n
  <2>1. entries \in [1..n -> [path : Dirs, isDir : BOOLEAN]]
    BY <1>5
  <2> HIDE DEF entries
  <2> DEFINE E == [path : Dirs, isDir : BOOLEAN]
  <2> HIDE DEF E
  <2>2. entries \in [1..n -> E]
    BY <2>1 DEF E
  <2>3. entries \in Seq(E)
    BY <1>2, <2>2, SeqDef
  <2>4. Len(entries) = n
    BY <1>2, <2>2, <2>3
  <2> QED
    BY <2>3, <2>4 DEF E
<1>7. \A p \in paths : \E i \in 1..n : entries[i] = [path |-> p, isDir |-> IsDir(tree, p)]
  BY <1>2
<1>8. /\ \A i \in 1..n : entries[i].isDir = IsDir(tree, entries[i].path)
      /\ \A i \in 1..n : entries[i].path \in DOMAIN tree
      /\ \A i, j \in 1..n : i < j => WalkedBefore(entries[i].path, entries[j].path)
  <2>1. \A i \in 1..n : entries[i].path = InOrder(paths)[i] /\ entries[i].isDir = IsDir(tree, InOrder(paths)[i])
    OBVIOUS
  <2> HIDE DEF entries
  <2> QED
    BY <1>2, <1>4, <1>5, <2>1
<1> HIDE DEF entries
<1> QED
  BY <1>3, <1>5, <1>6, <1>7, <1>8 DEF paths

LEMMA StackNext == StackInv /\ [WalkNext]_walkVars => StackInv'
<1> SUFFICES ASSUME StackInv, [WalkNext]_walkVars PROVE StackInv'
  OBVIOUS
<1>1. ASSUME NEW j \in Jobs, Start(j) PROVE StackInv'
  <2>1. stack' = << >> /\ stack \in Seq(Frames) /\ Len(stack') = 0
    BY <1>1 DEF Start, StackInv
  <2>2. Chain(stack', job'.req.sourceRoot)
    BY <2>1 DEF Chain
  <2>3. OneEach(out') /\ out'.err = "none"
    BY <1>1, StartsEmpty DEF Start
  <2>4. changes' \in 0..MaxChanges
    BY <1>1, WalkAssumption DEF Start
  <2> QED
    BY <1>1, <2>1, <2>2, <2>3, <2>4 DEF Start, StackInv
<1>2. CASE StatRoot
  <2>1. ASSUME NEW e, Ends(FailedState(e)) PROVE StackInv'
    BY <2>1, StartsEmpty, EndsOK
  <2>2. CASE ~(\E e : Ends(FailedState(e)))
    <3> DEFINE root == job.req.sourceRoot
               f == [dir |-> root, todo |-> << >>]
    <3>1. step' = "read" /\ stack' = Enter(root) /\ out' = out
          /\ UNCHANGED <<tree, job, changes, lasting>> /\ step = "stat"
      BY <1>2, <2>2 DEF StatRoot
    <3>2. stack = << >>
      BY <3>1 DEF StackInv
    <3>3. stack' = <<f>>
      BY <3>1, <3>2 DEF Enter
    <3>4. root \in Dirs /\ f \in Frames
      BY WalkAssumption DEF StackInv, Dirs, Frames
    <3>5. OnWay(root, root)
      BY <3>4, OnWayIs
    <3> HIDE DEF root
    <3>6. Chain(<<f>>, root)
      <4>1. Len(<<f>>) = 1 /\ <<f>>[1] = f /\ f.dir = root /\ f.todo = << >>
        OBVIOUS
      <4>2. OwnEntries(f)
        BY DEF OwnEntries
      <4> HIDE DEF f
      <4> QED
        BY <3>5, <4>1, <4>2 DEF Chain
    <3>7. <<f>> \in Seq(Frames) /\ <<f>> # << >> /\ <<f>>[1].todo = << >>
      BY <3>4
    <3>8. OneEach(out')
      BY <3>1 DEF StackInv
    <3>9. out'.err = "none"
      BY <3>1 DEF StackInv
    <3> HIDE DEF f
    <3> QED
      BY <3>1, <3>3, <3>6, <3>7, <3>8, <3>9 DEF StackInv, EntriesOf, root
  <2> QED
    BY <2>1, <2>2
<1>3. CASE ReadDirectory
  <2>1. ASSUME NEW e, Ends(FailedState(e)) PROVE StackInv'
    BY <2>1, StartsEmpty, EndsOK
  <2>2. CASE ~(\E e : Ends(FailedState(e)))
    <3> DEFINE todo == Listed(stack[1].dir)
    <3>1. step = "read" /\ IsDir(tree, stack[1].dir) /\ step' = "visit" /\ out' = out
          /\ stack' = [stack EXCEPT ![1].todo = todo]
          /\ UNCHANGED <<tree, job, changes, lasting>>
      BY <1>3, <2>2 DEF ReadDirectory
    <3>2. todo \in Seq([path : Dirs, isDir : BOOLEAN])
          /\ \A k \in 1..Len(todo) : ChildOf(todo[k].path, stack[1].dir)
      BY <3>1, ListedOK
    <3> HIDE DEF todo
    <3>3. stack \in Seq(Frames) /\ stack # << >> /\ Chain(stack, job.req.sourceRoot)
          /\ OneEach(out) /\ out.err = "none"
      BY <3>1 DEF StackInv
    <3> DEFINE t == [stack EXCEPT ![1].todo = todo]
    <3>4. t \in Seq(Frames) /\ t # << >>
      BY <3>2, <3>3, TodoOK
    <3>5. Chain(t, job.req.sourceRoot)
      BY <3>2, <3>3, ChainTodo
    <3>6. stack' = t
      BY <3>1
    <3> HIDE DEF t
    <3> QED
      BY <3>1, <3>3, <3>4, <3>5, <3>6, FramesOK
  <2> QED
    BY <2>1, <2>2
<1>4. CASE SkipDeep
  <2>1. Visiting /\ step = "visit" /\ step' = "visit" /\ stack' = Rest /\ out' = out
        /\ UNCHANGED <<tree, job, changes, lasting>>
    BY <1>4 DEF SkipDeep, Visiting
  <2>2. OneEach(out) /\ out.err = "none"
    BY <2>1 DEF StackInv
  <2>3. Rest \in Seq(Frames) /\ Rest # << >> /\ Chain(Rest, job.req.sourceRoot)
    BY <2>1, RestInv
  <2> QED
    BY <2>1, <2>2, <2>3, FramesOK
<1>5. CASE EntryGone
  BY <1>5, StartsEmpty, EndsOK DEF EntryGone
<1>6. CASE Visit
  <2> DEFINE info == tree[Next1.path]
             result == VisitEntry(job.handler, job.req, out, Next1.path, info)
             onward == Deeper(Next1, IndexDecision(job.req, Next1.path, info))
  <2>1. Visiting /\ Next1.path \in DOMAIN tree
        /\ \/ Ends(result)
           \/ /\ result.err = "none" /\ out' = result
              /\ step' = onward.step /\ stack' = onward.stack
              /\ UNCHANGED <<tree, job, changes, lasting>>
    BY <1>6 DEF Visit, Exists
  <2>2. OneEach(result)
    <3>1. job \in Jobs /\ tree \in Trees /\ OneEach(out)
      BY DEF StackInv
    <3>2. Len(job.req.sourceRoot) < Len(Next1.path) /\ OnWay(job.req.sourceRoot, Next1.path)
      BY <2>1, HeadEntry
    <3> QED
      BY <2>1, <3>1, <3>2, VisitEntryOK
  <2>3. /\ onward.stack \in Seq(Frames) /\ onward.stack # << >>
        /\ Chain(onward.stack, job.req.sourceRoot)
        /\ onward.step \in {"read", "visit"}
        /\ onward.step = "read" => onward.stack[1].todo = << >>
    BY <2>1, DeeperOK
  <2> HIDE DEF result, onward
  <2> QED
    BY <2>1, <2>2, <2>3, EndsOK, FramesOK
<1>7. CASE Leave
  <2>1. CASE Ends(out)
    BY <2>1, EndsOK DEF StackInv
  <2>2. CASE ~Ends(out)
    <3>1. Len(stack) # 1 /\ stack' = Tail(stack) /\ step = "visit" /\ step' = "visit"
          /\ out' = out /\ UNCHANGED <<tree, job, changes, lasting>>
      BY <1>7, <2>2 DEF Leave
    <3>2. stack \in Seq(Frames) /\ stack # << >> /\ Chain(stack, job.req.sourceRoot)
          /\ OneEach(out) /\ out.err = "none"
      BY <3>1 DEF StackInv
    <3>3. Tail(stack) \in Seq(Frames) /\ Tail(stack) # << >>
      BY <3>1, <3>2, PopOK
    <3>4. Chain(Tail(stack), job.req.sourceRoot)
      BY <3>1, <3>2, ChainPop
    <3> QED
      BY <3>1, <3>2, <3>3, <3>4, FramesOK
  <2> QED
    BY <2>1, <2>2
<1>8. ASSUME NEW t \in Trees, SourceChanges(t) PROVE StackInv'
  <2>1. /\ tree' = t /\ changes' = changes + 1 /\ changes < MaxChanges
        /\ lasting' = lasting \cap EntriesOf(t)
        /\ UNCHANGED <<job, step, stack, out>>
    BY <1>8 DEF SourceChanges
  <2>2. lasting' \subseteq EntriesOf(tree')
    BY <2>1
  <2>3. changes' \in 0..MaxChanges
    BY <2>1, WalkAssumption DEF StackInv
  <2> QED
    BY <1>8, <2>1, <2>2, <2>3 DEF StackInv
<1>9. CASE UNCHANGED walkVars
  BY <1>9 DEF walkVars, StackInv, EntriesOf
<1> QED
  BY <1>1, <1>2, <1>3, <1>4, <1>5, <1>6, <1>7, <1>8, <1>9 DEF WalkNext, Walks

(* The type invariant, and with it that the stack is the chain of            *)
(* directories down to the one the walk is in, and that no two nodes have    *)
(* one target path, whatever the source does meanwhile.                      *)
THEOREM WalkTyped == WalkSpec => []WalkTypeOK
<1>1. WalkSpec => []StackInv
  <2>1. StackInv /\ [WalkNext]_walkVars => StackInv'
    BY StackNext
  <2> QED
    BY <2>1, StackInit, PTL DEF WalkSpec
<1> QED
  BY <1>1, StackInvTypes, PTL

---------------------------------------------------------------------------
(* The rename policy.                                                        *)

\* A walk changes its nodes only by what an entry adds.
LEMMA OutStep ==
    ASSUME StackInv, Walks
    PROVE  \/ out' = out
           \/ \E e : out' = FailedState(e) /\ e # "none"
           \/ /\ Visiting /\ Next1.path \in DOMAIN tree
              /\ out' = VisitEntry(job.handler, job.req, out, Next1.path, tree[Next1.path])
<1>1. CASE StatRoot
  BY <1>1 DEF StatRoot, Ends
<1>2. CASE ReadDirectory
  BY <1>2 DEF ReadDirectory, Ends
<1>3. CASE SkipDeep
  BY <1>3 DEF SkipDeep
<1>4. CASE EntryGone
  BY <1>4 DEF EntryGone, Ends
<1>5. CASE Visit
  BY <1>5 DEF Visit, Ends, Exists
<1>6. CASE Leave
  BY <1>6 DEF Leave, Ends
<1> QED
  BY <1>1, <1>2, <1>3, <1>4, <1>5, <1>6 DEF Walks

LEMMA WalksKeep ==
    ASSUME SuffixesDiffer, StackInv, Numbered(out), Walks
    PROVE  /\ Numbered(out')
           /\ out'.err = "none" => Keeps(job.handler.policy, out, out')
<1>1. CASE out' = out
  BY <1>1 DEF Keeps
<1>2. CASE \E e : out' = FailedState(e) /\ e # "none"
  BY <1>2, StartsEmpty
<1>3. CASE /\ Visiting /\ Next1.path \in DOMAIN tree
           /\ out' = VisitEntry(job.handler, job.req, out, Next1.path, tree[Next1.path])
  <2>1. job \in Jobs /\ tree \in Trees /\ OneEach(out)
    BY DEF StackInv
  <2>2. Len(job.req.sourceRoot) < Len(Next1.path) /\ OnWay(job.req.sourceRoot, Next1.path)
    BY <1>3, HeadEntry
  <2> QED
    BY <1>3, <2>1, <2>2, VisitEntryOK
<1> QED
  BY <1>1, <1>2, <1>3, OutStep

LEMMA NumberedNext ==
    SuffixesDiffer /\ StackInv /\ Numbered(out) /\ [WalkNext]_walkVars => Numbered(out')
<1> SUFFICES ASSUME SuffixesDiffer, StackInv, Numbered(out), [WalkNext]_walkVars
             PROVE  Numbered(out')
  OBVIOUS
<1>1. CASE Walks
  BY <1>1, WalksKeep
<1>2. ASSUME NEW j \in Jobs, Start(j) PROVE Numbered(out')
  BY <1>2, StartsEmpty DEF Start
<1>3. ASSUME NEW t \in Trees, SourceChanges(t) PROVE Numbered(out')
  BY <1>3 DEF SourceChanges
<1>4. CASE UNCHANGED walkVars
  BY <1>4 DEF walkVars
<1> QED
  BY <1>1, <1>2, <1>3, <1>4 DEF WalkNext

CountInv == StackInv /\ Numbered(out)

LEMMA CountInvHolds ==
    ASSUME SuffixesDiffer
    PROVE  WalkSpec => []CountInv
<1>1. WalkInit => CountInv
  <2>1. WalkInit => Numbered(out)
    BY StartsEmpty DEF WalkInit
  <2> QED
    BY <2>1, StackInit DEF CountInv
<1>2. CountInv /\ [WalkNext]_walkVars => CountInv'
  <2>1. Numbered(out)' <=> Numbered(out')
    BY DEF Numbered
  <2> QED
    BY <2>1, StackNext, NumberedNext DEF CountInv
<1> QED
  BY <1>1, <1>2, PTL DEF WalkSpec

(* Under the rename policy no node that has been placed is given up or       *)
(* renamed by a later one, as long as different numbers make different       *)
(* names: among the names that uniqueTargetPath tries there is always one    *)
(* that is free.                                                             *)
THEOREM RenamedNodesStay == SuffixesDiffer => (WalkSpec => RenamedStays)
<1> SUFFICES ASSUME SuffixesDiffer PROVE WalkSpec => RenamedStays
  OBVIOUS
<1>1. CountInv /\ [WalkNext]_walkVars =>
          [Walks /\ job.handler.policy = "rename" /\ out'.err = "none" =>
               out.nodes \subseteq out'.nodes]_walkVars
  BY WalksKeep DEF CountInv, Keeps
<1>2. WalkSpec => []CountInv
  BY CountInvHolds
<1> QED
  BY <1>1, <1>2, PTL DEF WalkSpec, RenamedStays

---------------------------------------------------------------------------
(* Nothing that is there all the time is missed. The inductive invariant:    *)
(* while the walk is on its way, every such entry is either shown by now, or *)
(* the directory about to be read is above it, or it or a directory above it *)
(* is still to be done in some frame of the stack.                           *)

\* SteadilyReached, with the decision of each directory on the way by its entry.
Reached(p) ==
    /\ Len(job.req.sourceRoot) < Len(p)
    /\ OnWay(job.req.sourceRoot, p)
    /\ ~TooDeep(job.handler, job.req, p)
    /\ \A n \in Len(job.req.sourceRoot)..Len(p) :
           \E e \in lasting :
               /\ e[1] = SubSeq(p, 1, n)
               /\ n > Len(job.req.sourceRoot) => ~Prunes(IndexDecision(job.req, e[1], e[2]))

Covers(entry, p) == entry.path = p \/ (entry.isDir /\ OnWay(entry.path, p))

LeftIn(frame, p) == \E k \in 1..Len(frame.todo) : Covers(frame.todo[k], p)

\* The walk that is at `at` with these frames has still to come to p.
StillToCome(frames, at, p) ==
    \/ at = "read" /\ OnWay(frames[1].dir, p) /\ frames[1].dir # p
    \/ \E i \in 1..Len(frames) : LeftIn(frames[i], p)

SteadyInv ==
    /\ step \in {"read", "visit"} =>
           \A e \in lasting : Reached(e[1]) =>
               StillToCome(stack, step, e[1]) \/ ShownIn(job, out, e[1], e[2])
    /\ step = "done" /\ out.err = "none" =>
           \A e \in lasting : Reached(e[1]) => ShownIn(job, out, e[1], e[2])

\* The entries that are there all the time are there now, each with one info.
LEMMA LastingIs ==
    ASSUME StackInv
    PROVE  \A e \in lasting : /\ e[1] \in DOMAIN tree /\ e[1] \in Dirs
                              /\ e = <<e[1], tree[e[1]]>> /\ e[2] = tree[e[1]]
<1>1. lasting \subseteq {<<p, tree[p]>> : p \in DOMAIN tree}
  BY DEF StackInv, EntriesOf
<1>2. DOMAIN tree \subseteq Dirs
  BY WalkAssumption DEF StackInv, Dirs
<1> QED
  BY <1>1, <1>2

\* Every directory on the way to p, and p, is there now and was not pruned.
LEMMA OnTheWay ==
    ASSUME StackInv, NEW p \in Dirs, Reached(p), NEW n \in Nat,
           Len(job.req.sourceRoot) < n, n <= Len(p)
    PROVE  LET q == SubSeq(p, 1, n)
           IN  /\ q \in DOMAIN tree /\ q \in Dirs /\ Len(q) = n /\ OnWay(q, p)
               /\ ~Prunes(IndexDecision(job.req, q, tree[q]))
               /\ n < Len(p) => IsDir(tree, q)
<1> DEFINE q == SubSeq(p, 1, n)
           root == job.req.sourceRoot
<1>1. root \in Dirs /\ Len(root) \in Nat /\ Len(p) \in Nat
  BY WalkAssumption DEF StackInv, Dirs
<1>2. q \in Dirs /\ Len(q) = n /\ OnWay(q, p)
  BY BeginsIs
<1>3. n \in Len(root)..Len(p) /\ n > Len(root)
  BY <1>1
<1>4. PICK e \in lasting : e[1] = q /\ ~Prunes(IndexDecision(job.req, e[1], e[2]))
  <2> HIDE DEF root
  <2> QED
    BY <1>3 DEF Reached, root
<1>5. q \in DOMAIN tree /\ ~Prunes(IndexDecision(job.req, q, tree[q]))
  <2> HIDE DEF q
  <2> QED
    BY <1>4, LastingIs
<1>6. ASSUME n < Len(p) PROVE IsDir(tree, q)
  <2> DEFINE r == SubSeq(p, 1, n + 1)
  <2>1. n + 1 \in Nat /\ n + 1 <= Len(p) /\ n + 1 \in Len(root)..Len(p)
    BY <1>1, <1>6
  <2>2. r \in Dirs /\ Len(r) = n + 1 /\ OnWay(r, p)
    BY <2>1, BeginsIs
  <2> HIDE DEF q
  <2>3. \E x \in lasting : x[1] = r
    BY <2>1 DEF Reached
  <2> HIDE DEF r
  <2>4. r \in DOMAIN tree
    BY <2>3, LastingIs
  <2>5. OnWay(q, r)
    BY <1>1, <1>2, <1>6, <2>2, OnWayIs
  <2>6. ChildOf(r, q)
    BY <1>2, <2>2, <2>5, ChildIs
  <2>7. IsDir(tree, ParentPath(r))
    BY <2>4, WalkAssumption DEF StackInv, WellFormed
  <2> QED
    BY <2>6, <2>7 DEF ChildOf
<1> QED
  BY <1>2, <1>5, <1>6

LEMMA ReachedStays ==
    ASSUME job' = job, lasting' \subseteq lasting, NEW p, Reached(p)'
    PROVE  Reached(p)
<1>1. /\ Len(job.req.sourceRoot) < Len(p)
      /\ OnWay(job.req.sourceRoot, p)
      /\ ~TooDeep(job.handler, job.req, p)
      /\ \A n \in Len(job.req.sourceRoot)..Len(p) :
             \E e \in lasting' :
                 /\ e[1] = SubSeq(p, 1, n)
                 /\ n > Len(job.req.sourceRoot) => ~Prunes(IndexDecision(job.req, e[1], e[2]))
  BY DEF Reached
<1> QED
  BY <1>1 DEF Reached

LEMMA ShownStays ==
    ASSUME NEW j, NEW s, NEW t, Keeps(j.handler.policy, s, t), NEW p, NEW info,
           ShownIn(j, s, p, info)
    PROVE  ShownIn(j, t, p, info)
BY HoldsStays DEF ShownIn

\* It is enough that what the walk had still to come to, it still has, or has shown now.
LEMMA GoesOn ==
    ASSUME StackInv, SteadyInv, step \in {"read", "visit"}, UNCHANGED <<tree, job, lasting>>,
           NEW s \in {"read", "visit"}, NEW frames, NEW o,
           step' = s, stack' = frames, out' = o, Keeps(job.handler.policy, out, o),
           \A p \in Dirs : p \in DOMAIN tree /\ Reached(p) /\ StillToCome(stack, step, p) =>
               StillToCome(frames, s, p) \/ ShownIn(job, o, p, tree[p])
    PROVE  SteadyInv'
<1>1. ASSUME NEW e \in lasting, Reached(e[1])'
      PROVE  StillToCome(frames, s, e[1]) \/ ShownIn(job, o, e[1], e[2])
  <2>1. e[1] \in DOMAIN tree /\ e[1] \in Dirs /\ e[2] = tree[e[1]]
    BY LastingIs
  <2>2. Reached(e[1])
    BY <1>1, ReachedStays
  <2>3. StillToCome(stack, step, e[1]) \/ ShownIn(job, out, e[1], e[2])
    BY <2>2 DEF SteadyInv
  <2>4. ShownIn(job, out, e[1], e[2]) => ShownIn(job, o, e[1], e[2])
    BY ShownStays
  <2> QED
    BY <2>1, <2>2, <2>3, <2>4
<1> QED
  BY <1>1 DEF SteadyInv

LEMMA EndsInError ==
    ASSUME NEW result, result.err # "none", Ends(result)
    PROVE  SteadyInv'
BY DEF Ends, SteadyInv

LEMMA SteadyStat ==
    ASSUME StackInv, StatRoot
    PROVE  SteadyInv'
<1>1. ASSUME NEW e, e # "none", Ends(FailedState(e)) PROVE SteadyInv'
  BY <1>1, StartsEmpty, EndsInError
<1>2. CASE ~(\E e : e # "none" /\ Ends(FailedState(e)))
  <2> DEFINE root == job.req.sourceRoot
             f == [dir |-> root, todo |-> << >>]
  <2>1. step' = "read" /\ stack' = Enter(root) /\ UNCHANGED <<tree, job, lasting>> /\ step = "stat"
    BY <1>2 DEF StatRoot
  <2>2. stack = << >>
    BY <2>1 DEF StackInv
  <2>3. stack' = <<f>> /\ stack'[1].dir = root
    BY <2>1, <2>2 DEF Enter
  <2>4. ASSUME NEW e \in lasting, Reached(e[1])'
        PROVE  StillToCome(stack', step', e[1])
    <3>1. Reached(e[1])
      BY <2>1, <2>4, ReachedStays
    <3>2. OnWay(root, e[1]) /\ Len(root) < Len(e[1])
      BY <3>1 DEF Reached
    <3>3. root \in Dirs
      BY WalkAssumption DEF StackInv, Dirs
    <3>4. Len(root) \in Nat
      BY <3>3 DEF Dirs
    <3>5. root # e[1]
      BY <3>2, <3>4
    <3> HIDE DEF root
    <3> QED
      BY <2>1, <2>3, <3>2, <3>5 DEF StillToCome
  <2> QED
    BY <2>1, <2>4 DEF SteadyInv
<1> QED
  BY <1>1, <1>2

(* Once the directory is read, the walk has still to come to what is in it   *)
(* by the entry that is it or is above it.                                   *)
LEMMA ReadComesTo ==
    ASSUME StackInv, step = "read", IsDir(tree, stack[1].dir),
           NEW p \in Dirs, StillToCome(stack, step, p),
           \A q \in Dirs : OnWay(q, p) /\ Len(job.req.sourceRoot) < Len(q) =>
               q \in DOMAIN tree /\ (Len(q) < Len(p) => IsDir(tree, q))
    PROVE  StillToCome([stack EXCEPT ![1].todo = Listed(stack[1].dir)], "visit", p)
<1> DEFINE dir == stack[1].dir
           todo == Listed(dir)
           t == [stack EXCEPT ![1].todo = todo]
           root == job.req.sourceRoot
<1>1. /\ todo \in Seq([path : Dirs, isDir : BOOLEAN])
      /\ \A q \in Listing(tree, dir) : \E k \in 1..Len(todo) :
             todo[k] = [path |-> q, isDir |-> IsDir(tree, q)]
  BY ListedOK
<1>2. stack \in Seq(Frames) /\ stack # << >> /\ stack[1].todo = << >>
  BY DEF StackInv
<1>3. /\ Len(t) = Len(stack) /\ t[1].dir = stack[1].dir /\ t[1].todo = todo
      /\ \A i \in 1..Len(stack) : i # 1 => t[i] = stack[i]
  <2> HIDE DEF todo
  <2> QED
    BY <1>1, <1>2, TodoOK
<1>4. 1 \in 1..Len(stack) /\ stack[1] \in Frames
  BY <1>2
<1>5. dir \in Dirs /\ root \in Dirs /\ OnWay(root, dir)
  BY <1>4, WalkAssumption DEF StackInv, Chain, Frames, Dirs
<1> HIDE DEF todo, t, dir, root
<1>6. CASE OnWay(dir, p) /\ dir # p
  <2> DEFINE n == Len(dir) + 1
             q == SubSeq(p, 1, n)
  <2>1. n \in Nat /\ Len(root) < n /\ n <= Len(p) /\ Len(dir) \in Nat /\ Len(p) \in Nat
    <3>1. Len(dir) \in Nat /\ Len(p) \in Nat /\ Len(dir) <= Len(p)
          /\ \A i \in 1..Len(dir) : p[i] = dir[i]
      BY <1>5, <1>6, OnWayIs
    <3>2. Len(root) \in Nat /\ Len(root) <= Len(dir)
      BY <1>5, OnWayIs
    <3>3. Len(dir) # Len(p)
      BY <1>5, <1>6, <3>1, SeqEqual DEF Dirs
    <3> QED
      BY <3>1, <3>2, <3>3
  <2> HIDE DEF n
  <2>2. q \in Dirs /\ Len(q) = n /\ OnWay(q, p)
    BY <2>1, BeginsIs
  <2> HIDE DEF q
  <2>3. q \in DOMAIN tree /\ (n < Len(p) => IsDir(tree, q))
    BY <2>1, <2>2 DEF root
  <2>4. OnWay(dir, q)
    <3>1. Len(dir) <= Len(q)
      BY <2>1, <2>2 DEF n
    <3>2. Len(dir) <= Len(p) /\ \A i \in 1..Len(dir) : p[i] = dir[i]
      BY <1>5, <1>6, OnWayIs
    <3>3. Len(q) <= Len(p) /\ \A i \in 1..Len(q) : p[i] = q[i]
      BY <2>2, OnWayIs
    <3>4. \A i \in 1..Len(dir) : i \in 1..Len(q)
      BY <2>1, <2>2, <3>1
    <3> QED
      BY <1>5, <2>2, <3>1, <3>2, <3>3, <3>4, OnWayIs
  <2>5. ChildOf(q, dir)
    BY <1>5, <2>2, <2>4, ChildIs DEF n
  <2>6. PICK k \in 1..Len(todo) : todo[k] = [path |-> q, isDir |-> IsDir(tree, q)]
    BY <1>1, <2>3, <2>5 DEF Listing
  <2>7. Covers(todo[k], p)
    <3>1. CASE n < Len(p)
      BY <2>2, <2>3, <2>6, <3>1 DEF Covers
    <3>2. CASE ~(n < Len(p))
      <4>1. Len(q) = Len(p)
        BY <2>1, <2>2, <3>2
      <4>2. \A i \in 1..Len(q) : p[i] = q[i]
        BY <2>2, OnWayIs
      <4>3. q = p
        BY <2>2, <4>1, <4>2, SeqEqual DEF Dirs
      <4> QED
        BY <2>6, <4>3 DEF Covers
    <3> QED
      BY <3>1, <3>2
  <2>8. LeftIn(t[1], p) /\ 1 \in 1..Len(t)
    BY <1>3, <1>4, <2>7 DEF LeftIn
  <2>9. StillToCome(t, "visit", p)
    BY <2>8 DEF StillToCome
  <2> QED
    BY <2>9 DEF t, todo, dir
<1>7. CASE ~(OnWay(dir, p) /\ dir # p)
  <2>1. PICK i \in 1..Len(stack) : LeftIn(stack[i], p)
    BY <1>7 DEF StillToCome, dir
  <2>2. i # 1
    BY <1>2, <2>1 DEF LeftIn
  <2>3. StillToCome(t, "visit", p)
    BY <1>3, <2>1, <2>2 DEF StillToCome
  <2> QED
    BY <2>3 DEF t, todo, dir
<1> QED
  BY <1>6, <1>7

LEMMA SteadyRead ==
    ASSUME StackInv, SteadyInv, ReadDirectory
    PROVE  SteadyInv'
<1>1. ASSUME NEW e, e # "none", Ends(FailedState(e)) PROVE SteadyInv'
  BY <1>1, StartsEmpty, EndsInError
<1>2. CASE ~(\E e : e # "none" /\ Ends(FailedState(e)))
  <2> DEFINE t == [stack EXCEPT ![1].todo = Listed(stack[1].dir)]
  <2>1. step = "read" /\ IsDir(tree, stack[1].dir) /\ step' = "visit" /\ out' = out
        /\ stack' = t /\ UNCHANGED <<tree, job, lasting>>
    BY <1>2 DEF ReadDirectory
  <2>2. ASSUME NEW p \in Dirs, Reached(p), StillToCome(stack, step, p)
        PROVE  StillToCome(t, "visit", p)
    <3>1. ASSUME NEW q \in Dirs, OnWay(q, p), Len(job.req.sourceRoot) < Len(q)
          PROVE  q \in DOMAIN tree /\ (Len(q) < Len(p) => IsDir(tree, q))
      <4>1. Len(q) \in Nat /\ Len(q) <= Len(p) /\ q = SubSeq(p, 1, Len(q))
        BY <3>1, OnWayIs DEF OnWay
      <4> QED
        BY <2>2, <3>1, <4>1, OnTheWay
    <3> QED
      BY <2>1, <2>2, <3>1, ReadComesTo
  <2>3. Keeps(job.handler.policy, out, out)
    BY DEF Keeps
  <2> HIDE DEF t
  <2> QED
    BY <2>1, <2>2, <2>3, GoesOn
<1> QED
  BY <1>1, <1>2

\* What is still to come is the entry at hand, or is still to come after it.
LEMMA RestCovers ==
    ASSUME StackInv, Visiting, NEW p, StillToCome(stack, step, p)
    PROVE  Covers(Next1, p) \/ \E i \in 1..Len(Rest) : LeftIn(Rest[i], p)
<1> DEFINE todo == stack[1].todo
           rest == Tail(todo)
<1>1. /\ stack[1].todo \in Seq([path : Dirs, isDir : BOOLEAN]) /\ stack[1].todo # << >>
      /\ Next1 = stack[1].todo[1] /\ 1 \in 1..Len(stack)
  BY HeadEntry
<1>2. \A k \in 1..Len(todo) : k # 1 => k - 1 \in 1..Len(rest) /\ rest[k - 1] = todo[k]
  BY <1>1, RestOK
<1>3. /\ Len(Rest) = Len(stack) /\ Rest[1].todo = rest
      /\ \A i \in 1..Len(stack) : i # 1 => Rest[i] = stack[i]
  BY RestInv
<1>4. PICK i \in 1..Len(stack) : LeftIn(stack[i], p)
  BY DEF Visiting, StillToCome
<1>5. CASE i # 1
  BY <1>3, <1>4, <1>5
<1>6. CASE i = 1
  <2>1. PICK k \in 1..Len(todo) : Covers(todo[k], p)
    BY <1>4, <1>6 DEF LeftIn
  <2>2. CASE k = 1
    BY <1>1, <2>1, <2>2
  <2>3. CASE k # 1
    <3>1. k - 1 \in 1..Len(rest) /\ rest[k - 1] = todo[k]
      BY <1>2, <2>3
    <3>2. \E l \in 1..Len(rest) : Covers(rest[l], p)
      <4> HIDE DEF rest, todo
      <4> QED
        BY <2>1, <3>1
    <3> HIDE DEF rest
    <3>3. LeftIn(Rest[1], p)
      BY <1>3, <3>2 DEF LeftIn
    <3> QED
      BY <1>1, <1>3, <3>3
  <2> QED
    BY <2>2, <2>3
<1> QED
  BY <1>5, <1>6

\* The entry at hand, when p is it or lies below it.
LEMMA AtHand ==
    ASSUME StackInv, Visiting, NEW p \in Dirs, Reached(p), Covers(Next1, p)
    PROVE  /\ ~TooDeep(job.handler, job.req, Next1.path)
           /\ Next1.path \in DOMAIN tree
           /\ ~Prunes(IndexDecision(job.req, Next1.path, tree[Next1.path]))
           /\ OnWay(Next1.path, p)
           /\ Next1.path # p => Next1.isDir
<1> DEFINE x == Next1.path
           root == job.req.sourceRoot
<1>1. /\ x \in Dirs /\ Len(root) < Len(x) /\ root \in Dirs
  BY HeadEntry
<1>2. OnWay(x, p) /\ (x # p => Next1.isDir)
  <2>1. OnWay(p, p)
    BY OnWayIs
  <2> QED
    BY <2>1 DEF Covers
<1> HIDE DEF x
<1>3. Len(x) \in Nat /\ Len(p) \in Nat /\ Len(root) \in Nat /\ Len(x) <= Len(p)
      /\ SubSeq(p, 1, Len(x)) = x
  <2>1. Len(root) \in Nat
    BY <1>1 DEF Dirs
  <2> QED
    BY <1>1, <1>2, <2>1, OnWayIs DEF OnWay
<1>4. x \in DOMAIN tree /\ ~Prunes(IndexDecision(job.req, x, tree[x]))
  BY <1>1, <1>3, OnTheWay
<1>5. ~TooDeep(job.handler, job.req, x)
  <2>1. job.handler.maxDepth \in Int
    BY WalkAssumption DEF StackInv
  <2>2. ~TooDeep(job.handler, job.req, p)
    BY DEF Reached
  <2> QED
    BY <1>3, <2>1, <2>2 DEF TooDeep
<1> QED
  BY <1>2, <1>4, <1>5 DEF x

LEMMA SteadySkip ==
    ASSUME StackInv, SteadyInv, SkipDeep
    PROVE  SteadyInv'
<1>1. /\ Visiting /\ step = "visit" /\ TooDeep(job.handler, job.req, Next1.path)
      /\ step' = "visit" /\ stack' = Rest /\ out' = out /\ UNCHANGED <<tree, job, lasting>>
  BY DEF SkipDeep, Visiting
<1>2. ASSUME NEW p \in Dirs, Reached(p), StillToCome(stack, step, p)
      PROVE  StillToCome(Rest, "visit", p)
  <2>1. ~Covers(Next1, p)
    BY <1>1, <1>2, AtHand
  <2>2. \E i \in 1..Len(Rest) : LeftIn(Rest[i], p)
    BY <1>1, <1>2, <2>1, RestCovers
  <2> QED
    BY <2>2 DEF StillToCome
<1>3. Keeps(job.handler.policy, out, out)
  BY DEF Keeps
<1> QED
  BY <1>1, <1>2, <1>3, GoesOn

LEMMA SteadyVisit ==
    ASSUME SuffixesDiffer, StackInv, Numbered(out), SteadyInv, Visit
    PROVE  SteadyInv'
<1> DEFINE x == Next1.path
           info == tree[x]
           result == VisitEntry(job.handler, job.req, out, x, info)
           d == IndexDecision(job.req, x, info)
           onward == Deeper(Next1, d)
           f == [dir |-> Next1.path, todo |-> << >>]
           down == <<f>> \o Rest
<1>1. /\ Visiting /\ step = "visit" /\ x \in DOMAIN tree
      /\ \/ result.err # "none" /\ Ends(result)
         \/ /\ result.err = "none" /\ out' = result
            /\ step' = onward.step /\ stack' = onward.stack /\ UNCHANGED <<tree, job, lasting>>
  BY DEF Visit, Visiting, Exists
<1>2. CASE result.err # "none" /\ Ends(result)
  <2> HIDE DEF result
  <2> QED
    BY <1>2, EndsInError
<1>3. CASE /\ result.err = "none" /\ out' = result
           /\ step' = onward.step /\ stack' = onward.stack /\ UNCHANGED <<tree, job, lasting>>
  <2>1. Keeps(job.handler.policy, out, result) /\ (~Prunes(d) => ShownIn(job, result, x, info))
    <3>1. job \in Jobs /\ tree \in Trees /\ OneEach(out)
      BY DEF StackInv
    <3>2. Len(job.req.sourceRoot) < Len(x) /\ OnWay(job.req.sourceRoot, x)
      BY <1>1, HeadEntry
    <3> QED
      BY <1>1, <1>3, <3>1, <3>2, VisitEntryOK
  <2>2. \/ Next1.isDir /\ ~Prunes(d) /\ onward.step = "read" /\ onward.stack = down
        \/ ~(Next1.isDir /\ ~Prunes(d)) /\ onward.step = "visit" /\ onward.stack = Rest
    <3> HIDE DEF d
    <3> QED
      BY DEF Deeper
  <2>3. /\ Rest \in Seq(Frames) /\ f \in Frames
    BY <1>1, RestInv, HeadEntry DEF Frames
  <2>4. Len(down) = Len(Rest) + 1 /\ down[1] = f /\ \A i \in 1..Len(Rest) : down[i + 1] = Rest[i]
    <3> HIDE DEF f
    <3> QED
      BY <2>3, PushOK
  <2>5. Len(Rest) \in Nat
    BY <2>3
  <2>6. f.dir = x
    OBVIOUS
  <2> HIDE DEF result, down, f, x, info, d
  <2> DEFINE s == onward.step
             frames == onward.stack
  <2>7. ASSUME NEW p \in Dirs, Reached(p), StillToCome(stack, step, p)
        PROVE  StillToCome(frames, s, p) \/ ShownIn(job, result, p, tree[p])
    <3>1. CASE Covers(Next1, p)
      <4>1. ~Prunes(d) /\ OnWay(x, p) /\ (x # p => Next1.isDir)
        BY <1>1, <2>7, <3>1, AtHand DEF x, d, info
      <4>2. CASE x = p
        BY <2>1, <4>1, <4>2 DEF info
      <4>3. CASE x # p
        <5>1. s = "read" /\ frames = down
          BY <2>2, <4>1, <4>3
        <5> HIDE DEF s, frames, onward
        <5> QED
          BY <2>4, <2>6, <4>1, <4>3, <5>1 DEF StillToCome
      <4> QED
        BY <4>2, <4>3
    <3>2. CASE ~Covers(Next1, p)
      <4>1. PICK i \in 1..Len(Rest) : LeftIn(Rest[i], p)
        BY <1>1, <2>7, <3>2, RestCovers
      <4>2. i + 1 \in 1..Len(down) /\ down[i + 1] = Rest[i]
        BY <2>4, <2>5
      <4>3. frames = down \/ frames = Rest
        BY <2>2
      <4> HIDE DEF s, frames, onward
      <4> QED
        BY <4>1, <4>2, <4>3 DEF StillToCome
    <3> QED
      BY <3>1, <3>2
  <2>8. s \in {"read", "visit"}
    BY <2>2
  <2>9. step \in {"read", "visit"}
    BY <1>1
  <2> HIDE DEF s, frames, onward
  <2>10. step' = s /\ stack' = frames /\ out' = result /\ UNCHANGED <<tree, job, lasting>>
    BY <1>3 DEF s, frames
  <2> QED
    BY <2>1, <2>7, <2>8, <2>9, <2>10, GoesOn
<1> QED
  BY <1>1, <1>2, <1>3

LEMMA SteadyLeave ==
    ASSUME StackInv, SteadyInv, Leave
    PROVE  SteadyInv'
<1>1. step = "visit" /\ stack[1].todo = << >>
      /\ \/ Len(stack) = 1 /\ Ends(out)
         \/ /\ Len(stack) # 1 /\ stack' = Tail(stack)
            /\ UNCHANGED <<tree, job, step, out, changes, lasting>>
  BY DEF Leave
<1>2. \A p : ~LeftIn(stack[1], p)
  BY <1>1 DEF LeftIn
<1>3. CASE Len(stack) = 1 /\ Ends(out)
  <2>1. step' = "done" /\ out' = out /\ UNCHANGED <<tree, job, lasting>>
    BY <1>3 DEF Ends
  <2>2. \A p : ~StillToCome(stack, step, p)
    BY <1>1, <1>2, <1>3 DEF StillToCome
  <2>3. ASSUME NEW e \in lasting, Reached(e[1])'
        PROVE  ShownIn(job, out, e[1], e[2])
    <3>1. Reached(e[1])
      BY <2>1, <2>3, ReachedStays
    <3> QED
      BY <1>1, <2>2, <3>1 DEF SteadyInv
  <2> QED
    BY <2>1, <2>3 DEF SteadyInv
<1>4. CASE /\ Len(stack) # 1 /\ stack' = Tail(stack)
           /\ UNCHANGED <<tree, job, step, out, changes, lasting>>
  <2>1. stack \in Seq(Frames) /\ stack # << >>
    BY <1>1 DEF StackInv
  <2>2. /\ Len(Tail(stack)) = Len(stack) - 1
        /\ \A i \in 1..(Len(stack) - 1) : Tail(stack)[i] = stack[i + 1]
    BY <1>4, <2>1, PopOK
  <2>3. Len(stack) \in Nat
    BY <2>1
  <2> DEFINE t == Tail(stack)
  <2> HIDE DEF t
  <2>4. ASSUME NEW p \in Dirs, StillToCome(stack, step, p)
        PROVE  StillToCome(t, "visit", p)
    <3>1. PICK i \in 1..Len(stack) : LeftIn(stack[i], p)
      BY <1>1, <2>4 DEF StillToCome
    <3>2. i # 1
      BY <1>2, <3>1
    <3> DEFINE k == i - 1
    <3>3. k \in 1..(Len(stack) - 1) /\ k + 1 = i
      BY <2>3, <3>2
    <3>4. k \in 1..Len(t) /\ t[k] = stack[i]
      BY <2>2, <3>3 DEF t
    <3> HIDE DEF k
    <3> QED
      BY <3>1, <3>4 DEF StillToCome
  <2>5. Keeps(job.handler.policy, out, out)
    BY DEF Keeps
  <2>6. step' = "visit" /\ stack' = t /\ out' = out /\ UNCHANGED <<tree, job, lasting>>
    BY <1>1, <1>4 DEF t
  <2> QED
    BY <1>1, <2>4, <2>5, <2>6, GoesOn
<1> QED
  BY <1>1, <1>3, <1>4

LEMMA SteadyNext ==
    SuffixesDiffer /\ CountInv /\ SteadyInv /\ [WalkNext]_walkVars => SteadyInv'
<1> SUFFICES ASSUME SuffixesDiffer, StackInv, Numbered(out), SteadyInv, [WalkNext]_walkVars
             PROVE  SteadyInv'
  BY DEF CountInv
<1>1. CASE EntryGone
  BY <1>1, StartsEmpty, EndsInError DEF EntryGone
<1>2. CASE Walks
  BY <1>1, <1>2, SteadyStat, SteadyRead, SteadySkip, SteadyVisit, SteadyLeave DEF Walks
<1>3. ASSUME NEW j \in Jobs, Start(j) PROVE SteadyInv'
  BY <1>3 DEF Start, SteadyInv
<1>4. ASSUME NEW t \in Trees, SourceChanges(t) PROVE SteadyInv'
  <2>1. lasting' \subseteq lasting /\ UNCHANGED <<job, step, stack, out>>
    BY <1>4 DEF SourceChanges
  <2>2. \A e \in lasting' : e \in lasting /\ (Reached(e[1])' => Reached(e[1]))
    BY <2>1, ReachedStays
  <2> QED
    BY <2>1, <2>2 DEF SteadyInv
<1>5. CASE UNCHANGED walkVars
  <2>1. lasting' = lasting /\ UNCHANGED <<job, step, stack, out>>
    BY <1>5 DEF walkVars
  <2>2. \A e \in lasting' : e \in lasting /\ (Reached(e[1])' => Reached(e[1]))
    BY <2>1, ReachedStays
  <2> QED
    BY <2>1, <2>2 DEF SteadyInv
<1> QED
  BY <1>2, <1>3, <1>4, <1>5 DEF WalkNext

LEMMA SteadyIsReached ==
    ASSUME StackInv, NEW p \in Dirs, SteadilyReached(p)
    PROVE  Reached(p)
<1> DEFINE root == job.req.sourceRoot
           above == {SubSeq(p, 1, n) : n \in Len(root)..(Len(p) - 1)}
           info(q) == (CHOOSE e \in lasting : e[1] = q)[2]
<1>1. /\ HasPathPrefix(p, root) /\ p # root /\ ~TooDeep(job.handler, job.req, p)
      /\ \A q \in above \cup {p} :
             /\ \E e \in lasting : e[1] = q
             /\ q # root => ~Prunes(IndexDecision(job.req, q, info(q)))
  BY DEF SteadilyReached
<1>2. root \in Dirs /\ Len(root) \in Nat /\ Len(p) \in Nat
  BY WalkAssumption DEF StackInv, Dirs
<1>3. Len(root) < Len(p) /\ OnWay(root, p)
  BY <1>1, <1>2, PrefixIs
<1>4. ASSUME NEW n \in Len(root)..Len(p)
      PROVE  \E e \in lasting :
                 /\ e[1] = SubSeq(p, 1, n)
                 /\ n > Len(root) => ~Prunes(IndexDecision(job.req, e[1], e[2]))
  <2> DEFINE q == SubSeq(p, 1, n)
  <2>1. n \in Nat /\ n <= Len(p)
    BY <1>2
  <2>2. q \in Dirs /\ Len(q) = n /\ \A i \in 1..n : q[i] = p[i]
    BY <2>1, BeginsIs
  <2>3. q \in above \cup {p}
    <3>1. CASE n = Len(p)
      <4> HIDE DEF q
      <4>1. q = p
        BY <2>2, <3>1, SeqEqual DEF Dirs
      <4> QED
        BY <4>1
    <3>2. CASE n # Len(p)
      <4>1. n \in Len(root)..(Len(p) - 1)
        BY <1>2, <3>2
      <4> QED
        BY <4>1
    <3> QED
      BY <3>1, <3>2
  <2>4. n > Len(root) => q # root
    <3> HIDE DEF q
    <3> QED
      BY <1>2, <2>2
  <2> HIDE DEF q, above
  <2>5. /\ \E e \in lasting : e[1] = q
        /\ n > Len(root) => ~Prunes(IndexDecision(job.req, q, info(q)))
    BY <1>1, <2>3, <2>4
  <2> DEFINE e == CHOOSE x \in lasting : x[1] = q
  <2>6. e \in lasting /\ e[1] = q /\ info(q) = e[2]
    BY <2>5
  <2> HIDE DEF e, info
  <2> QED
    BY <2>5, <2>6 DEF q
<1> QED
  BY <1>1, <1>3, <1>4 DEF Reached

(* A walk that succeeds has shown every entry that was there, by directories *)
(* that were there, from its beginning to its end, whatever else came and    *)
(* went: under the rename policy the entry itself, under the others its      *)
(* target path.                                                              *)
THEOREM NothingIsMissed == SuffixesDiffer => (WalkSpec => []NothingSteadyIsMissed)
<1> SUFFICES ASSUME SuffixesDiffer PROVE WalkSpec => []NothingSteadyIsMissed
  OBVIOUS
<1>1. WalkInit => SteadyInv
  BY DEF WalkInit, SteadyInv
<1>2. CountInv /\ SteadyInv /\ [WalkNext]_walkVars => SteadyInv'
  BY SteadyNext
<1>3. CountInv /\ SteadyInv => NothingSteadyIsMissed
  <2> SUFFICES ASSUME StackInv, SteadyInv, step = "done", out.err = "none",
                      NEW e \in lasting, SteadilyReached(e[1]),
                      NEW m \in ToSet(Mapped(job.handler, job.req, e[1], e[2])),
                      TargetDecision(job.req.filter, m) = "include"
               PROVE  Holds(job.handler.policy, out, m)
    BY DEF NothingSteadyIsMissed, CountInv, Holds
  <2>1. Reached(e[1])
    BY LastingIs, SteadyIsReached
  <2>2. ShownIn(job, out, e[1], e[2])
    BY <2>1 DEF SteadyInv
  <2>3. PICK i \in DOMAIN Mapped(job.handler, job.req, e[1], e[2]) :
            m = Mapped(job.handler, job.req, e[1], e[2])[i]
    BY DEF ToSet
  <2> QED
    BY <2>2, <2>3 DEF ShownIn
<1>4. WalkSpec => []CountInv
  BY CountInvHolds
<1>5. WalkSpec => []SteadyInv
  BY <1>1, <1>2, <1>4, PTL DEF WalkSpec
<1> QED
  BY <1>3, <1>4, <1>5, PTL

---------------------------------------------------------------------------
(* A walk that no change disturbs is Materialize. The loop and the recursion *)
(* come to the entries of the tree in the order in which Materialize takes   *)
(* them: what is still to come, whatever the stack, is the rest of its list. *)

ToVisit(j, t) == Visited(j.handler, j.req, t)
Visits(j, t) == Cardinality(ToVisit(j, t))
Turns(j, t) == InOrder(ToVisit(j, t))

\* What is above an entry of a tree is a directory of it.
LEMMA AboveIsDir ==
    ASSUME NEW t \in Trees, NEW p \in DOMAIN t, NEW n \in Nat, n <= Len(p)
    PROVE  /\ SubSeq(p, 1, n) \in DOMAIN t
           /\ n < Len(p) => IsDir(t, SubSeq(p, 1, n))
<1>1. p \in Dirs /\ Len(p) \in Nat /\ DOMAIN t \subseteq Dirs
  BY WalkAssumption DEF Dirs
<1>2. ASSUME NEW k \in Nat, k + 1 <= Len(p), SubSeq(p, 1, k + 1) \in DOMAIN t
      PROVE  IsDir(t, SubSeq(p, 1, k))
  <2> DEFINE q == SubSeq(p, 1, k)
             r == SubSeq(p, 1, k + 1)
  <2>1. /\ q \in Dirs /\ Len(q) = k /\ \A i \in 1..k : q[i] = p[i]
        /\ r \in Dirs /\ Len(r) = k + 1 /\ \A i \in 1..(k + 1) : r[i] = p[i]
    BY <1>1, <1>2, BeginsIs
  <2> HIDE DEF q, r
  <2>2. OnWay(q, r)
    BY <2>1, OnWayIs
  <2>3. ChildOf(r, q)
    BY <2>1, <2>2, ChildIs
  <2>4. r \in DOMAIN t
    BY <1>2 DEF r
  <2>5. IsDir(t, ParentPath(r))
    BY <2>4, WalkAssumption DEF WellFormed
  <2>6. IsDir(t, q)
    BY <2>3, <2>5 DEF ChildOf
  <2> QED
    BY <2>6 DEF q
<1> DEFINE Done == {m \in Nat : \A k \in Nat : k + m = Len(p) => SubSeq(p, 1, k) \in DOMAIN t}
<1>3. 0 \in Done
  <2>1. SubSeq(p, 1, Len(p)) = p
    <3>1. Len(p) <= Len(p)
      BY <1>1
    <3> DEFINE q == SubSeq(p, 1, Len(p))
    <3>2. q \in Dirs /\ Len(q) = Len(p) /\ \A i \in 1..Len(p) : q[i] = p[i]
      BY <1>1, <3>1, BeginsIs
    <3> HIDE DEF q
    <3>3. q = p
      BY <1>1, <3>2, SeqEqual DEF Dirs
    <3> QED
      BY <3>3 DEF q
  <2>2. \A k \in Nat : k + 0 = Len(p) => k = Len(p)
    BY <1>1
  <2> QED
    BY <2>1, <2>2
<1>4. ASSUME NEW m \in Done PROVE m + 1 \in Done
  <2>1. ASSUME NEW k \in Nat, k + (m + 1) = Len(p) PROVE SubSeq(p, 1, k) \in DOMAIN t
    <3>1. k + 1 \in Nat /\ k + 1 + m = Len(p) /\ k + 1 <= Len(p)
      BY <1>1, <2>1
    <3>2. SubSeq(p, 1, k + 1) \in DOMAIN t
      BY <3>1
    <3>3. IsDir(t, SubSeq(p, 1, k))
      BY <1>2, <3>1, <3>2
    <3> QED
      BY <3>3 DEF IsDir, Exists
  <2> QED
    BY <2>1
<1>5. Done = Nat
  <2> HIDE DEF Done
  <2>1. Done \in SUBSET Nat
    BY DEF Done
  <2> QED
    BY <1>3, <1>4, <2>1, NatInd
<1>6. \A k \in Nat : k <= Len(p) => SubSeq(p, 1, k) \in DOMAIN t
  <2>1. ASSUME NEW k \in Nat, k <= Len(p) PROVE SubSeq(p, 1, k) \in DOMAIN t
    <3>1. Len(p) - k \in Nat /\ k + (Len(p) - k) = Len(p)
      BY <1>1, <2>1
    <3>2. Len(p) - k \in Done
      BY <1>5, <3>1
    <3> QED
      BY <3>1, <3>2
  <2> QED
    BY <2>1
<1>7. n < Len(p) => IsDir(t, SubSeq(p, 1, n))
  <2>1. n + 1 \in Nat /\ (n < Len(p) => n + 1 <= Len(p))
    BY <1>1
  <2> QED
    BY <1>2, <1>6, <2>1
<1> QED
  BY <1>6, <1>7

\* The entries that a walk of a quiet source comes to.
LEMMA ToVisitIs ==
    ASSUME NEW j \in Jobs, NEW t \in Trees, NEW p \in Dirs
    PROVE  p \in ToVisit(j, t) <=>
               /\ p \in DOMAIN t
               /\ Len(j.req.sourceRoot) < Len(p) /\ OnWay(j.req.sourceRoot, p)
               /\ ~TooDeep(j.handler, j.req, p)
               /\ \A n \in (Len(j.req.sourceRoot) + 1)..(Len(p) - 1) :
                      ~Prunes(IndexDecision(j.req, SubSeq(p, 1, n), t[SubSeq(p, 1, n)]))
<1>1. j.req.sourceRoot \in Dirs
  BY WalkAssumption DEF Dirs
<1>2. HasPathPrefix(p, j.req.sourceRoot) /\ p # j.req.sourceRoot
      <=> Len(j.req.sourceRoot) < Len(p) /\ OnWay(j.req.sourceRoot, p)
  BY <1>1, PrefixIs
<1> QED
  BY <1>2 DEF ToVisit, Visited

LEMMA TurnsOK ==
    ASSUME NEW j \in Jobs, NEW t \in Trees
    PROVE  /\ ToVisit(j, t) \subseteq DOMAIN t /\ ToVisit(j, t) \subseteq Paths
           /\ Visits(j, t) \in Nat
           /\ Turns(j, t) \in [1..Visits(j, t) -> ToVisit(j, t)]
           /\ \A p \in ToVisit(j, t) : \E i \in 1..Visits(j, t) : Turns(j, t)[i] = p
           /\ \A i, k \in 1..Visits(j, t) :
                  WalkedBefore(Turns(j, t)[i], Turns(j, t)[k]) <=> i < k
<1>1. ToVisit(j, t) \subseteq DOMAIN t
  BY DEF ToVisit, Visited
<1>2. DOMAIN t \subseteq Dirs /\ IsFiniteSet(DOMAIN t)
  BY WalkAssumption DEF Dirs
<1>3. Len(j.req.sourceRoot) \in Nat /\ Len(Root) = 0
  BY WalkAssumption DEF Root
<1>4. ToVisit(j, t) \subseteq Paths
  BY <1>1, <1>2, <1>3, ToVisitIs DEF Paths
<1> DEFINE paths == ToVisit(j, t)
<1>5. paths \in SUBSET (DOMAIN t \ {Root})
  BY <1>1, <1>4 DEF Paths
<1> HIDE DEF paths
<1>6. LET n == Cardinality(paths)
      IN  /\ n \in Nat
          /\ InOrder(paths) \in [1..n -> paths]
          /\ \A p \in paths : \E i \in 1..n : InOrder(paths)[i] = p
          /\ \A i, k \in 1..n : WalkedBefore(InOrder(paths)[i], InOrder(paths)[k]) <=> i < k
  BY <1>2, <1>5, OrderAssumption, TreeInOrder
<1> QED
  BY <1>1, <1>4, <1>6 DEF paths, Visits, Turns

\* What is on the way to an entry is visited before, and is a directory gone into.
LEMMA OnTheWayThere ==
    ASSUME NEW j \in Jobs, NEW t \in Trees, NEW p \in ToVisit(j, t),
           NEW q \in Dirs, OnWay(q, p), Len(j.req.sourceRoot) < Len(q)
    PROVE  /\ q \in ToVisit(j, t)
           /\ Len(q) < Len(p) => /\ IsDir(t, q)
                                 /\ ~Prunes(IndexDecision(j.req, q, t[q]))
<1> DEFINE root == j.req.sourceRoot
<1>1. p \in Dirs /\ p \in DOMAIN t /\ root \in Dirs
  BY TurnsOK, WalkAssumption DEF Paths, Dirs
<1>2. /\ Len(root) < Len(p) /\ OnWay(root, p) /\ ~TooDeep(j.handler, j.req, p)
      /\ \A n \in (Len(root) + 1)..(Len(p) - 1) :
             ~Prunes(IndexDecision(j.req, SubSeq(p, 1, n), t[SubSeq(p, 1, n)]))
  BY <1>1, ToVisitIs
<1>3. /\ Len(q) \in Nat /\ Len(p) \in Nat /\ Len(root) \in Nat /\ Len(q) <= Len(p)
      /\ \A i \in 1..Len(q) : p[i] = q[i]
      /\ \A i \in 1..Len(root) : p[i] = root[i]
      /\ q = SubSeq(p, 1, Len(q))
  BY <1>1, <1>2, OnWayIs DEF OnWay
<1> HIDE DEF root
<1>4. OnWay(root, q)
  <2>1. Len(root) <= Len(q) /\ \A i \in 1..Len(root) : i \in 1..Len(q)
    BY <1>3 DEF root
  <2> QED
    BY <1>1, <1>3, <2>1, OnWayIs
<1>5. q \in DOMAIN t /\ (Len(q) < Len(p) => IsDir(t, q))
  BY <1>1, <1>3, AboveIsDir
<1>6. ~TooDeep(j.handler, j.req, q)
  <2>1. j.handler.maxDepth \in Int
    BY WalkAssumption
  <2>2. ~TooDeep(j.handler, j.req, p)
    BY <1>2
  <2> QED
    BY <1>3, <2>1, <2>2 DEF TooDeep, root
<1>7. \A n \in (Len(root) + 1)..(Len(q) - 1) : SubSeq(q, 1, n) = SubSeq(p, 1, n)
  <2>1. ASSUME NEW n \in (Len(root) + 1)..(Len(q) - 1) PROVE SubSeq(q, 1, n) = SubSeq(p, 1, n)
    <3>1. n \in Nat /\ n <= Len(q) /\ n <= Len(p) /\ \A i \in 1..n : i \in 1..Len(q)
      BY <1>3
    <3> DEFINE x == SubSeq(q, 1, n)
               y == SubSeq(p, 1, n)
    <3>2. /\ x \in Dirs /\ Len(x) = n /\ \A i \in 1..n : x[i] = q[i]
          /\ y \in Dirs /\ Len(y) = n /\ \A i \in 1..n : y[i] = p[i]
      BY <1>1, <3>1, BeginsIs
    <3> HIDE DEF x, y
    <3>3. x = y
      BY <1>3, <3>1, <3>2, SeqEqual DEF Dirs
    <3> QED
      BY <3>3 DEF x, y
  <2> QED
    BY <2>1
<1>8. \A n \in (Len(root) + 1)..(Len(q) - 1) : n \in (Len(root) + 1)..(Len(p) - 1)
  BY <1>3
<1>9. \A n \in (Len(root) + 1)..(Len(q) - 1) :
          ~Prunes(IndexDecision(j.req, SubSeq(q, 1, n), t[SubSeq(q, 1, n)]))
  BY <1>2, <1>7, <1>8
<1>10. q \in ToVisit(j, t)
  BY <1>4, <1>5, <1>6, <1>9, ToVisitIs DEF root
<1>11. Len(q) < Len(p) => ~Prunes(IndexDecision(j.req, q, t[q]))
  <2>1. Len(q) < Len(p) => Len(q) \in (Len(root) + 1)..(Len(p) - 1)
    BY <1>3 DEF root
  <2> QED
    BY <1>2, <1>3, <2>1
<1> QED
  BY <1>5, <1>10, <1>11

\* The walk is in a directory that it has gone into.
Entered(j, t, dir) ==
    /\ IsDir(t, dir)
    /\ dir = j.req.sourceRoot \/ (dir \in ToVisit(j, t) /\ ~Prunes(IndexDecision(j.req, dir, t[dir])))

LEMMA EntryIsToVisit ==
    ASSUME NEW j \in Jobs, NEW t \in Trees, NEW dir \in Dirs, Entered(j, t, dir),
           OnWay(j.req.sourceRoot, dir), NEW p \in DOMAIN t, ChildOf(p, dir),
           ~TooDeep(j.handler, j.req, p)
    PROVE  p \in ToVisit(j, t)
<1> DEFINE root == j.req.sourceRoot
<1>1. p \in Dirs /\ root \in Dirs
  BY WalkAssumption DEF Dirs
<1>2. /\ Len(p) = Len(dir) + 1 /\ OnWay(dir, p)
      /\ Len(dir) \in Nat /\ Len(root) \in Nat /\ Len(p) \in Nat /\ Len(root) <= Len(dir)
      /\ \A i \in 1..Len(dir) : p[i] = dir[i]
      /\ dir = SubSeq(p, 1, Len(dir))
  BY <1>1, ChildIs, OnWayIs DEF OnWay
<1>3. OnWay(root, p)
  BY <1>1, <1>2, OnWayTrans
<1> HIDE DEF root
<1>4. ASSUME NEW n \in (Len(root) + 1)..(Len(p) - 1)
      PROVE  ~Prunes(IndexDecision(j.req, SubSeq(p, 1, n), t[SubSeq(p, 1, n)]))
  <2>1. n \in Nat /\ n <= Len(dir) /\ n <= Len(p) /\ Len(root) < n
    BY <1>2
  <2>2. dir # root
    BY <1>2, <2>1
  <2>3. dir \in ToVisit(j, t) /\ ~Prunes(IndexDecision(j.req, dir, t[dir]))
    BY <2>2 DEF Entered, root
  <2>4. CASE n = Len(dir)
    BY <1>2, <2>3, <2>4
  <2>5. CASE n < Len(dir)
    <3> DEFINE x == SubSeq(p, 1, n)
    <3>1. x \in Dirs /\ Len(x) = n /\ \A i \in 1..n : x[i] = p[i]
      BY <1>1, <2>1, BeginsIs
    <3> HIDE DEF x
    <3>2. OnWay(x, dir)
      <4>1. \A i \in 1..n : i \in 1..Len(dir)
        BY <1>2, <2>1
      <4> QED
        BY <1>2, <2>1, <3>1, <4>1, OnWayIs
    <3>3. ~Prunes(IndexDecision(j.req, x, t[x]))
      BY <2>1, <2>3, <2>5, <3>1, <3>2, OnTheWayThere DEF root
    <3> QED
      BY <3>3 DEF x
  <2> QED
    BY <2>1, <2>4, <2>5, <1>2
<1> QED
  BY <1>1, <1>2, <1>3, <1>4, ToVisitIs DEF root

\* The states of materializeState in Materialize.
StatesOf(j, t, h) ==
    /\ h[0] = EmptyState
    /\ \A k \in 0..(Visits(j, t) - 1) :
           h[k + 1] = VisitNext(j.handler, j.req, t, h[k], Turns(j, t)[k + 1])
    /\ Materialize(j.handler, j.req, t) = h[Visits(j, t)]

States(j, t) == CHOOSE h : StatesOf(j, t, h)

LEMMA StatesAre ==
    ASSUME NEW j \in Jobs, NEW t \in Trees, IsDir(t, j.req.sourceRoot)
    PROVE  /\ States(j, t)[0] = EmptyState
           /\ \A k \in 0..(Visits(j, t) - 1) :
                  States(j, t)[k + 1]
                      = VisitNext(j.handler, j.req, t, States(j, t)[k], Turns(j, t)[k + 1])
           /\ Materialize(j.handler, j.req, t) = States(j, t)[Visits(j, t)]
<1>1. Cardinality(Visited(j.handler, j.req, t)) \in Nat
  BY TurnsOK DEF Visits, ToVisit
<1>2. \E h : StatesOf(j, t, h)
  BY <1>1, MaterializeSteps DEF StatesOf, Visits, Turns, ToVisit
<1>3. StatesOf(j, t, States(j, t))
  BY <1>2 DEF States
<1> QED
  BY <1>3 DEF StatesOf

\* After an error nothing is visited.
LEMMA StopsAtError ==
    ASSUME NEW j \in Jobs, NEW t \in Trees, IsDir(t, j.req.sourceRoot),
           NEW k \in 0..Visits(j, t), States(j, t)[k].err # "none"
    PROVE  Materialize(j.handler, j.req, t) = States(j, t)[k]
<1> DEFINE n == Visits(j, t)
           h == States(j, t)
           Done == {m \in Nat : k + m <= n => h[k + m] = h[k]}
<1>1. n \in Nat /\ k \in Nat /\ k <= n
  BY TurnsOK
<1>2. /\ \A i \in 0..(n - 1) : h[i + 1] = VisitNext(j.handler, j.req, t, h[i], Turns(j, t)[i + 1])
      /\ Materialize(j.handler, j.req, t) = h[n]
  BY StatesAre
<1>3. h[k].err # "none"
  OBVIOUS
<1> HIDE DEF n, h
<1>4. 0 \in Done
  BY <1>1
<1>5. ASSUME NEW m \in Done PROVE m + 1 \in Done
  <2>1. ASSUME k + (m + 1) <= n PROVE h[k + (m + 1)] = h[k]
    <3>1. k + m \in 0..(n - 1) /\ (k + m) + 1 = k + (m + 1) /\ k + m <= n
      BY <1>1, <2>1
    <3>2. h[k + m] = h[k]
      BY <3>1
    <3>3. h[(k + m) + 1] = VisitNext(j.handler, j.req, t, h[k + m], Turns(j, t)[(k + m) + 1])
      BY <1>2, <3>1
    <3> QED
      BY <1>3, <3>1, <3>2, <3>3 DEF VisitNext
  <2> QED
    BY <2>1
<1>6. Done = Nat
  <2>1. Done \in SUBSET Nat
    OBVIOUS
  <2> HIDE DEF Done
  <2> QED
    BY <1>4, <1>5, <2>1, NatInd
<1>7. n - k \in Nat /\ k + (n - k) = n
  BY <1>1
<1>8. h[n] = h[k]
  <2>1. n - k \in Done
    BY <1>6, <1>7
  <2>2. k + (n - k) <= n => h[k + (n - k)] = h[k]
    BY <2>1
  <2> QED
    BY <1>1, <1>7, <2>2
<1> QED
  BY <1>2, <1>8 DEF h

\* A listing of the tree as it is, in order.
InTurn(t, todo) ==
    /\ \A k \in 1..Len(todo) : /\ todo[k].path \in DOMAIN t
                               /\ todo[k].isDir <=> IsDir(t, todo[k].path)
    /\ \A k, l \in 1..Len(todo) : k < l => Apart(todo[k].path, todo[l].path)

(* The directories of the stack have been gone into, and what is left of an  *)
(* outer one comes after the directory of an inner one.                      *)
Sorted(j, t, frames) ==
    \A i \in 1..Len(frames) :
        /\ Entered(j, t, frames[i].dir)
        /\ InTurn(t, frames[i].todo)
        /\ \A m \in 1..(i - 1) : \A k \in 1..Len(frames[i].todo) :
               Apart(frames[m].dir, frames[i].todo[k].path)

\* Materialize would have this state after k entries, and those are not to come again.
UpTo(j, t, frames, at, o, k) ==
    /\ o = States(j, t)[k]
    /\ \A i \in 1..Visits(j, t) : StillToCome(frames, at, Turns(j, t)[i]) <=> i > k

QuietInv ==
    /\ step = "stat" => out = EmptyState
    /\ changes = 0 =>
           /\ step \in {"read", "visit"} =>
                  /\ IsDir(tree, job.req.sourceRoot)
                  /\ Sorted(job, tree, stack)
                  /\ \E k \in 0..Visits(job, tree) : UpTo(job, tree, stack, step, out, k)
           /\ step = "done" => out = Materialize(job.handler, job.req, tree)

LEMMA QuietStat ==
    ASSUME StackInv, QuietInv, StatRoot
    PROVE  QuietInv'
<1> DEFINE root == job.req.sourceRoot
<1>1. out = EmptyState /\ step = "stat" /\ stack = << >> /\ job \in Jobs /\ tree \in Trees
  BY DEF StatRoot, QuietInv, StackInv
<1>2. root \in Dirs
  BY <1>1, WalkAssumption DEF Dirs
<1>3. CASE ~Exists(tree, root) /\ Ends(FailedState("notexist"))
  <2>1. Materialize(job.handler, job.req, tree) = FailedState("notexist")
    BY <1>3 DEF Materialize
  <2> QED
    BY <1>3, <2>1 DEF Ends, QuietInv
<1>4. CASE Exists(tree, root) /\ ~IsDir(tree, root) /\ Ends(FailedState("invalid"))
  <2>1. Materialize(job.handler, job.req, tree) = FailedState("invalid")
    BY <1>4 DEF Materialize
  <2> QED
    BY <1>4, <2>1 DEF Ends, QuietInv
<1>5. CASE /\ IsDir(tree, root)
           /\ step' = "read" /\ stack' = Enter(root)
           /\ UNCHANGED <<tree, job, out, changes, lasting>>
  <2> DEFINE f == [dir |-> root, todo |-> << >>]
             s == <<f>>
  <2>1. stack' = s
    BY <1>1, <1>5 DEF Enter
  <2>2. Len(s) = 1 /\ s[1].dir = root /\ s[1].todo = << >> /\ Len(s[1].todo) = 0
    OBVIOUS
  <2> HIDE DEF s, root
  <2>3. Sorted(job, tree, s)
    BY <1>5, <2>2 DEF Sorted, InTurn, Entered, root
  <2>4. /\ Visits(job, tree) \in Nat
        /\ \A i \in 1..Visits(job, tree) : Turns(job, tree)[i] \in ToVisit(job, tree)
        /\ ToVisit(job, tree) \subseteq Dirs
    BY <1>1, TurnsOK DEF Paths
  <2>5. ASSUME NEW p \in ToVisit(job, tree) PROVE StillToCome(s, "read", p)
    <3>1. Len(root) < Len(p) /\ OnWay(root, p)
      BY <1>1, <2>4, <2>5, ToVisitIs DEF root
    <3>2. root # p
      BY <1>2, <3>1 DEF Dirs
    <3> QED
      BY <2>2, <3>1, <3>2 DEF StillToCome
  <2>6. UpTo(job, tree, s, "read", out, 0)
    <3>1. out = States(job, tree)[0]
      BY <1>1, <1>5, StatesAre DEF root
    <3>2. \A i \in 1..Visits(job, tree) : i > 0
      OBVIOUS
    <3> QED
      BY <2>4, <2>5, <3>1, <3>2 DEF UpTo
  <2>7. 0 \in 0..Visits(job, tree)
    BY <2>4
  <2>8. \E k \in 0..Visits(job, tree) : UpTo(job, tree, s, "read", out, k)
    BY <2>6, <2>7
  <2> QED
    BY <1>5, <2>1, <2>3, <2>8 DEF QuietInv, root
<1> QED
  BY <1>3, <1>4, <1>5 DEF StatRoot

\* It is enough that the walk has the same entries still to come.
LEMMA QuietGoesOn ==
    ASSUME StackInv, QuietInv, step \in {"read", "visit"}, NEW s \in {"read", "visit"}, NEW frames,
           step' = s, stack' = frames, UNCHANGED <<tree, job, out, changes>>,
           changes = 0 => Sorted(job, tree, frames),
           changes = 0 => \A p \in ToVisit(job, tree) :
               StillToCome(frames, s, p) <=> StillToCome(stack, step, p)
    PROVE  QuietInv'
<1> SUFFICES ASSUME changes = 0 PROVE QuietInv'
  BY DEF QuietInv
<1>1. /\ IsDir(tree, job.req.sourceRoot)
      /\ \E k \in 0..Visits(job, tree) : UpTo(job, tree, stack, step, out, k)
  BY DEF QuietInv
<1>2. PICK k \in 0..Visits(job, tree) : UpTo(job, tree, stack, step, out, k)
  BY <1>1
<1>3. \A i \in 1..Visits(job, tree) : Turns(job, tree)[i] \in ToVisit(job, tree)
  BY TurnsOK DEF StackInv
<1>4. UpTo(job, tree, frames, s, out, k)
  BY <1>2, <1>3 DEF UpTo
<1>5. \E i \in 0..Visits(job, tree) : UpTo(job, tree, frames, s, out, i)
  BY <1>4
<1> QED
  BY <1>1, <1>5 DEF QuietInv

LEMMA QuietRead ==
    ASSUME StackInv, QuietInv, ReadDirectory
    PROVE  QuietInv'
<1> DEFINE dir == stack[1].dir
           todo == Listed(dir)
           t == [stack EXCEPT ![1].todo = todo]
           root == job.req.sourceRoot
<1>1. step = "read" /\ job \in Jobs /\ tree \in Trees /\ stack \in Seq(Frames) /\ stack # << >>
      /\ Chain(stack, root) /\ changes' = changes /\ stack[1].todo = << >>
  BY DEF ReadDirectory, StackInv, Ends
<1>2. 1 \in 1..Len(stack) /\ stack[1] \in Frames /\ Len(stack) \in Nat
  BY <1>1
<1>3. dir \in Dirs /\ OnWay(root, dir) /\ root \in Dirs
  BY <1>1, <1>2, WalkAssumption DEF Chain, Frames, Dirs
<1>4. CASE changes # 0
  BY <1>1, <1>4 DEF QuietInv, ReadDirectory, Ends
<1>5. CASE changes = 0
  <2>1. Sorted(job, tree, stack) /\ IsDir(tree, root)
    BY <1>1, <1>5 DEF QuietInv
  <2>2. IsDir(tree, dir)
    BY <1>2, <2>1 DEF Sorted, Entered
  <2>3. step' = "visit" /\ stack' = t /\ UNCHANGED <<tree, job, out, changes>>
    BY <2>2 DEF ReadDirectory, IsDir, Exists
  <2>4. /\ todo \in Seq([path : Dirs, isDir : BOOLEAN])
        /\ \A k \in 1..Len(todo) : ChildOf(todo[k].path, dir) /\ todo[k].path \in DOMAIN tree
        /\ \A k \in 1..Len(todo) : todo[k].isDir = IsDir(tree, todo[k].path)
        /\ \A k, l \in 1..Len(todo) : k < l => WalkedBefore(todo[k].path, todo[l].path)
    BY <1>1, <2>2, ListedOK
  <2> HIDE DEF todo
  <2>5. /\ Len(t) = Len(stack) /\ t[1].dir = dir /\ t[1].todo = todo
        /\ \A i \in 1..Len(stack) : i # 1 => t[i] = stack[i]
    BY <1>1, <2>4, TodoOK
  <2>6. \A k \in 1..Len(todo) : todo[k].path \in Dirs /\ OnWay(dir, todo[k].path)
                               /\ Len(todo[k].path) = Len(dir) + 1
    <3>1. ASSUME NEW k \in 1..Len(todo)
          PROVE  todo[k].path \in Dirs /\ OnWay(dir, todo[k].path) /\ Len(todo[k].path) = Len(dir) + 1
      <4> DEFINE x == todo[k].path
      <4>1. x \in Dirs /\ ChildOf(x, dir)
        <5>1. todo[k] \in [path : Dirs, isDir : BOOLEAN]
          <6>1. todo \in Seq([path : Dirs, isDir : BOOLEAN])
            BY <2>4
          <6> QED
            BY <6>1, ElementOfSeq
        <5> QED
          BY <2>4, <5>1
      <4> HIDE DEF x, dir
      <4>2. OnWay(dir, x) /\ Len(x) = Len(dir) + 1
        BY <1>3, <4>1, ChildIs
      <4> QED
        BY <4>1, <4>2 DEF x
    <3> QED
      BY <3>1
  <2>7. InTurn(tree, todo)
    <3>1. ASSUME NEW k \in 1..Len(todo) PROVE todo[k].path \in Paths
      <4> DEFINE x == todo[k].path
      <4>1. x \in Dirs /\ Len(x) = Len(dir) + 1
        BY <2>6
      <4> HIDE DEF x
      <4>2. Len(dir) \in Nat /\ Len(Root) = 0
        BY <1>3 DEF Dirs, Root
      <4> HIDE DEF dir
      <4>3. x # Root
        BY <4>1, <4>2
      <4> QED
        BY <4>1, <4>3 DEF Paths, x
    <3>2. ASSUME NEW k \in 1..Len(todo), NEW l \in 1..Len(todo), k < l
          PROVE  Apart(todo[k].path, todo[l].path)
      <4> DEFINE x == todo[k].path
                 y == todo[l].path
      <4>1. x \in Paths /\ y \in Paths /\ ChildOf(x, dir) /\ ChildOf(y, dir) /\ WalkedBefore(x, y)
        BY <2>4, <3>1, <3>2
      <4> HIDE DEF x, y, dir
      <4>2. Apart(x, y)
        BY <1>3, <4>1, SiblingsApart
      <4> QED
        BY <4>2 DEF x, y
    <3>3. \A k \in 1..Len(todo) : todo[k].isDir <=> IsDir(tree, todo[k].path)
      BY <2>4
    <3> QED
      BY <2>4, <3>2, <3>3 DEF InTurn
  <2> DEFINE u == t
  <2>8. /\ Len(u) = Len(stack) /\ u[1].dir = dir /\ u[1].todo = todo
        /\ \A i \in 1..Len(stack) : i # 1 => u[i] = stack[i]
        /\ stack' = u
    BY <2>3, <2>5
  <2>9. \A p \in Dirs : /\ StillToCome(stack, step, p)
                        /\ \A q \in Dirs : OnWay(q, p) /\ Len(root) < Len(q) =>
                               q \in DOMAIN tree /\ (Len(q) < Len(p) => IsDir(tree, q))
                        => StillToCome(u, "visit", p)
    BY <1>1, <2>2, ReadComesTo DEF todo
  <2> HIDE DEF u
  <2>10. Sorted(job, tree, u)
    <3>1. \A i \in 1..Len(u) : u[i].dir = stack[i].dir
      BY <1>2, <2>8
    <3>2. ASSUME NEW i \in 1..Len(u)
          PROVE  /\ Entered(job, tree, u[i].dir)
                 /\ InTurn(tree, u[i].todo)
                 /\ \A m \in 1..(i - 1) : \A k \in 1..Len(u[i].todo) :
                        Apart(u[m].dir, u[i].todo[k].path)
      <4>1. i \in 1..Len(stack) /\ \A m \in 1..(i - 1) : m \in 1..Len(u)
        BY <1>2, <2>8
      <4>2. CASE i = 1
        <5>1. 1..(1 - 1) = {}
          OBVIOUS
        <5> QED
          BY <1>2, <2>1, <2>7, <2>8, <4>2, <5>1 DEF Sorted
      <4>3. CASE i # 1
        BY <2>1, <2>8, <3>1, <4>1, <4>3 DEF Sorted
      <4> QED
        BY <4>2, <4>3
    <3> QED
      BY <3>2 DEF Sorted
  <2>11. ASSUME NEW p \in ToVisit(job, tree)
         PROVE  StillToCome(u, "visit", p) <=> StillToCome(stack, step, p)
    <3>1. p \in Dirs
      BY <1>1, TurnsOK DEF Paths
    <3>2. ASSUME NEW q \in Dirs, OnWay(q, p), Len(root) < Len(q)
          PROVE  q \in DOMAIN tree /\ (Len(q) < Len(p) => IsDir(tree, q))
      <4>1. q \in ToVisit(job, tree) /\ (Len(q) < Len(p) => IsDir(tree, q))
        BY <1>1, <3>2, OnTheWayThere
      <4> QED
        BY <1>1, <4>1, TurnsOK
    <3>3. StillToCome(stack, step, p) => StillToCome(u, "visit", p)
      BY <2>9, <3>1, <3>2
    <3>4. ASSUME StillToCome(u, "visit", p) PROVE StillToCome(stack, step, p)
      <4>1. PICK i \in 1..Len(u) : LeftIn(u[i], p)
        BY <3>4 DEF StillToCome
      <4>2. CASE i # 1
        BY <2>8, <4>1, <4>2 DEF StillToCome
      <4>3. CASE i = 1
        <5>1. PICK k \in 1..Len(todo) : Covers(todo[k], p)
          BY <2>8, <4>1, <4>3 DEF LeftIn
        <5> DEFINE x == todo[k].path
        <5>2. x \in Dirs /\ OnWay(dir, x) /\ Len(x) = Len(dir) + 1
          BY <2>6
        <5>3. OnWay(x, p)
          <6>1. OnWay(p, p)
            BY <3>1, OnWayIs
          <6> QED
            BY <5>1, <6>1 DEF Covers
        <5> HIDE DEF x
        <5>4. OnWay(dir, p)
          BY <1>3, <3>1, <5>2, <5>3, OnWayTrans
        <5>5. dir # p
          <6>1. Len(x) <= Len(p) /\ Len(dir) \in Nat
            BY <1>3, <3>1, <5>2, <5>3, OnWayIs
          <6> QED
            BY <5>2, <6>1
        <5> QED
          BY <1>1, <5>4, <5>5 DEF StillToCome
      <4> QED
        BY <4>2, <4>3
    <3> QED
      BY <3>3, <3>4
  <2> QED
    BY <1>1, <2>3, <2>8, <2>10, <2>11, QuietGoesOn
<1> QED
  BY <1>4, <1>5

\* What is left of the frames when the entry at hand is taken off.
LEMMA RestWas ==
    ASSUME StackInv, Visiting
    PROVE  /\ Rest \in Seq(Frames) /\ Rest # << >> /\ Len(Rest) = Len(stack) /\ Len(stack) \in Nat
           /\ \A i \in 1..Len(Rest) : Rest[i].dir = stack[i].dir
           /\ \A i \in 1..Len(Rest) : \A k \in 1..Len(Rest[i].todo) :
                  \E l \in 1..Len(stack[i].todo) :
                      /\ Rest[i].todo[k] = stack[i].todo[l]
                      /\ i = 1 => l = k + 1
                      /\ i # 1 => l = k
<1>1. /\ Rest \in Seq(Frames) /\ Rest # << >> /\ Len(Rest) = Len(stack)
      /\ Rest[1].dir = stack[1].dir /\ Rest[1].todo = Tail(stack[1].todo)
      /\ \A i \in 1..Len(stack) : i # 1 => Rest[i] = stack[i]
  BY RestInv
<1>2. /\ stack \in Seq(Frames) /\ 1 \in 1..Len(stack) /\ Len(stack) \in Nat
      /\ stack[1].todo \in Seq([path : Dirs, isDir : BOOLEAN]) /\ stack[1].todo # << >>
  BY HeadEntry
<1>3. \A k \in 1..Len(Tail(stack[1].todo)) :
          k + 1 \in 1..Len(stack[1].todo) /\ Tail(stack[1].todo)[k] = stack[1].todo[k + 1]
  BY <1>2, RestOK
<1>4. ASSUME NEW i \in 1..Len(Rest), NEW k \in 1..Len(Rest[i].todo)
      PROVE  \E l \in 1..Len(stack[i].todo) :
                 /\ Rest[i].todo[k] = stack[i].todo[l]
                 /\ i = 1 => l = k + 1
                 /\ i # 1 => l = k
  BY <1>1, <1>3, <1>4
<1> QED
  BY <1>1, <1>2, <1>4

\* The entry at hand comes before all that is left.
LEMMA RestIsAfter ==
    ASSUME StackInv, Visiting, Sorted(job, tree, stack),
           NEW i \in 1..Len(Rest), NEW k \in 1..Len(Rest[i].todo)
    PROVE  /\ Rest[i].todo[k].path \in Dirs
           /\ Apart(Next1.path, Rest[i].todo[k].path)
<1> DEFINE y == Rest[i].todo[k].path
           x == Next1.path
           dir == stack[1].dir
<1>1. PICK l \in 1..Len(stack[i].todo) : /\ Rest[i].todo[k] = stack[i].todo[l]
                                         /\ i = 1 => l = k + 1
  BY RestWas
<1>2. /\ x \in Dirs /\ dir \in Dirs /\ ChildOf(x, dir) /\ 1 \in 1..Len(stack[1].todo)
      /\ Next1 = stack[1].todo[1] /\ stack \in Seq(Frames)
  BY HeadEntry
<1>3. i \in 1..Len(stack)
  BY RestWas
<1>4. y \in Dirs
  <2>1. stack[i] \in Frames
    BY <1>2, <1>3
  <2>2. stack[i].todo \in Seq([path : Dirs, isDir : BOOLEAN])
    BY <2>1 DEF Frames
  <2>3. stack[i].todo[l] \in [path : Dirs, isDir : BOOLEAN]
    BY <2>2, ElementOfSeq
  <2> QED
    BY <1>1, <2>3
<1>5. CASE i = 1
  <2>1. k \in Nat /\ k > 0
    OBVIOUS
  <2>2. 1 < l /\ l \in 1..Len(stack[1].todo)
    BY <1>1, <1>5, <2>1
  <2>3. InTurn(tree, stack[1].todo)
    BY <1>3, <1>5 DEF Sorted
  <2>4. Apart(stack[1].todo[1].path, stack[1].todo[l].path)
    BY <1>2, <2>2, <2>3 DEF InTurn
  <2> QED
    BY <1>1, <1>2, <1>4, <1>5, <2>4
<1>6. CASE i # 1
  <2>1. 1 \in 1..(i - 1)
    BY <1>3, <1>6
  <2>2. Apart(dir, stack[i].todo[l].path)
    BY <1>3, <2>1 DEF Sorted
  <2>3. Apart(dir, y)
    BY <1>1, <2>2
  <2>4. x \in Dirs /\ dir \in Dirs /\ ChildOf(x, dir)
    BY <1>2
  <2> HIDE DEF x, y, dir
  <2>5. OnWay(dir, x)
    BY <2>4, ChildIs
  <2>6. OnWay(y, y)
    BY <1>4, OnWayIs
  <2>7. Apart(x, y)
    BY <1>4, <2>3, <2>4, <2>5, <2>6, ApartStays
  <2> QED
    BY <1>4, <2>7 DEF x, y
<1> QED
  BY <1>5, <1>6

LEMMA LeftIsAfter ==
    ASSUME StackInv, Visiting, Sorted(job, tree, stack), NEW p \in Dirs,
           NEW i \in 1..Len(Rest), LeftIn(Rest[i], p)
    PROVE  Apart(Next1.path, p)
<1>1. PICK k \in 1..Len(Rest[i].todo) : Covers(Rest[i].todo[k], p)
  BY DEF LeftIn
<1> DEFINE x == Next1.path
           y == Rest[i].todo[k].path
<1>2. x \in Dirs /\ y \in Dirs /\ Apart(x, y)
  BY HeadEntry, RestIsAfter
<1>3. OnWay(p, p) /\ OnWay(x, x)
  BY <1>2, OnWayIs
<1>4. OnWay(y, p)
  BY <1>1, <1>3 DEF Covers
<1> HIDE DEF x, y
<1>5. Apart(x, p)
  BY <1>2, <1>3, <1>4, ApartStays
<1> QED
  BY <1>5 DEF x

LEMMA SortedRest ==
    ASSUME StackInv, Visiting, Sorted(job, tree, stack)
    PROVE  Sorted(job, tree, Rest)
<1>1. /\ Len(Rest) = Len(stack) /\ Len(stack) \in Nat
      /\ \A i \in 1..Len(Rest) : Rest[i].dir = stack[i].dir
      /\ \A i \in 1..Len(Rest) : \A k \in 1..Len(Rest[i].todo) :
             \E l \in 1..Len(stack[i].todo) :
                 /\ Rest[i].todo[k] = stack[i].todo[l]
                 /\ i = 1 => l = k + 1
                 /\ i # 1 => l = k
  BY RestWas
<1>2. ASSUME NEW i \in 1..Len(Rest)
      PROVE  /\ Entered(job, tree, Rest[i].dir)
             /\ InTurn(tree, Rest[i].todo)
             /\ \A m \in 1..(i - 1) : \A k \in 1..Len(Rest[i].todo) :
                    Apart(Rest[m].dir, Rest[i].todo[k].path)
  <2>1. /\ i \in 1..Len(stack)
        /\ Entered(job, tree, stack[i].dir) /\ InTurn(tree, stack[i].todo)
        /\ \A m \in 1..(i - 1) : \A k \in 1..Len(stack[i].todo) :
               Apart(stack[m].dir, stack[i].todo[k].path)
    BY <1>1 DEF Sorted
  <2>2. InTurn(tree, Rest[i].todo)
    <3>1. ASSUME NEW k \in 1..Len(Rest[i].todo)
          PROVE  /\ Rest[i].todo[k].path \in DOMAIN tree
                 /\ Rest[i].todo[k].isDir <=> IsDir(tree, Rest[i].todo[k].path)
      <4>1. PICK l \in 1..Len(stack[i].todo) : Rest[i].todo[k] = stack[i].todo[l]
        BY <1>1
      <4> QED
        BY <2>1, <4>1 DEF InTurn
    <3>2. ASSUME NEW k \in 1..Len(Rest[i].todo), NEW n \in 1..Len(Rest[i].todo), k < n
          PROVE  Apart(Rest[i].todo[k].path, Rest[i].todo[n].path)
      <4>1. PICK l \in 1..Len(stack[i].todo) :
                /\ Rest[i].todo[k] = stack[i].todo[l]
                /\ i = 1 => l = k + 1
                /\ i # 1 => l = k
        BY <1>1
      <4>2. PICK o \in 1..Len(stack[i].todo) :
                /\ Rest[i].todo[n] = stack[i].todo[o]
                /\ i = 1 => o = n + 1
                /\ i # 1 => o = n
        BY <1>1
      <4>3. l < o
        BY <3>2, <4>1, <4>2
      <4> QED
        BY <2>1, <4>1, <4>2, <4>3 DEF InTurn
    <3> QED
      BY <3>1, <3>2 DEF InTurn
  <2>3. ASSUME NEW m \in 1..(i - 1), NEW k \in 1..Len(Rest[i].todo)
        PROVE  Apart(Rest[m].dir, Rest[i].todo[k].path)
    <3>1. PICK l \in 1..Len(stack[i].todo) : Rest[i].todo[k] = stack[i].todo[l]
      BY <1>1
    <3>2. m \in 1..Len(Rest)
      BY <1>1
    <3> QED
      BY <1>1, <2>1, <3>1, <3>2
  <2> QED
    BY <1>1, <2>1, <2>2, <2>3
<1> QED
  BY <1>2 DEF Sorted

\* Going down into the entry at hand.
LEMMA SortedDown ==
    ASSUME StackInv, Visiting, Sorted(job, tree, stack), Entered(job, tree, Next1.path)
    PROVE  Sorted(job, tree, <<[dir |-> Next1.path, todo |-> << >>]>> \o Rest)
<1> DEFINE f == [dir |-> Next1.path, todo |-> << >>]
           t == <<f>> \o Rest
<1>1. f \in Frames /\ Rest \in Seq(Frames) /\ Len(Rest) \in Nat
  BY HeadEntry, RestWas DEF Frames
<1>2. f.dir = Next1.path /\ f.todo = << >> /\ Len(f.todo) = 0
  OBVIOUS
<1> HIDE DEF f
<1>3. Len(t) = Len(Rest) + 1 /\ t[1] = f /\ \A i \in 1..Len(Rest) : t[i + 1] = Rest[i]
  BY <1>1, PushOK
<1> HIDE DEF t
<1>4. Sorted(job, tree, Rest)
  BY SortedRest
<1>5. ASSUME NEW i \in 1..Len(t)
      PROVE  /\ Entered(job, tree, t[i].dir)
             /\ InTurn(tree, t[i].todo)
             /\ \A m \in 1..(i - 1) : \A k \in 1..Len(t[i].todo) :
                    Apart(t[m].dir, t[i].todo[k].path)
  <2>1. CASE i = 1
    <3>1. 1..(i - 1) = {} /\ 1..0 = {}
      BY <2>1
    <3> QED
      BY <1>2, <1>3, <2>1, <3>1 DEF InTurn
  <2>2. CASE i # 1
    <3> DEFINE j == i - 1
    <3>1. j \in 1..Len(Rest) /\ i = j + 1
      BY <1>1, <1>3, <2>2
    <3> HIDE DEF j
    <3>2. t[i] = Rest[j]
      BY <1>3, <3>1
    <3>3. ASSUME NEW m \in 1..(i - 1), NEW k \in 1..Len(Rest[j].todo)
          PROVE  Apart(t[m].dir, Rest[j].todo[k].path)
      <4>1. CASE m = 1
        BY <1>2, <1>3, <3>1, <4>1, RestIsAfter
      <4>2. CASE m # 1
        <5> DEFINE n == m - 1
        <5>1. n \in 1..(j - 1) /\ n \in 1..Len(Rest) /\ m = n + 1
          BY <1>1, <3>1, <4>2
        <5> HIDE DEF n
        <5>2. t[m] = Rest[n]
          BY <1>3, <5>1
        <5> QED
          BY <1>4, <3>1, <5>1, <5>2 DEF Sorted
      <4> QED
        BY <4>1, <4>2
    <3> QED
      BY <1>4, <3>1, <3>2, <3>3 DEF Sorted
  <2> QED
    BY <2>1, <2>2
<1>6. Sorted(job, tree, t)
  BY <1>5 DEF Sorted
<1> QED
  BY <1>6 DEF t, f

LEMMA QuietSkip ==
    ASSUME StackInv, QuietInv, SkipDeep
    PROVE  QuietInv'
<1>1. /\ Visiting /\ step = "visit" /\ TooDeep(job.handler, job.req, Next1.path)
      /\ step' = "visit" /\ stack' = Rest /\ UNCHANGED <<tree, job, out, changes>>
      /\ job \in Jobs /\ tree \in Trees
  BY DEF SkipDeep, Visiting, StackInv
<1>2. ASSUME changes = 0 PROVE Sorted(job, tree, stack)
  BY <1>1, <1>2 DEF QuietInv
<1>3. ASSUME changes = 0 PROVE Sorted(job, tree, Rest)
  BY <1>1, <1>2, <1>3, SortedRest
<1>4. ASSUME NEW p \in ToVisit(job, tree)
      PROVE  StillToCome(Rest, "visit", p) <=> StillToCome(stack, step, p)
  <2>1. p \in Dirs
    BY <1>1, TurnsOK DEF Paths
  <2>2. ~Covers(Next1, p)
    <3>1. SUFFICES ASSUME Covers(Next1, p) PROVE FALSE
      OBVIOUS
    <3> DEFINE x == Next1.path
    <3>2. x \in Dirs /\ Len(job.req.sourceRoot) < Len(x)
      BY <1>1, HeadEntry
    <3>3. OnWay(x, p)
      <4>1. OnWay(p, p)
        BY <2>1, OnWayIs
      <4> QED
        BY <3>1, <4>1 DEF Covers
    <3> HIDE DEF x
    <3>4. x \in ToVisit(job, tree)
      BY <1>1, <3>2, <3>3, OnTheWayThere
    <3>5. ~TooDeep(job.handler, job.req, x)
      BY <1>1, <3>2, <3>4, ToVisitIs
    <3> QED
      BY <1>1, <3>5 DEF x
  <2>3. StillToCome(stack, step, p) => StillToCome(Rest, "visit", p)
    BY <1>1, <2>2, RestCovers DEF StillToCome
  <2>4. ASSUME StillToCome(Rest, "visit", p) PROVE StillToCome(stack, step, p)
    BY <1>1, <2>4, RestWas DEF StillToCome, LeftIn
  <2> QED
    BY <2>3, <2>4
<1> QED
  BY <1>1, <1>3, <1>4, QuietGoesOn

LEMMA QuietLeave ==
    ASSUME StackInv, QuietInv, Leave
    PROVE  QuietInv'
<1>1. /\ step = "visit" /\ stack[1].todo = << >> /\ stack \in Seq(Frames) /\ stack # << >>
      /\ job \in Jobs /\ tree \in Trees
      /\ \/ Len(stack) = 1 /\ Ends(out)
         \/ /\ Len(stack) # 1 /\ stack' = Tail(stack)
            /\ UNCHANGED <<tree, job, step, out, changes, lasting>>
  BY DEF Leave, StackInv
<1>2. \A p : ~LeftIn(stack[1], p)
  BY <1>1 DEF LeftIn
<1>3. CASE Len(stack) = 1 /\ Ends(out)
  <2>1. step' = "done" /\ UNCHANGED <<tree, job, changes>> /\ out' = out
    BY <1>3 DEF Ends
  <2>2. ASSUME changes = 0 PROVE out = Materialize(job.handler, job.req, tree)
    <3>1. /\ IsDir(tree, job.req.sourceRoot)
          /\ \E k \in 0..Visits(job, tree) : UpTo(job, tree, stack, step, out, k)
      BY <1>1, <2>2 DEF QuietInv
    <3>2. PICK k \in 0..Visits(job, tree) : UpTo(job, tree, stack, step, out, k)
      BY <3>1
    <3>3. \A p : ~StillToCome(stack, step, p)
      BY <1>1, <1>2, <1>3 DEF StillToCome
    <3>4. Visits(job, tree) \in Nat
      BY <1>1, TurnsOK
    <3>5. k = Visits(job, tree)
      <4>1. \A i \in 1..Visits(job, tree) : ~(i > k)
        BY <3>2, <3>3 DEF UpTo
      <4> QED
        BY <3>4, <4>1
    <3> QED
      BY <1>1, <3>1, <3>2, <3>5, StatesAre DEF UpTo
  <2> QED
    BY <2>1, <2>2 DEF QuietInv
<1>4. CASE /\ Len(stack) # 1 /\ stack' = Tail(stack)
           /\ UNCHANGED <<tree, job, step, out, changes, lasting>>
  <2>1. /\ Len(Tail(stack)) = Len(stack) - 1 /\ Len(stack) \in Nat /\ Len(stack) # 0
        /\ \A i \in 1..(Len(stack) - 1) : Tail(stack)[i] = stack[i + 1]
    BY <1>1, <1>4, PopOK
  <2> DEFINE t == Tail(stack)
  <2> HIDE DEF t
  <2>2. Len(t) = Len(stack) - 1 /\ \A i \in 1..Len(t) : i + 1 \in 1..Len(stack) /\ t[i] = stack[i + 1]
    BY <2>1 DEF t
  <2>3. ASSUME changes = 0 PROVE Sorted(job, tree, t)
    <3>1. Sorted(job, tree, stack)
      BY <1>1, <2>3 DEF QuietInv
    <3>2. ASSUME NEW i \in 1..Len(t)
          PROVE  /\ Entered(job, tree, t[i].dir)
                 /\ InTurn(tree, t[i].todo)
                 /\ \A m \in 1..(i - 1) : \A k \in 1..Len(t[i].todo) :
                        Apart(t[m].dir, t[i].todo[k].path)
      <4>1. \A m \in 1..(i - 1) : m \in 1..Len(t) /\ m + 1 \in 1..((i + 1) - 1)
        BY <2>1, <2>2
      <4>2. i + 1 \in 1..Len(stack) /\ t[i] = stack[i + 1]
        BY <2>2
      <4> QED
        BY <2>2, <3>1, <4>1, <4>2 DEF Sorted
    <3> QED
      BY <3>2 DEF Sorted
  <2>4. ASSUME NEW p \in ToVisit(job, tree)
        PROVE  StillToCome(t, "visit", p) <=> StillToCome(stack, step, p)
    <3>1. ASSUME StillToCome(stack, step, p) PROVE StillToCome(t, "visit", p)
      <4>1. PICK i \in 1..Len(stack) : LeftIn(stack[i], p)
        BY <1>1, <3>1 DEF StillToCome
      <4>2. i # 1
        BY <1>2, <4>1
      <4> DEFINE k == i - 1
      <4>3. k \in 1..Len(t) /\ k + 1 = i
        BY <2>1, <2>2, <4>2
      <4> HIDE DEF k
      <4>4. t[k] = stack[i]
        BY <2>2, <4>3
      <4> QED
        BY <4>1, <4>3, <4>4 DEF StillToCome
    <3>2. ASSUME StillToCome(t, "visit", p) PROVE StillToCome(stack, step, p)
      BY <2>2, <3>2 DEF StillToCome
    <3> QED
      BY <3>1, <3>2
  <2>5. step \in {"read", "visit"} /\ "visit" \in {"read", "visit"}
        /\ step' = "visit" /\ stack' = t /\ UNCHANGED <<tree, job, out, changes>>
    BY <1>1, <1>4 DEF t
  <2> QED
    BY <2>3, <2>4, <2>5, QuietGoesOn
<1> QED
  BY <1>1, <1>3, <1>4

\* The entry at hand is the next that Materialize takes.
LEMMA NextTurn ==
    ASSUME StackInv, Visiting, Sorted(job, tree, stack), NEW k \in 0..Visits(job, tree),
           UpTo(job, tree, stack, step, out, k), Next1.path \in ToVisit(job, tree)
    PROVE  k + 1 \in 1..Visits(job, tree) /\ Turns(job, tree)[k + 1] = Next1.path
<1> DEFINE x == Next1.path
           n == Visits(job, tree)
           list == Turns(job, tree)
           y == list[k + 1]
<1>1. job \in Jobs /\ tree \in Trees /\ step = "visit"
  BY DEF StackInv, Visiting
<1>2. /\ n \in Nat /\ list \in [1..n -> ToVisit(job, tree)] /\ ToVisit(job, tree) \subseteq Paths
      /\ \A p \in ToVisit(job, tree) : \E i \in 1..n : list[i] = p
      /\ \A i, l \in 1..n : WalkedBefore(list[i], list[l]) <=> i < l
  BY <1>1, TurnsOK
<1>3. \A i \in 1..n : StillToCome(stack, "visit", list[i]) <=> i > k
  BY <1>1 DEF UpTo
<1>4. /\ x \in Dirs /\ 1 \in 1..Len(stack) /\ Next1 = stack[1].todo[1]
      /\ 1 \in 1..Len(stack[1].todo)
  BY HeadEntry
<1>5. StillToCome(stack, "visit", x)
  BY <1>4 DEF StillToCome, LeftIn, Covers
<1>6. x \in ToVisit(job, tree) /\ k \in Nat
  OBVIOUS
<1>7. \A p : StillToCome(stack, "visit", p) =>
          Covers(Next1, p) \/ \E i \in 1..Len(Rest) : LeftIn(Rest[i], p)
  BY <1>1, RestCovers
<1>8. \A p \in Dirs : \A i \in 1..Len(Rest) : LeftIn(Rest[i], p) => Apart(x, p)
  BY LeftIsAfter
<1> HIDE DEF n, list
<1>9. PICK i \in 1..n : list[i] = x
  BY <1>2, <1>6 DEF list, n
<1>10. i > k /\ k + 1 \in 1..n
  BY <1>2, <1>3, <1>5, <1>6, <1>9
<1>11. StillToCome(stack, "visit", y) /\ y \in ToVisit(job, tree)
  BY <1>2, <1>3, <1>6, <1>10
<1>12. y \in Dirs /\ y \in Paths /\ x \in Paths
  BY <1>2, <1>6, <1>11 DEF Paths
<1> HIDE DEF x, y
<1>13. x = y \/ WalkedBefore(x, y)
  <2>1. CASE Covers(Next1, y)
    <3>1. OnWay(y, y)
      BY <1>12, OnWayIs
    <3>2. OnWay(x, y)
      BY <2>1, <3>1 DEF Covers, x
    <3>3. /\ Len(x) \in Nat /\ Len(y) \in Nat /\ Len(x) <= Len(y)
          /\ \A l \in 1..Len(x) : y[l] = x[l]
      BY <1>4, <1>12, <3>2, OnWayIs DEF x
    <3>4. CASE Len(x) = Len(y)
      <4>1. x = y
        BY <1>12, <3>3, <3>4, SeqEqual DEF Dirs, Paths
      <4> QED
        BY <4>1
    <3>5. CASE Len(x) < Len(y)
      BY <1>12, <3>3, <3>5, WalkedBeforeIs
    <3> QED
      BY <3>3, <3>4, <3>5
  <2>2. CASE \E l \in 1..Len(Rest) : LeftIn(Rest[l], y)
    BY <1>8, <1>12, <2>2, ApartIsBefore DEF x
  <2> QED
    BY <1>7, <1>11, <2>1, <2>2
<1>14. ~WalkedBefore(x, y)
  <2>1. WalkedBefore(list[i], list[k + 1]) <=> i < k + 1
    BY <1>2, <1>10
  <2>2. ~(i < k + 1)
    BY <1>2, <1>6, <1>10
  <2> QED
    BY <1>9, <2>1, <2>2 DEF y
<1> QED
  BY <1>10, <1>13, <1>14 DEF x, y, list, n

\* After it, exactly what was to come, but the entry itself, is to come.
LEMMA AfterEntry ==
    ASSUME StackInv, Visiting, Sorted(job, tree, stack), NEW d,
           d = IndexDecision(job.req, Next1.path, tree[Next1.path]),
           Next1.path \in ToVisit(job, tree), NEW p \in ToVisit(job, tree)
    PROVE  LET onward == Deeper(Next1, d)
           IN  StillToCome(onward.stack, onward.step, p)
               <=> StillToCome(stack, "visit", p) /\ p # Next1.path
<1> DEFINE x == Next1.path
           onward == Deeper(Next1, d)
           f == [dir |-> Next1.path, todo |-> << >>]
           down == <<f>> \o Rest
<1>1. job \in Jobs /\ tree \in Trees /\ step = "visit"
  BY DEF StackInv, Visiting
<1>2. p \in Dirs /\ x \in Dirs /\ p \in Paths
  BY <1>1, TurnsOK DEF Paths
<1>3. /\ Rest \in Seq(Frames) /\ Len(Rest) \in Nat /\ Len(Rest) = Len(stack)
      /\ \A i \in 1..Len(Rest) : LeftIn(Rest[i], p) => LeftIn(stack[i], p)
  BY RestWas DEF LeftIn
<1>4. f \in Frames /\ f.dir = x /\ f.todo = << >> /\ Len(f.todo) = 0
  BY <1>2 DEF Frames
<1>5. \/ Next1.isDir /\ ~Prunes(d) /\ onward.step = "read" /\ onward.stack = down
      \/ ~(Next1.isDir /\ ~Prunes(d)) /\ onward.step = "visit" /\ onward.stack = Rest
  <2> HIDE DEF down
  <2> QED
    BY DEF Deeper, down, f
<1>6. Len(job.req.sourceRoot) < Len(x)
  BY HeadEntry
<1>7. 1 \in 1..Len(stack) /\ Next1 = stack[1].todo[1] /\ 1 \in 1..Len(stack[1].todo)
  BY HeadEntry
<1> HIDE DEF f
<1>8. Len(down) = Len(Rest) + 1 /\ down[1] = f /\ \A i \in 1..Len(Rest) : down[i + 1] = Rest[i]
  BY <1>3, <1>4, PushOK
<1> HIDE DEF x, down, onward
<1>9. Covers(Next1, p) => OnWay(x, p)
  <2>1. OnWay(p, p)
    BY <1>2, OnWayIs
  <2> QED
    BY <2>1 DEF Covers, x
<1>10. OnWay(x, p) /\ x # p => Len(x) < Len(p)
  <2>1. ASSUME OnWay(x, p), x # p PROVE Len(x) < Len(p)
    <3>1. Len(x) \in Nat /\ Len(p) \in Nat /\ Len(x) <= Len(p) /\ \A i \in 1..Len(x) : p[i] = x[i]
      BY <1>2, <2>1, OnWayIs
    <3>2. Len(x) # Len(p)
      BY <1>2, <2>1, <3>1, SeqEqual DEF Dirs
    <3> QED
      BY <3>1, <3>2
  <2> QED
    BY <2>1
<1>11. \A i \in 1..Len(Rest) : LeftIn(Rest[i], p) => p # x
  <2>1. SUFFICES ASSUME NEW i \in 1..Len(Rest), LeftIn(Rest[i], p), p = x PROVE FALSE
    OBVIOUS
  <2>2. Apart(x, p)
    BY <1>2, <2>1, LeftIsAfter DEF x
  <2>3. WalkedBefore(p, p)
    BY <1>2, <2>1, <2>2, ApartIsBefore
  <2>4. \E k \in 1..Visits(job, tree) : Turns(job, tree)[k] = p
    BY <1>1, TurnsOK
  <2>5. PICK k \in 1..Visits(job, tree) : Turns(job, tree)[k] = p
    BY <2>4
  <2>6. WalkedBefore(Turns(job, tree)[k], Turns(job, tree)[k]) <=> k < k
    BY <1>1, TurnsOK
  <2>7. k \in Nat
    BY <1>1, TurnsOK
  <2> QED
    BY <2>3, <2>5, <2>6, <2>7
<1>12. ASSUME StillToCome(onward.stack, onward.step, p)
       PROVE  StillToCome(stack, "visit", p) /\ p # x
  <2>1. CASE Next1.isDir /\ ~Prunes(d) /\ onward.step = "read" /\ onward.stack = down
    <3>1. CASE OnWay(x, p) /\ x # p
      <4>1. Covers(Next1, p)
        BY <2>1, <3>1 DEF Covers, x
      <4> QED
        BY <1>7, <3>1, <4>1 DEF StillToCome, LeftIn
    <3>2. CASE \E i \in 1..Len(down) : LeftIn(down[i], p)
      <4>1. PICK i \in 1..Len(down) : LeftIn(down[i], p)
        BY <3>2
      <4>2. i # 1
        BY <1>4, <1>8, <4>1 DEF LeftIn
      <4> DEFINE k == i - 1
      <4>3. k \in 1..Len(Rest) /\ k + 1 = i
        BY <1>3, <1>8, <4>2
      <4> HIDE DEF k
      <4>4. LeftIn(Rest[k], p)
        BY <1>8, <4>1, <4>3
      <4> QED
        BY <1>3, <1>11, <4>3, <4>4 DEF StillToCome
    <3> QED
      BY <1>4, <1>8, <1>12, <2>1, <3>1, <3>2 DEF StillToCome
  <2>2. CASE onward.step = "visit" /\ onward.stack = Rest
    <3>1. PICK i \in 1..Len(Rest) : LeftIn(Rest[i], p)
      BY <1>12, <2>2 DEF StillToCome
    <3> QED
      BY <1>3, <1>11, <3>1 DEF StillToCome
  <2> QED
    BY <1>5, <2>1, <2>2
<1>13. ASSUME StillToCome(stack, "visit", p), p # x
       PROVE  StillToCome(onward.stack, onward.step, p)
  <2>1. CASE Covers(Next1, p)
    <3>1. OnWay(x, p) /\ Len(x) < Len(p) /\ Next1.isDir
      BY <1>9, <1>10, <1>13, <2>1 DEF Covers, x
    <3>2. ~Prunes(IndexDecision(job.req, x, tree[x]))
      BY <1>1, <1>2, <1>6, <3>1, OnTheWayThere
    <3>3. onward.step = "read" /\ onward.stack = down
      BY <1>5, <3>1, <3>2 DEF x
    <3> QED
      BY <1>4, <1>8, <1>13, <3>1, <3>3 DEF StillToCome
  <2>2. CASE \E i \in 1..Len(Rest) : LeftIn(Rest[i], p)
    <3>1. PICK i \in 1..Len(Rest) : LeftIn(Rest[i], p)
      BY <2>2
    <3>2. i + 1 \in 1..Len(down) /\ down[i + 1] = Rest[i]
      BY <1>3, <1>8
    <3> QED
      BY <1>5, <3>1, <3>2 DEF StillToCome
  <2> QED
    BY <1>1, <1>13, <2>1, <2>2, RestCovers
<1> QED
  BY <1>12, <1>13 DEF onward, x

LEMMA QuietVisit ==
    ASSUME StackInv, QuietInv, Visit
    PROVE  QuietInv'
<1> DEFINE x == Next1.path
           info == tree[x]
           d == IndexDecision(job.req, x, info)
           result == VisitEntry(job.handler, job.req, out, x, info)
           onward == Deeper(Next1, d)
           n == Visits(job, tree)
<1>1. /\ Visiting /\ step = "visit" /\ x \in DOMAIN tree /\ ~TooDeep(job.handler, job.req, x)
      /\ \/ result.err # "none" /\ Ends(result)
         \/ /\ result.err = "none" /\ out' = result
            /\ step' = onward.step /\ stack' = onward.stack /\ UNCHANGED <<tree, job, changes>>
      /\ job \in Jobs /\ tree \in Trees /\ out.err = "none"
  BY DEF Visit, Visiting, Exists, StackInv
<1>2. CASE changes # 0
  <2>1. changes' = changes /\ step' # "stat"
    BY <1>1 DEF Ends, Deeper
  <2> QED
    BY <1>2, <2>1 DEF QuietInv
<1>3. CASE changes = 0
  <2>1. /\ IsDir(tree, job.req.sourceRoot) /\ Sorted(job, tree, stack)
        /\ \E k \in 0..n : UpTo(job, tree, stack, step, out, k)
    BY <1>1, <1>3 DEF QuietInv
  <2>2. PICK k \in 0..n : UpTo(job, tree, stack, step, out, k)
    BY <2>1
  <2>3. /\ x \in Dirs /\ stack[1].dir \in Dirs /\ ChildOf(x, stack[1].dir)
        /\ OnWay(job.req.sourceRoot, stack[1].dir) /\ 1 \in 1..Len(stack)
        /\ Next1 = stack[1].todo[1] /\ 1 \in 1..Len(stack[1].todo)
    BY <1>1, HeadEntry
  <2>4. Entered(job, tree, stack[1].dir) /\ InTurn(tree, stack[1].todo)
    BY <2>1, <2>3 DEF Sorted
  <2> HIDE DEF result, onward, d, info, x, n
  <2>5. x \in ToVisit(job, tree)
    BY <1>1, <2>3, <2>4, EntryIsToVisit
  <2>6. k + 1 \in 1..n /\ Turns(job, tree)[k + 1] = x
    BY <1>1, <2>1, <2>2, <2>5, NextTurn DEF n, x
  <2>7. n \in Nat /\ k \in Nat /\ k \in 0..(n - 1) /\ k + 1 \in 0..n
    <3>1. n \in Nat
      BY <1>1, TurnsOK DEF n
    <3> QED
      BY <2>6, <3>1
  <2>8. States(job, tree)[k + 1] = result
    <3>1. States(job, tree)[k + 1]
              = VisitNext(job.handler, job.req, tree, States(job, tree)[k], Turns(job, tree)[k + 1])
      BY <1>1, <2>1, <2>7, StatesAre DEF n
    <3>2. States(job, tree)[k] = out
      BY <2>2 DEF UpTo
    <3> QED
      BY <1>1, <2>6, <3>1, <3>2 DEF VisitNext, result, info
  <2>9. CASE result.err # "none" /\ Ends(result)
    <3>1. Materialize(job.handler, job.req, tree) = States(job, tree)[k + 1]
      BY <1>1, <2>1, <2>7, <2>8, <2>9, StopsAtError DEF n
    <3> QED
      BY <2>8, <2>9, <3>1 DEF Ends, QuietInv
  <2>10. CASE /\ result.err = "none" /\ out' = result
              /\ step' = onward.step /\ stack' = onward.stack /\ UNCHANGED <<tree, job, changes>>
    <3>1. /\ \A p \in ToVisit(job, tree) : StillToCome(onward.stack, onward.step, p)
                 <=> StillToCome(stack, "visit", p) /\ p # x
      BY <1>1, <2>1, <2>5, AfterEntry DEF onward, d, info, x
    <3>2. onward.step \in {"read", "visit"}
      BY DEF onward, Deeper
    <3>3. Sorted(job, tree, onward.stack)
      <4>1. CASE Next1.isDir /\ ~Prunes(d)
        <5>1. IsDir(tree, x)
          BY <2>3, <2>4, <4>1 DEF InTurn, x
        <5>2. Entered(job, tree, x)
          BY <2>5, <4>1, <5>1 DEF Entered, d, info
        <5>3. onward.stack = <<[dir |-> Next1.path, todo |-> << >>]>> \o Rest
          BY <4>1 DEF onward, Deeper
        <5> QED
          BY <1>1, <2>1, <5>2, <5>3, SortedDown DEF x
      <4>2. CASE ~(Next1.isDir /\ ~Prunes(d))
        <5>1. onward.stack = Rest
          BY <4>2 DEF onward, Deeper
        <5> QED
          BY <1>1, <2>1, <5>1, SortedRest
      <4> QED
        BY <4>1, <4>2
    <3>4. UpTo(job, tree, onward.stack, onward.step, result, k + 1)
      <4>1. ASSUME NEW i \in 1..n
            PROVE  StillToCome(onward.stack, onward.step, Turns(job, tree)[i]) <=> i > k + 1
        <5>1. /\ Turns(job, tree)[i] \in ToVisit(job, tree)
              /\ WalkedBefore(Turns(job, tree)[i], Turns(job, tree)[k + 1]) <=> i < k + 1
              /\ WalkedBefore(Turns(job, tree)[k + 1], Turns(job, tree)[i]) <=> k + 1 < i
              /\ ~WalkedBefore(Turns(job, tree)[k + 1], Turns(job, tree)[k + 1])
          BY <1>1, <2>6, <2>7, TurnsOK DEF n
        <5>2. StillToCome(stack, "visit", Turns(job, tree)[i]) <=> i > k
          BY <1>1, <2>2 DEF UpTo, n
        <5>3. Turns(job, tree)[i] # x <=> i # k + 1
          BY <2>6, <2>7, <5>1
        <5>4. i \in Nat
          BY <2>7
        <5> QED
          BY <2>7, <3>1, <5>1, <5>2, <5>3, <5>4
      <4> QED
        BY <2>8, <4>1 DEF UpTo, n
    <3>5. \E i \in 0..n : UpTo(job, tree, onward.stack, onward.step, result, i)
      BY <2>7, <3>4
    <3> QED
      BY <2>1, <2>10, <3>2, <3>3, <3>5 DEF QuietInv, n
  <2> QED
    BY <1>1, <2>9, <2>10
<1> QED
  BY <1>2, <1>3

\* No entry is gone from a source that stays as it is.
LEMMA QuietGone ==
    ASSUME StackInv, QuietInv, EntryGone
    PROVE  QuietInv'
<1>1. Visiting /\ step = "visit" /\ ~Exists(tree, Next1.path) /\ changes' = changes /\ step' = "done"
  BY DEF EntryGone, Ends, Visiting
<1>2. ASSUME changes = 0 PROVE FALSE
  <2>1. Sorted(job, tree, stack)
    BY <1>1, <1>2 DEF QuietInv
  <2>2. 1 \in 1..Len(stack) /\ Next1 = stack[1].todo[1] /\ 1 \in 1..Len(stack[1].todo)
    BY <1>1, HeadEntry
  <2> QED
    BY <1>1, <2>1, <2>2 DEF Sorted, InTurn, Exists
<1> QED
  BY <1>1, <1>2 DEF QuietInv

LEMMA QuietNext == StackInv /\ QuietInv /\ [WalkNext]_walkVars => QuietInv'
<1> SUFFICES ASSUME StackInv, QuietInv, [WalkNext]_walkVars PROVE QuietInv'
  OBVIOUS
<1>1. CASE Walks
  BY <1>1, QuietStat, QuietRead, QuietSkip, QuietGone, QuietVisit, QuietLeave DEF Walks
<1>2. ASSUME NEW j \in Jobs, Start(j) PROVE QuietInv'
  BY <1>2 DEF Start, QuietInv
<1>3. ASSUME NEW t \in Trees, SourceChanges(t) PROVE QuietInv'
  <2>1. changes \in Nat
    BY WalkAssumption DEF StackInv
  <2>2. changes' # 0 /\ step' = step /\ out' = out
    BY <1>3, <2>1 DEF SourceChanges
  <2> QED
    BY <2>2 DEF QuietInv
<1>4. CASE UNCHANGED walkVars
  BY <1>4 DEF walkVars, QuietInv, UpTo, Sorted
<1> QED
  BY <1>1, <1>2, <1>3, <1>4 DEF WalkNext

(* A walk that no change of the source disturbs makes what Materialize makes *)
(* of that source: the recursion with its stack, its depth bound and its     *)
(* pruning takes the entries one by one in the order of their paths.         *)
THEOREM QuietWalkIsMaterialize == WalkSpec => []UndisturbedWalkIsMaterialize
<1>1. WalkInit => QuietInv
  BY DEF WalkInit, QuietInv
<1>2. WalkInit => StackInv
  BY StackInit
<1>3. StackInv /\ [WalkNext]_walkVars => StackInv'
  BY StackNext
<1>4. StackInv /\ QuietInv /\ [WalkNext]_walkVars => QuietInv'
  BY QuietNext
<1>5. QuietInv => UndisturbedWalkIsMaterialize
  BY DEF QuietInv, UndisturbedWalkIsMaterialize
<1> QED
  BY <1>1, <1>2, <1>3, <1>4, <1>5, PTL DEF WalkSpec

=============================================================================
