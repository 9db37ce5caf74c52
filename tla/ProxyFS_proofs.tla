--------------------------- MODULE ProxyFS_proofs ---------------------------
(* Proofs about ProxyFS for every router, source, set of callers and bound:  *)
(* its state is well typed and a lookup is fresh after an invalidation.      *)
(*                                                                           *)
(* The inductive invariant says, beside the types, what each step of a call  *)
(* has established for the next ones (CallOK) and what an entry promises its *)
(* readers (EntryOK). Every action then either replaces one call, or stores  *)
(* one entry, or drops entries and raises the floor: three lemmas, CallStep, *)
(* StoreStep and DropStep, and one step per action that meets their          *)
(* hypotheses.                                                               *)
EXTENDS ProxyFS, SequenceTheorems, TLAPS

\* The keys that a call in the state r may still store an entry under.
MayFill(r, key) ==
    \/ r.step \in {"finish", "put"} /\ key = KeyFor(r.kind, r.path)
    \/ /\ r.kind = "dir"
       /\ key.kind = "node"
       /\ \/ r.step = "finish" /\ ChildOf(key.path, r.path)
          \/ r.step = "put" /\ \E n \in r.answer.nodes : n.path = key.path
          \/ r.step = "children" /\ \E n \in r.todo : n.path = key.path

\* An answer that a lookup of the kind and path goes on with.
AnswerOK(answer, kind, path) ==
    /\ kind = "node" /\ answer.err = "none" => answer.nodes # {}
    /\ kind = "dir" => \A n \in answer.nodes : ChildOf(n.path, path)

(* A call in the state r, when the floor is fl and the source's version v.   *)
CallOK(r, fl, v) ==
    /\ r \in Calls
    /\ r.first <= v
    /\ r.step \in {"get", "read"} => r.bar <= fl[KeyFor(r.kind, r.path)]
    /\ r.step \in {"finish", "put", "children"} => r.first >= 1 /\ r.first >= r.bar
    /\ r.step = "put" => Stored(r.answer) /\ AnswerOK(r.answer, r.kind, r.path)
    /\ r.step = "children" =>
           /\ r.kind = "dir"
           /\ Stored(r.answer)
           /\ \A n \in r.todo : ChildOf(n.path, r.path)
    /\ r.step = "opened" => r.answer.nodes # {} /\ r.first >= r.bar
    /\ r.step = "done" /\ r.first # 0 => r.first >= r.bar
    /\ \A key \in Keys : MayFill(r, key) => r.first >= fl[key]

EntryOK(e, fl, v) ==
    /\ e \in Entries
    /\ e.asOf \in 1..v
    /\ e.asOf >= fl[e.key]
    /\ ~e.negative /\ e.key.kind = "node" => e.nodes # {}

GhostsOK ==
    /\ clock \in Nat
    /\ history \in Seq([tree : Trees, since : Nat]) /\ history # << >>
    /\ Version <= MaxVersions
    /\ floor \in [Keys -> Nat]
    /\ \A key \in Keys : floor[key] <= Version

IInv ==
    /\ GhostsOK
    /\ call \in [Callers -> Calls]
    /\ \A c \in Callers : CallOK(call[c], floor, Version)
    /\ \A e \in entries : EntryOK(e, floor, Version)
    /\ OneEntryPerKey

---------------------------------------------------------------------------
(* The helpers are well typed.                                               *)

\* The keys that lookups build are keys.
LEMMA KeyForOK ==
    ASSUME NEW kind \in CacheKinds, NEW path \in Targets
    PROVE  KeyFor(kind, path) \in Keys /\ KeyFor(kind, path).kind = kind
                                       /\ KeyFor(kind, path).path = path
BY DEF KeyFor, Keys

\* An error is an answer without nodes.
LEMMA FailedOK ==
    ASSUME NEW err \in Errors
    PROVE  /\ Failed(err) \in Answers
           /\ Failed(err).err = err /\ Failed(err).nodes = {}
BY DEF Failed, Answers

\* The state of a caller that is in no call is a call.
LEMMA NoCallOK ==
    /\ NoCall \in Calls
    /\ NoCall.step = "idle" /\ NoCall.first = 0 /\ NoCall.bar = 0
BY FailedOK, ProxyFSAssumption
   DEF NoCall, Calls, Errors, Steps, LookupOps, CacheKinds

\* So is the end of a call that returns no answer.
LEMMA ReturnedOK ==
    ASSUME NEW err \in Errors
    PROVE  /\ Returned(err) \in Calls
           /\ Returned(err).step = "done" /\ Returned(err).first = 0
BY FailedOK, NoCallOK DEF Returned, Calls, NoCall, Steps

\* An EXCEPT of a call is again a call.
LEMMA SetAnswerOK ==
    ASSUME NEW r \in Calls, NEW step \in Steps, NEW first \in Nat, NEW readAt \in Nat,
           NEW answer \in Answers, NEW todo \in SUBSET Nodes
    PROVE  [r EXCEPT !.step = step, !.first = first, !.answer = answer,
                     !.readAt = readAt, !.todo = todo] \in Calls
BY DEF Calls

\* The calls that are not looking anything up, or whose result is not an answer.
LEMMA IdleOK ==
    ASSUME NEW fl, NEW v \in Nat, NEW r \in Calls, r.first = 0,
           r.step \in {"idle", "done", "dropparent"}
    PROVE  CallOK(r, fl, v)
BY DEF CallOK, MayFill, Calls

\* A lookup that begins has the floor under its key as its bar.
LEMMA LookupOK ==
    ASSUME GhostsOK,
           NEW op \in LookupOps, NEW kind \in CacheKinds, NEW path \in Targets
    PROVE  CallOK(Lookup(op, kind, path), floor, Version)
<1>1. KeyFor(kind, path) \in Keys
  BY KeyForOK
<1>2. floor[KeyFor(kind, path)] \in Nat
  BY <1>1 DEF GhostsOK
<1>3. Lookup(op, kind, path) \in Calls
  BY <1>2, FailedOK DEF Lookup, NoCall, Calls, GhostsOK, Steps, Errors
<1>4. Version \in Nat
  BY DEF GhostsOK, Version
<1>5. /\ Lookup(op, kind, path).step = "get" /\ Lookup(op, kind, path).first = 0
      /\ Lookup(op, kind, path).kind = kind /\ Lookup(op, kind, path).path = path
      /\ Lookup(op, kind, path).bar = floor[KeyFor(kind, path)]
  BY DEF Lookup, NoCall
<1> QED
  <2> DEFINE r == Lookup(op, kind, path)
  <2> HIDE DEF r
  <2> SUFFICES CallOK(r, floor, Version)
    BY DEF r
  <2>1. /\ r \in Calls /\ r.step = "get" /\ r.first = 0
        /\ r.bar = floor[KeyFor(r.kind, r.path)] /\ r.bar \in Nat
    BY <1>2, <1>3, <1>5 DEF r
  <2>2. r.first <= Version
    BY <2>1, <1>4
  <2>3. r.bar <= floor[KeyFor(r.kind, r.path)]
    BY <2>1
  <2>4. \A key \in Keys : ~MayFill(r, key)
    BY <2>1 DEF MayFill
  <2> QED
    BY <2>1, <2>2, <2>3, <2>4 DEF CallOK

(* A lookup that is answered, from an entry or a fetch, may be old only as   *)
(* its bar allows; an Open that goes on has a node to go on with.            *)
LEMMA SettledOK ==
    ASSUME NEW c \in Callers, call[c] \in Calls, NEW fl, NEW v \in Nat,
           NEW answer \in Answers, NEW first \in 1..v, first >= call[c].bar,
           call[c].kind = "node" /\ answer.err = "none" => answer.nodes # {}
    PROVE  CallOK(Settled(c, answer, first), fl, v)
<1> DEFINE step == IF call[c].op = "open" /\ call[c].kind = "node" /\ answer.err = "none"
                   THEN "opened" ELSE "done"
<1>1. step \in {"opened", "done"} /\ (step = "opened" => answer.nodes # {})
  OBVIOUS
<1>2. Settled(c, answer, first) =
          [call[c] EXCEPT !.step = step, !.first = first, !.answer = answer,
                          !.readAt = 0, !.todo = {}]
  BY DEF Settled
<1> HIDE DEF step
<1>3. Settled(c, answer, first) \in Calls
  <2>1. step \in Steps /\ first \in Nat /\ 0 \in Nat /\ {} \in SUBSET Nodes
    BY <1>1 DEF Steps
  <2>2. [call[c] EXCEPT !.step = step, !.first = first, !.answer = answer,
                       !.readAt = 0, !.todo = {}] \in Calls
    BY ONLY <2>1, call[c] \in Calls, answer \in Answers, SetAnswerOK, Zenon
  <2> QED
    BY <2>2, <1>2
<1>4. /\ Settled(c, answer, first).step = step /\ Settled(c, answer, first).first = first
      /\ Settled(c, answer, first).answer = answer
      /\ Settled(c, answer, first).bar = call[c].bar
  BY <1>2 DEF Calls
<1> QED
  BY <1>1, <1>3, <1>4 DEF CallOK, MayFill

\* What RouterAssumption says of one answer.
LEMMA RouterAnswerOK ==
    ASSUME NEW states \in Spans, NEW kind \in CacheKinds, NEW path \in Targets,
           NEW answer \in RouterAnswers(states, kind, path)
    PROVE  answer \in Answers /\ AnswerOK(answer, kind, path)
BY RouterAssumption DEF AnswerOK

\* The entry made of an answer that is to be stored.
LEMMA EntryOfOK ==
    ASSUME GhostsOK, NEW key \in Keys, NEW answer \in Answers, Stored(answer),
           NEW nodes \in SUBSET Nodes, NEW first \in 1..Version, first >= floor[key],
           key.kind = "node" /\ answer.err = "none" => nodes # {}
    PROVE  EntryOK(EntryOf(key, answer, nodes, first), floor, Version)
             /\ EntryOf(key, answer, nodes, first).key = key
<1>1. TTLOf(answer) \in Int
  <2>1. CASE answer.err = "none"
    BY <2>1, ProxyFSAssumption DEF TTLOf, Answers
  <2>2. CASE answer.err # "none"
    BY <2>2, ProxyFSAssumption DEF TTLOf
  <2> QED
    BY <2>1, <2>2
<1>2. Expiry(TTLOf(answer)) \in Nat \cup {Never}
  BY <1>1 DEF Expiry, GhostsOK
<1>3. key.route \in RouteIDs
  BY RouterAssumption DEF Keys, KeyFor
<1>4. EntryOf(key, answer, nodes, first) \in Entries
  BY <1>2, <1>3 DEF EntryOf, Entries, Answers
<1> QED
  BY <1>4 DEF EntryOf, EntryOK

\* Every state in the history is a tree with a time.
LEMMA HistoryOK ==
    ASSUME GhostsOK
    PROVE  /\ Version \in Nat /\ Version >= 1
           /\ \A v \in 1..Version : history[v].tree \in Trees /\ history[v].since \in Nat
<1> DEFINE States == [tree : Trees, since : Nat]
<1>1. history \in Seq(States) /\ history # << >>
  BY DEF GhostsOK
<1>2. \A v \in 1..Len(history) : history[v] \in States
  <2> HIDE DEF States
  <2> QED
    BY <1>1, ElementOfSeq
<1>3. Len(history) \in Nat /\ Len(history) >= 1
  <2> HIDE DEF States
  <2> QED
    BY <1>1
<1> QED
  BY <1>2, <1>3 DEF Version

\* The bounds that the configuration gives.
LEMMA VersionsOK == MaxVersions \in Nat /\ MaxVersions >= 1
BY ProxyFSAssumption

\* The states between two versions are a span that a router may read over.
LEMMA SpanOK ==
    ASSUME GhostsOK, NEW v \in 1..Version, NEW w \in v..Version
    PROVE  /\ Span(v, w) \in Spans
           /\ Span(v, w) = [i \in 1..(w - v + 1) |-> Tree(v + i - 1)]
<1> DEFINE n == w - v + 1
<1>1. n \in 1..MaxVersions
  BY HistoryOK, VersionsOK DEF GhostsOK
<1>2. ASSUME NEW i \in 1..n PROVE Tree(v + i - 1) \in Trees
  <2>1. v + i - 1 \in 1..Version
    BY HistoryOK
  <2> QED
    BY <2>1, HistoryOK DEF Tree
<1>3. Span(v, w) = [i \in 1..n |-> Tree(v + i - 1)]
  BY DEF Span
<1>4. Span(v, w) \in [1..n -> Trees]
  <2> HIDE DEF n
  <2> QED
    BY <1>2, <1>3
<1> HIDE DEF n
<1>5. Span(v, w) \in Spans
  BY <1>1, <1>4 DEF Spans
<1> QED
  BY <1>5 DEF Span

\* A change of the source adds a version and leaves those before as they are.
LEMMA HistoryGrows ==
    ASSUME GhostsOK, NEW tree \in Trees, SourceChanges(tree)
    PROVE  /\ Version' = Version + 1
           /\ history'[Version + 1] = [tree |-> tree, since |-> clock]
           /\ \A v \in 1..Version : history'[v] = history[v]
<1> DEFINE States == [tree : Trees, since : Nat]
           new == [tree |-> tree, since |-> clock]
<1>1. history \in Seq(States) /\ new \in States
  BY DEF GhostsOK
<1>2. history' = Append(history, new)
  BY DEF SourceChanges
<1> HIDE DEF States, new
<1>3. /\ Len(history') = Len(history) + 1
      /\ history'[Len(history) + 1] = new
      /\ \A v \in 1..Len(history) : history'[v] = history[v]
  BY <1>1, <1>2, AppendProperties
<1> QED
  BY <1>3 DEF Version, new

---------------------------------------------------------------------------
(* The three ways in which an action of a caller changes the state.          *)

\* Only the call of c changes.
LEMMA CallStep ==
    ASSUME IInv, NEW c \in Callers, NEW r, CallOK(r, floor, Version),
           call' = [call EXCEPT ![c] = r], UNCHANGED <<entries, clock, history, floor>>
    PROVE  IInv'
<1>1. Version' = Version
  BY DEF Version
<1>2. r \in Calls
  BY DEF CallOK
<1>3. GhostsOK' /\ OneEntryPerKey' /\ call' \in [Callers -> Calls]
  BY <1>1, <1>2 DEF IInv, GhostsOK, OneEntryPerKey
<1>4. ASSUME NEW d \in Callers PROVE CallOK(call[d], floor, Version)'
  <2>1. CallOK(call'[d], floor, Version)
    BY DEF IInv
  <2> QED
    BY <2>1, <1>1
<1>5. ASSUME NEW e \in entries' PROVE EntryOK(e, floor', Version')
  BY <1>1 DEF IInv
<1> QED
  BY <1>3, <1>4, <1>5 DEF IInv

\* An entry is stored, or not, by c.
LEMMA StoreStep ==
    ASSUME IInv, NEW c \in Callers, NEW r, CallOK(r, floor, Version),
           NEW entry, EntryOK(entry, floor, Version),
           Put(entry) \/ UNCHANGED entries,
           call' = [call EXCEPT ![c] = r], UNCHANGED <<clock, history, floor>>
    PROVE  IInv'
<1>1. Version' = Version
  BY DEF Version
<1>2. r \in Calls
  BY DEF CallOK
<1>3. GhostsOK' /\ call' \in [Callers -> Calls]
  BY <1>1, <1>2 DEF IInv, GhostsOK
<1>4. OneEntryPerKey'
  BY DEF IInv, OneEntryPerKey, Put
<1>5. ASSUME NEW d \in Callers PROVE CallOK(call[d], floor, Version)'
  <2>1. CallOK(call'[d], floor, Version)
    BY DEF IInv
  <2> QED
    BY <2>1, <1>1
<1>6. ASSUME NEW e \in entries' PROVE EntryOK(e, floor', Version')
  BY <1>1 DEF IInv, Put
<1> QED
  BY <1>3, <1>4, <1>5, <1>6 DEF IInv

(* Entries are dropped by c and the floor is raised under keys that no entry *)
(* is left under. A lookup that may still store an answer under a raised key *)
(* has read the current version, for it would have overtaken the drop.       *)
LEMMA DropStep ==
    ASSUME IInv, NEW c \in Callers, NEW r \in Calls, r.first = 0,
           r.step \in {"done", "dropparent"},
           NEW dropped, entries' \subseteq entries,
           \A e \in entries' : e.key \notin dropped,
           floor' = Raised(dropped),
           call' = [call EXCEPT ![c] = r], UNCHANGED <<clock, history>>
    PROVE  IInv'
<1>1. Version' = Version /\ Version \in Nat
  BY DEF Version, IInv, GhostsOK
<1>2. ASSUME NEW k \in Keys
      PROVE  /\ floor'[k] \in Nat /\ floor'[k] <= Version /\ floor'[k] >= floor[k]
             /\ floor'[k] = floor[k] \/ (k \in dropped /\ ~Overtaken(k))
  BY <1>1 DEF IInv, GhostsOK, Raised
<1>3. GhostsOK' /\ OneEntryPerKey' /\ call' \in [Callers -> Calls]
  <2>1. floor' \in [Keys -> Nat]
    BY <1>2 DEF Raised
  <2> QED
    BY <1>1, <1>2, <2>1 DEF IInv, GhostsOK, OneEntryPerKey
<1>4. ASSUME NEW d \in Callers PROVE CallOK(call[d], floor, Version)'
  <2>1. CASE d = c
    <3>1. CallOK(r, floor', Version)
      BY <1>1, IdleOK
    <3> QED
      BY <2>1, <3>1, <1>1 DEF IInv
  <2>2. CASE d # c
    <3>1. CallOK(call[d], floor, Version) /\ call'[d] = call[d]
      BY <2>2 DEF IInv
    <3>2. call[d] \in Calls /\ call[d].first \in Nat /\ call[d].bar \in Nat
      BY <3>1 DEF CallOK, Calls
    <3>3. call[d].step \in {"get", "read"} =>
              call[d].bar <= floor'[KeyFor(call[d].kind, call[d].path)]
      <4>1. KeyFor(call[d].kind, call[d].path) \in Keys
        BY <3>2, KeyForOK DEF Calls
      <4>2. floor[KeyFor(call[d].kind, call[d].path)] \in Nat
        BY <4>1 DEF IInv, GhostsOK
      <4> QED
        BY <3>1, <3>2, <4>1, <4>2, <1>2 DEF CallOK
    <3>4. ASSUME NEW k \in Keys, MayFill(call[d], k) PROVE call[d].first >= floor'[k]
      <4>1. MayStore(d, k)
        BY <3>4 DEF MayFill, MayStore, CallKey, At
      <4>2. CASE floor'[k] = floor[k]
        BY <3>1, <3>4, <4>2 DEF CallOK
      <4>3. CASE ~Overtaken(k)
        BY <4>1, <4>3, <3>2, <1>1, <1>2 DEF Overtaken
      <4> QED
        BY <4>2, <4>3, <1>2
    <3>5. CallOK(call[d], floor', Version)
      BY <3>1, <3>3, <3>4 DEF CallOK
    <3> QED
      BY <3>1, <3>5, <1>1
  <2> QED
    BY <2>1, <2>2
<1>5. ASSUME NEW e \in entries' PROVE EntryOK(e, floor', Version')
  <2>1. EntryOK(e, floor, Version) /\ e.key \notin dropped
    BY DEF IInv
  <2>2. e.key \in Keys
    BY <2>1 DEF EntryOK, Entries
  <2>3. floor'[e.key] = floor[e.key]
    BY <2>1, <2>2, <1>2
  <2> QED
    BY <2>1, <2>3, <1>1 DEF EntryOK
<1> QED
  BY <1>3, <1>4, <1>5 DEF IInv

---------------------------------------------------------------------------
(* The initial state.                                                        *)

\* The invariant holds of an empty cache and idle callers.
LEMMA InitIInv == Init => IInv
<1> SUFFICES ASSUME Init PROVE IInv
  OBVIOUS
<1>1. Version = 1 /\ GhostsOK
  BY ProxyFSAssumption, VersionsOK DEF Init, Version, GhostsOK
<1>2. \A c \in Callers : call[c] = NoCall
  BY DEF Init
<1>3. \A c \in Callers : CallOK(call[c], floor, Version)
  BY <1>1, <1>2, NoCallOK, IdleOK
<1>4. call \in [Callers -> Calls]
  BY NoCallOK DEF Init
<1> QED
  BY <1>1, <1>3, <1>4 DEF Init, CacheInit, IInv, OneEntryPerKey

---------------------------------------------------------------------------
(* The steps of a lookup.                                                    *)

\* A call that ends with an error of its own, or none, keeps it.
LEMMA ReturnsIInv ==
    ASSUME IInv, NEW c \in Callers, NEW err \in Errors,
           call' = [call EXCEPT ![c] = Returned(err)],
           UNCHANGED <<entries, clock, history, floor>>
    PROVE  IInv'
<1>1. CallOK(Returned(err), floor, Version)
  BY ReturnedOK, IdleOK DEF IInv, GhostsOK, Version
<1> QED
  BY <1>1, CallStep

\* A lookup starts with the floor of its key as its bar.
LEMMA BeginIInv ==
    ASSUME IInv, NEW c \in Callers, NEW op \in LookupOps, NEW path \in Targets,
           Begin(c, op, path)
    PROVE  IInv'
<1>1. FirstKind[op] \in CacheKinds
  BY DEF FirstKind, LookupOps, CacheKinds
<1>2. CallOK(Lookup(op, FirstKind[op], path), floor, Version)
  BY <1>1, LookupOK DEF IInv
<1> QED
  BY <1>2, CallStep DEF Begin

\* What a lookup that finds an entry returns; its answer is as old as the entry.
LEMMA HitIInv == ASSUME IInv, NEW c \in Callers, Hit(c) PROVE IInv'
<1>1. PICK e \in Found(CallKey(c)) :
          call' = [call EXCEPT ![c] = Settled(c, Served(e), e.asOf)]
  BY DEF Hit
<1>2. EntryOK(e, floor, Version) /\ e.key = CallKey(c)
  BY DEF Found, IInv
<1>3. call[c] \in Calls /\ call[c].bar <= floor[CallKey(c)] /\ call[c].bar \in Nat
  BY DEF Hit, At, IInv, CallOK, CallKey, Calls
<1>4. e.key.kind = call[c].kind /\ e.key \in Keys
  BY <1>2, <1>3, KeyForOK DEF CallKey, Calls
<1>5. Served(e) \in Answers
  BY <1>2, FailedOK DEF Served, EntryOK, Entries, Failed, Answers, Errors
<1>6. call[c].kind = "node" /\ Served(e).err = "none" => Served(e).nodes # {}
  BY <1>2, <1>4 DEF Served, EntryOK, Failed
<1>7. e.asOf \in 1..Version /\ e.asOf >= call[c].bar
  BY <1>2, <1>3, <1>4 DEF EntryOK, IInv, GhostsOK
<1>8. CallOK(Settled(c, Served(e), e.asOf), floor, Version)
  <2>1. Version \in Nat
    BY DEF IInv, GhostsOK, Version
  <2> QED
    BY <1>3, <1>5, <1>6, <1>7, <2>1, SettledOK
<1> QED
  BY <1>1, <1>8, CallStep DEF Hit

\* A miss changes nothing but the step.
LEMMA MissIInv == ASSUME IInv, NEW c \in Callers, Miss(c) PROVE IInv'
<1> DEFINE r == [call[c] EXCEPT !.step = "read"]
<1>1. CallOK(call[c], floor, Version) /\ call[c].step = "get"
  BY DEF IInv, Miss, At
<1>2. r \in Calls /\ r.step = "read" /\ r.first = call[c].first /\ r.bar = call[c].bar
                  /\ r.kind = call[c].kind /\ r.path = call[c].path
  BY <1>1 DEF CallOK, Calls, Steps
<1>3. CallOK(r, floor, Version)
  BY <1>1, <1>2 DEF CallOK, MayFill
<1>4. call' = [call EXCEPT ![c] = r]
  BY DEF Miss, IInv
<1> QED
  BY <1>3, <1>4, CallStep DEF Miss

(* The first read of the source sees the current version, which no floor     *)
(* exceeds.                                                                  *)
LEMMA ReadIInv == ASSUME IInv, NEW c \in Callers, Read(c) PROVE IInv'
<1> DEFINE r == [call[c] EXCEPT !.step = "finish", !.first = Version, !.readAt = clock]
<1>1. CallOK(call[c], floor, Version) /\ call[c] \in Calls /\ call[c].step = "read"
  BY DEF IInv, Read, At, CallOK
<1>2. Version \in Nat /\ Version >= 1 /\ clock \in Nat
  BY DEF IInv, GhostsOK, Version
<1>3. r \in Calls /\ r.step = "finish" /\ r.first = Version /\ r.bar = call[c].bar
  BY <1>1, <1>2 DEF Calls, Steps
<1>4. r.bar <= Version
  <2>1. CallKey(c) \in Keys
    BY <1>1, KeyForOK DEF CallKey, Calls
  <2> QED
    BY <1>1, <1>2, <1>3, <2>1 DEF IInv, GhostsOK, CallOK, CallKey, Calls
<1>5. CallOK(r, floor, Version)
  BY <1>2, <1>3, <1>4 DEF CallOK, IInv, GhostsOK, Calls
<1>6. call' = [call EXCEPT ![c] = r]
  BY DEF Read, IInv
<1> QED
  BY <1>5, <1>6, CallStep DEF Read

(* The fetch ends: its answer is stored, or settles the lookup. The answer   *)
(* was read from the version the fetch began with, which its bar allows.     *)
LEMMA FinishIInv == ASSUME IInv, NEW c \in Callers, Finish(c) PROVE IInv'
<1>1. CallOK(call[c], floor, Version) /\ call[c] \in Calls /\ call[c].step = "finish"
  BY DEF IInv, Finish, At, CallOK
<1>2. /\ call[c].first \in 1..Version /\ call[c].first >= call[c].bar
      /\ call[c].kind \in CacheKinds /\ call[c].path \in Targets /\ Version \in Nat
  BY <1>1 DEF CallOK, Calls, IInv, GhostsOK, Version
<1>3. Span(call[c].first, Version) \in Spans
  BY <1>2, SpanOK DEF IInv
<1>4. PICK answer \in RouterAnswers(Span(call[c].first, Version), call[c].kind, call[c].path) :
          call' = [call EXCEPT ![c] =
                      IF Stored(answer) THEN [call[c] EXCEPT !.step = "put", !.answer = answer]
                                        ELSE Settled(c, answer, call[c].first)]
  BY DEF Finish, IInv
<1> DEFINE r == [call[c] EXCEPT !.step = "put", !.answer = answer]
<1>5. answer \in Answers /\ AnswerOK(answer, call[c].kind, call[c].path)
  BY <1>2, <1>3, RouterAnswerOK
<1>6. CASE Stored(answer)
  <2>1. /\ r \in Calls /\ r.step = "put" /\ r.first = call[c].first
        /\ r.bar = call[c].bar /\ r.kind = call[c].kind /\ r.path = call[c].path
        /\ r.answer = answer
    BY <1>1, <1>5 DEF Calls, Steps
  <2>2. CallOK(r, floor, Version)
    <3>1. ASSUME NEW k \in Keys, MayFill(r, k) PROVE MayFill(call[c], k)
      BY <1>1, <1>5, <2>1, <3>1 DEF MayFill, AnswerOK
    <3> HIDE DEF r
    <3> QED
      BY <1>1, <1>2, <1>5, <1>6, <2>1, <3>1 DEF CallOK
  <2>3. call' = [call EXCEPT ![c] = r]
    BY <1>4, <1>6
  <2> QED
    BY <2>2, <2>3, CallStep DEF Finish
<1>7. CASE ~Stored(answer)
  <2>1. CallOK(Settled(c, answer, call[c].first), floor, Version)
    <3>1. call[c].kind = "node" /\ answer.err = "none" => answer.nodes # {}
      BY <1>5 DEF AnswerOK
    <3> QED
      BY <1>1, <1>2, <1>5, <3>1, SettledOK
  <2>2. call' = [call EXCEPT ![c] = Settled(c, answer, call[c].first)]
    BY <1>4, <1>7
  <2> QED
    BY <2>1, <2>2, CallStep DEF Finish
<1> QED
  BY <1>6, <1>7

(* What a call that stores says of the entry: no older than the floor, for   *)
(* a drop of the key since would have found the call in flight.              *)
LEMMA PutAnswerIInv == ASSUME IInv, NEW c \in Callers, PutAnswer(c) PROVE IInv'
<1> DEFINE entry == EntryOf(CallKey(c), call[c].answer, call[c].answer.nodes, call[c].first)
           onward == [call[c] EXCEPT !.step = "children", !.todo = call[c].answer.nodes]
<1>1. CallOK(call[c], floor, Version) /\ call[c] \in Calls /\ call[c].step = "put"
  BY DEF IInv, PutAnswer, At, CallOK
<1>2. /\ call[c].first \in 1..Version /\ call[c].first >= call[c].bar
      /\ call[c].answer \in Answers /\ call[c].answer.nodes \in SUBSET Nodes
      /\ Version \in Nat
  BY <1>1 DEF CallOK, Calls, Answers, IInv, GhostsOK, Version
<1>3. /\ Stored(call[c].answer)
      /\ AnswerOK(call[c].answer, call[c].kind, call[c].path)
  BY <1>1 DEF CallOK
<1>4. CallKey(c) \in Keys /\ CallKey(c).kind = call[c].kind
  BY <1>1, KeyForOK DEF CallKey, Calls
<1>5. call[c].first >= floor[CallKey(c)]
  BY <1>1, <1>4 DEF CallOK, MayFill, CallKey
<1>6. EntryOK(entry, floor, Version)
  <2>1. CallKey(c).kind = "node" /\ call[c].answer.err = "none" => call[c].answer.nodes # {}
    BY <1>3, <1>4 DEF AnswerOK
  <2> QED
    BY <1>2, <1>3, <1>4, <1>5, <2>1, EntryOfOK DEF IInv
<1>7. Put(entry) \/ UNCHANGED entries
  BY DEF PutAnswer, PutOrFail
<1>8. CASE call[c].kind = "dir" /\ call[c].answer.nodes # {}
  <2>1. /\ onward \in Calls /\ onward.step = "children" /\ onward.kind = "dir"
        /\ onward.first = call[c].first /\ onward.bar = call[c].bar
        /\ onward.path = call[c].path /\ onward.answer = call[c].answer
        /\ onward.todo = call[c].answer.nodes
    BY <1>1, <1>2, <1>8 DEF Calls, Steps
  <2>2. CallOK(onward, floor, Version)
    <3>1. ASSUME NEW k \in Keys, MayFill(onward, k) PROVE MayFill(call[c], k)
      BY <1>1, <1>8, <2>1, <3>1 DEF MayFill
    <3>2. \A n \in call[c].answer.nodes : ChildOf(n.path, call[c].path)
      BY <1>3, <1>8 DEF AnswerOK
    <3> HIDE DEF onward
    <3> QED
      BY <1>1, <1>2, <1>3, <2>1, <3>1, <3>2 DEF CallOK
  <2>3. call' = [call EXCEPT ![c] = onward]
    BY <1>8 DEF PutAnswer, IInv
  <2> QED
    BY <1>6, <1>7, <2>2, <2>3, StoreStep DEF PutAnswer
<1>9. CASE ~(call[c].kind = "dir" /\ call[c].answer.nodes # {})
  <2>1. CallOK(Settled(c, call[c].answer, call[c].first), floor, Version)
    <3>1. call[c].kind = "node" /\ call[c].answer.err = "none"
              => call[c].answer.nodes # {}
      BY <1>3 DEF AnswerOK
    <3> QED
      BY <1>1, <1>2, <3>1, SettledOK
  <2>2. call' = [call EXCEPT ![c] = Settled(c, call[c].answer, call[c].first)]
    BY <1>9 DEF PutAnswer, IInv
  <2> QED
    BY <1>6, <1>7, <2>1, <2>2, StoreStep DEF PutAnswer
<1> QED
  BY <1>8, <1>9

\* A child is stored with the version that its listing was read from.
LEMMA PutChildIInv == ASSUME IInv, NEW c \in Callers, PutChild(c) PROVE IInv'
<1> DEFINE key(n) == KeyFor("node", n.path)
           entry(n) == EntryOf(key(n), call[c].answer, {n}, call[c].first)
           onward(n) == [call[c] EXCEPT !.todo = call[c].todo \ {n}]
<1>1. CallOK(call[c], floor, Version) /\ call[c] \in Calls /\ call[c].step = "children"
  BY DEF IInv, PutChild, At, CallOK
<1>2. PICK n \in call[c].todo :
          /\ UNCHANGED entries \/ PutOrFail(entry(n))
          /\ call' = [call EXCEPT ![c] =
                         IF call[c].todo = {n}
                         THEN Settled(c, call[c].answer, call[c].first)
                         ELSE onward(n)]
  BY DEF PutChild, IInv
<1>3. /\ call[c].first \in 1..Version /\ call[c].first >= call[c].bar
      /\ call[c].answer \in Answers /\ Stored(call[c].answer)
      /\ call[c].kind = "dir" /\ Version \in Nat
      /\ n \in Nodes /\ n.path \in Targets /\ ChildOf(n.path, call[c].path)
  BY <1>1, RouterAssumption DEF CallOK, Calls, IInv, GhostsOK, Version
<1>4. key(n) \in Keys /\ key(n).kind = "node" /\ key(n).path = n.path
  BY <1>3, KeyForOK DEF CacheKinds
<1>5. call[c].first >= floor[key(n)]
  <2>1. MayFill(call[c], key(n))
    BY <1>1, <1>3, <1>4 DEF MayFill
  <2> HIDE DEF key
  <2> QED
    BY <1>1, <1>4, <2>1 DEF CallOK
<1>6. EntryOK(entry(n), floor, Version)
  <2>1. {n} \in SUBSET Nodes /\ {n} # {}
    BY <1>3
  <2> HIDE DEF key
  <2> QED
    BY <1>3, <1>4, <1>5, <2>1, EntryOfOK DEF IInv
<1>7. Put(entry(n)) \/ UNCHANGED entries
  BY <1>2 DEF PutOrFail
<1>8. CASE call[c].todo = {n}
  <2>1. CallOK(Settled(c, call[c].answer, call[c].first), floor, Version)
    BY <1>1, <1>3, SettledOK
  <2>2. call' = [call EXCEPT ![c] = Settled(c, call[c].answer, call[c].first)]
    BY <1>2, <1>8
  <2> HIDE DEF entry
  <2> QED
    BY <1>6, <1>7, <2>1, <2>2, StoreStep DEF PutChild
<1>9. CASE call[c].todo # {n}
  <2>1. /\ onward(n) \in Calls /\ onward(n).step = "children" /\ onward(n).kind = "dir"
        /\ onward(n).first = call[c].first /\ onward(n).bar = call[c].bar
        /\ onward(n).path = call[c].path /\ onward(n).answer = call[c].answer
        /\ onward(n).todo = call[c].todo \ {n}
    BY <1>1, <1>3 DEF Calls
  <2>2. CallOK(onward(n), floor, Version)
    <3>1. ASSUME NEW k \in Keys, MayFill(onward(n), k) PROVE MayFill(call[c], k)
      BY <1>1, <1>3, <2>1, <3>1 DEF MayFill
    <3> HIDE DEF onward
    <3> QED
      BY <1>1, <1>3, <2>1, <3>1 DEF CallOK
  <2>3. call' = [call EXCEPT ![c] = onward(n)]
    BY <1>2, <1>9
  <2> HIDE DEF entry, onward
  <2> QED
    BY <1>6, <1>7, <2>2, <2>3, StoreStep DEF PutChild
<1> QED
  BY <1>8, <1>9

---------------------------------------------------------------------------
(* The second half of Open.                                                  *)

\* An Open that resolved a node has one, and that node is typed.
LEMMA OpenedNodeOK ==
    ASSUME IInv, NEW c \in Callers, At(c, "opened")
    PROVE  OpenedNode(c) \in Nodes
<1>1. CallOK(call[c], floor, Version)
  BY DEF IInv
<1>2. call[c].answer.nodes # {} /\ call[c].answer.nodes \subseteq Nodes
  BY <1>1 DEF CallOK, Calls, Answers, At
<1> QED
  BY <1>2 DEF OpenedNode

\* An Open that ends with something else than what its first half resolved.
LEMMA OpenEndsIInv ==
    ASSUME IInv, NEW c \in Callers, At(c, "opened"), NEW answer \in Answers,
           call' = [call EXCEPT ![c] = Ended(c, answer)],
           UNCHANGED <<entries, clock, history, floor>>
    PROVE  IInv'
<1>1. call[c] \in Calls
  BY DEF IInv
<1>2. Ended(c, answer) \in Calls /\ Ended(c, answer).step = "done"
                                /\ Ended(c, answer).first = 0
  BY <1>1 DEF Ended, Calls, Steps
<1>3. CallOK(Ended(c, answer), floor, Version)
  BY <1>2, IdleOK DEF IInv, GhostsOK, Version
<1> QED
  BY <1>3, CallStep

\* The second half of Open: denied, a second lookup, or the source.
LEMMA OpenIInv ==
    ASSUME IInv, NEW c \in Callers, OpenDenied(c) \/ OpenDir(c) \/ OpenFile(c)
    PROVE  IInv'
<1>1. call[c] \in Calls /\ call[c].path \in Targets
  BY DEF IInv, CallOK, Calls
<1>2. CASE OpenDenied(c)
  <2> DEFINE err == OpenError(OpenDecisionFor(OpenedNode(c)))
  <2>1. err \in Errors
    BY DEF OpenError, Errors
  <2> HIDE DEF err
  <2>2. Failed(err) \in Answers
    BY <2>1, FailedOK
  <2>3. call' = [call EXCEPT ![c] = Ended(c, Failed(err))]
    BY <1>2 DEF OpenDenied, err
  <2> QED
    BY <1>2, <2>2, <2>3, OpenEndsIInv DEF OpenDenied
<1>3. CASE OpenDir(c)
  <2>1. CallOK(Lookup("open", "dir", call[c].path), floor, Version)
    BY <1>1, LookupOK DEF IInv, LookupOps, CacheKinds
  <2> QED
    BY <1>3, <2>1, CallStep DEF OpenDir, IInv
<1>4. CASE OpenFile(c)
  <2>1. Tree(Version) \in Trees
    <3> DEFINE States == [tree : Trees, since : Nat]
    <3>1. history \in Seq(States) /\ Version \in 1..Len(history)
      BY DEF IInv, GhostsOK, Version
    <3>2. history[Version] \in States
      <4> HIDE DEF States
      <4> QED
        BY <3>1, ElementOfSeq
    <3> QED
      BY <3>2 DEF Tree
  <2>2. OpenedNode(c) \in Nodes
    BY <1>4, OpenedNodeOK DEF OpenFile
  <2>3. SourceOpen(Tree(Version), OpenedNode(c)) \in Answers
    BY <2>1, <2>2, RouterAssumption
  <2> QED
    BY <1>4, <2>3, OpenEndsIInv DEF OpenFile, IInv
<1> QED
  BY <1>2, <1>3, <1>4

\* A caller that takes its result is idle again.
LEMMA ReturnIInv == ASSUME IInv, NEW c \in Callers, Return(c) PROVE IInv'
<1>1. CallOK(NoCall, floor, Version)
  BY NoCallOK, IdleOK DEF IInv, GhostsOK, Version
<1> QED
  BY <1>1, CallStep DEF Return

---------------------------------------------------------------------------
(* The invalidations: each drops every entry under the keys it is documented *)
(* to drop, whatever else it drops.                                          *)

\* An invalidation that fails drops nothing and promises nothing.
LEMMA InvalidateFailsIInv ==
    ASSUME IInv, NEW c \in Callers, InvalidateFails(c) PROVE IInv'
BY ReturnsIInv DEF InvalidateFails, Errors

\* ScopeOf covers every entry of its path.
LEMMA CoversPath ==
    ASSUME NEW path, NEW e, e.key.path = path PROVE Covers(ScopeOf(path), e)
BY DEF Covers, ScopeOf, RouteMatches, SourceMatches

\* A scope covers every entry whose key it promises to drop.
LEMMA CoversPromised ==
    ASSUME NEW scope, NEW e, Promised(e.key, scope) PROVE Covers(scope, e)
BY DEF Promised, InRegion, Covers, RouteMatches, SourceMatches, HasPathPrefix

\* A call that is over, or between the two halves of InvalidatePath.
LEMMA DropIInv ==
    ASSUME IInv, NEW c \in Callers, NEW err \in Errors,
           NEW dropped, entries' \subseteq entries,
           \A e \in entries' : e.key \notin dropped,
           floor' = Raised(dropped),
           call' = [call EXCEPT ![c] = Returned(err)], UNCHANGED <<clock, history>>
    PROVE  IInv'
BY ReturnedOK, DropStep

\* InvalidatePath, first half.
LEMMA InvalidatePathIInv ==
    ASSUME IInv, NEW c \in Callers, NEW path \in Targets, InvalidatePath(c, path)
    PROVE  IInv'
<1> DEFINE dropped == {k \in Keys : k.path = path /\ k.kind # "targets"}
           r == [NoCall EXCEPT !.step = "dropparent", !.op = "invalidatepath",
                               !.path = path]
<1>1. CASE InvalidateFails(c)
  BY <1>1, InvalidateFailsIInv
<1>2. CASE ~InvalidateFails(c)
  <2>1. /\ Invalidate(ScopeOf(path)) /\ floor' = Raised(dropped)
        /\ call' = [call EXCEPT ![c] = r] /\ UNCHANGED <<clock, history>>
    BY <1>2 DEF InvalidatePath
  <2>2. entries' \subseteq entries /\ \A e \in entries' : e.key \notin dropped
    BY <2>1, CoversPath DEF Invalidate
  <2>3. r \in Calls /\ r.step = "dropparent" /\ r.first = 0
    BY NoCallOK DEF NoCall, Calls, Steps
  <2> HIDE DEF r, dropped
  <2> QED
    BY <2>1, <2>2, <2>3, DropStep
<1> QED
  BY <1>1, <1>2

\* InvalidatePath, second half.
LEMMA InvalidateParentIInv ==
    ASSUME IInv, NEW c \in Callers, InvalidateParent(c) PROVE IInv'
<1> DEFINE parent == ParentPath(call[c].path)
           dropped == {k \in Keys : k.path = parent /\ k.kind = "dir"}
<1>1. CASE InvalidateFails(c)
  BY <1>1, InvalidateFailsIInv
<1>2. CASE ~InvalidateFails(c)
  <2>1. /\ Invalidate(ScopeOf(parent)) /\ floor' = Raised(dropped)
        /\ call' = [call EXCEPT ![c] = Returned("none")] /\ UNCHANGED <<clock, history>>
    BY <1>2 DEF InvalidateParent
  <2>2. entries' \subseteq entries /\ \A e \in entries' : e.key \notin dropped
    BY <2>1, CoversPath DEF Invalidate
  <2>3. "none" \in Errors
    BY DEF Errors
  <2> HIDE DEF dropped
  <2> QED
    BY <2>1, <2>2, <2>3, DropIInv
<1> QED
  BY <1>1, <1>2

\* Invalidate of any scope.
LEMMA InvalidateScopeIInv ==
    ASSUME IInv, NEW c \in Callers, NEW scope, InvalidateScope(c, scope) PROVE IInv'
<1> DEFINE dropped == {k \in Keys : Promised(k, scope)}
<1>1. CASE InvalidateFails(c)
  BY <1>1, InvalidateFailsIInv
<1>2. CASE ~InvalidateFails(c)
  <2>1. /\ Invalidate(scope) /\ floor' = Raised(dropped)
        /\ call' = [call EXCEPT ![c] = Returned("none")] /\ UNCHANGED <<clock, history>>
    BY <1>2 DEF InvalidateScope
  <2>2. entries' \subseteq entries /\ \A e \in entries' : e.key \notin dropped
    BY <2>1, CoversPromised DEF Invalidate
  <2>3. "none" \in Errors
    BY DEF Errors
  <2> HIDE DEF dropped
  <2> QED
    BY <2>1, <2>2, <2>3, DropIInv
<1> QED
  BY <1>1, <1>2

\* ClearCache.
LEMMA ClearIInv == ASSUME IInv, NEW c \in Callers, ClearCache(c) PROVE IInv'
<1>1. CASE InvalidateFails(c)
  BY <1>1, InvalidateFailsIInv
<1>2. CASE ~InvalidateFails(c)
  <2>1. "none" \in Errors
    BY DEF Errors
  <2> QED
    BY <1>2, <2>1, DropIInv DEF ClearCache, Clear
<1> QED
  BY <1>1, <1>2

\* A key deleted by the application.
LEMMA DeleteIInv == ASSUME IInv, NEW c \in Callers, DeleteKey(c) PROVE IInv'
<1>1. PICK e \in entries : Delete(e.key) /\ floor' = Raised({e.key})
  BY DEF DeleteKey
<1>2. entries' \subseteq entries /\ \A f \in entries' : f.key \notin {e.key}
  BY <1>1 DEF Delete
<1>3. "none" \in Errors
  BY DEF Errors
<1> QED
  BY <1>1, <1>2, <1>3, DropIInv DEF DeleteKey

---------------------------------------------------------------------------
(* The world around: a new version only widens what an answer may come from. *)

\* A new version of the source makes no entry and no call wrong.
LEMMA SourceChangesIInv ==
    ASSUME IInv, NEW tree \in Trees, SourceChanges(tree) PROVE IInv'
<1>1. Version \in Nat /\ Version' = Version + 1
  <2> DEFINE States == [tree : Trees, since : Nat]
  <2>1. history \in Seq(States)
    BY DEF IInv, GhostsOK
  <2> HIDE DEF States
  <2> QED
    BY <2>1 DEF SourceChanges, Version
<1>2. GhostsOK'
  <2> DEFINE States == [tree : Trees, since : Nat]
  <2>1. history \in Seq(States) /\ [tree |-> tree, since |-> clock] \in States
    BY DEF IInv, GhostsOK
  <2>2. history' \in Seq(States) /\ history' # << >>
    <3> HIDE DEF States
    <3> QED
      BY <2>1, AppendProperties DEF SourceChanges
  <2>3. \A k \in Keys : floor[k] <= Version + 1
    BY <1>1 DEF IInv, GhostsOK
  <2>4. Version + 1 <= MaxVersions
    BY <1>1, VersionsOK DEF SourceChanges
  <2> QED
    BY <1>1, <2>2, <2>3, <2>4 DEF IInv, GhostsOK, SourceChanges
<1>3. ASSUME NEW c \in Callers PROVE CallOK(call[c], floor, Version)'
  <2>1. CallOK(call[c], floor, Version) /\ call[c].first \in Nat
    BY DEF IInv, CallOK, Calls
  <2>2. CallOK(call[c], floor, Version + 1)
    BY <1>1, <2>1 DEF CallOK
  <2> QED
    BY <1>1, <2>2 DEF SourceChanges
<1>4. ASSUME NEW e \in entries PROVE EntryOK(e, floor, Version + 1)
  BY <1>1, <1>4 DEF IInv, EntryOK
<1> QED
  BY <1>1, <1>2, <1>3, <1>4 DEF IInv, SourceChanges, OneEntryPerKey

\* Time that passes touches neither entries nor calls.
LEMMA SameCallsIInv ==
    ASSUME IInv, UNCHANGED <<entries, history, call, floor>>, clock' \in Nat
    PROVE  IInv'
<1>1. Version' = Version
  BY DEF Version
<1>2. \A c \in Callers : CallOK(call[c], floor, Version)'
  BY <1>1 DEF IInv
<1>3. \A e \in entries' : EntryOK(e, floor', Version')
  BY <1>1 DEF IInv
<1> QED
  BY <1>1, <1>2, <1>3 DEF IInv, GhostsOK, OneEntryPerKey

---------------------------------------------------------------------------
(* The invariant is inductive, and it is stronger than the two properties.   *)

\* Every step of the file system keeps the invariant.
LEMMA NextIInv == IInv /\ [Next]_vars => IInv'
<1> SUFFICES ASSUME IInv, [Next]_vars PROVE IInv'
  OBVIOUS
<1>1. ASSUME NEW c \in Callers, Start(c) PROVE IInv'
  <2>1. CASE Reject(c)
    BY <2>1, ReturnsIInv DEF Reject, Errors
  <2>2. ASSUME NEW op \in LookupOps, NEW path \in Targets, Begin(c, op, path) PROVE IInv'
    BY <2>2, BeginIInv
  <2>3. ASSUME NEW path \in Targets, InvalidatePath(c, path) PROVE IInv'
    BY <2>3, InvalidatePathIInv
  <2>4. ASSUME NEW scope \in Scopes, InvalidateScope(c, scope) PROVE IInv'
    BY <2>4, InvalidateScopeIInv
  <2>5. CASE ClearCache(c)
    BY <2>5, ClearIInv
  <2>6. CASE DeleteKey(c)
    BY <2>6, DeleteIInv
  <2> QED
    BY <1>1, <2>1, <2>2, <2>3, <2>4, <2>5, <2>6 DEF Start
<1>2. ASSUME NEW c \in Callers, Advance(c) PROVE IInv'
  <2>1. CASE Hit(c)
    BY <2>1, HitIInv
  <2>2. CASE Miss(c)
    BY <2>2, MissIInv
  <2>3. CASE GetFails(c)
    BY <2>3, ReturnsIInv DEF GetFails, Errors
  <2>4. CASE Read(c)
    BY <2>4, ReadIInv
  <2>5. CASE Finish(c)
    BY <2>5, FinishIInv
  <2>6. CASE PutAnswer(c)
    BY <2>6, PutAnswerIInv
  <2>7. CASE PutChild(c)
    BY <2>7, PutChildIInv
  <2>8. CASE OpenDenied(c) \/ OpenDir(c) \/ OpenFile(c)
    BY <2>8, OpenIInv
  <2>9. CASE InvalidateParent(c)
    BY <2>9, InvalidateParentIInv
  <2>10. CASE Return(c)
    BY <2>10, ReturnIInv
  <2> QED
    BY <1>2, <2>1, <2>2, <2>3, <2>4, <2>5, <2>6, <2>7, <2>8, <2>9, <2>10 DEF Advance
<1>3. ASSUME NEW tree \in Trees, SourceChanges(tree) PROVE IInv'
  BY <1>3, SourceChangesIInv
<1>4. CASE Tick
  BY <1>4, SameCallsIInv DEF Tick, IInv, GhostsOK
<1>5. CASE UNCHANGED vars
  BY <1>5, SameCallsIInv DEF vars, IInv, GhostsOK
<1> QED
  BY <1>1, <1>2, <1>3, <1>4, <1>5 DEF Next

\* So it always holds.
LEMMA InvariantHolds == Spec => []IInv
BY InitIInv, NextIInv, PTL DEF Spec

(* The state of the file system is well typed: the cache holds at most one   *)
(* entry per key, only under keys that a lookup builds, and no call or entry *)
(* claims a version of the source that has not been.                         *)
THEOREM TypeCorrect == Spec => []TypeOK
<1>1. IInv => TypeOK
  <2> SUFFICES ASSUME IInv PROVE TypeOK
    OBVIOUS
  <2>1. entries \subseteq Entries /\ \A e \in entries : e.asOf \in 1..Version
    BY DEF IInv, EntryOK
  <2>2. \A c \in Callers : call[c].first <= Version
    BY DEF IInv, CallOK
  <2>3. Version \in 1..MaxVersions
    BY VersionsOK DEF IInv, GhostsOK, Version
  <2> QED
    BY <2>1, <2>2, <2>3 DEF IInv, GhostsOK, TypeOK
<1> QED
  BY <1>1, InvariantHolds, PTL

(* A lookup answers from no source older than the invalidation of its key    *)
(* that it began after, for every router that meets RouterAssumption, every  *)
(* set of callers and any number of calls, entries and versions: through a   *)
(* hit, a fetch, the children that another ReadDir stored, either half of    *)
(* Open, and with a cache whose operations may fail.                         *)
THEOREM Freshness == Spec => []FreshAfterInvalidation
<1>1. IInv => FreshAfterInvalidation
  BY DEF IInv, CallOK, FreshAfterInvalidation, Answered, At
<1> QED
  BY <1>1, InvariantHolds, PTL

=============================================================================
