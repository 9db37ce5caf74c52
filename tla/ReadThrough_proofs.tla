------------------------- MODULE ReadThrough_proofs -------------------------
(* Proofs that the cache makes nothing up: what ProxyFS answers comes from   *)
(* the source, and ProxyFS implements ReadThrough, over every router that    *)
(* meets the assumptions of ProxyFS and ConsistentRouter.                    *)
(*                                                                           *)
(* IInv says how old the data of a call or an entry may be; SourceInv adds   *)
(* where it comes from: what a call is about to store is an answer of the    *)
(* router, what it has settled on and what an entry would be served as is    *)
(* what a caller sees of one. History only grows, so once true it stays.     *)
EXTENDS ConsistentRouter, ProxyFS_proofs

\* The states that the history h gives for the versions from v to w.
SpanOf(h, v, w) == [i \in 1..(w - v + 1) |-> h[v + i - 1].tree]

(* A caller sees what may be said of the kind and path from a span of the    *)
(* history h that begins with the first state or later.                      *)
SeenIn(seen, first, kind, path, h) ==
    \E v \in first..Len(h) : \E w \in v..Len(h) :
        seen \in SaidOf(SpanOf(h, v, w), KeyFor(kind, path))

\* The answer that a call has fetched is the router's.
Fetched(r, h) ==
    \E w \in r.first..Len(h) :
        r.answer \in RouterAnswers(SpanOf(h, r.first, w), r.kind, r.path)

CallFrom(r, h) ==
    /\ r.step = "put" => Fetched(r, h)
    /\ r.step = "children" => Fetched(r, h) /\ r.todo \subseteq r.answer.nodes
    /\ r.step = "opened" \/ (r.step = "done" /\ r.first # 0) =>
           SeenIn(Seen(r.answer), r.first, r.kind, r.path, h)
    /\ r.step = "opened" => r.first # 0

EntryFrom(e, h) == SeenIn(Seen(Served(e)), e.asOf, e.key.kind, e.key.path, h)

SourceInv ==
    /\ \A c \in Callers : CallFrom(call[c], history)
    /\ \A e \in entries : EntryFrom(e, history)

---------------------------------------------------------------------------
(* The history only grows.                                                   *)

\* The span between two versions is that of the history, and may be read over.
LEMMA SpanOfHistory ==
    ASSUME GhostsOK, NEW v \in 1..Version, NEW w \in v..Version
    PROVE  SpanOf(history, v, w) = Span(v, w) /\ SpanOf(history, v, w) \in Spans
<1>1. SpanOf(history, v, w) = Span(v, w)
  BY DEF SpanOf, Span, Tree
<1> QED
  BY <1>1, SpanOK

\* It stays what it is.
LEMMA SpanStays ==
    ASSUME GhostsOK, NEW tree \in Trees, SourceChanges(tree),
           NEW v \in 1..Version, NEW w \in v..Version
    PROVE  /\ SpanOf(history', v, w) = SpanOf(history, v, w)
           /\ w \in v..Len(history')
<1>1. Version \in Nat /\ Len(history') = Version + 1
  BY HistoryOK, HistoryGrows DEF Version
<1>2. \A i \in 1..Version : history'[i] = history[i]
  BY HistoryGrows
<1>3. \A i \in 1..(w - v + 1) : v + i - 1 \in 1..Version
  BY <1>1
<1>4. \A i \in 1..(w - v + 1) : history'[v + i - 1].tree = history[v + i - 1].tree
  BY <1>2, <1>3
<1>5. SpanOf(history', v, w) = SpanOf(history, v, w)
  BY <1>4, Zenon DEF SpanOf
<1>6. w \in v..Len(history')
  BY <1>1
<1> QED
  BY <1>5, <1>6

\* What a caller could see it can still see.
LEMMA SeenStays ==
    ASSUME GhostsOK, NEW tree \in Trees, SourceChanges(tree),
           NEW seen, NEW first \in 1..Version, NEW kind, NEW path,
           SeenIn(seen, first, kind, path, history)
    PROVE  SeenIn(seen, first, kind, path, history')
<1>1. PICK v \in first..Version : \E w \in v..Version :
          seen \in SaidOf(SpanOf(history, v, w), KeyFor(kind, path))
  BY DEF SeenIn, Version
<1>2. PICK w \in v..Version : seen \in SaidOf(SpanOf(history, v, w), KeyFor(kind, path))
  BY <1>1
<1>3. Version \in Nat /\ v \in 1..Version /\ Version \in v..Version
  BY HistoryOK
<1>4. /\ SpanOf(history', v, w) = SpanOf(history, v, w)
      /\ w \in v..Len(history') /\ Version \in v..Len(history')
  BY <1>3, SpanStays
<1>5. v \in first..Len(history')
  BY <1>3, <1>4
<1> QED
  BY <1>2, <1>4, <1>5 DEF SeenIn

\* And an answer that was fetched is still the router's.
LEMMA FetchedStays ==
    ASSUME GhostsOK, NEW tree \in Trees, SourceChanges(tree),
           NEW r, r.first \in 1..Version, Fetched(r, history)
    PROVE  Fetched(r, history')
<1>1. PICK w \in r.first..Version :
          r.answer \in RouterAnswers(SpanOf(history, r.first, w), r.kind, r.path)
  BY DEF Fetched, Version
<1>2. SpanOf(history', r.first, w) = SpanOf(history, r.first, w) /\ w \in r.first..Len(history')
  BY SpanStays
<1> QED
  BY <1>1, <1>2 DEF Fetched

---------------------------------------------------------------------------
(* What is served of an entry is what was stored.                            *)

\* What the assumptions say of an answer that a call has fetched.
LEMMA FetchedOK ==
    ASSUME IInv, NEW r \in Calls, r.first \in 1..Version, Fetched(r, history)
    PROVE  /\ r.answer \in Answers
           /\ r.answer.err # "none" => r.answer.nodes = {} /\ r.answer.paths = {}
           /\ r.kind = "dir" => r.answer.paths = {}
           /\ \A n \in r.answer.nodes : n.kind # "none"
           /\ SeenIn(Seen(r.answer), r.first, r.kind, r.path, history)
<1>1. PICK w \in r.first..Version :
          r.answer \in RouterAnswers(SpanOf(history, r.first, w), r.kind, r.path)
  BY DEF Fetched, Version
<1>2. /\ SpanOf(history, r.first, w) \in Spans
      /\ r.kind \in CacheKinds /\ r.path \in Targets /\ Version \in Nat
  BY HistoryOK, SpanOfHistory DEF IInv, Calls
<1>3. SeenIn(Seen(r.answer), r.first, r.kind, r.path, history)
  <2>1. r.first \in r.first..Len(history)
    BY <1>2 DEF Version
  <2>2. Seen(r.answer) \in SaidOf(SpanOf(history, r.first, w), KeyFor(r.kind, r.path))
    BY <1>1 DEF SaidOf, KeyFor
  <2> QED
    BY <2>1, <2>2 DEF SeenIn, Version
<1> QED
  BY <1>1, <1>2, <1>3, RouterAssumption, ShapeAssumption

\* The entry of a lookup is served as the answer that was stored in it.
LEMMA StoredAnswerFrom ==
    ASSUME IInv, NEW r \in Calls, r.first \in 1..Version, Fetched(r, history),
           Stored(r.answer), NEW key, key.kind = r.kind, key.path = r.path
    PROVE  EntryFrom(EntryOf(key, r.answer, r.answer.nodes, r.first), history)
<1> DEFINE e == EntryOf(key, r.answer, r.answer.nodes, r.first)
<1>1. Seen(Served(e)) = Seen(r.answer)
  BY FetchedOK DEF EntryOf, Served, Seen, Failed, Stored
<1>2. e.asOf = r.first /\ e.key = key
  BY DEF EntryOf
<1> HIDE DEF e
<1> QED
  BY <1>1, <1>2, FetchedOK DEF EntryFrom, e

(* The entry of a child is served as the node that the listing of its parent *)
(* shows and shares.                                                         *)
LEMMA StoredChildFrom ==
    ASSUME IInv, NEW r \in Calls, r.kind = "dir", r.first \in 1..Version,
           Fetched(r, history), Stored(r.answer), NEW n \in r.answer.nodes,
           Shares(r.answer, n)
    PROVE  EntryFrom(EntryOf(KeyFor("node", n.path), r.answer, {n}, r.first), history)
<1> DEFINE e == EntryOf(KeyFor("node", n.path), r.answer, {n}, r.first)
<1>1. PICK w \in r.first..Version :
          r.answer \in RouterAnswers(SpanOf(history, r.first, w), "dir", r.path)
  BY DEF Fetched, Version
<1>2. /\ SpanOf(history, r.first, w) \in Spans
      /\ r.path \in Targets /\ Version \in Nat
  BY HistoryOK, SpanOfHistory DEF IInv, Calls
<1>3. r.answer.err = "none" /\ r.answer.paths = {} /\ n.kind # "none"
  BY FetchedOK
<1>4. Seen(Served(e)) = Seen([Failed("none") EXCEPT !.nodes = {n}])
  BY <1>3 DEF EntryOf, Served, Seen, Failed
<1>5. n \in ListedAs(SpanOf(history, r.first, w), n.path)
  <2>1. ParentPath(n.path) = r.path
    BY <1>1, <1>2, RouterAssumption DEF ChildOf, CacheKinds
  <2> QED
    BY <1>1, <2>1 DEF ListedAs
<1>6. Seen(Served(e)) \in SaidOf(SpanOf(history, r.first, w), KeyFor("node", n.path))
  <2> HIDE DEF e
  <2> QED
    BY <1>4, <1>5 DEF SaidOf, KeyFor
<1>7. e.asOf = r.first /\ e.key.kind = "node" /\ e.key.path = n.path
  BY DEF EntryOf, KeyFor
<1>8. r.first \in r.first..Len(history) /\ w \in r.first..Len(history)
  BY <1>2 DEF Version
<1> HIDE DEF e
<1> QED
  BY <1>6, <1>7, <1>8 DEF EntryFrom, SeenIn, e
---------------------------------------------------------------------------
(* SourceInv is inductive, beside IInv.                                      *)

\* A caller replaces its call, and what entries there are come from the source.
LEMMA CallStepFrom ==
    ASSUME IInv, SourceInv, NEW c \in Callers, NEW r, CallFrom(r, history),
           call' = [call EXCEPT ![c] = r], UNCHANGED history,
           \A e \in entries' : e \in entries \/ EntryFrom(e, history)
    PROVE  SourceInv'
<1>1. ASSUME NEW d \in Callers PROVE CallFrom(call'[d], history')
  <2>1. CASE d = c
    BY <2>1 DEF IInv
  <2>2. CASE d # c
    BY <2>2 DEF IInv, SourceInv
  <2> QED
    BY <2>1, <2>2
<1>2. ASSUME NEW e \in entries' PROVE EntryFrom(e, history')
  BY DEF SourceInv
<1> QED
  BY <1>1, <1>2 DEF SourceInv

\* A call that has no answer yet, or none of a lookup.
LEMMA SilentFrom ==
    ASSUME NEW r, NEW h,
           \/ r.step \in {"idle", "get", "read", "finish", "dropparent"}
           \/ r.step = "done" /\ r.first = 0
    PROVE  CallFrom(r, h)
BY DEF CallFrom

\* A call that settles on what a caller may see.
LEMMA SettledFrom ==
    ASSUME IInv, NEW c \in Callers, NEW answer, NEW first, first # 0,
           SeenIn(Seen(answer), first, call[c].kind, call[c].path, history)
    PROVE  CallFrom(Settled(c, answer, first), history)
<1>1. call[c] \in Calls
  BY DEF IInv
<1>2. /\ Settled(c, answer, first).step \in {"opened", "done"}
      /\ Settled(c, answer, first).first = first
      /\ Settled(c, answer, first).answer = answer
      /\ Settled(c, answer, first).kind = call[c].kind
      /\ Settled(c, answer, first).path = call[c].path
  BY <1>1 DEF Settled, Calls
<1> QED
  BY <1>2 DEF CallFrom

\* A hit answers what its entry is served as.
LEMMA HitFrom == ASSUME IInv, SourceInv, NEW c \in Callers, Hit(c) PROVE SourceInv'
<1>1. PICK e \in Found(CallKey(c)) :
          call' = [call EXCEPT ![c] = Settled(c, Served(e), e.asOf)]
  BY DEF Hit
<1>2. e \in entries /\ e.key = KeyFor(call[c].kind, call[c].path)
  BY DEF Found, CallKey
<1>3. SeenIn(Seen(Served(e)), e.asOf, call[c].kind, call[c].path, history)
  BY <1>2 DEF SourceInv, EntryFrom, KeyFor
<1>4. CallFrom(Settled(c, Served(e), e.asOf), history)
  BY <1>2, <1>3, SettledFrom DEF IInv, EntryOK
<1> QED
  BY <1>1, <1>4, CallStepFrom DEF Hit

\* A fetch that ends has the router's answer over the versions since it began.
LEMMA FinishFrom == ASSUME IInv, SourceInv, NEW c \in Callers, Finish(c) PROVE SourceInv'
<1>1. CallOK(call[c], floor, Version) /\ call[c] \in Calls /\ call[c].step = "finish"
  BY DEF IInv, Finish, At, CallOK
<1>2. call[c].first \in 1..Version /\ Version \in Nat
  BY <1>1, HistoryOK DEF CallOK, Calls, IInv
<1>3. Version \in call[c].first..Len(history) /\ call[c].first \in call[c].first..Len(history)
  BY <1>2 DEF Version
<1>4. PICK answer \in RouterAnswers(Span(call[c].first, Version), call[c].kind, call[c].path) :
          call' = [call EXCEPT ![c] =
                      IF Stored(answer) THEN [call[c] EXCEPT !.step = "put", !.answer = answer]
                                        ELSE Settled(c, answer, call[c].first)]
  BY DEF Finish, IInv
<1>5. answer \in RouterAnswers(SpanOf(history, call[c].first, Version),
                              call[c].kind, call[c].path)
  BY <1>2, <1>4, SpanOfHistory DEF IInv
<1> DEFINE r == [call[c] EXCEPT !.step = "put", !.answer = answer]
<1>6. CASE Stored(answer)
  <2>1. /\ r.step = "put" /\ r.first = call[c].first /\ r.answer = answer
        /\ r.kind = call[c].kind /\ r.path = call[c].path
    BY <1>1 DEF Calls
  <2>2. CallFrom(r, history)
    <3> HIDE DEF r
    <3> QED
      BY <1>3, <1>5, <2>1 DEF CallFrom, Fetched
  <2>3. call' = [call EXCEPT ![c] = r]
    BY <1>4, <1>6
  <2> QED
    BY <2>2, <2>3, CallStepFrom DEF Finish
<1>7. CASE ~Stored(answer)
  <2>1. SeenIn(Seen(answer), call[c].first, call[c].kind, call[c].path, history)
    <3>1. Seen(answer) \in SaidOf(SpanOf(history, call[c].first, Version),
                                  KeyFor(call[c].kind, call[c].path))
      BY <1>5 DEF SaidOf, KeyFor
    <3> QED
      BY <1>3, <3>1 DEF SeenIn
  <2>2. CallFrom(Settled(c, answer, call[c].first), history)
    BY <1>2, <2>1, SettledFrom
  <2>3. call' = [call EXCEPT ![c] = Settled(c, answer, call[c].first)]
    BY <1>4, <1>7
  <2> QED
    BY <2>2, <2>3, CallStepFrom DEF Finish
<1> QED
  BY <1>6, <1>7

\* What a lookup stores, and settles on, is what it fetched.
LEMMA PutAnswerFrom ==
    ASSUME IInv, SourceInv, NEW c \in Callers, PutAnswer(c) PROVE SourceInv'
<1> DEFINE entry == EntryOf(CallKey(c), call[c].answer, call[c].answer.nodes, call[c].first)
           onward == [call[c] EXCEPT !.step = "children", !.todo = call[c].answer.nodes]
<1>1. CallOK(call[c], floor, Version) /\ call[c] \in Calls /\ call[c].step = "put"
  BY DEF IInv, PutAnswer, At, CallOK
<1>2. call[c].first \in 1..Version /\ Stored(call[c].answer) /\ Fetched(call[c], history)
  BY <1>1, HistoryOK DEF CallOK, Calls, IInv, SourceInv, CallFrom
<1>3. EntryFrom(entry, history)
  <2>1. CallKey(c).kind = call[c].kind /\ CallKey(c).path = call[c].path
    BY DEF CallKey, KeyFor
  <2> QED
    BY <1>1, <1>2, <2>1, StoredAnswerFrom
<1>4. \A e \in entries' : e \in entries \/ EntryFrom(e, history)
  BY <1>3 DEF PutAnswer, PutOrFail, Put
<1>5. CASE call[c].kind = "dir" /\ call[c].answer.nodes # {}
  <2>1. /\ onward.step = "children" /\ onward.first = call[c].first
        /\ onward.answer = call[c].answer /\ onward.todo = call[c].answer.nodes
        /\ onward.kind = call[c].kind /\ onward.path = call[c].path
    BY <1>1 DEF Calls
  <2>2. CallFrom(onward, history)
    <3> HIDE DEF onward
    <3> QED
      BY <1>2, <2>1 DEF CallFrom, Fetched
  <2>3. call' = [call EXCEPT ![c] = onward]
    BY <1>5 DEF PutAnswer, IInv
  <2> HIDE DEF onward
  <2> QED
    BY <1>4, <2>2, <2>3, CallStepFrom DEF PutAnswer
<1>6. CASE ~(call[c].kind = "dir" /\ call[c].answer.nodes # {})
  <2>1. CallFrom(Settled(c, call[c].answer, call[c].first), history)
    BY <1>1, <1>2, FetchedOK, SettledFrom
  <2>2. call' = [call EXCEPT ![c] = Settled(c, call[c].answer, call[c].first)]
    BY <1>6 DEF PutAnswer, IInv
  <2> QED
    BY <1>4, <2>1, <2>2, CallStepFrom DEF PutAnswer
<1> QED
  BY <1>5, <1>6

\* The entry of a child is what its parent's listing shows of it.
LEMMA PutChildFrom ==
    ASSUME IInv, SourceInv, NEW c \in Callers, PutChild(c) PROVE SourceInv'
<1> DEFINE entry(n) == EntryOf(KeyFor("node", n.path), call[c].answer, {n}, call[c].first)
           onward(n) == [call[c] EXCEPT !.todo = call[c].todo \ {n}]
<1>1. CallOK(call[c], floor, Version) /\ call[c] \in Calls /\ call[c].step = "children"
  BY DEF IInv, PutChild, At, CallOK
<1>2. /\ call[c].first \in 1..Version /\ Stored(call[c].answer) /\ call[c].kind = "dir"
      /\ Fetched(call[c], history) /\ call[c].todo \subseteq call[c].answer.nodes
  BY <1>1, HistoryOK DEF CallOK, Calls, IInv, SourceInv, CallFrom
<1>3. PICK n \in call[c].todo :
          /\ \/ UNCHANGED entries
             \/ Shares(call[c].answer, n) /\ Put(entry(n))
          /\ call' = [call EXCEPT ![c] =
                         IF call[c].todo = {n}
                         THEN Settled(c, call[c].answer, call[c].first)
                         ELSE onward(n)]
  BY DEF PutChild, PutOrFail, KeyFor, IInv
<1>4. n \in call[c].answer.nodes
  BY <1>2
<1>5. \A e \in entries' : e \in entries \/ EntryFrom(e, history)
  <2>1. CASE UNCHANGED entries
    BY <2>1
  <2>2. CASE Shares(call[c].answer, n) /\ Put(entry(n))
    <3>1. EntryFrom(entry(n), history)
      BY <1>1, <1>2, <1>4, <2>2, StoredChildFrom
    <3> QED
      BY <2>2, <3>1 DEF Put
  <2> QED
    BY <1>3, <2>1, <2>2
<1>6. CASE call[c].todo = {n}
  <2>1. CallFrom(Settled(c, call[c].answer, call[c].first), history)
    BY <1>1, <1>2, FetchedOK, SettledFrom
  <2>2. call' = [call EXCEPT ![c] = Settled(c, call[c].answer, call[c].first)]
    BY <1>3, <1>6
  <2> QED
    BY <1>5, <2>1, <2>2, CallStepFrom DEF PutChild
<1>7. CASE call[c].todo # {n}
  <2>1. /\ onward(n).step = "children" /\ onward(n).first = call[c].first
        /\ onward(n).answer = call[c].answer /\ onward(n).todo = call[c].todo \ {n}
        /\ onward(n).kind = call[c].kind /\ onward(n).path = call[c].path
    BY <1>1 DEF Calls
  <2>2. CallFrom(onward(n), history)
    <3> HIDE DEF onward
    <3> QED
      BY <1>2, <2>1 DEF CallFrom, Fetched
  <2>3. call' = [call EXCEPT ![c] = onward(n)]
    BY <1>3, <1>7
  <2> HIDE DEF onward
  <2> QED
    BY <1>5, <2>2, <2>3, CallStepFrom DEF PutChild
<1> QED
  BY <1>6, <1>7

\* A call that goes on or ends without an answer, and stores nothing.
LEMMA SilentStepFrom ==
    ASSUME IInv, SourceInv, NEW c \in Callers, NEW r,
           \/ r.step \in {"idle", "get", "read", "finish", "dropparent"}
           \/ r.step = "done" /\ r.first = 0,
           call' = [call EXCEPT ![c] = r], UNCHANGED history,
           entries' \subseteq entries
    PROVE  SourceInv'
BY SilentFrom, CallStepFrom

\* Nor does a call that ends with an error, or an invalidation.
LEMMA ReturnedFrom ==
    ASSUME IInv, SourceInv, NEW c \in Callers, NEW err \in Errors,
           call' = [call EXCEPT ![c] = Returned(err)], UNCHANGED history,
           entries' \subseteq entries
    PROVE  SourceInv'
BY ReturnedOK, SilentStepFrom

\* The calls that start: lookups without an answer, and invalidations.
LEMMA StartFrom == ASSUME IInv, SourceInv, NEW c \in Callers, Start(c) PROVE SourceInv'
<1>1. {"none", "cache", "invalid"} \subseteq Errors
  BY DEF Errors
<1>2. CASE Reject(c)
  BY <1>1, <1>2, ReturnedFrom DEF Reject
<1>3. ASSUME NEW op \in LookupOps, NEW path \in Targets, Begin(c, op, path)
      PROVE  SourceInv'
  <2>1. Lookup(op, FirstKind[op], path).step = "get"
    BY DEF Lookup, NoCall
  <2> QED
    BY <1>3, <2>1, SilentStepFrom DEF Begin
<1>4. ASSUME NEW path \in Targets, InvalidatePath(c, path) PROVE SourceInv'
  <2> DEFINE r == [NoCall EXCEPT !.step = "dropparent", !.op = "invalidatepath",
                                 !.path = path]
  <2>1. CASE InvalidateFails(c)
    BY <1>1, <2>1, ReturnedFrom DEF InvalidateFails
  <2>2. CASE ~InvalidateFails(c)
    <3>1. call' = [call EXCEPT ![c] = r] /\ UNCHANGED history /\ entries' \subseteq entries
      BY <1>4, <2>2 DEF InvalidatePath, Invalidate
    <3>2. r.step = "dropparent"
      BY DEF NoCall
    <3> HIDE DEF r
    <3> QED
      BY <3>1, <3>2, SilentStepFrom
  <2> QED
    BY <2>1, <2>2
<1>5. ASSUME NEW scope \in Scopes, InvalidateScope(c, scope) PROVE SourceInv'
  BY <1>1, <1>5, ReturnedFrom DEF InvalidateScope, InvalidateFails, Invalidate
<1>6. CASE ClearCache(c)
  BY <1>1, <1>6, ReturnedFrom DEF ClearCache, InvalidateFails, Clear
<1>7. CASE DeleteKey(c)
  BY <1>1, <1>7, ReturnedFrom DEF DeleteKey, Delete
<1> QED
  BY <1>2, <1>3, <1>4, <1>5, <1>6, <1>7 DEF Start

\* The second half of Open ends with no answer of a lookup, or begins a new one.
LEMMA OpenFrom ==
    ASSUME IInv, SourceInv, NEW c \in Callers, OpenDenied(c) \/ OpenDir(c) \/ OpenFile(c)
    PROVE  SourceInv'
<1>1. call[c] \in Calls
  BY DEF IInv
<1>2. ASSUME NEW answer, call' = [call EXCEPT ![c] = Ended(c, answer)],
             UNCHANGED <<entries, history>>
      PROVE  SourceInv'
  <2>1. Ended(c, answer).step = "done" /\ Ended(c, answer).first = 0
    BY <1>1 DEF Ended, Calls
  <2> QED
    BY <1>2, <2>1, SilentStepFrom
<1>3. CASE OpenDir(c)
  <2>1. Lookup("open", "dir", call[c].path).step = "get"
    BY DEF Lookup, NoCall
  <2> QED
    BY <1>3, <2>1, SilentStepFrom DEF OpenDir, IInv
<1> QED
  BY <1>2, <1>3 DEF OpenDenied, OpenFile

\* A call that has begun goes on.
LEMMA AdvanceFrom == ASSUME IInv, SourceInv, NEW c \in Callers, Advance(c) PROVE SourceInv'
<1>1. {"none", "cache"} \subseteq Errors /\ call[c] \in Calls
  BY DEF Errors, IInv
<1>2. CASE Miss(c)
  <2>1. [call[c] EXCEPT !.step = "read"].step = "read"
    BY <1>1 DEF Calls
  <2> QED
    BY <1>2, <2>1, SilentStepFrom DEF Miss, IInv
<1>3. CASE Read(c)
  <2> DEFINE r == [call[c] EXCEPT !.step = "finish", !.first = Version, !.readAt = clock]
  <2>1. r.step = "finish"
    BY <1>1 DEF Calls
  <2>2. call' = [call EXCEPT ![c] = r]
    BY <1>3 DEF Read, IInv
  <2> HIDE DEF r
  <2> QED
    BY <1>3, <2>1, <2>2, SilentStepFrom DEF Read
<1>4. CASE GetFails(c)
  BY <1>1, <1>4, ReturnedFrom DEF GetFails
<1>5. CASE InvalidateParent(c)
  BY <1>1, <1>5, ReturnedFrom DEF InvalidateParent, InvalidateFails, Invalidate
<1>6. CASE Return(c)
  BY <1>6, NoCallOK, SilentStepFrom DEF Return
<1> QED
  BY <1>2, <1>3, <1>4, <1>5, <1>6, HitFrom, FinishFrom, PutAnswerFrom, PutChildFrom,
     OpenFrom DEF Advance

\* A change of the source takes nothing from what could be seen before.
LEMMA SourceChangesFrom ==
    ASSUME IInv, SourceInv, NEW tree \in Trees, SourceChanges(tree) PROVE SourceInv'
<1>1. GhostsOK /\ UNCHANGED <<entries, call>>
  BY DEF IInv, SourceChanges
<1>2. ASSUME NEW c \in Callers PROVE CallFrom(call[c], history')
  <2>1. CallFrom(call[c], history) /\ CallOK(call[c], floor, Version)
    BY DEF SourceInv, IInv
  <2>2. /\ call[c].step \in {"put", "children"} => call[c].first \in 1..Version
        /\ call[c].first # 0 => call[c].first \in 1..Version
    BY <1>1, <2>1, HistoryOK DEF CallOK, Calls
  <2>3. call[c].step = "opened" => call[c].first # 0
    BY <2>1 DEF CallFrom
  <2> QED
    BY <1>1, <2>1, <2>2, <2>3, SeenStays, FetchedStays DEF CallFrom
<1>3. ASSUME NEW e \in entries PROVE EntryFrom(e, history')
  <2>1. e.asOf \in 1..Version /\ EntryFrom(e, history)
    BY DEF SourceInv, IInv, EntryOK
  <2> QED
    BY <1>1, <2>1, SeenStays DEF EntryFrom
<1> QED
  BY <1>1, <1>2, <1>3 DEF SourceInv


\* Every step keeps the invariant.
LEMMA NextFrom == IInv /\ SourceInv /\ [Next]_vars => SourceInv'
<1> SUFFICES ASSUME IInv, SourceInv, [Next]_vars PROVE SourceInv'
  OBVIOUS
<1>1. CASE Tick \/ UNCHANGED vars
  <2>1. UNCHANGED <<entries, call, history>>
    BY <1>1 DEF Tick, vars
  <2> QED
    BY <2>1 DEF SourceInv
<1> QED
  BY <1>1, StartFrom, AdvanceFrom, SourceChangesFrom DEF Next

\* There is nothing in the cache at first, and no call.
LEMMA InitFrom == Init => SourceInv
BY NoCallOK, SilentFrom DEF Init, CacheInit, SourceInv

\* So both invariants always hold.
LEMMA SourceInvHolds == Spec => [](IInv /\ SourceInv)
<1>1. IInv /\ SourceInv /\ [Next]_vars => (IInv /\ SourceInv)'
  BY NextIInv, NextFrom
<1> QED
  BY <1>1, InitIInv, InitFrom, PTL DEF Spec

(* Whatever a lookup answers, from the cache or not, was read from a span of *)
(* states that the source has had since the version the answer dates from,   *)
(* by the router for that kind and path or by its listing of the parent: no  *)
(* interleaving of lookups, listings that store their children,              *)
(* invalidations, changes of the source and failures of the cache makes it   *)
(* up, whatever the handlers read at which moment.                           *)
THEOREM NothingMadeUp == Spec => []AnswersComeFromTheSource
<1>1. IInv /\ SourceInv => AnswersComeFromTheSource
  <2> SUFFICES ASSUME IInv, SourceInv, NEW c \in Callers, Answered(c)
               PROVE  \E v \in call[c].first..Version : \E w \in v..Version :
                          Seen(call[c].answer) \in SaidOf(Span(v, w), CallKey(c))
    BY DEF AnswersComeFromTheSource
  <2>1. SeenIn(Seen(call[c].answer), call[c].first, call[c].kind, call[c].path, history)
    BY DEF SourceInv, CallFrom, Answered, At
  <2>2. PICK v \in call[c].first..Version : \E w \in v..Version :
            Seen(call[c].answer) \in SaidOf(SpanOf(history, v, w), CallKey(c))
    BY <2>1 DEF SeenIn, CallKey, Version
  <2>3. call[c].first \in Nat /\ call[c].first # 0
    BY DEF IInv, Calls, Answered
  <2>4. v \in 1..Version
    BY <2>3, HistoryOK DEF IInv
  <2> QED
    BY <2>2, <2>4, SpanOfHistory DEF IInv
<1> QED
  BY <1>1, SourceInvHolds, PTL

---------------------------------------------------------------------------
(* Every step of ProxyFS is a step of ReadThrough, or none of its business.  *)


\* The lookup of ReadThrough that a call in the state r is.
LookupOf(r) ==
    CASE r.step \in {"get", "read", "finish", "put", "children"} ->
            [state |-> "asked", key |-> KeyFor(r.kind, r.path), since |-> r.bar]
      [] (r.step = "done" /\ r.first # 0) \/ r.step = "opened" ->
            [state |-> "answered", answer |-> Seen(r.answer)]
      [] OTHER -> [state |-> "none"]

Lookups == [c \in Callers |-> LookupOf(call[c])]

\* These are the lookups of the refinement mapping.
LEMMA MappedLookups ==
    /\ [c \in Callers |-> Abstractly(c)] = Lookups
    /\ [c \in Callers |-> Abstractly(c)]' = Lookups'
BY DEF Abstractly, Lookups, LookupOf, Answered, At, CallKey

\* A caller that replaces its call replaces its lookup.
LEMMA LookupStep ==
    ASSUME IInv, NEW c \in Callers, NEW r, call' = [call EXCEPT ![c] = r]
    PROVE  Lookups' = [Lookups EXCEPT ![c] = LookupOf(r)]
<1>1. \A d \in Callers : call'[d] = IF d = c THEN r ELSE call[d]
  BY DEF IInv
<1>2. \A d \in Callers : LookupOf(call'[d]) = IF d = c THEN LookupOf(r) ELSE LookupOf(call[d])
  BY <1>1
<1> QED
  BY <1>2 DEF Lookups

\* The three kinds of lookups, by the step of the call.
LEMMA LookupCases ==
    ASSUME NEW r
    PROVE  /\ r.step \in {"get", "read", "finish", "put", "children"} =>
                  LookupOf(r) = Abstract!Asked(KeyFor(r.kind, r.path), r.bar)
           /\ r.step = "opened" \/ (r.step = "done" /\ r.first # 0) =>
                  LookupOf(r) = Abstract!Answered(Seen(r.answer))
           /\ r.step \in {"idle", "dropparent"} \/ (r.step = "done" /\ r.first = 0) =>
                  LookupOf(r) = Abstract!Nothing
BY DEF LookupOf, Abstract!Asked, Abstract!Answered, Abstract!Nothing

\* Without a change of the source the trees are the same.
LEMMA SameTrees ==
    ASSUME UNCHANGED history
    PROVE  UNCHANGED [v \in 1..Version |-> Tree(v)]
BY DEF Version, Tree

\* A call goes on and its lookup does not show it.
LEMMA StutterStep ==
    ASSUME IInv, NEW c \in Callers, NEW r, call' = [call EXCEPT ![c] = r],
           LookupOf(r) = LookupOf(call[c]), UNCHANGED <<history, floor>>
    PROVE  UNCHANGED Abstract!vars
<1>1. Lookups' = Lookups
  BY LookupStep DEF Lookups
<1> QED
  BY <1>1, MappedLookups, SameTrees DEF Abstract!vars

\* Two states of a call in which its lookup waits.
LEMMA StillWaiting ==
    ASSUME NEW r, NEW s, r.step \in {"get", "read", "finish", "put", "children"},
           s.step \in {"read", "finish", "put", "children"},
           s.kind = r.kind, s.path = r.path, s.bar = r.bar
    PROVE  LookupOf(s) = LookupOf(r)
BY LookupCases

\* A lookup begins with the floor under its key as its bar.
LEMMA AskStep ==
    ASSUME IInv, NEW c \in Callers, call[c].step \in {"idle", "opened"},
           NEW r, r.step = "get", r.kind \in CacheKinds, r.path \in Targets,
           r.bar = floor[KeyFor(r.kind, r.path)],
           call' = [call EXCEPT ![c] = r], UNCHANGED <<history, floor>>
    PROVE  Abstract!Next
<1> DEFINE key == KeyFor(r.kind, r.path)
<1>1. key \in Keys
  BY KeyForOK
<1>2. LookupOf(r) = Abstract!Asked(key, floor[key])
  BY LookupCases
<1>3. Lookups' = [Lookups EXCEPT ![c] = Abstract!Asked(key, floor[key])]
  BY <1>2, LookupStep
<1>4. Lookups[c].state # "asked"
  BY DEF Lookups, LookupOf
<1>5. Abstract!Ask(c, key)
  BY <1>3, <1>4, MappedLookups, SameTrees DEF Abstract!Ask, Abstract!Waiting
<1> QED
  BY <1>1, <1>5 DEF Abstract!Next

\* What Begin and OpenDir make of the call is such a lookup.
LEMMA LookupFields ==
    ASSUME NEW op, NEW kind, NEW path
    PROVE  LET r == Lookup(op, kind, path)
           IN  /\ r.step = "get" /\ r.kind = kind /\ r.path = path
               /\ r.bar = floor[KeyFor(r.kind, r.path)]
BY DEF Lookup, NoCall

\* A lookup is answered with what could be seen since its bar.
LEMMA AnswerStep ==
    ASSUME IInv, NEW c \in Callers, NEW answer, NEW first \in 1..Version,
           call[c].step \in {"get", "finish", "put", "children"},
           first >= call[c].bar,
           SeenIn(Seen(answer), first, call[c].kind, call[c].path, history),
           call' = [call EXCEPT ![c] = Settled(c, answer, first)],
           UNCHANGED <<history, floor>>
    PROVE  Abstract!Next
<1> DEFINE key == KeyFor(call[c].kind, call[c].path)
           trees == [v \in 1..Version |-> Tree(v)]
<1>1. call[c] \in Calls /\ call[c].bar \in Nat /\ Version \in Nat
  BY HistoryOK DEF IInv, Calls
<1>2. LookupOf(Settled(c, answer, first)) = Abstract!Answered(Seen(answer))
  <2>1. /\ Settled(c, answer, first).step \in {"opened", "done"}
        /\ Settled(c, answer, first).first = first
        /\ Settled(c, answer, first).answer = answer
    BY <1>1 DEF Settled, Calls
  <2>2. first # 0
    BY <1>1
  <2> QED
    BY <2>1, <2>2, LookupCases
<1>3. Lookups[c] = Abstract!Asked(key, call[c].bar)
  BY LookupCases DEF Lookups
<1>4. PICK v \in first..Version : \E w \in v..Version :
          Seen(answer) \in SaidOf(SpanOf(history, v, w), key)
  BY DEF SeenIn, Version
<1>5. PICK w \in v..Version : Seen(answer) \in SaidOf(SpanOf(history, v, w), key)
  BY <1>4
<1>6. Len(trees) = Version /\ \A i \in 1..Version : trees[i] = history[i].tree
  BY <1>1 DEF Tree
<1> DEFINE span == [i \in 1..(w - v + 1) |-> trees[v + i - 1]]
<1>7. span = SpanOf(history, v, w)
  <2>1. \A i \in 1..(w - v + 1) : v + i - 1 \in 1..Version
    BY <1>1
  <2>2. \A i \in 1..(w - v + 1) : trees[v + i - 1] = history[v + i - 1].tree
    <3> HIDE DEF trees
    <3> QED
      BY <1>6, <2>1
  <2> HIDE DEF trees
  <2> QED
    BY <2>2 DEF SpanOf
<1>8. v \in call[c].bar..Len(trees) /\ w \in v..Len(trees)
  BY <1>1, <1>6
<1>9. Lookups' = [Lookups EXCEPT ![c] = Abstract!Answered(Seen(answer))]
  BY <1>2, LookupStep
<1> HIDE DEF key
<1>10. Abstract!Answer(c)
  <2>1. Lookups[c].state = "asked" /\ Lookups[c].since = call[c].bar /\ Lookups[c].key = key
    BY <1>3 DEF Abstract!Asked
  <2> DEFINE asked == [d \in Callers |-> Abstractly(d)]
  <2>2. asked = Lookups /\ asked' = Lookups'
    BY MappedLookups
  <2>3. asked'[c].state # "asked"
    <3>1. Lookups'[c] = Abstract!Answered(Seen(answer))
      BY <1>9 DEF Lookups
    <3> QED
      BY <2>2, <3>1 DEF Abstract!Answered
  <2>4. \E i \in asked[c].since..Len(trees) : \E j \in i..Len(trees) :
            \E said \in SaidOf([k \in 1..(j - i + 1) |-> trees[i + k - 1]], asked[c].key) :
                asked' = [asked EXCEPT ![c] = Abstract!Answered(said)]
    <3>1. asked[c].since = call[c].bar /\ asked[c].key = key
      BY <2>1, <2>2
    <3>2. Seen(answer) \in SaidOf(span, key)
      BY <1>5, <1>7
    <3>3. asked' = [asked EXCEPT ![c] = Abstract!Answered(Seen(answer))]
      BY <1>9, <2>2
    <3>4. \E said \in SaidOf(span, key) : asked' = [asked EXCEPT ![c] = Abstract!Answered(said)]
      BY <3>2, <3>3
    <3> HIDE DEF trees, asked
    <3> QED
      BY <1>8, <3>1, <3>4
  <2>5. Abstract!Waiting(c) /\ ~(Abstract!Waiting(c))'
    BY <2>1, <2>2, <2>3 DEF Abstract!Waiting
  <2>6. UNCHANGED <<trees, floor>>
    BY SameTrees
  <2> QED
    BY <2>4, <2>5, <2>6, Zenon DEF Abstract!Answer, Abstract!Latest, Abstract!Span
<1> QED
  BY <1>10 DEF Abstract!Next

\* The caller takes the answer, or there is none.
LEMMA LeaveStep ==
    ASSUME IInv, NEW c \in Callers, NEW r, LookupOf(r) = Abstract!Nothing,
           call' = [call EXCEPT ![c] = r], UNCHANGED <<history, floor>>
    PROVE  [Abstract!Next]_(Abstract!vars)
<1>1. CASE LookupOf(call[c]) = Abstract!Nothing
  BY <1>1, StutterStep
<1>2. CASE LookupOf(call[c]) # Abstract!Nothing
  <2>1. Lookups' = [Lookups EXCEPT ![c] = Abstract!Nothing] /\ Lookups[c] # Abstract!Nothing
    BY <1>2, LookupStep DEF Lookups
  <2>2. Abstract!Leave(c)
    BY <2>1, MappedLookups, SameTrees DEF Abstract!Leave
  <2> QED
    BY <2>2 DEF Abstract!Next
<1> QED
  BY <1>1, <1>2


(* A floor that is raised where nothing overtook the invalidation is a       *)
(* promise that is kept where nothing contends for it: a lookup that may     *)
(* store under a key is one that may renew its promise.                      *)
LEMMA ForgetStep ==
    ASSUME IInv, NEW c \in Callers, NEW r, LookupOf(r) = LookupOf(call[c]),
           call' = [call EXCEPT ![c] = r], UNCHANGED history,
           NEW region \in PromisedRegions, floor' = Raised(region)
    PROVE  Abstract!Next
<1> DEFINE trees == [v \in 1..Version |-> Tree(v)]
           asked == [d \in Callers |-> Abstractly(d)]
<1>1. Version \in Nat /\ Len(trees) = Version /\ floor \in [Keys -> Nat]
  BY HistoryOK DEF IInv, GhostsOK
<1>2. asked = Lookups /\ asked' = Lookups' /\ Lookups' = Lookups
  BY MappedLookups, LookupStep DEF Lookups
<1>3. UNCHANGED trees
  BY SameTrees
<1>4. floor' \in [Keys -> Nat]
  BY <1>1 DEF Raised
<1>5. ASSUME NEW k \in Keys, Overtaken(k) PROVE Abstract!Contended(k)
  <2>1. PICK d \in Callers : MayStore(d, k)
    BY <1>5 DEF Overtaken
  <2>2. call[d].step \in {"finish", "put", "children"} /\ MayRenew(CallKey(d), k)
    <3>1. CallOK(call[d], floor, Version)
      BY DEF IInv
    <3>2. /\ call[d].step = "put" /\ call[d].kind = "dir" =>
                 \A n \in call[d].answer.nodes : ChildOf(n.path, call[d].path)
          /\ call[d].step = "children" => \A n \in call[d].todo : ChildOf(n.path, call[d].path)
      BY <3>1 DEF CallOK, AnswerOK
    <3> QED
      BY <2>1, <3>2 DEF MayStore, At, MayRenew, CallKey, KeyFor
  <2>3. Lookups[d] = Abstract!Asked(CallKey(d), call[d].bar)
    BY <2>2, LookupCases DEF Lookups, CallKey
  <2>4. asked[d].state = "asked" /\ asked[d].key = CallKey(d)
    BY <1>2, <2>3 DEF Abstract!Asked
  <2>5. Abstract!Waiting(d) /\ MayRenew(asked[d].key, k)
    <3> HIDE DEF asked
    <3> QED
      BY <2>2, <2>4 DEF Abstract!Waiting, asked
  <2> QED
    BY <2>5 DEF Abstract!Contended
<1>6. \A k \in Keys : \/ k \in region /\ floor'[k] = Len(trees)
                      \/ (k \in region => Abstract!Contended(k)) /\ floor'[k] = floor[k]
  <2> HIDE DEF trees
  <2> QED
    BY <1>1, <1>5 DEF Raised
<1>7. Abstract!Forget(region)
  <2>1. UNCHANGED <<trees, asked>>
    BY <1>2, <1>3
  <2> QED
    BY <1>4, <1>6, <2>1, Zenon DEF Abstract!Forget, Abstract!Latest
<1> QED
  BY <1>7 DEF Abstract!Next

\* The regions of the five invalidations.
LEMMA RegionsOK ==
    /\ \A path \in Targets :
           /\ {k \in Keys : k.path = path /\ k.kind # "targets"} \in PromisedRegions
           /\ {k \in Keys : k.path = path /\ k.kind = "dir"} \in PromisedRegions
    /\ \A scope \in Scopes : {k \in Keys : Promised(k, scope)} \in PromisedRegions
    /\ \A k \in Keys : {k} \in PromisedRegions
    /\ Keys \in PromisedRegions
BY DEF PromisedRegions, PromiseOfPath, PromiseOfListing

\* What a call that starts is in ReadThrough.
LEMMA StartRefines ==
    ASSUME IInv, NEW c \in Callers, Start(c)
    PROVE  [Abstract!Next]_(Abstract!vars)
<1>1. /\ "none" \in Errors /\ "cache" \in Errors /\ "invalid" \in Errors
      /\ \A err \in Errors : LookupOf(Returned(err)) = Abstract!Nothing
  BY ReturnedOK, LookupCases DEF Errors
<1>2. At(c, "idle") => LookupOf(call[c]) = Abstract!Nothing
  BY LookupCases DEF At
<1>3. ASSUME NEW op \in LookupOps, NEW path \in Targets, Begin(c, op, path)
      PROVE  Abstract!Next
  <2> DEFINE r == Lookup(op, FirstKind[op], path)
  <2>1. FirstKind[op] \in CacheKinds
    BY <1>3 DEF FirstKind, LookupOps, CacheKinds
  <2>2. /\ r.step = "get" /\ r.kind \in CacheKinds /\ r.path \in Targets
        /\ r.bar = floor[KeyFor(r.kind, r.path)]
    BY <1>3, <2>1, LookupFields
  <2>3. /\ call[c].step \in {"idle", "opened"} /\ UNCHANGED <<history, floor>>
        /\ call' = [call EXCEPT ![c] = r]
    BY <1>3 DEF Begin, At
  <2> HIDE DEF r
  <2> QED
    BY <2>2, <2>3, AskStep
<1>4. CASE Reject(c) \/ InvalidateFails(c)
  BY <1>1, <1>4, LeaveStep DEF Reject, InvalidateFails
<1>5. ASSUME NEW path \in Targets, InvalidatePath(c, path), ~InvalidateFails(c)
      PROVE  Abstract!Next
  <2> DEFINE region == {k \in Keys : k.path = path /\ k.kind # "targets"}
             r == [NoCall EXCEPT !.step = "dropparent", !.op = "invalidatepath",
                                 !.path = path]
  <2>1. LookupOf(r) = Abstract!Nothing
    <3>1. r.step = "dropparent"
      BY DEF NoCall
    <3> HIDE DEF r
    <3> QED
      BY <3>1, LookupCases
  <2>2. /\ At(c, "idle") /\ floor' = Raised(region)
        /\ call' = [call EXCEPT ![c] = r] /\ UNCHANGED history
    BY <1>5 DEF InvalidatePath
  <2>3. region \in PromisedRegions
    BY RegionsOK
  <2> HIDE DEF r, region
  <2> QED
    BY <1>2, <2>1, <2>2, <2>3, ForgetStep
<1>6. ASSUME NEW region \in PromisedRegions, floor' = Raised(region), At(c, "idle"),
             call' = [call EXCEPT ![c] = Returned("none")], UNCHANGED history
      PROVE  Abstract!Next
  BY <1>1, <1>2, <1>6, ForgetStep
<1>7. ASSUME NEW scope \in Scopes, InvalidateScope(c, scope), ~InvalidateFails(c)
      PROVE  Abstract!Next
  BY <1>6, <1>7, RegionsOK DEF InvalidateScope
<1>8. ASSUME ClearCache(c), ~InvalidateFails(c) PROVE Abstract!Next
  BY <1>6, <1>8, RegionsOK DEF ClearCache
<1>9. CASE DeleteKey(c)
  <2>1. PICK e \in entries : floor' = Raised({e.key})
    BY <1>9 DEF DeleteKey
  <2> DEFINE region == {e.key}
  <2>2. region \in PromisedRegions
    BY RegionsOK DEF IInv, EntryOK, Entries
  <2>3. /\ At(c, "idle") /\ floor' = Raised(region) /\ UNCHANGED history
        /\ call' = [call EXCEPT ![c] = Returned("none")]
    BY <1>9, <2>1 DEF DeleteKey
  <2> HIDE DEF region
  <2> QED
    BY <1>6, <2>2, <2>3
<1> QED
  BY <1>3, <1>4, <1>5, <1>7, <1>8, <1>9 DEF Start


\* What a call that has begun does in ReadThrough.
LEMMA AdvanceRefines ==
    ASSUME IInv, SourceInv, NEW c \in Callers, Advance(c)
    PROVE  [Abstract!Next]_(Abstract!vars)
<1>1. /\ "none" \in Errors /\ "cache" \in Errors
      /\ \A err \in Errors : LookupOf(Returned(err)) = Abstract!Nothing
  BY ReturnedOK, LookupCases DEF Errors
<1>2. CallOK(call[c], floor, Version) /\ call[c] \in Calls /\ CallFrom(call[c], history)
  BY DEF IInv, SourceInv, CallOK
<1>3. Version \in Nat /\ call[c].first \in Nat /\ call[c].bar \in Nat
      /\ call[c].kind \in CacheKinds /\ call[c].path \in Targets
  BY <1>2, HistoryOK DEF IInv, Calls
<1>4. CASE Hit(c)
  <2>1. PICK e \in Found(CallKey(c)) :
            call' = [call EXCEPT ![c] = Settled(c, Served(e), e.asOf)]
    BY <1>4 DEF Hit
  <2>2. e \in entries /\ e.key = CallKey(c) /\ e.key.kind = call[c].kind
                      /\ e.key.path = call[c].path
    BY DEF Found, CallKey, KeyFor
  <2>3. EntryOK(e, floor, Version) /\ EntryFrom(e, history)
    BY <2>2 DEF IInv, SourceInv
  <2>4. e.asOf \in 1..Version /\ e.asOf >= call[c].bar
    <3>1. CallKey(c) \in Keys /\ floor[CallKey(c)] \in Nat
      BY <1>3, KeyForOK DEF CallKey, IInv, GhostsOK
    <3>2. call[c].bar <= floor[CallKey(c)]
      BY <1>2, <1>4 DEF Hit, At, CallOK, CallKey
    <3> QED
      BY <1>3, <2>2, <2>3, <3>1, <3>2 DEF EntryOK
  <2>5. SeenIn(Seen(Served(e)), e.asOf, call[c].kind, call[c].path, history)
    BY <2>2, <2>3 DEF EntryFrom
  <2>6. call[c].step \in {"get", "finish", "put", "children"} /\ UNCHANGED <<history, floor>>
    BY <1>4 DEF Hit, At
  <2> QED
    BY <2>1, <2>4, <2>5, <2>6, AnswerStep
<1>5. ASSUME NEW answer, call' = [call EXCEPT ![c] = Settled(c, answer, call[c].first)],
             call[c].step \in {"finish", "put", "children"}, UNCHANGED <<history, floor>>,
             SeenIn(Seen(answer), call[c].first, call[c].kind, call[c].path, history)
      PROVE  Abstract!Next
  <2>1. call[c].first \in 1..Version /\ call[c].first >= call[c].bar
    BY <1>2, <1>3, <1>5 DEF CallOK
  <2> QED
    BY <1>5, <2>1, AnswerStep
<1>6. CASE Miss(c)
  <2> DEFINE r == [call[c] EXCEPT !.step = "read"]
  <2>1. /\ r.step = "read" /\ r.kind = call[c].kind /\ r.path = call[c].path
        /\ r.bar = call[c].bar
    BY <1>2 DEF Calls
  <2>2. call[c].step = "get" /\ call' = [call EXCEPT ![c] = r] /\ UNCHANGED <<history, floor>>
    BY <1>6 DEF Miss, At, IInv
  <2> HIDE DEF r
  <2>3. LookupOf(r) = LookupOf(call[c])
    BY <2>1, <2>2, StillWaiting
  <2> QED
    BY <2>2, <2>3, StutterStep
<1>7. CASE Read(c)
  <2> DEFINE r == [call[c] EXCEPT !.step = "finish", !.first = Version, !.readAt = clock]
  <2>1. /\ r.step = "finish" /\ r.kind = call[c].kind /\ r.path = call[c].path
        /\ r.bar = call[c].bar
    BY <1>2 DEF Calls
  <2>2. call[c].step = "read" /\ call' = [call EXCEPT ![c] = r] /\ UNCHANGED <<history, floor>>
    BY <1>7 DEF Read, At, IInv
  <2> HIDE DEF r
  <2>3. LookupOf(r) = LookupOf(call[c])
    BY <2>1, <2>2, StillWaiting
  <2> QED
    BY <2>2, <2>3, StutterStep
<1>8. CASE Finish(c)
  <2>1. call[c].step = "finish" /\ UNCHANGED <<history, floor>>
    BY <1>8 DEF Finish, At
  <2>2. PICK answer \in RouterAnswers(Span(call[c].first, Version), call[c].kind, call[c].path) :
            call' = [call EXCEPT ![c] =
                        IF Stored(answer)
                        THEN [call[c] EXCEPT !.step = "put", !.answer = answer]
                        ELSE Settled(c, answer, call[c].first)]
    BY <1>8 DEF Finish, IInv
  <2>3. SeenIn(Seen(answer), call[c].first, call[c].kind, call[c].path, history)
    <3>1. call[c].first \in call[c].first..Len(history) /\ Version \in call[c].first..Len(history)
      BY <1>2, <1>3, <2>1 DEF CallOK, Version
    <3>2. Span(call[c].first, Version) = SpanOf(history, call[c].first, Version)
      BY DEF Span, SpanOf, Tree
    <3>3. Seen(answer) \in SaidOf(SpanOf(history, call[c].first, Version),
                                  KeyFor(call[c].kind, call[c].path))
      BY <2>2, <3>2 DEF SaidOf, KeyFor
    <3> QED
      BY <3>1, <3>3 DEF SeenIn
  <2>4. CASE Stored(answer)
    <3> DEFINE r == [call[c] EXCEPT !.step = "put", !.answer = answer]
    <3>1. /\ r.step = "put" /\ r.kind = call[c].kind /\ r.path = call[c].path
          /\ r.bar = call[c].bar
      BY <1>2 DEF Calls
    <3>2. call' = [call EXCEPT ![c] = r]
      BY <2>2, <2>4
    <3> HIDE DEF r
    <3>3. LookupOf(r) = LookupOf(call[c])
      BY <2>1, <3>1, StillWaiting
    <3> QED
      BY <2>1, <3>2, <3>3, StutterStep
  <2>5. CASE ~Stored(answer)
    <3>1. call' = [call EXCEPT ![c] = Settled(c, answer, call[c].first)]
      BY <2>2, <2>5
    <3> QED
      BY <1>5, <2>1, <2>3, <3>1
  <2> QED
    BY <2>4, <2>5
<1>9. ASSUME call[c].step \in {"put", "children"}
       PROVE  SeenIn(Seen(call[c].answer), call[c].first, call[c].kind, call[c].path, history)
  <2>1. call[c].first \in 1..Version /\ Fetched(call[c], history)
    BY <1>2, <1>3, <1>9 DEF CallOK, CallFrom
  <2> QED
    BY <1>2, <2>1, FetchedOK
<1>10. CASE PutAnswer(c)
  <2>1. call[c].step = "put" /\ UNCHANGED <<history, floor>>
    BY <1>10 DEF PutAnswer, At
  <2>2. CASE call[c].kind = "dir" /\ call[c].answer.nodes # {}
    <3> DEFINE r == [call[c] EXCEPT !.step = "children", !.todo = call[c].answer.nodes]
    <3>1. /\ r.step = "children" /\ r.kind = call[c].kind /\ r.path = call[c].path
          /\ r.bar = call[c].bar
      BY <1>2 DEF Calls
    <3>2. call' = [call EXCEPT ![c] = r]
      BY <1>10, <2>2 DEF PutAnswer, IInv
    <3> HIDE DEF r
    <3>3. LookupOf(r) = LookupOf(call[c])
      BY <2>1, <3>1, StillWaiting
    <3> QED
      BY <2>1, <3>2, <3>3, StutterStep
  <2>3. CASE ~(call[c].kind = "dir" /\ call[c].answer.nodes # {})
    <3>1. call' = [call EXCEPT ![c] = Settled(c, call[c].answer, call[c].first)]
      BY <1>10, <2>3 DEF PutAnswer, IInv
    <3> QED
      BY <1>5, <1>9, <2>1, <3>1
  <2> QED
    BY <2>2, <2>3
<1>11. CASE PutChild(c)
  <2>1. call[c].step = "children" /\ UNCHANGED <<history, floor>>
    BY <1>11 DEF PutChild, At
  <2>2. PICK n \in call[c].todo :
            call' = [call EXCEPT ![c] =
                        IF call[c].todo = {n}
                        THEN Settled(c, call[c].answer, call[c].first)
                        ELSE [call[c] EXCEPT !.todo = call[c].todo \ {n}]]
    BY <1>11 DEF PutChild, IInv
  <2>3. CASE call[c].todo = {n}
    <3>1. call' = [call EXCEPT ![c] = Settled(c, call[c].answer, call[c].first)]
      BY <2>2, <2>3
    <3> QED
      BY <1>5, <1>9, <2>1, <3>1
  <2>4. CASE call[c].todo # {n}
    <3> DEFINE r == [call[c] EXCEPT !.todo = call[c].todo \ {n}]
    <3>1. /\ r.step = "children" /\ r.kind = call[c].kind /\ r.path = call[c].path
          /\ r.bar = call[c].bar
      BY <1>2, <2>1 DEF Calls
    <3>2. call' = [call EXCEPT ![c] = r]
      BY <2>2, <2>4
    <3> HIDE DEF r
    <3>3. LookupOf(r) = LookupOf(call[c])
      BY <2>1, <3>1, StillWaiting
    <3> QED
      BY <2>1, <3>2, <3>3, StutterStep
  <2> QED
    BY <2>3, <2>4
<1>12. CASE OpenDenied(c) \/ OpenFile(c)
  <2>1. PICK answer : call' = [call EXCEPT ![c] = Ended(c, answer)]
    BY <1>12 DEF OpenDenied, OpenFile
  <2>2. Ended(c, answer).step = "done" /\ Ended(c, answer).first = 0
    BY <1>2 DEF Ended, Calls
  <2>3. LookupOf(Ended(c, answer)) = Abstract!Nothing
    BY <2>2, LookupCases
  <2> QED
    BY <1>12, <2>1, <2>3, LeaveStep DEF OpenDenied, OpenFile
<1>13. CASE OpenDir(c)
  <2> DEFINE r == Lookup("open", "dir", call[c].path)
  <2>1. /\ call[c].step \in {"idle", "opened"} /\ UNCHANGED <<history, floor>>
        /\ call' = [call EXCEPT ![c] = r]
    BY <1>13 DEF OpenDir, At, IInv
  <2>2. /\ r.step = "get" /\ r.kind \in CacheKinds /\ r.path \in Targets
        /\ r.bar = floor[KeyFor(r.kind, r.path)]
    BY <1>3, LookupFields DEF CacheKinds
  <2> HIDE DEF r
  <2> QED
    BY <2>1, <2>2, AskStep
<1>14. CASE Return(c)
  <2>1. LookupOf(NoCall) = Abstract!Nothing
    BY NoCallOK, LookupCases
  <2> QED
    BY <1>14, <2>1, LeaveStep DEF Return
<1>15. CASE GetFails(c)
  BY <1>1, <1>15, LeaveStep DEF GetFails
<1>16. CASE InvalidateParent(c)
  <2> DEFINE path == ParentPath(call[c].path)
             region == {k \in Keys : k.path = path /\ k.kind = "dir"}
  <2>1. CASE InvalidateFails(c)
    BY <1>1, <2>1, LeaveStep DEF InvalidateFails
  <2>2. CASE ~InvalidateFails(c)
    <3>1. /\ At(c, "dropparent") /\ floor' = Raised(region) /\ UNCHANGED history
          /\ call' = [call EXCEPT ![c] = Returned("none")]
      BY <1>16, <2>2 DEF InvalidateParent
    <3>2. LookupOf(Returned("none")) = LookupOf(call[c])
      BY <1>1, <3>1, LookupCases DEF At
    <3>3. CASE path \in Targets
      <4>1. region \in PromisedRegions
        BY <3>3, RegionsOK
      <4> HIDE DEF region
      <4> QED
        BY <3>1, <3>2, <4>1, ForgetStep
    <3>4. CASE path \notin Targets
      <4>1. region = {}
        BY <3>4 DEF Keys, KeyFor
      <4> HIDE DEF region
      <4>2. floor' = floor
        BY <3>1, <4>1 DEF Raised, IInv, GhostsOK
      <4> QED
        BY <3>1, <3>2, <4>2, StutterStep
    <3> QED
      BY <3>3, <3>4
  <2> QED
    BY <2>1, <2>2
<1> QED
  BY <1>4, <1>6, <1>7, <1>8, <1>10, <1>11, <1>12, <1>13, <1>14, <1>15, <1>16 DEF Advance

\* A new version of the source is a new tree at the end.
LEMMA ChangeRefines ==
    ASSUME IInv, NEW tree \in Trees, SourceChanges(tree)
    PROVE  Abstract!Next
<1> DEFINE trees == [v \in 1..Version |-> Tree(v)]
<1>1. GhostsOK /\ UNCHANGED <<call, floor>>
  BY DEF IInv, SourceChanges
<1>2. /\ Version \in Nat /\ Version' = Version + 1 /\ history'[Version + 1].tree = tree
      /\ \A v \in 1..Version : history'[v].tree = history[v].tree
                               /\ history[v].tree \in Trees
  <2>1. /\ history'[Version + 1] = [tree |-> tree, since |-> clock]
        /\ \A v \in 1..Version : history'[v] = history[v]
    BY <1>1, HistoryGrows
  <2> QED
    BY <1>1, <2>1, HistoryOK, HistoryGrows
<1> DEFINE n == Version
           last == [v \in 1..(n + 1) |-> history'[v].tree]
<1>3. trees = [v \in 1..n |-> history[v].tree] /\ trees' = last
  BY <1>2 DEF Tree
<1> HIDE DEF trees, n
<1>4. trees \in Seq(Trees) /\ Len(trees) = n /\ \A v \in 1..n : trees[v] = history[v].tree
  <2>1. n \in Nat /\ trees \in [1..n -> Trees]
    BY <1>2, <1>3 DEF n
  <2> QED
    BY <1>3, <2>1, SeqDef
<1>5. trees' = Append(trees, tree)
  <2> DEFINE added == Append(trees, tree)
  <2>1. /\ added \in Seq(Trees) /\ Len(added) = n + 1 /\ added[n + 1] = tree
        /\ \A v \in 1..n : added[v] = trees[v]
    BY <1>4, AppendProperties
  <2>2. n \in Nat /\ \A v \in 1..(n + 1) : last[v] = IF v = n + 1 THEN tree ELSE trees[v]
    BY <1>2, <1>4 DEF n
  <2>3. last \in [1..(n + 1) -> Trees]
    BY <1>2, <2>2 DEF n
  <2>4. last \in Seq(Trees) /\ Len(last) = n + 1
    BY <2>2, <2>3, SeqDef
  <2> HIDE DEF added, last
  <2>5. last = added
    BY <2>1, <2>2, <2>4, SeqEqual
  <2> QED
    BY <1>3, <2>5 DEF added
<1>6. UNCHANGED [c \in Callers |-> Abstractly(c)]
  BY <1>1, MappedLookups DEF Lookups
<1> QED
  BY <1>1, <1>5, <1>6, Zenon DEF Abstract!Next, Abstract!Change, trees

\* Every step is a step of ReadThrough or changes nothing of it.
LEMMA NextRefines ==
    IInv /\ SourceInv /\ [Next]_vars => [Abstract!Next]_(Abstract!vars)
<1> SUFFICES ASSUME IInv, SourceInv, [Next]_vars PROVE [Abstract!Next]_(Abstract!vars)
  OBVIOUS
<1>1. CASE Tick \/ UNCHANGED vars
  <2>1. UNCHANGED <<history, floor, call>>
    BY <1>1 DEF Tick, vars
  <2>2. Lookups' = Lookups
    BY <2>1 DEF Lookups
  <2> QED
    BY <2>1, <2>2, MappedLookups, SameTrees DEF Abstract!vars
<1> QED
  BY <1>1, StartRefines, AdvanceRefines, ChangeRefines DEF Next

\* Without a call and with the first tree ReadThrough begins as well.
LEMMA InitRefines == Init => Abstract!Init
<1> SUFFICES ASSUME Init PROVE Abstract!Init
  OBVIOUS
<1>1. Version = 1 /\ Tree(1) = FirstTree
  BY DEF Init, Version, Tree
<1>2. [v \in 1..Version |-> Tree(v)] = <<FirstTree>>
  BY <1>1
<1>3. Lookups = [c \in Callers |-> Abstract!Nothing]
  BY NoCallOK, LookupCases DEF Init, Lookups
<1> QED
  BY <1>2, <1>3, MappedLookups DEF Init, Abstract!Init

(* The file system is a read-through of the source, within what its          *)
(* invalidations promise: whatever the cache holds, drops, lets expire or    *)
(* fails to do, and however calls interleave, each lookup is answered with   *)
(* what the router, or its listing of the parent, says of a span of states   *)
(* that begins no earlier than the promise under which the lookup began.     *)
THEOREM ImplementsReadThrough == Spec => ReadsThrough
BY InitRefines, NextRefines, SourceInvHolds, PTL DEF Spec, ReadsThrough, Abstract!Spec

=============================================================================
