--------------------------- MODULE Entries_proofs ---------------------------
(* Proofs about what entries carry: the time at which they expire bounds how *)
(* old an answer can be, and the source roots of their scope let a watcher's *)
(* Invalidate find them.                                                     *)
EXTENDS ConsistentRouter, ProxyFS_proofs

---------------------------------------------------------------------------
(* Age. With a default TTL above zero every entry expires. A version that a  *)
(* call or an entry does not know of yet began no earlier than the read that *)
(* missed it; from there an answer is stored within MaxFetch and served for  *)
(* at most MaxTTL. now is the clock, h the history.                          *)

InTime(first, since, h) == first < Len(h) => h[first + 1].since >= since

CallAge(r, h, now) ==
    /\ r.now <= now
    /\ r.step \in {"finish", "put", "children"} =>
           /\ r.now <= r.readAt /\ r.readAt <= now /\ now <= r.readAt + MaxFetch
           /\ InTime(r.first, r.readAt, h)
    /\ r.step \in {"put", "children"} => r.answer.ttl <= MaxTTL
    /\ r.step = "opened" \/ (r.step = "done" /\ r.first # 0) =>
           InTime(r.first, r.now - (MaxTTL + MaxFetch) + 1, h)

EntryAge(e, h, now) ==
    /\ e.expires \in Nat
    /\ e.expires <= now + MaxTTL
    /\ InTime(e.asOf, e.expires - (MaxTTL + MaxFetch), h)

AgeInv ==
    /\ \A c \in Callers : CallAge(call[c], history, clock)
    /\ \A e \in entries : EntryAge(e, history, clock)

\* The bounds on lifetimes and on a fetch are numbers.
LEMMA BoundsOK == MaxTTL \in Nat /\ MaxTTL > 0 /\ MaxFetch \in Nat
BY ProxyFSAssumption

\* A version that comes now is in time for whatever had to be in time before.
LEMMA InTimeGrows ==
    ASSUME GhostsOK, NEW tree \in Trees, SourceChanges(tree), NEW first \in 0..Version,
           NEW since \in Int, since <= clock, InTime(first, since, history)
    PROVE  InTime(first, since, history')
<1>1. Version \in Nat /\ Len(history') = Version + 1
  BY HistoryOK, HistoryGrows DEF Version
<1>2. history'[Version + 1].since = clock /\ \A v \in 1..Version : history'[v] = history[v]
  <2>1. history'[Version + 1] = [tree |-> tree, since |-> clock]
        /\ \A v \in 1..Version : history'[v] = history[v]
    BY HistoryGrows
  <2> QED
    BY <2>1
<1>3. CASE first = Version
  BY <1>1, <1>2, <1>3, HistoryOK DEF InTime, GhostsOK
<1>4. CASE first < Version
  <2>1. first + 1 \in 1..Version
    BY <1>1, <1>4
  <2> QED
    BY <1>1, <1>2, <1>4, <2>1 DEF InTime, Version
<1> QED
  BY <1>1, <1>3, <1>4

\* A caller replaces its call, and every entry expires in time.
LEMMA CallStepAge ==
    ASSUME IInv, AgeInv, NEW c \in Callers, NEW r, CallAge(r, history, clock),
           call' = [call EXCEPT ![c] = r], UNCHANGED <<clock, history>>,
           \A e \in entries' : e \in entries \/ EntryAge(e, history, clock)
    PROVE  AgeInv'
<1>1. ASSUME NEW d \in Callers PROVE CallAge(call'[d], history', clock')
  <2>1. CASE d = c
    BY <2>1 DEF IInv
  <2>2. CASE d # c
    BY <2>2 DEF IInv, AgeInv
  <2> QED
    BY <2>1, <2>2
<1>2. ASSUME NEW e \in entries' PROVE EntryAge(e, history', clock')
  BY DEF AgeInv
<1> QED
  BY <1>1, <1>2 DEF AgeInv

\* A call that has read nothing, or has no answer of a lookup, is only not ahead.
LEMMA SilentStepAge ==
    ASSUME IInv, AgeInv, NEW c \in Callers, NEW r, r.now <= clock,
           \/ r.step \in {"idle", "get", "read", "dropparent"}
           \/ r.step = "done" /\ r.first = 0,
           call' = [call EXCEPT ![c] = r], UNCHANGED <<clock, history>>,
           entries' \subseteq entries
    PROVE  AgeInv'
<1>1. CallAge(r, history, clock)
  BY DEF CallAge
<1> QED
  BY <1>1, CallStepAge

\* So is one that ends with an error, or after an invalidation.
LEMMA ReturnedAge ==
    ASSUME IInv, AgeInv, NEW c \in Callers, NEW err \in Errors,
           call' = [call EXCEPT ![c] = Returned(err)], UNCHANGED <<clock, history>>,
           entries' \subseteq entries
    PROVE  AgeInv'
<1>1. Returned(err).now = 0 /\ 0 <= clock
  BY DEF Returned, NoCall, IInv, GhostsOK
<1> QED
  BY <1>1, ReturnedOK, SilentStepAge

\* A lookup is settled with an answer that was in time for it.
LEMMA SettledAge ==
    ASSUME IInv, NEW c \in Callers, call[c].now <= clock, NEW answer, NEW first,
           InTime(first, call[c].now - (MaxTTL + MaxFetch) + 1, history)
    PROVE  CallAge(Settled(c, answer, first), history, clock)
<1>1. call[c] \in Calls
  BY DEF IInv
<1>2. /\ Settled(c, answer, first).step \in {"opened", "done"}
      /\ Settled(c, answer, first).first = first
      /\ Settled(c, answer, first).now = call[c].now
  BY <1>1 DEF Settled, Calls
<1> QED
  BY <1>2 DEF CallAge

\* A lookup that has its answer from the router settles in time.
LEMMA FetchedInTime ==
    ASSUME IInv, AgeInv, NEW c \in Callers,
           call[c].step \in {"finish", "put", "children"}, NEW answer
    PROVE  CallAge(Settled(c, answer, call[c].first), history, clock)
<1>1. CallAge(call[c], history, clock) /\ CallOK(call[c], floor, Version) /\ call[c] \in Calls
  BY DEF AgeInv, IInv
<1>2. /\ call[c].now \in Nat /\ call[c].readAt \in Nat /\ clock \in Nat
      /\ call[c].first \in 1..Version /\ Version \in Nat
  BY <1>1, HistoryOK DEF Calls, CallOK, IInv, GhostsOK
<1>3. /\ call[c].now <= clock /\ call[c].now <= call[c].readAt
      /\ InTime(call[c].first, call[c].readAt, history)
  BY <1>1 DEF CallAge
<1>4. call[c].first < Len(history) => history[call[c].first + 1].since \in Nat
  BY <1>2, HistoryOK DEF IInv, Version
<1>5. InTime(call[c].first, call[c].now - (MaxTTL + MaxFetch) + 1, history)
  <2> DEFINE now == call[c].now
             readAt == call[c].readAt
             missed == now - (MaxTTL + MaxFetch) + 1
  <2>1. now \in Nat /\ readAt \in Nat /\ now <= readAt
    BY <1>2, <1>3
  <2>2. missed \in Int /\ missed <= readAt
    <3> HIDE DEF now, readAt
    <3> QED
      BY <2>1, BoundsOK
  <2>3. call[c].first < Len(history) => history[call[c].first + 1].since >= readAt
    BY <1>3 DEF InTime
  <2> HIDE DEF missed, readAt
  <2>4. InTime(call[c].first, missed, history)
    BY <1>4, <2>1, <2>2, <2>3 DEF InTime
  <2> QED
    BY <2>4 DEF missed
<1> QED
  BY <1>3, <1>5, SettledAge

\* An entry that is stored expires, and not later than the read behind it allows.
LEMMA StoredAge ==
    ASSUME IInv, AgeInv, DefaultTTL > 0, NEW c \in Callers,
           call[c].step \in {"put", "children"}, Stored(call[c].answer),
           NEW key, NEW nodes
    PROVE  EntryAge(EntryOf(key, call[c].answer, nodes, call[c].first), history, clock)
<1> DEFINE answer == call[c].answer
           ttl == TTLOf(answer)
           e == EntryOf(key, answer, nodes, call[c].first)
<1>1. CallAge(call[c], history, clock) /\ CallOK(call[c], floor, Version) /\ call[c] \in Calls
  BY DEF AgeInv, IInv
<1>2. /\ call[c].readAt \in Nat /\ clock \in Nat /\ answer \in Answers /\ answer.ttl \in Int
      /\ call[c].first \in 1..Version /\ Version \in Nat
  BY <1>1, HistoryOK DEF Calls, CallOK, IInv, GhostsOK, Answers
<1>3. /\ answer.ttl <= MaxTTL /\ clock <= call[c].readAt + MaxFetch
      /\ InTime(call[c].first, call[c].readAt, history)
  BY <1>1 DEF CallAge
<1>4. ttl \in 1..MaxTTL
  <2>1. CASE answer.err = "none"
    BY <1>2, <1>3, <2>1, ProxyFSAssumption DEF Stored, TTLOf
  <2>2. CASE answer.err # "none"
    BY <2>2, ProxyFSAssumption DEF Stored, TTLOf
  <2> QED
    BY <2>1, <2>2
<1>5. e.expires = clock + ttl /\ e.asOf = call[c].first
  BY <1>2, <1>4, ProxyFSAssumption DEF EntryOf, Expiry
<1>6. call[c].first < Len(history) => history[call[c].first + 1].since \in Nat
  BY <1>2, HistoryOK DEF IInv, Version
<1> HIDE DEF e, ttl, answer
<1>7. InTime(e.asOf, e.expires - (MaxTTL + MaxFetch), history)
  <2> DEFINE next == history[call[c].first + 1].since
  <2>1. call[c].first < Len(history) => next \in Nat /\ next >= call[c].readAt
    BY <1>3, <1>6 DEF InTime
  <2> HIDE DEF next
  <2>2. call[c].first < Len(history) => next >= clock + ttl - (MaxTTL + MaxFetch)
    BY <1>2, <1>3, <1>4, <2>1, ProxyFSAssumption
  <2> QED
    BY <1>2, <1>4, <1>5, <2>1, <2>2, ProxyFSAssumption DEF InTime, next
<1> QED
  BY <1>2, <1>4, <1>5, <1>7, ProxyFSAssumption DEF EntryAge, e, answer

\* The calls that start take the time, or none.
LEMMA StartAge == ASSUME IInv, AgeInv, NEW c \in Callers, Start(c) PROVE AgeInv'
<1>1. {"none", "cache", "invalid"} \subseteq Errors /\ clock \in Nat
  BY DEF Errors, IInv, GhostsOK
<1>2. CASE Reject(c)
  BY <1>1, <1>2, ReturnedAge DEF Reject
<1>3. ASSUME NEW op \in LookupOps, NEW path \in Targets, Begin(c, op, path)
      PROVE  AgeInv'
  <2> DEFINE r == Lookup(op, FirstKind[op], path)
  <2>1. r.step = "get" /\ r.now <= clock
    BY <1>1 DEF Lookup, NoCall
  <2>2. call' = [call EXCEPT ![c] = r] /\ UNCHANGED <<clock, history>> /\ entries' \subseteq entries
    BY <1>3 DEF Begin
  <2> HIDE DEF r
  <2> QED
    BY <2>1, <2>2, SilentStepAge
<1>4. ASSUME NEW path \in Targets, InvalidatePath(c, path) PROVE AgeInv'
  <2> DEFINE r == [NoCall EXCEPT !.step = "dropparent", !.op = "invalidatepath",
                                 !.path = path]
  <2>1. CASE InvalidateFails(c)
    BY <1>1, <2>1, ReturnedAge DEF InvalidateFails
  <2>2. CASE ~InvalidateFails(c)
    <3>1. /\ call' = [call EXCEPT ![c] = r] /\ UNCHANGED <<clock, history>>
          /\ entries' \subseteq entries
      BY <1>4, <2>2 DEF InvalidatePath, Invalidate
    <3>2. r.step = "dropparent" /\ r.now <= clock
      BY <1>1 DEF NoCall
    <3> HIDE DEF r
    <3> QED
      BY <3>1, <3>2, SilentStepAge
  <2> QED
    BY <2>1, <2>2
<1>5. ASSUME NEW scope \in Scopes, InvalidateScope(c, scope) PROVE AgeInv'
  BY <1>1, <1>5, ReturnedAge DEF InvalidateScope, InvalidateFails, Invalidate
<1>6. CASE ClearCache(c)
  BY <1>1, <1>6, ReturnedAge DEF ClearCache, InvalidateFails, Clear
<1>7. CASE DeleteKey(c)
  BY <1>1, <1>7, ReturnedAge DEF DeleteKey, Delete
<1> QED
  BY <1>2, <1>3, <1>4, <1>5, <1>6, <1>7 DEF Start

\* A hit is served before its entry expires.
LEMMA HitAge == ASSUME IInv, AgeInv, NEW c \in Callers, Hit(c) PROVE AgeInv'
<1>1. PICK e \in Found(CallKey(c)) :
          /\ ~Expired(e, call[c].now)
          /\ call' = [call EXCEPT ![c] = Settled(c, Served(e), e.asOf)]
  BY DEF Hit
<1>2. EntryAge(e, history, clock) /\ EntryOK(e, floor, Version) /\ CallAge(call[c], history, clock)
  BY DEF Found, AgeInv, IInv
<1>3. /\ call[c].now \in Nat /\ call[c].now <= clock /\ e.expires \in Nat
      /\ e.asOf \in 1..Version /\ Version \in Nat
  BY <1>2, HistoryOK DEF CallAge, EntryAge, EntryOK, IInv, Calls
<1>4. call[c].now < e.expires
  BY <1>1, <1>3 DEF Expired, Never
<1>5. e.asOf < Len(history) => history[e.asOf + 1].since \in Nat
  BY <1>3, HistoryOK DEF IInv, Version
<1>6. InTime(e.asOf, call[c].now - (MaxTTL + MaxFetch) + 1, history)
  BY <1>2, <1>3, <1>4, <1>5, ProxyFSAssumption DEF EntryAge, InTime
<1>7. CallAge(Settled(c, Served(e), e.asOf), history, clock)
  BY <1>3, <1>6, SettledAge
<1> QED
  BY <1>1, <1>7, CallStepAge DEF Hit

\* The router begins to read: what it misses begins now or later.
LEMMA ReadAge == ASSUME IInv, AgeInv, NEW c \in Callers, Read(c) PROVE AgeInv'
<1> DEFINE r == [call[c] EXCEPT !.step = "finish", !.first = Version, !.readAt = clock]
<1>1. call[c] \in Calls /\ CallAge(call[c], history, clock) /\ clock \in Nat /\ Version \in Nat
  BY HistoryOK DEF IInv, AgeInv, GhostsOK
<1>2. r.step = "finish" /\ r.first = Version /\ r.readAt = clock /\ r.now = call[c].now
  BY <1>1 DEF Calls
<1>3. call' = [call EXCEPT ![c] = r]
  BY DEF Read, IInv
<1> HIDE DEF r
<1>4. CallAge(r, history, clock)
  BY <1>1, <1>2, ProxyFSAssumption DEF CallAge, InTime, Version
<1> QED
  BY <1>3, <1>4, CallStepAge DEF Read

\* The answer that a fetch ends with lives no longer than MaxTTL.
LEMMA FinishAge == ASSUME IInv, AgeInv, NEW c \in Callers, Finish(c) PROVE AgeInv'
<1>1. /\ call[c] \in Calls /\ CallAge(call[c], history, clock)
      /\ CallOK(call[c], floor, Version) /\ call[c].step = "finish"
  BY DEF IInv, AgeInv, Finish, At
<1>2. PICK answer :
          /\ answer.ttl <= MaxTTL
          /\ call' = [call EXCEPT ![c] =
                         IF Stored(answer) THEN [call[c] EXCEPT !.step = "put", !.answer = answer]
                                           ELSE Settled(c, answer, call[c].first)]
  <2>1. Span(call[c].first, Version) \in Spans
    BY <1>1, HistoryOK, SpanOK DEF CallOK, Calls, IInv
  <2>2. PICK answer \in RouterAnswers(Span(call[c].first, Version), call[c].kind, call[c].path) :
            call' = [call EXCEPT ![c] =
                        IF Stored(answer) THEN [call[c] EXCEPT !.step = "put", !.answer = answer]
                                          ELSE Settled(c, answer, call[c].first)]
    BY DEF Finish, IInv
  <2>3. answer.ttl <= MaxTTL
    BY <1>1, <2>1, RouterAssumption DEF Calls
  <2> QED
    BY <2>2, <2>3
<1> DEFINE r == [call[c] EXCEPT !.step = "put", !.answer = answer]
<1>3. CASE Stored(answer)
  <2>1. /\ r.step = "put" /\ r.answer = answer /\ r.now = call[c].now
        /\ r.readAt = call[c].readAt /\ r.first = call[c].first
    BY <1>1 DEF Calls
  <2>2. call' = [call EXCEPT ![c] = r]
    BY <1>2, <1>3
  <2> HIDE DEF r
  <2>3. CallAge(r, history, clock)
    BY <1>1, <1>2, <2>1 DEF CallAge
  <2> QED
    BY <2>2, <2>3, CallStepAge DEF Finish
<1>4. CASE ~Stored(answer)
  <2>1. CallAge(Settled(c, answer, call[c].first), history, clock)
    BY <1>1, FetchedInTime
  <2>2. call' = [call EXCEPT ![c] = Settled(c, answer, call[c].first)]
    BY <1>2, <1>4
  <2> QED
    BY <2>1, <2>2, CallStepAge DEF Finish
<1> QED
  BY <1>3, <1>4

\* A lookup's own entry, and those of the children of a listing.
LEMMA PutAge ==
    ASSUME IInv, AgeInv, DefaultTTL > 0, NEW c \in Callers, PutAnswer(c) \/ PutChild(c)
    PROVE  AgeInv'
<1>1. /\ call[c] \in Calls /\ CallAge(call[c], history, clock)
      /\ CallOK(call[c], floor, Version) /\ call[c].step \in {"put", "children"}
  BY DEF IInv, AgeInv, PutAnswer, PutChild, At
<1>2. Stored(call[c].answer)
  BY <1>1 DEF CallOK
<1>3. \A e \in entries' : e \in entries \/ EntryAge(e, history, clock)
  <2>1. ASSUME NEW key, NEW nodes,
               \/ Put(EntryOf(key, call[c].answer, nodes, call[c].first))
               \/ UNCHANGED entries
        PROVE  \A e \in entries' : e \in entries \/ EntryAge(e, history, clock)
    <3>1. EntryAge(EntryOf(key, call[c].answer, nodes, call[c].first), history, clock)
      BY <1>1, <1>2, StoredAge
    <3> QED
      BY <2>1, <3>1 DEF Put
  <2> QED
    BY <2>1 DEF PutAnswer, PutChild, PutOrFail
<1>4. PICK r :
          /\ call' = [call EXCEPT ![c] = r]
          /\ \/ r = Settled(c, call[c].answer, call[c].first)
             \/ r = [call[c] EXCEPT !.step = "children", !.todo = call[c].answer.nodes]
             \/ \E n \in call[c].todo :
                    r = [call[c] EXCEPT !.todo = call[c].todo \ {n}]
  BY DEF PutAnswer, PutChild, IInv
<1>5. CASE r = Settled(c, call[c].answer, call[c].first)
  BY <1>1, <1>3, <1>4, <1>5, FetchedInTime, CallStepAge DEF PutAnswer, PutChild
<1>6. CASE r # Settled(c, call[c].answer, call[c].first)
  <2>1. /\ r.step \in {"put", "children"} /\ r.answer = call[c].answer
        /\ r.now = call[c].now /\ r.readAt = call[c].readAt /\ r.first = call[c].first
    BY <1>1, <1>4, <1>6 DEF Calls
  <2>2. CallAge(r, history, clock)
    BY <1>1, <2>1 DEF CallAge
  <2> QED
    BY <1>3, <1>4, <2>2, CallStepAge DEF PutAnswer, PutChild
<1> QED
  BY <1>5, <1>6

\* The second half of Open has no answer of a lookup, or a time of its own.
LEMMA OpenAge ==
    ASSUME IInv, AgeInv, NEW c \in Callers, OpenDenied(c) \/ OpenDir(c) \/ OpenFile(c)
    PROVE  AgeInv'
<1>1. call[c] \in Calls /\ call[c].now <= clock /\ clock \in Nat
  BY DEF IInv, AgeInv, CallAge, GhostsOK
<1>2. ASSUME NEW answer, call' = [call EXCEPT ![c] = Ended(c, answer)],
             UNCHANGED <<entries, clock, history>>
      PROVE  AgeInv'
  <2>1. /\ Ended(c, answer).step = "done" /\ Ended(c, answer).first = 0
        /\ Ended(c, answer).now = call[c].now
    BY <1>1 DEF Ended, Calls
  <2> QED
    BY <1>1, <1>2, <2>1, SilentStepAge
<1>3. CASE OpenDir(c)
  <2> DEFINE r == Lookup("open", "dir", call[c].path)
  <2>1. r.step = "get" /\ r.now <= clock
    BY <1>1 DEF Lookup, NoCall
  <2>2. call' = [call EXCEPT ![c] = r] /\ UNCHANGED <<entries, clock, history>>
    BY <1>3 DEF OpenDir, IInv
  <2> HIDE DEF r
  <2> QED
    BY <2>1, <2>2, SilentStepAge
<1> QED
  BY <1>2, <1>3 DEF OpenDenied, OpenFile

\* A call that has begun goes on.
LEMMA AdvanceAge ==
    ASSUME IInv, AgeInv, DefaultTTL > 0, NEW c \in Callers, Advance(c)
    PROVE  AgeInv'
<1>1. /\ {"none", "cache"} \subseteq Errors /\ clock \in Nat
      /\ call[c] \in Calls /\ call[c].now <= clock
  BY DEF Errors, IInv, AgeInv, CallAge, GhostsOK
<1>2. CASE Miss(c)
  <2> DEFINE r == [call[c] EXCEPT !.step = "read"]
  <2>1. r.step = "read" /\ r.now = call[c].now
    BY <1>1 DEF Calls
  <2>2. call' = [call EXCEPT ![c] = r] /\ UNCHANGED <<entries, clock, history>>
    BY <1>2 DEF Miss, IInv
  <2> HIDE DEF r
  <2> QED
    BY <1>1, <2>1, <2>2, SilentStepAge
<1>3. CASE GetFails(c)
  BY <1>1, <1>3, ReturnedAge DEF GetFails
<1>4. CASE InvalidateParent(c)
  BY <1>1, <1>4, ReturnedAge DEF InvalidateParent, InvalidateFails, Invalidate
<1>5. CASE Return(c)
  <2>1. NoCall.now = 0
    BY DEF NoCall
  <2> QED
    <3>1. NoCall.step = "idle" /\ NoCall.now <= clock
      BY <1>1, <2>1, NoCallOK
    <3>2. call' = [call EXCEPT ![c] = NoCall] /\ UNCHANGED <<entries, clock, history>>
      BY <1>5 DEF Return
    <3> QED
      BY <3>1, <3>2, SilentStepAge
<1> QED
  BY <1>2, <1>3, <1>4, <1>5, HitAge, ReadAge, FinishAge, PutAge, OpenAge DEF Advance

\* A new version is in time for every call and entry.
LEMMA SourceChangesAge ==
    ASSUME IInv, AgeInv, NEW tree \in Trees, SourceChanges(tree) PROVE AgeInv'
<1>1. GhostsOK /\ clock \in Nat /\ UNCHANGED <<entries, call, clock>>
  BY DEF IInv, GhostsOK, SourceChanges
<1>2. ASSUME NEW c \in Callers PROVE CallAge(call[c], history', clock)
  <2>1. CallAge(call[c], history, clock) /\ CallOK(call[c], floor, Version) /\ call[c] \in Calls
    BY DEF AgeInv, IInv
  <2>2. /\ call[c].first \in 0..Version /\ call[c].now \in Nat /\ call[c].readAt \in Nat
        /\ call[c].now <= clock
    BY <1>1, <2>1, HistoryOK DEF CallOK, Calls, CallAge
  <2> DEFINE first == call[c].first
             missed == call[c].now - (MaxTTL + MaxFetch) + 1
  <2>3. missed \in Int /\ missed <= clock
    <3> DEFINE now == call[c].now
    <3>1. now \in Nat /\ now <= clock
      BY <2>2
    <3> HIDE DEF now
    <3>2. now - (MaxTTL + MaxFetch) + 1 \in Int /\ now - (MaxTTL + MaxFetch) + 1 <= clock
      BY <1>1, <3>1, BoundsOK
    <3> QED
      BY <3>2 DEF now
  <2>4. InTime(first, missed, history) => InTime(first, missed, history')
    <3> HIDE DEF missed
    <3> QED
      BY <1>1, <2>2, <2>3, InTimeGrows
  <2>5. call[c].readAt <= clock /\ InTime(first, call[c].readAt, history)
            => InTime(first, call[c].readAt, history')
    BY <1>1, <2>2, InTimeGrows
  <2> QED
    BY <2>1, <2>4, <2>5 DEF CallAge
<1>3. ASSUME NEW e \in entries PROVE EntryAge(e, history', clock)
  <2>1. EntryAge(e, history, clock) /\ e.asOf \in 1..Version
    BY DEF AgeInv, IInv, EntryOK
  <2> DEFINE missed == e.expires - (MaxTTL + MaxFetch)
  <2>2. missed \in Int /\ missed <= clock /\ e.asOf \in 0..Version
    BY <1>1, <2>1, ProxyFSAssumption, HistoryOK DEF EntryAge
  <2>3. InTime(e.asOf, missed, history')
    <3>1. InTime(e.asOf, missed, history)
      BY <2>1 DEF EntryAge
    <3> HIDE DEF missed
    <3> QED
      BY <1>1, <2>2, <3>1, InTimeGrows
  <2> QED
    BY <2>1, <2>3 DEF EntryAge
<1> QED
  BY <1>1, <1>2, <1>3 DEF AgeInv

\* Time passes, and waits for the fetches that are at their limit.
LEMMA TickAge == ASSUME IInv, AgeInv, Tick PROVE AgeInv'
<1>1. clock \in Nat /\ clock' = clock + 1 /\ UNCHANGED <<entries, history, call>>
  BY DEF Tick, IInv, GhostsOK
<1>2. ASSUME NEW c \in Callers PROVE CallAge(call[c], history, clock + 1)
  <2>1. call[c] \in Calls /\ CallAge(call[c], history, clock)
    BY DEF AgeInv, IInv
  <2>2. call[c].now \in Nat /\ call[c].readAt \in Nat
    BY <2>1 DEF Calls
  <2>3. call[c].step \in {"finish", "put", "children"} => clock < call[c].readAt + MaxFetch
    BY DEF Tick, InFlight
  <2> QED
    BY <1>1, <2>1, <2>2, <2>3, ProxyFSAssumption DEF CallAge
<1>3. ASSUME NEW e \in entries PROVE EntryAge(e, history, clock + 1)
  BY <1>1, ProxyFSAssumption DEF AgeInv, EntryAge
<1> QED
  BY <1>1, <1>2, <1>3 DEF AgeInv

\* So the invariant holds of every step, with a default TTL.
LEMMA NextAge == DefaultTTL > 0 /\ IInv /\ AgeInv /\ [Next]_vars => AgeInv'
<1> SUFFICES ASSUME DefaultTTL > 0, IInv, AgeInv, [Next]_vars PROVE AgeInv'
  OBVIOUS
<1>1. CASE UNCHANGED vars
  BY <1>1 DEF vars, AgeInv
<1> QED
  BY <1>1, StartAge, AdvanceAge, SourceChangesAge, TickAge DEF Next

(* Without any invalidation no answer is older than a TTL and a fetch: the   *)
(* version that a lookup answers from was still the source's that long       *)
(* before the lookup began, for any number of lookups that store and reread  *)
(* each other's entries, listings that store their children, and answers     *)
(* with TTLs of their own up to MaxTTL. With a DefaultTTL below zero nothing *)
(* bounds it, and the property claims nothing.                               *)
THEOREM StalenessBounded == Spec => []BoundedStaleness
<1>1. CASE DefaultTTL > 0
  <2>1. Init => AgeInv
    <3> SUFFICES ASSUME Init PROVE AgeInv
      OBVIOUS
    <3>1. \A c \in Callers : call[c] = NoCall /\ call[c].now = 0
      BY DEF Init, NoCall
    <3> QED
      BY <3>1, NoCallOK DEF Init, CacheInit, AgeInv, CallAge
  <2>2. IInv /\ AgeInv => BoundedStaleness
    <3> SUFFICES ASSUME IInv, AgeInv, NEW c \in Callers, Answered(c) \/ At(c, "opened"),
                        call[c].first < Version
                 PROVE  history[call[c].first + 1].since > call[c].now - (MaxTTL + MaxFetch)
      BY DEF BoundedStaleness
    <3>1. InTime(call[c].first, call[c].now - (MaxTTL + MaxFetch) + 1, history)
      BY DEF AgeInv, CallAge, Answered, At
    <3>2. call[c].first \in Nat /\ call[c].now \in Nat
      BY DEF IInv, Calls
    <3>3. history[call[c].first + 1].since \in Nat
      BY <3>2, HistoryOK DEF IInv
    <3> DEFINE next == history[call[c].first + 1].since
    <3>4. next >= call[c].now - (MaxTTL + MaxFetch) + 1
      BY <3>1 DEF InTime, Version
    <3> HIDE DEF next
    <3>5. next > call[c].now - (MaxTTL + MaxFetch)
      <4>1. next \in Nat
        BY <3>3 DEF next
      <4> QED
        BY <3>2, <3>4, <4>1, ProxyFSAssumption
    <3> QED
      BY <3>5 DEF next
  <2>3. IInv /\ AgeInv /\ [Next]_vars => (IInv /\ AgeInv)'
    BY <1>1, NextIInv, NextAge
  <2> QED
    BY <2>1, <2>2, <2>3, InitIInv, PTL DEF Spec
<1>2. CASE ~(DefaultTTL > 0)
  <2>1. BoundedStaleness
    BY <1>2 DEF BoundedStaleness
  <2> QED
    BY <2>1, PTL
<1> QED
  BY <1>1, <1>2

---------------------------------------------------------------------------
(* Source roots. What an entry names, and what a call is about to store, is  *)
(* covered by the roots it is stored with.                                   *)

Named(key, nodes, paths) ==
    {n.source : n \in {m \in nodes : ~m.virtual}}
        \cup (IF key.kind = "sources" /\ key.path \notin MadeUp THEN paths ELSE {})
        \cup (IF key.kind = "targets" THEN {key.path} ELSE {})

RootsOK(named, roots) == \A p \in named : CoveredBy(p, roots)

CallRoots(r) ==
    r.step \in {"put", "children"} /\ r.answer.err = "none" =>
        /\ RootsOK(Named(KeyFor(r.kind, r.path), r.answer.nodes, r.answer.paths),
                   r.answer.sources)
        /\ r.step = "children" => r.todo \subseteq r.answer.nodes

EntryRoots(e) == ~e.negative => RootsOK(Named(e.key, e.nodes, e.paths), e.sources)

RootsInv ==
    /\ \A c \in Callers : CallRoots(call[c])
    /\ \A e \in entries : EntryRoots(e)

\* Paths of which one is p, or above it, are nested, as sourceMatches asks.
LEMMA Nested ==
    ASSUME NEW S, NEW p \in Seq(S), NEW s \in Seq(S), NEW t \in Seq(S),
           p = s \/ HasPathPrefix(p, s), p = t \/ HasPathPrefix(p, t)
    PROVE  s = t \/ HasPathPrefix(s, t) \/ HasPathPrefix(t, s)
<1>1. ASSUME NEW r \in Seq(S), p = r \/ HasPathPrefix(p, r)
      PROVE  Len(r) \in Nat /\ \A i \in 1..Len(r) : r[i] = p[i]
  BY <1>1 DEF HasPathPrefix, Root
<1>2. ASSUME NEW r \in Seq(S), NEW q \in Seq(S), Len(r) <= Len(q),
             \A i \in 1..Len(r) : r[i] = q[i]
      PROVE  r = q \/ HasPathPrefix(q, r)
  <2>1. CASE Len(r) = Len(q)
    BY <1>2, <2>1
  <2>2. CASE Len(r) < Len(q)
    <3>1. Len(SubSeq(q, 1, Len(r))) = Len(r) /\ SubSeq(q, 1, Len(r)) \in Seq(S)
      BY <1>2, <2>2
    <3>2. \A i \in 1..Len(r) : SubSeq(q, 1, Len(r))[i] = r[i]
      BY <1>2, <2>2
    <3>3. SubSeq(q, 1, Len(r)) = r
      BY <1>2, <3>1, <3>2
    <3> QED
      BY <2>2, <3>3 DEF HasPathPrefix
  <2> QED
    BY <1>2, <2>1, <2>2
<1>3. /\ Len(s) \in Nat /\ \A i \in 1..Len(s) : s[i] = p[i]
      /\ Len(t) \in Nat /\ \A i \in 1..Len(t) : t[i] = p[i]
  BY <1>1
<1>4. CASE Len(s) <= Len(t)
  <2>1. \A i \in 1..Len(s) : s[i] = t[i]
    BY <1>3, <1>4
  <2> QED
    BY <1>2, <1>4, <2>1
<1>5. CASE Len(t) <= Len(s)
  <2>1. \A i \in 1..Len(t) : t[i] = s[i]
    BY <1>3, <1>5
  <2> QED
    BY <1>2, <1>5, <2>1
<1> QED
  BY <1>3, <1>4, <1>5

\* A caller replaces its call, and the entries there are have their roots.
LEMMA CallStepRoots ==
    ASSUME IInv, RootsInv, NEW c \in Callers, NEW r, CallRoots(r),
           call' = [call EXCEPT ![c] = r],
           \A e \in entries' : e \in entries \/ EntryRoots(e)
    PROVE  RootsInv'
<1>1. ASSUME NEW d \in Callers PROVE CallRoots(call'[d])
  <2>1. CASE d = c
    BY <2>1 DEF IInv
  <2>2. CASE d # c
    BY <2>2 DEF IInv, RootsInv
  <2> QED
    BY <2>1, <2>2
<1>2. ASSUME NEW e \in entries' PROVE EntryRoots(e)
  BY DEF RootsInv
<1> QED
  BY <1>1, <1>2 DEF RootsInv

\* A call that is not about to store anything, and stores nothing.
LEMMA SilentStepRoots ==
    ASSUME IInv, RootsInv, NEW c \in Callers, NEW r, r.step \notin {"put", "children"},
           call' = [call EXCEPT ![c] = r], entries' \subseteq entries
    PROVE  RootsInv'
<1>1. CallRoots(r)
  BY DEF CallRoots
<1> QED
  BY <1>1, CallStepRoots

LEMMA ReturnedRoots ==
    ASSUME IInv, RootsInv, NEW c \in Callers, NEW err \in Errors,
           call' = [call EXCEPT ![c] = Returned(err)], entries' \subseteq entries
    PROVE  RootsInv'
BY ReturnedOK, SilentStepRoots

\* What the router answers is covered by the roots it answers with.
LEMMA FinishRoots == ASSUME IInv, RootsInv, NEW c \in Callers, Finish(c) PROVE RootsInv'
<1>1. call[c] \in Calls /\ CallOK(call[c], floor, Version) /\ call[c].step = "finish"
  BY DEF IInv, Finish, At
<1>2. Span(call[c].first, Version) \in Spans
  BY <1>1, HistoryOK, SpanOK DEF CallOK, Calls, IInv
<1>3. PICK answer :
          /\ answer.err = "none" =>
                 RootsOK(Named(KeyFor(call[c].kind, call[c].path), answer.nodes, answer.paths),
                         answer.sources)
          /\ call' = [call EXCEPT ![c] =
                         IF Stored(answer) THEN [call[c] EXCEPT !.step = "put", !.answer = answer]
                                           ELSE Settled(c, answer, call[c].first)]
  <2>1. call[c].kind \in CacheKinds /\ call[c].path \in Targets
    BY <1>1 DEF Calls
  <2>2. PICK answer \in RouterAnswers(Span(call[c].first, Version), call[c].kind, call[c].path) :
            call' = [call EXCEPT ![c] =
                        IF Stored(answer) THEN [call[c] EXCEPT !.step = "put", !.answer = answer]
                                          ELSE Settled(c, answer, call[c].first)]
    BY DEF Finish, IInv
  <2>3. answer.err = "none" =>
            /\ \A n \in answer.nodes : ~n.virtual => CoveredBy(n.source, answer.sources)
            /\ call[c].kind = "sources" /\ call[c].path \notin MadeUp =>
                   \A p \in answer.paths : CoveredBy(p, answer.sources)
            /\ call[c].kind = "targets" => CoveredBy(call[c].path, answer.sources)
    BY <1>2, <2>1, <2>2, HintAssumption
  <2>4. answer.err = "none" =>
            RootsOK(Named(KeyFor(call[c].kind, call[c].path), answer.nodes, answer.paths),
                    answer.sources)
    BY <2>1, <2>3, KeyForOK DEF RootsOK, Named
  <2> QED
    BY <2>2, <2>4
<1> DEFINE r == [call[c] EXCEPT !.step = "put", !.answer = answer]
<1>4. CASE Stored(answer)
  <2>1. /\ r.step = "put" /\ r.answer = answer
        /\ r.kind = call[c].kind /\ r.path = call[c].path
    BY <1>1 DEF Calls
  <2>2. call' = [call EXCEPT ![c] = r]
    BY <1>3, <1>4
  <2> HIDE DEF r
  <2>3. CallRoots(r)
    BY <1>3, <2>1 DEF CallRoots
  <2> QED
    BY <2>2, <2>3, CallStepRoots DEF Finish
<1>5. CASE ~Stored(answer)
  <2>1. call' = [call EXCEPT ![c] = Settled(c, answer, call[c].first)]
    BY <1>3, <1>5
  <2>2. Settled(c, answer, call[c].first).step \in {"opened", "done"}
    BY <1>1 DEF Settled, Calls
  <2> QED
    BY <2>1, <2>2, SilentStepRoots DEF Finish
<1> QED
  BY <1>4, <1>5

\* An entry is stored with the roots of the answer it was made of.
LEMMA StoredRoots ==
    ASSUME NEW key, NEW answer, NEW nodes, NEW first,
           answer.err = "none" => RootsOK(Named(key, nodes, answer.paths), answer.sources)
    PROVE  EntryRoots(EntryOf(key, answer, nodes, first))
BY DEF EntryRoots, EntryOf

LEMMA PutAnswerRoots ==
    ASSUME IInv, RootsInv, NEW c \in Callers, PutAnswer(c) PROVE RootsInv'
<1> DEFINE entry == EntryOf(CallKey(c), call[c].answer, call[c].answer.nodes, call[c].first)
           onward == [call[c] EXCEPT !.step = "children", !.todo = call[c].answer.nodes]
<1>1. call[c] \in Calls /\ CallRoots(call[c]) /\ call[c].step = "put"
  BY DEF IInv, RootsInv, PutAnswer, At
<1>2. call[c].answer.err = "none" =>
          RootsOK(Named(CallKey(c), call[c].answer.nodes, call[c].answer.paths),
                  call[c].answer.sources)
  BY <1>1 DEF CallRoots, CallKey
<1>3. \A e \in entries' : e \in entries \/ EntryRoots(e)
  <2>1. EntryRoots(entry)
    BY <1>2, StoredRoots
  <2> QED
    BY <2>1 DEF PutAnswer, PutOrFail, Put
<1>4. PICK r :
          /\ call' = [call EXCEPT ![c] = r]
          /\ r = onward \/ r = Settled(c, call[c].answer, call[c].first)
  BY DEF PutAnswer, IInv
<1>5. CallRoots(r)
  <2>1. CASE r = onward
    <3>1. /\ r.step = "children" /\ r.answer = call[c].answer /\ r.kind = call[c].kind
          /\ r.path = call[c].path /\ r.todo = call[c].answer.nodes
      BY <1>1, <2>1 DEF Calls
    <3> QED
      BY <1>2, <3>1 DEF CallRoots, CallKey
  <2>2. CASE r = Settled(c, call[c].answer, call[c].first)
    BY <1>1, <2>2 DEF Settled, Calls, CallRoots
  <2> QED
    BY <1>4, <2>1, <2>2
<1> QED
  BY <1>3, <1>4, <1>5, CallStepRoots

LEMMA PutChildRoots ==
    ASSUME IInv, RootsInv, NEW c \in Callers, PutChild(c) PROVE RootsInv'
<1> DEFINE entry(n) == EntryOf(KeyFor("node", n.path), call[c].answer, {n}, call[c].first)
           onward(n) == [call[c] EXCEPT !.todo = call[c].todo \ {n}]
<1>1. /\ call[c] \in Calls /\ CallRoots(call[c]) /\ call[c].step = "children"
      /\ CallOK(call[c], floor, Version)
  BY DEF IInv, RootsInv, PutChild, At
<1>2. PICK n \in call[c].todo :
          /\ UNCHANGED entries \/ Put(entry(n))
          /\ \/ call' = [call EXCEPT ![c] = onward(n)]
             \/ call' = [call EXCEPT ![c] = Settled(c, call[c].answer, call[c].first)]
  BY DEF PutChild, PutOrFail, IInv
<1>3. EntryRoots(entry(n))
  <2>1. call[c].answer.err = "none" =>
            RootsOK(Named(KeyFor("node", n.path), {n}, call[c].answer.paths),
                    call[c].answer.sources)
    <3>1. call[c].answer.err = "none" /\ ~n.virtual => CoveredBy(n.source, call[c].answer.sources)
      BY <1>1 DEF CallRoots, RootsOK, Named
    <3> QED
      BY <3>1 DEF RootsOK, Named, KeyFor
  <2> QED
    BY <2>1, StoredRoots
<1>4. \A e \in entries' : e \in entries \/ EntryRoots(e)
  <2> HIDE DEF entry
  <2> QED
    BY <1>2, <1>3 DEF Put, entry
<1>5. CASE call' = [call EXCEPT ![c] = onward(n)]
  <2>1. /\ onward(n).step = "children" /\ onward(n).answer = call[c].answer
        /\ onward(n).kind = call[c].kind /\ onward(n).path = call[c].path
        /\ onward(n).todo = call[c].todo \ {n}
    BY <1>1 DEF Calls
  <2> HIDE DEF onward
  <2>2. CallRoots(onward(n))
    BY <1>1, <2>1 DEF CallRoots
  <2> QED
    BY <1>4, <1>5, <2>2, CallStepRoots
<1>6. CASE call' = [call EXCEPT ![c] = Settled(c, call[c].answer, call[c].first)]
  <2>1. Settled(c, call[c].answer, call[c].first).step \in {"opened", "done"}
    BY <1>1 DEF Settled, Calls
  <2>2. CallRoots(Settled(c, call[c].answer, call[c].first))
    BY <2>1 DEF CallRoots
  <2> QED
    BY <1>4, <1>6, <2>2, CallStepRoots
<1> QED
  BY <1>2, <1>5, <1>6

\* The calls that start store nothing.
LEMMA StartRoots == ASSUME IInv, RootsInv, NEW c \in Callers, Start(c) PROVE RootsInv'
<1>1. {"none", "cache", "invalid"} \subseteq Errors
  BY DEF Errors
<1>2. CASE Reject(c)
  BY <1>1, <1>2, ReturnedRoots DEF Reject
<1>3. ASSUME NEW op \in LookupOps, NEW path \in Targets, Begin(c, op, path)
      PROVE  RootsInv'
  <2>1. Lookup(op, FirstKind[op], path).step = "get"
    BY DEF Lookup, NoCall
  <2> QED
    BY <1>3, <2>1, SilentStepRoots DEF Begin
<1>4. ASSUME NEW path \in Targets, InvalidatePath(c, path) PROVE RootsInv'
  <2> DEFINE r == [NoCall EXCEPT !.step = "dropparent", !.op = "invalidatepath",
                                 !.path = path]
  <2>1. CASE InvalidateFails(c)
    BY <1>1, <2>1, ReturnedRoots DEF InvalidateFails
  <2>2. CASE ~InvalidateFails(c)
    <3>1. call' = [call EXCEPT ![c] = r] /\ entries' \subseteq entries
      BY <1>4, <2>2 DEF InvalidatePath, Invalidate
    <3>2. r.step = "dropparent"
      BY DEF NoCall
    <3> HIDE DEF r
    <3> QED
      BY <3>1, <3>2, SilentStepRoots
  <2> QED
    BY <2>1, <2>2
<1>5. ASSUME NEW scope \in Scopes, InvalidateScope(c, scope) PROVE RootsInv'
  BY <1>1, <1>5, ReturnedRoots DEF InvalidateScope, InvalidateFails, Invalidate
<1>6. CASE ClearCache(c)
  BY <1>1, <1>6, ReturnedRoots DEF ClearCache, InvalidateFails, Clear
<1>7. CASE DeleteKey(c)
  BY <1>1, <1>7, ReturnedRoots DEF DeleteKey, Delete
<1> QED
  BY <1>2, <1>3, <1>4, <1>5, <1>6, <1>7 DEF Start

\* Nor do the calls that go on, but those above.
LEMMA AdvanceRoots == ASSUME IInv, RootsInv, NEW c \in Callers, Advance(c) PROVE RootsInv'
<1>1. {"none", "cache"} \subseteq Errors /\ call[c] \in Calls
  BY DEF Errors, IInv
<1>2. CASE Hit(c)
  <2>1. PICK e : call' = [call EXCEPT ![c] = Settled(c, Served(e), e.asOf)]
    BY <1>2 DEF Hit
  <2>2. Settled(c, Served(e), e.asOf).step \in {"opened", "done"}
    BY <1>1 DEF Settled, Calls
  <2> QED
    BY <1>2, <2>1, <2>2, SilentStepRoots DEF Hit
<1>3. CASE Miss(c)
  <2>1. [call[c] EXCEPT !.step = "read"].step = "read"
    BY <1>1 DEF Calls
  <2> QED
    BY <1>3, <2>1, SilentStepRoots DEF Miss, IInv
<1>4. CASE Read(c)
  <2> DEFINE r == [call[c] EXCEPT !.step = "finish", !.first = Version, !.readAt = clock]
  <2>1. r.step = "finish"
    BY <1>1 DEF Calls
  <2>2. call' = [call EXCEPT ![c] = r] /\ entries' \subseteq entries
    BY <1>4 DEF Read, IInv
  <2> HIDE DEF r
  <2> QED
    BY <2>1, <2>2, SilentStepRoots
<1>5. CASE GetFails(c)
  BY <1>1, <1>5, ReturnedRoots DEF GetFails
<1>6. CASE InvalidateParent(c)
  BY <1>1, <1>6, ReturnedRoots DEF InvalidateParent, InvalidateFails, Invalidate
<1>7. CASE Return(c)
  BY <1>7, NoCallOK, SilentStepRoots DEF Return
<1>8. CASE OpenDenied(c) \/ OpenFile(c)
  <2>1. PICK answer : call' = [call EXCEPT ![c] = Ended(c, answer)]
    BY <1>8 DEF OpenDenied, OpenFile
  <2>2. Ended(c, answer).step = "done"
    BY <1>1 DEF Ended, Calls
  <2> QED
    BY <1>8, <2>1, <2>2, SilentStepRoots DEF OpenDenied, OpenFile
<1>9. CASE OpenDir(c)
  <2>1. Lookup("open", "dir", call[c].path).step = "get"
    BY DEF Lookup, NoCall
  <2> QED
    BY <1>9, <2>1, SilentStepRoots DEF OpenDir, IInv
<1> QED
  BY <1>2, <1>3, <1>4, <1>5, <1>6, <1>7, <1>8, <1>9,
     FinishRoots, PutAnswerRoots, PutChildRoots DEF Advance

LEMMA NextRoots == IInv /\ RootsInv /\ [Next]_vars => RootsInv'
<1> SUFFICES ASSUME IInv, RootsInv, [Next]_vars PROVE RootsInv'
  OBVIOUS
<1>1. CASE UNCHANGED <<entries, call>>
  BY <1>1 DEF RootsInv
<1> QED
  BY <1>1, StartRoots, AdvanceRoots DEF Next, SourceChanges, Tick, vars

(* After a watcher's Invalidate of source paths, over the whole tree and     *)
(* every route, no positive entry is left that names a path at or below one  *)
(* of them, as the source of a node that has one behind it or in a reverse   *)
(* lookup: the roots of its scope cover what it names, so one of them and    *)
(* the watcher's root are nested, and sourceMatches deletes it. That they    *)
(* cover it, whoever stored the entry and when, is HintsAreWide's part.      *)
THEOREM WatchersReachEntries == Spec => SourceInvalidationReaches
<1> DEFINE Reaches(c, scope) ==
               /\ scope.recursive /\ scope.root = << >> /\ scope.routes = {}
               /\ scope.sources # {}
               /\ call'[c].step = "done" /\ call'[c].answer.err = "none"
               /\ InvalidateScope(c, scope)
               => \A e \in {x \in entries' : ~x.negative}, root \in scope.sources :
                      \A p \in NamedBy(e) : p # root /\ ~HasPathPrefix(p, root)
<1>1. Init => RootsInv
  <2> SUFFICES ASSUME Init PROVE RootsInv
    OBVIOUS
  <2>1. \A c \in Callers : call[c] = NoCall
    BY DEF Init
  <2> QED
    BY <2>1, NoCallOK DEF Init, CacheInit, RootsInv, CallRoots
<1>2. IInv /\ RootsInv => \A c \in Callers, scope \in Scopes : Reaches(c, scope)
  <2> SUFFICES ASSUME IInv, RootsInv, NEW c \in Callers, NEW scope \in Scopes,
                      InvalidateScope(c, scope),
                      scope.recursive, scope.root = << >>, scope.routes = {},
                      call'[c].answer.err = "none",
                      NEW e \in entries', ~e.negative, NEW root \in scope.sources,
                      NEW p \in Named(e.key, e.nodes, e.paths)
               PROVE  p # root /\ ~HasPathPrefix(p, root)
    BY DEF Named, NamedBy
  <2>1. ~InvalidateFails(c)
    <3>1. Returned("cache").answer.err = "cache"
      BY DEF Returned, Failed, NoCall
    <3>2. call' = [call EXCEPT ![c] = Returned("cache")] => call'[c] = Returned("cache")
      BY DEF IInv
    <3> QED
      BY <3>1, <3>2 DEF InvalidateFails
  <2>2. e \in entries /\ ~Covers(scope, e)
    BY <2>1 DEF InvalidateScope, Invalidate
  <2>3. PICK s \in e.sources : p = s \/ HasPathPrefix(p, s)
    BY <2>2 DEF RootsInv, EntryRoots, RootsOK, CoveredBy
  <2>4. s \in Targets /\ root \in Targets /\ p \in Targets
    <3>1. e \in Entries
      BY <2>2 DEF IInv, EntryOK
    <3>2. e.sources \subseteq Targets /\ e.paths \subseteq Targets /\ e.nodes \subseteq Nodes
          /\ e.key.path \in Targets
      BY <3>1 DEF Entries, Keys, KeyFor
    <3> QED
      BY <3>2, HintAssumption DEF Named
  <2>5. ASSUME p = root \/ HasPathPrefix(p, root) PROVE FALSE
    <3>1. s = root \/ HasPathPrefix(s, root) \/ HasPathPrefix(root, s)
      BY <2>3, <2>4, <2>5, Nested, HintAssumption
    <3>2. SourceMatches(e.sources, scope.sources)
      BY <3>1 DEF SourceMatches
    <3>3. Covers(scope, e)
      BY <3>2 DEF Covers, RouteMatches, HasPathPrefix, Root
    <3> QED
      BY <2>2, <3>3
  <2> QED
    BY <2>5
<1>3. IInv /\ RootsInv /\ [Next]_vars
          => [\A c \in Callers, scope \in Scopes : Reaches(c, scope)]_vars
  BY <1>2
<1>4. IInv /\ RootsInv /\ [Next]_vars => (IInv /\ RootsInv)'
  BY NextIInv, NextRoots
<1>5. Spec => [][\A c \in Callers, scope \in Scopes : Reaches(c, scope)]_vars
  <2> HIDE DEF Reaches
  <2> QED
    BY <1>1, <1>3, <1>4, InitIInv, PTL DEF Spec
<1> QED
  BY <1>5 DEF SourceInvalidationReaches

=============================================================================
