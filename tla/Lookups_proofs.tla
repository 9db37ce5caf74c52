--------------------------- MODULE Lookups_proofs ---------------------------
(* Proofs that the lookups of a route set agree, for every set of            *)
(* configurations, every target path and every source tree: what the owner   *)
(* of a path lists it resolves, what it resolves it lists, mapping a path    *)
(* back to its source and forth again leads to the path, and the source      *)
(* roots of an answer cover what it names of the source.                     *)
(*                                                                           *)
(* Handler by handler: both lookups read the same entry (Identity, Mount),   *)
(* the same materialization, in which there is one node per path (Flat,      *)
(* Classifier, Transform), or the same provider (Virtual).                   *)
EXTENDS Routing_proofs

---------------------------------------------------------------------------
(* Requests for a directory and for an entry of it.                          *)

\* A request as requestForRoute makes it.
IsRequest(q) ==
    q = [target |-> q.target, rel |-> q.rel, sourceRoot |-> q.sourceRoot,
         targetRoot |-> q.targetRoot, filter |-> q.filter, id |-> q.id]

\* Two requests of one route from the same directory to the same target root.
SameRoots(q, q2) ==
    /\ IsRequest(q) /\ IsRequest(q2)
    /\ q2.sourceRoot = q.sourceRoot /\ q2.targetRoot = q.targetRoot
    /\ q2.filter = q.filter /\ q2.id = q.id

\* q2 asks the route that q asks, for the entry x of the directory q asks for.
EntryRequest(q, q2, x) ==
    SameRoots(q, q2) /\ q2.target = Append(q.target, x) /\ q2.rel = Append(q.rel, x)

\* A request about a path of clean names.
RequestOK(q) ==
    /\ IsRequest(q)
    /\ q.target \in Dirs /\ q.rel \in Dirs /\ q.targetRoot \in Dirs
    /\ q.target = q.targetRoot \o q.rel
    /\ q.sourceRoot \in Seq(Texts)

\* The parameters are those named, each with the segment of its last binder.
Bound(params, segments, parts, n) ==
    /\ DOMAIN params = {segments[i].text : i \in {j \in 1..n : segments[j].kind = "named"}}
    /\ \A x \in DOMAIN params : \E i \in 1..n :
           /\ segments[i].kind = "named" /\ segments[i].text = x
           /\ \A j \in 1..n : segments[j].kind = "named" /\ segments[j].text = x => j <= i
           /\ params[x] = parts[i]

LEMMA BoundIs ==
    ASSUME NEW segments \in Seq(RawParts), NEW n \in 0..Len(segments), NEW parts
    PROVE  Bound(BoundParams(segments, parts, n), segments, parts, n)
<1> DEFINE names == {segments[i].text : i \in {j \in 1..n : segments[j].kind = "named"}}
           last(x) == CHOOSE i \in Binders(segments, n, x) :
                          \A j \in Binders(segments, n, x) : j <= i
           params == BoundParams(segments, parts, n)
<1>1. params = [x \in names |-> parts[last(x)]]
  BY DEF BoundParams
<1>2. ASSUME NEW x \in names
      PROVE  \E i \in 1..n :
                 /\ segments[i].kind = "named" /\ segments[i].text = x
                 /\ \A j \in 1..n : segments[j].kind = "named" /\ segments[j].text = x => j <= i
                 /\ params[x] = parts[i]
  <2> DEFINE B == Binders(segments, n, x)
  <2>1. B \in SUBSET (1..n) /\ B # {} /\ n \in Nat
    BY DEF Binders
  <2>2. Max(B) \in B /\ \A y \in B : Max(B) >= y
    BY <2>1, MaxOK
  <2>3. \A y \in B : y <= Max(B)
    BY <2>1, <2>2
  <2>4. last(x) \in B /\ \A j \in B : j <= last(x)
    <3> HIDE DEF B
    <3>1. \E i \in B : \A j \in B : j <= i
      BY <2>2, <2>3
    <3> QED
      BY <3>1 DEF B
  <2>5. params[x] = parts[last(x)]
    BY <1>1
  <2> HIDE DEF last, params, names
  <2> QED
    BY <2>1, <2>4, <2>5 DEF Binders
<1>3. DOMAIN params = names
  BY <1>1
<1>4. DOMAIN params = {segments[i].text : i \in {j \in 1..n : segments[j].kind = "named"}}
  BY <1>3
<1>5. \A x \in DOMAIN params : \E i \in 1..n :
          /\ segments[i].kind = "named" /\ segments[i].text = x
          /\ \A j \in 1..n : segments[j].kind = "named" /\ segments[j].text = x => j <= i
          /\ params[x] = parts[i]
  <2> HIDE DEF params, names
  <2> QED
    BY <1>2, <1>3
<1> HIDE DEF params
<1> QED
  BY <1>4, <1>5, Zenon DEF Bound, params

\* Paths that begin alike bind alike.
LEMMA BoundAlike ==
    ASSUME NEW segments \in Seq(RawParts), NEW n \in 0..Len(segments), NEW s, NEW t,
           \A i \in 1..n : s[i] = t[i]
    PROVE  BoundParams(segments, s, n) = BoundParams(segments, t, n)
<1> DEFINE names == {segments[i].text : i \in {j \in 1..n : segments[j].kind = "named"}}
           last(x) == CHOOSE i \in Binders(segments, n, x) :
                          \A j \in Binders(segments, n, x) : j <= i
<1>1. ASSUME NEW x \in names PROVE s[last(x)] = t[last(x)]
  <2> DEFINE B == Binders(segments, n, x)
  <2>1. B \in SUBSET (1..n) /\ B # {} /\ n \in Nat
    BY DEF Binders
  <2>2. Max(B) \in B /\ \A y \in B : Max(B) >= y
    BY <2>1, MaxOK
  <2>3. \A y \in B : y <= Max(B)
    BY <2>1, <2>2
  <2>4. last(x) \in B
    <3> HIDE DEF B
    <3>1. \E i \in B : \A j \in B : j <= i
      BY <2>2, <2>3
    <3> QED
      BY <3>1 DEF B
  <2> HIDE DEF last
  <2> QED
    BY <2>1, <2>4
<1>2. [x \in names |-> s[last(x)]] = [x \in names |-> t[last(x)]]
  <2> HIDE DEF names, last
  <2> QED
    BY <1>1
<1> QED
  BY <1>2 DEF BoundParams

\* A template of typed parts and parameters gives a sequence.
LEMMA InstantiateType ==
    ASSUME NEW segments \in Seq(RawParts), NEW source \in Seq(RawParts), NEW t \in Dirs,
           NEW n \in 0..Len(segments), n <= Len(t),
           CanInstantiate(source, BoundParams(segments, t, n))
    PROVE  LET root == Instantiate(source, BoundParams(segments, t, n))
           IN  root \in Seq(Texts) /\ Len(root) = Len(source)
<1> DEFINE params == BoundParams(segments, t, n)
           root == Instantiate(source, params)
           m == Len(source)
<1>1. \A x \in DOMAIN params : params[x] \in STRING
  <2>1. Len(t) \in Nat /\ \A i \in 1..Len(t) : t[i] \in STRING
    BY DEF Dirs
  <2>0. Bound(params, segments, t, n)
    BY BoundIs
  <2>3. \A i \in 1..n : i \in 1..Len(t)
    BY <2>1
  <2> HIDE DEF params
  <2>2. \A x \in DOMAIN params : \E i \in 1..n : params[x] = t[i]
    BY <2>0 DEF Bound
  <2>4. ASSUME NEW x \in DOMAIN params PROVE params[x] \in STRING
    <3>1. PICK i \in 1..n : params[x] = t[i]
      BY <2>2
    <3>2. i \in 1..Len(t)
      BY <2>3
    <3> QED
      BY <2>1, <3>1, <3>2
  <2> QED
    BY <2>4
<1>2. m \in Nat /\ \A i \in 1..m : source[i].text \in Texts
  <2>1. m \in Nat /\ \A i \in 1..m : source[i] \in RawParts
    OBVIOUS
  <2>2. \A part \in RawParts : part.text \in Texts
    BY DEF RawParts
  <2> QED
    BY <2>1, <2>2
<1> DEFINE value(i) == IF source[i].kind = "named" THEN params[source[i].text]
                                                   ELSE source[i].text
<1>3. ASSUME NEW i \in 1..m PROVE value(i) \in Texts
  <2>1. source[i].kind = "named" => source[i].text \in DOMAIN params
    BY DEF CanInstantiate
  <2>2. \A x \in STRING : x \in Texts
    BY DEF Texts
  <2> HIDE DEF params
  <2>3. CASE source[i].kind = "named"
    BY <1>1, <2>1, <2>2, <2>3
  <2>4. CASE source[i].kind # "named"
    BY <1>2, <2>4
  <2> QED
    BY <2>3, <2>4
<1>4. root = [i \in 1..m |-> value(i)]
  BY DEF Instantiate
<1>5. root \in [1..m -> Texts]
  <2> HIDE DEF root, m, value
  <2> QED
    BY <1>3, <1>4
<1>6. root \in Seq(Texts) /\ Len(root) = m
  <2> HIDE DEF root, m
  <2> QED
    BY <1>2, <1>5, SeqDef
<1> QED
  BY <1>6

\* One more element.
LEMMA AppendIs ==
    ASSUME NEW S, NEW s \in Seq(S), NEW x
    PROVE  /\ s \in Seq(S \cup {x}) /\ Append(s, x) \in Seq(S \cup {x})
           /\ Len(s) \in Nat /\ Len(Append(s, x)) = Len(s) + 1
           /\ \A i \in 1..Len(s) : Append(s, x)[i] = s[i]
           /\ Append(s, x)[Len(s) + 1] = x
           /\ Append(s, x) # Root /\ ParentPath(Append(s, x)) = s
           /\ BaseName(Append(s, x)) = <<x>>
<1> DEFINE T == S \cup {x}
           u == Append(s, x)
<1>1. s \in Seq(T) /\ x \in T
  BY SeqMonotonic
<1> HIDE DEF T
<1>2. /\ u \in Seq(T) /\ Len(s) \in Nat /\ Len(u) = Len(s) + 1
      /\ \A i \in 1..Len(s) : u[i] = s[i]
      /\ u[Len(s) + 1] = x
  BY <1>1
<1> HIDE DEF u
<1>3. u # Root
  BY <1>2 DEF Root
<1>4. Len(s) \in 0..Len(u) /\ Len(u) - 1 = Len(s)
  BY <1>2
<1>5. SubSeq(u, 1, Len(s)) = s
  <2>1. /\ SubSeq(u, 1, Len(s)) \in Seq(T) /\ Len(SubSeq(u, 1, Len(s))) = Len(s)
        /\ \A i \in 1..Len(s) : SubSeq(u, 1, Len(s))[i] = u[i]
    BY <1>2, <1>4, FirstOf
  <2> QED
    BY <1>1, <1>2, <2>1, SeqEqual
<1>6. ParentPath(u) = s /\ BaseName(u) = <<x>>
  BY <1>2, <1>3, <1>4, <1>5 DEF ParentPath, BaseName
<1> QED
  BY <1>1, <1>2, <1>3, <1>6 DEF T, u

\* A path other than "." is its parent and a name.
LEMMA ParentAndName ==
    ASSUME NEW S, NEW u \in Seq(S), u # Root
    PROVE  /\ ParentPath(u) \in Seq(S)
           /\ u[Len(u)] \in S
           /\ u = Append(ParentPath(u), u[Len(u)])
<1> DEFINE n == Len(u) - 1
           p == ParentPath(u)
           x == u[Len(u)]
<1>1. Len(u) \in Nat \ {0} /\ n \in 0..Len(u) /\ n \in Nat /\ n + 1 = Len(u)
  BY DEF Root
<1>2. p \in Seq(S) /\ Len(p) = n /\ \A i \in 1..n : p[i] = u[i]
  BY <1>1, FirstOf DEF ParentPath
<1>3. x \in S
  BY <1>1
<1>0. n \in 0..Len(u) /\ n \in Nat /\ n + 1 = Len(u) /\ x = u[n + 1]
  BY <1>1
<1> HIDE DEF p, x, n
<1>4. /\ Append(p, x) \in Seq(S) /\ Len(Append(p, x)) = Len(u)
      /\ \A i \in 1..n : Append(p, x)[i] = p[i]
      /\ Append(p, x)[n + 1] = x
  BY <1>0, <1>2, <1>3
<1>5. ASSUME NEW i \in 1..Len(u) PROVE Append(p, x)[i] = u[i]
  <2>1. CASE i \in 1..n
    BY <1>2, <1>4, <2>1
  <2>2. CASE i = n + 1
    BY <1>0, <1>4, <2>2
  <2>3. i \in 1..n \/ i = n + 1
    BY <1>0
  <2> QED
    BY <2>1, <2>2, <2>3
<1>6. u = Append(p, x)
  BY <1>4, <1>5, SeqEqual
<1> QED
  BY <1>2, <1>3, <1>6 DEF p, x, n

\* What comes after the first n elements of one element more.
LEMMA BelowAppend ==
    ASSUME NEW S, NEW s \in Seq(S), NEW n \in 0..Len(s), NEW x
    PROVE  /\ SubSeq(Append(s, x), 1, n) = SubSeq(s, 1, n)
           /\ Below(Append(s, x), n) = Append(Below(s, n), x)
<1> DEFINE T == S \cup {x}
           u == Append(s, x)
           m == Len(s) - n
<1>1. /\ s \in Seq(T) /\ u \in Seq(T) /\ Len(s) \in Nat /\ Len(u) = Len(s) + 1
      /\ \A i \in 1..Len(s) : u[i] = s[i]
      /\ u[Len(s) + 1] = x /\ x \in T
  BY AppendIs
<1> HIDE DEF T, u
<1>2. n \in 0..Len(s) /\ n \in 0..Len(u) /\ n \in Nat /\ m \in Nat /\ Len(u) - n = m + 1
  BY <1>1
<1>3. /\ SubSeq(u, 1, n) \in Seq(T) /\ Len(SubSeq(u, 1, n)) = n
      /\ \A i \in 1..n : SubSeq(u, 1, n)[i] = u[i]
  BY <1>1, <1>2, FirstOf
<1>4. /\ SubSeq(s, 1, n) \in Seq(T) /\ Len(SubSeq(s, 1, n)) = n
      /\ \A i \in 1..n : SubSeq(s, 1, n)[i] = s[i]
  BY <1>1, <1>2, FirstOf
<1>5. SubSeq(u, 1, n) = SubSeq(s, 1, n)
  <2>1. \A i \in 1..n : SubSeq(u, 1, n)[i] = SubSeq(s, 1, n)[i]
    BY <1>1, <1>2, <1>3, <1>4
  <2> QED
    BY <1>3, <1>4, <2>1, SeqEqual
<1> DEFINE bu == Below(u, n)
           bs == Below(s, n)
<1>6. bu \in Seq(T) /\ Len(bu) = m + 1 /\ \A i \in 1..(m + 1) : bu[i] = u[n + i]
  <2> HIDE DEF m
  <2>1. /\ bu \in Seq(T) /\ Len(bu) = Len(u) - n
        /\ \A i \in 1..(Len(u) - n) : bu[i] = u[n + i]
    BY <1>1, <1>2, RestOf
  <2> QED
    BY <1>2, <2>1
<1>7. bs \in Seq(T) /\ Len(bs) = m /\ \A i \in 1..m : bs[i] = s[n + i]
  BY <1>1, <1>2, RestOf
<1> HIDE DEF bu, bs, m
<1>8. /\ Append(bs, x) \in Seq(T) /\ Len(Append(bs, x)) = m + 1
      /\ \A i \in 1..m : Append(bs, x)[i] = bs[i]
      /\ Append(bs, x)[m + 1] = x
  BY <1>1, <1>2, <1>7
<1>9. ASSUME NEW i \in 1..(m + 1) PROVE bu[i] = Append(bs, x)[i]
  <2>1. CASE i \in 1..m
    <3>1. n + i \in 1..Len(s)
      BY <1>1, <1>2, <2>1 DEF m
    <3> QED
      BY <1>1, <1>6, <1>7, <1>8, <2>1, <3>1
  <2>2. CASE i = m + 1
    <3>1. n + i = Len(s) + 1
      BY <1>1, <1>2, <2>2 DEF m
    <3> QED
      BY <1>1, <1>6, <1>8, <2>2, <3>1
  <2>3. i \in 1..m \/ i = m + 1
    BY <1>2
  <2> QED
    BY <2>1, <2>2, <2>3
<1>10. bu = Append(bs, x)
  BY <1>6, <1>8, <1>9, SeqEqual
<1> QED
  BY <1>5, <1>10 DEF u, bu, bs

\* The request that a route is asked with.
LEMMA RequestIs ==
    ASSUME NEW global, NEW route, RouteTyped(route), NEW t \in Dirs,
           Matches(route.pattern, t), CanRequest(route, MatchOf(route.pattern, t))
    PROVE  LET q == RequestFor(global, route, t)
               n == PrefixLen(route.pattern)
           IN  /\ RequestOK(q) /\ q.target = t /\ q.filter = global \o route.filter
               /\ n \in 0..Len(t) /\ q.targetRoot = SubSeq(t, 1, n) /\ q.rel = Below(t, n)
<1> DEFINE q == RequestFor(global, route, t)
           segments == route.pattern.segments
           n == PrefixLen(route.pattern)
           params == BoundParams(segments, t, n)
<1>1. segments \in Seq(RawParts) /\ route.source \in Seq(RawParts)
  BY DEF RouteTyped
<1>2. n = Len(segments) /\ n \in Nat /\ n \in 0..Len(segments)
  BY <1>1 DEF PrefixLen
<1>3. Len(t) \in Nat /\ n <= Len(t) /\ n \in 0..Len(t)
  BY <1>2 DEF Dirs, Matches
<1>4. /\ IsRequest(q) /\ q.target = t /\ q.rel = Below(t, n)
      /\ q.sourceRoot = Instantiate(route.source, params)
      /\ q.targetRoot = SubSeq(t, 1, n) /\ q.filter = global \o route.filter
  BY DEF RequestFor, MatchOf, IsRequest
<1>5. CanInstantiate(route.source, params)
  BY DEF CanRequest, MatchOf
<1>6. Instantiate(route.source, params) \in Seq(Texts)
  BY <1>1, <1>2, <1>3, <1>5, InstantiateType
<1>7. SubSeq(t, 1, n) \in Dirs /\ Below(t, n) \in Dirs /\ SubSeq(t, 1, n) \o Below(t, n) = t
  BY <1>3, FirstOf, RestOf DEF Dirs
<1> HIDE DEF q
<1> QED
  BY <1>3, <1>4, <1>6, <1>7 DEF RequestOK, q

\* A path of a route and one directly below it are asked about alike.
LEMMA ChildRequest ==
    ASSUME NEW global, NEW route, RouteTyped(route), NEW t \in Dirs, NEW x,
           Matches(route.pattern, t), Matches(route.pattern, Append(t, x))
    PROVE  /\ EntryRequest(RequestFor(global, route, t),
                           RequestFor(global, route, Append(t, x)), x)
           /\ CanRequest(route, MatchOf(route.pattern, Append(t, x))) =
                  CanRequest(route, MatchOf(route.pattern, t))
<1> DEFINE u == Append(t, x)
           q == RequestFor(global, route, t)
           q2 == RequestFor(global, route, u)
           segments == route.pattern.segments
           n == PrefixLen(route.pattern)
<1>1. segments \in Seq(RawParts) /\ n = Len(segments) /\ n \in Nat /\ n \in 0..Len(segments)
  BY DEF RouteTyped, PrefixLen
<1>2. t \in Seq(STRING) /\ Len(t) \in Nat /\ n <= Len(t) /\ n \in 0..Len(t)
  BY <1>1 DEF Dirs, Matches
<1>3. \A i \in 1..n : u[i] = t[i]
  <2>1. \A i \in 1..Len(t) : u[i] = t[i]
    BY <1>2, AppendIs
  <2> QED
    BY <1>2, <2>1
<1>4. SubSeq(u, 1, n) = SubSeq(t, 1, n) /\ Below(u, n) = Append(Below(t, n), x)
  BY <1>2, BelowAppend
<1> HIDE DEF u
<1>5. BoundParams(segments, u, n) = BoundParams(segments, t, n)
  BY <1>1, <1>3, BoundAlike
<1>6. MatchOf(route.pattern, u).params = MatchOf(route.pattern, t).params
  BY <1>5 DEF MatchOf
<1>7. /\ IsRequest(q) /\ q.target = t /\ q.rel = Below(t, n)
      /\ q.sourceRoot = Instantiate(route.source, BoundParams(segments, t, n))
      /\ q.targetRoot = SubSeq(t, 1, n)
      /\ q.filter = global \o route.filter /\ q.id = route.id
  BY DEF RequestFor, MatchOf, IsRequest
<1>8. /\ IsRequest(q2) /\ q2.target = u /\ q2.rel = Below(u, n)
      /\ q2.sourceRoot = Instantiate(route.source, BoundParams(segments, u, n))
      /\ q2.targetRoot = SubSeq(u, 1, n)
      /\ q2.filter = global \o route.filter /\ q2.id = route.id
  BY DEF RequestFor, MatchOf, IsRequest
<1> HIDE DEF q, q2
<1>9. EntryRequest(q, q2, x)
  BY <1>4, <1>5, <1>7, <1>8 DEF EntryRequest, SameRoots, u
<1>10. CanRequest(route, MatchOf(route.pattern, u)) = CanRequest(route, MatchOf(route.pattern, t))
  BY <1>6 DEF CanRequest
<1> QED
  BY <1>9, <1>10 DEF q, q2, u

---------------------------------------------------------------------------
(* What is in a materialization.                                             *)

LEMMA ListOf ==
    ASSUME NEW S, NEW s \in Seq(S) PROVE IsList(s)
<1>1. Len(s) \in Nat /\ s \in [1..Len(s) -> S] /\ DOMAIN s = 1..Len(s)
  BY SeqDef
<1>2. s \in [1..Len(s) -> ToSet(s)]
  BY <1>1 DEF ToSet
<1> QED
  BY <1>1, <1>2, SeqDef DEF IsList

\* A path below a target root.
Under(root, path) ==
    /\ IsList(path) /\ Len(path) > Len(root)
    /\ \A i \in 1..Len(root) : path[i] = root[i]

LEMMA UnderJoin ==
    ASSUME NEW root \in Dirs, NEW S, NEW rel \in Seq(S), rel # Root
    PROVE  Under(root, JoinPath(root, rel)) /\ Len(JoinPath(root, rel)) = Len(root) + Len(rel)
<1> DEFINE T == STRING \cup S
           path == root \o rel
<1>1. root \in Seq(T) /\ rel \in Seq(T)
  BY SeqMonotonic DEF Dirs
<1> HIDE DEF T
<1>2. Len(root) \in Nat /\ Len(rel) \in Nat /\ Len(rel) > 0
  BY <1>1 DEF Root
<1>3. /\ path \in Seq(T) /\ Len(path) = Len(root) + Len(rel)
      /\ \A i \in 1..(Len(root) + Len(rel)) :
             path[i] = IF i <= Len(root) THEN root[i] ELSE rel[i - Len(root)]
  BY <1>1, ConcatProperties
<1> HIDE DEF path
<1>4. \A i \in 1..Len(root) : path[i] = root[i]
  BY <1>2, <1>3
<1>5. IsList(path)
  BY <1>3, ListOf
<1> QED
  BY <1>2, <1>3, <1>4, <1>5 DEF Under, JoinPath, path

\* A new name keeps a path where it is.
LEMMA UnderRenamed ==
    ASSUME NEW root \in Dirs, NEW path, Under(root, path), NEW k
    PROVE  Under(root, Renamed(path, k)) /\ Len(Renamed(path, k)) = Len(path)
<1> DEFINE T == ToSet(path)
           p == ParentPath(path)
           x == Suffixed(path[Len(path)], k)
           u == Append(p, x)
<1>1. path \in Seq(T) /\ Len(root) \in Nat /\ Len(path) > Len(root)
      /\ \A i \in 1..Len(root) : path[i] = root[i]
  BY DEF Under, IsList, Dirs
<1> HIDE DEF T
<1>2. Len(path) \in Nat /\ path # Root /\ Len(path) - 1 \in 0..Len(path)
      /\ Len(path) - 1 \in Nat
  BY <1>1 DEF Root
<1>3. p \in Seq(T) /\ Len(p) = Len(path) - 1 /\ \A i \in 1..(Len(path) - 1) : p[i] = path[i]
  BY <1>1, <1>2, FirstOf DEF ParentPath
<1> HIDE DEF p, x
<1>4. /\ u \in Seq(T \cup {x}) /\ Len(u) = Len(p) + 1
      /\ \A i \in 1..Len(p) : u[i] = p[i]
  BY <1>3, AppendIs
<1> HIDE DEF u
<1>5. Len(u) = Len(path)
  BY <1>2, <1>3, <1>4
<1>6. ASSUME NEW i \in 1..Len(root) PROVE u[i] = root[i]
  <2>1. i \in 1..(Len(path) - 1)
    BY <1>1, <1>2
  <2> QED
    BY <1>1, <1>3, <1>4, <2>1
<1>7. IsList(u)
  BY <1>4, ListOf
<1> QED
  BY <1>1, <1>5, <1>6, <1>7 DEF Under, Renamed, u, p, x

\* A node that stands for a visited source entry, as deep as the handler has nodes.
MadeNode(handler, root, visited, n) ==
    /\ n = [path |-> n.path, source |-> n.source, kind |-> n.kind, stamp |-> n.stamp,
            virtual |-> n.virtual]
    /\ n.virtual = FALSE
    /\ n.source \in visited
    /\ Under(root, n.path)
    /\ handler.type = "flat" => Len(n.path) = Len(root) + 1
    /\ handler.type = "classifier" => Len(n.path) = Len(root) + 2

MadeOf(handler, root, visited, s) ==
    OneEach(s) /\ \A n \in s.nodes : MadeNode(handler, root, visited, n)

LEMMA StartsMade ==
    ASSUME NEW handler, NEW root, NEW visited
    PROVE  /\ MadeOf(handler, root, visited, EmptyState)
           /\ \A e : MadeOf(handler, root, visited, FailedState(e))
<1>1. EmptyState.nodes = {} /\ \A e : FailedState(e).nodes = {}
  BY DEF EmptyState, FailedState
<1> QED
  BY <1>1, StartsEmpty DEF MadeOf

LEMMA PlacedMade ==
    ASSUME NEW handler, NEW root, NEW visited, NEW s, MadeOf(handler, root, visited, s),
           NEW n, MadeNode(handler, root, visited, n)
    PROVE  MadeOf(handler, root, visited, Placed(s, n))
<1>1. OneEach(Placed(s, n)) /\ Placed(s, n).nodes = {m \in s.nodes : m.path # n.path} \cup {n}
  BY PlacedOK DEF MadeOf
<1>2. \A m \in {m \in s.nodes : m.path # n.path} \cup {n} : MadeNode(handler, root, visited, m)
  BY DEF MadeOf
<1> QED
  BY <1>1, <1>2 DEF MadeOf

LEMMA AddRenamedMade ==
    ASSUME NEW handler, NEW root \in Dirs, NEW visited, NEW s, MadeOf(handler, root, visited, s),
           NEW n, MadeNode(handler, root, visited, n)
    PROVE  MadeOf(handler, root, visited, AddRenamed(s, n))
<1>1. ASSUME NEW m, MadeNode(handler, root, visited, m), NEW counts
      PROVE  MadeOf(handler, root, visited, [Placed(s, m) EXCEPT !.counts = counts])
  <2> DEFINE p == Placed(s, m)
             t == [p EXCEPT !.counts = counts]
  <2>1. MadeOf(handler, root, visited, p)
    BY <1>1, PlacedMade
  <2> HIDE DEF p
  <2>2. t = [err |-> p.err, nodes |-> p.nodes, counts |-> counts]
    BY <2>1 DEF MadeOf, OneEach
  <2>3. OneEach(t)
    BY <2>1, <2>2 DEF MadeOf, OneEach
  <2> HIDE DEF t
  <2> QED
    BY <2>1, <2>2, <2>3 DEF MadeOf, t, p
<1> DEFINE k == RenameIndex(s, n.path)
           m == [n EXCEPT !.path = Renamed(n.path, k)]
<1>2. MadeNode(handler, root, visited, m)
  <2>1. n = [path |-> n.path, source |-> n.source, kind |-> n.kind, stamp |-> n.stamp,
             virtual |-> n.virtual]
    BY DEF MadeNode
  <2>2. Under(root, Renamed(n.path, k)) /\ Len(Renamed(n.path, k)) = Len(n.path)
    BY UnderRenamed DEF MadeNode
  <2> HIDE DEF k
  <2>3. m = [path |-> Renamed(n.path, k), source |-> n.source, kind |-> n.kind,
             stamp |-> n.stamp, virtual |-> n.virtual]
    BY <2>1
  <2> HIDE DEF m
  <2>4. /\ m.path = Renamed(n.path, k) /\ m.source = n.source /\ m.kind = n.kind
        /\ m.stamp = n.stamp /\ m.virtual = n.virtual
    BY <2>3
  <2> QED
    BY <2>2, <2>3, <2>4 DEF MadeNode
<1> HIDE DEF m
<1>3. \/ AddRenamed(s, n) = [Placed(s, n) EXCEPT !.counts = Counted(s, n.path, 1)]
      \/ AddRenamed(s, n) = [Placed(s, m) EXCEPT !.counts = Counted(s, n.path, k)]
  BY DEF AddRenamed, m
<1> QED
  BY <1>1, <1>2, <1>3

LEMMA AddIfVisibleMade ==
    ASSUME NEW handler, NEW root \in Dirs, NEW visited, NEW s, MadeOf(handler, root, visited, s),
           NEW n, MadeNode(handler, root, visited, n), NEW how, NEW filter
    PROVE  MadeOf(handler, root, visited, AddIfVisible(how, filter, s, n))
<1>1. AddIfVisible(how, filter, s, n)
          \in {s, FailedState("other"), FailedState("conflict"), Placed(s, n), AddRenamed(s, n)}
  BY DEF AddIfVisible, Decided, Add
<1> QED
  BY <1>1, StartsMade, PlacedMade, AddRenamedMade

LEMMA AddVisibleMade ==
    ASSUME NEW handler, NEW root \in Dirs, NEW visited, NEW s, MadeOf(handler, root, visited, s),
           NEW filter, NEW nodes, NEW n \in Nat, DOMAIN nodes = 1..n,
           \A i \in 1..n : MadeNode(handler, root, visited, nodes[i])
    PROVE  MadeOf(handler, root, visited, AddVisible(handler, filter, s, nodes))
<1>0. n \in Nat /\ DOMAIN nodes = 1..n
  OBVIOUS
<1>1. PICK h : /\ h[0] = s
               /\ \A k \in 0..(n - 1) :
                      h[k + 1] = AddIfVisible(handler.policy, filter, h[k], nodes[k + 1])
               /\ AddVisible(handler, filter, s, nodes) = h[n]
  BY ONLY <1>0, AddVisibleSteps, SMT
<1> DEFINE Made(t) == MadeOf(handler, root, visited, t)
           how == handler.policy
<1>7. Made(s)
  OBVIOUS
<1>2. ASSUME NEW t, Made(t), NEW i \in 1..n
      PROVE  Made(AddIfVisible(how, filter, t, nodes[i]))
  BY <1>2, AddIfVisibleMade
<1> HIDE DEF Made
<1> DEFINE Done == {k \in Nat : k <= n => Made(h[k])}
<1>3. 0 \in Done
  BY <1>1, <1>7
<1>4. ASSUME NEW k \in Done PROVE k + 1 \in Done
  <2>1. k \in Nat /\ k + 1 \in Nat
    BY <1>4
  <2>2. CASE k + 1 <= n
    <3>1. k \in 0..(n - 1) /\ k <= n /\ k + 1 \in 1..n
      BY <2>1, <2>2
    <3>2. Made(h[k])
      BY <1>4, <3>1
    <3>3. Made(h[k + 1])
      BY <1>1, <1>2, <3>1, <3>2
    <3> QED
      BY <2>1, <3>3
  <2>3. CASE ~(k + 1 <= n)
    BY <2>1, <2>3
  <2> QED
    BY <2>2, <2>3
<1>5. Done = Nat
  <2>1. Done \in SUBSET Nat
    OBVIOUS
  <2> HIDE DEF Done
  <2> QED
    BY <1>3, <1>4, <2>1, NatInd
<1>6. Made(h[n])
  BY <1>5
<1> QED
  BY <1>1, <1>6 DEF Made

\* A mapper's nodes for an entry stand for it, below the target root.
LEMMA MappedMade ==
    ASSUME NEW route, HandlerOK(route.handler), route.handler.type \in Materializing,
           NEW tree \in Trees, NEW req, req.sourceRoot \in DOMAIN tree, req.targetRoot \in Dirs,
           NEW visited, NEW p \in visited,
           p \in DOMAIN tree, HasPathPrefix(p, req.sourceRoot), p # req.sourceRoot
    PROVE  LET nodes == Mapped(route.handler, req, p, tree[p])
           IN  \A i \in DOMAIN nodes :
                   MadeNode(route.handler, req.targetRoot, visited, nodes[i])
<1> DEFINE handler == route.handler
           root == req.targetRoot
           rel == Below(p, Len(req.sourceRoot))
           rels == MappedRels(handler, req.sourceRoot, rel, tree[p])
           nodes == Mapped(handler, req, p, tree[p])
<1>1. rel # Root
  <2>1. /\ DOMAIN tree \subseteq Dirs /\ p \in Dirs /\ req.sourceRoot \in Dirs
    BY RoutingAssumption DEF Dirs
  <2>2. Len(req.sourceRoot) \in Nat /\ Len(p) \in Nat /\ Len(req.sourceRoot) < Len(p)
    BY <2>1, PrefixIs DEF Dirs
  <2>3. Len(req.sourceRoot) \in 0..Len(p)
    BY <2>2
  <2>4. Len(rel) = Len(p) - Len(req.sourceRoot)
    BY <2>1, <2>3, RestOf DEF Dirs
  <2> HIDE DEF rel
  <2>5. Len(rel) # 0
    BY <2>2, <2>4
  <2>6. Len(Root) = 0
    BY DEF Root
  <2> QED
    BY <2>5, <2>6
<1>2. ASSUME NEW i \in DOMAIN rels
      PROVE  /\ \E S : rels[i] \in Seq(S)
             /\ rels[i] # Root
             /\ handler.type = "flat" => Len(rels[i]) = 1
             /\ handler.type = "classifier" => Len(rels[i]) = 2
  <2>0. \A x : <<x>> \in Seq({x}) /\ Len(<<x>>) = 1 /\ <<x>> # << >>
    OBVIOUS
  <2>1. CASE handler.type = "flat"
    <3>1. rels = << >> \/ rels = <<BaseName(rel)>>
      BY <2>1 DEF MappedRels
    <3>2. rels[i] = <<rel[Len(rel)]>>
      <4>1. BaseName(rel) = <<rel[Len(rel)]>>
        BY <1>1 DEF BaseName
      <4> HIDE DEF rels, rel
      <4> QED
        BY <1>2, <3>1, <4>1
    <3> HIDE DEF rels, rel
    <3> QED
      BY <2>0, <2>1, <3>2 DEF Root
  <2>2. CASE handler.type = "classifier"
    <3> DEFINE c == CategoryOf(handler, rel[Len(rel)])
               x == rel[Len(rel)]
    <3>1. rels = << >> \/ rels = <<<<c>> \o BaseName(rel)>>
      BY <2>2 DEF MappedRels
    <3>2. BaseName(rel) = <<x>>
      BY <1>1 DEF BaseName
    <3> HIDE DEF c, x
    <3>3. rels[i] = <<c>> \o <<x>>
      <4> HIDE DEF rels, rel
      <4> QED
        BY <1>2, <3>1, <3>2
    <3>4. <<c>> \in Seq({c, x}) /\ <<x>> \in Seq({c, x}) /\ Len(<<c>>) = 1 /\ Len(<<x>>) = 1
      OBVIOUS
    <3>5. <<c>> \o <<x>> \in Seq({c, x}) /\ Len(<<c>> \o <<x>>) = 2
      BY <3>4, ConcatProperties
    <3>6. Len(Root) = 0
      BY DEF Root
    <3> DEFINE r == rels[i]
               S == {c, x}
    <3>7. r \in Seq(S) /\ Len(r) = 2
      BY <3>3, <3>5
    <3> HIDE DEF r, S
    <3>8. r # Root
      <4>1. Len(r) # 0
        BY <3>7
      <4> QED
        BY <3>6, <4>1, Zenon
    <3>9. handler.type # "flat"
      BY <2>2
    <3>10. \E T : r \in Seq(T)
      BY <3>7, Zenon
    <3> QED
      BY <3>7, <3>8, <3>9, <3>10, Zenon DEF r
  <2>3. CASE handler.type = "transform"
    <3>1. \/ rels = MapWith(handler.mapDir, req.sourceRoot, rel)
          \/ rels = MapWith(handler.mapFile, req.sourceRoot, rel)
      BY <2>3 DEF MappedRels
    <3>2. \A function \in {handler.mapDir, handler.mapFile} :
              ToSet(MapWith(function, req.sourceRoot, rel)) \subseteq Seq(STRING) \ {Root}
      BY <2>3 DEF HandlerOK
    <3> HIDE DEF rels, rel
    <3>3. rels[i] \in Seq(STRING) \ {Root}
      BY <1>2, <3>1, <3>2 DEF ToSet
    <3> QED
      BY <2>3, <3>3
  <2> QED
    BY <2>1, <2>2, <2>3 DEF Materializing
<1> HIDE DEF rels, rel
<1>3. nodes = [i \in DOMAIN rels |-> NodeFromFileInfo(JoinPath(root, rels[i]), p, tree[p])]
  BY DEF Mapped, rels, rel
<1>4. DOMAIN nodes = DOMAIN rels
  BY <1>3
<1>5. ASSUME NEW i \in DOMAIN nodes PROVE MadeNode(handler, root, visited, nodes[i])
  <2>1. i \in DOMAIN rels
    BY <1>4
  <2>2. nodes[i] = NodeFromFileInfo(JoinPath(root, rels[i]), p, tree[p])
    BY <1>3, <2>1
  <2>3. PICK S : rels[i] \in Seq(S)
    BY <1>2, <2>1
  <2>4. Under(root, JoinPath(root, rels[i]))
        /\ Len(JoinPath(root, rels[i])) = Len(root) + Len(rels[i])
    BY <1>2, <2>1, <2>3, UnderJoin
  <2> DEFINE n == nodes[i]
  <2>5. /\ n = [path |-> n.path, source |-> n.source, kind |-> n.kind, stamp |-> n.stamp,
                virtual |-> n.virtual]
        /\ n.virtual = FALSE /\ n.source = p /\ n.path = JoinPath(root, rels[i])
    BY <2>2 DEF NodeFromFileInfo
  <2> HIDE DEF n
  <2>6. MadeNode(handler, root, visited, n)
    BY <1>2, <2>1, <2>4, <2>5 DEF MadeNode
  <2> QED
    BY <2>6 DEF n
<1> QED
  BY <1>5

\* A tree has the directory that a walk starts from, and the walk an order.
LEMMA WalkList ==
    ASSUME NEW tree \in Trees, NEW handler, NEW req, IsDir(tree, req.sourceRoot)
    PROVE  LET visited == Visited(handler, req, tree)
               n == Cardinality(visited)
           IN  /\ req.sourceRoot \in DOMAIN tree /\ req.sourceRoot \in Dirs
               /\ \A p \in visited : /\ p \in DOMAIN tree /\ p \in Dirs
                                     /\ HasPathPrefix(p, req.sourceRoot)
                                     /\ p # req.sourceRoot
               /\ n \in Nat /\ InOrder(visited) \in [1..n -> visited]
<1> DEFINE visited == Visited(handler, req, tree)
<1>1. /\ DOMAIN tree \subseteq Dirs /\ IsFiniteSet(DOMAIN tree) /\ OrdersNames(Trees)
      /\ req.sourceRoot \in DOMAIN tree
  BY RoutingAssumption DEF Dirs, IsDir, Exists
<1>2. \A p \in visited : /\ p \in DOMAIN tree
                         /\ HasPathPrefix(p, req.sourceRoot) /\ p # req.sourceRoot
  BY DEF Visited
<1>3. \A p \in visited : p # Root
  <2>1. ASSUME NEW p \in visited, p = Root PROVE FALSE
    <3>1. Len(req.sourceRoot) < Len(p)
      BY <1>1, <1>2, <2>1, PrefixIs
    <3>2. Len(p) = 0 /\ Len(req.sourceRoot) \in Nat
      BY <1>1, <2>1 DEF Root, Dirs
    <3> QED
      BY <3>1, <3>2
  <2> QED
    BY <2>1
<1>4. visited \in SUBSET (DOMAIN tree \ {Root})
  BY <1>2, <1>3
<1> HIDE DEF visited
<1>5. Cardinality(visited) \in Nat /\ InOrder(visited) \in [1..Cardinality(visited) -> visited]
  BY <1>1, <1>4, TreeInOrder
<1> QED
  BY <1>1, <1>2, <1>5 DEF visited

\* Whatever is in a materialization stands for a visited entry, below the target root.
LEMMA MaterializeMade ==
    ASSUME NEW route, Lists(route), HandlerOK(route.handler),
           route.handler.type \in Materializing,
           NEW tree \in Trees, NEW req, req.targetRoot \in Dirs
    PROVE  MadeOf(route.handler, req.targetRoot, Visited(route.handler, req, tree),
                  Materialize(route.handler, req, tree))
<1> DEFINE handler == route.handler
           visited == Visited(handler, req, tree)
           Made(s) == MadeOf(handler, req.targetRoot, visited, s)
           list == InOrder(visited)
           n == Cardinality(visited)
<1>1. Made(EmptyState) /\ \A e : Made(FailedState(e))
  BY StartsMade
<1>2. CASE ~IsDir(tree, req.sourceRoot)
  <2>1. \E e : Materialize(handler, req, tree) = FailedState(e)
    BY <1>2 DEF Materialize, IsDir
  <2> HIDE DEF Made
  <2>2. Made(Materialize(handler, req, tree))
    BY <1>1, <2>1
  <2> QED
    BY <2>2 DEF Made
<1>3. CASE IsDir(tree, req.sourceRoot)
  <2>1. /\ req.sourceRoot \in DOMAIN tree
        /\ \A p \in visited : /\ p \in DOMAIN tree
                              /\ HasPathPrefix(p, req.sourceRoot) /\ p # req.sourceRoot
        /\ n \in Nat /\ list \in [1..n -> visited]
    BY <1>3, WalkList
  <2>2. PICK h : /\ h[0] = EmptyState
                 /\ \A k \in 0..(n - 1) :
                        h[k + 1] = VisitNext(handler, req, tree, h[k], list[k + 1])
                 /\ Materialize(handler, req, tree) = h[n]
    BY <1>3, <2>1, MaterializeSteps
  <2>3. ASSUME NEW s, Made(s), NEW p \in visited
        PROVE  Made(VisitNext(handler, req, tree, s, p))
    <3> DEFINE nodes == Mapped(handler, req, p, tree[p])
    <3>1. PICK m \in Nat : DOMAIN nodes = 1..m
      BY <2>1, <2>3, MappedIsList
    <3>2. \A i \in DOMAIN nodes : MadeNode(handler, req.targetRoot, visited, nodes[i])
      <4> HIDE DEF visited
      <4> QED
        BY <2>1, <2>3, MappedMade
    <3>3. VisitNext(handler, req, tree, s, p)
              \in {s, FailedState("other"), AddVisible(handler, req.filter, s, nodes)}
      BY DEF VisitNext, VisitEntry, Prunes
    <3> HIDE DEF nodes, visited
    <3>4. Made(AddVisible(handler, req.filter, s, nodes))
      BY <2>3, <3>1, <3>2, AddVisibleMade
    <3> HIDE DEF Made
    <3> QED
      BY <1>1, <2>3, <3>3, <3>4
  <2> HIDE DEF visited, list, n, Made
  <2> DEFINE Done == {k \in Nat : k <= n => Made(h[k])}
  <2>4. 0 \in Done
    BY <1>1, <2>2
  <2>5. ASSUME NEW k \in Done PROVE k + 1 \in Done
    <3>1. k \in Nat /\ k + 1 \in Nat
      BY <2>5
    <3>2. CASE k + 1 <= n
      <4>1. k \in 0..(n - 1) /\ k <= n /\ k + 1 \in 1..n
        BY <2>1, <3>1, <3>2
      <4>2. Made(h[k]) /\ list[k + 1] \in visited
        BY <2>1, <2>5, <4>1
      <4>3. Made(h[k + 1])
        BY <2>2, <2>3, <4>1, <4>2
      <4> QED
        BY <3>1, <4>3
    <3>3. CASE ~(k + 1 <= n)
      BY <3>1, <3>3
    <3> QED
      BY <3>2, <3>3
  <2>6. Done = Nat
    <3>1. Done \in SUBSET Nat
      OBVIOUS
    <3> HIDE DEF Done
    <3> QED
      BY <2>4, <2>5, <3>1, NatInd
  <2>7. Made(h[n])
    BY <2>1, <2>6
  <2> QED
    BY <2>2, <2>7 DEF Made, visited
<1> QED
  BY <1>2, <1>3

\* It depends on where a request starts from and leads to, not on what it asks for.
LEMMA MaterializeAlike ==
    ASSUME NEW handler, NEW tree \in Trees, NEW q, NEW q2, q2.sourceRoot = q.sourceRoot,
           q2.targetRoot = q.targetRoot, q2.filter = q.filter
    PROVE  /\ Visited(handler, q2, tree) = Visited(handler, q, tree)
           /\ Materialize(handler, q2, tree) = Materialize(handler, q, tree)
<1>1. \A p : TooDeep(handler, q2, p) = TooDeep(handler, q, p)
  BY DEF TooDeep
<1>2. \A p, info : IndexDecision(q2, p, info) = IndexDecision(q, p, info)
  BY DEF IndexDecision
<1>3. Visited(handler, q2, tree) = Visited(handler, q, tree)
  BY <1>1, <1>2 DEF Visited
<1>4. ASSUME NEW s, NEW p
      PROVE  VisitNext(handler, q2, tree, s, p) = VisitNext(handler, q, tree, s, p)
  <2>1. Mapped(handler, q2, p, tree[p]) = Mapped(handler, q, p, tree[p])
    BY DEF Mapped
  <2> QED
    BY <1>2, <2>1 DEF VisitNext, VisitEntry
<1>5. CASE ~IsDir(tree, q.sourceRoot)
  BY <1>3, <1>5 DEF Materialize, IsDir
<1>6. CASE IsDir(tree, q.sourceRoot)
  <2> DEFINE visited == Visited(handler, q, tree)
             list == InOrder(visited)
             n == Cardinality(visited)
  <2>1. n \in Nat
    BY <1>6, WalkList
  <2>2. PICK h : /\ h[0] = EmptyState
                 /\ \A k \in 0..(n - 1) :
                        h[k + 1] = VisitNext(handler, q, tree, h[k], list[k + 1])
                 /\ Materialize(handler, q, tree) = h[n]
    BY <1>6, <2>1, MaterializeSteps
  <2>3. PICK g : /\ g[0] = EmptyState
                 /\ \A k \in 0..(n - 1) :
                        g[k + 1] = VisitNext(handler, q2, tree, g[k], list[k + 1])
                 /\ Materialize(handler, q2, tree) = g[n]
    BY <1>3, <1>6, <2>1, MaterializeSteps
  <2> HIDE DEF list, n
  <2> DEFINE Done == {k \in Nat : k <= n => g[k] = h[k]}
  <2>4. 0 \in Done
    BY <2>2, <2>3
  <2>5. ASSUME NEW k \in Done PROVE k + 1 \in Done
    <3>1. k \in Nat /\ k + 1 \in Nat
      BY <2>5
    <3>2. CASE k + 1 <= n
      <4>1. k \in 0..(n - 1) /\ k <= n
        BY <2>1, <3>1, <3>2
      <4>2. g[k] = h[k]
        BY <2>5, <4>1
      <4>3. g[k + 1] = h[k + 1]
        BY <1>4, <2>2, <2>3, <4>1, <4>2
      <4> QED
        BY <3>1, <4>3
    <3>3. CASE ~(k + 1 <= n)
      BY <3>1, <3>3
    <3> QED
      BY <3>2, <3>3
  <2>6. Done = Nat
    <3>1. Done \in SUBSET Nat
      OBVIOUS
    <3> HIDE DEF Done
    <3> QED
      BY <2>4, <2>5, <3>1, NatInd
  <2>7. g[n] = h[n]
    BY <2>1, <2>6
  <2> QED
    BY <1>3, <2>2, <2>3, <2>7
<1> QED
  BY <1>3, <1>5, <1>6

---------------------------------------------------------------------------
(* What the materializing handlers list is what they resolve.                *)

\* An answer made of materialized nodes has those wanted, if the walk succeeded.
Holding(answer, state, wanted) ==
    /\ state.err = "none" => answer.nodes = wanted
    /\ state.err # "none" => answer.nodes = {} /\ answer.err # "none"
    /\ answer.err = "none" => state.err = "none" /\ answer.nodes = wanted

LEMMA FromNodesIs ==
    ASSUME NEW req, NEW state, NEW wanted
    PROVE  /\ Holding(FromNodes(req, state, wanted, TRUE), state, wanted)
           /\ Holding(FromNodes(req, state, wanted, FALSE), state, wanted)
           /\ FromNodes(req, state, wanted, TRUE).err = "none" => wanted # {}
BY DEF FromNodes, Failure, Success, Holding

\* One name more.
LEMMA OneMore ==
    ASSUME NEW d \in Dirs, NEW x
    PROVE  /\ Append(d, x) # Root /\ ParentPath(Append(d, x)) = d
           /\ Len(d) \in Nat /\ Len(Append(d, x)) = Len(d) + 1
<1> DEFINE u == Append(d, x)
<1>1. PICK S : d \in Seq(S)
  BY DEF Dirs
<1>2. ParentPath(u) = d
  BY <1>1, AppendIs
<1>3. Len(d) \in Nat /\ Len(u) = Len(d) + 1
  BY <1>1, AppendIs
<1> HIDE DEF u
<1>4. u # Root
  <2>1. Len(u) # 0
    BY <1>3
  <2>2. Len(Root) = 0
    BY DEF Root
  <2> QED
    BY <2>1, <2>2, Zenon
<1> QED
  BY <1>2, <1>3, <1>4 DEF u

\* Where an entry's request is, seen from its directory's.
LEMMA EntryDepth ==
    ASSUME NEW q, RequestOK(q), NEW q2, NEW x, EntryRequest(q, q2, x)
    PROVE  /\ Len(q.rel) \in Nat /\ (q.rel = Root <=> Len(q.rel) = 0)
           /\ q2.rel # Root /\ Len(q2.rel) = Len(q.rel) + 1
           /\ q2.target # Root /\ ParentPath(q2.target) = q.target
           /\ q.rel = Root => q.target = q.targetRoot
<1>1. q.target \in Seq(STRING) /\ q.rel \in Seq(STRING) /\ q.targetRoot \in Seq(STRING)
  BY DEF RequestOK, Dirs
<1>2. /\ q2.rel = Append(q.rel, x) /\ q2.target = Append(q.target, x)
      /\ q.target = q.targetRoot \o q.rel
  BY DEF EntryRequest, RequestOK
<1>3. Len(q.rel) \in Nat /\ (q.rel = Root <=> Len(q.rel) = 0)
  BY <1>1 DEF Root
<1>4. q2.rel # Root /\ Len(q2.rel) = Len(q.rel) + 1
  <2>1. Append(q.rel, x) # Root /\ Len(Append(q.rel, x)) = Len(q.rel) + 1
    BY OneMore DEF RequestOK
  <2> QED
    BY <1>2, <2>1
<1>5. q2.target # Root /\ ParentPath(q2.target) = q.target
  <2>1. Append(q.target, x) # Root /\ ParentPath(Append(q.target, x)) = q.target
    BY OneMore DEF RequestOK
  <2> QED
    BY <1>2, <2>1, Zenon
<1>6. ASSUME q.rel = Root PROVE q.target = q.targetRoot
  BY <1>1, <1>2, <1>6 DEF Root
<1> QED
  BY <1>3, <1>4, <1>5, <1>6

\* The nodes a handler shows at the depth of a request, before it is asked for one.
PoolOf(handler, q, nodes) ==
    CASE handler.type = "classifier" /\ Len(q.rel) = 1 -> CategoriesOf(q, nodes)
      [] handler.type = "classifier" /\ Len(q.rel) > 2 -> {}
      [] handler.type = "flat" /\ Len(q.rel) > 1 -> {}
      [] OTHER -> nodes

\* What resolves below the root of a route.
LEMMA ResolvedAre ==
    ASSUME NEW handler, handler.type \in Materializing, NEW tree, NEW q2,
           q2.rel # Root, Len(q2.rel) \in Nat
    PROVE  LET state  == Materialize(handler, q2, tree)
               answer == MaterializedResolve(handler, q2, tree)
               wanted == {n \in PoolOf(handler, q2, state.nodes) : n.path = q2.target}
           IN  /\ state.err = "none" => answer.nodes = wanted
               /\ state.err # "none" => answer.nodes = {}
               /\ answer.err = "none" => answer.nodes # {}
<1> DEFINE state  == Materialize(handler, q2, tree)
           answer == MaterializedResolve(handler, q2, tree)
           wanted == {n \in PoolOf(handler, q2, state.nodes) : n.path = q2.target}
<1>1. CASE handler.type # "transform" /\ Len(q2.rel) > Levels(handler)
  <2>1. answer = Failure("notexist")
    BY <1>1 DEF MaterializedResolve
  <2>2. PoolOf(handler, q2, state.nodes) = {}
    BY <1>1 DEF PoolOf, Levels, Materializing
  <2>3. wanted = {}
    BY <2>2
  <2> HIDE DEF state, wanted, answer
  <2> QED
    BY <2>1, <2>3 DEF Failure, state, wanted, answer
<1>2. CASE ~(handler.type # "transform" /\ Len(q2.rel) > Levels(handler))
  <2>1. answer = ResolvedIn(handler, q2, state)
    BY <1>2 DEF MaterializedResolve
  <2>2. PoolOf(handler, q2, state.nodes)
            = IF handler.type = "classifier" /\ Len(q2.rel) = 1
              THEN CategoriesOf(q2, state.nodes) ELSE state.nodes
    BY <1>2 DEF PoolOf, Levels, Materializing
  <2>3. answer = FromNodes(q2, state, wanted, TRUE)
    BY <2>1, <2>2 DEF ResolvedIn
  <2> HIDE DEF state, wanted, answer
  <2>5. Holding(answer, state, wanted) /\ (answer.err = "none" => wanted # {})
    BY <2>3, FromNodesIs, Zenon
  <2>4. /\ state.err = "none" => answer.nodes = wanted
        /\ state.err # "none" => answer.nodes = {}
        /\ answer.err = "none" => answer.nodes # {}
    BY <2>5 DEF Holding
  <2> QED
    BY <2>4 DEF state, wanted, answer
<1> QED
  BY <1>1, <1>2

\* What a listing lists: the pool one level down, of it what is below the path.
\* The root of a Flat or Classifier route lists its pool whole.
AtTop(handler, q) == handler.type # "transform" /\ q.rel = Root

ListsOf(handler, q, pool, answer, state) ==
    /\ answer.nodes \subseteq pool
    /\ answer.nodes # {} => state.err = "none"
    /\ ~AtTop(handler, q) =>
           \A n \in answer.nodes : ParentPath(n.path) = q.target
    /\ answer.err = "none" =>
           /\ state.err = "none"
           /\ AtTop(handler, q) => answer.nodes = pool
           /\ \A n \in pool : ParentPath(n.path) = q.target => n \in answer.nodes

LEMMA ListedAre ==
    ASSUME NEW handler, handler.type \in Materializing, NEW tree, NEW q, RequestOK(q),
           NEW q2, NEW x, EntryRequest(q, q2, x)
    PROVE  LET state == Materialize(handler, q, tree)
           IN  ListsOf(handler, q, PoolOf(handler, q2, state.nodes),
                       MaterializedReadDir(handler, q, tree), state)
<1> DEFINE state  == Materialize(handler, q, tree)
           answer == MaterializedReadDir(handler, q, tree)
           pool   == PoolOf(handler, q2, state.nodes)
           below  == {n \in state.nodes : ParentPath(n.path) = q.target}
<1>1. /\ Len(q.rel) \in Nat /\ (q.rel = Root <=> Len(q.rel) = 0)
      /\ Len(q2.rel) = Len(q.rel) + 1
  BY EntryDepth
<1>2. CategoriesOf(q2, state.nodes) = CategoriesOf(q, state.nodes)
  BY DEF CategoriesOf, CategoryNode, EntryRequest, SameRoots
<1>3. CASE handler.type = "flat" /\ q.rel # Root
  <2>1. answer = Failure("notexist")
    BY <1>3 DEF MaterializedReadDir
  <2>2. answer.nodes = {} /\ answer.err # "none"
    BY <2>1 DEF Failure
  <2> HIDE DEF answer, state, pool
  <2>3. ListsOf(handler, q, pool, answer, state)
    BY <2>2 DEF ListsOf
  <2> QED
    BY <2>3 DEF answer, state, pool
<1>4. CASE AtTop(handler, q)
  <2>1. handler.type # "transform" /\ q.rel = Root /\ Len(q2.rel) = 1
    BY <1>1, <1>4 DEF AtTop
  <2>2. pool = IF handler.type = "classifier" THEN CategoriesOf(q, state.nodes) ELSE state.nodes
    <3> HIDE DEF state
    <3> QED
      BY <1>2, <2>1 DEF PoolOf, Materializing
  <2>3. answer = ListedIn(handler, q, state)
    BY <2>1 DEF MaterializedReadDir
  <2> HIDE DEF answer, state, pool
  <2>4. answer = FromNodes(q, state, pool, FALSE)
    BY <2>1, <2>2, <2>3 DEF ListedIn
  <2>5. Holding(answer, state, pool)
    BY <2>4, FromNodesIs
  <2>6. ListsOf(handler, q, pool, answer, state)
    BY <1>4, <2>5 DEF Holding, ListsOf
  <2> QED
    BY <2>6 DEF answer, state, pool
<1> HIDE DEF state, answer, pool, below
<1>5. ASSUME answer = FromNodes(q, state, below, TRUE), pool = state.nodes, ~AtTop(handler, q)
      PROVE  ListsOf(handler, q, pool, answer, state)
  <2>1. /\ \A n \in below : n \in pool /\ ParentPath(n.path) = q.target
        /\ \A n \in pool : ParentPath(n.path) = q.target => n \in below
    BY <1>5 DEF below
  <2>2. Holding(answer, state, below)
    BY <1>5, FromNodesIs
  <2> QED
    BY <1>5, <2>1, <2>2 DEF Holding, ListsOf
<1>6. CASE handler.type = "transform"
  <2>1. pool = state.nodes
    BY <1>6 DEF PoolOf, pool
  <2>2. ~AtTop(handler, q)
    BY <1>6 DEF AtTop
  <2>3. answer = ListedIn(handler, q, state)
    BY <1>6 DEF MaterializedReadDir, answer, state
  <2>4. answer = FromNodes(q, state, below, TRUE)
    BY <1>6, <2>3 DEF ListedIn, below
  <2>5. ListsOf(handler, q, pool, answer, state)
    BY <1>5, <2>1, <2>2, <2>4
  <2> QED
    BY <2>5 DEF answer, state, pool
<1>7. CASE handler.type = "classifier" /\ Len(q.rel) = 1
  <2>0. Len(q2.rel) = 2 /\ q.rel # Root
    BY <1>1, <1>7
  <2>1. pool = state.nodes
    BY <1>7, <2>0 DEF PoolOf, pool
  <2>2. ~AtTop(handler, q)
    BY <2>0 DEF AtTop
  <2>3. answer = ListedIn(handler, q, state)
    BY <1>7 DEF MaterializedReadDir, answer, state
  <2>4. answer = FromNodes(q, state, below, TRUE)
    BY <1>7, <2>0, <2>3 DEF ListedIn, below
  <2>5. ListsOf(handler, q, pool, answer, state)
    BY <1>5, <2>1, <2>2, <2>4
  <2> QED
    BY <2>5 DEF answer, state, pool
<1>8. CASE handler.type = "classifier" /\ Len(q.rel) > 1
  <2>0. Len(q2.rel) > 2 /\ q.rel # Root
    BY <1>1, <1>8
  <2>1. answer = ListedIn(handler, q, state)
    BY <1>8 DEF MaterializedReadDir, answer, state
  <2>2. pool = {}
    BY <1>8, <2>0 DEF PoolOf, pool
  <2>3. answer = FromNodes(q, state, {}, TRUE)
    BY <1>8, <2>0, <2>1 DEF ListedIn
  <2>4. Holding(answer, state, {}) /\ answer.err # "none"
    BY <2>3, FromNodesIs
  <2>5. ListsOf(handler, q, pool, answer, state)
    BY <2>2, <2>4 DEF Holding, ListsOf
  <2> QED
    BY <2>5 DEF answer, state, pool
<1>9. CASE q.rel = Root
  <2>1. AtTop(handler, q) \/ handler.type = "transform"
    BY <1>9 DEF AtTop
  <2> QED
    BY <1>4, <1>6, <2>1
<1>10. CASE q.rel # Root
  <2> DEFINE l == Len(q.rel)
  <2>1. l \in Nat /\ l # 0
    BY <1>1, <1>10
  <2> HIDE DEF l
  <2>2. l = 1 \/ l > 1
    BY <2>1
  <2>3. Len(q.rel) = 1 \/ Len(q.rel) > 1
    BY <2>2, Zenon DEF l
  <2> QED
    BY <1>3, <1>6, <1>7, <1>8, <1>10, <2>3 DEF Materializing
<1> QED
  BY <1>9, <1>10

\* The materialization of a route has at most one node, or category, per path.
LEMMA PoolIs ==
    ASSUME NEW handler, NEW q, NEW nodes, NEW n \in PoolOf(handler, q, nodes)
    PROVE  \/ n \in nodes /\ ~(handler.type = "classifier" /\ Len(q.rel) = 1)
           \/ /\ handler.type = "classifier" /\ Len(q.rel) = 1
              /\ \E c : n = CategoryNode(q, c)
<1>1. CASE handler.type = "classifier" /\ Len(q.rel) = 1
  <2>1. n \in CategoriesOf(q, nodes)
    BY <1>1 DEF PoolOf
  <2>2. \E c : n = CategoryNode(q, c)
    BY <2>1 DEF CategoriesOf
  <2> QED
    BY <1>1, <2>2
<1>2. CASE ~(handler.type = "classifier" /\ Len(q.rel) = 1)
  BY <1>2 DEF PoolOf
<1> QED
  BY <1>1, <1>2

LEMMA PoolOne ==
    ASSUME NEW handler, NEW q, q.targetRoot \in Dirs, NEW s, OneEach(s),
           NEW m \in PoolOf(handler, q, s.nodes), NEW n \in PoolOf(handler, q, s.nodes),
           m.path = n.path
    PROVE  m = n
<1>1. CASE ~(handler.type = "classifier" /\ Len(q.rel) = 1)
  <2>1. m \in s.nodes /\ n \in s.nodes
    BY <1>1, PoolIs
  <2> QED
    BY <2>1 DEF OneEach
<1>2. CASE handler.type = "classifier" /\ Len(q.rel) = 1
  <2>1. PICK c : m = CategoryNode(q, c)
    BY <1>2, PoolIs
  <2>2. PICK d : n = CategoryNode(q, d)
    BY <1>2, PoolIs
  <2> DEFINE root == q.targetRoot
  <2>3. m.path = Append(root, c) /\ n.path = Append(root, d)
    BY <2>1, <2>2 DEF CategoryNode
  <2>4. PICK S : root \in Seq(S)
    BY DEF Dirs
  <2> HIDE DEF root
  <2>5. Append(root, c)[Len(root) + 1] = c /\ Append(root, d)[Len(root) + 1] = d
    BY <2>4, AppendIs
  <2>6. c = d
    BY <2>3, <2>5
  <2> QED
    BY <2>1, <2>2, <2>6
<1> QED
  BY <1>1, <1>2

\* Every entry of a directory has a request.
LEMMA EntryRequestExists ==
    ASSUME NEW q, RequestOK(q), NEW x
    PROVE  \E q2 : EntryRequest(q, q2, x)
<1> DEFINE q2 == [target |-> Append(q.target, x), rel |-> Append(q.rel, x),
                  sourceRoot |-> q.sourceRoot, targetRoot |-> q.targetRoot,
                  filter |-> q.filter, id |-> q.id]
<1>1. /\ q2.target = Append(q.target, x) /\ q2.rel = Append(q.rel, x)
      /\ q2.sourceRoot = q.sourceRoot /\ q2.targetRoot = q.targetRoot
      /\ q2.filter = q.filter /\ q2.id = q.id
  OBVIOUS
<1>2. IsRequest(q2)
  BY DEF IsRequest
<1> HIDE DEF q2
<1>3. EntryRequest(q, q2, x)
  BY <1>1, <1>2 DEF EntryRequest, SameRoots, RequestOK
<1> QED
  BY <1>3

\* A path that is one name longer than a target root it lies under.
LEMMA OneUnder ==
    ASSUME NEW root \in Dirs, NEW path, Under(root, path)
    PROVE  /\ path = Append(ParentPath(path), path[Len(path)])
           /\ Len(path) = Len(root) + 1 => ParentPath(path) = root
<1> DEFINE S == ToSet(path) \cup STRING
           p == ParentPath(path)
<1>1. path \in Seq(S) /\ root \in Seq(S) /\ Len(root) \in Nat /\ Len(path) > Len(root)
      /\ \A i \in 1..Len(root) : path[i] = root[i]
  BY SeqMonotonic DEF Under, IsList, Dirs
<1> HIDE DEF S
<1>2. Len(path) \in Nat /\ Len(path) # 0
  BY <1>1
<1>3. path # Root
  <2>1. Len(Root) = 0
    BY DEF Root
  <2> QED
    BY <1>2, <2>1, Zenon
<1>4. path = Append(p, path[Len(path)])
  BY <1>1, <1>3, ParentAndName
<1>5. ASSUME Len(path) = Len(root) + 1 PROVE p = root
  <2>1. Len(path) - 1 = Len(root) /\ Len(root) \in 0..Len(path)
    BY <1>1, <1>5
  <2>2. p = SubSeq(path, 1, Len(root))
    BY <1>3, <2>1 DEF ParentPath
  <2>3. p \in Seq(S) /\ Len(p) = Len(root) /\ \A i \in 1..Len(root) : p[i] = path[i]
    BY <1>1, <2>1, <2>2, FirstOf
  <2> HIDE DEF p
  <2> QED
    BY <1>1, <2>3, SeqEqual
<1> QED
  BY <1>4, <1>5

\* A path directly below another.
OneBelow(path, dir) == \E x : path = Append(dir, x)

\* An entry that a materializing handler lists lies directly below the path asked for.
LEMMA MaterializedBelow ==
    ASSUME NEW route, Lists(route), HandlerOK(route.handler),
           route.handler.type \in Materializing, NEW tree \in Trees, NEW q, RequestOK(q),
           NEW n \in MaterializedReadDir(route.handler, q, tree).nodes
    PROVE  OneBelow(n.path, q.target)
<1> DEFINE handler == route.handler
           state == Materialize(handler, q, tree)
           visited == Visited(handler, q, tree)
           root == q.targetRoot
<1>1. PICK q2 : EntryRequest(q, q2, "")
  BY EntryRequestExists
<1>2. ListsOf(handler, q, PoolOf(handler, q2, state.nodes),
              MaterializedReadDir(handler, q, tree), state)
  BY <1>1, ListedAre
<1>3. n \in PoolOf(handler, q2, state.nodes)
  BY <1>2 DEF ListsOf
<1>4. root \in Dirs /\ q2.targetRoot = root
  BY <1>1 DEF RequestOK, EntryRequest, SameRoots
<1>5. MadeOf(handler, root, visited, state)
  BY <1>4, MaterializeMade
<1>6. /\ q.rel = Root => q.target = root
      /\ q.rel = Root <=> Len(q.rel) = 0
      /\ Len(q.rel) \in Nat /\ Len(q2.rel) = Len(q.rel) + 1
  BY <1>1, EntryDepth
<1> HIDE DEF state, visited, root
<1>7. ASSUME n \in state.nodes
      PROVE  /\ n.path = Append(ParentPath(n.path), n.path[Len(n.path)])
             /\ Len(n.path) = Len(root) + 1 => ParentPath(n.path) = root
             /\ handler.type = "flat" => Len(n.path) = Len(root) + 1
  <2>1. MadeNode(handler, root, visited, n)
    BY <1>5, <1>7 DEF MadeOf
  <2> QED
    BY <1>4, <2>1, OneUnder DEF MadeNode
<1>8. CASE handler.type = "classifier" /\ Len(q2.rel) = 1
  <2>1. PICK c : n = CategoryNode(q2, c)
    BY <1>3, <1>8, PoolIs
  <2>2. n.path = Append(root, c)
    BY <1>4, <2>1 DEF CategoryNode
  <2>3. q.rel = Root
    <3> DEFINE l == Len(q.rel)
    <3>1. l \in Nat /\ l + 1 = 1
      BY <1>6, <1>8
    <3> HIDE DEF l
    <3>2. l = 0
      BY <3>1
    <3> QED
      BY <1>6, <3>2, Zenon DEF l
  <2> QED
    BY <1>6, <2>2, <2>3 DEF OneBelow
<1>9. CASE ~(handler.type = "classifier" /\ Len(q2.rel) = 1)
  <2>1. n \in state.nodes
    BY <1>3, <1>9, PoolIs
  <2>2. CASE AtTop(handler, q)
    <3>1. handler.type # "transform" /\ q.rel = Root
      BY <2>2 DEF AtTop
    <3>2. handler.type # "classifier"
      BY <1>6, <1>9, <3>1
    <3>3. handler.type = "flat" /\ q.target = root
      BY <1>6, <3>1, <3>2 DEF Materializing
    <3> QED
      BY <1>7, <2>1, <3>3 DEF OneBelow
  <2>3. CASE ~AtTop(handler, q)
    <3>1. ParentPath(n.path) = q.target
      BY <1>2, <2>3 DEF ListsOf
    <3> QED
      BY <1>7, <2>1, <3>1 DEF OneBelow
  <2> QED
    BY <2>2, <2>3
<1> QED
  BY <1>8, <1>9

\* The listing of a directory and what its entry x resolves to.
Agrees(listed, resolved, path, x) ==
    /\ \A n \in listed.nodes : n.path = path => resolved.nodes = {n}
    /\ listed.err = "none" /\ x # "" =>
           \A n \in resolved.nodes : n.path = path /\ n \in listed.nodes
    /\ resolved.err = "none" => resolved.nodes # {}

LEMMA MaterializedAgrees ==
    ASSUME NEW route, Lists(route), HandlerOK(route.handler),
           route.handler.type \in Materializing, NEW tree \in Trees, NEW q, RequestOK(q),
           NEW q2, NEW x, EntryRequest(q, q2, x)
    PROVE  Agrees(MaterializedReadDir(route.handler, q, tree),
                  MaterializedResolve(route.handler, q2, tree), q2.target, x)
<1> DEFINE handler == route.handler
           listed == MaterializedReadDir(handler, q, tree)
           resolved == MaterializedResolve(handler, q2, tree)
           state == Materialize(handler, q, tree)
           pool == PoolOf(handler, q2, state.nodes)
           wanted == {n \in pool : n.path = q2.target}
<1>1. q2.sourceRoot = q.sourceRoot /\ q2.targetRoot = q.targetRoot /\ q2.filter = q.filter
      /\ q2.targetRoot \in Dirs
  BY DEF EntryRequest, SameRoots, RequestOK
<1>2. Materialize(handler, q2, tree) = state
  BY <1>1, MaterializeAlike
<1>3. /\ q2.rel # Root /\ Len(q2.rel) = Len(q.rel) + 1 /\ Len(q.rel) \in Nat
      /\ ParentPath(q2.target) = q.target
  BY EntryDepth
<1>4. /\ state.err = "none" => resolved.nodes = wanted
      /\ state.err # "none" => resolved.nodes = {}
      /\ resolved.err = "none" => resolved.nodes # {}
  <2>1. Len(q2.rel) \in Nat
    BY <1>3
  <2> QED
    BY <1>2, <1>3, <2>1, ResolvedAre
<1>5. ListsOf(handler, q, pool, listed, state)
  BY ListedAre
<1>6. OneEach(state)
  <2>1. q.targetRoot \in Dirs
    BY <1>1
  <2> QED
    BY <2>1, MaterializeMade DEF MadeOf
<1>7. \A m, n \in pool : m.path = n.path => m = n
  <2> HIDE DEF state
  <2> QED
    BY <1>1, <1>6, PoolOne
<1> HIDE DEF listed, resolved, state, pool
<1>8. ASSUME NEW n \in listed.nodes, n.path = q2.target PROVE resolved.nodes = {n}
  <2>1. n \in pool /\ state.err = "none"
    BY <1>5, <1>8 DEF ListsOf
  <2>2. wanted = {n}
    BY <1>7, <1>8, <2>1
  <2> QED
    BY <1>4, <2>1, <2>2
<1>9. ASSUME listed.err = "none", NEW n \in resolved.nodes
      PROVE  n.path = q2.target /\ n \in listed.nodes
  <2>1. n \in wanted
    BY <1>4, <1>9
  <2>2. n \in pool /\ n.path = q2.target
    BY <2>1
  <2>3. n \in listed.nodes
    BY <1>3, <1>5, <1>9, <2>2 DEF ListsOf
  <2> QED
    BY <2>2, <2>3
<1> QED
  BY <1>4, <1>8, <1>9 DEF Agrees, listed, resolved

---------------------------------------------------------------------------
(* What Identity and Mount list is what they resolve.                        *)

\* The node that a listing makes of the entry p of the source.
EntryNode(q, tree, p) == NodeFromFileInfo(JoinPath(q.target, BaseName(p)), p, tree[p])

EntryNodes(q, tree) ==
    {EntryNode(q, tree, p) : p \in
        {r \in Listing(tree, JoinPath(q.sourceRoot, q.rel)) :
            TargetDecision(q.filter, EntryNode(q, tree, r)) = "include"}}

LEMMA IdentityListed ==
    ASSUME NEW q, NEW tree
    PROVE  LET listed == IdentityReadDir(q, tree, InfosOf(tree, tree))
           IN  /\ listed.nodes \subseteq EntryNodes(q, tree)
               /\ listed.err = "none" => listed.nodes = EntryNodes(q, tree)
<1> DEFINE listed == IdentityReadDir(q, tree, InfosOf(tree, tree))
           source == JoinPath(q.sourceRoot, q.rel)
           names  == Listing(tree, source)
           later  == InfosOf(tree, tree)
           info(p) == IF Exists(later[p], p) THEN later[p][p] ELSE tree[p]
           node   == [p \in names |->
                         NodeFromFileInfo(JoinPath(q.target, BaseName(p)), p, info(p))]
           decision == [p \in names |->
                           IF Exists(later[p], p) THEN TargetDecision(q.filter, node[p])
                                                  ELSE "gone"]
           included == {r \in names : decision[r] = "include"}
<1>1. \A p \in names : later[p] = tree /\ Exists(later[p], p)
  BY DEF Listing, Exists, InfosOf
<1>2. \A p \in names : node[p] = EntryNode(q, tree, p)
  BY <1>1 DEF EntryNode
<1>3. \A p \in names : decision[p] = TargetDecision(q.filter, EntryNode(q, tree, p))
  <2> HIDE DEF node, names
  <2> QED
    BY <1>1, <1>2
<1>4. \/ \E e : listed = Failure(e) /\ e # "none"
      \/ listed = ListingOf(q, source, node, decision)
  BY DEF IdentityReadDir
<1>5. DOMAIN node = names
  OBVIOUS
<1> HIDE DEF listed, node, decision, names, later
<1>6. EntryNodes(q, tree) = {node[p] : p \in included}
  <2>1. included = {r \in names : TargetDecision(q.filter, EntryNode(q, tree, r)) = "include"}
    BY <1>3
  <2>2. EntryNodes(q, tree) = {EntryNode(q, tree, p) : p \in included}
    BY <2>1 DEF EntryNodes, names, source
  <2> QED
    BY <1>2, <2>2
<1>7. \/ \E e : listed = Failure(e) /\ e # "none"
      \/ listed = Success({node[p] : p \in {r \in DOMAIN node : decision[r] = "include"}},
                          {}, {source}, {q.id})
  <2> DEFINE faulty == {p \in DOMAIN node : decision[p] \in {"gone", "error"}}
             at == CHOOSE p \in faulty : \A r \in faulty : r = p \/ WalkedBefore(p, r)
             e == IF decision[at] = "gone" THEN "notexist" ELSE "other"
             all == Success({node[p] : p \in {r \in DOMAIN node : decision[r] = "include"}},
                            {}, {source}, {q.id})
  <2>1. ListingOf(q, source, node, decision) = IF faulty # {} THEN Failure(e) ELSE all
    BY DEF ListingOf
  <2>2. e # "none"
    OBVIOUS
  <2> HIDE DEF faulty, at, e
  <2> QED
    BY <1>4, <2>1, <2>2
<1>8. \/ listed.nodes = {} /\ listed.err # "none"
      \/ listed.nodes = {node[p] : p \in included}
  BY <1>5, <1>7 DEF Failure, Success
<1> QED
  BY <1>6, <1>8 DEF listed

\* The paths of an entry.
LEMMA EntryPaths ==
    ASSUME NEW q, q.target \in Dirs, NEW tree \in Trees, NEW source,
           NEW p \in Listing(tree, source)
    PROVE  \E y : p = Append(source, y) /\ EntryNode(q, tree, p).path = Append(q.target, y)
<1> DEFINE y == p[Len(p)]
           t == q.target
<1>1. p \in Seq(STRING) /\ p # Root /\ ParentPath(p) = source
  BY RoutingAssumption DEF Listing, ChildOf
<1>2. y \in STRING /\ p = Append(source, y)
  BY <1>1, ParentAndName
<1>3. BaseName(p) = <<y>>
  BY <1>1 DEF BaseName
<1>4. t \in Seq(STRING)
  BY DEF Dirs
<1> HIDE DEF y, t
<1>5. JoinPath(t, <<y>>) = Append(t, y)
  BY <1>2, <1>4, AppendIsConcat DEF JoinPath
<1>6. EntryNode(q, tree, p).path = JoinPath(t, <<y>>)
  BY <1>3 DEF EntryNode, NodeFromFileInfo, t
<1> QED
  BY <1>2, <1>5, <1>6 DEF t

\* The directory of a request, and one name more.
LEMMA SourceOfEntry ==
    ASSUME NEW root \in Seq(Texts), NEW rel \in Dirs, NEW x
    PROVE  JoinPath(root, Append(rel, x)) = Append(JoinPath(root, rel), x)
<1> DEFINE S == Texts \cup STRING \cup {x}
<1>1. root \in Seq(S) /\ rel \in Seq(S) /\ x \in S
  BY SeqMonotonic DEF Dirs
<1> HIDE DEF S
<1>2. Append(rel, x) = rel \o <<x>> /\ <<x>> \in Seq(S)
  BY <1>1, AppendIsConcat
<1>3. root \o rel \in Seq(S)
  BY <1>1, ConcatProperties
<1>4. Append(root \o rel, x) = (root \o rel) \o <<x>>
  BY <1>1, <1>3, AppendIsConcat
<1>5. (root \o rel) \o <<x>> = root \o (rel \o <<x>>)
  BY <1>1, <1>2, ConcatAssociative
<1> QED
  BY <1>2, <1>4, <1>5 DEF JoinPath

(* A listing shows the entries it names as they are when their infos are     *)
(* read, those that are still there.                                         *)
LEMMA IdentityLists ==
    ASSUME NEW q, NEW first, NEW last,
           NEW n \in IdentityReadDir(q, first, InfosOf(first, last)).nodes
    PROVE  \E p \in Listing(first, JoinPath(q.sourceRoot, q.rel)) :
               /\ p \in DOMAIN last
               /\ n = EntryNode(q, last, p)
               /\ TargetDecision(q.filter, n) = "include"
<1> DEFINE source == JoinPath(q.sourceRoot, q.rel)
           names  == Listing(first, source)
           later  == InfosOf(first, last)
           info(p) == IF Exists(later[p], p) THEN later[p][p] ELSE first[p]
           node   == [p \in names |->
                         NodeFromFileInfo(JoinPath(q.target, BaseName(p)), p, info(p))]
           decision == [p \in names |->
                           IF Exists(later[p], p) THEN TargetDecision(q.filter, node[p])
                                                  ELSE "gone"]
           shown == {node[p] : p \in {r \in DOMAIN node : decision[r] = "include"}}
<1>1. \A p \in names : later[p] = last
  BY DEF Listing, InfosOf
<1>2. n \in shown
  <2>1. \/ \E e : IdentityReadDir(q, first, later) = Failure(e)
        \/ IdentityReadDir(q, first, later) = ListingOf(q, source, node, decision)
    BY DEF IdentityReadDir
  <2> HIDE DEF node, decision, later
  <2>2. \/ \E e : ListingOf(q, source, node, decision) = Failure(e)
        \/ ListingOf(q, source, node, decision) = Success(shown, {}, {source}, {q.id})
    BY DEF ListingOf
  <2>3. n \in IdentityReadDir(q, first, later).nodes
    BY DEF later
  <2>4. (\A e : Failure(e).nodes = {}) /\ Success(shown, {}, {source}, {q.id}).nodes = shown
    BY DEF Failure, Success
  <2> HIDE DEF shown
  <2> QED
    BY <2>1, <2>2, <2>3, <2>4
<1>3. DOMAIN node = names
  OBVIOUS
<1>4. PICK p \in names : n = node[p] /\ decision[p] = "include"
  <2> HIDE DEF node, decision, names
  <2> QED
    BY <1>2, <1>3
<1> HIDE DEF names, later
<1>5. p \in DOMAIN last
  BY <1>1, <1>4 DEF Exists
<1>6. node[p] = EntryNode(q, last, p)
  BY <1>1, <1>5 DEF Exists, EntryNode
<1>7. decision[p] = TargetDecision(q.filter, node[p])
  <2> HIDE DEF node
  <2> QED
    BY <1>1, <1>5 DEF Exists
<1> HIDE DEF node, decision
<1> QED
  BY <1>4, <1>5, <1>6, <1>7 DEF names

\* So their paths are one name below the listed one.
LEMMA IdentityBelow ==
    ASSUME NEW q, q.target \in Dirs, NEW first \in Trees, NEW last,
           NEW n \in IdentityReadDir(q, first, InfosOf(first, last)).nodes
    PROVE  OneBelow(n.path, q.target)
<1> DEFINE source == JoinPath(q.sourceRoot, q.rel)
<1>1. PICK p \in Listing(first, source) : n = EntryNode(q, last, p)
  BY IdentityLists
<1> HIDE DEF source
<1>2. PICK y : EntryNode(q, first, p).path = Append(q.target, y)
  <2>1. q.target \in Dirs /\ first \in Trees /\ p \in Listing(first, source)
    BY <1>1
  <2>2. \E y : p = Append(source, y) /\ EntryNode(q, first, p).path = Append(q.target, y)
    BY <2>1, EntryPaths
  <2> QED
    BY <2>2
<1>3. n.path = EntryNode(q, first, p).path
  BY <1>1 DEF EntryNode, NodeFromFileInfo
<1> QED
  BY <1>2, <1>3 DEF OneBelow

LEMMA ResolvedNode ==
    ASSUME NEW q, NEW node, NEW sources
    PROVE  LET answer == FilteredNode(q, node, sources)
           IN  /\ TargetDecision(q.filter, node) = "include" =>
                      answer.nodes = {node} /\ answer.err = "none"
               /\ TargetDecision(q.filter, node) # "include" =>
                      answer.nodes = {} /\ answer.err # "none"
BY DEF FilteredNode, Filtered, Success, Failure

LEMMA IdentityAgrees ==
    ASSUME NEW q, q.target \in Dirs, q.rel \in Dirs, q.sourceRoot \in Seq(Texts),
           NEW tree \in Trees, NEW q2, NEW x,
           q2.target = Append(q.target, x), q2.rel = Append(q.rel, x),
           q2.sourceRoot = q.sourceRoot, q2.filter = q.filter
    PROVE  Agrees(IdentityReadDir(q, tree, InfosOf(tree, tree)), IdentityResolve(q2, tree), q2.target, x)
<1> DEFINE listed == IdentityReadDir(q, tree, InfosOf(tree, tree))
           resolved == IdentityResolve(q2, tree)
           source == JoinPath(q.sourceRoot, q.rel)
           u == JoinPath(q2.sourceRoot, q2.rel)
           names == Listing(tree, source)
           node == NodeFromFileInfo(q2.target, u, tree[u])
           decision == TargetDecision(q2.filter, node)
           included == decision = "include"
<1>1. u = Append(source, x)
  BY SourceOfEntry
<1>2. \E S : source \in Seq(S)
  <2>1. q.sourceRoot \in Seq(Texts \cup STRING) /\ q.rel \in Seq(Texts \cup STRING)
    BY SeqMonotonic DEF Dirs
  <2>2. source \in Seq(Texts \cup STRING)
    BY <2>1, ConcatProperties DEF JoinPath
  <2> QED
    BY <2>2
<1>3. u # Root /\ ParentPath(u) = source
  <2>1. PICK S : source \in Seq(S)
    BY <1>2
  <2> HIDE DEF source, u
  <2>2. Append(source, x) # Root /\ ParentPath(Append(source, x)) = source
    <3>1. /\ Len(source) \in Nat /\ Len(Append(source, x)) = Len(source) + 1
          /\ ParentPath(Append(source, x)) = source
      BY <2>1, AppendIs
    <3>2. Len(Append(source, x)) # 0 /\ Len(Root) = 0
      BY <3>1 DEF Root
    <3> QED
      BY <3>1, <3>2, Zenon
  <2> QED
    BY <1>1, <2>2
<1>4. /\ resolved.nodes # {} => u \in DOMAIN tree /\ included
      /\ u \in DOMAIN tree /\ included => resolved.nodes = {node}
      /\ resolved.err = "none" => resolved.nodes # {}
      /\ resolved.nodes \subseteq {node}
  <2>1. CASE u \in DOMAIN tree
    <3>1. resolved = FilteredNode(q2, node, {u})
      BY <2>1 DEF IdentityResolve, Exists
    <3> HIDE DEF resolved, node, u
    <3>2. /\ included => resolved.nodes = {node} /\ resolved.err = "none"
          /\ ~included => resolved.nodes = {} /\ resolved.err # "none"
      <4>1. LET answer == FilteredNode(q2, node, {u})
            IN  /\ TargetDecision(q2.filter, node) = "include" =>
                       answer.nodes = {node} /\ answer.err = "none"
                /\ TargetDecision(q2.filter, node) # "include" =>
                       answer.nodes = {} /\ answer.err # "none"
        BY ResolvedNode
      <4> QED
        BY <3>1, <4>1
    <3> HIDE DEF decision
    <3> QED
      BY <2>1, <3>2
  <2>2. CASE u \notin DOMAIN tree
    <3>1. resolved = Failure("notexist")
      BY <2>2 DEF IdentityResolve, Exists
    <3> HIDE DEF resolved, node, u
    <3> QED
      BY <2>2, <3>1 DEF Failure
  <2> QED
    BY <2>1, <2>2
<1>5. /\ listed.nodes \subseteq EntryNodes(q, tree)
      /\ listed.err = "none" => listed.nodes = EntryNodes(q, tree)
  BY IdentityListed
<1>6. q2.target = Append(q.target, x) /\ q.target \in Dirs /\ q2.filter = q.filter
  OBVIOUS
<1>7. node.path = q2.target
  BY DEF NodeFromFileInfo
<1>8. ASSUME NEW p \in names, EntryNode(q, tree, p).path = q2.target
      PROVE  p = u /\ EntryNode(q, tree, p) = node
  <2>1. PICK y : p = Append(source, y) /\ EntryNode(q, tree, p).path = Append(q.target, y)
    BY <1>6, <1>8, EntryPaths
  <2>2. y = x
    <3>1. PICK S : q.target \in Seq(S)
      BY <1>6 DEF Dirs
    <3> DEFINE t == q.target
    <3>2. t \in Seq(S) /\ Append(t, y) = Append(t, x)
      BY <1>6, <1>8, <2>1, <3>1
    <3> HIDE DEF t
    <3>3. Append(t, y)[Len(t) + 1] = y /\ Append(t, x)[Len(t) + 1] = x
      BY <3>2, AppendIs
    <3> QED
      BY <3>2, <3>3
  <2>3. p = u
    BY <1>1, <2>1, <2>2
  <2>4. EntryNode(q, tree, p) = NodeFromFileInfo(EntryNode(q, tree, p).path, p, tree[p])
    BY DEF EntryNode, NodeFromFileInfo
  <2> QED
    BY <1>8, <2>3, <2>4
<1>9. ASSUME u \in DOMAIN tree PROVE u \in names /\ EntryNode(q, tree, u) = node
  <2>1. u \in names
    BY <1>3, <1>9 DEF Listing, ChildOf
  <2>2. PICK y : u = Append(source, y) /\ EntryNode(q, tree, u).path = Append(q.target, y)
    <3> HIDE DEF u, source
    <3> QED
      BY <1>6, <2>1, EntryPaths
  <2>3. y = x
    <3>1. PICK S : source \in Seq(S)
      BY <1>2
    <3> HIDE DEF source
    <3>2. Append(source, y)[Len(source) + 1] = y /\ Append(source, x)[Len(source) + 1] = x
      BY <3>1, AppendIs
    <3> QED
      BY <1>1, <2>2, <3>2
  <2> HIDE DEF u, node, names
  <2> QED
    BY <1>6, <1>8, <2>1, <2>2, <2>3
<1> HIDE DEF listed, resolved, source, u, node
<1>10. ASSUME NEW n \in listed.nodes, n.path = q2.target PROVE resolved.nodes = {n}
  <2>1. n \in EntryNodes(q, tree)
    BY <1>5
  <2>2. PICK p \in names : /\ n = EntryNode(q, tree, p)
                           /\ TargetDecision(q.filter, EntryNode(q, tree, p)) = "include"
    BY <2>1 DEF EntryNodes, source
  <2>3. p = u /\ n = node
    BY <1>8, <1>10, <2>2
  <2>4. u \in DOMAIN tree /\ included
    BY <1>6, <2>2, <2>3 DEF Listing
  <2> QED
    BY <1>4, <2>3, <2>4
<1>11. ASSUME listed.err = "none", NEW n \in resolved.nodes
       PROVE  n.path = q2.target /\ n \in listed.nodes
  <2>1. n = node /\ u \in DOMAIN tree /\ included
    BY <1>4
  <2>2. u \in names /\ EntryNode(q, tree, u) = node
    BY <1>9, <2>1
  <2>3. TargetDecision(q.filter, EntryNode(q, tree, u)) = "include"
    BY <1>6, <2>1, <2>2
  <2>4. node \in EntryNodes(q, tree)
    BY <2>2, <2>3 DEF EntryNodes, source
  <2> QED
    BY <1>5, <1>7, <1>11, <2>1, <2>4
<1> QED
  BY <1>4, <1>10, <1>11 DEF Agrees, listed, resolved

\* The answer is the one node.
Shows(answer, n) == answer.nodes = {n}

(* An entry that was listed at one moment, and its info read at a later one, *)
(* is what resolves at that later one.                                       *)
LEMMA IdentityAgreesLater ==
    ASSUME NEW q, q.target \in Dirs, q.rel \in Dirs, q.sourceRoot \in Seq(Texts),
           NEW first \in Trees, NEW last, NEW q2, NEW x,
           q2.target = Append(q.target, x), q2.rel = Append(q.rel, x),
           q2.sourceRoot = q.sourceRoot, q2.filter = q.filter,
           NEW n \in IdentityReadDir(q, first, InfosOf(first, last)).nodes,
           n.path = q2.target
    PROVE  Shows(IdentityResolve(q2, last), n)
<1> DEFINE source == JoinPath(q.sourceRoot, q.rel)
           u == JoinPath(q2.sourceRoot, q2.rel)
<1>1. u = Append(source, x)
  BY SourceOfEntry
<1>2. PICK p \in Listing(first, source) :
          /\ p \in DOMAIN last
          /\ n = EntryNode(q, last, p)
          /\ TargetDecision(q.filter, n) = "include"
  BY IdentityLists
<1> HIDE DEF source, u
<1>3. PICK y : p = Append(source, y) /\ EntryNode(q, first, p).path = Append(q.target, y)
  <2>1. q.target \in Dirs /\ first \in Trees /\ p \in Listing(first, source)
    BY <1>2
  <2> QED
    BY <2>1, EntryPaths
<1>4. y = x
  <2>1. n.path = EntryNode(q, first, p).path
    BY <1>2 DEF EntryNode, NodeFromFileInfo
  <2>2. PICK S : q.target \in Seq(S)
    BY DEF Dirs
  <2> DEFINE t == q.target
  <2>3. t \in Seq(S) /\ Append(t, y) = Append(t, x)
    BY <1>3, <2>1, <2>2
  <2> HIDE DEF t
  <2>4. Append(t, y)[Len(t) + 1] = y /\ Append(t, x)[Len(t) + 1] = x
    BY <2>3, AppendIs
  <2> QED
    BY <2>3, <2>4
<1>5. p = u
  BY <1>1, <1>3, <1>4
<1>6. n = NodeFromFileInfo(q2.target, u, last[u])
  <2>1. n = NodeFromFileInfo(n.path, p, last[p])
    BY <1>2 DEF EntryNode, NodeFromFileInfo
  <2> QED
    BY <1>5, <2>1
<1>7. IdentityResolve(q2, last) = FilteredNode(q2, n, {u})
  BY <1>2, <1>5, <1>6 DEF IdentityResolve, Exists, u
<1>8. TargetDecision(q2.filter, n) = "include"
  BY <1>2
<1>9. FilteredNode(q2, n, {u}).nodes = {n}
  BY <1>8, ResolvedNode
<1> QED
  BY <1>7, <1>9 DEF Shows

---------------------------------------------------------------------------
(* Mount asks for the same with a root of its own.                           *)

LEMMA MountRequestIs ==
    ASSUME NEW handler, HandlerOK(handler), NEW q, IsRequest(q), q.sourceRoot \in Seq(Texts)
    PROVE  LET m == MountRequest(handler, q)
           IN  /\ m.target = q.target /\ m.rel = q.rel /\ m.filter = q.filter
               /\ m.sourceRoot \in Seq(Texts)
               /\ m.sourceRoot = IF handler.type = "mount" THEN handler.root ELSE q.sourceRoot
<1> DEFINE m == MountRequest(handler, q)
<1>1. CASE handler.type = "mount"
  <2>1. handler.root \in Seq(STRING)
    BY <1>1 DEF HandlerOK
  <2>2. handler.root \in Seq(Texts)
    BY <2>1, SeqMonotonic DEF Texts
  <2>3. q = [target |-> q.target, rel |-> q.rel, sourceRoot |-> q.sourceRoot,
             targetRoot |-> q.targetRoot, filter |-> q.filter, id |-> q.id]
    BY DEF IsRequest
  <2>4. m = [q EXCEPT !.sourceRoot = handler.root]
    BY <1>1 DEF MountRequest
  <2>5. m.target = q.target /\ m.rel = q.rel /\ m.filter = q.filter
        /\ m.sourceRoot = handler.root
    <3> HIDE DEF m
    <3> QED
      BY <2>3, <2>4
  <2> QED
    BY <1>1, <2>2, <2>5
<1>2. CASE handler.type # "mount"
  BY <1>2 DEF MountRequest
<1> QED
  BY <1>1, <1>2

---------------------------------------------------------------------------
(* Down a tree of providers.                                                 *)

\* One name down, from the provider at a path or from none.
Down(at, name) ==
    IF at = << >> \/ at[1].type = "file" THEN << >> ELSE ChildNamed(at[1], name)

Descended(top, rel) == FoldLeft(LAMBDA at, name : Down(at, name), top, rel)

\* h holds what there is after each name.
Descends(h, top, rel, n) ==
    /\ h[0] = top
    /\ \A k \in 0..(n - 1) : h[k + 1] = Down(h[k], rel[k + 1])
    /\ Descended(top, rel) = h[n]

LEMMA DownSteps ==
    ASSUME NEW S, NEW top \in S, NEW n \in Nat, NEW rel, DOMAIN rel = 1..n,
           \A at \in S, i \in 1..n : Down(at, rel[i]) \in S
    PROVE  \E h : Descends(h, top, rel, n)
<1> DEFINE step == [p \in S \X (Nat \ {0}) |->
                       IF p[2] \in 1..n THEN Down(p[1], rel[p[2]]) ELSE p[1]]
           Folds(g) == g = [s \in SUBSET DOMAIN rel |->
                               IF s = {} THEN top ELSE Down(g[s \ {Max(s)}], rel[Max(s)])]
           iter == CHOOSE g : Folds(g)
<1>1. step \in [S \X (Nat \ {0}) -> S]
  OBVIOUS
<1>2. PICK g \in [SUBSET (1..n) -> S] : FoldsSets(g, top, step, n)
  <2> HIDE DEF step
  <2> QED
    BY <1>1, FoldExists
<1>3. Folds(g)
  <2>1. ASSUME NEW s \in SUBSET (1..n), s # {}
        PROVE  step[<<g[s \ {Max(s)}], Max(s)>>] = Down(g[s \ {Max(s)}], rel[Max(s)])
    <3>1. Max(s) \in 1..n
      BY <2>1, MaxOK
    <3>2. g[s \ {Max(s)}] \in S
      BY <1>2
    <3> QED
      BY <3>1, <3>2
  <2> HIDE DEF step
  <2>2. \A s \in SUBSET (1..n) :
            g[s] = IF s = {} THEN top ELSE Down(g[s \ {Max(s)}], rel[Max(s)])
    BY <1>2, <2>1 DEF FoldsSets
  <2> QED
    BY <1>2, <2>2
<1>4. Folds(iter)
  <2> HIDE DEF Folds
  <2> QED
    BY <1>3
<1>5. Descended(top, rel) = iter[1..n]
  BY DEF Descended, FoldLeft, MapThenFoldSet
<1>6. \A s \in SUBSET (1..n) :
          iter[s] = IF s = {} THEN top ELSE Down(iter[s \ {Max(s)}], rel[Max(s)])
  <2> HIDE DEF iter
  <2> QED
    BY <1>4
<1> HIDE DEF iter, Folds
<1> DEFINE h == [k \in 0..n |-> iter[1..k]]
<1>7. h[0] = top /\ h[n] = iter[1..n]
  <2>1. 1..0 = {} /\ {} \in SUBSET (1..n)
    OBVIOUS
  <2>2. iter[1..0] = top
    BY <1>6, <2>1
  <2> QED
    BY <2>2
<1>8. ASSUME NEW k \in 0..(n - 1)
      PROVE  h[k + 1] = Down(h[k], rel[k + 1])
  <2> DEFINE s == 1..(k + 1)
  <2>1. k \in Nat /\ k + 1 \in 0..n /\ k \in 0..n
    OBVIOUS
  <2>2. Max(s) = k + 1 /\ s \ {k + 1} = 1..k
    BY <2>1, LastOfInterval
  <2>3. s \in SUBSET (1..n) /\ s # {}
    <3>1. s \subseteq 1..n /\ 1 \in s
      BY <2>1
    <3> HIDE DEF s
    <3> QED
      BY <3>1
  <2>4. h[k + 1] = iter[s] /\ h[k] = iter[1..k]
    BY <2>1
  <2> HIDE DEF s, h
  <2> QED
    BY <1>6, <2>2, <2>3, <2>4
<1> HIDE DEF h
<1>9. Descends(h, top, rel, n)
  BY <1>5, <1>7, <1>8 DEF Descends
<1> QED
  BY <1>9

\* A path with one name more leads one down from where the path leads.
LEMMA DownOne ==
    ASSUME NEW S, NEW top \in S, NEW T, NEW rel \in Seq(T), NEW x,
           \A at \in S : \A name : Down(at, name) \in S
    PROVE  /\ Descended(top, rel) \in S
           /\ Descended(top, Append(rel, x)) = Down(Descended(top, rel), x)
<1> DEFINE n == Len(rel)
           u == Append(rel, x)
<1>1. /\ n \in Nat /\ Len(u) = n + 1 /\ u \in Seq(T \cup {x})
      /\ \A i \in 1..n : u[i] = rel[i]
      /\ u[n + 1] = x
  BY AppendIs
<1>2. DOMAIN rel = 1..n /\ DOMAIN u = 1..(n + 1) /\ n + 1 \in Nat
  <2> HIDE DEF u
  <2> QED
    BY <1>1
<1> HIDE DEF n, u
<1>0. /\ \A at \in S, i \in 1..n : Down(at, rel[i]) \in S
      /\ \A at \in S, i \in 1..(n + 1) : Down(at, u[i]) \in S
  OBVIOUS
<1>11. (\E h : Descends(h, top, rel, n)) /\ (\E g : Descends(g, top, u, n + 1))
  <2>1. \E h : Descends(h, top, rel, n)
    BY <1>0, <1>1, <1>2, DownSteps
  <2>2. \E g : Descends(g, top, u, n + 1)
    BY <1>0, <1>2, DownSteps
  <2> QED
    BY <2>1, <2>2
<1>3. PICK h : Descends(h, top, rel, n)
  BY <1>11
<1>4. PICK g : Descends(g, top, u, n + 1)
  BY <1>11
<1> DEFINE Done == {k \in Nat : k <= n => h[k] = g[k] /\ h[k] \in S}
<1>5. 0 \in Done
  BY <1>3, <1>4 DEF Descends
<1>6. ASSUME NEW k \in Done PROVE k + 1 \in Done
  <2>1. k \in Nat /\ k + 1 \in Nat
    BY <1>6
  <2>2. CASE k + 1 <= n
    <3>1. k <= n /\ k \in 0..(n - 1) /\ k \in 0..((n + 1) - 1) /\ k + 1 \in 1..n
      BY <1>1, <2>1, <2>2
    <3>2. h[k] = g[k] /\ h[k] \in S
      BY <1>6, <3>1
    <3>3. h[k + 1] = Down(h[k], rel[k + 1])
      BY <1>3, <3>1 DEF Descends
    <3>4. g[k + 1] = Down(g[k], rel[k + 1])
      BY <1>1, <1>4, <3>1 DEF Descends
    <3> QED
      BY <2>1, <3>2, <3>3, <3>4
  <2>3. CASE ~(k + 1 <= n)
    BY <2>1, <2>3
  <2> QED
    BY <2>2, <2>3
<1>7. n \in Done
  <2>1. Done \in SUBSET Nat
    OBVIOUS
  <2> HIDE DEF Done
  <2> QED
    BY <1>1, <1>5, <1>6, <2>1, NatInd
<1>8. h[n] = g[n] /\ h[n] \in S
  BY <1>1, <1>7
<1>9. n \in 0..((n + 1) - 1)
  BY <1>1
<1>10. g[n + 1] = Down(g[n], x)
  BY <1>1, <1>4, <1>9 DEF Descends
<1> QED
  BY <1>1, <1>3, <1>4, <1>8, <1>10 DEF Descends, u

\* The name at the end of a path is its only one.
LEMMA SameName ==
    ASSUME NEW d \in Dirs, NEW x, NEW y, Append(d, x) = Append(d, y) PROVE x = y
<1>1. PICK S : d \in Seq(S)
  BY DEF Dirs
<1>2. Append(d, x)[Len(d) + 1] = x
  BY <1>1, AppendIs
<1>3. Append(d, y)[Len(d) + 1] = y
  BY <1>1, AppendIs
<1> QED
  BY <1>2, <1>3

---------------------------------------------------------------------------
(* What Virtual lists is what it resolves.                                   *)

\* A provider's children are providers with names of their own.
ProviderOK(p) ==
    /\ p.children \in Seq(Providers)
    /\ \A i, j \in DOMAIN p.children : p.children[i].name = p.children[j].name => i = j

\* Of a provider's children at most one has the name, and that is the answer.
OneNamed(p, name) ==
    \/ ChildNamed(p, name) = << >> /\ \A c \in ToSet(p.children) : c.name # name
    \/ \E c \in ToSet(p.children) :
           /\ ChildNamed(p, name) = <<c>> /\ c.name = name
           /\ \A d \in ToSet(p.children) : d.name = name => d = c

LEMMA ChildNamedIs ==
    ASSUME NEW p, ProviderOK(p), NEW name
    PROVE  OneNamed(p, name) /\ \A c \in ToSet(p.children) : c \in Providers
<1> DEFINE children == p.children
           n == Len(children)
           hits == {i \in DOMAIN children : children[i].name = name}
<1>1. n \in Nat /\ DOMAIN children = 1..n /\ \A i \in 1..n : children[i] \in Providers
  BY DEF ProviderOK
<1>2. \A i, j \in DOMAIN children : children[i].name = children[j].name => i = j
  BY DEF ProviderOK
<1>3. ToSet(children) = {children[i] : i \in DOMAIN children}
  BY DEF ToSet
<1>4. ChildNamed(p, name) = IF hits = {} THEN << >> ELSE <<children[Min(hits)]>>
  BY DEF ChildNamed
<1> HIDE DEF children, n
<1>5. CASE hits = {}
  <2>1. \A c \in ToSet(children) : c.name # name
    BY <1>3, <1>5
  <2> QED
    BY <1>1, <1>3, <1>4, <1>5, <2>1 DEF OneNamed, children
<1>6. ASSUME NEW i \in hits PROVE OneNamed(p, name)
  <2>1. i \in DOMAIN children /\ children[i].name = name /\ i \in Nat
    BY <1>1, <1>6
  <2>2. hits = {i}
    BY <1>2, <2>1
  <2>3. Min({i}) = i
    BY <2>1 DEF Min
  <2>4. ChildNamed(p, name) = <<children[i]>> /\ children[i] \in ToSet(children)
    BY <1>3, <1>4, <2>1, <2>2, <2>3
  <2>5. \A d \in ToSet(children) : d.name = name => d = children[i]
    BY <1>2, <1>3, <2>1
  <2> QED
    BY <2>1, <2>4, <2>5 DEF OneNamed, children
<1> QED
  BY <1>1, <1>3, <1>5, <1>6 DEF children

\* What answers at the top: a provider without a name, or one above it.
Top(provider) ==
    IF provider.name = Nameless THEN <<provider>>
    ELSE <<[name |-> Nameless, type |-> "dir", children |-> <<provider>>]>>

NoNode(provider, rel) == rel = Root /\ (provider.name # Nameless \/ provider.type = "file")

LEMMA ProviderAtIs ==
    ASSUME NEW provider, NEW rel
    PROVE  ProviderAt(provider, rel)
               = IF NoNode(provider, rel) THEN << >> ELSE Descended(Top(provider), rel)
BY DEF ProviderAt, NoNode, Top, Descended, Down


Reachable(provider) ==
    {<< >>} \cup {<<p>> : p \in Providers} \cup {Top(provider)}

LEMMA ReachableOK ==
    ASSUME NEW provider \in Providers
    PROVE  /\ \A at \in Reachable(provider) :
                  at = << >> \/ \E p : at = <<p>> /\ ProviderOK(p)
           /\ \A at \in Reachable(provider) : \A name : Down(at, name) \in Reachable(provider)
<1>1. \A p \in Providers : ProviderOK(p)
  BY HandlersAssumption DEF ProviderOK
<1>2. \E p : Top(provider) = <<p>> /\ ProviderOK(p)
  <2>1. CASE provider.name = Nameless
    BY <1>1, <2>1 DEF Top
  <2>2. CASE provider.name # Nameless
    <3> DEFINE p == [name |-> Nameless, type |-> "dir", children |-> <<provider>>]
    <3>1. p.children = <<provider>>
      OBVIOUS
    <3>2. Top(provider) = <<p>>
      BY <2>2 DEF Top
    <3> HIDE DEF p
    <3>3. ProviderOK(p)
      BY <3>1 DEF ProviderOK
    <3> QED
      BY <3>2, <3>3
  <2> QED
    BY <2>1, <2>2
<1>3. ASSUME NEW at \in Reachable(provider)
      PROVE  at = << >> \/ \E p : at = <<p>> /\ ProviderOK(p)
  <2> HIDE DEF Top, ProviderOK
  <2> QED
    BY <1>1, <1>2 DEF Reachable
<1>4. ASSUME NEW at \in Reachable(provider), NEW name
      PROVE  Down(at, name) \in Reachable(provider)
  <2>1. CASE at = << >> \/ at[1].type = "file"
    BY <2>1 DEF Down, Reachable
  <2>2. CASE ~(at = << >> \/ at[1].type = "file")
    <3>1. PICK p : at = <<p>> /\ ProviderOK(p)
      BY <1>3, <2>2
    <3>2. Down(at, name) = ChildNamed(p, name)
      BY <2>2, <3>1 DEF Down
    <3>3. OneNamed(p, name) /\ \A c \in ToSet(p.children) : c \in Providers
      BY <3>1, ChildNamedIs
    <3>4. Down(at, name) = << >> \/ \E c \in Providers : Down(at, name) = <<c>>
      BY <3>2, <3>3 DEF OneNamed
    <3> QED
      BY <3>4 DEF Reachable
  <2> QED
    BY <2>1, <2>2
<1> QED
  BY <1>3, <1>4

\* The nodes of a provider's children in the directory of a request.
ChildNode(q, c) == VirtualNode(Append(q.target, c.name), c)

ChildNodes(q, p) == {ChildNode(q, c) : c \in {d \in ToSet(p.children) : d.name # Nameless}}

LEMMA VirtualListed ==
    ASSUME NEW q, NEW provider, NEW at, at = ProviderAt(provider, q.rel)
    PROVE  LET listed == VirtualReadDir(q, provider)
           IN  /\ at = << >> \/ at[1].type = "file" => listed.nodes = {} /\ listed.err # "none"
               /\ \A p : at = <<p>> /\ p.type # "file" =>
                      /\ \A n \in listed.nodes :
                             n \in ChildNodes(q, p) /\ TargetDecision(q.filter, n) = "include"
                      /\ listed.err = "none" =>
                             \A n \in ChildNodes(q, p) :
                                 TargetDecision(q.filter, n) = "include" => n \in listed.nodes
<1> DEFINE listed == VirtualReadDir(q, provider)
           nodes == {VirtualNode(Append(q.target, child.name), child) :
                        child \in {x \in ToSet(at[1].children) : x.name # Nameless}}
           faulty == \E n \in nodes : TargetDecision(q.filter, n) = "error"
           shown == {n \in nodes : TargetDecision(q.filter, n) = "include"}
           all == Success(shown, {}, {q.sourceRoot}, {q.id})
<1>1. listed = IF at = << >> \/ at[1].type = "file" THEN Failure("notexist")
               ELSE IF faulty THEN Failure("other") ELSE all
  BY DEF VirtualReadDir
<1>2. all.nodes = shown
  BY DEF Success
<1>3. ASSUME NEW p, at = <<p>> PROVE nodes = ChildNodes(q, p)
  BY <1>3 DEF ChildNodes, ChildNode
<1>4. \A e : e # "none" => Failure(e).nodes = {} /\ Failure(e).err # "none"
  BY DEF Failure
<1>5. "notexist" # "none" /\ "other" # "none"
  OBVIOUS
<1> HIDE DEF listed, all, faulty, nodes
<1>6. ASSUME at = << >> \/ at[1].type = "file"
      PROVE  listed.nodes = {} /\ listed.err # "none"
  BY <1>1, <1>4, <1>5, <1>6
<1>7. ASSUME NEW p, at = <<p>>, p.type # "file"
      PROVE  /\ \A n \in listed.nodes :
                    n \in ChildNodes(q, p) /\ TargetDecision(q.filter, n) = "include"
             /\ listed.err = "none" =>
                    \A n \in ChildNodes(q, p) :
                        TargetDecision(q.filter, n) = "include" => n \in listed.nodes
  <2>1. nodes = ChildNodes(q, p)
    BY <1>3, <1>7
  <2>2. (listed.nodes = {} /\ listed.err # "none") \/ listed.nodes = shown
    BY <1>1, <1>2, <1>4, <1>5, <1>7
  <2> QED
    BY <2>1, <2>2
<1> QED
  BY <1>6, <1>7 DEF listed

LEMMA VirtualBelow ==
    ASSUME NEW q, NEW provider \in Providers, q.rel \in Dirs,
           NEW n \in VirtualReadDir(q, provider).nodes
    PROVE  OneBelow(n.path, q.target)
<1> DEFINE at == ProviderAt(provider, q.rel)
<1>1. at = << >> \/ \E p : at = <<p>>
  <2>1. Descended(Top(provider), q.rel) \in Reachable(provider)
    <3>1. Top(provider) \in Reachable(provider)
      BY DEF Reachable
    <3>2. \A r \in Reachable(provider) : \A name : Down(r, name) \in Reachable(provider)
      BY ReachableOK
    <3> QED
      BY <3>1, <3>2, DownOne DEF Dirs
  <2>2. at \in Reachable(provider)
    BY <2>1, ProviderAtIs DEF Reachable
  <2> QED
    BY <2>2, ReachableOK
<1>2. PICK p : at = <<p>> /\ p.type # "file"
  BY <1>1, VirtualListed
<1>3. n \in ChildNodes(q, p)
  BY <1>2, VirtualListed
<1>4. PICK c : n = ChildNode(q, c)
  BY <1>3 DEF ChildNodes
<1>5. n.path = Append(q.target, c.name)
  BY <1>4 DEF ChildNode, VirtualNode
<1> QED
  BY <1>5 DEF OneBelow

LEMMA VirtualAgrees ==
    ASSUME NEW q, q.target \in Dirs, q.rel \in Dirs, NEW provider \in Providers,
           NEW q2, NEW x, q2.target = Append(q.target, x), q2.rel = Append(q.rel, x),
           q2.filter = q.filter
    PROVE  Agrees(VirtualReadDir(q, provider), VirtualResolve(q2, provider), q2.target, x)
<1> DEFINE listed == VirtualReadDir(q, provider)
           resolved == VirtualResolve(q2, provider)
           at == ProviderAt(provider, q.rel)
           at2 == ProviderAt(provider, q2.rel)
           node == VirtualNode(q2.target, at2[1])
           decision == TargetDecision(q2.filter, node)
           included == decision = "include"
<1>1. /\ q2.rel # Root
      /\ q2.target = Append(q.target, x) /\ q.target \in Dirs /\ q2.filter = q.filter
  <2>1. Append(q.rel, x) # Root
    BY OneMore
  <2> QED
    BY <2>1
<1>2. /\ at # << >> => at2 = Down(at, x)
      /\ at \in Reachable(provider)
  <2>1. PICK S : q.rel \in Seq(S)
    BY DEF Dirs
  <2>2. /\ Top(provider) \in Reachable(provider)
        /\ \A r \in Reachable(provider) : \A name : Down(r, name) \in Reachable(provider)
    BY ReachableOK DEF Reachable
  <2>3. /\ Descended(Top(provider), q.rel) \in Reachable(provider)
        /\ Descended(Top(provider), Append(q.rel, x)) = Down(Descended(Top(provider), q.rel), x)
    BY <2>1, <2>2, DownOne
  <2>4. at2 = Descended(Top(provider), q2.rel)
    BY <1>1, ProviderAtIs DEF NoNode
  <2>5. at = << >> \/ at = Descended(Top(provider), q.rel)
    BY ProviderAtIs
  <2>6. << >> \in Reachable(provider)
    BY DEF Reachable
  <2> HIDE DEF at, at2
  <2> QED
    BY <2>3, <2>4, <2>5, <2>6
<1>3. /\ at2 = << >> => resolved.nodes = {} /\ resolved.err # "none"
      /\ at2 # << >> /\ included => resolved.nodes = {node} /\ resolved.err = "none"
      /\ at2 # << >> /\ ~included => resolved.nodes = {} /\ resolved.err # "none"
  <2>1. resolved = IF at2 = << >> THEN Failure("notexist")
                   ELSE FilteredNode(q2, node, {q2.sourceRoot})
    BY DEF VirtualResolve
  <2>2. Failure("notexist").nodes = {} /\ Failure("notexist").err # "none"
    BY DEF Failure
  <2>3. LET answer == FilteredNode(q2, node, {q2.sourceRoot})
        IN  /\ TargetDecision(q2.filter, node) = "include" =>
                   answer.nodes = {node} /\ answer.err = "none"
            /\ TargetDecision(q2.filter, node) # "include" =>
                   answer.nodes = {} /\ answer.err # "none"
    BY ResolvedNode
  <2> HIDE DEF resolved, node, at2
  <2> QED
    BY <2>1, <2>2, <2>3
<1>4. node.path = q2.target
  BY DEF VirtualNode
<1>5. \A c : c.name = x => ChildNode(q, c) = VirtualNode(q2.target, c)
  BY <1>1 DEF ChildNode
<1> HIDE DEF listed, resolved, at, at2, node, decision
<1>6. CASE at = << >> \/ at[1].type = "file"
  <2>1. listed.nodes = {} /\ listed.err # "none"
    BY <1>6, VirtualListed DEF listed, at
  <2> QED
    BY <1>3, <2>1 DEF Agrees, listed, resolved
<1>7. CASE ~(at = << >> \/ at[1].type = "file")
  <2>1. PICK p : at = <<p>> /\ ProviderOK(p)
    BY <1>2, <1>7, ReachableOK
  <2>2. at2 = ChildNamed(p, x)
    BY <1>2, <1>7, <2>1 DEF Down
  <2>3. OneNamed(p, x)
    BY <2>1, ChildNamedIs
  <2>4. p.type # "file"
    BY <1>7, <2>1
  <2>5. /\ \A n \in listed.nodes :
               n \in ChildNodes(q, p) /\ TargetDecision(q.filter, n) = "include"
        /\ listed.err = "none" =>
               \A n \in ChildNodes(q, p) :
                   TargetDecision(q.filter, n) = "include" => n \in listed.nodes
    BY <2>1, <2>4, VirtualListed DEF listed, at
  <2>6. ASSUME NEW n \in listed.nodes, n.path = q2.target PROVE resolved.nodes = {n}
    <3>1. n \in ChildNodes(q, p) /\ TargetDecision(q.filter, n) = "include"
      BY <2>5
    <3>2. PICK c \in ToSet(p.children) : n = ChildNode(q, c)
      BY <3>1 DEF ChildNodes
    <3>3. n.path = Append(q.target, c.name)
      BY <3>2 DEF ChildNode, VirtualNode
    <3>4. c.name = x
      BY <1>1, <2>6, <3>3, SameName
    <3>5. at2 = <<c>>
      BY <2>2, <2>3, <3>4 DEF OneNamed
    <3>6. node = n
      BY <1>5, <3>2, <3>4, <3>5 DEF node
    <3>7. included
      BY <1>1, <3>1, <3>6 DEF decision
    <3> QED
      BY <1>3, <3>5, <3>6, <3>7
  <2>7. ASSUME listed.err = "none", x # "", NEW n \in resolved.nodes
        PROVE  n.path = q2.target /\ n \in listed.nodes
    <3>1. at2 # << >> /\ included /\ n = node
      BY <1>3, <2>7
    <3>2. PICK c \in ToSet(p.children) : at2 = <<c>> /\ c.name = x
      BY <2>2, <2>3, <3>1 DEF OneNamed
    <3>3. n = ChildNode(q, c)
      BY <1>5, <3>1, <3>2 DEF node
    <3>4. c.name # Nameless
      BY <2>7, <3>2 DEF Nameless
    <3>5. n \in ChildNodes(q, p)
      BY <3>3, <3>4 DEF ChildNodes
    <3>6. TargetDecision(q.filter, n) = "include"
      BY <1>1, <3>1 DEF decision
    <3> QED
      BY <1>4, <2>5, <2>7, <3>1, <3>5, <3>6
  <2> QED
    BY <1>3, <2>6, <2>7 DEF Agrees, listed, resolved
<1> QED
  BY <1>6, <1>7

---------------------------------------------------------------------------
(* What any handler lists is what it resolves.                               *)

LEMMA HandlerAgrees ==
    ASSUME NEW route, Lists(route), HandlerOK(route.handler), NEW tree \in Trees,
           NEW q, RequestOK(q), NEW q2, NEW x, EntryRequest(q, q2, x)
    PROVE  Agrees(HandlerReadDir(route.handler, q, tree, InfosOf(tree, tree)),
                  HandlerResolve(route.handler, q2, tree), Append(q.target, x), x)
<1> DEFINE handler == route.handler
           listed == HandlerReadDir(handler, q, tree, InfosOf(tree, tree))
           resolved == HandlerResolve(handler, q2, tree)
<1>1. /\ q.target \in Dirs /\ q.rel \in Dirs /\ q.sourceRoot \in Seq(Texts)
      /\ q2.target = Append(q.target, x) /\ q2.rel = Append(q.rel, x)
      /\ q2.filter = q.filter /\ q2.sourceRoot = q.sourceRoot
      /\ IsRequest(q) /\ IsRequest(q2)
  BY DEF RequestOK, EntryRequest, SameRoots
<1>2. CASE handler.type \in Materializing
  <2>1. /\ listed = MaterializedReadDir(handler, q, tree)
        /\ resolved = MaterializedResolve(handler, q2, tree)
    BY <1>2 DEF HandlerReadDir, HandlerResolve, Materializing
  <2> HIDE DEF listed, resolved
  <2>2. Agrees(listed, resolved, q2.target, x)
    BY <1>2, <2>1, MaterializedAgrees
  <2> QED
    BY <1>1, <2>2 DEF listed, resolved
<1>3. CASE handler.type = "virtual"
  <2>1. handler.type \notin Materializing
    BY <1>3 DEF Materializing
  <2>2. /\ listed = VirtualReadDir(q, handler.provider)
        /\ resolved = VirtualResolve(q2, handler.provider)
    BY <1>3, <2>1 DEF HandlerReadDir, HandlerResolve
  <2>3. handler.provider \in Providers
    BY <1>3 DEF HandlerOK
  <2> HIDE DEF listed, resolved, handler
  <2>4. Agrees(listed, resolved, q2.target, x)
    BY <1>1, <2>2, <2>3, VirtualAgrees
  <2> QED
    BY <1>1, <2>4 DEF listed, resolved, handler
<1>4. CASE handler.type \notin Materializing \cup {"virtual"}
  <2> DEFINE m == MountRequest(handler, q)
             m2 == MountRequest(handler, q2)
  <2>1. listed = IdentityReadDir(m, tree, InfosOf(tree, tree)) /\ resolved = IdentityResolve(m2, tree)
    BY <1>4 DEF HandlerReadDir, HandlerResolve
  <2>2. /\ m.target = q.target /\ m.rel = q.rel /\ m.filter = q.filter
        /\ m.sourceRoot \in Seq(Texts)
        /\ m.sourceRoot = IF handler.type = "mount" THEN handler.root ELSE q.sourceRoot
    BY <1>1, MountRequestIs
  <2>3. /\ m2.target = q2.target /\ m2.rel = q2.rel /\ m2.filter = q2.filter
        /\ m2.sourceRoot = IF handler.type = "mount" THEN handler.root ELSE q2.sourceRoot
    BY <1>1, MountRequestIs
  <2> HIDE DEF listed, resolved, handler, m, m2
  <2>4. /\ m.target \in Dirs /\ m.rel \in Dirs /\ m.sourceRoot \in Seq(Texts)
        /\ m2.target = Append(m.target, x) /\ m2.rel = Append(m.rel, x)
        /\ m2.sourceRoot = m.sourceRoot /\ m2.filter = m.filter
    BY <1>1, <2>2, <2>3
  <2>5. Agrees(listed, resolved, m2.target, x)
    BY <2>1, <2>4, IdentityAgrees
  <2> QED
    BY <1>1, <2>3, <2>5 DEF listed, resolved, handler
<1> QED
  BY <1>2, <1>3, <1>4

LEMMA HandlerBelow ==
    ASSUME NEW route, Lists(route), HandlerOK(route.handler), NEW first \in Trees,
           NEW last, NEW q, RequestOK(q),
           NEW n \in HandlerReadDir(route.handler, q, first, InfosOf(first, last)).nodes
    PROVE  OneBelow(n.path, q.target)
<1> DEFINE handler == route.handler
<1>1. /\ q.target \in Dirs /\ q.rel \in Dirs /\ q.sourceRoot \in Seq(Texts) /\ IsRequest(q)
  BY DEF RequestOK
<1>2. CASE handler.type \in Materializing
  <2>1. n \in MaterializedReadDir(handler, q, first).nodes
    BY <1>2 DEF HandlerReadDir, Materializing
  <2> QED
    BY <1>2, <2>1, MaterializedBelow
<1>3. CASE handler.type = "virtual"
  <2>1. handler.type \notin Materializing
    BY <1>3 DEF Materializing
  <2>2. n \in VirtualReadDir(q, handler.provider).nodes
    BY <1>3, <2>1 DEF HandlerReadDir
  <2>3. handler.provider \in Providers
    BY <1>3 DEF HandlerOK
  <2> HIDE DEF handler
  <2> QED
    BY <1>1, <2>2, <2>3, VirtualBelow
<1>4. CASE handler.type \notin Materializing \cup {"virtual"}
  <2> DEFINE m == MountRequest(handler, q)
  <2>1. n \in IdentityReadDir(m, first, InfosOf(first, last)).nodes
    BY <1>4 DEF HandlerReadDir
  <2>2. m.target = q.target
    BY <1>1, MountRequestIs
  <2> HIDE DEF m
  <2>3. m.target \in Dirs
    BY <1>1, <2>2
  <2>4. OneBelow(n.path, m.target)
    BY <2>1, <2>3, IdentityBelow
  <2> QED
    BY <2>2, <2>4
<1> QED
  BY <1>2, <1>3, <1>4

\* What was listed over two moments resolves in one of them.
LEMMA HandlerAgreesLater ==
    ASSUME NEW route, Lists(route), HandlerOK(route.handler),
           NEW first \in Trees, NEW last \in Trees,
           NEW q, RequestOK(q), NEW q2, NEW x, EntryRequest(q, q2, x),
           NEW n \in HandlerReadDir(route.handler, q, first, InfosOf(first, last)).nodes,
           n.path = Append(q.target, x)
    PROVE  \E tree \in {first, last} : Shows(HandlerResolve(route.handler, q2, tree), n)
<1> DEFINE handler == route.handler
           listed == HandlerReadDir(handler, q, first, InfosOf(first, last))
<1>1. /\ q.target \in Dirs /\ q.rel \in Dirs /\ q.sourceRoot \in Seq(Texts)
      /\ q2.target = Append(q.target, x) /\ q2.rel = Append(q.rel, x)
      /\ q2.filter = q.filter /\ q2.sourceRoot = q.sourceRoot
      /\ IsRequest(q) /\ IsRequest(q2)
  BY DEF RequestOK, EntryRequest, SameRoots
<1>2. CASE handler.type \in Materializing \cup {"virtual"}
  <2>1. listed = HandlerReadDir(handler, q, first, InfosOf(first, first))
    BY <1>2 DEF HandlerReadDir, Materializing
  <2>2. Agrees(HandlerReadDir(handler, q, first, InfosOf(first, first)),
               HandlerResolve(handler, q2, first), Append(q.target, x), x)
    BY HandlerAgrees
  <2>3. n \in listed.nodes
    OBVIOUS
  <2> HIDE DEF listed, handler
  <2>4. Shows(HandlerResolve(handler, q2, first), n)
    BY <2>1, <2>2, <2>3 DEF Agrees, Shows
  <2> QED
    BY <2>4 DEF handler
<1>3. CASE handler.type \notin Materializing \cup {"virtual"}
  <2> DEFINE m == MountRequest(handler, q)
             m2 == MountRequest(handler, q2)
  <2>1. listed = IdentityReadDir(m, first, InfosOf(first, last))
        /\ HandlerResolve(handler, q2, last) = IdentityResolve(m2, last)
    BY <1>3 DEF HandlerReadDir, HandlerResolve
  <2>2. /\ m.target = q.target /\ m.rel = q.rel /\ m.filter = q.filter
        /\ m.sourceRoot \in Seq(Texts)
        /\ m.sourceRoot = IF handler.type = "mount" THEN handler.root ELSE q.sourceRoot
    BY <1>1, MountRequestIs
  <2>3. /\ m2.target = q2.target /\ m2.rel = q2.rel /\ m2.filter = q2.filter
        /\ m2.sourceRoot = IF handler.type = "mount" THEN handler.root ELSE q2.sourceRoot
    BY <1>1, MountRequestIs
  <2>4. n \in listed.nodes /\ n.path = Append(q.target, x)
    OBVIOUS
  <2> HIDE DEF listed, handler, m, m2
  <2>5. /\ m.target \in Dirs /\ m.rel \in Dirs /\ m.sourceRoot \in Seq(Texts)
        /\ m2.target = Append(m.target, x) /\ m2.rel = Append(m.rel, x)
        /\ m2.sourceRoot = m.sourceRoot /\ m2.filter = m.filter
        /\ n \in IdentityReadDir(m, first, InfosOf(first, last)).nodes /\ n.path = m2.target
    BY <1>1, <2>1, <2>2, <2>3, <2>4
  <2>6. Shows(IdentityResolve(m2, last), n)
    BY <2>5, IdentityAgreesLater
  <2> QED
    BY <2>1, <2>6 DEF handler
<1> QED
  BY <1>2, <1>3

---------------------------------------------------------------------------
(* The route that owns two paths, one directly below the other.              *)

\* A route of the router owns the path, and what it says of it.
OwnedBy(r, t, route) ==
    /\ Owned(r, t) /\ OwnerOf(r, t) = route
    /\ Matches(route.pattern, t)
    /\ Lists(route) /\ HandlerOK(route.handler) /\ RouteTyped(route)

LEMMA OwnerIs ==
    ASSUME NEW r, RouterOK(r.routes), NEW t, Len(t) \in Nat, Owned(r, t)
    PROVE  OwnedBy(r, t, OwnerOf(r, t))
<1> DEFINE routes == r.routes
           best == BestMatch(routes, t)
<1>1. DOMAIN routes = 1..Len(routes) /\ Len(routes) \in Nat
  BY DEF RouterOK
<1>2. best \in DOMAIN routes /\ OwnerOf(r, t) = routes[best]
  BY DEF Owned, OwnerOf
<1>3. BestOf(routes, t, best, Len(routes))
  BY BestMatchIsBest
<1> HIDE DEF best, routes
<1>4. best # NoRoute
  BY <1>1, <1>2 DEF NoRoute
<1>5. Matches(routes[best].pattern, t)
  BY <1>3, <1>4 DEF BestOf
<1>6. Lists(routes[best]) /\ HandlerOK(routes[best].handler) /\ RouteTyped(routes[best])
  BY <1>2 DEF RouterOK, routes
<1> QED
  BY <1>2, <1>5, <1>6 DEF OwnedBy

LEMMA OwnAnswers ==
    ASSUME NEW r, RouterOK(r.routes), NEW t, NEW route, OwnedBy(r, t, route),
           NEW tree, NEW later
    PROVE  /\ Resolve(r, Global, tree, t) =
                  IF CanRequest(route, MatchOf(route.pattern, t))
                  THEN HandlerResolve(route.handler, RequestFor(Global, route, t), tree)
                  ELSE Failure("notexist")
           /\ OwnListing(r, Global, tree, later, t) =
                  IF CanRequest(route, MatchOf(route.pattern, t))
                  THEN HandlerReadDir(route.handler, RequestFor(Global, route, t), tree, later)
                  ELSE Failure("notexist")
<1> DEFINE best == BestMatch(r.routes, t)
<1>1. best \in DOMAIN r.routes /\ route = r.routes[best]
  BY DEF OwnedBy, Owned, OwnerOf
<1>2. best # NoRoute /\ best # Ambiguous
  BY <1>1 DEF RouterOK, NoRoute, Ambiguous
<1>3. Resolve(r, Global, tree, t) =
          IF CanRequest(route, MatchOf(route.pattern, t))
          THEN HandlerResolve(route.handler, RequestFor(Global, route, t), tree)
          ELSE Failure("notexist")
  BY <1>1, <1>2 DEF Resolve
<1>4. OwnListing(r, Global, tree, later, t) =
          IF CanRequest(route, MatchOf(route.pattern, t))
          THEN HandlerReadDir(route.handler, RequestFor(Global, route, t), tree, later)
          ELSE Failure("notexist")
  BY <1>1, <1>2 DEF OwnListing
<1> QED
  BY <1>3, <1>4

\* The owner of a directory and of a path directly in it answers about both alike.
LEMMA OwnerAgrees ==
    ASSUME NEW r, RouterOK(r.routes), NEW t \in Dirs, NEW x, NEW tree \in Trees,
           NEW route, OwnedBy(r, t, route), OwnedBy(r, Append(t, x), route)
    PROVE  Agrees(OwnListing(r, Global, tree, InfosOf(tree, tree), t),
                  Resolve(r, Global, tree, Append(t, x)), Append(t, x), x)
<1> DEFINE u == Append(t, x)
           q == RequestFor(Global, route, t)
           q2 == RequestFor(Global, route, u)
           listed == OwnListing(r, Global, tree, InfosOf(tree, tree), t)
           resolved == Resolve(r, Global, tree, u)
<1>1. /\ RouteTyped(route) /\ Matches(route.pattern, t) /\ Matches(route.pattern, u)
      /\ Lists(route) /\ HandlerOK(route.handler)
  BY DEF OwnedBy
<1>2. /\ EntryRequest(q, q2, x)
      /\ CanRequest(route, MatchOf(route.pattern, u)) = CanRequest(route, MatchOf(route.pattern, t))
  BY <1>1, ChildRequest
<1> HIDE DEF u
<1>3. CASE CanRequest(route, MatchOf(route.pattern, t))
  <2>1. RequestOK(q) /\ q.target = t
    BY <1>1, <1>3, RequestIs
  <2>2. listed = HandlerReadDir(route.handler, q, tree, InfosOf(tree, tree))
    BY <1>3, OwnAnswers
  <2>3. resolved = HandlerResolve(route.handler, q2, tree)
    BY <1>2, <1>3, OwnAnswers DEF u
  <2> HIDE DEF q, q2
  <2>4. Agrees(HandlerReadDir(route.handler, q, tree, InfosOf(tree, tree)),
               HandlerResolve(route.handler, q2, tree), Append(q.target, x), x)
    BY <1>1, <1>2, <2>1, HandlerAgrees
  <2> HIDE DEF listed, resolved
  <2> QED
    BY <2>1, <2>2, <2>3, <2>4 DEF u, listed, resolved
<1>4. CASE ~CanRequest(route, MatchOf(route.pattern, t))
  <2>1. listed = Failure("notexist") /\ resolved = Failure("notexist")
    BY <1>2, <1>4, OwnAnswers DEF u
  <2> HIDE DEF listed, resolved
  <2>2. Agrees(listed, resolved, u, x)
    BY <2>1 DEF Agrees, Failure
  <2> QED
    BY <2>2 DEF u, listed, resolved
<1> QED
  BY <1>3, <1>4

\* A node that the owner of a path lists is one name below it.
LEMMA OwnBelow ==
    ASSUME NEW r, RouterOK(r.routes), NEW t \in Dirs, NEW first \in Trees, NEW last,
           NEW route, OwnedBy(r, t, route),
           NEW n \in OwnListing(r, Global, first, InfosOf(first, last), t).nodes
    PROVE  OneBelow(n.path, t)
<1> DEFINE q == RequestFor(Global, route, t)
<1>1. RouteTyped(route) /\ Matches(route.pattern, t) /\ Lists(route) /\ HandlerOK(route.handler)
  BY DEF OwnedBy
<1>2. CanRequest(route, MatchOf(route.pattern, t))
  <2>1. Failure("notexist").nodes = {}
    BY DEF Failure
  <2> QED
    BY <2>1, OwnAnswers
<1>3. RequestOK(q) /\ q.target = t
  BY <1>1, <1>2, RequestIs
<1>4. n \in HandlerReadDir(route.handler, q, first, InfosOf(first, last)).nodes
  BY <1>2, OwnAnswers
<1> HIDE DEF q
<1>5. OneBelow(n.path, q.target)
  BY <1>1, <1>3, <1>4, HandlerBelow
<1> QED
  BY <1>3, <1>5

\* And resolves at one of the moments of the listing.
LEMMA OwnerAgreesLater ==
    ASSUME NEW r, RouterOK(r.routes), NEW t \in Dirs, NEW x,
           NEW first \in Trees, NEW last \in Trees,
           NEW route, OwnedBy(r, t, route), OwnedBy(r, Append(t, x), route),
           NEW n \in OwnListing(r, Global, first, InfosOf(first, last), t).nodes,
           n.path = Append(t, x)
    PROVE  \E tree \in {first, last} : Shows(Resolve(r, Global, tree, Append(t, x)), n)
<1> DEFINE u == Append(t, x)
           q == RequestFor(Global, route, t)
           q2 == RequestFor(Global, route, u)
<1>1. /\ RouteTyped(route) /\ Matches(route.pattern, t) /\ Matches(route.pattern, u)
      /\ Lists(route) /\ HandlerOK(route.handler)
  BY DEF OwnedBy
<1>2. /\ EntryRequest(q, q2, x)
      /\ CanRequest(route, MatchOf(route.pattern, u)) = CanRequest(route, MatchOf(route.pattern, t))
  BY <1>1, ChildRequest
<1>3. CanRequest(route, MatchOf(route.pattern, t))
  <2>1. Failure("notexist").nodes = {}
    BY DEF Failure
  <2> QED
    BY <2>1, OwnAnswers
<1>4. RequestOK(q) /\ q.target = t
  BY <1>1, <1>3, RequestIs
<1>5. n \in HandlerReadDir(route.handler, q, first, InfosOf(first, last)).nodes
  BY <1>3, OwnAnswers
<1>6. \A tree : Resolve(r, Global, tree, u) = HandlerResolve(route.handler, q2, tree)
  BY <1>2, <1>3, OwnAnswers
<1> HIDE DEF q, q2, u
<1>7. \E tree \in {first, last} : Shows(HandlerResolve(route.handler, q2, tree), n)
  BY <1>1, <1>2, <1>4, <1>5, HandlerAgreesLater
<1> QED
  BY <1>6, <1>7 DEF u

(* Whatever the routes, handlers, filters and source trees: a node that the  *)
(* owner of a directory lists -- of the source, renamed, mapped, a category  *)
(* or virtual -- is the one node that resolving its path answers, in the     *)
(* tree of the names or in that of the infos, so what readDirNodes puts in   *)
(* the cache for a path is what resolve would.                               *)
THEOREM ListedIsResolved == RouteSetSpec => []ListedNodeIsResolvedNode
<1>1. RouteSetInv => ListedNodeIsResolvedNode
  <2> SUFFICES ASSUME RouteSetInv, NEW t \in Targets, NEW first \in Trees, NEW last \in Trees,
                      NEW n \in OwnListing(router, Global, first, InfosOf(first, last), t).nodes,
                      SameOwner(t, n.path)
               PROVE  \E tree \in {first, last} : Shows(Resolve(router, Global, tree, n.path), n)
    BY DEF ListedNodeIsResolvedNode, Shows
  <2> DEFINE r == router
             route == OwnerOf(r, t)
  <2>1. RouterOK(r.routes)
    BY DEF RouteSetInv, BuiltOK, router
  <2>2. t \in Dirs /\ Len(t) \in Nat
    BY TargetsAreClean
  <2>3. Owned(r, t) /\ Owned(r, n.path) /\ OwnerOf(r, n.path) = route
    BY DEF SameOwner
  <2> HIDE DEF r
  <2>4. OwnedBy(r, t, route)
    BY <2>1, <2>2, <2>3, OwnerIs
  <2>5. n \in OwnListing(r, Global, first, InfosOf(first, last), t).nodes
    BY DEF r
  <2> HIDE DEF route
  <2>6. PICK x : n.path = Append(t, x)
    <3>1. OneBelow(n.path, t)
      BY <2>1, <2>2, <2>4, <2>5, OwnBelow
    <3> QED
      BY <3>1 DEF OneBelow
  <2>7. Len(n.path) \in Nat
    <3>1. Len(t) \in Nat /\ Len(Append(t, x)) = Len(t) + 1
      BY <2>2, OneMore
    <3> QED
      BY <2>6, <3>1
  <2>8. OwnedBy(r, n.path, route)
    BY <2>1, <2>3, <2>7, OwnerIs
  <2>9. \E tree \in {first, last} : Shows(Resolve(r, Global, tree, Append(t, x)), n)
    BY <2>1, <2>2, <2>4, <2>5, <2>6, <2>8, OwnerAgreesLater
  <2> QED
    BY <2>6, <2>9 DEF r
<1> QED
  BY <1>1, RouteSetInvHolds, PTL

---------------------------------------------------------------------------
(* What is listed stays so through the merge.                                *)

\* A listing in the making has a path, unless it failed.
HasPath(merged, path) == \E m \in merged : m.node.path = path

Naming(acc, path) == acc.err = "none" => HasPath(acc.merged, path)

LEMMA NameOfEntry ==
    ASSUME NEW d \in Dirs, NEW x PROVE BaseName(Append(d, x)) = <<x>>
<1> DEFINE u == Append(d, x)
<1>1. PICK S : d \in Seq(S)
  BY DEF Dirs
<1>2. u # Root /\ Len(u) = Len(d) + 1
  BY OneMore
<1>3. u[Len(d) + 1] = x
  BY <1>1, AppendIs
<1> HIDE DEF u
<1>4. BaseName(u) = <<x>>
  BY <1>2, <1>3 DEF BaseName
<1> QED
  BY <1>4 DEF u

\* A route's next segment replaces only what has its path.
LEMMA MergeNames ==
    ASSUME NEW r, NEW merged, NEW parent \in Dirs, NEW x, NEW y, NEW next,
           next.node.path = Append(parent, y),
           HasPath(merged, Append(parent, x)), Merge(r, merged, next) # {}
    PROVE  HasPath(Merge(r, merged, next), Append(parent, x))
<1> DEFINE t == Append(parent, x)
           same == {m \in merged : BaseName(m.node.path) = BaseName(next.node.path)}
           swap == (merged \ same) \cup {next}
<1>1. Merge(r, merged, next) \in {swap, merged, {}}
  <2> HIDE DEF same
  <2> QED
    BY DEF Merge, same
<1>2. PICK m \in merged : m.node.path = t
  BY DEF HasPath
<1>3. ASSUME m \in same PROVE next.node.path = t
  <2>2. BaseName(Append(parent, x)) = <<x>>
    BY NameOfEntry
  <2>3. BaseName(Append(parent, y)) = <<y>>
    BY NameOfEntry
  <2>4. <<x>> = <<y>>
    BY <1>2, <1>3, <2>2, <2>3
  <2>5. x = y
    BY <2>4
  <2> QED
    BY <2>5
<1>4. HasPath(swap, t)
  <2>1. CASE m \in same
    BY <1>3, <2>1 DEF HasPath
  <2>2. CASE m \notin same
    <3>1. m \in swap
      BY <2>2
    <3> QED
      BY <1>2, <3>1 DEF HasPath
  <2> QED
    BY <2>1, <2>2
<1>5. HasPath(merged, t)
  OBVIOUS
<1> HIDE DEF swap
<1> QED
  BY <1>1, <1>4, <1>5

LEMMA AddRouteNames ==
    ASSUME NEW r, NEW parent \in Dirs, NEW x, NEW X, NEW route,
           ShownChild(route, parent) \in X,
           NEW acc \in [err : {"none", "conflict", "other"}, shown : SUBSET X, merged : SUBSET X],
           Naming(acc, Append(parent, x))
    PROVE  LET next == AddRoute(r, Global, parent, acc, route)
           IN  /\ next \in [err : {"none", "conflict", "other"}, shown : SUBSET X,
                            merged : SUBSET X]
               /\ Naming(next, Append(parent, x))
<1> DEFINE S == [err : {"none", "conflict", "other"}, shown : SUBSET X, merged : SUBSET X]
           next == AddRoute(r, Global, parent, acc, route)
           child == ShownChild(route, parent)
           merged == Merge(r, acc.merged, child)
           added == [acc EXCEPT !.merged = merged, !.shown = acc.shown \cup {child}]
           u == Append(parent, x)
<1>1. \/ next = acc
      \/ next \in {[acc EXCEPT !.err = "conflict"], [acc EXCEPT !.err = "other"]}
      \/ acc.err = "none" /\ merged # {} /\ next = added
  BY DEF AddRoute, AddChild
<1>2. /\ [acc EXCEPT !.err = "conflict"] \in S /\ [acc EXCEPT !.err = "conflict"].err # "none"
      /\ [acc EXCEPT !.err = "other"] \in S /\ [acc EXCEPT !.err = "other"].err # "none"
  OBVIOUS
<1>3. added \in S /\ added.err = acc.err /\ added.merged = merged
  <2>1. merged \subseteq acc.merged \cup {child}
    BY MergeAmong
  <2> HIDE DEF merged, child
  <2>2. merged \in SUBSET X /\ acc.shown \cup {child} \in SUBSET X
    BY <2>1 DEF child
  <2> QED
    BY <2>2
<1>4. \E y : child.node.path = Append(parent, y)
  BY DEF ShownChild, NextChild
<1> HIDE DEF next, added, child
<1>5. ASSUME acc.err = "none", merged # {} PROVE HasPath(merged, u)
  <2>1. HasPath(acc.merged, u)
    BY <1>5 DEF Naming
  <2>2. PICK y : child.node.path = Append(parent, y)
    BY <1>4
  <2> QED
    BY <1>5, <2>1, <2>2, MergeNames
<1> HIDE DEF merged, u
<1>6. Naming(acc, u)
  BY DEF u
<1>7. next \in S /\ Naming(next, u)
  BY <1>1, <1>2, <1>3, <1>5, <1>6 DEF Naming
<1> QED
  BY <1>7 DEF next, u

\* A path directly in a directory that is among some nodes.
Names(nodes, path) == \E n \in nodes : n.path = path

LEMMA MergedNames ==
    ASSUME NEW r, RouterOK(r.routes), NEW parent \in Dirs, NEW x, NEW owner, NEW own,
           Names(own.nodes, Append(parent, x)),
           MergedListing(r, Global, parent, owner, own).err \notin {"conflict", "other"}
    PROVE  Names(MergedListing(r, Global, parent, owner, own).nodes, Append(parent, x))
<1> DEFINE n == Len(r.routes)
           u == Append(parent, x)
           from == {[node |-> k, route |-> owner] : k \in own.nodes}
           X == from \cup {ShownChild(r.routes[i], parent) : i \in 1..n}
           S == [err : {"none", "conflict", "other"}, shown : SUBSET X, merged : SUBSET X]
           Good == {acc \in S : Naming(acc, u)}
           start == [err |-> "none", shown |-> {}, merged |-> from]
           result == Looped(r, Global, parent, start)
           listing == MergedListing(r, Global, parent, owner, own)
<1>1. n \in Nat /\ DOMAIN r.routes = 1..n
  BY DEF RouterOK
<1>2. start \in Good
  <2>1. start \in S
    OBVIOUS
  <2>2. PICK k \in own.nodes : k.path = u
    BY DEF Names
  <2>3. [node |-> k, route |-> owner] \in from /\ [node |-> k, route |-> owner].node.path = u
    BY <2>2
  <2>4. start.merged = from
    OBVIOUS
  <2> HIDE DEF from, start, S
  <2>5. Naming(start, u)
    BY <2>3, <2>4 DEF Naming, HasPath
  <2> QED
    BY <2>1, <2>5
<1>3. ASSUME NEW acc \in Good, NEW i \in 1..n
      PROVE  AddRoute(r, Global, parent, acc, r.routes[i]) \in Good
  <2>1. ShownChild(r.routes[i], parent) \in X
    OBVIOUS
  <2>2. acc \in S /\ Naming(acc, u)
    OBVIOUS
  <2> HIDE DEF X, u
  <2>3. LET next == AddRoute(r, Global, parent, acc, r.routes[i])
        IN  next \in S /\ Naming(next, u)
    BY <2>1, <2>2, AddRouteNames DEF u
  <2> QED
    BY <2>3
<1>4. result \in Good
  <2> HIDE DEF Good, start, n
  <2> QED
    BY <1>1, <1>2, <1>3, MergeStays
<1>5. listing = CASE result.err # "none" -> Failure(result.err)
                  [] result.err = "none" /\ result.merged = {} ->
                        Failure(IF own.err = "none" THEN "notexist" ELSE own.err)
                  [] OTHER ->
                        Success({m.node : m \in result.merged}, {},
                                own.sources \cup {m.node.source : m \in result.shown},
                                own.routes \cup {m.route.id : m \in result.shown})
  BY DEF MergedListing, Looped
<1>6. result.err \in {"none", "conflict", "other"} /\ Naming(result, u)
  <2> HIDE DEF X, result, u
  <2> QED
    BY <1>4
<1> HIDE DEF result
<1>7. result.err = "none"
  <2>1. ASSUME result.err # "none" PROVE FALSE
    <3>1. listing = Failure(result.err)
      BY <1>5, <2>1
    <3>2. listing.err = result.err
      BY <3>1 DEF Failure
    <3> QED
      BY <1>6, <2>1, <3>2
  <2> QED
    BY <2>1
<1>8. PICK m \in result.merged : m.node.path = u
  BY <1>6, <1>7 DEF Naming, HasPath
<1>9. listing.nodes = {k.node : k \in result.merged}
  <2>1. result.merged # {}
    BY <1>8
  <2> HIDE DEF listing
  <2> QED
    BY <1>5, <1>7, <2>1 DEF Success
<1> HIDE DEF listing, u
<1> QED
  BY <1>8, <1>9 DEF Names, listing, u

(* Whatever the routes, handlers, filters, conflict policy and source trees: *)
(* what resolves is found by walking. The owner of a path and of its parent  *)
(* lists the path there, and no merge with the patterns' next segments       *)
(* drops it, unless the listing fails.                                       *)
THEOREM ResolvableListed == RouteSetSpec => []ResolvableIsListed
<1>1. RouteSetInv => ResolvableIsListed
  <2> SUFFICES ASSUME RouteSetInv, NEW t \in Targets \ {Root}, NEW tree \in Trees,
                      SameOwner(t, ParentPath(t)),
                      Resolve(router, Global, tree, t).err = "none",
                      OwnListing(router, Global, tree, InfosOf(tree, tree), ParentPath(t)).err = "none",
                      ReadDir(router, Global, tree, InfosOf(tree, tree), ParentPath(t)).err
                          \notin {"conflict", "other"}
               PROVE  \E n \in ReadDir(router, Global, tree, InfosOf(tree, tree), ParentPath(t)).nodes :
                          n.path = t
    BY DEF ResolvableIsListed
  <2> DEFINE r == router
             parent == ParentPath(t)
             x == t[Len(t)]
             route == OwnerOf(r, parent)
             own == OwnListing(r, Global, tree, InfosOf(tree, tree), parent)
             resolved == Resolve(r, Global, tree, t)
             listing == ReadDir(r, Global, tree, InfosOf(tree, tree), parent)
  <2>1. RouterOK(r.routes)
    BY DEF RouteSetInv, BuiltOK, router
  <2>2. t \in Dirs /\ t # Root /\ Len(t) \in Nat /\ \A i \in 1..Len(t) : t[i] # ""
    BY TargetsAreClean
  <2>3. parent \in Dirs /\ t = Append(parent, x) /\ Len(parent) \in Nat
    <3>1. t \in Seq(STRING)
      BY <2>2 DEF Dirs
    <3>2. ParentPath(t) \in Seq(STRING) /\ t = Append(ParentPath(t), t[Len(t)])
      BY <2>2, <3>1, ParentAndName
    <3> QED
      BY <3>2 DEF Dirs
  <2>4. x # ""
    <3> DEFINE l == Len(t)
    <3>1. l \in 1..l
      <4>1. l = Len(parent) + 1
        BY <2>3, OneMore
      <4>2. l \in Nat
        BY <2>2
      <4> HIDE DEF l
      <4> QED
        BY <2>3, <4>1, <4>2
    <3> QED
      BY <2>2, <3>1
  <2>5. Owned(r, t) /\ Owned(r, parent) /\ OwnerOf(r, t) = route
    BY DEF SameOwner
  <2>6. resolved.err = "none" /\ own.err = "none" /\ listing.err \notin {"conflict", "other"}
    OBVIOUS
  <2> HIDE DEF r, parent, x
  <2>7. OwnedBy(r, parent, route) /\ OwnedBy(r, t, route)
    BY <2>1, <2>2, <2>3, <2>5, OwnerIs
  <2>8. Agrees(own, resolved, t, x)
    BY <2>1, <2>3, <2>7, OwnerAgrees
  <2>9. Names(own.nodes, t)
    BY <2>4, <2>6, <2>8 DEF Agrees, Names
  <2>10. listing = MergedListing(r, Global, parent, route, own)
    <3>1. BestMatch(r.routes, parent) # Ambiguous
      BY <2>1, <2>5 DEF Owned, RouterOK, Ambiguous
    <3>2. CanRequest(route, MatchOf(route.pattern, parent))
      <4>1. ASSUME ~CanRequest(route, MatchOf(route.pattern, parent)) PROVE FALSE
        <5>1. own = Failure("notexist")
          BY <2>1, <2>7, <4>1, OwnAnswers
        <5> HIDE DEF own
        <5> QED
          BY <2>6, <5>1 DEF Failure
      <4> QED
        BY <4>1
    <3> QED
      BY <3>1, <3>2 DEF ReadDir, OwnerOf
  <2> HIDE DEF own, resolved, listing, route
  <2>11. Names(listing.nodes, t)
    BY <2>1, <2>3, <2>6, <2>9, <2>10, MergedNames
  <2> QED
    BY <2>11 DEF Names, listing, parent, r
<1> QED
  BY <1>1, RouteSetInvHolds, PTL

---------------------------------------------------------------------------
(* Reverse mapping: what TargetPaths asks a route about a source path.       *)

\* A parameter has the value of its one binder.
LEMMA ValueOf ==
    ASSUME NEW segments \in Seq(RawParts), DistinctParams(segments), NEW parts,
           NEW i \in 1..Len(segments), segments[i].kind = "named"
    PROVE  LET params == BoundParams(segments, parts, Len(segments))
           IN  segments[i].text \in DOMAIN params /\ params[segments[i].text] = parts[i]
<1> DEFINE n == Len(segments)
           params == BoundParams(segments, parts, n)
           x == segments[i].text
<1>1. n \in Nat /\ n \in 0..Len(segments) /\ \A j \in 1..n : segments[j] \in RawParts
  BY ElementOfSeq
<1>2. Bound(params, segments, parts, n)
  BY <1>1, BoundIs
<1> HIDE DEF params, n
<1>3. DOMAIN params = {segments[j].text : j \in {k \in 1..n : segments[k].kind = "named"}}
  BY <1>2 DEF Bound
<1>4. x \in DOMAIN params
  BY <1>3 DEF n
<1>5. PICK j \in 1..n : segments[j].kind = "named" /\ segments[j].text = x /\ params[x] = parts[j]
  BY <1>2, <1>4 DEF Bound
<1>6. segments[j] = segments[i]
  <2>1. segments[i] \in RawParts /\ segments[j] \in RawParts
    BY <1>1 DEF n
  <2>2. \A a, b \in RawParts : a.kind = b.kind /\ a.text = b.text => a = b
    BY DEF RawParts
  <2>3. segments[j].kind = segments[i].kind /\ segments[j].text = segments[i].text
    BY <1>5
  <2> QED
    BY <2>1, <2>2, <2>3
<1>7. i = j
  BY <1>5, <1>6 DEF DistinctParams, n
<1> QED
  BY <1>4, <1>5, <1>7 DEF params, n

\* The first names of a path as a function.
LEMMA FirstIs ==
    ASSUME NEW S, NEW s \in Seq(S), NEW n \in 0..Len(s), NEW f, f = [i \in 1..n |-> s[i]]
    PROVE  SubSeq(s, 1, n) = f
<1>1. /\ SubSeq(s, 1, n) \in Seq(S) /\ Len(SubSeq(s, 1, n)) = n /\ n \in Nat
      /\ \A i \in 1..n : SubSeq(s, 1, n)[i] = s[i]
  BY FirstOf
<1> DEFINE first == SubSeq(s, 1, n)
<1> HIDE DEF first
<1>2. first \in Seq(S) /\ Len(first) = n /\ \A i \in 1..n : first[i] = s[i]
  BY <1>1 DEF first
<1>3. first \in [1..n -> S]
  BY <1>2
<1>4. first = f
  BY <1>2, <1>3
<1> QED
  BY <1>4 DEF first

LEMMA AskedIs ==
    ASSUME NEW route, RouteTyped(route), NEW s \in Dirs, CanMapBack(route, s)
    PROVE  LET qs == TargetPathsRequest(Global, route, s)
               n  == Len(route.source)
           IN  /\ n \in 0..Len(s) /\ n \in Nat
               /\ qs.sourceRoot = SubSeq(s, 1, n) /\ qs.rel = Below(s, n)
               /\ qs.targetRoot = TargetRoot(route.pattern, BoundParams(route.source, s, n))
               /\ qs.target = qs.targetRoot \o Below(s, n)
               /\ qs.filter = Global \o route.filter
               /\ qs.targetRoot \in Dirs /\ Len(qs.targetRoot) = PrefixLen(route.pattern)
<1> DEFINE qs == TargetPathsRequest(Global, route, s)
           source == route.source
           segments == route.pattern.segments
           n == Len(source)
           m == PrefixLen(route.pattern)
           params == BoundParams(source, s, n)
           root == TargetRoot(route.pattern, params)
<1>1. /\ segments \in Seq(RawParts) /\ source \in Seq(RawParts)
      /\ \A k \in 1..Len(segments) : segments[k].text \in STRING
  BY DEF RouteTyped
<1>2. /\ n \in Nat /\ Len(s) \in Nat /\ n <= Len(s) /\ n \in 0..Len(source)
      /\ m = Len(segments) /\ m \in Nat
  BY <1>1 DEF CanMapBack, MatchesSource, Dirs, PrefixLen
<1>3. /\ qs.sourceRoot = SubSeq(s, 1, n) /\ qs.rel = Below(s, n)
      /\ qs.targetRoot = root /\ qs.target = root \o Below(s, n)
      /\ qs.filter = Global \o route.filter
  BY DEF TargetPathsRequest, SourceMatchOf, JoinPath
<1>4. \A x \in DOMAIN params : params[x] \in STRING
  <2>1. Bound(params, source, s, n)
    BY <1>1, <1>2, BoundIs
  <2>2. \A i \in 1..n : s[i] \in STRING
    <3>1. \A i \in 1..Len(s) : s[i] \in STRING
      BY DEF Dirs
    <3>2. \A i \in 1..n : i \in 1..Len(s)
      BY <1>2
    <3> QED
      BY <3>1, <3>2
  <2> HIDE DEF params, n
  <2> QED
    BY <2>1, <2>2 DEF Bound
<1>5. HasTargetRoot(route.pattern, params)
  BY DEF CanMapBack, SourceMatchOf
<1> DEFINE value(i) == IF segments[i].kind = "static" THEN segments[i].text
                                                     ELSE params[segments[i].text]
<1>6. ASSUME NEW i \in 1..m PROVE value(i) \in STRING
  <2>1. \/ segments[i].kind = "static"
        \/ segments[i].kind = "named" /\ segments[i].text \in DOMAIN params
    BY <1>5 DEF HasTargetRoot
  <2>2. segments[i].text \in STRING
    BY <1>1, <1>2
  <2> HIDE DEF params
  <2> QED
    BY <1>4, <2>1, <2>2
<1>7. root = [i \in 1..m |-> value(i)]
  BY DEF TargetRoot
<1>8. root \in [1..m -> STRING]
  <2> HIDE DEF root, m, value
  <2> QED
    BY <1>6, <1>7
<1>9. root \in Dirs /\ Len(root) = m
  <2> HIDE DEF root, m
  <2> QED
    BY <1>2, <1>8, SeqDef DEF Dirs
<1> HIDE DEF qs
<1> QED
  BY <1>2, <1>3, <1>9 DEF qs

\* Below the target root of that request the route reads the source root of it.
LEMMA RoundTrip ==
    ASSUME NEW route, RouteTyped(route), NEW s \in Dirs, CanMapBack(route, s),
           DistinctParams(route.source), NEW t,
           CanRequest(route, MatchOf(route.pattern, t)),
           \A i \in 1..PrefixLen(route.pattern) :
               t[i] = TargetPathsRequest(Global, route, s).targetRoot[i]
    PROVE  RequestFor(Global, route, t).sourceRoot
               = TargetPathsRequest(Global, route, s).sourceRoot
<1> DEFINE qs == TargetPathsRequest(Global, route, s)
           source == route.source
           segments == route.pattern.segments
           n == Len(source)
           m == PrefixLen(route.pattern)
           params == BoundParams(source, s, n)
           params2 == BoundParams(segments, t, m)
           root == TargetRoot(route.pattern, params)
<1>1. /\ segments \in Seq(RawParts) /\ source \in Seq(RawParts)
      /\ \A k \in 1..n : source[k].kind \in {"static", "named"}
  BY DEF RouteTyped
<1>2. /\ n \in 0..Len(s) /\ n \in Nat /\ m \in Nat /\ m \in 0..Len(segments)
      /\ qs.sourceRoot = SubSeq(s, 1, n) /\ qs.targetRoot = root
  <2>1. m = Len(segments) /\ Len(segments) \in Nat
    BY <1>1 DEF PrefixLen
  <2>2. /\ n \in 0..Len(s) /\ n \in Nat
        /\ qs.sourceRoot = SubSeq(s, 1, n)
        /\ qs.targetRoot = TargetRoot(route.pattern, BoundParams(route.source, s, n))
    BY AskedIs
  <2> QED
    BY <2>1, <2>2
<1>3. RequestFor(Global, route, t).sourceRoot = Instantiate(source, params2)
  BY DEF RequestFor, MatchOf
<1>4. CanInstantiate(source, params2)
  BY DEF CanRequest, MatchOf
<1>5. Bound(params2, segments, t, m)
  BY <1>1, <1>2, BoundIs
<1>6. \A i \in 1..m : segments[i].kind = "named" => root[i] = params[segments[i].text]
  BY DEF TargetRoot
<1>7. \A i \in 1..m : t[i] = root[i]
  BY <1>2
<1>8. \A i \in 1..n : source[i].kind = "static" => source[i].text = s[i]
  BY DEF CanMapBack, MatchesSource, SegmentMatches
<1>9. \A i \in 1..n : source[i].kind = "named" => params[source[i].text] = s[i]
  BY <1>1, ValueOf
<1> HIDE DEF params, params2, root, qs, m
<1>10. ASSUME NEW i \in 1..n, source[i].kind = "named"
       PROVE  params2[source[i].text] = s[i]
  <2> DEFINE x == source[i].text
  <2>1. x \in DOMAIN params2
    BY <1>4, <1>10 DEF CanInstantiate
  <2>2. PICK j \in 1..m : /\ segments[j].kind = "named" /\ segments[j].text = x
                          /\ params2[x] = t[j]
    BY <1>5, <2>1 DEF Bound
  <2>3. t[j] = params[x]
    BY <1>6, <1>7, <2>2
  <2> QED
    BY <1>9, <1>10, <2>2, <2>3
<1>11. Instantiate(source, params2) = [i \in 1..n |-> s[i]]
  <2>1. \A i \in 1..n : (IF source[i].kind = "named" THEN params2[source[i].text]
                                                     ELSE source[i].text) = s[i]
    BY <1>1, <1>8, <1>10
  <2> QED
    BY <2>1 DEF Instantiate
<1>12. SubSeq(s, 1, n) = [i \in 1..n |-> s[i]]
  BY <1>2, FirstIs DEF Dirs
<1> QED
  BY <1>2, <1>3, <1>11, <1>12 DEF qs

\* An answer has all its fields.
IsAnswer(a) ==
    a = [err |-> a.err, nodes |-> a.nodes, paths |-> a.paths, cacheable |-> a.cacheable,
         ttl |-> a.ttl, sources |-> a.sources, routes |-> a.routes]

\* So have those of all the handlers.
LEMMA AnswersAre ==
    /\ \A e : IsAnswer(Failure(e))
    /\ \A nodes, paths, sources, routes : IsAnswer(Success(nodes, paths, sources, routes))
BY DEF IsAnswer, Failure, Success

LEMMA FilteredIsAnswer ==
    ASSUME NEW q, NEW node, NEW sources PROVE IsAnswer(FilteredNode(q, node, sources))
BY AnswersAre DEF FilteredNode, Filtered

LEMMA FromNodesIsAnswer ==
    ASSUME NEW q, NEW state, NEW wanted, NEW emptyIsMissing
    PROVE  IsAnswer(FromNodes(q, state, wanted, emptyIsMissing))
BY AnswersAre DEF FromNodes

LEMMA ResolveIsAnswer ==
    ASSUME NEW handler, NEW q, NEW tree PROVE IsAnswer(HandlerResolve(handler, q, tree))
<1>1. IsAnswer(MaterializedResolve(handler, q, tree))
  <2>1. IsAnswer(RootNode(q, tree))
    BY AnswersAre, FilteredIsAnswer DEF RootNode
  <2>2. \A state : IsAnswer(ResolvedIn(handler, q, state))
    BY FromNodesIsAnswer DEF ResolvedIn
  <2> QED
    BY <2>1, <2>2, AnswersAre DEF MaterializedResolve
<1>2. \A provider : IsAnswer(VirtualResolve(q, provider))
  BY AnswersAre, FilteredIsAnswer DEF VirtualResolve
<1>3. \A m : IsAnswer(IdentityResolve(m, tree))
  BY AnswersAre, FilteredIsAnswer DEF IdentityResolve
<1> QED
  BY <1>1, <1>2, <1>3 DEF HandlerResolve

\* What is left of an answer by SourcePaths, and by TargetPaths.
LEMMA SourcesOf ==
    ASSUME NEW a, IsAnswer(a)
    PROVE  SourcePathsOf(a).paths = {n.source : n \in a.nodes} \ {NoSource}
BY DEF IsAnswer, SourcePathsOf

PathsOf(answer) == [answer EXCEPT !.nodes = {}, !.paths = {n.path : n \in answer.nodes}]

LEMMA PathsAre ==
    ASSUME NEW a, IsAnswer(a)
    PROVE  /\ PathsOf(a).paths = {n.path : n \in a.nodes}
           /\ PathsOf(a).err = a.err
           /\ IsAnswer(PathsOf(a))
<1> DEFINE paths == {n.path : n \in a.nodes}
           b == PathsOf(a)
<1>1. b = [err |-> a.err, nodes |-> {}, paths |-> paths, cacheable |-> a.cacheable,
           ttl |-> a.ttl, sources |-> a.sources, routes |-> a.routes]
  <2>1. b = [a EXCEPT !.nodes = {}, !.paths = paths]
    BY DEF PathsOf
  <2> HIDE DEF b, paths
  <2> QED
    BY <2>1 DEF IsAnswer
<1> HIDE DEF b, paths
<1>2. /\ b.err = a.err /\ b.nodes = {} /\ b.paths = paths /\ b.cacheable = a.cacheable
      /\ b.ttl = a.ttl /\ b.sources = a.sources /\ b.routes = a.routes
  BY <1>1
<1> QED
  BY <1>1, <1>2 DEF IsAnswer, b, paths

\* The node that Identity looks at for a source path.
SourceNode(q, tree, s) == NodeFromFileInfo(q.target, s, tree[s])

\* The answer whose paths a handler maps a source path to.
Asked(handler, q, s, tree) ==
    IF handler.type \in Materializing THEN MappedFrom(q, s, Materialize(handler, q, tree))
    ELSE IF handler.type \in {"identity", "mount"} /\ Exists(tree, s)
    THEN FilteredNode(q, SourceNode(q, tree, s), {s})
    ELSE Failure("notexist")

\* And the paths that TargetPaths makes of it.
LEMMA TargetPathsAre ==
    ASSUME NEW handler, NEW q, NEW s, NEW tree
    PROVE  /\ IsAnswer(Asked(handler, q, s, tree))
           /\ HandlerTargetPaths(handler, q, s, tree) = PathsOf(Asked(handler, q, s, tree))
<1>1. IsAnswer(Asked(handler, q, s, tree))
  BY AnswersAre, FilteredIsAnswer, FromNodesIsAnswer DEF Asked, MappedFrom
<1>2. HandlerTargetPaths(handler, q, s, tree) = PathsOf(Asked(handler, q, s, tree))
  <2> DEFINE asked == CASE handler.type \in Materializing ->
                             MappedFrom(q, s, Materialize(handler, q, tree))
                        [] handler.type \in {"identity", "mount"} /\ Exists(tree, s) ->
                             FilteredNode(q, NodeFromFileInfo(q.target, s, tree[s]), {s})
                        [] OTHER -> Failure("notexist")
  <2>1. HandlerTargetPaths(handler, q, s, tree) = PathsOf(asked)
    BY DEF HandlerTargetPaths, PathsOf
  <2>2. asked = Asked(handler, q, s, tree)
    BY DEF Asked, SourceNode, Materializing
  <2> HIDE DEF asked
  <2> QED
    BY <2>1, <2>2
<1> QED
  BY <1>1, <1>2

\* The paths that a route maps a source path back to.
LEMMA MapBackIs ==
    ASSUME NEW route, NEW s, NEW tree
    PROVE  LET asked == Asked(route.handler, TargetPathsRequest(Global, route, s), s, tree)
               back  == MapBack(Global, route, tree, s)
           IN  /\ back.err = asked.err
               /\ back.paths = {t \in {n.path : n \in asked.nodes} : Matches(route.pattern, t)}
<1> DEFINE qs == TargetPathsRequest(Global, route, s)
           asked == Asked(route.handler, qs, s, tree)
           answer == PathsOf(asked)
           back == MapBack(Global, route, tree, s)
           kept == {t \in answer.paths : Matches(route.pattern, t)}
<1>1. HandlerTargetPaths(route.handler, qs, s, tree) = answer /\ IsAnswer(asked)
  BY TargetPathsAre
<1>2. /\ answer.paths = {n.path : n \in asked.nodes} /\ answer.err = asked.err
      /\ IsAnswer(answer)
  BY <1>1, PathsAre
<1>3. back = [answer EXCEPT !.paths = kept]
  BY <1>1 DEF MapBack
<1> HIDE DEF answer, back, asked, kept
<1>4. back.paths = kept /\ back.err = answer.err
  BY <1>2, <1>3 DEF IsAnswer
<1> QED
  BY <1>2, <1>4 DEF kept, asked, back

\* Two requests for the same source directory at the same target path.
SameRoute(q, q2) ==
    /\ q2.sourceRoot = q.sourceRoot /\ q2.targetRoot = q.targetRoot /\ q2.filter = q.filter

\* A path that starts as another.
LEMMA StartsAs ==
    ASSUME NEW S, NEW t \in Seq(S), NEW root \in Dirs, Len(root) <= Len(t),
           \A i \in 1..Len(root) : t[i] = root[i]
    PROVE  SubSeq(t, 1, Len(root)) = root
<1> DEFINE m == Len(root)
           first == SubSeq(t, 1, m)
           T == S \cup STRING
<1>1. m \in Nat /\ Len(t) \in Nat /\ m \in 0..Len(t)
  BY DEF Dirs
<1>2. first \in Seq(S) /\ Len(first) = m /\ \A i \in 1..m : first[i] = t[i]
  BY <1>1, FirstOf
<1>3. first \in Seq(T)
  BY <1>2, SeqMonotonic
<1>4. root \in Seq(T)
  BY SeqMonotonic DEF Dirs
<1>5. \A i \in 1..m : first[i] = root[i]
  BY <1>2
<1> HIDE DEF first, T
<1>6. first = root
  BY <1>2, <1>3, <1>4, <1>5, SeqEqual
<1> QED
  BY <1>6 DEF first

\* The request for a path that the route named for a source path.
LEMMA RequestBack ==
    ASSUME NEW route, RouteTyped(route), NEW s \in Dirs, CanMapBack(route, s),
           DistinctParams(route.source), NEW S, NEW t \in Seq(S),
           CanRequest(route, MatchOf(route.pattern, t)),
           PrefixLen(route.pattern) <= Len(t),
           \A i \in 1..PrefixLen(route.pattern) :
               t[i] = TargetPathsRequest(Global, route, s).targetRoot[i]
    PROVE  LET q2 == RequestFor(Global, route, t)
           IN  /\ SameRoute(TargetPathsRequest(Global, route, s), q2)
               /\ q2.target = t /\ q2.rel = Below(t, PrefixLen(route.pattern))
<1> DEFINE qs == TargetPathsRequest(Global, route, s)
           q2 == RequestFor(Global, route, t)
           m == PrefixLen(route.pattern)
           root == qs.targetRoot
<1>1. root \in Dirs /\ Len(root) = m /\ qs.filter = Global \o route.filter
  BY AskedIs
<1>2. q2.sourceRoot = qs.sourceRoot
  BY RoundTrip
<1>3. /\ q2.target = t /\ q2.rel = Below(t, m) /\ q2.targetRoot = SubSeq(t, 1, m)
      /\ q2.filter = Global \o route.filter
  BY DEF RequestFor, MatchOf
<1>4. m <= Len(t) /\ \A i \in 1..m : t[i] = root[i]
  OBVIOUS
<1> HIDE DEF qs, q2, root, m
<1>5. SubSeq(t, 1, m) = root
  BY <1>1, <1>4, StartsAs
<1>6. SameRoute(qs, q2)
  BY <1>1, <1>2, <1>3, <1>5 DEF SameRoute, root
<1> QED
  BY <1>3, <1>6 DEF qs, q2, m

\* A node that the materialization has for a source path.
LEMMA MappedNodes ==
    ASSUME NEW route, Lists(route), HandlerOK(route.handler),
           route.handler.type \in Materializing, NEW tree \in Trees,
           NEW q, q.targetRoot \in Dirs, NEW s,
           NEW n \in MappedFrom(q, s, Materialize(route.handler, q, tree)).nodes
    PROVE  /\ n.source = s /\ n \in Materialize(route.handler, q, tree).nodes
           /\ Materialize(route.handler, q, tree).err = "none"
           /\ MadeNode(route.handler, q.targetRoot, Visited(route.handler, q, tree), n)
<1> DEFINE state == Materialize(route.handler, q, tree)
           wanted == {k \in state.nodes : k.source = s}
           answer == MappedFrom(q, s, state)
<1>1. MadeOf(route.handler, q.targetRoot, Visited(route.handler, q, tree), state)
  BY MaterializeMade
<1>2. Holding(answer, state, wanted)
  BY FromNodesIs DEF MappedFrom
<1>3. n \in answer.nodes
  OBVIOUS
<1> HIDE DEF state, answer
<1>4. state.err = "none" /\ n \in wanted
  BY <1>2, <1>3 DEF Holding
<1> QED
  BY <1>1, <1>4 DEF MadeOf, state

\* At the depth of its own nodes a handler looks among all of them.
LEMMA PoolWhole ==
    ASSUME NEW handler, NEW q2, NEW nodes,
           handler.type = "flat" => Len(q2.rel) = 1,
           handler.type = "classifier" => Len(q2.rel) = 2
    PROVE  PoolOf(handler, q2, nodes) = nodes
<1> DEFINE l == Len(q2.rel)
<1>1. (l = 1 => ~(l > 1)) /\ (l = 2 => l # 1 /\ ~(l > 2))
  <2> HIDE DEF l
  <2> QED
    OBVIOUS
<1>2. CASE handler.type = "flat"
  <2>1. handler.type # "classifier"
    BY <1>2
  <2>2. ~(l > 1)
    BY <1>2, <1>1
  <2> QED
    BY <1>2, <2>1, <2>2 DEF PoolOf
<1>3. CASE handler.type = "classifier"
  <2>1. handler.type # "flat"
    BY <1>3
  <2>2. l # 1 /\ ~(l > 2)
    BY <1>3, <1>1
  <2> QED
    BY <1>3, <2>1, <2>2 DEF PoolOf
<1>4. CASE handler.type # "flat" /\ handler.type # "classifier"
  BY <1>4 DEF PoolOf
<1> QED
  BY <1>2, <1>3, <1>4

\* An answer that has this one node.
OnlyNode(answer, node) == answer.nodes = {node}

\* The path it has there resolves to it.
LEMMA MappedResolves ==
    ASSUME NEW route, Lists(route), HandlerOK(route.handler),
           route.handler.type \in Materializing, NEW tree \in Trees,
           NEW q, q.targetRoot \in Dirs, NEW q2, SameRoute(q, q2),
           NEW n \in Materialize(route.handler, q, tree).nodes,
           Materialize(route.handler, q, tree).err = "none",
           q2.target = n.path, q2.rel = Below(n.path, Len(q.targetRoot))
    PROVE  OnlyNode(MaterializedResolve(route.handler, q2, tree), n)
<1> DEFINE handler == route.handler
           state == Materialize(handler, q, tree)
           visited == Visited(handler, q, tree)
           root == q.targetRoot
           m == Len(root)
           pool == PoolOf(handler, q2, state.nodes)
           wanted == {k \in pool : k.path = q2.target}
<1>1. MadeOf(handler, root, visited, state)
  BY MaterializeMade
<1>2. Materialize(handler, q2, tree) = state
  BY MaterializeAlike DEF SameRoute
<1>3. OneEach(state) /\ MadeNode(handler, root, visited, n)
  BY <1>1 DEF MadeOf
<1>4. Under(root, n.path) /\ IsList(n.path) /\ Len(n.path) > m /\ m \in Nat
  BY <1>3 DEF MadeNode, Under, Dirs
<1>5. Len(q2.rel) = Len(n.path) - m /\ Len(q2.rel) \in Nat /\ q2.rel # Root
  <2> DEFINE t == n.path
             rest == Below(t, m)
  <2>1. PICK S : t \in Seq(S)
    BY <1>4 DEF IsList
  <2>2. Len(t) \in Nat /\ Len(t) > m /\ m \in Nat
    BY <1>4, <2>1
  <2>3. m \in 0..Len(t)
    BY <2>2
  <2> HIDE DEF t, m
  <2>4. Len(rest) = Len(t) - m
    BY <2>1, <2>3, RestOf
  <2>5. q2.rel = rest
    BY DEF t, m
  <2> HIDE DEF rest
  <2>6. Len(rest) # 0 /\ Len(rest) \in Nat
    BY <2>2, <2>4
  <2>7. rest # Root
    <3>1. Len(Root) = 0
      BY DEF Root
    <3> QED
      BY <2>6, <3>1, Zenon
  <2>8. Len(rest) = Len(t) - m /\ Len(rest) \in Nat /\ rest # Root
    BY <2>4, <2>6, <2>7
  <2> QED
    BY <2>5, <2>8 DEF t
<1>6. pool = state.nodes
  <2> DEFINE l == Len(q2.rel)
             k == Len(n.path)
  <2>1. /\ handler.type = "flat" => k = m + 1
        /\ handler.type = "classifier" => k = m + 2
    BY <1>3 DEF MadeNode
  <2>2. l = k - m /\ l \in Nat /\ m \in Nat
    BY <1>4, <1>5
  <2>3. k \in Nat
    <3>1. PICK S : n.path \in Seq(S)
      BY <1>4 DEF IsList
    <3> QED
      BY <3>1
  <2> HIDE DEF l, k, m, handler, state
  <2>4. (handler.type = "flat" => l = 1) /\ (handler.type = "classifier" => l = 2)
    BY <2>1, <2>2, <2>3
  <2>5. (handler.type = "flat" => Len(q2.rel) = 1) /\ (handler.type = "classifier" => Len(q2.rel) = 2)
    BY <2>4 DEF l
  <2> HIDE DEF visited, wanted, root
  <2>6. PoolOf(handler, q2, state.nodes) = state.nodes
    BY <2>5, PoolWhole
  <2> QED
    BY <2>6
<1>7. /\ Materialize(handler, q2, tree).err = "none" =>
             MaterializedResolve(handler, q2, tree).nodes
                 = {k \in PoolOf(handler, q2, Materialize(handler, q2, tree).nodes) :
                        k.path = q2.target}
  BY <1>5, ResolvedAre
<1>8. MaterializedResolve(handler, q2, tree).nodes = wanted
  BY <1>2, <1>7
<1> HIDE DEF pool, state, root, m, visited
<1>9. n \in state.nodes
  BY DEF state
<1>10. wanted = {n}
  BY <1>3, <1>6, <1>9 DEF OneEach
<1> QED
  BY <1>8, <1>10 DEF OnlyNode

\* Identity resolves the path it maps a source path to as that source path.
LEMMA IdentityBack ==
    ASSUME NEW s \in Dirs, NEW n \in 0..Len(s), NEW q2, NEW tree,
           q2.sourceRoot = SubSeq(s, 1, n), q2.rel = Below(s, n), Exists(tree, s),
           TargetDecision(q2.filter, SourceNode(q2, tree, s)) = "include"
    PROVE  IdentityResolve(q2, tree).nodes = {SourceNode(q2, tree, s)}
<1> DEFINE node == SourceNode(q2, tree, s)
<1>1. JoinPath(q2.sourceRoot, q2.rel) = s
  BY RestOf DEF JoinPath, Dirs
<1>2. IdentityResolve(q2, tree) = FilteredNode(q2, node, {s})
  BY <1>1 DEF IdentityResolve, SourceNode
<1>3. LET answer == FilteredNode(q2, node, {s})
      IN  /\ TargetDecision(q2.filter, node) = "include" =>
                 answer.nodes = {node} /\ answer.err = "none"
          /\ TargetDecision(q2.filter, node) # "include" =>
                 answer.nodes = {} /\ answer.err # "none"
  BY ResolvedNode
<1> HIDE DEF node
<1> QED
  BY <1>2, <1>3 DEF node

\* What was joined to a path is below it.
LEMMA BelowJoin ==
    ASSUME NEW root \in Dirs, NEW rel \in Dirs
    PROVE  /\ root \o rel \in Dirs
           /\ Len(root) <= Len(root \o rel)
           /\ \A i \in 1..Len(root) : (root \o rel)[i] = root[i]
           /\ Below(root \o rel, Len(root)) = rel
<1> DEFINE path == root \o rel
           m == Len(root)
           k == Len(rel)
           rest == Below(path, m)
<1>1. /\ root \in Seq(STRING) /\ rel \in Seq(STRING) /\ m \in Nat /\ k \in Nat
  BY DEF Dirs
<1>2. /\ path \in Seq(STRING) /\ Len(path) = m + k
      /\ \A i \in 1..(m + k) : path[i] = IF i <= m THEN root[i] ELSE rel[i - m]
  BY <1>1, ConcatProperties
<1> HIDE DEF path, m, k
<1>3. m <= Len(path) /\ m \in 0..Len(path) /\ Len(path) - m = k
  BY <1>1, <1>2
<1>4. \A i \in 1..m : path[i] = root[i]
  BY <1>1, <1>2
<1>5. /\ rest \in Seq(STRING) /\ Len(rest) = k /\ \A i \in 1..k : rest[i] = path[m + i]
  <2>1. /\ rest \in Seq(STRING) /\ Len(rest) = Len(path) - m
        /\ \A i \in 1..(Len(path) - m) : rest[i] = path[m + i]
    BY <1>2, <1>3, RestOf
  <2> QED
    BY <1>3, <2>1
<1> HIDE DEF rest
<1>6. ASSUME NEW i \in 1..k PROVE rest[i] = rel[i]
  <2>1. m + i \in 1..(m + k) /\ ~(m + i <= m) /\ (m + i) - m = i
    BY <1>1
  <2> QED
    BY <1>2, <1>5, <2>1
<1>7. rest = rel
  BY <1>1, <1>5, <1>6, SeqEqual DEF k
<1> QED
  BY <1>2, <1>3, <1>4, <1>7 DEF path, m, rest, Dirs

\* A path that a route maps a source path to resolves to that source path.
Resolves(route, tree, s, t) ==
    /\ IsList(t)
    /\ \E n : /\ n.source = s
              /\ HandlerResolve(route.handler, RequestFor(Global, route, t), tree).nodes = {n}

\* One that a materializing route named.
LEMMA MaterializedBack ==
    ASSUME NEW route, RouteTyped(route), Lists(route), HandlerOK(route.handler),
           route.handler.type \in Materializing, NEW s \in Dirs, CanMapBack(route, s),
           DistinctParams(route.source), NEW tree \in Trees,
           NEW n \in Asked(route.handler, TargetPathsRequest(Global, route, s), s, tree).nodes,
           Matches(route.pattern, n.path), CanRequest(route, MatchOf(route.pattern, n.path))
    PROVE  Resolves(route, tree, s, n.path)
<1> DEFINE handler == route.handler
           qs == TargetPathsRequest(Global, route, s)
           t == n.path
           q2 == RequestFor(Global, route, t)
           state == Materialize(handler, qs, tree)
           m == PrefixLen(route.pattern)
<1>1. qs.targetRoot \in Dirs /\ Len(qs.targetRoot) = m
  BY AskedIs
<1>2. n \in MappedFrom(qs, s, state).nodes
  BY DEF Asked
<1> HIDE DEF qs
<1>3. /\ n.source = s /\ n \in state.nodes /\ state.err = "none"
      /\ MadeNode(handler, qs.targetRoot, Visited(handler, qs, tree), n)
  BY <1>1, <1>2, MappedNodes
<1>4. /\ IsList(t) /\ Len(t) > Len(qs.targetRoot)
      /\ \A i \in 1..Len(qs.targetRoot) : t[i] = qs.targetRoot[i]
  BY <1>3 DEF MadeNode, Under
<1>5. PICK S : t \in Seq(S)
  BY <1>4 DEF IsList
<1>6. m <= Len(t)
  <2>1. Len(t) \in Nat /\ m \in Nat /\ Len(t) > m
    BY <1>1, <1>4, <1>5 DEF Dirs
  <2> HIDE DEF m, t
  <2> QED
    BY <2>1
<1>7. SameRoute(qs, q2) /\ q2.target = t /\ q2.rel = Below(t, m)
  BY <1>1, <1>4, <1>5, <1>6, RequestBack DEF qs
<1> HIDE DEF q2, m, state
<1>8. MaterializedResolve(handler, q2, tree).nodes = {n}
  <2>1. q2.target = n.path /\ q2.rel = Below(n.path, Len(qs.targetRoot))
    BY <1>1, <1>7
  <2>2. /\ n \in Materialize(route.handler, qs, tree).nodes
        /\ Materialize(route.handler, qs, tree).err = "none"
    BY <1>3 DEF state
  <2>3. qs.targetRoot \in Dirs /\ SameRoute(qs, q2)
    BY <1>1, <1>7
  <2>4. OnlyNode(MaterializedResolve(route.handler, q2, tree), n)
    BY <2>1, <2>2, <2>3, MappedResolves
  <2> QED
    BY <2>4 DEF OnlyNode
<1>9. HandlerResolve(handler, q2, tree) = MaterializedResolve(handler, q2, tree)
  BY DEF HandlerResolve, Materializing
<1> QED
  BY <1>3, <1>4, <1>8, <1>9 DEF Resolves, q2

\* One that Identity named.
LEMMA SourceBack ==
    ASSUME NEW route, RouteTyped(route), route.handler.type = "identity",
           NEW s \in Dirs, CanMapBack(route, s),
           DistinctParams(route.source), NEW tree \in Trees,
           NEW n \in Asked(route.handler, TargetPathsRequest(Global, route, s), s, tree).nodes,
           CanRequest(route, MatchOf(route.pattern, n.path))
    PROVE  Resolves(route, tree, s, n.path)
<1> DEFINE handler == route.handler
           qs == TargetPathsRequest(Global, route, s)
           t == n.path
           q2 == RequestFor(Global, route, t)
           m == PrefixLen(route.pattern)
           k == Len(route.source)
           rel == Below(s, k)
           node == SourceNode(qs, tree, s)
<1>1. /\ k \in 0..Len(s) /\ k \in Nat
      /\ qs.sourceRoot = SubSeq(s, 1, k) /\ qs.target = qs.targetRoot \o rel
      /\ qs.filter = Global \o route.filter
      /\ qs.targetRoot \in Dirs /\ Len(qs.targetRoot) = m
  BY AskedIs
<1>2. handler.type \notin Materializing /\ handler.type # "virtual" /\ handler.type # "mount"
  BY DEF Materializing
<1>3. Exists(tree, s) /\ n \in FilteredNode(qs, node, {s}).nodes
  <2>1. ASSUME ~Exists(tree, s) PROVE FALSE
    <3>1. n \in Failure("notexist").nodes
      BY <1>2, <2>1 DEF Asked
    <3> QED
      BY <3>1 DEF Failure
  <2> QED
    BY <1>2, <2>1 DEF Asked
<1>4. n = node /\ TargetDecision(qs.filter, node) = "include"
  <2> HIDE DEF node, qs
  <2> QED
    BY <1>3, ResolvedNode
<1>5. node.path = qs.target /\ node.source = s
  BY DEF SourceNode, NodeFromFileInfo
<1>6. rel \in Dirs
  BY <1>1, RestOf DEF Dirs
<1>7. t = qs.targetRoot \o rel
  BY <1>1, <1>4, <1>5
<1> HIDE DEF rel, t, m, qs
<1>8. /\ t \in Dirs /\ m <= Len(t) /\ \A i \in 1..m : t[i] = qs.targetRoot[i]
      /\ Below(t, m) = rel
  BY <1>1, <1>6, <1>7, BelowJoin
<1>9. t \in Seq(STRING)
  BY <1>8 DEF Dirs
<1>10. SameRoute(qs, q2) /\ q2.target = t /\ q2.rel = rel
  BY <1>8, <1>9, RequestBack DEF qs, m, t
<1>11. /\ SourceNode(q2, tree, s) = node
       /\ q2.sourceRoot = SubSeq(s, 1, k) /\ q2.filter = qs.filter
  BY <1>1, <1>4, <1>5, <1>10 DEF SourceNode, SameRoute, t
<1> HIDE DEF q2, node
<1>12. IdentityResolve(q2, tree).nodes = {SourceNode(q2, tree, s)}
  <2>1. Exists(tree, s) /\ TargetDecision(q2.filter, SourceNode(q2, tree, s)) = "include"
    BY <1>3, <1>4, <1>11
  <2>2. q2.sourceRoot = SubSeq(s, 1, k) /\ q2.rel = Below(s, k)
    BY <1>10, <1>11 DEF rel
  <2> HIDE DEF k
  <2> QED
    BY <1>1, <2>1, <2>2, IdentityBack
<1>13. HandlerResolve(handler, q2, tree) = IdentityResolve(q2, tree)
  BY <1>2 DEF HandlerResolve, MountRequest
<1>14. IsList(t)
  BY <1>9, ListOf
<1> QED
  BY <1>4, <1>5, <1>11, <1>12, <1>13, <1>14 DEF Resolves, q2, t

\* Every path that a route other than a Mount maps a source path to.
LEMMA MapBackResolves ==
    ASSUME NEW route, RouteTyped(route), Lists(route), HandlerOK(route.handler),
           route.handler.type # "mount", NEW s \in Dirs, CanMapBack(route, s),
           DistinctParams(route.source), NEW tree \in Trees,
           NEW t \in MapBack(Global, route, tree, s).paths,
           CanRequest(route, MatchOf(route.pattern, t))
    PROVE  Resolves(route, tree, s, t) /\ Matches(route.pattern, t)
<1> DEFINE handler == route.handler
           asked == Asked(handler, TargetPathsRequest(Global, route, s), s, tree)
<1>1. t \in {x \in {n.path : n \in asked.nodes} : Matches(route.pattern, x)}
  BY MapBackIs
<1> HIDE DEF asked
<1>2. PICK n \in asked.nodes : t = n.path
  BY <1>1
<1>3. Matches(route.pattern, t)
  BY <1>1
<1>4. CASE handler.type \in Materializing
  <2>1. Resolves(route, tree, s, n.path)
    BY <1>2, <1>3, <1>4, MaterializedBack DEF asked
  <2> QED
    BY <1>2, <1>3, <2>1
<1>5. CASE handler.type = "identity"
  <2>1. Resolves(route, tree, s, n.path)
    BY <1>2, <1>5, SourceBack DEF asked
  <2> QED
    BY <1>2, <1>3, <2>1
<1>6. CASE handler.type = "virtual"
  <2>1. asked = Failure("notexist")
    BY <1>6 DEF Asked, Materializing, asked
  <2>2. asked.nodes = {}
    BY <2>1 DEF Failure
  <2> QED
    BY <1>2, <2>2
<1>7. handler.type \in Materializing \cup {"identity", "mount", "virtual", "none"}
  BY DEF HandlerOK
<1>8. handler.type # "none"
  BY DEF RouteTyped
<1> QED
  BY <1>4, <1>5, <1>6, <1>7, <1>8

\* A route of the router, and whether bestMatch finds an owner for what it matches.
LEMMA MatchIsOwned ==
    ASSUME NEW r, RouterOK(r.routes), NEW i \in DOMAIN r.routes, NEW t, IsList(t),
           Matches(r.routes[i].pattern, t)
    PROVE  Len(t) \in Nat /\ Owned(r, t)
<1> DEFINE routes == r.routes
           best == BestMatch(routes, t)
<1>1. PICK S : t \in Seq(S)
  BY DEF IsList
<1>2. Len(t) \in Nat
  BY <1>1
<1>3. BestOf(routes, t, best, Len(routes))
  BY <1>2, BestMatchIsBest
<1>4. DOMAIN routes = 1..Len(routes)
  BY DEF RouterOK
<1>5. i \in 1..Len(routes)
  BY <1>4
<1> HIDE DEF best
<1>6. best \in 1..Len(routes)
  BY <1>3, <1>5 DEF BestOf
<1> QED
  BY <1>2, <1>4, <1>6 DEF Owned, best

(* Whatever the routes, handlers, filters and source trees: a target path    *)
(* that TargetPaths names for a source path, through flattening, renaming,   *)
(* categories and mapping functions, leads SourcePaths back to that source   *)
(* path, where the path belongs to the route that named it.                  *)
THEOREM ReverseMapping == RouteSetSpec => []ReverseMappingSound
<1>1. RouteSetInv => ReverseMappingSound
  <2> SUFFICES ASSUME RouteSetInv, NEW s \in Targets, NEW tree \in Trees,
                      NEW route \in ToSet(router.routes), CanMapBack(route, s),
                      NEW t \in MapBack(Global, route, tree, s).paths,
                      route = OwnerOf(router, t), route.handler.type # "mount",
                      DistinctParams(route.source),
                      CanRequest(route, MatchOf(route.pattern, t))
               PROVE  SourcePaths(router, Global, tree, t).paths = {s}
    BY DEF ReverseMappingSound
  <2> DEFINE r == router
             q2 == RequestFor(Global, route, t)
             answer == HandlerResolve(route.handler, q2, tree)
  <2>1. RouterOK(r.routes)
    BY DEF RouteSetInv, BuiltOK, router
  <2>2. s \in Dirs /\ Len(s) \in Nat /\ \A i \in 1..Len(s) : s[i] # ""
    BY TargetsAreClean
  <2>3. PICK i \in DOMAIN r.routes : route = r.routes[i]
    BY DEF ToSet
  <2>4. RouteTyped(route) /\ Lists(route) /\ HandlerOK(route.handler)
    BY <2>1, <2>3 DEF RouterOK
  <2>5. Resolves(route, tree, s, t) /\ Matches(route.pattern, t)
    BY <2>2, <2>4, MapBackResolves
  <2>6. Len(t) \in Nat /\ Owned(r, t)
    <3>1. IsList(t)
      BY <2>5 DEF Resolves
    <3> QED
      BY <2>1, <2>3, <2>5, <3>1, MatchIsOwned
  <2>7. OwnedBy(r, t, route)
    <3>1. OwnedBy(r, t, OwnerOf(r, t))
      BY <2>1, <2>6, OwnerIs
    <3> QED
      BY <3>1
  <2>8. Resolve(r, Global, tree, t) = answer
    BY <2>1, <2>7, OwnAnswers
  <2>9. PICK n : n.source = s /\ answer.nodes = {n}
    BY <2>5 DEF Resolves
  <2>10. IsAnswer(answer)
    BY ResolveIsAnswer
  <2> HIDE DEF answer, r
  <2>11. SourcePathsOf(answer).paths = {k.source : k \in answer.nodes} \ {NoSource}
    BY <2>10, SourcesOf
  <2>12. s # NoSource
    <3>1. NoSource[1] = "" /\ Len(NoSource) = 1
      BY DEF NoSource
    <3>2. ASSUME s = NoSource PROVE FALSE
      <4> DEFINE l == Len(s)
      <4>1. l = 1
        BY <3>1, <3>2
      <4> HIDE DEF l
      <4>2. 1 \in 1..l
        BY <4>1
      <4>3. 1 \in 1..Len(s)
        BY <4>2 DEF l
      <4> QED
        BY <2>2, <3>1, <3>2, <4>3
    <3> QED
      BY <3>2
  <2>13. SourcePathsOf(answer).paths = {s}
    BY <2>9, <2>11, <2>12
  <2> QED
    BY <2>8, <2>13 DEF SourcePaths, r
<1> QED
  BY <1>1, RouteSetInvHolds, PTL

\* The source template is the pattern's own prefix, and names its parameters once.
OwnTemplate(route) ==
    route.source = route.pattern.segments /\ DistinctParams(route.source)

\* Such a route asks about a source path where the path itself is.
LEMMA SourceMaps ==
    ASSUME NEW route, RouteTyped(route), OwnTemplate(route), NEW s \in Dirs,
           MatchesSource(route.source, s)
    PROVE  LET qs == TargetPathsRequest(Global, route, s)
               m  == PrefixLen(route.pattern)
           IN  /\ CanMapBack(route, s)
               /\ m \in 0..Len(s) /\ m \in Nat
               /\ qs.sourceRoot = SubSeq(s, 1, m) /\ qs.targetRoot = SubSeq(s, 1, m)
               /\ qs.target = s /\ qs.filter = Global \o route.filter
<1> DEFINE qs == TargetPathsRequest(Global, route, s)
           source == route.source
           segments == route.pattern.segments
           m == PrefixLen(route.pattern)
           params == BoundParams(source, s, m)
<1>1. /\ segments = source /\ source \in Seq(RawParts) /\ m = Len(source)
      /\ DistinctParams(source)
      /\ \A k \in 1..m : source[k].kind \in {"static", "named"}
  BY DEF RouteTyped, OwnTemplate, PrefixLen
<1>2. ASSUME NEW i \in 1..m, source[i].kind = "named"
      PROVE  source[i].text \in DOMAIN params /\ params[source[i].text] = s[i]
  BY <1>1, <1>2, ValueOf
<1>3. \A i \in 1..m : source[i].kind = "static" => source[i].text = s[i]
  BY <1>1 DEF MatchesSource, SegmentMatches
<1>4. CanMapBack(route, s)
  <2>1. SourceMatchOf(source, s).params = params
    BY <1>1 DEF SourceMatchOf
  <2> HIDE DEF params, m
  <2>2. HasTargetRoot(route.pattern, params)
    BY <1>1, <1>2 DEF HasTargetRoot, m
  <2> QED
    BY <2>1, <2>2 DEF CanMapBack
<1>5. /\ m \in 0..Len(s) /\ m \in Nat
      /\ qs.sourceRoot = SubSeq(s, 1, m)
      /\ qs.targetRoot = TargetRoot(route.pattern, params)
      /\ qs.target = qs.targetRoot \o Below(s, m)
      /\ qs.filter = Global \o route.filter
  <2> DEFINE k == Len(source)
  <2>1. /\ k \in 0..Len(s) /\ k \in Nat
        /\ qs.sourceRoot = SubSeq(s, 1, k)
        /\ qs.targetRoot = TargetRoot(route.pattern, BoundParams(source, s, k))
        /\ qs.target = qs.targetRoot \o Below(s, k)
        /\ qs.filter = Global \o route.filter
    BY <1>4, AskedIs
  <2>2. k = m
    BY <1>1
  <2> HIDE DEF k, qs, m
  <2> QED
    BY <2>1, <2>2
<1>6. TargetRoot(route.pattern, params) = [i \in 1..m |-> s[i]]
  <2> HIDE DEF params
  <2>1. \A i \in 1..m : (IF segments[i].kind = "static" THEN segments[i].text
                         ELSE params[segments[i].text]) = s[i]
    <3> HIDE DEF m, segments, source
    <3> QED
      BY <1>1, <1>2, <1>3
  <2> QED
    BY <2>1 DEF TargetRoot
<1>7. SubSeq(s, 1, m) = [i \in 1..m |-> s[i]]
  BY <1>5, FirstIs DEF Dirs
<1>8. SubSeq(s, 1, m) \o Below(s, m) = s
  BY <1>5, RestOf DEF Dirs
<1> HIDE DEF qs
<1>9. qs.targetRoot = SubSeq(s, 1, m) /\ qs.target = s
  BY <1>5, <1>6, <1>7, <1>8
<1> QED
  BY <1>4, <1>5, <1>9 DEF qs

\* And reads a target path where the path itself is.
LEMMA ReadsItself ==
    ASSUME NEW route, RouteTyped(route), OwnTemplate(route), NEW t \in Dirs,
           Matches(route.pattern, t), CanRequest(route, MatchOf(route.pattern, t))
    PROVE  LET q == RequestFor(Global, route, t)
               m == PrefixLen(route.pattern)
           IN  MatchesSource(route.source, t) /\ q.sourceRoot = SubSeq(t, 1, m)
<1> DEFINE qs == TargetPathsRequest(Global, route, t)
           m == PrefixLen(route.pattern)
<1>1. MatchesSource(route.source, t)
  <2>1. m = Len(route.source) /\ m \in Nat /\ Len(t) \in Nat
    BY DEF RouteTyped, OwnTemplate, PrefixLen, Dirs
  <2>2. m <= Len(t)
    BY <2>1 DEF Matches
  <2>3. \A i \in 1..m : SegmentMatches(route.source[i], t[i])
    BY DEF Matches, PrefixMatches, OwnTemplate
  <2> HIDE DEF m
  <2> QED
    BY <2>1, <2>2, <2>3 DEF MatchesSource
<1>2. /\ CanMapBack(route, t) /\ m \in 0..Len(t)
      /\ qs.sourceRoot = SubSeq(t, 1, m) /\ qs.targetRoot = SubSeq(t, 1, m)
  BY <1>1, SourceMaps
<1>3. \A i \in 1..m : t[i] = qs.targetRoot[i]
  <2>1. \A i \in 1..m : SubSeq(t, 1, m)[i] = t[i]
    BY <1>2, FirstOf DEF Dirs
  <2> HIDE DEF qs, m
  <2> QED
    BY <1>2, <2>1
<1>4. RequestFor(Global, route, t).sourceRoot = qs.sourceRoot
  BY <1>2, <1>3, RoundTrip DEF OwnTemplate
<1> QED
  BY <1>1, <1>2, <1>4

\* A path in the source directory of a target path matches the template as that does.
LEMMA InSourceRoot ==
    ASSUME NEW source, NEW m, m = Len(source), NEW t \in Dirs, MatchesSource(source, t),
           m \in 0..Len(t), NEW p \in Dirs, HasPathPrefix(p, SubSeq(t, 1, m))
    PROVE  MatchesSource(source, p) /\ SubSeq(p, 1, m) = SubSeq(t, 1, m)
<1> DEFINE root == SubSeq(t, 1, m)
           first == SubSeq(p, 1, m)
<1>1. t \in Seq(STRING) /\ p \in Seq(STRING) /\ Len(t) \in Nat /\ Len(p) \in Nat
  BY DEF Dirs
<1>2. m \in Nat
  BY <1>1
<1>3. root \in Seq(STRING) /\ Len(root) = m /\ \A i \in 1..m : root[i] = t[i]
  BY <1>1, FirstOf
<1>4. HasPathPrefix(p, root)
  OBVIOUS
<1> HIDE DEF root
<1>5. m <= Len(p) /\ (m # 0 => first = root)
  <2>1. CASE root = Root
    <3>1. Len(Root) = 0
      BY DEF Root
    <3>2. m = 0
      BY <1>3, <2>1, <3>1
    <3> QED
      BY <1>1, <3>2
  <2>2. CASE root # Root
    <3>1. Len(root) < Len(p) /\ SubSeq(p, 1, Len(root)) = root
      BY <1>4, <2>2 DEF HasPathPrefix
    <3> QED
      BY <1>1, <1>2, <1>3, <3>1
  <2> QED
    BY <2>1, <2>2
<1>6. m \in 0..Len(p)
  BY <1>1, <1>2, <1>5
<1>7. first \in Seq(STRING) /\ Len(first) = m /\ \A i \in 1..m : first[i] = p[i]
  BY <1>1, <1>6, FirstOf
<1> HIDE DEF first
<1>8. first = root
  <2>1. CASE m = 0
    <3>1. \A i \in 1..m : first[i] = root[i]
      BY <2>1
    <3> QED
      BY <1>3, <1>7, <3>1, SeqEqual
  <2>2. CASE m # 0
    BY <1>5, <2>2
  <2> QED
    BY <2>1, <2>2
<1>9. \A i \in 1..m : p[i] = t[i]
  BY <1>3, <1>7, <1>8
<1>10. MatchesSource(source, p)
  BY <1>1, <1>5, <1>9 DEF MatchesSource
<1> QED
  BY <1>8, <1>10 DEF first, root

\* The path of what a route shows is among those it maps the source path back to.
MapsTo(route, tree, s, t) ==
    CanMapBack(route, s) /\ t \in MapBack(Global, route, tree, s).paths

\* The nodes of a route's answer are at the paths it maps back to.
LEMMA AskedMaps ==
    ASSUME NEW route, NEW s, CanMapBack(route, s), NEW tree,
           NEW n \in Asked(route.handler, TargetPathsRequest(Global, route, s), s, tree).nodes,
           Matches(route.pattern, n.path)
    PROVE  MapsTo(route, tree, s, n.path)
<1> DEFINE asked == Asked(route.handler, TargetPathsRequest(Global, route, s), s, tree)
           paths == {k.path : k \in asked.nodes}
<1>1. MapBack(Global, route, tree, s).paths = {t \in paths : Matches(route.pattern, t)}
  BY MapBackIs
<1>2. n.path \in paths
  OBVIOUS
<1> HIDE DEF paths
<1> QED
  BY <1>1, <1>2 DEF MapsTo

\* What a materializing route resolves and is no virtual node is of its materialization.
LEMMA ResolvedMade ==
    ASSUME NEW route, Lists(route), HandlerOK(route.handler),
           route.handler.type \in Materializing, NEW tree \in Trees,
           NEW q, q.targetRoot \in Dirs, q.rel \in Dirs,
           NEW n \in MaterializedResolve(route.handler, q, tree).nodes, ~n.virtual
    PROVE  LET state == Materialize(route.handler, q, tree)
           IN  /\ state.err = "none" /\ n \in state.nodes /\ n.path = q.target
               /\ n.source \in Visited(route.handler, q, tree)
<1> DEFINE handler == route.handler
           state == Materialize(handler, q, tree)
           pool == PoolOf(handler, q, state.nodes)
           wanted == {k \in pool : k.path = q.target}
           answer == MaterializedResolve(handler, q, tree)
<1>1. q.rel # Root
  <2>1. ASSUME q.rel = Root PROVE FALSE
    <3> DEFINE node == [NodeFromFileInfo(q.targetRoot, q.sourceRoot, tree[q.sourceRoot])
                            EXCEPT !.virtual = TRUE]
    <3>1. node.virtual = TRUE
      BY DEF NodeFromFileInfo
    <3>2. n \in RootNode(q, tree).nodes
      BY <2>1 DEF MaterializedResolve
    <3> HIDE DEF node
    <3>3. RootNode(q, tree).nodes \subseteq {node}
      <4>1. RootNode(q, tree).nodes = {} \/ RootNode(q, tree) = FilteredNode(q, node, {q.sourceRoot})
        BY DEF RootNode, Failure, node
      <4>2. FilteredNode(q, node, {q.sourceRoot}).nodes \subseteq {node}
        BY ResolvedNode
      <4> QED
        BY <4>1, <4>2
    <3> QED
      BY <3>1, <3>2, <3>3
  <2> QED
    BY <2>1
<1>2. Len(q.rel) \in Nat
  BY DEF Dirs
<1>3. /\ state.err = "none" => answer.nodes = wanted
      /\ state.err # "none" => answer.nodes = {}
  BY <1>1, <1>2, ResolvedAre
<1>4. MadeOf(handler, q.targetRoot, Visited(handler, q, tree), state)
  BY MaterializeMade
<1>5. n \in answer.nodes
  OBVIOUS
<1> HIDE DEF answer, state, pool
<1>6. state.err = "none" /\ n \in pool /\ n.path = q.target
  BY <1>3, <1>5
<1>7. n \in state.nodes
  <2>1. n \in state.nodes \/ \E c : n = CategoryNode(q, c)
    BY <1>6, PoolIs DEF pool
  <2>2. \A c : CategoryNode(q, c).virtual = TRUE
    BY DEF CategoryNode
  <2> QED
    BY <2>1, <2>2
<1>8. n.source \in Visited(handler, q, tree)
  BY <1>4, <1>7 DEF MadeOf, MadeNode
<1> QED
  BY <1>6, <1>7, <1>8 DEF state

\* What a route with a template of its own shows of the source, mapped back.
ShownAt(route, tree, t, n) ==
    /\ RouteTyped(route) /\ Lists(route) /\ HandlerOK(route.handler) /\ OwnTemplate(route)
    /\ Matches(route.pattern, t) /\ CanRequest(route, MatchOf(route.pattern, t))
    /\ n \in HandlerResolve(route.handler, RequestFor(Global, route, t), tree).nodes
    /\ ~n.virtual

\* A materializing route finds its node again in what it shows for the source path.
LEMMA MaterializedMaps ==
    ASSUME NEW route, NEW t \in Dirs, NEW tree \in Trees, NEW n, ShownAt(route, tree, t, n),
           route.handler.type \in Materializing
    PROVE  MapsTo(route, tree, n.source, t)
<1> DEFINE handler == route.handler
           q == RequestFor(Global, route, t)
           s == n.source
           qs == TargetPathsRequest(Global, route, s)
           m == PrefixLen(route.pattern)
           root == SubSeq(t, 1, m)
           visited == Visited(handler, q, tree)
<1>1. /\ RouteTyped(route) /\ Lists(route) /\ HandlerOK(handler) /\ OwnTemplate(route)
      /\ Matches(route.pattern, t) /\ CanRequest(route, MatchOf(route.pattern, t))
      /\ n \in HandlerResolve(handler, q, tree).nodes /\ ~n.virtual
  BY DEF ShownAt
<1>2. /\ RequestOK(q) /\ q.target = t /\ q.filter = Global \o route.filter
      /\ m \in 0..Len(t) /\ q.targetRoot = root
  <2>1. /\ RequestOK(q) /\ q.target = t /\ q.filter = Global \o route.filter
        /\ m \in 0..Len(t) /\ q.targetRoot = SubSeq(t, 1, m) /\ q.rel = Below(t, m)
    <3>1. /\ RouteTyped(route) /\ Matches(route.pattern, t)
          /\ CanRequest(route, MatchOf(route.pattern, t))
      BY <1>1
    <3> QED
      BY ONLY <3>1, RequestIs, t \in Dirs
  <2> QED
    BY <2>1
<1>3. MatchesSource(route.source, t) /\ q.sourceRoot = root
  BY <1>1, ReadsItself
<1>4. n \in MaterializedResolve(handler, q, tree).nodes
  BY <1>1 DEF HandlerResolve, Materializing
<1> HIDE DEF q, qs, s, root, m
<1>5. q.targetRoot \in Dirs /\ q.rel \in Dirs
  BY <1>2 DEF RequestOK
<1>6. /\ Materialize(handler, q, tree).err = "none"
      /\ n \in Materialize(handler, q, tree).nodes /\ n.path = t
      /\ s \in visited
  BY <1>1, <1>2, <1>4, <1>5, ResolvedMade DEF s
<1>7. s \in Dirs /\ HasPathPrefix(s, root)
  BY <1>3, <1>6, RoutingAssumption DEF Visited, Dirs
<1>8. MatchesSource(route.source, s) /\ SubSeq(s, 1, m) = root
  <2>1. m = Len(route.source)
    BY <1>1 DEF OwnTemplate, PrefixLen, m
  <2> QED
    BY <1>2, <1>3, <1>7, <2>1, InSourceRoot DEF root
<1>9. /\ CanMapBack(route, s) /\ qs.sourceRoot = root /\ qs.targetRoot = root
      /\ qs.filter = Global \o route.filter
  BY <1>1, <1>7, <1>8, SourceMaps DEF qs, m
<1>10. Materialize(handler, qs, tree) = Materialize(handler, q, tree)
  BY <1>2, <1>3, <1>9, MaterializeAlike
<1>11. n \in Asked(handler, qs, s, tree).nodes
  <2> DEFINE state == Materialize(handler, q, tree)
             wanted == {k \in state.nodes : k.source = s}
             answer == FromNodes(qs, state, wanted, TRUE)
  <2>1. Asked(handler, qs, s, tree) = answer
    BY <1>10 DEF Asked, MappedFrom
  <2>2. n \in wanted
    BY <1>6 DEF s
  <2>3. Holding(answer, state, wanted)
    BY FromNodesIs
  <2> HIDE DEF answer, wanted
  <2>4. n \in answer.nodes
    BY <1>6, <2>2, <2>3 DEF Holding
  <2> QED
    BY <2>1, <2>4
<1>12. MapsTo(route, tree, s, n.path)
  BY <1>1, <1>6, <1>9, <1>11, AskedMaps DEF qs
<1> QED
  BY <1>6, <1>12 DEF s

\* Identity gives a source path the target path it reads it at.
LEMMA SourceMapsBack ==
    ASSUME NEW route, NEW t \in Dirs, NEW tree \in Trees, NEW n, ShownAt(route, tree, t, n),
           route.handler.type = "identity"
    PROVE  MapsTo(route, tree, n.source, t)
<1> DEFINE handler == route.handler
           q == RequestFor(Global, route, t)
           qs == TargetPathsRequest(Global, route, t)
           m == PrefixLen(route.pattern)
           root == SubSeq(t, 1, m)
           node == NodeFromFileInfo(t, t, tree[t])
<1>1. /\ RouteTyped(route) /\ OwnTemplate(route)
      /\ Matches(route.pattern, t) /\ CanRequest(route, MatchOf(route.pattern, t))
      /\ n \in HandlerResolve(handler, q, tree).nodes
  BY DEF ShownAt
<1>2. /\ q.target = t /\ q.filter = Global \o route.filter
      /\ m \in 0..Len(t) /\ q.rel = Below(t, m)
  <2>1. /\ RequestOK(q) /\ q.target = t /\ q.filter = Global \o route.filter
        /\ m \in 0..Len(t) /\ q.targetRoot = SubSeq(t, 1, m) /\ q.rel = Below(t, m)
    <3>1. /\ RouteTyped(route) /\ Matches(route.pattern, t)
          /\ CanRequest(route, MatchOf(route.pattern, t))
      BY <1>1
    <3> QED
      BY ONLY <3>1, RequestIs, t \in Dirs
  <2> QED
    BY <2>1
<1>3. MatchesSource(route.source, t) /\ q.sourceRoot = root
  BY <1>1, ReadsItself
<1>4. JoinPath(q.sourceRoot, q.rel) = t
  BY <1>2, <1>3, RestOf DEF JoinPath, Dirs
<1>5. n \in IdentityResolve(q, tree).nodes
  BY <1>1 DEF HandlerResolve, Materializing, MountRequest
<1>6. /\ CanMapBack(route, t) /\ qs.target = t /\ qs.filter = Global \o route.filter
  BY <1>1, <1>3, SourceMaps
<1> HIDE DEF q, qs
<1>7. Exists(tree, t) /\ n \in FilteredNode(q, node, {t}).nodes
  <2> HIDE DEF node
  <2>1. ASSUME ~Exists(tree, t) PROVE FALSE
    BY <1>4, <1>5, <2>1 DEF IdentityResolve, Failure
  <2> QED
    BY <1>2, <1>4, <1>5, <2>1 DEF IdentityResolve, node
<1> HIDE DEF node
<1>8. n = node /\ TargetDecision(q.filter, node) = "include"
  BY <1>7, ResolvedNode
<1>9. node.path = t /\ node.source = t
  BY DEF node, NodeFromFileInfo
<1>10. n \in Asked(handler, qs, t, tree).nodes
  <2>1. SourceNode(qs, tree, t) = node
    BY <1>6 DEF SourceNode, node
  <2>2. Asked(handler, qs, t, tree) = FilteredNode(qs, node, {t})
    BY <1>7, <2>1 DEF Asked, Materializing
  <2>3. TargetDecision(qs.filter, node) = "include"
    BY <1>2, <1>6, <1>8
  <2>4. FilteredNode(qs, node, {t}).nodes = {node}
    BY <2>3, ResolvedNode
  <2> QED
    BY <1>8, <2>2, <2>4
<1>11. MapsTo(route, tree, t, n.path)
  BY <1>1, <1>6, <1>8, <1>9, <1>10, AskedMaps DEF qs
<1> QED
  BY <1>8, <1>9, <1>11

\* So does every handler but a Mount, which reads another root.
LEMMA ShownMaps ==
    ASSUME NEW route, NEW t \in Dirs, NEW tree \in Trees, NEW n, ShownAt(route, tree, t, n),
           route.handler.type # "mount"
    PROVE  MapsTo(route, tree, n.source, t)
<1> DEFINE handler == route.handler
           q == RequestFor(Global, route, t)
<1>1. CASE handler.type = "virtual"
  <2>1. n \in VirtualResolve(q, handler.provider).nodes /\ ~n.virtual
    BY <1>1 DEF ShownAt, HandlerResolve, Materializing
  <2> HIDE DEF q
  <2> DEFINE at == ProviderAt(handler.provider, q.rel)
             node == VirtualNode(q.target, at[1])
  <2>2. node.virtual = TRUE
    BY DEF VirtualNode
  <2>3. \/ VirtualResolve(q, handler.provider) = Failure("notexist")
        \/ VirtualResolve(q, handler.provider) = FilteredNode(q, node, {q.sourceRoot})
    BY DEF VirtualResolve
  <2> HIDE DEF node
  <2>4. FilteredNode(q, node, {q.sourceRoot}).nodes \subseteq {node}
    BY ResolvedNode
  <2>5. Failure("notexist").nodes = {}
    BY DEF Failure
  <2> QED
    BY <2>1, <2>2, <2>3, <2>4, <2>5
<1>2. CASE handler.type \in Materializing
  BY <1>2, MaterializedMaps
<1>3. CASE handler.type = "identity"
  BY <1>3, SourceMapsBack
<1>4. /\ handler.type \in Materializing \cup {"identity", "mount", "virtual", "none"}
      /\ handler.type # "none"
  BY DEF ShownAt, HandlerOK, RouteTyped
<1> QED
  BY <1>1, <1>2, <1>3, <1>4

\* TargetPaths answers with what any of the routes maps the source path to.
LEMMA JoinedMaps ==
    ASSUME NEW r, RouterOK(r.routes), NEW i \in DOMAIN r.routes, NEW tree, NEW s, NEW t,
           MapsTo(r.routes[i], tree, s, t),
           TargetPaths(r, Global, tree, s).err \in {"none", "notexist"}
    PROVE  t \in TargetPaths(r, Global, tree, s).paths
<1> DEFINE routes == r.routes
           asked == {k \in DOMAIN routes : CanMapBack(routes[k], s)}
           answers == [k \in asked |-> MapBack(Global, routes[k], tree, s)]
           failing == {k \in asked : answers[k].err \notin {"none", "notexist"}}
           from == {k \in asked : answers[k].paths # {}}
           paths == UNION {answers[k].paths : k \in from}
           sources == {SourceMatchOf(routes[k].source, s).sourceRoot : k \in from}
           ids == {routes[k].id : k \in from}
           back == TargetPaths(r, Global, tree, s)
<1>1. back = CASE failing # {} -> Failure(answers[Min(failing)].err)
               [] failing = {} /\ from = {} -> Failure("notexist")
               [] OTHER -> Success({}, paths, sources, ids)
  BY DEF TargetPaths
<1>2. i \in asked /\ t \in answers[i].paths
  BY DEF MapsTo
<1>3. asked \subseteq Nat
  BY DEF RouterOK
<1> HIDE DEF asked, answers, back, sources, ids
<1>4. i \in from /\ t \in paths
  BY <1>2
<1>5. failing = {}
  <2>1. ASSUME failing # {} PROVE FALSE
    <3>1. failing \in SUBSET Nat
      BY <1>3
    <3>2. \E k \in failing : \A j \in failing : k <= j
      BY <2>1, <3>1, LeastNatural
    <3>3. Min(failing) \in failing
      BY <3>2 DEF Min
    <3>4. answers[Min(failing)].err \notin {"none", "notexist"}
      BY <3>3
    <3>5. back.err = answers[Min(failing)].err
      <4> HIDE DEF failing
      <4> QED
        BY <1>1, <2>1 DEF Failure
    <3>6. back.err \in {"none", "notexist"}
      BY DEF back
    <3> QED
      BY <3>4, <3>5, <3>6
  <2> QED
    BY <2>1
<1> HIDE DEF failing, paths
<1>6. back = Success({}, paths, sources, ids)
  <2>1. from # {}
    BY <1>4
  <2> HIDE DEF from
  <2> QED
    BY <1>1, <1>5, <2>1
<1>7. back.paths = paths
  BY <1>6 DEF Success
<1> QED
  BY <1>4, <1>7 DEF back

\* A target path that resolves has an owner, and a request can be made for it.
LEMMA ResolvedIsOwned ==
    ASSUME NEW r, RouterOK(r.routes), NEW t, Len(t) \in Nat, NEW tree,
           Resolve(r, Global, tree, t).err = "none"
    PROVE  LET route == OwnerOf(r, t)
           IN  /\ OwnedBy(r, t, route) /\ CanRequest(route, MatchOf(route.pattern, t))
               /\ Resolve(r, Global, tree, t)
                      = HandlerResolve(route.handler, RequestFor(Global, route, t), tree)
<1> DEFINE routes == r.routes
           best == BestMatch(routes, t)
           route == OwnerOf(r, t)
<1>1. BestOf(routes, t, best, Len(routes)) /\ DOMAIN routes = 1..Len(routes)
  BY BestMatchIsBest DEF RouterOK
<1>2. best # NoRoute
  BY DEF Resolve, Failure, NoRoute, Ambiguous
<1>3. Owned(r, t)
  <2> HIDE DEF best
  <2>1. best \in DOMAIN routes
    BY <1>1, <1>2 DEF BestOf
  <2> QED
    BY <2>1 DEF Owned, best
<1> HIDE DEF routes, best
<1>4. OwnedBy(r, t, route)
  BY <1>3, OwnerIs
<1>5. Resolve(r, Global, tree, t) =
          IF CanRequest(route, MatchOf(route.pattern, t))
          THEN HandlerResolve(route.handler, RequestFor(Global, route, t), tree)
          ELSE Failure("notexist")
  BY <1>4, OwnAnswers
<1> HIDE DEF route
<1>6. CanRequest(route, MatchOf(route.pattern, t))
  <2>1. Failure("notexist").err # "none"
    BY DEF Failure
  <2> QED
    BY <1>5, <2>1
<1> QED
  BY <1>4, <1>5, <1>6 DEF route

(* Whatever the routes, handlers, filters and source trees: what a route     *)
(* shows of the source under a path, TargetPaths names that path for, where  *)
(* the source template is the pattern's own prefix and no other route fails. *)
THEOREM ReverseMappingFinds == RouteSetSpec => []ReverseMappingComplete
<1>1. RouteSetInv => ReverseMappingComplete
  <2> SUFFICES ASSUME RouteSetInv, NEW t \in Targets, NEW tree \in Trees,
                      Resolve(router, Global, tree, t).err = "none",
                      OwnerOf(router, t).handler.type # "mount",
                      OwnerOf(router, t).source = OwnerOf(router, t).pattern.segments,
                      DistinctParams(OwnerOf(router, t).source),
                      NEW n \in Resolve(router, Global, tree, t).nodes, ~n.virtual,
                      TargetPaths(router, Global, tree, n.source).err \in {"none", "notexist"}
               PROVE  t \in TargetPaths(router, Global, tree, n.source).paths
    BY DEF ReverseMappingComplete
  <2> DEFINE r == router
             route == OwnerOf(r, t)
  <2>1. RouterOK(r.routes)
    BY DEF RouteSetInv, BuiltOK, router
  <2>2. t \in Dirs /\ Len(t) \in Nat
    BY TargetsAreClean
  <2>3. Resolve(r, Global, tree, t).err = "none"
    OBVIOUS
  <2>4. route.handler.type # "mount" /\ OwnTemplate(route)
    BY DEF OwnTemplate
  <2>5. n \in Resolve(r, Global, tree, t).nodes /\ ~n.virtual
    OBVIOUS
  <2>6. TargetPaths(r, Global, tree, n.source).err \in {"none", "notexist"}
    OBVIOUS
  <2> HIDE DEF r
  <2>7. /\ OwnedBy(r, t, route) /\ CanRequest(route, MatchOf(route.pattern, t))
        /\ Resolve(r, Global, tree, t)
               = HandlerResolve(route.handler, RequestFor(Global, route, t), tree)
    BY <2>1, <2>2, <2>3, ResolvedIsOwned
  <2>8. PICK i \in DOMAIN r.routes : r.routes[i] = route
    BY <2>7 DEF OwnedBy, Owned, OwnerOf
  <2> HIDE DEF route
  <2>9. ShownAt(route, tree, t, n)
    BY <2>4, <2>5, <2>7 DEF OwnedBy, ShownAt
  <2>10. MapsTo(route, tree, n.source, t)
    BY <2>2, <2>4, <2>9, ShownMaps
  <2>11. t \in TargetPaths(r, Global, tree, n.source).paths
    BY <2>1, <2>6, <2>8, <2>10, JoinedMaps
  <2> QED
    BY <2>11 DEF r
<1> QED
  BY <1>1, RouteSetInvHolds, PTL

---------------------------------------------------------------------------
(* The source roots of an answer's hint cover what it names of the source.   *)

\* What an answer shows of the source is at or below a source root of its hint.
Wide(a) == \A n \in a.nodes : n.virtual \/ CoveredBy(n.source, a.sources)

\* An answer that shows only what is virtual, or only what is covered.
AllWide(a) ==
    \/ \A n \in a.nodes : n.virtual
    \/ \A n \in a.nodes : CoveredBy(n.source, a.sources)

LEMMA FailureWide == \A e : AllWide(Failure(e))
BY DEF AllWide, Failure

LEMMA NodeWide ==
    ASSUME NEW q, NEW node, NEW sources, node.virtual \/ CoveredBy(node.source, sources)
    PROVE  AllWide(FilteredNode(q, node, sources))
<1> DEFINE answer == FilteredNode(q, node, sources)
<1>1. \/ \E e : answer = Failure(e)
      \/ answer.nodes = {node} /\ answer.sources = sources
  BY DEF FilteredNode, Filtered, Success
<1> HIDE DEF answer
<1>2. ASSUME answer.nodes = {node}, answer.sources = sources PROVE AllWide(answer)
  BY <1>2 DEF AllWide
<1> QED
  BY <1>1, <1>2, FailureWide DEF answer

LEMMA FromNodesWide ==
    ASSUME NEW q, NEW state, NEW wanted, NEW emptyIsMissing,
           \/ \A n \in wanted : n.virtual
           \/ \A n \in wanted : CoveredBy(n.source, {q.sourceRoot})
    PROVE  AllWide(FromNodes(q, state, wanted, emptyIsMissing))
<1> DEFINE answer == FromNodes(q, state, wanted, emptyIsMissing)
<1>1. \/ \E e : answer = Failure(e)
      \/ answer.nodes = wanted /\ answer.sources = {q.sourceRoot}
  BY DEF FromNodes, Success
<1> HIDE DEF answer
<1>2. ASSUME answer.nodes = wanted, answer.sources = {q.sourceRoot} PROVE AllWide(answer)
  BY <1>2 DEF AllWide
<1> QED
  BY <1>1, <1>2, FailureWide DEF answer

\* A walk does not leave the directory that it starts from.
LEMMA StateWide ==
    ASSUME NEW route, Lists(route), HandlerOK(route.handler),
           route.handler.type \in Materializing, NEW tree \in Trees,
           NEW q, q.targetRoot \in Dirs
    PROVE  \A n \in Materialize(route.handler, q, tree).nodes :
               CoveredBy(n.source, {q.sourceRoot})
<1>1. MadeOf(route.handler, q.targetRoot, Visited(route.handler, q, tree),
             Materialize(route.handler, q, tree))
  BY MaterializeMade
<1>2. \A p \in Visited(route.handler, q, tree) : HasPathPrefix(p, q.sourceRoot)
  BY DEF Visited
<1>3. \A p : HasPathPrefix(p, q.sourceRoot) => CoveredBy(p, {q.sourceRoot})
  BY DEF CoveredBy
<1> QED
  BY <1>1, <1>2, <1>3 DEF MadeOf, MadeNode

LEMMA CategoriesVirtual ==
    ASSUME NEW q, NEW nodes PROVE \A n \in CategoriesOf(q, nodes) : n.virtual
<1>1. \A c : CategoryNode(q, c).virtual
  BY DEF CategoryNode
<1> QED
  BY <1>1 DEF CategoriesOf

LEMMA MaterializedWide ==
    ASSUME NEW route, Lists(route), HandlerOK(route.handler),
           route.handler.type \in Materializing, NEW tree \in Trees,
           NEW q, q.targetRoot \in Dirs
    PROVE  /\ AllWide(MaterializedResolve(route.handler, q, tree))
           /\ AllWide(MaterializedReadDir(route.handler, q, tree))
<1> DEFINE handler == route.handler
           state == Materialize(handler, q, tree)
           node == [NodeFromFileInfo(q.targetRoot, q.sourceRoot, tree[q.sourceRoot])
                       EXCEPT !.virtual = TRUE]
<1>1. \A n \in state.nodes : CoveredBy(n.source, {q.sourceRoot})
  BY StateWide
<1>2. \A n \in CategoriesOf(q, state.nodes) : n.virtual
  BY CategoriesVirtual
<1>3. AllWide(RootNode(q, tree))
  <2>1. node.virtual
    BY DEF NodeFromFileInfo
  <2>2. \/ \E e : RootNode(q, tree) = Failure(e)
        \/ RootNode(q, tree) = FilteredNode(q, node, {q.sourceRoot})
    BY DEF RootNode
  <2> HIDE DEF node
  <2> QED
    BY <2>1, <2>2, NodeWide, FailureWide
<1> HIDE DEF state, handler
<1>4. AllWide(ResolvedIn(handler, q, state))
  <2> DEFINE nodes == IF handler.type = "classifier" /\ Len(q.rel) = 1
                      THEN CategoriesOf(q, state.nodes) ELSE state.nodes
             wanted == {n \in nodes : n.path = q.target}
  <2>1. \/ \A n \in wanted : n.virtual
        \/ \A n \in wanted : CoveredBy(n.source, {q.sourceRoot})
    BY <1>1, <1>2
  <2>2. ResolvedIn(handler, q, state) = FromNodes(q, state, wanted, TRUE)
    BY DEF ResolvedIn
  <2> HIDE DEF wanted
  <2> QED
    BY <2>1, <2>2, FromNodesWide
<1>5. AllWide(ListedIn(handler, q, state))
  <2> DEFINE below == {n \in state.nodes : ParentPath(n.path) = q.target}
             all == IF handler.type = "classifier" THEN CategoriesOf(q, state.nodes)
                                                   ELSE state.nodes
             some == IF handler.type = "classifier" /\ Len(q.rel) > 1 THEN {} ELSE below
  <2>1. /\ \/ \A n \in all : n.virtual
           \/ \A n \in all : CoveredBy(n.source, {q.sourceRoot})
        /\ \A n \in some : CoveredBy(n.source, {q.sourceRoot})
    BY <1>1, <1>2
  <2>2. \/ ListedIn(handler, q, state) = FromNodes(q, state, all, FALSE)
        \/ ListedIn(handler, q, state) = FromNodes(q, state, some, TRUE)
    BY DEF ListedIn
  <2> HIDE DEF all, some
  <2> QED
    BY <2>1, <2>2, FromNodesWide
<1>6. AllWide(MaterializedResolve(handler, q, tree))
  BY <1>3, <1>4, FailureWide DEF MaterializedResolve, state
<1>7. AllWide(MaterializedReadDir(handler, q, tree))
  BY <1>5, FailureWide DEF MaterializedReadDir, state
<1> QED
  BY <1>6, <1>7 DEF handler

\* Identity names the path it is asked for, or what lies directly below it.
LEMMA IdentityResolvesWide ==
    ASSUME NEW q, NEW tree PROVE AllWide(IdentityResolve(q, tree))
<1> DEFINE source == JoinPath(q.sourceRoot, q.rel)
           node == NodeFromFileInfo(q.target, source, tree[source])
<1>1. \/ IdentityResolve(q, tree) = Failure("notexist")
      \/ IdentityResolve(q, tree) = FilteredNode(q, node, {source})
  BY DEF IdentityResolve
<1>2. CoveredBy(node.source, {source})
  BY DEF NodeFromFileInfo, CoveredBy
<1> HIDE DEF node, source
<1> QED
  BY <1>1, <1>2, NodeWide, FailureWide

LEMMA EntryIsBelow ==
    ASSUME NEW p \in Dirs, NEW source, ChildOf(p, source)
    PROVE  HasPathPrefix(p, source)
<1>1. p # Root /\ p \in Seq(STRING) /\ ParentPath(p) = source
  BY DEF ChildOf, Dirs
<1>2. Len(p) \in Nat /\ Len(p) # 0
  BY <1>1 DEF Root
<1>3. Len(p) - 1 \in 0..Len(p) /\ Len(p) - 1 < Len(p)
  BY <1>2
<1>4. source = SubSeq(p, 1, Len(p) - 1)
  BY <1>1 DEF ParentPath
<1>5. Len(source) = Len(p) - 1
  BY <1>1, <1>3, <1>4, FirstOf
<1> QED
  BY <1>3, <1>4, <1>5 DEF HasPathPrefix

LEMMA IdentityListsWide ==
    ASSUME NEW q, NEW first \in Trees, NEW last
    PROVE  Wide(IdentityReadDir(q, first, InfosOf(first, last)))
<1> DEFINE source == JoinPath(q.sourceRoot, q.rel)
           answer == IdentityReadDir(q, first, InfosOf(first, last))
<1>1. answer.nodes = {} \/ answer.sources = {source}
  <2>1. \/ \E e : answer = Failure(e)
        \/ \E node, decision : answer = ListingOf(q, source, node, decision)
    BY DEF IdentityReadDir
  <2>2. ASSUME NEW node, NEW decision
        PROVE  \/ \E e : ListingOf(q, source, node, decision) = Failure(e)
               \/ \E nodes : ListingOf(q, source, node, decision)
                                 = Success(nodes, {}, {source}, {q.id})
    BY DEF ListingOf
  <2>3. (\A e : Failure(e).nodes = {})
        /\ \A nodes : Success(nodes, {}, {source}, {q.id}).sources = {source}
    BY DEF Failure, Success
  <2> HIDE DEF answer, source
  <2> QED
    BY <2>1, <2>2, <2>3
<1>2. ASSUME NEW n \in answer.nodes PROVE CoveredBy(n.source, {source})
  <2>1. PICK p \in Listing(first, source) : n = EntryNode(q, last, p)
    BY IdentityLists
  <2>2. p \in Dirs /\ ChildOf(p, source)
    BY RoutingAssumption DEF Listing, Dirs
  <2> HIDE DEF source
  <2>3. HasPathPrefix(p, source)
    BY <2>2, EntryIsBelow
  <2>4. n.source = p
    BY <2>1 DEF EntryNode, NodeFromFileInfo
  <2> QED
    BY <2>3, <2>4 DEF CoveredBy
<1> HIDE DEF answer, source
<1>3. Wide(answer)
  BY <1>1, <1>2 DEF Wide
<1> QED
  BY <1>3 DEF answer

\* Nothing that Virtual shows is of the source.
LEMMA VirtualWide ==
    ASSUME NEW q, NEW provider
    PROVE  AllWide(VirtualResolve(q, provider)) /\ AllWide(VirtualReadDir(q, provider))
<1>1. \A target, p : VirtualNode(target, p).virtual
  BY DEF VirtualNode
<1>2. AllWide(VirtualResolve(q, provider))
  BY <1>1, NodeWide, FailureWide DEF VirtualResolve
<1>3. AllWide(VirtualReadDir(q, provider))
  <2> DEFINE at == ProviderAt(provider, q.rel)
             nodes == {VirtualNode(Append(q.target, child.name), child) :
                          child \in {x \in ToSet(at[1].children) : x.name # Nameless}}
             shown == {n \in nodes : TargetDecision(q.filter, n) = "include"}
             answer == VirtualReadDir(q, provider)
  <2>1. \/ \E e : answer = Failure(e)
        \/ answer = Success(shown, {}, {q.sourceRoot}, {q.id})
    BY DEF VirtualReadDir
  <2>2. \A n \in shown : n.virtual
    BY <1>1
  <2> HIDE DEF shown, answer
  <2>3. ASSUME answer = Success(shown, {}, {q.sourceRoot}, {q.id}) PROVE AllWide(answer)
    BY <2>2, <2>3 DEF AllWide, Success
  <2> QED
    BY <2>1, <2>3, FailureWide DEF answer
<1> QED
  BY <1>2, <1>3

LEMMA HandlerWide ==
    ASSUME NEW route, Lists(route), HandlerOK(route.handler), NEW first \in Trees,
           NEW last, NEW q, q.targetRoot \in Dirs
    PROVE  /\ AllWide(HandlerResolve(route.handler, q, first))
           /\ Wide(HandlerReadDir(route.handler, q, first, InfosOf(first, last)))
<1> DEFINE handler == route.handler
<1>1. \A a : AllWide(a) => Wide(a)
  BY DEF AllWide, Wide
<1>2. CASE handler.type \in Materializing
  <2>1. AllWide(MaterializedResolve(handler, q, first))
        /\ AllWide(MaterializedReadDir(handler, q, first))
    BY <1>2, MaterializedWide
  <2>2. /\ HandlerResolve(handler, q, first) = MaterializedResolve(handler, q, first)
        /\ HandlerReadDir(handler, q, first, InfosOf(first, last))
               = MaterializedReadDir(handler, q, first)
    BY <1>2 DEF HandlerResolve, HandlerReadDir, Materializing
  <2> HIDE DEF handler
  <2> QED
    BY <1>1, <2>1, <2>2 DEF handler
<1>3. CASE handler.type = "virtual"
  <2>1. AllWide(VirtualResolve(q, handler.provider))
        /\ AllWide(VirtualReadDir(q, handler.provider))
    BY VirtualWide
  <2>2. /\ HandlerResolve(handler, q, first) = VirtualResolve(q, handler.provider)
        /\ HandlerReadDir(handler, q, first, InfosOf(first, last))
               = VirtualReadDir(q, handler.provider)
    BY <1>3 DEF HandlerResolve, HandlerReadDir, Materializing
  <2> HIDE DEF handler
  <2> QED
    BY <1>1, <2>1, <2>2 DEF handler
<1>4. CASE handler.type \notin Materializing \cup {"virtual"}
  <2> DEFINE m == MountRequest(handler, q)
  <2>1. /\ HandlerResolve(handler, q, first) = IdentityResolve(m, first)
        /\ HandlerReadDir(handler, q, first, InfosOf(first, last))
               = IdentityReadDir(m, first, InfosOf(first, last))
    BY <1>4 DEF HandlerResolve, HandlerReadDir
  <2> HIDE DEF m, handler
  <2>2. AllWide(IdentityResolve(m, first))
        /\ Wide(IdentityReadDir(m, first, InfosOf(first, last)))
    BY IdentityResolvesWide, IdentityListsWide
  <2> QED
    BY <2>1, <2>2 DEF handler
<1> QED
  BY <1>2, <1>3, <1>4

\* The merge keeps the owner's source roots; the children it adds are virtual.
LEMMA MergedWide ==
    ASSUME NEW r, RouterOK(r.routes), NEW target, NEW owner, NEW own, Wide(own)
    PROVE  Wide(MergedListing(r, Global, target, owner, own))
<1> DEFINE n == Len(r.routes)
           from == {[node |-> x, route |-> owner] : x \in own.nodes}
           X == {m \in from \cup {ShownChild(r.routes[i], target) : i \in 1..n} :
                    m.node \in own.nodes \/ m.node.virtual}
           S == [err : {"none", "conflict", "other"}, shown : SUBSET X, merged : SUBSET X]
           start == [err |-> "none", shown |-> {}, merged |-> from]
           result == Looped(r, Global, target, start)
           listing == MergedListing(r, Global, target, owner, own)
           roots == own.sources \cup {m.node.source : m \in result.shown}
<1>1. n \in Nat /\ DOMAIN r.routes = 1..n
  BY DEF RouterOK
<1>2. start \in S
  OBVIOUS
<1>3. ASSUME NEW acc \in S, NEW i \in 1..n
      PROVE  AddRoute(r, Global, target, acc, r.routes[i]) \in S
  <2> DEFINE route == r.routes[i]
             child == ShownChild(route, target)
             merged == Merge(r, acc.merged, child)
  <2>1. /\ [acc EXCEPT !.err = "conflict"] \in S
        /\ [acc EXCEPT !.err = "other"] \in S
    <3> HIDE DEF X
    <3> QED
      OBVIOUS
  <2>2. [acc EXCEPT !.merged = merged, !.shown = acc.shown \cup {child}] \in S
    <3>1. child \in X
      BY DEF ShownChild
    <3>2. merged \subseteq acc.merged \cup {child}
      BY MergeAmong
    <3> HIDE DEF X, child, merged
    <3>3. merged \in SUBSET X /\ acc.shown \cup {child} \in SUBSET X
      BY <3>1, <3>2
    <3> QED
      BY <3>3
  <2>3. AddRoute(r, Global, target, acc, route)
            \in {acc, [acc EXCEPT !.err = "conflict"], [acc EXCEPT !.err = "other"],
                 [acc EXCEPT !.merged = merged, !.shown = acc.shown \cup {child}]}
    <3> HIDE DEF S, X
    <3> QED
      BY DEF AddRoute, AddChild
  <2> HIDE DEF S, merged, child
  <2> QED
    BY <2>1, <2>2, <2>3
<1>4. result \in S
  <2> HIDE DEF S, start, n
  <2> QED
    BY <1>1, <1>2, <1>3, MergeStays
<1>5. \/ \E err : listing = Failure(err)
      \/ listing.nodes = {m.node : m \in result.merged} /\ listing.sources = roots
  BY DEF MergedListing, Looped, Success
<1>6. \A m \in result.merged : m.node \in own.nodes \/ m.node.virtual
  <2> HIDE DEF result
  <2> QED
    BY <1>4
<1>7. own.sources \subseteq roots
  OBVIOUS
<1> HIDE DEF result, roots, listing
<1>8. ASSUME listing.nodes = {m.node : m \in result.merged}, listing.sources = roots
      PROVE  Wide(listing)
  <2>1. \A s : CoveredBy(s, own.sources) => CoveredBy(s, roots)
    BY <1>7 DEF CoveredBy
  <2> QED
    BY <1>6, <1>8, <2>1 DEF Wide
<1>9. \A e : Wide(Failure(e))
  BY DEF Wide, Failure
<1> QED
  BY <1>5, <1>8, <1>9 DEF listing

\* What the routes' templates match of a source path is the path or above it.
LEMMA MatchedRootCovers ==
    ASSUME NEW S, NEW s \in Seq(S), NEW source, Len(source) \in Nat, MatchesSource(source, s)
    PROVE  LET root == SourceMatchOf(source, s).sourceRoot
           IN  s = root \/ HasPathPrefix(s, root)
<1> DEFINE n == Len(source)
           root == SubSeq(s, 1, n)
<1>1. n \in Nat /\ n <= Len(s) /\ Len(s) \in Nat
  BY DEF MatchesSource
<1>2. n \in 0..Len(s)
  BY <1>1
<1>3. root \in Seq(S) /\ Len(root) = n /\ \A i \in 1..n : root[i] = s[i]
  BY <1>2, FirstOf
<1>4. SourceMatchOf(source, s).sourceRoot = root
  BY DEF SourceMatchOf
<1> HIDE DEF root, n
<1>5. CASE n = Len(s)
  BY <1>3, <1>4, <1>5, SeqEqual
<1>6. CASE n < Len(s)
  <2>1. SubSeq(s, 1, Len(root)) = root
    BY <1>3 DEF root
  <2> QED
    BY <1>3, <1>4, <1>6, <2>1 DEF HasPathPrefix
<1> QED
  BY <1>1, <1>5, <1>6

\* TargetPaths answers from routes whose template matches, with their source roots.
LEMMA TargetPathsWide ==
    ASSUME NEW r, RouterOK(r.routes), NEW tree, NEW S, NEW s \in Seq(S),
           TargetPaths(r, Global, tree, s).err = "none"
    PROVE  CoveredBy(s, TargetPaths(r, Global, tree, s).sources)
<1> DEFINE routes == r.routes
           asked == {k \in DOMAIN routes : CanMapBack(routes[k], s)}
           answers == [k \in asked |-> MapBack(Global, routes[k], tree, s)]
           failing == {k \in asked : answers[k].err \notin {"none", "notexist"}}
           from == {k \in asked : answers[k].paths # {}}
           paths == UNION {answers[k].paths : k \in from}
           root(k) == SourceMatchOf(routes[k].source, s).sourceRoot
           sources == {root(k) : k \in from}
           ids == {routes[k].id : k \in from}
           back == TargetPaths(r, Global, tree, s)
<1>1. back = CASE failing # {} -> Failure(answers[Min(failing)].err)
               [] failing = {} /\ from = {} -> Failure("notexist")
               [] OTHER -> Success({}, paths, sources, ids)
  BY DEF TargetPaths
<1>2. asked \in SUBSET Nat /\ back.err = "none"
  BY DEF RouterOK
<1>3. \A k \in asked : s = root(k) \/ HasPathPrefix(s, root(k))
  <2> SUFFICES ASSUME NEW k \in asked PROVE s = root(k) \/ HasPathPrefix(s, root(k))
    OBVIOUS
  <2>1. MatchesSource(routes[k].source, s)
    BY DEF CanMapBack
  <2>2. routes[k].source \in Seq(RawParts)
    BY DEF RouterOK, RouteTyped
  <2> QED
    BY <2>1, <2>2, MatchedRootCovers
<1>4. from \subseteq asked
  OBVIOUS
<1> HIDE DEF asked, answers, back, paths, ids, root
<1>5. failing = {}
  <2>1. ASSUME failing # {} PROVE FALSE
    <3>1. failing \in SUBSET Nat
      BY <1>2
    <3>2. \E k \in failing : \A j \in failing : k <= j
      BY <2>1, <3>1, LeastNatural
    <3>3. Min(failing) \in failing
      BY <3>2 DEF Min
    <3>4. answers[Min(failing)].err # "none"
      BY <3>3
    <3>5. back.err = answers[Min(failing)].err
      <4> HIDE DEF failing
      <4> QED
        BY <1>1, <2>1 DEF Failure
    <3> QED
      BY <1>2, <3>4, <3>5
  <2> QED
    BY <2>1
<1> HIDE DEF failing
<1>6. from # {} /\ back = Success({}, paths, sources, ids)
  <2> HIDE DEF from, sources
  <2>1. Failure("notexist").err # "none"
    BY DEF Failure
  <2> QED
    BY <1>1, <1>2, <1>5, <2>1
<1>7. PICK k : k \in from
  BY <1>6
<1>8. root(k) \in sources
  BY <1>7
<1>9. back.sources = sources
  BY <1>6 DEF Success
<1> HIDE DEF from, sources
<1> QED
  BY <1>3, <1>4, <1>7, <1>8, <1>9 DEF CoveredBy, back

\* What the routes of a router answer for a target path.
LEMMA AnswersWide ==
    ASSUME NEW r, RouterOK(r.routes), NEW t \in Dirs, NEW first \in Trees, NEW last
    PROVE  /\ AllWide(Resolve(r, Global, first, t)) /\ IsAnswer(Resolve(r, Global, first, t))
           /\ Wide(OwnListing(r, Global, first, InfosOf(first, last), t))
<1> DEFINE best == BestMatch(r.routes, t)
           resolved == Resolve(r, Global, first, t)
           listed == OwnListing(r, Global, first, InfosOf(first, last), t)
<1>1. \A e : AllWide(Failure(e)) /\ IsAnswer(Failure(e)) /\ Wide(Failure(e))
  BY FailureWide, AnswersAre DEF AllWide, Wide
<1>2. Len(t) \in Nat
  BY DEF Dirs
<1>3. CASE Owned(r, t)
  <2> DEFINE owner == OwnerOf(r, t)
             can == CanRequest(owner, MatchOf(owner.pattern, t))
             qo == RequestFor(Global, owner, t)
  <2>1. OwnedBy(r, t, owner)
    BY <1>2, <1>3, OwnerIs
  <2>2. /\ resolved = IF can THEN HandlerResolve(owner.handler, qo, first)
                      ELSE Failure("notexist")
        /\ listed = IF can THEN HandlerReadDir(owner.handler, qo, first, InfosOf(first, last))
                    ELSE Failure("notexist")
    BY <2>1, OwnAnswers
  <2>3. Lists(owner) /\ HandlerOK(owner.handler)
    BY <2>1 DEF OwnedBy
  <2> HIDE DEF resolved, listed, owner
  <2>4. ASSUME can PROVE qo.targetRoot \in Dirs
    <3>1. RequestOK(qo)
      BY <2>1, <2>4, RequestIs DEF OwnedBy
    <3> QED
      BY <3>1 DEF RequestOK
  <2> HIDE DEF can, qo
  <2>5. ASSUME can
        PROVE  /\ AllWide(HandlerResolve(owner.handler, qo, first))
               /\ IsAnswer(HandlerResolve(owner.handler, qo, first))
               /\ Wide(HandlerReadDir(owner.handler, qo, first, InfosOf(first, last)))
    BY <2>3, <2>4, <2>5, HandlerWide, ResolveIsAnswer
  <2>6. AllWide(resolved) /\ IsAnswer(resolved) /\ Wide(listed)
    BY <1>1, <2>2, <2>5
  <2> QED
    BY <2>6 DEF resolved, listed
<1>4. CASE ~Owned(r, t)
  <2>1. best \in {NoRoute, Ambiguous}
    <3>1. BestOf(r.routes, t, best, Len(r.routes)) /\ DOMAIN r.routes = 1..Len(r.routes)
      BY <1>2, BestMatchIsBest DEF RouterOK
    <3> QED
      BY <1>4, <3>1 DEF BestOf, Owned
  <2>2. NoRoute \notin DOMAIN r.routes /\ Ambiguous \notin DOMAIN r.routes
    BY DEF RouterOK, NoRoute, Ambiguous
  <2>3. (\E e : resolved = Failure(e)) /\ (\E e : listed = Failure(e))
    BY <2>1, <2>2 DEF Resolve, OwnListing
  <2> HIDE DEF resolved, listed
  <2>4. AllWide(resolved) /\ IsAnswer(resolved) /\ Wide(listed)
    BY <1>1, <2>3
  <2> QED
    BY <2>4 DEF resolved, listed
<1> QED
  BY <1>3, <1>4

(* Whatever the routes, handlers, filters and source trees, and whatever     *)
(* happens to the source between the names and the infos of a listing: the   *)
(* source roots of an answer cover what it shows of the source, the paths    *)
(* of SourcePaths and the path that TargetPaths was asked about. So they are *)
(* enough for Invalidate of a source path to find the entry by.              *)
THEOREM HintsAreWide == RouteSetSpec => []HintsCover
<1>1. RouteSetInv => HintsCover
  <2> SUFFICES ASSUME RouteSetInv, NEW t \in Targets, NEW tree \in Trees
               PROVE  LET resolved == Resolve(router, Global, tree, t)
                          listed(last) == ReadDir(router, Global, tree, InfosOf(tree, last), t)
                          sources  == SourcePaths(router, Global, tree, t)
                          targets  == TargetPaths(router, Global, tree, t)
                          backed(answer) == {n \in answer.nodes : ~n.virtual}
                      IN  /\ \A n \in backed(resolved) : CoveredBy(n.source, resolved.sources)
                          /\ \A last \in Trees : \A n \in backed(listed(last)) :
                                 CoveredBy(n.source, listed(last).sources)
                          /\ \A n \in backed(resolved) :
                                 \A p \in sources.paths : CoveredBy(p, sources.sources)
                          /\ targets.err = "none" => CoveredBy(t, targets.sources)
    BY DEF HintsCover
  <2> DEFINE r == router
             resolved == Resolve(r, Global, tree, t)
             sources == SourcePaths(r, Global, tree, t)
             targets == TargetPaths(r, Global, tree, t)
             listed(last) == ReadDir(r, Global, tree, InfosOf(tree, last), t)
  <2>1. RouterOK(r.routes)
    BY DEF RouteSetInv, BuiltOK, router
  <2>2. t \in Dirs /\ t \in Seq(STRING)
    BY TargetsAreClean DEF Dirs
  <2> HIDE DEF r
  <2>3. AllWide(resolved) /\ IsAnswer(resolved)
    BY <2>1, <2>2, AnswersWide
  <2>4. ASSUME NEW last \in Trees PROVE Wide(listed(last))
    <3> DEFINE own == OwnListing(r, Global, tree, InfosOf(tree, last), t)
               owner == r.routes[BestMatch(r.routes, t)]
    <3>1. Wide(own)
      BY <2>1, <2>2, AnswersWide
    <3>2. \/ listed(last) = own
          \/ listed(last) = MergedListing(r, Global, t, owner, own)
      BY DEF ReadDir
    <3> HIDE DEF own, owner, listed
    <3> QED
      BY <2>1, <3>1, <3>2, MergedWide
  <2>5. targets.err = "none" => CoveredBy(t, targets.sources)
    BY <2>1, <2>2, TargetPathsWide
  <2>6. sources.sources = resolved.sources
        /\ sources.paths = {n.source : n \in resolved.nodes} \ {NoSource}
    <3>1. sources = SourcePathsOf(resolved)
      BY DEF SourcePaths
    <3> HIDE DEF resolved, sources
    <3>2. sources.paths = {n.source : n \in resolved.nodes} \ {NoSource}
      BY <2>3, <3>1, SourcesOf
    <3>3. sources.sources = resolved.sources
      BY <2>3, <3>1 DEF SourcePathsOf, IsAnswer
    <3> QED
      BY <3>2, <3>3
  <2> HIDE DEF resolved, sources, targets, listed
  <2>7. \A n \in resolved.nodes : ~n.virtual => CoveredBy(n.source, resolved.sources)
    BY <2>3 DEF AllWide
  <2>8. \A n \in resolved.nodes : ~n.virtual =>
            \A p \in sources.paths : CoveredBy(p, sources.sources)
    BY <2>3, <2>6 DEF AllWide
  <2>9. \A last \in Trees : \A n \in listed(last).nodes :
            ~n.virtual => CoveredBy(n.source, listed(last).sources)
    BY <2>4 DEF Wide
  <2> QED
    BY <2>5, <2>7, <2>8, <2>9 DEF resolved, sources, targets, listed, r
<1> QED
  BY <1>1, RouteSetInvHolds, PTL

=============================================================================
