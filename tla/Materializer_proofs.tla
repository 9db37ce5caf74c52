------------------------ MODULE Materializer_proofs ------------------------
(* Lemmas about loops, paths and the materializer: what a fold over a        *)
(* sequence computes, the order in which a walk comes to what it lists, what *)
(* the loop over the nodes of one entry, with its conflict policy, keeps of  *)
(* the nodes collected before, and what it hides.                            *)
EXTENDS Materializer, FiniteSetTheorems, SequenceTheorems, WellFoundedInduction, TLAPS

---------------------------------------------------------------------------
(* Loops: what a fold over a sequence computes (FoldLeft of the community    *)
(* modules). The induction it takes is over a set of naturals, and the       *)
(* operator that is folded comes as a function, so that the lemmas can be    *)
(* cited.                                                                    *)

\* A set of naturals has a least element.
LEMMA LeastNatural ==
    ASSUME NEW S \in SUBSET Nat, S # {}
    PROVE  \E m \in S : \A n \in S : m <= n
<1> DEFINE R == OpToRel(<, Nat)
<1>1. IsWellFoundedOn(R, Nat)
  BY NatLessThanWellFounded
<1>2. \A x, y \in Nat : x < y => <<x, y>> \in R
  BY DEF OpToRel
<1> HIDE DEF R
<1>3. PICK x \in S : \A y \in S : ~ (<<y, x>> \in R)
  BY <1>1, WFMin
<1>4. ASSUME NEW y \in S PROVE x <= y
  <2>1. ~(y < x)
    BY <1>2, <1>3
  <2> QED
    BY <2>1
<1> QED
  BY <1>4

\* Induction over the naturals, with the set of those that are done.
LEMMA NatInd ==
    ASSUME NEW S \in SUBSET Nat, 0 \in S, \A n \in S : n + 1 \in S
    PROVE  S = Nat
<1> SUFFICES ASSUME Nat \ S # {} PROVE FALSE
  OBVIOUS
<1>1. PICK m \in Nat \ S : \A n \in Nat \ S : m <= n
  BY LeastNatural
<1>2. m # 0 /\ m - 1 \in Nat /\ m - 1 \in S
  BY <1>1
<1> QED
  BY <1>1, <1>2

\* A set of naturals up to k that is not empty has a largest element.
LEMMA MaxOK ==
    ASSUME NEW k \in Nat, NEW s \in SUBSET (1..k), s # {}
    PROVE  Max(s) \in s /\ \A y \in s : Max(s) >= y
<1> DEFINE gaps == {k - x : x \in s}
<1>1. gaps \in SUBSET Nat /\ gaps # {}
  <2>1. \A x \in s : k - x \in Nat
    OBVIOUS
  <2> QED
    BY <2>1
<1>2. PICK m \in gaps : \A g \in gaps : m <= g
  BY <1>1, LeastNatural
<1>3. PICK x \in s : m = k - x
  BY <1>2
<1>4. \A y \in s : x >= y
  <2>1. \A y \in s : k - y \in gaps
    OBVIOUS
  <2> HIDE DEF gaps
  <2> QED
    BY <1>2, <1>3, <2>1
<1> QED
  BY <1>4 DEF Max

(* g folds step over every set of positions up to k, from the smallest up,   *)
(* as MapThenFoldSet does for FoldLeft.                                      *)
FoldsSets(g, base, step, k) ==
    \A s \in SUBSET (1..k) :
        g[s] = IF s = {} THEN base ELSE step[<<g[s \ {Max(s)}], Max(s)>>]

\* There is such a function.
LEMMA FoldExists ==
    ASSUME NEW S, NEW base \in S, NEW step \in [S \X (Nat \ {0}) -> S], NEW n \in Nat
    PROVE  \E g \in [SUBSET (1..n) -> S] : FoldsSets(g, base, step, n)
<1> DEFINE Done == {k \in Nat : \E g \in [SUBSET (1..k) -> S] : FoldsSets(g, base, step, k)}
<1>1. 0 \in Done
  <2> DEFINE g == [s \in SUBSET (1..0) |-> base]
  <2>1. g \in [SUBSET (1..0) -> S] /\ FoldsSets(g, base, step, 0)
    BY DEF FoldsSets
  <2> QED
    BY <2>1
<1>2. ASSUME NEW k \in Done PROVE k + 1 \in Done
  <2>1. PICK g \in [SUBSET (1..k) -> S] : FoldsSets(g, base, step, k)
    BY <1>2
  <2> DEFINE h == [s \in SUBSET (1..(k + 1)) |->
                      IF k + 1 \in s THEN step[<<g[s \ {k + 1}], k + 1>>] ELSE g[s]]
  <2>2. k \in Nat /\ k + 1 \in Nat \ {0}
    BY <1>2
  <2>3. \A s \in SUBSET (1..(k + 1)) :
            /\ s \ {k + 1} \in SUBSET (1..k)
            /\ k + 1 \notin s => s \in SUBSET (1..k)
    BY <2>2
  <2>4. h \in [SUBSET (1..(k + 1)) -> S]
    BY <2>2, <2>3
  <2>5. \A s \in SUBSET (1..k) : s \in SUBSET (1..(k + 1)) /\ h[s] = g[s]
    BY <2>2
  <2>6. ASSUME NEW s \in SUBSET (1..(k + 1))
        PROVE  h[s] = IF s = {} THEN base ELSE step[<<h[s \ {Max(s)}], Max(s)>>]
    <3>1. CASE k + 1 \in s
      <4>1. Max(s) = k + 1
        <5>1. Max(s) \in s /\ \A y \in s : Max(s) >= y
          BY <2>2, <3>1, MaxOK
        <5>2. Max(s) \in 1..(k + 1) /\ Max(s) >= k + 1
          BY <3>1, <5>1
        <5> QED
          BY <2>2, <5>2
      <4>2. h[s \ {k + 1}] = g[s \ {k + 1}]
        BY <2>3, <2>5
      <4>3. h[s] = step[<<g[s \ {k + 1}], k + 1>>]
        BY <3>1
      <4> HIDE DEF h
      <4> QED
        BY <3>1, <4>1, <4>2, <4>3
    <3>2. CASE k + 1 \notin s
      <4>1. s \in SUBSET (1..k) /\ s \ {Max(s)} \in SUBSET (1..k)
        BY <2>3, <3>2
      <4>2. h[s] = g[s] /\ h[s \ {Max(s)}] = g[s \ {Max(s)}]
        BY <2>5, <4>1
      <4> HIDE DEF h
      <4> QED
        BY <2>1, <4>1, <4>2 DEF FoldsSets
    <3> QED
      BY <3>1, <3>2
  <2> HIDE DEF h
  <2> QED
    BY <2>2, <2>4, <2>6 DEF FoldsSets
<1>3. Done = Nat
  <2> HIDE DEF Done
  <2>1. Done \in SUBSET Nat
    BY DEF Done
  <2> QED
    BY <1>1, <1>2, <2>1, NatInd
<1> QED
  BY <1>3

\* Of the first k + 1 positions it takes the last, and goes on with the first k.
LEMMA LastOfInterval ==
    ASSUME NEW k \in Nat
    PROVE  Max(1..(k + 1)) = k + 1 /\ (1..(k + 1)) \ {k + 1} = 1..k
<1> DEFINE s == 1..(k + 1)
<1>1. k + 1 \in Nat /\ k + 1 \in s /\ s \in SUBSET (1..(k + 1)) /\ s # {}
  OBVIOUS
<1> HIDE DEF s
<1>2. Max(s) \in s /\ Max(s) >= k + 1
  BY <1>1, MaxOK
<1>3. Max(s) = k + 1
  BY <1>2 DEF s
<1>4. \A x : x \in s \ {k + 1} <=> x \in 1..k
  BY DEF s
<1> QED
  BY <1>3, <1>4 DEF s

---------------------------------------------------------------------------
(* Paths.                                                                    *)

Dirs == Seq(STRING)

\* q is p or a directory above it.
OnWay(q, p) == Len(q) <= Len(p) /\ SubSeq(p, 1, Len(q)) = q

LEMMA OnWayIs ==
    ASSUME NEW q \in Dirs, NEW p \in Dirs
    PROVE  /\ Len(q) \in Nat /\ Len(p) \in Nat
           /\ OnWay(q, p) <=> Len(q) <= Len(p) /\ \A i \in 1..Len(q) : p[i] = q[i]
<1>1. /\ Len(q) \in Nat /\ DOMAIN q = 1..Len(q) /\ q \in Seq(STRING)
      /\ Len(p) \in Nat /\ DOMAIN p = 1..Len(p) /\ p \in Seq(STRING)
  BY DEF Dirs
<1>2. \A i \in 1..Len(p) : p[i] \in STRING
  BY <1>1
<1>3. ASSUME Len(q) <= Len(p)
      PROVE  SubSeq(p, 1, Len(q)) = q <=> \A i \in 1..Len(q) : p[i] = q[i]
  <2> DEFINE s == SubSeq(p, 1, Len(q))
  <2>1. \A i \in 1..Len(q) : p[i] \in STRING
    BY <1>1, <1>2, <1>3
  <2>2. s \in Seq(STRING) /\ Len(s) = Len(q) /\ \A i \in 1..Len(q) : s[i] = p[i]
    BY <1>1, <1>3, <2>1, SubSeqProperties
  <2> HIDE DEF s
  <2>3. s = q <=> \A i \in 1..Len(q) : s[i] = q[i]
    BY <1>1, <2>2, SeqEqual
  <2> QED
    BY <2>2, <2>3 DEF s
<1> QED
  BY <1>1, <1>3 DEF OnWay

LEMMA OnWayTrans ==
    ASSUME NEW p \in Dirs, NEW q \in Dirs, NEW r \in Dirs, OnWay(p, q), OnWay(q, r)
    PROVE  OnWay(p, r)
<1>1. Len(p) \in Nat /\ Len(q) \in Nat /\ Len(p) <= Len(q) /\ \A i \in 1..Len(p) : q[i] = p[i]
  BY OnWayIs
<1>2. Len(r) \in Nat /\ Len(q) <= Len(r) /\ \A i \in 1..Len(q) : r[i] = q[i]
  BY OnWayIs
<1>3. Len(p) <= Len(r) /\ \A i \in 1..Len(p) : r[i] = p[i]
  BY <1>1, <1>2
<1> QED
  BY <1>3, OnWayIs

\* The n segments a path begins with.
LEMMA BeginsIs ==
    ASSUME NEW p \in Dirs, NEW n \in Nat, n <= Len(p)
    PROVE  /\ SubSeq(p, 1, n) \in Dirs /\ Len(SubSeq(p, 1, n)) = n
           /\ \A i \in 1..n : SubSeq(p, 1, n)[i] = p[i]
           /\ OnWay(SubSeq(p, 1, n), p)
<1>1. Len(p) \in Nat /\ p \in Seq(STRING) /\ \A i \in 1..Len(p) : p[i] \in STRING
  BY DEF Dirs
<1> DEFINE s == SubSeq(p, 1, n)
<1>2. \A i \in 1..n : p[i] \in STRING
  BY <1>1
<1>3. s \in Seq(STRING) /\ Len(s) = n /\ \A i \in 1..n : s[i] = p[i]
  BY <1>1, <1>2, SubSeqProperties
<1> HIDE DEF s
<1>4. OnWay(s, p)
  BY <1>3, OnWayIs DEF Dirs
<1> QED
  BY <1>3, <1>4 DEF s, Dirs

\* What lies directly under a directory: one segment more.
LEMMA ChildIs ==
    ASSUME NEW p \in Dirs, NEW d \in Dirs
    PROVE  ChildOf(p, d) <=> Len(p) = Len(d) + 1 /\ OnWay(d, p)
<1>1. Len(p) \in Nat /\ Len(d) \in Nat /\ (p = << >> <=> Len(p) = 0)
  BY DEF Dirs
<1>2. CASE p = << >>
  BY <1>1, <1>2 DEF ChildOf, Root
<1>3. CASE p # << >>
  <2>1. Len(p) - 1 \in Nat /\ Len(p) - 1 <= Len(p)
    BY <1>1, <1>3
  <2> DEFINE s == SubSeq(p, 1, Len(p) - 1)
  <2>2. s \in Dirs /\ Len(s) = Len(p) - 1 /\ OnWay(s, p)
    BY <2>1, BeginsIs
  <2>3. ChildOf(p, d) <=> s = d
    BY <1>3 DEF ChildOf, ParentPath, Root
  <2>4. Len(p) = Len(d) + 1 /\ OnWay(d, p) => s = d
    <3>1. Len(p) = Len(d) + 1 => Len(p) - 1 = Len(d)
      BY <1>1
    <3> QED
      BY <3>1 DEF OnWay
  <2> HIDE DEF s
  <2> QED
    BY <1>1, <2>2, <2>3, <2>4
<1> QED
  BY <1>2, <1>3

LEMMA PrefixIs ==
    ASSUME NEW p \in Dirs, NEW q \in Dirs
    PROVE  HasPathPrefix(p, q) /\ p # q <=> Len(q) < Len(p) /\ OnWay(q, p)
<1>1. Len(p) \in Nat /\ Len(q) \in Nat /\ (p = << >> <=> Len(p) = 0) /\ (q = << >> <=> Len(q) = 0)
  BY DEF Dirs
<1>2. q = << >> => OnWay(q, p)
  BY <1>1, OnWayIs
<1>3. CASE q = << >>
  BY <1>1, <1>2, <1>3 DEF HasPathPrefix, Root
<1>4. CASE q # << >>
  BY <1>1, <1>4 DEF HasPathPrefix, Root, OnWay
<1> QED
  BY <1>3, <1>4

---------------------------------------------------------------------------
(* The order in which fs.ReadDir lists a directory.                          *)

\* How many come before each.
Ranks(S, R) == [p \in S |-> Cardinality({q \in S : <<q, p>> \in R})]

\* In a strict total order, ranks number a finite set from 0 on.
LEMMA RanksNumber ==
    ASSUME NEW S, IsFiniteSet(S), NEW R,
           \A p \in S : <<p, p>> \notin R,
           \A p, q, r \in S : <<p, q>> \in R /\ <<q, r>> \in R => <<p, r>> \in R,
           \A p, q \in S : p = q \/ <<p, q>> \in R \/ <<q, p>> \in R
    PROVE  /\ Ranks(S, R) \in Bijection(S, 0..(Cardinality(S) - 1))
           /\ \A p, q \in S : <<p, q>> \in R => Ranks(S, R)[p] < Ranks(S, R)[q]
<1> DEFINE below(p) == {q \in S : <<q, p>> \in R}
           rank == [p \in S |-> Cardinality(below(p))]
           n == Cardinality(S)
<1>1. n \in Nat
  BY FS_CardinalityType
<1>2. ASSUME NEW p \in S
      PROVE  IsFiniteSet(below(p)) /\ rank[p] \in Nat /\ rank[p] < n
  <2>1. below(p) \in SUBSET S /\ p \in S /\ p \notin below(p)
    OBVIOUS
  <2>2. below(p) # S
    BY <2>1
  <2> HIDE DEF below
  <2>3. IsFiniteSet(below(p)) /\ Cardinality(below(p)) <= n /\ Cardinality(below(p)) # n
    BY <2>1, <2>2, FS_Subset
  <2>4. Cardinality(below(p)) \in Nat
    BY <2>3, FS_CardinalityType
  <2>5. rank[p] = Cardinality(below(p))
    OBVIOUS
  <2> HIDE DEF rank
  <2> QED
    BY <1>1, <2>3, <2>4, <2>5
<1>3. ASSUME NEW p \in S, NEW q \in S, <<p, q>> \in R
      PROVE  rank[p] < rank[q]
  <2>1. below(p) \in SUBSET below(q) /\ p \in below(q) /\ p \notin below(p)
    BY <1>3
  <2>2. below(p) # below(q)
    BY <2>1
  <2>3. rank[p] = Cardinality(below(p)) /\ rank[q] = Cardinality(below(q))
    OBVIOUS
  <2>4. IsFiniteSet(below(q)) /\ rank[p] \in Nat /\ rank[q] \in Nat
    BY <1>2
  <2> HIDE DEF below, rank
  <2>5. Cardinality(below(p)) <= Cardinality(below(q))
        /\ Cardinality(below(p)) # Cardinality(below(q))
    BY <2>1, <2>2, <2>4, FS_Subset
  <2> QED
    BY <2>3, <2>4, <2>5
<1>4. rank \in [S -> 0..(n - 1)]
  <2>1. \A p \in S : rank[p] \in 0..(n - 1)
    <3> HIDE DEF rank, below, n
    <3> QED
      BY <1>1, <1>2
  <2>2. rank = [p \in S |-> rank[p]]
    OBVIOUS
  <2> HIDE DEF rank, n
  <2> QED
    BY <2>1, <2>2
<1>5. \A p, q \in S : rank[p] = rank[q] => p = q
  <2> HIDE DEF rank, below, n
  <2>1. \A p \in S : rank[p] \in Nat
    BY <1>2
  <2>2. ASSUME NEW p \in S, NEW q \in S, rank[p] = rank[q], p # q PROVE FALSE
    <3>1. <<p, q>> \in R \/ <<q, p>> \in R
      BY <2>2
    <3> QED
      BY <1>3, <2>1, <2>2, <3>1
  <2> QED
    BY <2>2
<1>6. rank \in Injection(S, 0..(n - 1))
  <2> HIDE DEF rank, n
  <2> QED
    BY <1>4, <1>5 DEF Injection, IsInjective
<1>7. IsFiniteSet(0..(n - 1)) /\ Cardinality(0..(n - 1)) = n
  <2>1. 0 \in Int /\ n - 1 \in Int /\ (0 > n - 1 => n = 0) /\ n - 1 - 0 + 1 = n
    BY <1>1
  <2> HIDE DEF n
  <2> QED
    BY <2>1, FS_Interval
<1>8. rank \in Surjection(S, 0..(n - 1))
  <2> HIDE DEF rank
  <2> QED
    BY <1>6, <1>7, FS_Injection
<1>9. rank = Ranks(S, R)
  BY DEF Ranks
<1> HIDE DEF rank
<1> QED
  BY <1>3, <1>6, <1>8, <1>9 DEF Bijection

\* Where the walk's order is total, InOrder lists every path, and only them.
LEMMA InOrderLists ==
    ASSUME NEW paths, IsFiniteSet(paths),
           \A p \in paths : ~WalkedBefore(p, p),
           \A p, q, r \in paths : WalkedBefore(p, q) /\ WalkedBefore(q, r) => WalkedBefore(p, r),
           \A p, q \in paths : p = q \/ WalkedBefore(p, q) \/ WalkedBefore(q, p)
    PROVE  LET n == Cardinality(paths)
           IN  /\ n \in Nat
               /\ InOrder(paths) \in [1..n -> paths]
               /\ \A p \in paths : \E i \in 1..n : InOrder(paths)[i] = p
               /\ \A i, j \in 1..n : WalkedBefore(InOrder(paths)[i], InOrder(paths)[j]) <=> i < j
<1> DEFINE n == Cardinality(paths)
           R == {e \in paths \X paths : WalkedBefore(e[1], e[2])}
           rank == [p \in paths |-> Cardinality({q \in paths : <<q, p>> \in R})]
<1>1. n \in Nat
  BY FS_CardinalityType
<1>2. \A p, q \in paths : <<q, p>> \in R <=> WalkedBefore(q, p)
  OBVIOUS
<1>3. /\ rank \in Bijection(paths, 0..(n - 1))
      /\ \A p, q \in paths : <<p, q>> \in R => rank[p] < rank[q]
  <2> HIDE DEF R
  <2>1. \A p \in paths : <<p, p>> \notin R
    BY <1>2
  <2>2. \A p, q, r \in paths : <<p, q>> \in R /\ <<q, r>> \in R => <<p, r>> \in R
    BY <1>2
  <2>3. \A p, q \in paths : p = q \/ <<p, q>> \in R \/ <<q, p>> \in R
    BY <1>2
  <2>4. rank = Ranks(paths, R)
    BY DEF Ranks
  <2> HIDE DEF rank
  <2> QED
    BY <2>1, <2>2, <2>3, <2>4, RanksNumber
<1>4. ASSUME NEW p \in paths
      PROVE  Cardinality({q \in paths : WalkedBefore(q, p)}) = rank[p]
  <2>1. {q \in paths : WalkedBefore(q, p)} = {q \in paths : <<q, p>> \in R}
    BY <1>2
  <2> HIDE DEF R
  <2> QED
    BY <2>1
<1> HIDE DEF rank
<1>5. /\ \A p \in paths : rank[p] \in 0..(n - 1)
      /\ \A p, q \in paths : rank[p] = rank[q] => p = q
      /\ \A k \in 0..(n - 1) : \E p \in paths : rank[p] = k
  BY <1>3 DEF Bijection, Injection, Surjection, IsInjective
<1> DEFINE at(i) == CHOOSE p \in paths : Cardinality({q \in paths : WalkedBefore(q, p)}) = i - 1
<1>6. \A i \in 1..n : at(i) \in paths /\ rank[at(i)] = i - 1
  <2>1. \A i \in 1..n : i - 1 \in 0..(n - 1)
    BY <1>1
  <2> HIDE DEF n
  <2>2. \A i \in 1..n : \E p \in paths : Cardinality({q \in paths : WalkedBefore(q, p)}) = i - 1
    BY <1>4, <1>5, <2>1
  <2>3. \A i \in 1..n : at(i) \in paths /\ Cardinality({q \in paths : WalkedBefore(q, at(i))}) = i - 1
    BY <2>2
  <2> HIDE DEF at
  <2> QED
    BY <1>4, <2>3
<1>7. InOrder(paths) = [i \in 1..n |-> at(i)]
  BY DEF InOrder
<1> HIDE DEF at
<1>8. ASSUME NEW p \in paths PROVE \E i \in 1..n : at(i) = p
  <2>1. rank[p] \in 0..(n - 1)
    BY <1>5
  <2> DEFINE i == rank[p] + 1
  <2>3. i \in 1..n /\ i - 1 = rank[p]
    BY <1>1, <2>1
  <2> HIDE DEF i, n
  <2>4. at(i) \in paths /\ rank[at(i)] = rank[p]
    BY <1>6, <2>3
  <2>5. at(i) = p
    BY <1>5, <2>4
  <2> QED
    BY <2>3, <2>5
<1>9. ASSUME NEW i \in 1..n, NEW j \in 1..n PROVE WalkedBefore(at(i), at(j)) <=> i < j
  <2>1. at(i) \in paths /\ at(j) \in paths /\ rank[at(i)] = i - 1 /\ rank[at(j)] = j - 1
    BY <1>6
  <2>2. \A p, q \in paths : WalkedBefore(p, q) => rank[p] < rank[q]
    <3> HIDE DEF R
    <3> QED
      BY <1>2, <1>3
  <2>3. i \in Nat /\ j \in Nat
    BY <1>1
  <2> HIDE DEF n
  <2>4. WalkedBefore(at(i), at(j)) => i < j
    BY <2>1, <2>2, <2>3
  <2>5. WalkedBefore(at(j), at(i)) => j < i
    BY <2>1, <2>2, <2>3
  <2>6. i < j => at(i) # at(j)
    BY <2>1, <2>3
  <2> QED
    BY <2>1, <2>3, <2>4, <2>5, <2>6
<1> HIDE DEF n
<1> QED
  BY <1>1, <1>6, <1>7, <1>8, <1>9 DEF n

\* p and q differ first in their segment i, and p is before q.
Splits(p, q, i) ==
    /\ i \in 1..Len(p) /\ i \in 1..Len(q)
    /\ NameBefore(p[i], q[i])
    /\ \A j \in 1..(i - 1) : p[j] = q[j]

Paths == Dirs \ {Root}

LEMMA WalkedBeforeIs ==
    ASSUME NEW p \in Paths, NEW q \in Paths
    PROVE  /\ Len(p) \in Nat /\ Len(p) > 0
           /\ WalkedBefore(p, q) <=>
                  \/ Len(p) < Len(q) /\ \A i \in 1..Len(p) : q[i] = p[i]
                  \/ \E i \in Nat : Splits(p, q, i)
<1>1. p \in Dirs /\ q \in Dirs /\ p # Root
  BY DEF Paths
<1>2. Len(p) \in Nat /\ Len(p) > 0 /\ Len(q) \in Nat
  BY <1>1 DEF Dirs, Root
<1>3. HasPathPrefix(q, p) <=> Len(p) < Len(q) /\ \A i \in 1..Len(p) : q[i] = p[i]
  BY <1>1, <1>2, OnWayIs DEF HasPathPrefix, OnWay
<1>4. (\E i \in (1..Len(p)) \cap (1..Len(q)) :
           /\ NameBefore(p[i], q[i])
           /\ \A j \in 1..(i - 1) : p[j] = q[j])
      <=> \E i \in Nat : Splits(p, q, i)
  BY <1>2 DEF Splits
<1> QED
  BY <1>2, <1>3, <1>4 DEF WalkedBefore

\* p and what is below it come before q and what is below that.
Apart(p, q) == \E i \in Nat : Splits(p, q, i)

LEMMA ApartStays ==
    ASSUME NEW p \in Dirs, NEW q \in Dirs, Apart(p, q),
           NEW s \in Dirs, OnWay(p, s), NEW t \in Dirs, OnWay(q, t)
    PROVE  Apart(s, t)
<1>1. PICK i \in Nat : Splits(p, q, i)
  BY DEF Apart
<1>2. Len(p) \in Nat /\ Len(s) \in Nat /\ Len(p) <= Len(s) /\ \A j \in 1..Len(p) : s[j] = p[j]
  BY OnWayIs
<1>3. Len(q) \in Nat /\ Len(t) \in Nat /\ Len(q) <= Len(t) /\ \A j \in 1..Len(q) : t[j] = q[j]
  BY OnWayIs
<1>4. i \in 1..Len(p) /\ i \in 1..Len(q)
  BY <1>1 DEF Splits
<1>5. i \in 1..Len(s) /\ i \in 1..Len(t) /\ s[i] = p[i] /\ t[i] = q[i]
  BY <1>2, <1>3, <1>4
<1>6. \A j \in 1..(i - 1) : s[j] = t[j]
  <2>1. \A j \in 1..(i - 1) : j \in 1..Len(p) /\ j \in 1..Len(q)
    BY <1>2, <1>3, <1>4
  <2> QED
    BY <1>1, <1>2, <1>3, <2>1 DEF Splits
<1>7. Splits(s, t, i)
  BY <1>1, <1>5, <1>6 DEF Splits
<1> QED
  BY <1>7 DEF Apart

LEMMA ApartIsBefore ==
    ASSUME NEW p \in Paths, NEW q \in Paths
    PROVE  Apart(p, q) => WalkedBefore(p, q)
BY WalkedBeforeIs DEF Apart

\* Two entries of one directory.
LEMMA SiblingsApart ==
    ASSUME NEW p \in Paths, NEW q \in Paths, NEW d \in Dirs, ChildOf(p, d), ChildOf(q, d),
           WalkedBefore(p, q)
    PROVE  Apart(p, q)
<1>1. p \in Dirs /\ q \in Dirs
  BY DEF Paths
<1>2. Len(p) = Len(d) + 1 /\ Len(q) = Len(d) + 1 /\ Len(d) \in Nat
  BY <1>1, ChildIs DEF Dirs
<1> QED
  BY <1>2, WalkedBeforeIs DEF Apart

\* Where names are in order, so are the paths: depth first.
LEMMA WalkOrder ==
    ASSUME NEW trees, OrdersNames(trees),
           NEW p \in Paths, NEW q \in Paths, NEW r \in Paths,
           \A i \in 1..Len(p) : p[i] \in NamesIn(trees),
           \A i \in 1..Len(q) : q[i] \in NamesIn(trees),
           \A i \in 1..Len(r) : r[i] \in NamesIn(trees)
    PROVE  /\ ~WalkedBefore(p, p)
           /\ WalkedBefore(p, q) /\ WalkedBefore(q, r) => WalkedBefore(p, r)
           /\ p = q \/ WalkedBefore(p, q) \/ WalkedBefore(q, p)
<1> DEFINE N == NamesIn(trees)
           Begins(s, t) == Len(s) < Len(t) /\ \A i \in 1..Len(s) : t[i] = s[i]
<1>1. /\ \A a \in N : ~NameBefore(a, a)
      /\ \A a, b, c \in N : NameBefore(a, b) /\ NameBefore(b, c) => NameBefore(a, c)
      /\ \A a, b \in N : a = b \/ NameBefore(a, b) \/ NameBefore(b, a)
  BY DEF OrdersNames
<1>2. /\ \A i \in 1..Len(p) : p[i] \in N
      /\ \A i \in 1..Len(q) : q[i] \in N
      /\ \A i \in 1..Len(r) : r[i] \in N
  OBVIOUS
<1> HIDE DEF N
<1>3. /\ Len(p) \in Nat /\ Len(p) > 0
      /\ Len(q) \in Nat /\ Len(q) > 0
      /\ Len(r) \in Nat /\ Len(r) > 0
  BY WalkedBeforeIs
<1>4. \A s, t \in Paths :
          WalkedBefore(s, t) <=> Begins(s, t) \/ \E i \in Nat : Splits(s, t, i)
  BY WalkedBeforeIs
<1>5. ~WalkedBefore(p, p)
  BY <1>1, <1>2, <1>3, <1>4 DEF Splits
<1>6. ASSUME WalkedBefore(p, q), WalkedBefore(q, r) PROVE WalkedBefore(p, r)
  <2>1. CASE Begins(p, q) /\ Begins(q, r)
    <3>1. Begins(p, r)
      BY <1>3, <2>1
    <3> QED
      BY <1>4, <3>1
  <2>2. ASSUME Begins(p, q), NEW i \in Nat, Splits(q, r, i) PROVE WalkedBefore(p, r)
    <3>1. CASE i <= Len(p)
      <4>1. Splits(p, r, i)
        BY <1>3, <2>2, <3>1 DEF Splits
      <4> QED
        BY <1>4, <4>1
    <3>2. CASE ~(i <= Len(p))
      <4>1. Begins(p, r)
        BY <1>3, <2>2, <3>2 DEF Splits
      <4> QED
        BY <1>4, <4>1
    <3> QED
      BY <3>1, <3>2
  <2>3. ASSUME NEW i \in Nat, Splits(p, q, i), Begins(q, r) PROVE WalkedBefore(p, r)
    <3>1. Splits(p, r, i)
      BY <1>3, <2>3 DEF Splits
    <3> QED
      BY <1>4, <3>1
  <2>4. ASSUME NEW i \in Nat, Splits(p, q, i), NEW k \in Nat, Splits(q, r, k)
        PROVE  WalkedBefore(p, r)
    <3>1. CASE i < k
      <4>1. Splits(p, r, i)
        BY <1>3, <2>4, <3>1 DEF Splits
      <4> QED
        BY <1>4, <4>1
    <3>2. CASE i = k
      <4>1. NameBefore(p[i], r[i])
        BY <1>1, <1>2, <2>4, <3>2 DEF Splits
      <4>2. Splits(p, r, i)
        BY <1>3, <2>4, <3>2, <4>1 DEF Splits
      <4> QED
        BY <1>4, <4>2
    <3>3. CASE i > k
      <4>1. Splits(p, r, k)
        BY <1>3, <2>4, <3>3 DEF Splits
      <4> QED
        BY <1>4, <4>1
    <3> QED
      BY <3>1, <3>2, <3>3
  <2> HIDE DEF Begins
  <2> QED
    BY <1>4, <1>6, <2>1, <2>2, <2>3, <2>4
<1>7. p = q \/ WalkedBefore(p, q) \/ WalkedBefore(q, p)
  <2> DEFINE apart == {i \in Nat : i \in 1..Len(p) /\ i \in 1..Len(q) /\ p[i] # q[i]}
  <2>1. CASE apart # {}
    <3>1. PICK i \in apart : \A j \in apart : i <= j
      <4>1. apart \in SUBSET Nat
        OBVIOUS
      <4> HIDE DEF apart
      <4> QED
        BY <2>1, <4>1, LeastNatural
    <3>2. \A j \in 1..(i - 1) : p[j] = q[j]
      BY <1>3, <3>1
    <3>3. NameBefore(p[i], q[i]) \/ NameBefore(q[i], p[i])
      BY <1>1, <1>2, <3>1
    <3>4. Splits(p, q, i) \/ Splits(q, p, i)
      BY <3>1, <3>2, <3>3 DEF Splits
    <3> QED
      BY <1>4, <3>1, <3>4
  <2>2. CASE apart = {} /\ Len(p) = Len(q)
    <3>1. \A i \in 1..Len(p) : p[i] = q[i]
      BY <1>3, <2>2
    <3> QED
      BY <2>2, <3>1, SeqEqual DEF Paths, Dirs
  <2>3. CASE apart = {} /\ Len(p) < Len(q)
    <3>1. Begins(p, q)
      BY <1>3, <2>3
    <3> QED
      BY <1>4, <3>1
  <2>4. CASE apart = {} /\ Len(q) < Len(p)
    <3>1. Begins(q, p)
      BY <1>3, <2>4
    <3> QED
      BY <1>4, <3>1
  <2> QED
    BY <1>3, <2>1, <2>2, <2>3, <2>4
<1> QED
  BY <1>5, <1>6, <1>7

\* So InOrder lists any paths of a tree but its root.
LEMMA TreeInOrder ==
    ASSUME NEW trees, OrdersNames(trees), NEW tree \in trees,
           IsFiniteSet(DOMAIN tree), DOMAIN tree \subseteq Dirs,
           NEW paths \in SUBSET (DOMAIN tree \ {Root})
    PROVE  LET n == Cardinality(paths)
           IN  /\ n \in Nat
               /\ InOrder(paths) \in [1..n -> paths]
               /\ \A p \in paths : \E i \in 1..n : InOrder(paths)[i] = p
               /\ \A i, j \in 1..n : WalkedBefore(InOrder(paths)[i], InOrder(paths)[j]) <=> i < j
<1>1. IsFiniteSet(paths)
  BY FS_Subset
<1>2. paths \subseteq Paths
  BY DEF Paths
<1>3. ASSUME NEW p \in paths, NEW i \in 1..Len(p) PROVE p[i] \in NamesIn(trees)
  <2>1. DOMAIN p = 1..Len(p)
    BY DEF Dirs
  <2>2. p[i] \in ToSet(p)
    BY <2>1 DEF ToSet
  <2> QED
    BY <2>2 DEF NamesIn
<1>4. ASSUME NEW p \in paths, NEW q \in paths, NEW r \in paths
      PROVE  /\ ~WalkedBefore(p, p)
             /\ WalkedBefore(p, q) /\ WalkedBefore(q, r) => WalkedBefore(p, r)
             /\ p = q \/ WalkedBefore(p, q) \/ WalkedBefore(q, p)
  <2>1. p \in Paths /\ q \in Paths /\ r \in Paths
    BY <1>2
  <2> QED
    BY <1>3, <2>1, WalkOrder
<1> QED
  BY <1>1, <1>4, InOrderLists

---------------------------------------------------------------------------
(* materializeState.                                                         *)

\* One node per target path: its nodes are a map by target path.
OneEach(s) ==
    /\ s = [err |-> s.err, nodes |-> s.nodes, counts |-> s.counts]
    /\ \A m, n \in s.nodes : m.path = n.path => m = n

\* Finitely many nodes, and counts that are numbers.
Numbered(s) ==
    /\ IsFiniteSet(s.nodes)
    /\ \A t \in DOMAIN s.counts : s.counts[t] \in Nat

IsNode(n) ==
    /\ n = [path |-> n.path, source |-> n.source, kind |-> n.kind, stamp |-> n.stamp,
            virtual |-> n.virtual]
    /\ n.path \in Dirs

(* What uniqueTargetPath relies on: fmt.Sprintf("%s_%d%s", ...) of different *)
(* numbers gives different names.                                            *)
SuffixesDiffer ==
    \A name : \A m, n \in Nat : Suffixed(name, m) = Suffixed(name, n) => m = n

LEMMA StartsEmpty ==
    /\ OneEach(EmptyState) /\ Numbered(EmptyState) /\ EmptyState.err = "none"
    /\ \A e : OneEach(FailedState(e)) /\ Numbered(FailedState(e)) /\ FailedState(e).err = e
<1>1. IsFiniteSet({}) /\ DOMAIN << >> = {}
  BY FS_EmptySet
<1> QED
  BY <1>1 DEF OneEach, Numbered, EmptyState, FailedState

LEMMA PlacedOK ==
    ASSUME NEW s, OneEach(s), NEW n
    PROVE  /\ OneEach(Placed(s, n)) /\ Placed(s, n).err = s.err
           /\ Placed(s, n).counts = s.counts
           /\ Placed(s, n).nodes = {m \in s.nodes : m.path # n.path} \cup {n}
           /\ IsFiniteSet(s.nodes) => IsFiniteSet(Placed(s, n).nodes)
<1> DEFINE kept == {m \in s.nodes : m.path # n.path}
<1>1. Placed(s, n) = [err |-> s.err, nodes |-> kept \cup {n}, counts |-> s.counts]
  BY DEF Placed, OneEach
<1>2. \A a, b \in kept \cup {n} : a.path = b.path => a = b
  BY DEF OneEach
<1>3. IsFiniteSet(s.nodes) => IsFiniteSet(kept \cup {n})
  <2>1. kept \in SUBSET s.nodes
    OBVIOUS
  <2> HIDE DEF kept
  <2>2. IsFiniteSet(s.nodes) => IsFiniteSet(kept)
    BY <2>1, FS_Subset
  <2> QED
    BY <2>2, FS_AddElement
<1> HIDE DEF kept
<1>4. OneEach(Placed(s, n))
  BY <1>1, <1>2 DEF OneEach
<1> QED
  BY <1>1, <1>3, <1>4 DEF kept

\* The names with "_n" of one path are different.
LEMMA RenamedDiffer ==
    ASSUME SuffixesDiffer, NEW target \in Dirs, NEW m \in Nat, NEW n \in Nat,
           Renamed(target, m) = Renamed(target, n)
    PROVE  m = n
<1> DEFINE parent == ParentPath(target)
           x == Suffixed(target[Len(target)], m)
           y == Suffixed(target[Len(target)], n)
           S == STRING \cup {x, y}
<1>1. parent \in Seq(S)
  <2>1. parent \in Dirs
    <3>1. Len(target) \in Nat /\ (target = << >> <=> Len(target) = 0)
      BY DEF Dirs
    <3>2. CASE target = << >>
      BY <3>2 DEF ParentPath, Root, Dirs
    <3>3. CASE target # << >>
      <4>1. Len(target) - 1 \in Nat /\ Len(target) - 1 <= Len(target)
        BY <3>1, <3>3
      <4> QED
        BY <3>3, <4>1, BeginsIs DEF ParentPath, Root
    <3> QED
      BY <3>2, <3>3
  <2> HIDE DEF parent, x, y
  <2> QED
    BY <2>1 DEF Dirs
<1>2. x \in S /\ y \in S
  OBVIOUS
<1>3. Append(parent, x) = Append(parent, y)
  BY DEF Renamed
<1>4. x = y
  <2> HIDE DEF S, parent, x, y
  <2> QED
    BY <1>1, <1>2, <1>3, AppendInjective
<1> QED
  BY <1>4 DEF SuffixesDiffer

\* One of the names with "_n", from the last used on, is free: there is one more of
\* them than there are nodes.
LEMMA RenameIndexIsFree ==
    ASSUME SuffixesDiffer, NEW s, Numbered(s), NEW target \in Dirs
    PROVE  /\ RenameIndex(s, target) \in Nat
           /\ Renamed(target, RenameIndex(s, target)) \notin TargetsOf(s.nodes)
<1> DEFINE from == CountOf(s, target) + 1
           card == Cardinality(s.nodes)
           I == from..(from + card)
           free == {n \in I : Renamed(target, n) \notin TargetsOf(s.nodes)}
<1>1. from \in Nat /\ card \in Nat /\ IsFiniteSet(s.nodes)
  <2>1. CountOf(s, target) \in Nat
    BY DEF Numbered, CountOf
  <2>2. IsFiniteSet(s.nodes)
    BY DEF Numbered
  <2> QED
    BY <2>1, <2>2, FS_CardinalityType
<1>2. IsFiniteSet(I) /\ Cardinality(I) = card + 1 /\ I \in SUBSET Nat
  <2>1. I \subseteq Nat
    BY <1>1
  <2> DEFINE to == from + card
  <2>2. I = from..to
    OBVIOUS
  <2> HIDE DEF from, card, I
  <2>3. from \in Int /\ to \in Int /\ ~(from > to) /\ to - from + 1 = card + 1 /\ I = from..to
    BY <1>1, <2>2
  <2> HIDE DEF to
  <2>4. IsFiniteSet(from..to) /\ Cardinality(from..to) = to - from + 1
    BY <2>3, FS_Interval
  <2>5. IsFiniteSet(I) /\ Cardinality(I) = card + 1
    BY <2>3, <2>4
  <2>6. I \in SUBSET Nat
    BY <2>1
  <2> QED
    BY <2>5, <2>6
<1> HIDE DEF from, I, card
<1>3. free # {}
  <2> SUFFICES ASSUME free = {} PROVE FALSE
    OBVIOUS
  <2> DEFINE f == [n \in I |-> CHOOSE m \in s.nodes : m.path = Renamed(target, n)]
  <2>1. \A n \in I : \E m \in s.nodes : m.path = Renamed(target, n)
    <3>1. \A n \in I : Renamed(target, n) \in TargetsOf(s.nodes)
      OBVIOUS
    <3> QED
      BY <3>1 DEF TargetsOf
  <2>2. \A n \in I : f[n] \in s.nodes /\ f[n].path = Renamed(target, n)
    BY <2>1
  <2>3. f \in [I -> s.nodes]
    BY <2>2
  <2> HIDE DEF f, free
  <2>4. card < Cardinality(I)
    BY <1>1, <1>2
  <2>5. PICK x, y \in I : x # y /\ f[x] = f[y]
    BY <1>1, <1>2, <2>3, <2>4, FS_PigeonHole DEF card
  <2>6. Renamed(target, x) = Renamed(target, y) /\ x \in Nat /\ y \in Nat
    BY <1>2, <2>2, <2>5
  <2> QED
    BY <2>5, <2>6, RenamedDiffer
<1>4. free \in SUBSET Nat
  BY <1>2
<1>5. RenameIndex(s, target) = Min(free)
  BY DEF RenameIndex, free, I, from, card
<1>6. Min(free) \in free
  <2> HIDE DEF free
  <2>1. \E x \in free : \A y \in free : x <= y
    BY <1>3, <1>4, LeastNatural
  <2> QED
    BY <2>1 DEF Min
<1> QED
  BY <1>4, <1>5, <1>6

\* What of the nodes of s is kept in t, and that one of the nodes stands for n:
\* under the rename policy the nodes themselves, else their paths.
Keeps(policy, s, t) ==
    IF policy = "rename" THEN s.nodes \subseteq t.nodes
    ELSE TargetsOf(s.nodes) \subseteq TargetsOf(t.nodes)

Holds(policy, s, n) ==
    \E m \in s.nodes : IF policy = "rename" THEN m.source = n.source /\ m.stamp = n.stamp
                       ELSE m.path = n.path

LEMMA HoldsStays ==
    ASSUME NEW policy, NEW s, NEW t, NEW n, Keeps(policy, s, t), Holds(policy, s, n)
    PROVE  Holds(policy, t, n)
<1>1. CASE policy = "rename"
  BY <1>1 DEF Keeps, Holds
<1>2. CASE policy # "rename"
  <2>1. n.path \in TargetsOf(s.nodes)
    BY <1>2 DEF Holds, TargetsOf
  <2>2. n.path \in TargetsOf(t.nodes)
    BY <1>2, <2>1 DEF Keeps
  <2> QED
    BY <1>2, <2>2 DEF Holds, TargetsOf
<1> QED
  BY <1>1, <1>2

\* Whatever becomes of the node, nothing that has been placed is given up.
LEMMA AddRenamedOK ==
    ASSUME NEW s, OneEach(s), NEW n, IsNode(n)
    PROVE  LET t == AddRenamed(s, n)
           IN  /\ OneEach(t) /\ t.err = s.err
               /\ SuffixesDiffer /\ Numbered(s) =>
                      Numbered(t) /\ Keeps("rename", s, t) /\ Holds("rename", t, n)
<1> DEFINE t == AddRenamed(s, n)
           k == RenameIndex(s, n.path)
           m == [n EXCEPT !.path = Renamed(n.path, k)]
           counts(i) == Counted(s, n.path, i)
<1>1. ASSUME Numbered(s), NEW i \in Nat
      PROVE  \A x \in DOMAIN counts(i) : counts(i)[x] \in Nat
  BY <1>1 DEF Numbered, Counted
<1>2. CASE n.path \notin TargetsOf(s.nodes)
  <2> DEFINE p == Placed(s, n)
  <2>1. t = [p EXCEPT !.counts = counts(1)]
    BY <1>2 DEF AddRenamed
  <2>2. OneEach(p) /\ p.err = s.err /\ (IsFiniteSet(s.nodes) => IsFiniteSet(p.nodes))
        /\ p.nodes = {x \in s.nodes : x.path # n.path} \cup {n}
    BY PlacedOK
  <2> HIDE DEF t, p, counts
  <2>3. t = [err |-> p.err, nodes |-> p.nodes, counts |-> counts(1)]
    BY <2>1, <2>2 DEF OneEach
  <2>4. OneEach(t) /\ t.err = s.err
    BY <2>2, <2>3 DEF OneEach
  <2>5. Numbered(s) => Numbered(t)
    BY <1>1, <2>2, <2>3 DEF Numbered
  <2>6. s.nodes \subseteq t.nodes /\ n \in t.nodes
    BY <1>2, <2>2, <2>3 DEF TargetsOf
  <2> QED
    BY <2>4, <2>5, <2>6 DEF Keeps, Holds, t
<1>3. CASE n.path \in TargetsOf(s.nodes)
  <2> DEFINE p == Placed(s, m)
  <2>1. t = [p EXCEPT !.counts = counts(k)]
    BY <1>3 DEF AddRenamed
  <2>2. m.path = Renamed(n.path, k) /\ m.source = n.source /\ m.stamp = n.stamp
    BY DEF IsNode
  <2> HIDE DEF m, k
  <2>3. OneEach(p) /\ p.err = s.err /\ (IsFiniteSet(s.nodes) => IsFiniteSet(p.nodes))
        /\ p.nodes = {x \in s.nodes : x.path # m.path} \cup {m}
    BY PlacedOK
  <2> HIDE DEF t, p, counts
  <2>4. t = [err |-> p.err, nodes |-> p.nodes, counts |-> counts(k)]
    BY <2>1, <2>3 DEF OneEach
  <2>5. OneEach(t) /\ t.err = s.err
    BY <2>3, <2>4 DEF OneEach
  <2>6. ASSUME SuffixesDiffer, Numbered(s)
        PROVE  Numbered(t) /\ s.nodes \subseteq t.nodes
    <3>1. k \in Nat /\ m.path \notin TargetsOf(s.nodes)
      BY <2>2, <2>6, RenameIndexIsFree DEF IsNode, k
    <3>2. s.nodes \subseteq t.nodes
      BY <2>3, <2>4, <3>1 DEF TargetsOf
    <3>3. Numbered(t)
      BY <1>1, <2>3, <2>4, <2>6, <3>1 DEF Numbered
    <3> QED
      BY <3>2, <3>3
  <2>7. m \in t.nodes
    BY <2>3, <2>4
  <2> QED
    BY <2>2, <2>5, <2>6, <2>7 DEF Keeps, Holds, t
<1> QED
  BY <1>2, <1>3

LEMMA AddOK ==
    ASSUME NEW policy, NEW s, OneEach(s), s.err = "none", NEW n, IsNode(n)
    PROVE  LET t == Add(policy, s, n)
           IN  /\ OneEach(t)
               /\ SuffixesDiffer /\ Numbered(s) =>
                      /\ Numbered(t)
                      /\ t.err = "none" => Keeps(policy, s, t) /\ Holds(policy, t, n)
<1> DEFINE t == Add(policy, s, n)
           p == Placed(s, n)
           taken == n.path \in TargetsOf(s.nodes)
<1>1. CASE policy = "rename"
  <2>1. t = AddRenamed(s, n)
    BY <1>1 DEF Add
  <2> QED
    BY <1>1, <2>1, AddRenamedOK
<1>2. CASE policy # "rename" /\ t = s /\ taken
  <2>1. Keeps(policy, s, t) /\ Holds(policy, t, n)
    <3> HIDE DEF t
    <3> QED
      BY <1>2 DEF Keeps, Holds, TargetsOf
  <2> QED
    BY <1>2, <2>1
<1>3. CASE policy # "rename" /\ t = p
  <2>1. OneEach(p) /\ p.counts = s.counts /\ (IsFiniteSet(s.nodes) => IsFiniteSet(p.nodes))
        /\ p.nodes = {x \in s.nodes : x.path # n.path} \cup {n}
    BY PlacedOK
  <2> HIDE DEF p, t
  <2>2. Numbered(s) => Numbered(p)
    BY <2>1 DEF Numbered
  <2>3. Keeps(policy, s, p) /\ Holds(policy, p, n)
    <3>1. ASSUME NEW x \in s.nodes PROVE \E y \in p.nodes : y.path = x.path
      BY <2>1, <3>1
    <3>2. TargetsOf(s.nodes) \subseteq TargetsOf(p.nodes)
      BY <3>1 DEF TargetsOf
    <3>3. n \in p.nodes
      BY <2>1
    <3> QED
      BY <1>3, <3>2, <3>3 DEF Keeps, Holds
  <2> QED
    BY <1>3, <2>1, <2>2, <2>3 DEF t
<1>4. CASE t = FailedState("conflict")
  BY <1>4, StartsEmpty
<1>5. \/ policy = "rename"
      \/ policy # "rename" /\ t = s /\ taken
      \/ policy # "rename" /\ t = p
      \/ t = FailedState("conflict")
  <2> HIDE DEF p
  <2> QED
    BY DEF Add, p
<1> QED
  BY <1>1, <1>2, <1>3, <1>4, <1>5

---------------------------------------------------------------------------
(* The loops of a walk.                                                      *)

(* One turn of the loops of a walk: over the nodes of an entry, and over the *)
(* entries of the source.                                                    *)
Turn(loop, acc, x) ==
    IF loop.over = "nodes" THEN AddIfVisible(loop.policy, loop.filter, acc, x)
    ELSE VisitNext(loop.handler, loop.req, loop.tree, acc, x)

\* g holds what the loop makes of each set of positions up to k, in order.
LoopsSets(loop, base, list, k, g) ==
    g = [s \in SUBSET (1..k) |->
            IF s = {} THEN base ELSE Turn(loop, g[s \ {Max(s)}], list[Max(s)])]

\* There is such a function.
LEMMA LoopExists ==
    ASSUME NEW loop, NEW base, NEW list, NEW n \in Nat
    PROVE  \E g : LoopsSets(loop, base, list, n, g)
<1> DEFINE add(acc, i) == Turn(loop, acc, list[i])
           Adds(k, g) == g = [s \in SUBSET (1..k) |->
                                 IF s = {} THEN base ELSE add(g[s \ {Max(s)}], Max(s))]
           Done == {k \in Nat : \E g : Adds(k, g)}
<1> HIDE DEF add
<1>1. 0 \in Done
  <2>1. \A s \in SUBSET (1..0) : s = {}
    OBVIOUS
  <2>2. Adds(0, [s \in SUBSET (1..0) |-> base])
    BY <2>1
  <2> QED
    BY <2>2
<1>2. ASSUME NEW k \in Done PROVE k + 1 \in Done
  <2>1. PICK g : Adds(k, g)
    BY <1>2
  <2> DEFINE h == [s \in SUBSET (1..(k + 1)) |->
                      IF k + 1 \in s THEN add(g[s \ {k + 1}], k + 1) ELSE g[s]]
  <2>2. k \in Nat /\ k + 1 \in Nat \ {0}
    BY <1>2
  <2>3. \A s \in SUBSET (1..(k + 1)) :
            /\ s \ {k + 1} \in SUBSET (1..k)
            /\ k + 1 \notin s => s \in SUBSET (1..k)
    BY <2>2
  <2>4. \A s \in SUBSET (1..k) : s \in SUBSET (1..(k + 1)) /\ h[s] = g[s]
    BY <2>2
  <2>5. ASSUME NEW s \in SUBSET (1..(k + 1))
        PROVE  h[s] = IF s = {} THEN base ELSE add(h[s \ {Max(s)}], Max(s))
    <3>1. CASE k + 1 \in s
      <4>1. Max(s) = k + 1
        <5>1. Max(s) \in s /\ \A y \in s : Max(s) >= y
          BY <2>2, <3>1, MaxOK
        <5>2. Max(s) \in 1..(k + 1) /\ Max(s) >= k + 1
          BY <3>1, <5>1
        <5> QED
          BY <2>2, <5>2
      <4>2. h[s \ {k + 1}] = g[s \ {k + 1}]
        BY <2>3, <2>4
      <4>3. h[s] = add(g[s \ {k + 1}], k + 1)
        BY <3>1
      <4> HIDE DEF h
      <4> QED
        BY <3>1, <4>1, <4>2, <4>3
    <3>2. CASE k + 1 \notin s
      <4>1. s \in SUBSET (1..k) /\ s \ {Max(s)} \in SUBSET (1..k)
        BY <2>3, <3>2
      <4>2. h[s] = g[s] /\ h[s \ {Max(s)}] = g[s \ {Max(s)}]
        BY <2>4, <4>1
      <4>3. g[s] = IF s = {} THEN base ELSE add(g[s \ {Max(s)}], Max(s))
        BY <2>1, <4>1
      <4> HIDE DEF h
      <4> QED
        BY <4>2, <4>3
    <3> QED
      BY <3>1, <3>2
  <2>6. h = [s \in SUBSET (1..(k + 1)) |-> h[s]]
    OBVIOUS
  <2> HIDE DEF h
  <2>7. Adds(k + 1, h)
    BY <2>5, <2>6
  <2> HIDE DEF Adds
  <2> QED
    BY <2>2, <2>7
<1>3. Done = Nat
  <2> HIDE DEF Done
  <2>1. Done \in SUBSET Nat
    BY DEF Done
  <2> QED
    BY <1>1, <1>2, <2>1, NatInd
<1> QED
  BY <1>3 DEF LoopsSets, add

\* f does so too.
LoopsAs(loop, base, list, n, f) ==
    \A s \in SUBSET (1..n) :
        f[s] = IF s = {} THEN base ELSE Turn(loop, f[s \ {Max(s)}], list[Max(s)])

\* h has the states of the loop after each of its n turns.
LoopStates(loop, base, list, n, h) ==
    /\ h[0] = base
    /\ \A k \in 0..(n - 1) : h[k + 1] = Turn(loop, h[k], list[k + 1])

\* Of such a function, the states of the loop.
LEMMA LoopSteps ==
    ASSUME NEW loop, NEW base, NEW list, NEW n \in Nat, NEW f, LoopsAs(loop, base, list, n, f)
    PROVE  \E h : LoopStates(loop, base, list, n, h) /\ h[n] = f[1..n]
<1> DEFINE h == [k \in 0..n |-> f[1..k]]
<1>1. h[0] = base /\ h[n] = f[1..n]
  <2>1. 1..0 = {} /\ {} \in SUBSET (1..n) /\ 0 \in 0..n /\ n \in 0..n
    OBVIOUS
  <2> QED
    BY <2>1 DEF LoopsAs
<1>2. ASSUME NEW k \in 0..(n - 1) PROVE h[k + 1] = Turn(loop, h[k], list[k + 1])
  <2> DEFINE s == 1..(k + 1)
  <2>1. k \in Nat /\ k + 1 \in 0..n /\ k \in 0..n
    OBVIOUS
  <2>2. Max(s) = k + 1 /\ s \ {k + 1} = 1..k
    BY <2>1, LastOfInterval
  <2>3. s \in SUBSET (1..n) /\ s # {}
    <3>1. s \subseteq 1..n /\ 1 \in s
      BY <2>1
    <3> HIDE DEF s
    <3> QED
      BY <3>1
  <2>4. h[k + 1] = f[s] /\ h[k] = f[1..k]
    BY <2>1
  <2> HIDE DEF s, h
  <2> QED
    BY <2>2, <2>3, <2>4 DEF LoopsAs
<1> HIDE DEF h
<1>3. LoopStates(loop, base, list, n, h)
  BY <1>1, <1>2 DEF LoopStates
<1> QED
  BY <1>1, <1>3

\* AddVisible goes through the nodes from the first to the last.
LEMMA AddVisibleSteps ==
    ASSUME NEW handler, NEW filter, NEW state, NEW nodes, NEW n \in Nat, DOMAIN nodes = 1..n
    PROVE  \E h :
               /\ h[0] = state
               /\ \A k \in 0..(n - 1) :
                      h[k + 1] = AddIfVisible(handler.policy, filter, h[k], nodes[k + 1])
               /\ AddVisible(handler, filter, state, nodes) = h[n]
<1> DEFINE loop == [over |-> "nodes", policy |-> handler.policy, filter |-> filter]
           Folds(g) == g = [s \in SUBSET DOMAIN nodes |->
                               IF s = {} THEN state
                               ELSE AddIfVisible(handler.policy, filter, g[s \ {Max(s)}],
                                                 nodes[Max(s)])]
           iter == CHOOSE f : Folds(f)
<1>1. \A acc, x : Turn(loop, acc, x) = AddIfVisible(handler.policy, filter, acc, x)
  BY DEF Turn
<1> HIDE DEF loop
<1>2. \E g : Folds(g)
  <2>1. PICK g : LoopsSets(loop, state, nodes, n, g)
    BY LoopExists
  <2>2. Folds(g)
    BY <1>1, <2>1 DEF LoopsSets
  <2> HIDE DEF Folds
  <2> QED
    BY <2>2
<1>3. Folds(iter)
  <2> HIDE DEF Folds
  <2> QED
    BY <1>2
<1>4. AddVisible(handler, filter, state, nodes) = iter[1..n]
  BY DEF AddVisible, FoldLeft, MapThenFoldSet
<1> HIDE DEF iter
<1>5. LoopsAs(loop, state, nodes, n, iter)
  BY <1>1, <1>3 DEF LoopsAs
<1> HIDE DEF Folds
<1>6. PICK h : LoopStates(loop, state, nodes, n, h) /\ h[n] = iter[1..n]
  BY <1>5, LoopSteps
<1> QED
  BY <1>1, <1>4, <1>6 DEF LoopStates

\* Materialize goes through the entries that the walk comes to, in its order.
LEMMA MaterializeSteps ==
    ASSUME NEW handler, NEW req, NEW tree, IsDir(tree, req.sourceRoot),
           Cardinality(Visited(handler, req, tree)) \in Nat
    PROVE  LET list == InOrder(Visited(handler, req, tree))
               n    == Cardinality(Visited(handler, req, tree))
           IN  \E h :
                   /\ h[0] = EmptyState
                   /\ \A k \in 0..(n - 1) :
                          h[k + 1] = VisitNext(handler, req, tree, h[k], list[k + 1])
                   /\ Materialize(handler, req, tree) = h[n]
<1> DEFINE list == InOrder(Visited(handler, req, tree))
           n == Cardinality(Visited(handler, req, tree))
           loop == [over |-> "entries", handler |-> handler, req |-> req, tree |-> tree]
           Folds(g) == g = [s \in SUBSET DOMAIN list |->
                               IF s = {} THEN EmptyState
                               ELSE VisitNext(handler, req, tree, g[s \ {Max(s)}],
                                              list[Max(s)])]
           iter == CHOOSE f : Folds(f)
<1>1. \A acc, x : Turn(loop, acc, x) = VisitNext(handler, req, tree, acc, x)
  BY DEF Turn
<1>2. DOMAIN list = 1..n /\ n \in Nat
  BY DEF InOrder
<1>3. Materialize(handler, req, tree) =
          FoldLeft(LAMBDA acc, p : VisitNext(handler, req, tree, acc, p), EmptyState, list)
  BY DEF Materialize, IsDir
<1> HIDE DEF loop, list, n
<1>4. \E g : Folds(g)
  <2>1. PICK g : LoopsSets(loop, EmptyState, list, n, g)
    BY <1>2, LoopExists
  <2>2. Folds(g)
    BY <1>1, <1>2, <2>1 DEF LoopsSets
  <2> HIDE DEF Folds
  <2> QED
    BY <2>2
<1>5. Folds(iter)
  <2> HIDE DEF Folds
  <2> QED
    BY <1>4
<1>6. Materialize(handler, req, tree) = iter[1..n]
  BY <1>2, <1>3 DEF FoldLeft, MapThenFoldSet
<1> HIDE DEF iter
<1>7. LoopsAs(loop, EmptyState, list, n, iter)
  BY <1>1, <1>2, <1>5 DEF LoopsAs
<1> HIDE DEF Folds
<1>8. PICK h : LoopStates(loop, EmptyState, list, n, h) /\ h[n] = iter[1..n]
  BY <1>2, <1>7, LoopSteps
<1> QED
  BY <1>1, <1>6, <1>8 DEF LoopStates, list, n

\* What the loop makes of a state, given what it has made of it so far.
LEMMA AddIfVisibleOK ==
    ASSUME NEW policy, NEW filter, NEW s, OneEach(s), NEW n, IsNode(n)
    PROVE  LET t == AddIfVisible(policy, filter, s, n)
           IN  /\ OneEach(t)
               /\ SuffixesDiffer /\ Numbered(s) => Numbered(t)
               /\ SuffixesDiffer /\ Numbered(s) /\ t.err = "none" =>
                      /\ s.err = "none"
                      /\ Keeps(policy, s, t)
                      /\ TargetDecision(filter, n) = "include" => Holds(policy, t, n)
<1> DEFINE t == AddIfVisible(policy, filter, s, n)
           d == TargetDecision(filter, n)
<1>1. CASE s.err # "none"
  BY <1>1 DEF AddIfVisible
<1>2. CASE s.err = "none" /\ d = "error"
  <2>1. t = FailedState("other")
    BY <1>2 DEF AddIfVisible, Decided
  <2> QED
    BY <2>1, StartsEmpty
<1>3. CASE s.err = "none" /\ d = "include"
  <2>1. t = Add(policy, s, n)
    BY <1>3 DEF AddIfVisible, Decided
  <2> QED
    BY <1>3, <2>1, AddOK
<1>4. CASE s.err = "none" /\ d \notin {"error", "include"}
  <2>1. t = s
    BY <1>4 DEF AddIfVisible, Decided
  <2>2. Keeps(policy, s, s)
    BY DEF Keeps
  <2> QED
    BY <1>4, <2>1, <2>2
<1> QED
  BY <1>1, <1>2, <1>3, <1>4

\* The nodes that FilterTarget lets through are all added, or the loop has failed.
LEMMA AddVisibleOK ==
    ASSUME NEW handler, NEW filter, NEW state, OneEach(state),
           NEW nodes, NEW n \in Nat, DOMAIN nodes = 1..n, \A i \in 1..n : IsNode(nodes[i])
    PROVE  LET t == AddVisible(handler, filter, state, nodes)
           IN  /\ OneEach(t)
               /\ SuffixesDiffer /\ Numbered(state) =>
                      /\ Numbered(t)
                      /\ t.err = "none" =>
                             /\ Keeps(handler.policy, state, t)
                             /\ \A i \in 1..n : TargetDecision(filter, nodes[i]) = "include" =>
                                    Holds(handler.policy, t, nodes[i])
<1> DEFINE policy == handler.policy
           Good(k, s) == /\ OneEach(s)
                         /\ SuffixesDiffer /\ Numbered(state) =>
                                /\ Numbered(s)
                                /\ s.err = "none" =>
                                       /\ Keeps(policy, state, s)
                                       /\ \A i \in 1..k :
                                              TargetDecision(filter, nodes[i]) = "include" =>
                                                  Holds(policy, s, nodes[i])
<1>1. PICK h : /\ h[0] = state
               /\ \A k \in 0..(n - 1) :
                      h[k + 1] = AddIfVisible(policy, filter, h[k], nodes[k + 1])
               /\ AddVisible(handler, filter, state, nodes) = h[n]
  BY AddVisibleSteps
<1> HIDE DEF policy
<1>2. Good(0, state)
  BY DEF Keeps
<1>3. ASSUME NEW k \in 0..(n - 1), NEW s, Good(k, s)
      PROVE  Good(k + 1, AddIfVisible(policy, filter, s, nodes[k + 1]))
  <2> DEFINE m == nodes[k + 1]
             t == AddIfVisible(policy, filter, s, m)
  <2>1. IsNode(m)
    OBVIOUS
  <2>2. /\ OneEach(t)
        /\ SuffixesDiffer /\ Numbered(s) => Numbered(t)
        /\ SuffixesDiffer /\ Numbered(s) /\ t.err = "none" =>
               /\ s.err = "none"
               /\ Keeps(policy, s, t)
               /\ TargetDecision(filter, m) = "include" => Holds(policy, t, m)
    BY <1>3, <2>1, AddIfVisibleOK
  <2> HIDE DEF t
  <2>3. ASSUME SuffixesDiffer, Numbered(state), t.err = "none"
        PROVE  /\ Keeps(policy, state, t)
               /\ \A i \in 1..(k + 1) : TargetDecision(filter, nodes[i]) = "include" =>
                                            Holds(policy, t, nodes[i])
    <3>1. /\ s.err = "none" /\ Keeps(policy, s, t) /\ Keeps(policy, state, s)
          /\ TargetDecision(filter, m) = "include" => Holds(policy, t, m)
          /\ \A i \in 1..k : TargetDecision(filter, nodes[i]) = "include" =>
                                 Holds(policy, s, nodes[i])
      BY <1>3, <2>2, <2>3
    <3>2. Keeps(policy, state, t)
      BY <3>1 DEF Keeps
    <3>3. \A i \in 1..(k + 1) : i = k + 1 \/ i \in 1..k
      OBVIOUS
    <3>4. \A i \in 1..k : TargetDecision(filter, nodes[i]) = "include" =>
                              Holds(policy, t, nodes[i])
      BY <3>1, HoldsStays
    <3> QED
      BY <3>1, <3>2, <3>3, <3>4
  <2>4. Good(k + 1, t)
    BY <1>3, <2>2, <2>3
  <2> HIDE DEF Good
  <2> QED
    BY <2>4 DEF t
<1> HIDE DEF Good
<1> DEFINE Done == {k \in Nat : k <= n => Good(k, h[k])}
<1>4. 0 \in Done
  BY <1>1, <1>2
<1>5. ASSUME NEW k \in Done PROVE k + 1 \in Done
  <2>1. CASE k + 1 <= n
    <3>1. k \in 0..(n - 1) /\ Good(k, h[k])
      BY <1>5, <2>1
    <3>2. Good(k + 1, h[k + 1])
      BY <1>1, <1>3, <3>1
    <3> QED
      BY <3>1, <3>2
  <2>2. CASE ~(k + 1 <= n)
    BY <1>5, <2>2
  <2> QED
    BY <2>1, <2>2
<1>6. Done = Nat
  <2>1. Done \in SUBSET Nat
    OBVIOUS
  <2> HIDE DEF Done
  <2> QED
    BY <1>4, <1>5, <2>1, NatInd
<1>7. Good(n, h[n])
  BY <1>6
<1> QED
  BY <1>1, <1>7 DEF Good, policy

---------------------------------------------------------------------------
(* What a filter hides.                                                      *)

\* A list's positions are those of a sequence.
LEMMA ListIs ==
    ASSUME NEW s, IsList(s)
    PROVE  Len(s) \in Nat /\ DOMAIN s = 1..Len(s)
BY DEF IsList

\* And includes an entry that every part of it includes, and no other.
LEMMA AndIncludes ==
    ASSUME NEW d, NEW n \in Nat, DOMAIN d = 1..n
    PROVE  AndOf(d) = "include" <=> \A i \in 1..n : d[i] = "include"
<1> DEFINE others == {i \in DOMAIN d : d[i] # "include"}
<1>1. CASE others = {}
  BY <1>1 DEF AndOf
<1>2. CASE others # {}
  <2>1. others \in SUBSET Nat
    OBVIOUS
  <2> HIDE DEF others
  <2>2. \E m \in others : \A k \in others : m <= k
    BY <1>2, <2>1, LeastNatural
  <2>3. Min(others) \in others
    BY <2>2 DEF Min
  <2>4. AndOf(d) = d[Min(others)]
    BY <1>2 DEF AndOf, others
  <2> QED
    BY <2>3, <2>4 DEF others
<1> QED
  BY <1>1, <1>2

\* What And(f, g) includes, f includes.
LEMMA BothInclude ==
    ASSUME NEW f, NEW g, IsList(f), IsList(g), NEW node,
           TargetDecision(f \o g, node) = "include"
    PROVE  TargetDecision(f, node) = "include"
<1> DEFINE A == ToSet(f) \cup ToSet(g)
           entry == FilterEntry("target", node.path, node.kind)
           d(h) == [i \in DOMAIN h |-> ClauseDecision(h[i], entry)]
<1>1. f \in Seq(A) /\ g \in Seq(A) /\ Len(f) \in Nat /\ Len(g) \in Nat
  BY DEF IsList
<1> HIDE DEF A
<1>2. /\ DOMAIN (f \o g) = 1..(Len(f) + Len(g)) /\ DOMAIN f = 1..Len(f)
      /\ \A i \in 1..Len(f) : (f \o g)[i] = f[i]
  BY <1>1, ConcatProperties
<1>3. AndOf(d(f \o g)) = "include"
  BY DEF TargetDecision, FilterDecision
<1> DEFINE c == d(f \o g)
           e == d(f)
<1>4. /\ DOMAIN c = 1..(Len(f) + Len(g)) /\ DOMAIN e = 1..Len(f)
      /\ \A i \in 1..Len(f) : i \in 1..(Len(f) + Len(g)) /\ c[i] = e[i]
  BY <1>1, <1>2
<1> HIDE DEF c, e
<1>5. \A i \in 1..(Len(f) + Len(g)) : c[i] = "include"
  <2> DEFINE m == Len(f) + Len(g)
  <2>1. m \in Nat /\ DOMAIN c = 1..m /\ AndOf(c) = "include"
    BY <1>1, <1>3, <1>4 DEF c
  <2> HIDE DEF m
  <2>2. \A i \in 1..m : c[i] = "include"
    BY <2>1, AndIncludes
  <2> QED
    BY <2>2 DEF m
<1>6. AndOf(e) = "include"
  BY <1>1, <1>4, <1>5, AndIncludes
<1> QED
  BY <1>6 DEF TargetDecision, FilterDecision, e

\* Every one of the nodes is included.
Shown(filter, nodes) == \A n \in nodes : TargetDecision(filter, n) = "include"

\* A policy but "rename" adds the node that was decided about, if any.
LEMMA AddShown ==
    ASSUME NEW how, how # "rename", NEW filter, NEW s, Shown(filter, s.nodes), NEW n
    PROVE  Shown(filter, AddIfVisible(how, filter, s, n).nodes)
<1> DEFINE t == AddIfVisible(how, filter, s, n)
<1>1. Shown(filter, FailedState("other").nodes) /\ Shown(filter, FailedState("conflict").nodes)
  BY DEF Shown, FailedState, EmptyState
<1>2. ASSUME TargetDecision(filter, n) = "include"
      PROVE  Shown(filter, Add(how, s, n).nodes)
  <2>1. Shown(filter, Placed(s, n).nodes)
    <3>1. ASSUME NEW x \in {m \in s.nodes : m.path # n.path} \cup {n}
          PROVE  TargetDecision(filter, x) = "include"
      BY <1>2 DEF Shown
    <3>2. Placed(s, n).nodes \subseteq {m \in s.nodes : m.path # n.path} \cup {n}
      BY DEF Placed
    <3> QED
      BY <3>1, <3>2 DEF Shown
  <2>2. Add(how, s, n) \in {s, Placed(s, n), FailedState("conflict")}
    BY DEF Add
  <2> QED
    BY <1>1, <2>1, <2>2
<1> QED
  BY <1>1, <1>2 DEF AddIfVisible, Decided

LEMMA AddVisibleShown ==
    ASSUME NEW handler, handler.policy # "rename", NEW filter, NEW s, Shown(filter, s.nodes),
           NEW nodes, NEW n \in Nat, DOMAIN nodes = 1..n
    PROVE  Shown(filter, AddVisible(handler, filter, s, nodes).nodes)
<1> DEFINE how == handler.policy
<1>1. PICK h : /\ h[0] = s
               /\ \A k \in 0..(n - 1) :
                      h[k + 1] = AddIfVisible(how, filter, h[k], nodes[k + 1])
               /\ AddVisible(handler, filter, s, nodes) = h[n]
  BY AddVisibleSteps, Z3
<1>2. how # "rename"
  OBVIOUS
<1> HIDE DEF how
<1> DEFINE Done == {k \in Nat : k <= n => Shown(filter, h[k].nodes)}
<1>3. 0 \in Done
  BY <1>1
<1>4. ASSUME NEW k \in Done PROVE k + 1 \in Done
  <2>1. k \in Nat /\ k + 1 \in Nat
    BY <1>4
  <2>2. CASE k + 1 <= n
    <3>1. k \in 0..(n - 1) /\ k <= n
      BY <2>1, <2>2
    <3>2. Shown(filter, h[k].nodes)
      BY <1>4, <3>1
    <3>3. Shown(filter, h[k + 1].nodes)
      BY <1>1, <1>2, <3>1, <3>2, AddShown
    <3> QED
      BY <2>1, <3>3
  <2>3. CASE ~(k + 1 <= n)
    BY <2>1, <2>3
  <2> QED
    BY <2>2, <2>3
<1>5. Done = Nat
  <2>1. Done \in SUBSET Nat
    OBVIOUS
  <2> HIDE DEF Done
  <2> QED
    BY <1>3, <1>4, <2>1, NatInd
<1> QED
  BY <1>1, <1>5

=============================================================================
