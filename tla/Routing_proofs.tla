--------------------------- MODULE Routing_proofs ---------------------------
(* Proofs about route sets, for every set of configurations, any number of   *)
(* routes and every target path: what NewRouter's pairwise check at          *)
(* construction is worth at lookup time, and what a filter hides.            *)
(*                                                                           *)
(* There is an order on the routes with no ties, and bestMatch, a fold over  *)
(* them, finds its maximum among those that match.                           *)
EXTENDS Routing, Materializer_proofs

---------------------------------------------------------------------------
(* Sequences.                                                                *)

\* The first n elements.
LEMMA FirstOf ==
    ASSUME NEW S, NEW s \in Seq(S), NEW n \in 0..Len(s)
    PROVE  /\ SubSeq(s, 1, n) \in Seq(S) /\ Len(SubSeq(s, 1, n)) = n
           /\ \A i \in 1..n : SubSeq(s, 1, n)[i] = s[i]
<1>1. n \in Int /\ 1 \in Int /\ \A i \in 1..n : s[i] \in S
  OBVIOUS
<1> QED
  BY <1>1, SubSeqProperties

\* Those after the first n.
LEMMA RestOf ==
    ASSUME NEW S, NEW s \in Seq(S), NEW n \in 0..Len(s)
    PROVE  /\ Below(s, n) \in Seq(S) /\ Len(Below(s, n)) = Len(s) - n
           /\ \A i \in 1..(Len(s) - n) : Below(s, n)[i] = s[n + i]
           /\ SubSeq(s, 1, n) \o Below(s, n) = s
<1>1. /\ n \in Int /\ n + 1 \in Int /\ Len(s) \in Nat
      /\ \A i \in (n + 1)..Len(s) : s[i] \in S
  OBVIOUS
<1>2. /\ Below(s, n) \in Seq(S) /\ Len(Below(s, n)) = Len(s) - n
      /\ \A i \in 1..(Len(s) - n) : Below(s, n)[i] = s[n + i]
  BY <1>1, SubSeqProperties DEF Below
<1>3. SubSeq(s, 1, n) \o Below(s, n) = s
  <2> DEFINE t == SubSeq(s, 1, n)
             u == Below(s, n)
  <2>1. t \in Seq(S) /\ Len(t) = n /\ \A i \in 1..n : t[i] = s[i]
    BY FirstOf
  <2> HIDE DEF t, u
  <2>2. /\ t \o u \in Seq(S) /\ Len(t \o u) = Len(s)
        /\ \A i \in 1..Len(s) : (t \o u)[i] = IF i <= n THEN t[i] ELSE u[i - n]
    BY <1>1, <1>2, <2>1, ConcatProperties DEF u
  <2>3. ASSUME NEW i \in 1..Len(s) PROVE (t \o u)[i] = s[i]
    <3>1. CASE i <= n
      BY <1>1, <2>1, <2>2, <3>1
    <3>2. CASE ~(i <= n)
      <4>1. i - n \in 1..(Len(s) - n) /\ n + (i - n) = i
        BY <1>1, <3>2
      <4> QED
        BY <1>2, <2>2, <3>2, <4>1 DEF u
    <3> QED
      BY <3>1, <3>2
  <2> QED
    BY <2>2, <2>3, SeqEqual DEF t, u
<1> QED
  BY <1>2, <1>3

---------------------------------------------------------------------------
(* Patterns.                                                                 *)

(* canOverlap never separates two patterns that share a path: what it        *)
(* compares are static segments at the same position and, with no "**" left, *)
(* the lengths. The paths are all sequences, not only those of a model.      *)
THEOREM OverlapCoversMatches ==
    ASSUME NEW p, NEW q, PrefixLen(p) \in Nat, PrefixLen(q) \in Nat,
           NEW target, Len(target) \in Nat, Matches(p, target), Matches(q, target)
    PROVE  CanOverlap(p, q)
<1>2. ASSUME NEW i \in (1..PrefixLen(p)) \cap (1..PrefixLen(q)),
             p.segments[i].kind = "static", q.segments[i].kind = "static"
      PROVE  p.segments[i].text = q.segments[i].text
  BY <1>2 DEF Matches, PrefixMatches, SegmentMatches
<1>3. p.glob \/ q.glob \/ PrefixLen(p) = PrefixLen(q)
  BY DEF Matches
<1> QED
  BY <1>2, <1>3 DEF CanOverlap

Tuples == Nat \X Nat \X Nat \X Nat \X Nat

\* patternSpecificity is a tuple of five numbers.
LEMMA SpecificityType ==
    ASSUME NEW p, PrefixLen(p) \in Nat
    PROVE  Specificity(p) \in Tuples
<1>1. ASSUME NEW kind PROVE CountKind(p, kind) \in Nat
  <2>1. IsFiniteSet(1..PrefixLen(p))
    BY FS_Interval
  <2>2. IsFiniteSet({i \in 1..PrefixLen(p) : p.segments[i].kind = kind})
    BY <2>1, FS_Subset
  <2> QED
    BY <2>2, FS_CardinalityType DEF CountKind
<1> QED
  BY <1>1 DEF Specificity, Tuples

\* Two specificities that differ are ordered by the first field that differs.
LEMMA SpecificityTotal ==
    ASSUME NEW l \in Tuples, NEW r \in Tuples, l # r
    PROVE  MoreSpecific(l, r) \/ MoreSpecific(r, l)
<1>1. \A i \in 1..5 : l[i] \in Nat /\ r[i] \in Nat
  BY DEF Tuples
<1>2. PICK i \in 1..5 : l[i] # r[i] /\ \A j \in 1..(i - 1) : l[j] = r[j]
  <2>1. \E i \in 1..5 : l[i] # r[i]
    BY DEF Tuples
  <2>2. CASE l[1] # r[1]
    BY <2>2
  <2>3. CASE l[1] = r[1] /\ l[2] # r[2]
    BY <2>3
  <2>4. CASE l[1] = r[1] /\ l[2] = r[2] /\ l[3] # r[3]
    BY <2>4
  <2>5. CASE l[1] = r[1] /\ l[2] = r[2] /\ l[3] = r[3] /\ l[4] # r[4]
    BY <2>5
  <2>6. CASE l[1] = r[1] /\ l[2] = r[2] /\ l[3] = r[3] /\ l[4] = r[4] /\ l[5] # r[5]
    BY <2>6
  <2> QED
    BY <2>1, <2>2, <2>3, <2>4, <2>5, <2>6
<1>3. l[i] > r[i] \/ r[i] > l[i]
  BY <1>1, <1>2
<1> QED
  BY <1>2, <1>3 DEF MoreSpecific

\* compareSpecificity orders them: irreflexive and transitive.
LEMMA SpecificityOrder ==
    ASSUME NEW l \in Tuples, NEW m \in Tuples, NEW r \in Tuples
    PROVE  /\ ~MoreSpecific(l, l)
           /\ MoreSpecific(l, m) /\ MoreSpecific(m, r) => MoreSpecific(l, r)
<1>1. \A i \in 1..5 : l[i] \in Nat /\ m[i] \in Nat /\ r[i] \in Nat
  BY DEF Tuples
<1>2. ~MoreSpecific(l, l)
  BY <1>1 DEF MoreSpecific
<1>3. ASSUME MoreSpecific(l, m), MoreSpecific(m, r) PROVE MoreSpecific(l, r)
  <2>1. PICK i \in 1..5 : l[i] > m[i] /\ \A k \in 1..(i - 1) : l[k] = m[k]
    BY <1>3 DEF MoreSpecific
  <2>2. PICK j \in 1..5 : m[j] > r[j] /\ \A k \in 1..(j - 1) : m[k] = r[k]
    BY <1>3 DEF MoreSpecific
  <2>3. CASE i <= j
    <3>1. l[i] > r[i] /\ \A k \in 1..(i - 1) : l[k] = r[k]
      BY <1>1, <2>1, <2>2, <2>3
    <3> QED
      BY <3>1 DEF MoreSpecific
  <2>4. CASE j < i
    <3>1. l[j] > r[j] /\ \A k \in 1..(j - 1) : l[k] = r[k]
      BY <1>1, <2>1, <2>2, <2>4
    <3> QED
      BY <3>1 DEF MoreSpecific
  <2> QED
    BY <2>3, <2>4
<1> QED
  BY <1>2, <1>3

---------------------------------------------------------------------------
(* Routes. One that was compiled has a finite pattern and a priority.        *)

RouteOK(route) ==
    PrefixLen(route.pattern) \in Nat /\ route.priority \in Int

(* compareRoutes orders any two routes, unless they are alike in specificity *)
(* and priority, and strictly: so the route that bestMatch keeps while it    *)
(* passes over the others has also beaten those it dropped before, and one   *)
(* that is not beaten and not alike beats.                                   *)
THEOREM BeatsIsStrictOrder ==
    ASSUME NEW l, NEW m, NEW r, RouteOK(l), RouteOK(m), RouteOK(r)
    PROVE  /\ ~Beats(l, l)
           /\ Beats(l, m) /\ Beats(m, r) => Beats(l, r)
           /\ Beats(l, m) \/ Beats(m, l)
                  <=> ~(/\ Specificity(l.pattern) = Specificity(m.pattern)
                        /\ l.priority = m.priority)
<1>1. /\ Specificity(l.pattern) \in Tuples /\ Specificity(m.pattern) \in Tuples
      /\ Specificity(r.pattern) \in Tuples
  BY SpecificityType DEF RouteOK
<1>2. l.priority \in Int /\ m.priority \in Int /\ r.priority \in Int
  BY DEF RouteOK
<1>3. ~Beats(l, l) /\ (Beats(l, m) /\ Beats(m, r) => Beats(l, r))
  BY <1>1, <1>2, SpecificityOrder DEF Beats
<1>4. CASE Specificity(l.pattern) # Specificity(m.pattern)
  <2>1. Beats(l, m) \/ Beats(m, l)
    BY <1>1, <1>4, SpecificityTotal DEF Beats
  <2> QED
    BY <1>3, <1>4, <2>1
<1>5. CASE Specificity(l.pattern) = Specificity(m.pattern)
  <2>1. ~MoreSpecific(Specificity(l.pattern), Specificity(m.pattern))
        /\ ~MoreSpecific(Specificity(m.pattern), Specificity(l.pattern))
    BY <1>1, <1>5, SpecificityOrder
  <2> QED
    BY <1>2, <1>3, <1>5, <2>1 DEF Beats
<1> QED
  BY <1>4, <1>5

\* Two routes that the check at construction lets through have no tie anywhere.
LEMMA NoTie ==
    ASSUME NEW l, NEW r, RouteOK(l), RouteOK(r), ~AmbiguousPair(l, r),
           NEW target, Len(target) \in Nat,
           Matches(l.pattern, target), Matches(r.pattern, target)
    PROVE  Beats(l, r) \/ Beats(r, l)
<1>1. CanOverlap(l.pattern, r.pattern)
  BY OverlapCoversMatches DEF RouteOK
<1> QED
  BY <1>1, BeatsIsStrictOrder DEF AmbiguousPair

---------------------------------------------------------------------------
(* Every route set that can be built.                                        *)

\* Parts, and the one of the default pattern (no prover knows its text a string).
Texts == STRING \cup {"**"}
RawParts == [kind : {"static", "named", "wildcard", "glob", "bad"}, text : Texts]

\* Every part but a "**" has a text that is a string.
Worded(parts) == \A k \in 1..Len(parts) : parts[k].kind = "glob" \/ parts[k].text \in STRING

ConfigTyped(cfg) ==
    /\ cfg.pattern \in Seq(RawParts) /\ cfg.source \in Seq(RawParts)
    /\ Worded(cfg.pattern)
    /\ cfg.priority \in Int
    /\ Lists(cfg) /\ HandlerOK(cfg.handler)

\* Pattern and source template as the parsers leave them.
RouteTyped(route) ==
    LET segments == route.pattern.segments
    IN  /\ segments \in Seq(RawParts) /\ route.source \in Seq(RawParts)
        /\ \A k \in 1..Len(segments) : /\ segments[k].kind \in {"static", "named", "wildcard"}
                                       /\ segments[k].text \in STRING
        /\ \A k \in 1..Len(route.source) : route.source[k].kind \in {"static", "named"}
        /\ route.handler.type # "none"

(* What NewRouter made of the configurations: typed routes with ids of their *)
(* own, none of them ambiguous with another.                                 *)
RouterOK(routes) ==
    /\ Len(routes) \in Nat /\ DOMAIN routes = 1..Len(routes)
    /\ \A i \in DOMAIN routes : RouteOK(routes[i]) /\ Lists(routes[i])
    /\ \A i \in DOMAIN routes : RouteTyped(routes[i]) /\ HandlerOK(routes[i].handler)
    /\ \A i, j \in DOMAIN routes : routes[i].id = routes[j].id => i = j
    /\ \A i, j \in DOMAIN routes : i # j => ~AmbiguousPair(routes[i], routes[j])

RouteSetTyped ==
    /\ configs \in Seq(Configs)
    /\ Len(configs) <= MaxRoutes
    /\ policy \in Policies \cup {"error"}
    /\ optionErr \in BOOLEAN

BuiltOK ==
    /\ built.status \in {"none", "ready", "error"}
    /\ RouterOK(built.router.routes)

RouteSetInv == RouteSetTyped /\ BuiltOK

\* What the assumption on Configs says of one configuration.
LEMMA ConfigsTyped == \A cfg \in Configs : ConfigTyped(cfg)
<1>1. Parts \subseteq RawParts
  BY DEF Parts, RawParts, Texts
<1>2. \A s \in Seq(Parts) : s \in Seq(RawParts) /\ Worded(s)
  <2>1. ASSUME NEW s \in Seq(Parts) PROVE s \in Seq(RawParts)
    BY <1>1
  <2>2. ASSUME NEW s \in Seq(Parts), NEW k \in 1..Len(s) PROVE s[k].text \in STRING
    <3>1. s[k] \in Parts
      BY ElementOfSeq
    <3> QED
      BY <3>1 DEF Parts
  <2> QED
    BY <2>1, <2>2 DEF Worded
<1> QED
  BY <1>2, RouteSetAssumption, ListsAssumption, HandlersAssumption DEF ConfigTyped

\* A parsed pattern has the parts of the raw one but a "**" at the end.
LEMMA ParsedType ==
    ASSUME NEW raw \in Seq(RawParts), Worded(raw), ParsePatternOK(raw)
    PROVE  LET p == ParsePattern(raw)
           IN  /\ PrefixLen(p) \in Nat /\ p.segments \in Seq(RawParts)
               /\ \A k \in 1..Len(p.segments) :
                      /\ p.segments[k].kind \in {"static", "named", "wildcard"}
                      /\ p.segments[k].text \in STRING
<1> DEFINE p == ParsePattern(raw)
           globbed == raw # << >> /\ raw[Len(raw)].kind = "glob"
           m == IF globbed THEN Len(raw) - 1 ELSE Len(raw)
<1>1. /\ m \in Nat /\ m <= Len(raw) /\ Len(raw) \in Nat
      /\ p.segments \in Seq(RawParts) /\ Len(p.segments) = m
      /\ \A k \in 1..m : p.segments[k] = raw[k]
  <2>1. Len(raw) \in Nat /\ (raw # << >> => Len(raw) > 0)
    OBVIOUS
  <2>2. CASE globbed
    <3>1. p.segments = SubSeq(raw, 1, Len(raw) - 1)
      BY <2>2 DEF ParsePattern
    <3>2. Len(raw) - 1 \in 0..Len(raw)
      BY <2>1, <2>2
    <3>3. /\ SubSeq(raw, 1, Len(raw) - 1) \in Seq(RawParts)
          /\ Len(SubSeq(raw, 1, Len(raw) - 1)) = Len(raw) - 1
          /\ \A k \in 1..(Len(raw) - 1) : SubSeq(raw, 1, Len(raw) - 1)[k] = raw[k]
      BY <3>2, FirstOf
    <3>4. m = Len(raw) - 1 /\ Len(raw) >= 1
      BY <2>1, <2>2
    <3> HIDE DEF m, globbed, p
    <3> QED
      BY <2>1, <3>1, <3>3, <3>4
  <2>3. CASE ~globbed
    <3>1. p.segments = raw
      BY <2>3 DEF ParsePattern
    <3> QED
      BY <2>1, <2>3, <3>1
  <2> QED
    BY <2>2, <2>3
<1>2. ASSUME NEW k \in 1..m
      PROVE  raw[k].kind \in {"static", "named", "wildcard"} /\ raw[k].text \in STRING
  <2>1. k \in 1..Len(raw) /\ raw[k] \in RawParts
    BY <1>1, <1>2
  <2>2. raw[k].kind \in {"static", "named", "wildcard", "glob", "bad"}
    BY <2>1 DEF RawParts
  <2>3. raw[k].kind # "bad" /\ (raw[k].kind = "glob" => k = Len(raw))
    BY <2>1 DEF ParsePatternOK
  <2>4. ~(k = Len(raw) /\ raw[k].kind = "glob")
    <3>1. ASSUME k = Len(raw), raw[k].kind = "glob" PROVE FALSE
      <4>1. globbed
        BY <1>1, <1>2, <3>1
      <4> QED
        BY <1>1, <1>2, <3>1, <4>1
    <3> QED
      BY <3>1
  <2>5. raw[k].kind = "glob" \/ raw[k].text \in STRING
    BY <2>1 DEF Worded
  <2> QED
    BY <2>2, <2>3, <2>4, <2>5
<1> HIDE DEF m, globbed, p
<1> QED
  BY <1>1, <1>2 DEF PrefixLen, p

\* checkRouteAmbiguity looks at each pair once, and that is enough.
LEMMA AmbiguitySymmetric ==
    ASSUME NEW l, NEW r, RouteOK(l), RouteOK(r), AmbiguousPair(l, r)
    PROVE  AmbiguousPair(r, l)
BY DEF AmbiguousPair, CanOverlap, PrefixLen

\* What NewRouter accepts, it compiles to a router that is OK.
LEMMA AcceptedOK ==
    ASSUME NEW cfgs, Len(cfgs) \in Nat, \A i \in 1..Len(cfgs) : ConfigTyped(cfgs[i]),
           Accepted(cfgs)
    PROVE  RouterOK(Compiled(cfgs))
<1> DEFINE routes == Compiled(cfgs)
<1>1. DOMAIN routes = 1..Len(cfgs) /\ Len(routes) = Len(cfgs)
  BY DEF Compiled
<1>2. ASSUME NEW i \in 1..Len(cfgs)
      PROVE  RouteOK(routes[i]) /\ RouteTyped(routes[i]) /\ HandlerOK(routes[i].handler)
  <2> DEFINE cfg == cfgs[i]
             pattern == ParsePattern(cfg.pattern)
  <2>1. /\ cfg.pattern \in Seq(RawParts) /\ cfg.source \in Seq(RawParts)
        /\ cfg.priority \in Int /\ HandlerOK(cfg.handler) /\ Worded(cfg.pattern)
    BY DEF ConfigTyped
  <2>2. /\ routes[i].pattern = pattern /\ routes[i].priority = cfg.priority
        /\ routes[i].source = IF cfg.hasSource THEN cfg.source ELSE DefaultTemplate(pattern)
        /\ routes[i].handler = cfg.handler
    BY DEF Compiled, CompiledRoute
  <2>3. /\ ParsePatternOK(cfg.pattern) /\ (cfg.hasSource => ParseTemplateOK(cfg.source))
        /\ cfg.handler.type # "none"
    BY DEF Accepted, ConfigOK
  <2>4. /\ PrefixLen(pattern) \in Nat /\ pattern.segments \in Seq(RawParts)
        /\ \A k \in 1..Len(pattern.segments) :
               /\ pattern.segments[k].kind \in {"static", "named", "wildcard"}
               /\ pattern.segments[k].text \in STRING
    BY <2>1, <2>3, ParsedType
  <2> HIDE DEF pattern, routes, cfg
  <2>5. /\ DefaultTemplate(pattern) \in Seq(RawParts)
        /\ \A k \in 1..Len(DefaultTemplate(pattern)) :
               DefaultTemplate(pattern)[k].kind \in {"static", "named"}
    <3>1. CASE \E k \in 1..PrefixLen(pattern) : pattern.segments[k].kind = "wildcard"
      <4>1. DefaultTemplate(pattern) = << >>
        BY <3>1 DEF DefaultTemplate
      <4>2. << >> \in Seq(RawParts) /\ 1..Len(<< >>) = {}
        OBVIOUS
      <4> QED
        BY <4>1, <4>2
    <3>2. CASE ~ \E k \in 1..PrefixLen(pattern) : pattern.segments[k].kind = "wildcard"
      <4>1. DefaultTemplate(pattern) = pattern.segments
        BY <3>2 DEF DefaultTemplate
      <4> QED
        BY <2>4, <3>2, <4>1 DEF PrefixLen
    <3> QED
      BY <3>1, <3>2
  <2>6. /\ routes[i].source \in Seq(RawParts)
        /\ \A k \in 1..Len(routes[i].source) :
               routes[i].source[k].kind \in {"static", "named"}
    <3>1. CASE cfg.hasSource
      <4>1. routes[i].source = cfg.source
        BY <2>2, <3>1
      <4> QED
        BY <2>1, <2>3, <3>1, <4>1 DEF ParseTemplateOK
    <3>2. CASE ~cfg.hasSource
      <4>1. routes[i].source = DefaultTemplate(pattern)
        BY <2>2, <3>2
      <4> QED
        BY <2>5, <4>1
    <3> QED
      BY <3>1, <3>2
  <2> QED
    BY <2>1, <2>2, <2>3, <2>4, <2>6 DEF RouteOK, RouteTyped
<1>3. ASSUME NEW i \in 1..Len(cfgs), NEW j \in 1..Len(cfgs), routes[i].id = routes[j].id
      PROVE  i = j
  <2>1. EffectiveID(cfgs, i) = EffectiveID(cfgs, j)
    BY <1>3 DEF Compiled, CompiledRoute
  <2>2. \A k, l \in 1..Len(cfgs) : k < l => EffectiveID(cfgs, k) # EffectiveID(cfgs, l)
    BY DEF Accepted, ConfigOK
  <2> QED
    BY <2>1, <2>2
<1>4. ASSUME NEW i \in 1..Len(cfgs), NEW j \in 1..Len(cfgs), i # j
      PROVE  ~AmbiguousPair(routes[i], routes[j])
  <2>1. \A k, l \in 1..Len(cfgs) : k < l => ~AmbiguousPair(routes[k], routes[l])
    BY <1>1 DEF Accepted, Unambiguous
  <2>2. i < j \/ j < i
    BY <1>4
  <2> HIDE DEF routes
  <2> QED
    BY <1>2, <2>1, <2>2, AmbiguitySymmetric
<1>5. ASSUME NEW i \in 1..Len(cfgs) PROVE Lists(routes[i])
  <2>1. routes[i].filter = cfgs[i].filter /\ routes[i].handler = cfgs[i].handler
    BY DEF Compiled, CompiledRoute
  <2>2. Lists(cfgs[i])
    BY DEF ConfigTyped
  <2> HIDE DEF routes
  <2> QED
    BY <2>1, <2>2 DEF Lists
<1> HIDE DEF routes
<1> QED
  BY <1>1, <1>2, <1>3, <1>4, <1>5 DEF RouterOK, routes

\* The invariant holds of an empty route set.
LEMMA InitRouteSet == RouteSetInit => RouteSetInv
<1> SUFFICES ASSUME RouteSetInit PROVE RouteSetInv
  OBVIOUS
<1>1. RouteSetTyped
  <2>1. MaxRoutes \in Nat /\ Len(configs) = 0 /\ configs \in Seq(Configs)
    BY RouteSetAssumption DEF RouteSetInit
  <2>2. Len(configs) <= MaxRoutes
    BY <2>1
  <2>3. policy \in Policies \cup {"error"} /\ optionErr \in BOOLEAN
    BY DEF RouteSetInit
  <2> QED
    BY <2>1, <2>2, <2>3 DEF RouteSetTyped
<1>2. BuiltOK
  BY DEF RouteSetInit, NotBuilt, BuiltOK, RouterOK
<1> QED
  BY <1>1, <1>2 DEF RouteSetInv

\* Handle appends one typed configuration.
LEMMA HandleRouteSet ==
    ASSUME RouteSetInv, NEW cfg \in Configs, Handle(cfg) PROVE RouteSetInv'
<1>1. configs' \in Seq(Configs) /\ Len(configs') = Len(configs) + 1
  BY AppendProperties DEF Handle, RouteSetInv, RouteSetTyped
<1>2. Len(configs') <= MaxRoutes
  <2>1. Len(configs) \in Nat /\ Len(configs) < MaxRoutes /\ MaxRoutes \in Nat
    BY RouteSetAssumption DEF Handle, RouteSetInv, RouteSetTyped
  <2> QED
    BY <1>1, <2>1
<1>3. optionErr' \in BOOLEAN
  BY Zenon DEF Handle
<1>4. RouteSetTyped'
  BY <1>1, <1>2, <1>3 DEF Handle, RouteSetInv, RouteSetTyped
<1>5. BuiltOK'
  BY DEF Handle, RouteSetInv, BuiltOK
<1> QED
  BY <1>4, <1>5 DEF RouteSetInv

\* NewRouter returns a router that is OK, or none.
LEMMA NewRouterRouteSet == ASSUME RouteSetInv, NewRouter PROVE RouteSetInv'
<1> DEFINE cfgs == IF configs = << >> THEN DefaultConfigs ELSE configs
<1>1. Len(cfgs) \in Nat /\ \A i \in 1..Len(cfgs) : ConfigTyped(cfgs[i])
  <2>1. CASE configs = << >>
    <3>1. Len(DefaultConfigs) = 1 /\ ConfigTyped(DefaultConfigs[1])
      <4>1. /\ Len(DefaultConfigs) = 1
            /\ DefaultConfigs[1].pattern = <<[kind |-> "glob", text |-> "**"]>>
            /\ DefaultConfigs[1].source = << >>
        BY DEF DefaultConfigs
      <4>2. /\ DefaultConfigs[1].priority = 0
            /\ DefaultConfigs[1].filter = << >>
            /\ DefaultConfigs[1].handler.type = "identity"
        BY DEF DefaultConfigs, NoFilter
      <4>3. IsList(<< >>)
        BY DEF IsList
      <4> HIDE DEF DefaultConfigs
      <4>4. Lists(DefaultConfigs[1]) /\ HandlerOK(DefaultConfigs[1].handler)
        BY <4>2, <4>3 DEF Lists, HandlerOK
      <4>5. [kind |-> "glob", text |-> "**"] \in RawParts
        BY DEF RawParts, Texts
      <4>6. DefaultConfigs[1].pattern \in Seq(RawParts) /\ DefaultConfigs[1].source \in Seq(RawParts)
        BY <4>1, <4>5
      <4>7. Worded(DefaultConfigs[1].pattern)
        <5> DEFINE parts == <<[kind |-> "glob", text |-> "**"]>>
        <5>1. \A k \in 1..Len(parts) : parts[k].kind = "glob"
          OBVIOUS
        <5> QED
          BY <4>1, <5>1 DEF Worded
      <4> QED
        BY <4>1, <4>2, <4>4, <4>6, <4>7 DEF ConfigTyped
    <3> QED
      BY <2>1, <3>1
  <2>2. CASE configs # << >>
    <3>1. configs \in Seq(Configs)
      BY DEF RouteSetInv, RouteSetTyped
    <3>2. Len(configs) \in Nat /\ \A i \in 1..Len(configs) : configs[i] \in Configs
      BY <3>1, ElementOfSeq
    <3> QED
      BY <2>2, <3>2, ConfigsTyped
  <2> QED
    BY <2>1, <2>2
<1>2. Accepted(cfgs) => RouterOK(Compiled(cfgs))
  <2> HIDE DEF cfgs
  <2> QED
    BY <1>1, AcceptedOK
<1>3. RouterOK(<< >>)
  BY DEF RouterOK
<1>4. BuiltOK'
  <2>1. CASE ~optionErr /\ Accepted(cfgs)
    <3>1. built'.status = "ready" /\ built'.router.routes = Compiled(cfgs)
      BY <2>1 DEF NewRouter
    <3> HIDE DEF cfgs
    <3> QED
      BY <1>2, <2>1, <3>1 DEF BuiltOK
  <2>2. CASE ~(~optionErr /\ Accepted(cfgs))
    <3>1. built'.status = "error" /\ built'.router.routes = << >>
      BY <2>2 DEF NewRouter, Rejected, NotBuilt
    <3> QED
      BY <1>3, <3>1 DEF BuiltOK
  <2> QED
    BY <2>1, <2>2
<1>5. RouteSetTyped'
  BY DEF NewRouter, RouteSetInv, RouteSetTyped
<1> QED
  BY <1>4, <1>5 DEF RouteSetInv

\* Every operation on a route set keeps the invariant.
LEMMA NextRouteSet == RouteSetInv /\ [RouteSetNext]_routeSetVars => RouteSetInv'
<1> SUFFICES ASSUME RouteSetInv, [RouteSetNext]_routeSetVars PROVE RouteSetInv'
  OBVIOUS
<1>1. ASSUME NEW cfg \in Configs, Handle(cfg) PROVE RouteSetInv'
  BY <1>1, HandleRouteSet
<1>2. ASSUME NEW p \in Policies, ConflictPolicy(p) PROVE RouteSetInv'
  BY <1>2 DEF ConflictPolicy, RouteSetInv, RouteSetTyped, BuiltOK
<1>3. CASE NewRouter
  BY <1>3, NewRouterRouteSet
<1>4. CASE UNCHANGED routeSetVars
  BY <1>4 DEF routeSetVars, RouteSetInv, RouteSetTyped, BuiltOK
<1> QED
  BY <1>1, <1>2, <1>3, <1>4 DEF RouteSetNext

\* So it always holds.
LEMMA RouteSetInvHolds == RouteSetSpec => []RouteSetInv
BY InitRouteSet, NextRouteSet, PTL DEF RouteSetSpec

(* A route set is well typed, and no router that NewRouter returned has two  *)
(* routes with one id, given or generated, however often Handle, the         *)
(* conflict policy and New followed one another.                             *)
THEOREM RoutingTypeCorrect == RouteSetSpec => []RoutingTypeOK
<1>1. RouteSetInv => RoutingTypeOK
  BY DEF RouteSetInv, RouteSetTyped, BuiltOK, RouterOK, RoutingTypeOK, router
<1> QED
  BY <1>1, RouteSetInvHolds, PTL

(* Of two routes of such a router that match one target path, any path at    *)
(* all, one beats the other: bestMatch's own "ambiguous routes" error cannot *)
(* be reached past checkRouteAmbiguity.                                      *)
NeverTied ==
    \A target \in Seq(STRING) : \A i, j \in DOMAIN router.routes :
        /\ i # j
        /\ Matches(router.routes[i].pattern, target)
        /\ Matches(router.routes[j].pattern, target)
        => \/ Beats(router.routes[i], router.routes[j])
           \/ Beats(router.routes[j], router.routes[i])

\* NeverTied, of every router that NewRouter returns.
THEOREM RoutesNeverTie == RouteSetSpec => []NeverTied
<1>1. RouteSetInv => NeverTied
  BY NoTie DEF RouteSetInv, BuiltOK, RouterOK, NeverTied, router
<1> QED
  BY <1>1, RouteSetInvHolds, PTL

---------------------------------------------------------------------------
(* bestMatch.                                                                *)

\* The fold that BestMatch is goes through the routes in order.
LEMMA BestMatchSteps ==
    ASSUME NEW routes, Len(routes) \in Nat, NEW target
    PROVE  \E h :
               /\ h[0] = NoRoute
               /\ \A k \in 0..(Len(routes) - 1) :
                      h[k + 1] = Kept(routes, target, h[k], k + 1)
               /\ BestMatch(routes, target) = h[Len(routes)]
<1> DEFINE n == Len(routes)
           step == [p \in Int \X (Nat \ {0}) |-> Kept(routes, target, p[1], p[2])]
           seq == [i \in 1..n |-> i]
           Folds(g) == g = [s \in SUBSET DOMAIN seq |->
                               IF s = {} THEN NoRoute
                               ELSE Kept(routes, target, g[s \ {Max(s)}], seq[Max(s)])]
<1>1. NoRoute \in Int /\ Ambiguous \in Int /\ n \in Nat /\ DOMAIN seq = 1..n
  BY DEF NoRoute, Ambiguous
<1>2. step \in [Int \X (Nat \ {0}) -> Int]
  <2>1. \A best \in Int, i \in Nat \ {0} : Kept(routes, target, best, i) \in Int
    BY <1>1 DEF Kept
  <2> QED
    BY <2>1
<1>3. PICK g \in [SUBSET (1..n) -> Int] : FoldsSets(g, NoRoute, step, n)
  <2> HIDE DEF step, n
  <2> QED
    BY <1>1, <1>2, FoldExists
<1>4. Folds(g)
  <2>1. ASSUME NEW s \in SUBSET (1..n), s # {}
        PROVE  step[<<g[s \ {Max(s)}], Max(s)>>]
                   = Kept(routes, target, g[s \ {Max(s)}], seq[Max(s)])
    <3>1. Max(s) \in 1..n
      BY <1>1, <2>1, MaxOK
    <3>2. g[s \ {Max(s)}] \in Int
      BY <1>3
    <3>3. seq[Max(s)] = Max(s) /\ Max(s) \in Nat \ {0}
      BY <1>1, <3>1
    <3> QED
      BY <3>2, <3>3
  <2> HIDE DEF step, seq
  <2>2. \A s \in SUBSET (1..n) :
            g[s] = IF s = {} THEN NoRoute
                   ELSE Kept(routes, target, g[s \ {Max(s)}], seq[Max(s)])
    BY <1>3, <2>1 DEF FoldsSets
  <2> QED
    BY <1>1, <1>3, <2>2
<1> DEFINE iter == CHOOSE f : Folds(f)
<1>5. Folds(iter)
  <2> HIDE DEF Folds
  <2> QED
    BY <1>4
<1>6. BestMatch(routes, target) = iter[1..n]
  BY <1>1 DEF BestMatch, FoldLeft, MapThenFoldSet
<1> HIDE DEF iter
<1> DEFINE h == [k \in 0..n |-> iter[1..k]]
<1>7. h[0] = NoRoute /\ h[n] = iter[1..n]
  <2>1. 1..0 = {} /\ {} \in SUBSET (1..n)
    OBVIOUS
  <2>2. iter[1..0] = NoRoute
    BY <1>1, <1>5, <2>1
  <2> QED
    BY <1>1, <2>2
<1>8. ASSUME NEW k \in 0..(n - 1)
      PROVE  h[k + 1] = Kept(routes, target, h[k], k + 1)
  <2>1. k \in Nat /\ k + 1 \in 1..n /\ k \in 0..n /\ k + 1 \in 0..n
    <3> HIDE DEF n
    <3> QED
      BY <1>1
  <2>2. 1..(k + 1) \in SUBSET (1..n) /\ 1..(k + 1) # {}
    <3> HIDE DEF n
    <3>1. 1..(k + 1) \subseteq 1..n /\ 1 \in 1..(k + 1)
      BY <1>1, <2>1
    <3> QED
      BY <3>1
  <2>3. iter[1..(k + 1)] = Kept(routes, target, iter[1..k], seq[k + 1])
    <3>1. \A s \in SUBSET (1..n) : s # {} =>
              iter[s] = Kept(routes, target, iter[s \ {Max(s)}], seq[Max(s)])
      <4> HIDE DEF seq, n
      <4> QED
        BY <1>1, <1>5
    <3> HIDE DEF seq, n
    <3> QED
      BY <2>1, <2>2, <3>1, LastOfInterval
  <2> HIDE DEF n
  <2> QED
    BY <2>1, <2>3
<1> QED
  <2> HIDE DEF h
  <2> QED
    BY <1>6, <1>7, <1>8

(* The best match among the first k routes: none when none of them matches,  *)
(* else one that matches and beats every other that does.                    *)
BestOf(routes, target, best, k) ==
    /\ best \in {NoRoute} \cup 1..k
    /\ best = NoRoute => \A i \in 1..k : ~Matches(routes[i].pattern, target)
    /\ best # NoRoute =>
           /\ Matches(routes[best].pattern, target)
           /\ \A i \in (1..k) \ {best} :
                  Matches(routes[i].pattern, target) => Beats(routes[best], routes[i])

\* One more route keeps it so, for there is no tie and Beats is transitive.
LEMMA KeptIsBest ==
    ASSUME NEW routes, RouterOK(routes), NEW target, Len(target) \in Nat,
           NEW k \in 0..(Len(routes) - 1), NEW best, BestOf(routes, target, best, k)
    PROVE  BestOf(routes, target, Kept(routes, target, best, k + 1), k + 1)
<1> DEFINE r(i) == routes[i]
           Fits(i) == Matches(r(i).pattern, target)
           n == Len(routes)
<1>1. /\ n \in Nat /\ k \in Nat /\ k + 1 \in 1..n /\ \A i \in 1..k : i \in 1..n
      /\ NoRoute = 0 /\ Ambiguous = -1
  BY DEF RouterOK, NoRoute, Ambiguous
<1>2. \A i \in 1..n : RouteOK(r(i))
  BY DEF RouterOK
<1>3. ASSUME NEW i \in 1..n, NEW j \in 1..n, i # j, Fits(i), Fits(j)
      PROVE  Beats(r(i), r(j)) \/ Beats(r(j), r(i))
  <2>1. ~AmbiguousPair(r(i), r(j))
    BY <1>3 DEF RouterOK
  <2> QED
    BY <1>2, <1>3, <2>1, NoTie
<1>4. \A i, j, l \in 1..n : Beats(r(i), r(j)) /\ Beats(r(j), r(l)) => Beats(r(i), r(l))
  <2> HIDE DEF r, n
  <2> QED
    BY <1>2, BeatsIsStrictOrder
<1>5. best # NoRoute => best \in 1..k /\ best \in 1..n /\ best # k + 1
  BY <1>1 DEF BestOf
<1>6. best # Ambiguous
  BY <1>1 DEF BestOf
<1>7. /\ best = NoRoute => \A i \in 1..k : ~Fits(i)
      /\ best # NoRoute => Fits(best) /\ \A i \in (1..k) \ {best} : Fits(i) => Beats(r(best), r(i))
  BY DEF BestOf
<1>8. \A i \in 1..(k + 1) : i \in 1..k \/ i = k + 1
  BY <1>1
<1>9. CASE ~Fits(k + 1)
  <2>1. Kept(routes, target, best, k + 1) = best
    BY <1>9 DEF Kept
  <2>2. best \in {NoRoute} \cup 1..(k + 1)
    BY <1>1, <1>5
  <2> QED
    BY <1>7, <1>8, <1>9, <2>1, <2>2 DEF BestOf
<1>10. CASE Fits(k + 1) /\ (best = NoRoute \/ Beats(r(k + 1), r(best)))
  <2>1. Kept(routes, target, best, k + 1) = k + 1
    BY <1>6, <1>10 DEF Kept
  <2>2. ASSUME NEW i \in 1..k, Fits(i) PROVE Beats(r(k + 1), r(i))
    <3>1. best # NoRoute /\ Beats(r(k + 1), r(best)) /\ best \in 1..n
      BY <1>5, <1>7, <1>10, <2>2
    <3>2. i = best \/ Beats(r(best), r(i))
      BY <1>7, <2>2, <3>1
    <3>3. i \in 1..n
      BY <1>1
    <3> HIDE DEF r, n, Fits
    <3> QED
      BY <1>1, <1>4, <3>1, <3>2, <3>3
  <2>3. k + 1 \in 1..(k + 1) /\ k + 1 # NoRoute
    BY <1>1
  <2> QED
    BY <1>8, <1>10, <2>1, <2>2, <2>3 DEF BestOf
<1>11. CASE Fits(k + 1) /\ ~(best = NoRoute \/ Beats(r(k + 1), r(best)))
  <2>1. Beats(r(best), r(k + 1))
    <3> HIDE DEF r, n, Fits
    <3> QED
      BY <1>1, <1>3, <1>5, <1>7, <1>11
  <2>2. Kept(routes, target, best, k + 1) = best
    BY <1>6, <1>11, <2>1 DEF Kept
  <2>3. best \in 1..(k + 1)
    BY <1>1, <1>5, <1>11
  <2> QED
    BY <1>7, <1>8, <1>11, <2>1, <2>2, <2>3 DEF BestOf
<1> QED
  BY <1>9, <1>10, <1>11

\* So bestMatch returns the best of all routes.
LEMMA BestMatchIsBest ==
    ASSUME NEW routes, RouterOK(routes), NEW target, Len(target) \in Nat
    PROVE  BestOf(routes, target, BestMatch(routes, target), Len(routes))
<1> DEFINE n == Len(routes)
<1>1. n \in Nat
  BY DEF RouterOK
<1>2. PICK h : /\ h[0] = NoRoute
               /\ \A k \in 0..(n - 1) : h[k + 1] = Kept(routes, target, h[k], k + 1)
               /\ BestMatch(routes, target) = h[n]
  BY <1>1, BestMatchSteps
<1> DEFINE Done == {k \in Nat : k <= n => BestOf(routes, target, h[k], k)}
<1>3. 0 \in Done
  <2>1. 1..0 = {} /\ 0 \in Nat
    OBVIOUS
  <2> QED
    BY <1>2, <2>1 DEF BestOf
<1>4. ASSUME NEW k \in Done PROVE k + 1 \in Done
  <2>1. k \in Nat /\ k + 1 \in Nat
    BY <1>4
  <2>2. CASE k + 1 <= n
    <3>1. k \in 0..(n - 1) /\ k <= n
      BY <1>1, <2>1, <2>2
    <3>2. BestOf(routes, target, h[k], k)
      BY <1>4, <3>1
    <3>3. BestOf(routes, target, h[k + 1], k + 1)
      BY <1>2, <3>1, <3>2, KeptIsBest
    <3> QED
      BY <2>1, <3>3
  <2>3. CASE ~(k + 1 <= n)
    BY <2>1, <2>3
  <2> QED
    BY <2>2, <2>3
<1>5. Done = Nat
  <2>1. Done \in SUBSET Nat
    OBVIOUS
  <2> HIDE DEF Done
  <2> QED
    BY <1>3, <1>4, <2>1, NatInd
<1>6. BestOf(routes, target, h[n], n)
  <2>1. n \in Done /\ n <= n
    BY <1>1, <1>5
  <2> QED
    BY <2>1
<1> QED
  BY <1>2, <1>6

\* A target path is a sequence of names, none of them empty.
LEMMA TargetsAreClean ==
    ASSUME NEW t \in Targets
    PROVE  t \in Dirs /\ Len(t) \in Nat /\ \A i \in 1..Len(t) : t[i] # ""
<1>1. t \in Seq(STRING \ {""})
  BY RoutingAssumption
<1> DEFINE S == STRING \ {""}
<1>2. \A x \in S : x \in STRING /\ x # ""
  OBVIOUS
<1>3. t \in Seq(S)
  BY <1>1
<1> HIDE DEF S
<1>4. Len(t) \in Nat /\ DOMAIN t = 1..Len(t) /\ \A i \in 1..Len(t) : t[i] \in S
  BY <1>3
<1>5. t \in Seq(STRING)
  BY <1>2, <1>3, SeqMonotonic
<1>6. \A i \in 1..Len(t) : t[i] # ""
  BY <1>2, <1>4, Zenon
<1> QED
  BY <1>4, <1>5, <1>6, Zenon DEF Dirs

(* Every router that NewRouter accepted has one owner for each target path   *)
(* that any of its routes matches: bestMatch finds the route that beats all  *)
(* the others that match, in whatever order they were declared and with      *)
(* however many routes, and never fails with "ambiguous routes".             *)
THEOREM OneOwnerHolds == RouteSetSpec => []OneOwner
<1>1. RouteSetInv => OneOwner
  <2> SUFFICES ASSUME RouteSetInv, NEW t \in Targets
               PROVE  LET matching == {i \in DOMAIN router.routes :
                                          Matches(router.routes[i].pattern, t)}
                          best == BestMatch(router.routes, t)
                      IN  matching # {} =>
                              /\ best \in matching
                              /\ \A i \in matching \ {best} :
                                     Beats(router.routes[best], router.routes[i])
    BY DEF OneOwner
  <2> DEFINE routes == router.routes
             best == BestMatch(routes, t)
  <2>1. RouterOK(routes)
    BY DEF RouteSetInv, BuiltOK, router
  <2>2. DOMAIN routes = 1..Len(routes)
    BY <2>1 DEF RouterOK
  <2>3. BestOf(routes, t, best, Len(routes))
    BY <2>1, BestMatchIsBest, TargetsAreClean
  <2> HIDE DEF routes, best
  <2>4. LET matching == {i \in DOMAIN routes : Matches(routes[i].pattern, t)}
        IN  matching # {} =>
                /\ best \in matching
                /\ \A i \in matching \ {best} : Beats(routes[best], routes[i])
    BY <2>2, <2>3 DEF BestOf
  <2> QED
    BY <2>4 DEF routes, best
<1> QED
  BY <1>1, RouteSetInvHolds, PTL

---------------------------------------------------------------------------
(* What a filter hides.                                                      *)

\* Handlers show a node of their own making after asking the filter.
LEMMA FilteredNodeShown ==
    ASSUME NEW req, NEW node, NEW sources
    PROVE  Shown(req.filter, FilteredNode(req, node, sources).nodes)
BY DEF Shown, FilteredNode, Filtered, Failure, Success

\* A mapper's nodes for an entry below the source root come as a list.
LEMMA MappedIsList ==
    ASSUME NEW route, Lists(route), route.handler.type \in Materializing,
           NEW tree \in Trees, NEW req, req.sourceRoot \in DOMAIN tree,
           NEW p \in DOMAIN tree, HasPathPrefix(p, req.sourceRoot), p # req.sourceRoot
    PROVE  \E n \in Nat : DOMAIN Mapped(route.handler, req, p, tree[p]) = 1..n
<1> DEFINE handler == route.handler
           rels == MappedRels(handler, req.sourceRoot, Below(p, Len(req.sourceRoot)), tree[p])
<1>1. \E n \in Nat : DOMAIN rels = 1..n
  <2>1. CASE handler.type = "flat"
    <3>1. rels = << >> \/ \E x : rels = <<x>>
      BY <2>1 DEF MappedRels
    <3>2. DOMAIN << >> = 1..0 /\ \A x : DOMAIN <<x>> = 1..1
      OBVIOUS
    <3> HIDE DEF rels
    <3>3. DOMAIN rels = 1..0 \/ DOMAIN rels = 1..1
      BY <3>1, <3>2
    <3> QED
      BY <3>3
  <2>2. CASE handler.type = "classifier"
    <3>1. rels = << >> \/ \E x : rels = <<x>>
      BY <2>2 DEF MappedRels
    <3>2. DOMAIN << >> = 1..0 /\ \A x : DOMAIN <<x>> = 1..1
      OBVIOUS
    <3> HIDE DEF rels
    <3>3. DOMAIN rels = 1..0 \/ DOMAIN rels = 1..1
      BY <3>1, <3>2
    <3> QED
      BY <3>3
  <2>3. CASE handler.type = "transform"
    <3>1. \/ rels = MapWith(handler.mapDir, req.sourceRoot, Below(p, Len(req.sourceRoot)))
          \/ rels = MapWith(handler.mapFile, req.sourceRoot, Below(p, Len(req.sourceRoot)))
      BY <2>3 DEF MappedRels
    <3>2. IsList(rels)
      <4> HIDE DEF rels
      <4> QED
        BY <2>3, <3>1 DEF Lists
    <3> HIDE DEF rels
    <3> QED
      BY <3>2, ListIs
  <2> QED
    BY <2>1, <2>2, <2>3 DEF Materializing
<1>2. DOMAIN Mapped(handler, req, p, tree[p]) = DOMAIN rels
  BY DEF Mapped
<1> QED
  BY <1>1, <1>2

\* Nothing hidden is in a materialization, but by the rename policy.
LEMMA MaterializeShown ==
    ASSUME NEW route, Lists(route), route.handler.type \in Materializing,
           route.handler.policy # "rename", NEW tree \in Trees, NEW req
    PROVE  Shown(req.filter, Materialize(route.handler, req, tree).nodes)
<1> DEFINE handler == route.handler
           visited == Visited(handler, req, tree)
           list == InOrder(visited)
           n == Cardinality(visited)
<1>1. Shown(req.filter, EmptyState.nodes) /\ \A e : Shown(req.filter, FailedState(e).nodes)
  BY DEF Shown, FailedState, EmptyState
<1>2. CASE ~IsDir(tree, req.sourceRoot)
  BY <1>1, <1>2 DEF Materialize, IsDir
<1>3. CASE IsDir(tree, req.sourceRoot)
  <2>1. /\ DOMAIN tree \subseteq Dirs /\ IsFiniteSet(DOMAIN tree) /\ OrdersNames(Trees)
        /\ req.sourceRoot \in DOMAIN tree
    BY <1>3, RoutingAssumption DEF Dirs, IsDir, Exists
  <2>2. \A p \in visited : /\ p \in DOMAIN tree
                           /\ HasPathPrefix(p, req.sourceRoot) /\ p # req.sourceRoot
    BY DEF Visited
  <2>3. \A p \in visited : p # Root
    <3>1. ASSUME NEW p \in visited, p = Root PROVE FALSE
      <4>1. Len(req.sourceRoot) < Len(p)
        BY <2>1, <2>2, <3>1, PrefixIs
      <4>2. Len(p) = 0 /\ Len(req.sourceRoot) \in Nat
        BY <2>1, <3>1 DEF Root, Dirs
      <4> QED
        BY <4>1, <4>2
    <3> QED
      BY <3>1
  <2>4. visited \in SUBSET (DOMAIN tree \ {Root})
    BY <2>2, <2>3
  <2>5. n \in Nat /\ list \in [1..n -> visited]
    <3> HIDE DEF visited
    <3> QED
      BY <2>1, <2>4, TreeInOrder
  <2>6. PICK h : /\ h[0] = EmptyState
                 /\ \A k \in 0..(n - 1) :
                        h[k + 1] = VisitNext(handler, req, tree, h[k], list[k + 1])
                 /\ Materialize(handler, req, tree) = h[n]
    BY <1>3, <2>5, MaterializeSteps
  <2>7. ASSUME NEW s, Shown(req.filter, s.nodes), NEW p \in visited
        PROVE  Shown(req.filter, VisitNext(handler, req, tree, s, p).nodes)
    <3>1. PICK m \in Nat : DOMAIN Mapped(handler, req, p, tree[p]) = 1..m
      BY <2>1, <2>2, <2>7, MappedIsList
    <3>2. Shown(req.filter,
                AddVisible(handler, req.filter, s, Mapped(handler, req, p, tree[p])).nodes)
      BY <2>7, <3>1, AddVisibleShown
    <3>3. VisitNext(handler, req, tree, s, p)
              \in {s, FailedState("other"),
                   AddVisible(handler, req.filter, s, Mapped(handler, req, p, tree[p]))}
      BY DEF VisitNext, VisitEntry, Prunes
    <3> QED
      BY <1>1, <2>7, <3>2, <3>3
  <2> HIDE DEF visited, list, n
  <2> DEFINE Done == {k \in Nat : k <= n => Shown(req.filter, h[k].nodes)}
  <2>8. 0 \in Done
    BY <1>1, <2>6
  <2>9. ASSUME NEW k \in Done PROVE k + 1 \in Done
    <3>1. k \in Nat /\ k + 1 \in Nat
      BY <2>9
    <3>2. CASE k + 1 <= n
      <4>1. k \in 0..(n - 1) /\ k <= n /\ k + 1 \in 1..n
        BY <2>5, <3>1, <3>2
      <4>2. Shown(req.filter, h[k].nodes) /\ list[k + 1] \in visited
        BY <2>5, <2>9, <4>1
      <4>3. Shown(req.filter, h[k + 1].nodes)
        BY <2>6, <2>7, <4>1, <4>2
      <4> QED
        BY <3>1, <4>3
    <3>3. CASE ~(k + 1 <= n)
      BY <3>1, <3>3
    <3> QED
      BY <3>2, <3>3
  <2>10. Done = Nat
    <3>1. Done \in SUBSET Nat
      OBVIOUS
    <3> HIDE DEF Done
    <3> QED
      BY <2>8, <2>9, <3>1, NatInd
  <2> QED
    BY <2>5, <2>6, <2>10
<1> QED
  BY <1>2, <1>3

\* What a handler answers: included nodes, and those it does not filter.
ShownBy(handler, filter, nodes) ==
    \A n \in nodes : TargetDecision(filter, n) = "include" \/ Unfiltered(handler, n)

LEMMA NothingShown ==
    ASSUME NEW handler, NEW filter, NEW err
    PROVE  ShownBy(handler, filter, Failure(err).nodes)
BY DEF ShownBy, Failure

\* Of a materialization a handler shows nodes, or categories.
LEMMA FromNodesShown ==
    ASSUME NEW route, Lists(route), route.handler.type \in Materializing,
           NEW tree \in Trees, NEW req, NEW wanted, NEW emptyIsMissing,
           LET state == Materialize(route.handler, req, tree)
           IN  \/ wanted \subseteq state.nodes
               \/ route.handler.type = "classifier" /\ \A n \in wanted : n.kind = "dir"
    PROVE  LET state == Materialize(route.handler, req, tree)
           IN  ShownBy(route.handler, req.filter,
                       FromNodes(req, state, wanted, emptyIsMissing).nodes)
<1> DEFINE state == Materialize(route.handler, req, tree)
           answer == FromNodes(req, state, wanted, emptyIsMissing)
<1>1. answer.nodes = {} \/ answer.nodes = wanted
  BY DEF FromNodes, Failure, Success
<1>2. ShownBy(route.handler, req.filter, state.nodes)
  <2>1. CASE route.handler.policy = "rename"
    BY <2>1 DEF ShownBy, Unfiltered
  <2>2. CASE route.handler.policy # "rename"
    <3>1. Shown(req.filter, state.nodes)
      BY <2>2, MaterializeShown
    <3> HIDE DEF state
    <3> QED
      BY <3>1 DEF Shown, ShownBy
  <2> QED
    BY <2>1, <2>2
<1>3. ShownBy(route.handler, req.filter, wanted)
  <2>1. \/ wanted \subseteq state.nodes
        \/ route.handler.type = "classifier" /\ \A n \in wanted : n.kind = "dir"
    OBVIOUS
  <2> HIDE DEF state
  <2> QED
    BY <1>2, <2>1 DEF ShownBy, Unfiltered
<1> HIDE DEF answer
<1>4. ShownBy(route.handler, req.filter, answer.nodes)
  BY <1>1, <1>3 DEF ShownBy
<1> QED
  BY <1>4 DEF answer

\* Categories are directories.
LEMMA CategoriesAreDirs ==
    ASSUME NEW req, NEW nodes PROVE \A n \in CategoriesOf(req, nodes) : n.kind = "dir"
BY DEF CategoriesOf, CategoryNode

LEMMA MaterializedShown ==
    ASSUME NEW route, Lists(route), route.handler.type \in Materializing,
           NEW tree \in Trees, NEW req
    PROVE  /\ ShownBy(route.handler, req.filter,
                      MaterializedResolve(route.handler, req, tree).nodes)
           /\ ShownBy(route.handler, req.filter,
                      MaterializedReadDir(route.handler, req, tree).nodes)
<1> DEFINE handler == route.handler
           state == Materialize(handler, req, tree)
           categories == CategoriesOf(req, state.nodes)
           good(answer) == ShownBy(handler, req.filter, answer.nodes)
<1>1. \A err : good(Failure(err))
  BY NothingShown
<1>2. \A n \in categories : n.kind = "dir"
  BY CategoriesAreDirs
<1>3. ASSUME NEW wanted, NEW emptyIsMissing,
             \/ wanted \subseteq state.nodes
             \/ handler.type = "classifier" /\ wanted \subseteq categories
      PROVE  good(FromNodes(req, state, wanted, emptyIsMissing))
  <2>1. \/ wanted \subseteq state.nodes
        \/ handler.type = "classifier" /\ \A n \in wanted : n.kind = "dir"
    <3> HIDE DEF state, categories
    <3> QED
      BY <1>2, <1>3
  <2> QED
    BY <2>1, FromNodesShown
<1>4. good(ResolvedIn(handler, req, state))
  <2> DEFINE nodes == IF handler.type = "classifier" /\ Len(req.rel) = 1
                      THEN categories ELSE state.nodes
             wanted == {n \in nodes : n.path = req.target}
  <2>1. ResolvedIn(handler, req, state) = FromNodes(req, state, wanted, TRUE)
    BY DEF ResolvedIn
  <2>2. \/ wanted \subseteq state.nodes
        \/ handler.type = "classifier" /\ wanted \subseteq categories
    <3>1. nodes = state.nodes \/ (handler.type = "classifier" /\ nodes = categories)
      OBVIOUS
    <3> HIDE DEF state, categories, nodes
    <3> QED
      BY <3>1
  <2> HIDE DEF wanted, state
  <2> QED
    BY <1>3, <2>1, <2>2
<1>5. good(ListedIn(handler, req, state))
  <2> DEFINE below == {n \in state.nodes : ParentPath(n.path) = req.target}
             all == IF handler.type = "classifier" THEN categories ELSE state.nodes
  <2>1. \E wanted \in {all, below, {}}, b \in BOOLEAN :
            ListedIn(handler, req, state) = FromNodes(req, state, wanted, b)
    BY DEF ListedIn
  <2>2. \A wanted \in {all, below, {}} :
            \/ wanted \subseteq state.nodes
            \/ handler.type = "classifier" /\ wanted \subseteq categories
    <3>1. all = state.nodes \/ (handler.type = "classifier" /\ all = categories)
      OBVIOUS
    <3>2. below \subseteq state.nodes /\ {} \subseteq state.nodes
      OBVIOUS
    <3> HIDE DEF state, categories, all, below
    <3> QED
      BY <3>1, <3>2
  <2> HIDE DEF all, below, state
  <2> QED
    BY <1>3, <2>1, <2>2
<1>6. good(RootNode(req, tree))
  <2>1. \A node : Shown(req.filter, FilteredNode(req, node, {req.sourceRoot}).nodes)
    BY FilteredNodeShown
  <2>2. \/ \E err : RootNode(req, tree) = Failure(err)
        \/ \E node : RootNode(req, tree) = FilteredNode(req, node, {req.sourceRoot})
    BY DEF RootNode
  <2> QED
    BY <1>1, <2>1, <2>2 DEF Shown, ShownBy
<1> HIDE DEF good
<1>7. good(MaterializedResolve(handler, req, tree))
  BY <1>1, <1>4, <1>6 DEF MaterializedResolve
<1>8. good(MaterializedReadDir(handler, req, tree))
  BY <1>1, <1>5 DEF MaterializedReadDir
<1> QED
  BY <1>7, <1>8 DEF good

LEMMA IdentityShown ==
    ASSUME NEW req, NEW first, NEW later
    PROVE  /\ Shown(req.filter, IdentityResolve(req, first).nodes)
           /\ Shown(req.filter, IdentityReadDir(req, first, later).nodes)
<1>1. \A err : Shown(req.filter, Failure(err).nodes)
  BY DEF Shown, Failure
<1>2. Shown(req.filter, IdentityResolve(req, first).nodes)
  BY <1>1, FilteredNodeShown DEF IdentityResolve
<1>3. Shown(req.filter, IdentityReadDir(req, first, later).nodes)
  <2> DEFINE source == JoinPath(req.sourceRoot, req.rel)
             names  == Listing(first, source)
             info(q) == IF Exists(later[q], q) THEN later[q][q] ELSE first[q]
             node   == [q \in names |->
                           NodeFromFileInfo(JoinPath(req.target, BaseName(q)), q, info(q))]
             decision == [q \in names |->
                             IF Exists(later[q], q) THEN TargetDecision(req.filter, node[q])
                                                ELSE "gone"]
  <2>1. \/ \E err : IdentityReadDir(req, first, later) = Failure(err)
        \/ IdentityReadDir(req, first, later) = ListingOf(req, source, node, decision)
    BY DEF IdentityReadDir
  <2>2. ASSUME NEW q \in DOMAIN node, decision[q] = "include"
        PROVE  TargetDecision(req.filter, node[q]) = "include"
    <3>1. q \in names
      OBVIOUS
    <3> HIDE DEF names
    <3>2. decision[q] = IF Exists(later[q], q) THEN TargetDecision(req.filter, node[q]) ELSE "gone"
      BY <3>1
    <3> HIDE DEF decision, node
    <3> QED
      BY <2>2, <3>2
  <2> HIDE DEF node, decision
  <2>3. Shown(req.filter, {node[q] : q \in {r \in DOMAIN node : decision[r] = "include"}})
    BY <2>2 DEF Shown
  <2>4. \/ \E err : ListingOf(req, source, node, decision) = Failure(err)
        \/ ListingOf(req, source, node, decision).nodes
               = {node[q] : q \in {r \in DOMAIN node : decision[r] = "include"}}
    BY DEF ListingOf, Success
  <2> QED
    BY <1>1, <2>1, <2>3, <2>4
<1> QED
  BY <1>2, <1>3

LEMMA VirtualShown ==
    ASSUME NEW req, NEW provider
    PROVE  /\ Shown(req.filter, VirtualResolve(req, provider).nodes)
           /\ Shown(req.filter, VirtualReadDir(req, provider).nodes)
<1>1. \A err : Shown(req.filter, Failure(err).nodes)
  BY DEF Shown, Failure
<1>2. Shown(req.filter, VirtualResolve(req, provider).nodes)
  BY <1>1, FilteredNodeShown DEF VirtualResolve
<1>3. \/ \E err : VirtualReadDir(req, provider) = Failure(err)
      \/ \E nodes : VirtualReadDir(req, provider).nodes
                        = {n \in nodes : TargetDecision(req.filter, n) = "include"}
  BY DEF VirtualReadDir, Success
<1> QED
  BY <1>1, <1>2, <1>3 DEF Shown

\* Whatever the handler, it shows what the filter of the request includes.
LEMMA HandlerShown ==
    ASSUME NEW route, Lists(route), NEW tree \in Trees, NEW later, NEW req
    PROVE  /\ ShownBy(route.handler, req.filter, HandlerResolve(route.handler, req, tree).nodes)
           /\ ShownBy(route.handler, req.filter,
                      HandlerReadDir(route.handler, req, tree, later).nodes)
<1> DEFINE handler == route.handler
           resolved == HandlerResolve(handler, req, tree)
           listed == HandlerReadDir(handler, req, tree, later)
           mount == MountRequest(handler, req)
<1>1. mount.filter = req.filter
  BY DEF MountRequest
<1>2. CASE handler.type \in Materializing
  <2>1. resolved = MaterializedResolve(handler, req, tree)
        /\ listed = MaterializedReadDir(handler, req, tree)
    BY <1>2 DEF HandlerResolve, HandlerReadDir, Materializing
  <2> QED
    BY <1>2, <2>1, MaterializedShown
<1>3. CASE handler.type = "virtual"
  <2>1. resolved = VirtualResolve(req, handler.provider)
        /\ listed = VirtualReadDir(req, handler.provider)
    BY <1>3 DEF HandlerResolve, HandlerReadDir, Materializing
  <2>2. Shown(req.filter, resolved.nodes) /\ Shown(req.filter, listed.nodes)
    BY <2>1, VirtualShown
  <2> HIDE DEF resolved, listed
  <2>3. ShownBy(handler, req.filter, resolved.nodes) /\ ShownBy(handler, req.filter, listed.nodes)
    BY <2>2 DEF Shown, ShownBy
  <2> QED
    BY <2>3 DEF resolved, listed
<1>4. CASE handler.type \notin Materializing \cup {"virtual"}
  <2>1. resolved = IdentityResolve(mount, tree) /\ listed = IdentityReadDir(mount, tree, later)
    BY <1>4 DEF HandlerResolve, HandlerReadDir
  <2>2. Shown(req.filter, resolved.nodes) /\ Shown(req.filter, listed.nodes)
    <3> HIDE DEF mount, resolved, listed
    <3> QED
      BY <1>1, <2>1, IdentityShown
  <2> HIDE DEF resolved, listed
  <2>3. ShownBy(handler, req.filter, resolved.nodes) /\ ShownBy(handler, req.filter, listed.nodes)
    BY <2>2 DEF Shown, ShownBy
  <2> QED
    BY <2>3 DEF resolved, listed
<1> QED
  BY <1>2, <1>3, <1>4

---------------------------------------------------------------------------
(* What the router makes of it.                                              *)

\* ReadDir's loop over the routes.
Looped(r, global, target, start) ==
    FoldLeft(LAMBDA acc, route : AddRoute(r, global, target, acc, route), start, r.routes)

\* It stays in a set that no route leads out of.
LEMMA MergeStays ==
    ASSUME NEW r, NEW n \in Nat, DOMAIN r.routes = 1..n, NEW global, NEW target,
           NEW S, NEW start \in S,
           \A acc \in S, i \in 1..n : AddRoute(r, global, target, acc, r.routes[i]) \in S
    PROVE  Looped(r, global, target, start) \in S
<1> DEFINE routes == r.routes
           add(acc, i) == AddRoute(r, global, target, acc, routes[i])
           step == [p \in S \X (Nat \ {0}) |-> IF p[2] \in 1..n THEN add(p[1], p[2]) ELSE p[1]]
           Folds(g) == g = [s \in SUBSET DOMAIN routes |->
                               IF s = {} THEN start
                               ELSE AddRoute(r, global, target, g[s \ {Max(s)}],
                                             routes[Max(s)])]
           iter == CHOOSE g : Folds(g)
<1>1. \A acc \in S, i \in 1..n : add(acc, i) \in S
  OBVIOUS
<1> HIDE DEF add
<1>2. step \in [S \X (Nat \ {0}) -> S]
  BY <1>1
<1>3. PICK g \in [SUBSET (1..n) -> S] : FoldsSets(g, start, step, n)
  <2> HIDE DEF step
  <2> QED
    BY <1>2, FoldExists
<1>4. Folds(g)
  <2>1. ASSUME NEW s \in SUBSET (1..n), s # {}
        PROVE  step[<<g[s \ {Max(s)}], Max(s)>>] = add(g[s \ {Max(s)}], Max(s))
    <3>1. Max(s) \in 1..n
      BY <2>1, MaxOK
    <3>2. g[s \ {Max(s)}] \in S
      BY <1>3
    <3> QED
      BY <3>1, <3>2
  <2> HIDE DEF step
  <2>2. \A s \in SUBSET (1..n) :
            g[s] = IF s = {} THEN start ELSE add(g[s \ {Max(s)}], Max(s))
    BY <1>3, <2>1 DEF FoldsSets
  <2> QED
    BY <1>3, <2>2 DEF add
<1>5. Folds(iter)
  <2> HIDE DEF Folds
  <2> QED
    BY <1>4
<1>6. Looped(r, global, target, start) = iter[1..n]
  BY DEF Looped, FoldLeft, MapThenFoldSet
<1>7. \A s \in SUBSET (1..n) :
          iter[s] = IF s = {} THEN start ELSE add(iter[s \ {Max(s)}], Max(s))
  <2> HIDE DEF iter
  <2> QED
    BY <1>5 DEF add
<1> HIDE DEF iter, Folds
<1> DEFINE Done == {k \in Nat : k <= n => iter[1..k] \in S}
<1>8. 0 \in Done
  <2>1. 1..0 = {} /\ {} \in SUBSET (1..n)
    OBVIOUS
  <2> QED
    BY <1>7, <2>1
<1>9. ASSUME NEW k \in Done PROVE k + 1 \in Done
  <2> DEFINE s == 1..(k + 1)
  <2>1. k \in Nat /\ k + 1 \in Nat
    BY <1>9
  <2>2. CASE k + 1 <= n
    <3>1. k <= n /\ iter[1..k] \in S /\ k + 1 \in 1..n
      BY <1>9, <2>1, <2>2
    <3>2. Max(s) = k + 1 /\ s \ {k + 1} = 1..k
      BY <2>1, LastOfInterval
    <3>3. s \in SUBSET (1..n) /\ s # {}
      <4>1. s \subseteq 1..n /\ 1 \in s
        BY <2>1, <2>2
      <4> HIDE DEF s
      <4> QED
        BY <4>1
    <3> HIDE DEF s
    <3>4. iter[s] = add(iter[1..k], k + 1)
      BY <1>7, <3>2, <3>3
    <3>5. iter[s] \in S
      BY <1>1, <3>1, <3>4
    <3> QED
      BY <2>1, <3>5 DEF s
  <2>3. CASE ~(k + 1 <= n)
    BY <2>1, <2>3
  <2> QED
    BY <2>2, <2>3
<1>10. Done = Nat
  <2>1. Done \in SUBSET Nat
    OBVIOUS
  <2> HIDE DEF Done
  <2> QED
    BY <1>8, <1>9, <2>1, NatInd
<1>11. iter[1..n] \in S
  BY <1>10
<1> QED
  BY <1>6, <1>11

\* mergeNode keeps what there was and adds at most the next node, or fails.
LEMMA MergeAmong ==
    ASSUME NEW r, NEW merged, NEW next
    PROVE  Merge(r, merged, next) \subseteq merged \cup {next}
<1> DEFINE same == {m \in merged : BaseName(m.node.path) = BaseName(next.node.path)}
           swap == (merged \ same) \cup {next}
<1>1. Merge(r, merged, next) \in {swap, merged, {}}
  <2> HIDE DEF same
  <2> QED
    BY DEF Merge, same
<1> QED
  BY <1>1

\* A merged listing shows nodes of the owner's own and included children.
LEMMA MergedShown ==
    ASSUME NEW r, RouterOK(r.routes), NEW target, NEW owner, NEW own
    PROVE  \A n \in MergedListing(r, Global, target, owner, own).nodes :
               n \in own.nodes \/ TargetDecision(Global, n) = "include"
<1> DEFINE n == Len(r.routes)
           from == {[node |-> x, route |-> owner] : x \in own.nodes}
           X == {m \in from \cup {ShownChild(r.routes[i], target) : i \in 1..n} :
                    m.node \in own.nodes \/ TargetDecision(Global, m.node) = "include"}
           S == [err : {"none", "conflict", "other"}, shown : SUBSET X, merged : SUBSET X]
           start == [err |-> "none", shown |-> {}, merged |-> from]
           result == Looped(r, Global, target, start)
<1>1. n \in Nat /\ DOMAIN r.routes = 1..n
  BY DEF RouterOK
<1>2. start \in S
  OBVIOUS
<1>3. ASSUME NEW acc \in S, NEW i \in 1..n
      PROVE  AddRoute(r, Global, target, acc, r.routes[i]) \in S
  <2> DEFINE route == r.routes[i]
             child == ShownChild(route, target)
             decision == TargetDecision(Global \o route.filter, child.node)
             merged == Merge(r, acc.merged, child)
  <2>1. /\ [acc EXCEPT !.err = "conflict"] \in S
        /\ [acc EXCEPT !.err = "other"] \in S
    <3> HIDE DEF X
    <3> QED
      OBVIOUS
  <2>2. ASSUME decision = "include"
        PROVE  [acc EXCEPT !.merged = merged, !.shown = acc.shown \cup {child}] \in S
    <3>1. TargetDecision(Global, child.node) = "include"
      <4>1. IsList(Global) /\ IsList(route.filter)
        BY <1>1, ListsAssumption DEF RouterOK, Lists
      <4> HIDE DEF route, child
      <4> QED
        BY <2>2, <4>1, BothInclude
    <3>2. child \in X
      BY <3>1
    <3>3. merged \subseteq acc.merged \cup {child}
      BY MergeAmong
    <3> HIDE DEF X, child, merged
    <3>4. merged \in SUBSET X /\ acc.shown \cup {child} \in SUBSET X
      BY <3>2, <3>3
    <3> QED
      BY <3>4
  <2>3. \/ AddRoute(r, Global, target, acc, route)
               \in {acc, [acc EXCEPT !.err = "conflict"], [acc EXCEPT !.err = "other"]}
        \/ /\ decision = "include"
           /\ AddRoute(r, Global, target, acc, route)
                  = [acc EXCEPT !.merged = merged, !.shown = acc.shown \cup {child}]
    <3> HIDE DEF S, X
    <3> QED
      BY DEF AddRoute, AddChild
  <2> HIDE DEF S, decision, merged, child
  <2> QED
    BY <2>1, <2>2, <2>3
<1>4. result \in S
  <2> HIDE DEF S, start, n
  <2> QED
    BY <1>1, <1>2, <1>3, MergeStays
<1>5. \/ \E err : MergedListing(r, Global, target, owner, own) = Failure(err)
      \/ MergedListing(r, Global, target, owner, own).nodes = {m.node : m \in result.merged}
  BY DEF MergedListing, Looped, Success
<1>6. \A m \in result.merged : m.node \in own.nodes \/ TargetDecision(Global, m.node) = "include"
  <2> HIDE DEF result
  <2> QED
    BY <1>4
<1> HIDE DEF result
<1> QED
  BY <1>5, <1>6 DEF Failure

(* However many routes, handlers and filters there are, and in whatever      *)
(* source: no lookup shows a node that the FS's filter hides, but for the    *)
(* categories and the names of the rename policy.                            *)
THEOREM FilterHides == RouteSetSpec => []HiddenIsNotShown
<1>1. RouteSetInv => HiddenIsNotShown
  <2> SUFFICES ASSUME RouteSetInv, NEW t \in Targets, NEW tree \in Trees
               PROVE  LET own    == Resolve(router, Global, tree, t).nodes
                                        \cup OwnListing(router, Global, tree, InfosOf(tree, tree), t).nodes
                          merged == ReadDir(router, Global, tree, InfosOf(tree, tree), t).nodes
                      IN  \A n \in own \cup merged :
                              \/ TargetDecision(Global, n) = "include"
                              \/ n \in own /\ Unfiltered(OwnerOf(router, t).handler, n)
    BY DEF HiddenIsNotShown
  <2> DEFINE r == router
             best == BestMatch(r.routes, t)
             route == r.routes[best]
             resolved == Resolve(r, Global, tree, t)
             listed == OwnListing(r, Global, tree, InfosOf(tree, tree), t)
             merged == ReadDir(r, Global, tree, InfosOf(tree, tree), t)
             Good(nodes) == ShownBy(route.handler, Global, nodes)
  <2>1. RouterOK(r.routes)
    BY DEF RouteSetInv, BuiltOK, router
  <2>2. best \in {NoRoute} \cup DOMAIN r.routes
    <3>1. DOMAIN r.routes = 1..Len(r.routes)
      BY <2>1 DEF RouterOK
    <3> QED
      BY <2>1, <3>1, BestMatchIsBest, TargetsAreClean DEF BestOf
  <2>3. NoRoute \notin DOMAIN r.routes /\ Ambiguous \notin DOMAIN r.routes
    BY <2>1 DEF RouterOK, NoRoute, Ambiguous
  <2> HIDE DEF r
  <2>4. \A err : Good(Failure(err).nodes)
    BY NothingShown
  <2>5. ASSUME best \in DOMAIN r.routes
        PROVE  LET req == RequestFor(Global, route, t)
               IN  /\ Good(HandlerResolve(route.handler, req, tree).nodes)
                   /\ Good(HandlerReadDir(route.handler, req, tree, InfosOf(tree, tree)).nodes)
    <3> DEFINE req == RequestFor(Global, route, t)
    <3>1. Lists(route) /\ IsList(route.filter) /\ IsList(Global)
      BY <2>1, <2>5, ListsAssumption DEF RouterOK, Lists
    <3>2. req.filter = Global \o route.filter
      BY DEF RequestFor
    <3> HIDE DEF req, route
    <3>3. /\ ShownBy(route.handler, req.filter, HandlerResolve(route.handler, req, tree).nodes)
          /\ ShownBy(route.handler, req.filter,
                     HandlerReadDir(route.handler, req, tree, InfosOf(tree, tree)).nodes)
      BY <3>1, HandlerShown
    <3>4. \A n : TargetDecision(req.filter, n) = "include"
                     => TargetDecision(Global, n) = "include"
      BY <3>1, <3>2, BothInclude
    <3> QED
      BY <3>3, <3>4 DEF ShownBy, req
  <2> HIDE DEF Good
  <2>6. Good(resolved.nodes)
    BY <2>2, <2>3, <2>4, <2>5 DEF Resolve
  <2>7. Good(listed.nodes)
    BY <2>2, <2>3, <2>4, <2>5 DEF OwnListing
  <2>8. merged = listed \/ merged = MergedListing(r, Global, t, route, listed)
    BY DEF ReadDir
  <2>9. \A n \in merged.nodes : n \in listed.nodes \/ TargetDecision(Global, n) = "include"
    <3> HIDE DEF merged, listed, route
    <3> QED
      BY <2>1, <2>8, MergedShown
  <2>10. OwnerOf(r, t).handler = route.handler
    BY DEF OwnerOf
  <2> HIDE DEF merged, listed, resolved, route
  <2>11. \A n \in (resolved.nodes \cup listed.nodes) \cup merged.nodes :
             \/ TargetDecision(Global, n) = "include"
             \/ n \in resolved.nodes \cup listed.nodes /\ Unfiltered(OwnerOf(r, t).handler, n)
    BY <2>6, <2>7, <2>9, <2>10 DEF Good, ShownBy
  <2> QED
    BY <2>11 DEF r, merged, listed, resolved
<1> QED
  BY <1>1, RouteSetInvHolds, PTL

=============================================================================
