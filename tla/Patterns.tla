----------------------------- MODULE Patterns -----------------------------
(* Route patterns and source templates (pattern.go).                         *)
(*                                                                           *)
(* A raw pattern or template is the sequence of its parsed parts: a part is  *)
(* [kind, text] where kind says which case of ParsePattern's switch the text *)
(* falls in ("static", "named", "wildcard", "glob", or "bad" for an error).  *)
(* A compiled pattern keeps its segments without the trailing "**", which    *)
(* becomes the flag `glob`.                                                  *)
EXTENDS Paths, FiniteSets

Parts == [kind : {"static", "named", "wildcard", "glob", "bad"}, text : STRING]

\* ParsePattern: "**" only as the last part, no malformed part.
ParsePatternOK(raw) ==
    \A i \in 1..Len(raw) : /\ raw[i].kind # "bad"
                           /\ raw[i].kind = "glob" => i = Len(raw)

ParsePattern(raw) ==
    IF raw # << >> /\ raw[Len(raw)].kind = "glob"
    THEN [segments |-> SubSeq(raw, 1, Len(raw) - 1), glob |-> TRUE]
    ELSE [segments |-> raw, glob |-> FALSE]

PrefixLen(p) == Len(p.segments)

(* matchPatternSegment over the first n segments: only a static segment can  *)
(* disagree, for no segment of a clean path is empty.                        *)
SegmentMatches(segment, value) == segment.kind = "static" => segment.text = value

PrefixMatches(p, parts, n) ==
    \A i \in 1..n : SegmentMatches(p.segments[i], parts[i])

\* The positions of the first n segments that bind the parameter x.
Binders(segments, n, x) ==
    {i \in 1..n : segments[i].kind = "named" /\ segments[i].text = x}

(* The parameters the first n segments bind. A name used twice keeps the     *)
(* value written last: params is a map that matchPatternSegment overwrites.  *)
BoundParams(segments, parts, n) ==
    LET names == {segments[i].text : i \in {j \in 1..n : segments[j].kind = "named"}}
        last(x) == CHOOSE i \in Binders(segments, n, x) :
                       \A j \in Binders(segments, n, x) : j <= i
    IN  [x \in names |-> parts[last(x)]]

\* Pattern.Match succeeds.
Matches(p, target) ==
    /\ IF p.glob THEN Len(target) >= PrefixLen(p) ELSE Len(target) = PrefixLen(p)
    /\ PrefixMatches(p, target, PrefixLen(p))

\* What Pattern.Match returns when it does.
MatchOf(p, target) ==
    [params     |-> BoundParams(p.segments, target, PrefixLen(p)),
     targetRoot |-> SubSeq(target, 1, PrefixLen(p)),
     targetRel  |-> Below(target, PrefixLen(p))]

(* nextChild: the pattern goes on below parent with a static segment, which  *)
(* a listing of parent shows as a directory that no source entry backs.      *)
HasNextChild(p, parent) ==
    /\ Len(parent) < PrefixLen(p)
    /\ PrefixMatches(p, parent, Len(parent))
    /\ p.segments[Len(parent) + 1].kind = "static"

NextChild(p, parent) ==
    [targetPath |-> Append(parent, p.segments[Len(parent) + 1].text),
     params     |-> BoundParams(p.segments, parent, Len(parent))]

(* TargetRoot: the pattern's own prefix written out with the parameters'     *)
(* values; impossible when it holds a wildcard or an unbound name.           *)
HasTargetRoot(p, params) ==
    \A i \in 1..PrefixLen(p) :
        \/ p.segments[i].kind = "static"
        \/ p.segments[i].kind = "named" /\ p.segments[i].text \in DOMAIN params

TargetRoot(p, params) ==
    [i \in 1..PrefixLen(p) |->
        IF p.segments[i].kind = "static" THEN p.segments[i].text
                                         ELSE params[p.segments[i].text]]

(* patternSpecificity as the tuple of its fields, in the order in which      *)
(* compareSpecificity looks at them.                                         *)
CountKind(p, kind) == Cardinality({i \in 1..PrefixLen(p) : p.segments[i].kind = kind})

Specificity(p) ==
    <<IF p.glob THEN 0 ELSE 1, PrefixLen(p),
      CountKind(p, "static"), CountKind(p, "named"), CountKind(p, "wildcard")>>

\* compareSpecificity > 0.
MoreSpecific(left, right) ==
    \E i \in 1..5 : /\ left[i] > right[i]
                    /\ \A j \in 1..(i - 1) : left[j] = right[j]

\* Mutant of CanOverlap: any two different segments keep the patterns apart.
CanOverlapByText(p, q) ==
    /\ \A i \in (1..PrefixLen(p)) \cap (1..PrefixLen(q)) :
           p.segments[i].text = q.segments[i].text
    /\ p.glob \/ q.glob \/ PrefixLen(p) = PrefixLen(q)

(* canOverlap: two different static segments at one position settle it; with *)
(* no "**" left the lengths must agree.                                      *)
CanOverlap(p, q) ==
    /\ \A i \in (1..PrefixLen(p)) \cap (1..PrefixLen(q)) :
           ~ /\ p.segments[i].kind = "static"
             /\ q.segments[i].kind = "static"
             /\ p.segments[i].text # q.segments[i].text
    /\ p.glob \/ q.glob \/ PrefixLen(p) = PrefixLen(q)

---------------------------------------------------------------------------
(* Source templates: a sequence of parts of kind "static" and "named".       *)

ParseTemplateOK(raw) == \A i \in 1..Len(raw) : raw[i].kind \in {"static", "named"}

\* defaultSourceTemplate: the pattern's prefix, or "." when it has a wildcard.
DefaultTemplate(p) ==
    IF \E i \in 1..PrefixLen(p) : p.segments[i].kind = "wildcard"
    THEN << >> ELSE p.segments

\* SourceTemplate.Instantiate: a named part needs its parameter.
CanInstantiate(t, params) ==
    \A i \in 1..Len(t) : t[i].kind = "named" => t[i].text \in DOMAIN params

Instantiate(t, params) ==
    [i \in 1..Len(t) |-> IF t[i].kind = "named" THEN params[t[i].text] ELSE t[i].text]

\* Mutant of MatchesSource: the source root itself does not match.
MatchesSourceBelow(t, source) ==
    /\ Len(source) > Len(t)
    /\ \A i \in 1..Len(t) : SegmentMatches(t[i], source[i])

\* Mutant of SourceMatchOf: the matched root stays in the relative path.
SourceMatchUnstripped(t, source) ==
    [params     |-> BoundParams(t, source, Len(t)),
     sourceRoot |-> SubSeq(source, 1, Len(t)),
     sourceRel  |-> source]

\* SourceTemplate.MatchSource, and what it returns when it succeeds.
MatchesSource(t, source) ==
    /\ Len(source) >= Len(t)
    /\ \A i \in 1..Len(t) : SegmentMatches(t[i], source[i])

SourceMatchOf(t, source) ==
    [params     |-> BoundParams(t, source, Len(t)),
     sourceRoot |-> SubSeq(source, 1, Len(t)),
     sourceRel  |-> Below(source, Len(t))]

=============================================================================
