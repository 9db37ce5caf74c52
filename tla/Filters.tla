------------------------------ MODULE Filters ------------------------------
(* Filters (filter.go): what a filter decides for an entry, a record         *)
(* [phase, target, isDir] with the phase "index" (FilterIndex, during a walk *)
(* of the source), "target" (FilterTarget, what lookups show) or "open".     *)
(*                                                                           *)
(* A filter is the sequence of the clauses that And combines, so And(f, g)   *)
(* is f \o g and a nil filter the empty sequence. A clause is                *)
(* [or |-> FALSE, of |-> <<p>>] for a predicate p, or [or |-> TRUE, of] for  *)
(* Or of a sequence of predicates. A predicate is one of the library's, or   *)
(* "paths", which stands for an application's FilterFunc that tells target   *)
(* paths apart: it hides some, denies some to be opened, fails on some.      *)
EXTENDS Paths, SequencesExt

CONSTANTS
    DotNames,     \* the names that begin with a dot
    ExtOf(_)      \* path.Ext of a name, in lower case; "" if it has none

Decisions == {"include", "exclude", "excludetree", "deny", "error"}

\* applyFilter of a nil filter, and AllowAll.
NoFilter == << >>

IsList(s) == s \in Seq(ToSet(s))

\* A decision to hide: in the walk of the source, of all that lies below too.
Excluded(entry) ==
    IF entry.isDir /\ entry.phase = "index" THEN "excludetree" ELSE "exclude"

\* filterEntry's Name: path.Base of the target path.
NameOf(target) == IF target = Root THEN "." ELSE target[Len(target)]

\* HideDotFiles: by the name, unless it is "." itself.
HideDotFiles(entry) ==
    IF entry.target # Root /\ NameOf(entry.target) \in DotNames
    THEN Excluded(entry) ELSE "include"

\* MaxDepth, by the depth of the target path; a negative one is no limit.
MaxDepth(depth, entry) ==
    IF depth >= 0 /\ Len(entry.target) > depth THEN Excluded(entry) ELSE "include"

(* NamePattern: the first pattern that matches the name or is malformed      *)
(* decides. A pattern is [malformed, names], names being those it matches.   *)
NamePattern(patterns, entry) ==
    LET hits == {i \in DOMAIN patterns :
                    patterns[i].malformed \/ NameOf(entry.target) \in patterns[i].names}
    IN  CASE entry.isDir \/ patterns = << >> -> "include"
          [] ~entry.isDir /\ patterns # << >> /\ hits = {} -> "exclude"
          [] OTHER -> IF patterns[Min(hits)].malformed THEN "error" ELSE "include"

HasExt(exts, entry) ==
    entry.target # Root /\ ExtOf(NameOf(entry.target)) \in exts

\* ExtAllowList and ExtDenyList; an empty list includes everything.
ExtAllowList(exts, entry) ==
    IF entry.isDir \/ exts = {} \/ HasExt(exts, entry) THEN "include" ELSE "exclude"

ExtDenyList(exts, entry) ==
    IF ~entry.isDir /\ HasExt(exts, entry) THEN "exclude" ELSE "include"

\* An application's FilterFunc.
ByPath(p, entry) ==
    CASE entry.target \in p.fail -> "error"
      [] entry.target \in p.hide \ p.fail -> "exclude"
      [] entry.target \in p.deny \ (p.hide \cup p.fail) ->
            IF entry.phase = "open" THEN "deny" ELSE "include"
      [] OTHER -> "include"

PredicateDecision(p, entry) ==
    CASE p.type = "dotfiles" -> HideDotFiles(entry)
      [] p.type = "maxdepth" -> MaxDepth(p.depth, entry)
      [] p.type = "names"    -> NamePattern(p.patterns, entry)
      [] p.type = "allow"    -> ExtAllowList(p.exts, entry)
      [] p.type = "deny"     -> ExtDenyList(p.exts, entry)
      [] p.type = "paths"    -> ByPath(p, entry)

\* And: the first decision that is not to include.
AndOf(decisions) ==
    LET others == {i \in DOMAIN decisions : decisions[i] # "include"}
    IN  IF others = {} THEN "include" ELSE decisions[Min(others)]

(* Or: the first inclusion or error ends it; without one, a denial is kept   *)
(* and everything else -- the exclusion of a tree too -- is "exclude".       *)
OrOf(decisions) ==
    LET last == {i \in DOMAIN decisions : decisions[i] \in {"include", "error"}}
    IN  CASE decisions = << >> -> "include"
          [] decisions # << >> /\ last # {} -> decisions[Min(last)]
          [] OTHER -> IF "deny" \in ToSet(decisions) THEN "deny" ELSE "exclude"

\* A predicate by itself is the And of one.
ClauseDecision(clause, entry) ==
    LET combined(decisions) == IF clause.or THEN OrOf(decisions) ELSE AndOf(decisions)
    IN  combined([i \in DOMAIN clause.of |-> PredicateDecision(clause.of[i], entry)])

FilterDecision(filter, entry) ==
    AndOf([i \in DOMAIN filter |-> ClauseDecision(filter[i], entry)])

\* filterEntry and filterEntryForNode, as far as the predicates above read it.
FilterEntry(phase, target, kind) ==
    [phase |-> phase, target |-> target, isDir |-> kind = "dir"]

\* What FilterTarget decides for a node.
TargetDecision(filter, node) ==
    FilterDecision(filter, FilterEntry("target", node.path, node.kind))

=============================================================================
