------------------------------- MODULE Paths -------------------------------
(* Slash-separated paths (path.go, and cleanRoot and hasPathPrefix of        *)
(* cache_memory.go). A clean path is the sequence of its segments; the path  *)
(* "." is the empty sequence. CleanPath only ever lets such paths through,   *)
(* so nothing below handles "..", empty segments or a leading slash.         *)
EXTENDS Naturals, Sequences

\* The path ".".
Root == << >>

\* ParentPath: "." is its own parent.
ParentPath(name) ==
    IF name = Root THEN Root ELSE SubSeq(name, 1, Len(name) - 1)

\* JoinPath of two clean paths: "." disappears.
JoinPath(root, rel) == root \o rel

\* path.Base, as a path of one segment (of none for ".").
BaseName(name) ==
    IF name = Root THEN Root ELSE <<name[Len(name)]>>

\* hasPathPrefix: strings.HasPrefix(name, root + "/"), and always for ".".
HasPathPrefix(name, root) ==
    \/ root = Root
    \/ /\ Len(root) < Len(name)
       /\ SubSeq(name, 1, Len(root)) = root

\* One of the roots is the path or above it.
CoveredBy(name, roots) == \E root \in roots : name = root \/ HasPathPrefix(name, root)

\* The segments of name below its first n.
Below(name, n) == SubSeq(name, n + 1, Len(name))

\* name lists directly under parent.
ChildOf(name, parent) == name # Root /\ ParentPath(name) = parent

=============================================================================
