---------------------------- MODULE SourceTree ----------------------------
(* The source fs.FS, as src/ uses it through fs.Stat, fs.ReadDir and         *)
(* DirEntry.Info (external to the repository). A tree maps the paths that    *)
(* exist to [kind, stamp]; the stamp stands for mode, size and modification  *)
(* time, whatever a change of the file's content changes in its FileInfo.    *)
(* A tree has no symbolic links: fs.Stat, which follows them, and Info of an *)
(* entry, which does not, are the same lookup in it.                         *)
EXTENDS Paths

Exists(tree, p) == p \in DOMAIN tree

IsDir(tree, p) == Exists(tree, p) /\ tree[p].kind = "dir"

\* fs.ReadDir: the paths directly below p.
Listing(tree, p) == {q \in DOMAIN tree : ChildOf(q, p)}

\* A tree a file system can be in: rooted, and files have nothing below them.
WellFormed(tree) ==
    /\ IsDir(tree, Root)
    /\ \A p \in DOMAIN tree : IsDir(tree, ParentPath(p))
=============================================================================
