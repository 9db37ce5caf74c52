---------------------------- MODULE MemoryCache ----------------------------
(* The cache (cache.go, cache_memory.go): a map from CacheKey to CacheEntry  *)
(* behind a mutex, so each operation is one atomic step. As every entry      *)
(* holds its key, the map is the set of its entries.                         *)
(*                                                                           *)
(* A key is [path, route, kind]. An entry is                                 *)
(*   [key, negative, nodes, paths, expires, sources, routes, asOf]           *)
(* where nodes is the node of a "node" entry or the children of a "dir"      *)
(* entry, paths the SourcePaths or TargetPaths of the other two kinds, and   *)
(* sources and routes are the fields of the entry's Scope that Invalidate    *)
(* reads (it never looks at TargetRoot and Recursive of an entry). asOf is a *)
(* ghost: the oldest version of the source that the entry was read from.     *)
EXTENDS Paths, Integers

VARIABLE entries

CacheKinds == {"node", "dir", "sources", "targets"}

Never == -1                    \* ExpiresAt.IsZero()

\* Mutant of Expired: an entry is served at the very moment it expires.
ExpiredLate(entry, now) == entry.expires # Never /\ now > entry.expires

\* CacheEntry.expired.
Expired(entry, now) == entry.expires # Never /\ now >= entry.expires

\* routeMatches: nothing requested, the key's route, or one of the entry's.
RouteMatches(keyRoute, entryRoutes, requested) ==
    \/ requested = {}
    \/ keyRoute \in requested
    \/ entryRoutes \cap requested # {}

\* Mutant of SourceMatches: only entries read at or below a requested root.
SourceMatchesBelow(entryRoots, requested) ==
    \/ requested = {}
    \/ \E r \in requested, e \in entryRoots : e = r \/ HasPathPrefix(e, r)

\* sourceMatches: some requested root and some root of the entry are nested.
SourceMatches(entryRoots, requested) ==
    \/ requested = {}
    \/ \E r \in requested, e \in entryRoots :
           e = r \/ HasPathPrefix(e, r) \/ HasPathPrefix(r, e)

\* Mutant of Covers: recursive is not looked at.
CoversExactly(scope, entry) ==
    /\ RouteMatches(entry.key.route, entry.routes, scope.routes)
    /\ SourceMatches(entry.sources, scope.sources)
    /\ entry.key.path = scope.root

\* The entries that Invalidate deletes for a scope [root, recursive, routes, sources].
Covers(scope, entry) ==
    /\ RouteMatches(entry.key.route, entry.routes, scope.routes)
    /\ SourceMatches(entry.sources, scope.sources)
    /\ \/ entry.key.path = scope.root
       \/ scope.recursive /\ HasPathPrefix(entry.key.path, scope.root)

CacheInit == entries = {}

\* Get: the entry under the key, if there is one.
Found(key) == {e \in entries : e.key = key}

\* Mutant of Put: the entry that was under the key stays.
PutBeside(entry) == entries' = entries \cup {entry}

Put(entry) == entries' = {e \in entries : e.key # entry.key} \cup {entry}

Delete(key) == entries' = {e \in entries : e.key # key}

Invalidate(scope) == entries' = {e \in entries : ~Covers(scope, e)}

Clear == entries' = {}

=============================================================================
