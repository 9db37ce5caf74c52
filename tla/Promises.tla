------------------------------ MODULE Promises ------------------------------
(* ProxyFS with a second pair of ghosts that take InvalidatePath at its word *)
(* (README.md:397): once it has returned, lookups of the target path answer  *)
(* from the source as it was when the call was made or later, whatever else  *)
(* was under way. ProxyFS's own ghost floor excuses a fetch that the         *)
(* invalidation overtakes; this one does not.                                *)
EXTENDS ProxyFS

VARIABLES
    promised,   \* per key, the version current when it was last invalidated
    due         \* per caller: promised for the key of its lookup, or the
                \* version current when its InvalidatePath was called

promiseVars == <<vars, promised, due>>

PromiseInit ==
    /\ Init
    /\ promised = [k \in Keys |-> 1]
    /\ due = [c \in Callers |-> 1]

\* Callers whose InvalidatePath begins, or returns without an error, in this step.
Invalidates(c) == At(c, "idle") /\ call'[c].step = "dropparent"
HasInvalidated(c) == /\ At(c, "dropparent")
                     /\ call'[c].step = "done"
                     /\ call'[c].answer.err = "none"

BeginsLookup(c) == ~At(c, "get") /\ call'[c].step = "get"

PromiseNext ==
    /\ Next
    /\ promised' =
           [k \in Keys |->
               LET by == {c \in Callers : HasInvalidated(c) /\ call[c].path = k.path}
               IN  IF k.kind = "node" /\ by # {} THEN due[CHOOSE c \in by : TRUE]
                   ELSE promised[k]]
    /\ due' =
           [c \in Callers |->
               IF Invalidates(c) THEN Version
               ELSE IF BeginsLookup(c) THEN promised[KeyFor(call'[c].kind, call'[c].path)]
               ELSE due[c]]

PromiseSpec == PromiseInit /\ [][PromiseNext]_promiseVars

(* README.md:397 "`InvalidatePath` invalidates the target path": a Stat that *)
(* begins after it returned never answers from a state of the source that    *)
(* was already gone when it was called.                                      *)
InvalidatePathSticks ==
    \A c \in Callers :
        Answered(c) /\ call[c].kind = "node" => call[c].first >= due[c]
=============================================================================
