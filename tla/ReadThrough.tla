---------------------------- MODULE ReadThrough ----------------------------
(* What the file system promises its callers, with no cache in sight: a      *)
(* lookup answers what the router would say of some states of the source, at *)
(* most as old as what was last promised of its key when it began. Nothing   *)
(* here says how old answers come to be; ProxyFS implements it.              *)
EXTENDS Integers, Sequences

CONSTANTS
    Callers,            \* goroutines that call the file system
    Keys,               \* what they look up: a kind of answer for a path
    Trees,              \* the states the source can be in
    FirstTree,          \* the one it starts in
    Regions,            \* the sets of keys that one invalidation may promise
    Fills(_, _),        \* a lookup of the first key may also renew the second
    AnswersTo(_, _)     \* what may be said of a key, read over a span of trees

VARIABLES
    trees,      \* the states of the source so far
    promise,    \* per key, the oldest of them that may still be answered from
    asked       \* per caller, the lookup it is in

vars == <<trees, promise, asked>>

Latest == Len(trees)

\* No lookup; one that waits for its answer; one that has it.
Nothing == [state |-> "none"]
Asked(key, since) == [state |-> "asked", key |-> key, since |-> since]
Answered(answer) == [state |-> "answered", answer |-> answer]

Waiting(c) == asked[c].state = "asked"

Init ==
    /\ trees = <<FirstTree>>
    /\ promise = [k \in Keys |-> 1]
    /\ asked = [c \in Callers |-> Nothing]

\* A lookup begins; an Open whose node is known may begin a second one.
Ask(c, key) ==
    /\ ~Waiting(c)
    /\ asked' = [asked EXCEPT ![c] = Asked(key, promise[key])]
    /\ UNCHANGED <<trees, promise>>

\* The states of the source from the v-th to the w-th.
Span(v, w) == [i \in 1..(w - v + 1) |-> trees[v + i - 1]]

(* It is answered from the source as it was between two moments. (~Waiting   *)
(* adds nothing: it tells other steps apart before the spans are looked at.) *)
Answer(c) ==
    /\ Waiting(c) /\ ~Waiting(c)'
    /\ UNCHANGED <<trees, promise>>
    /\ \E v \in asked[c].since..Latest : \E w \in v..Latest :
           \E answer \in AnswersTo(Span(v, w), asked[c].key) :
               asked' = [asked EXCEPT ![c] = Answered(answer)]

\* The caller is done with it, or it failed without an answer.
Leave(c) ==
    /\ asked[c] # Nothing
    /\ asked' = [asked EXCEPT ![c] = Nothing]
    /\ UNCHANGED <<trees, promise>>

(* An invalidation of a region: from now on only the latest source counts    *)
(* for its keys, except those that a lookup in progress may still renew.     *)
Contended(key) == \E c \in Callers : Waiting(c) /\ Fills(asked[c].key, key)

Forget(region) ==
    /\ UNCHANGED <<trees, asked>>
    /\ promise' \in [Keys -> Nat]
    /\ \A k \in Keys :
           \/ k \in region /\ promise'[k] = Latest
           \/ (k \in region => Contended(k)) /\ promise'[k] = promise[k]

Change(tree) ==
    /\ trees' = Append(trees, tree)
    /\ UNCHANGED <<promise, asked>>

Next ==
    \/ \E c \in Callers : Answer(c) \/ Leave(c) \/ \E k \in Keys : Ask(c, k)
    \/ \E region \in Regions : Forget(region)
    \/ \E tree \in Trees : Change(tree)

Spec == Init /\ [][Next]_vars

=============================================================================
