------------------------------- MODULE MCWalk -------------------------------
(* Small instances of Walk: three levels of names with clashes between the   *)
(* files of different directories, one of which is already called what the   *)
(* rename policy would call another.                                         *)
EXTENDS Walk

MCDotNames == {}
MCExtOf(name) == IF name = "d" THEN "" ELSE "." \o name
Order == <<"0", "a", "a_2", "d", "e">>
MCNameBefore(m, n) ==
    \E i, j \in DOMAIN Order : i < j /\ Order[i] = m /\ Order[j] = n
SuffixedNames ==
    [a |-> <<"a_1", "a_2", "a_3", "a_4", "a_5">>, a_2 |-> <<"a_2_1", "a_2_2", "a_2_3">>]
MCSuffixed(name, n) ==
    IF name \in DOMAIN SuffixedNames /\ n <= Len(SuffixedNames[name]) THEN SuffixedNames[name][n] ELSE "other"
MCMapWith(function, root, rel) == IF function = "keep" THEN <<rel>> ELSE << >>

FlatHandler(policy, depth) == [policy |-> policy, type |-> "flat", maxDepth |-> depth]
TransformHandler(policy) ==
    [policy |-> policy, type |-> "transform", maxDepth |-> 0,
     mapFile |-> "keep", mapDir |-> "keep"]

Depth(n) == <<[or |-> FALSE, of |-> <<[depth |-> n, type |-> "maxdepth"]>>]>>
FailAtD0 ==
    <<[or |-> FALSE,
       of |-> <<[type |-> "paths", hide |-> {}, deny |-> {}, fail |-> {<<"d", "0">>}]>>]>>

Job(handler, root, filter) ==
    [handler |-> handler,
     req |-> [rel |-> Root, filter |-> filter, target |-> Root, sourceRoot |-> root,
              targetRoot |-> Root, id |-> <<"all">>]]

MCJobs ==
    {Job(FlatHandler("rename", 0), Root, NoFilter),
     Job(FlatHandler("last", 1), <<"d">>, NoFilter),
     Job(FlatHandler("first", 0), Root, Depth(1)),
     Job(FlatHandler("error", 2), Root, NoFilter),
     Job(TransformHandler("error"), Root, FailAtD0)}

Dir == [kind |-> "dir", stamp |-> 0]
TreeOf(dirs, files) ==
    [p \in {Root} \cup dirs \cup files |->
        IF p \in files THEN [kind |-> "file", stamp |-> 1] ELSE Dir]

A == <<"a">>
A2 == <<"a_2">>
D == <<"d">>
DA == <<"d", "a">>
D0 == <<"d", "0">>
D0A == <<"d", "0", "a">>
E == <<"e">>

MCTrees ==
    {TreeOf({D, D0}, {A, DA, D0A}), TreeOf({D, D0}, {A, A2, DA, D0A}),
     TreeOf({D}, {A2, DA, D0}), TreeOf({A}, {D, E}), TreeOf({D, D0}, {A, D0A, E})}
=============================================================================
