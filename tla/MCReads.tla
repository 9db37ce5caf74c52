------------------------------ MODULE MCReads ------------------------------
(* The instances of ProxyFS over the catch-all route, whose router gives     *)
(* what ConsistentRouter asks for.                                           *)
EXTENDS MCProxyFS, ConsistentRouter

(* In these instances a listing says nothing of its children that a Stat of  *)
(* the child would not have said in the same span, so that what the cache    *)
(* answers for a node is what the router itself answers.                     *)
ASSUME ListingAddsNothing ==
    \A states \in Spans, path \in Targets :
        \A n \in ListedAs(states, path) :
            \E answer \in RouterAnswers(states, "node", path) :
                Seen(answer) = Seen([Failed("none") EXCEPT !.nodes = {n}])
=============================================================================
