------------------------------- MODULE MCCatalog -------------------------------
(***************************************************************************)
(* Small instances of Catalog: two full pages of one product more than one *)
(* page holds, or of exactly one page after a removal.                     *)
(***************************************************************************)
EXTENDS Catalog, TLC

CONSTANTS q1, q2

TwoRequests == {q1, q2}
ThreeProducts == {1, 2, 3}
OneOfEachPage == {1, 3}
Names == (1 :> 3) @@ (2 :> 1) @@ (3 :> 2)

\* The endpoint's options, and those of a caller that mirrors deletions.
Endpoint == [active_only |-> TRUE, reindex |-> TRUE, delete |-> FALSE, prune |-> FALSE]
Mirror == [active_only |-> FALSE, reindex |-> TRUE, delete |-> TRUE, prune |-> TRUE]
EndpointAndMirror == (q1 :> {Endpoint}) @@ (q2 :> {Mirror})
AnyTrouble == Troubles
================================================================================
