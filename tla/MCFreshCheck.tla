----------------------------- MODULE MCFreshCheck -----------------------------
(***************************************************************************)
(* Two requests at a time on two instances, about one set of names that    *)
(* costs one upstream call and one that costs two: the second fills the    *)
(* upstream window, and each displaces the only copy an instance keeps.    *)
(***************************************************************************)
EXTENDS FreshCheck, TLC

CONSTANTS q1, q2, i1, i2, one, two, a, c1

MCCost == [n \in NameSets |-> IF n = two THEN 2 ELSE 1]

\* Requests and instances are used alike.
Symmetry == Permutations(Requests) \cup Permutations(Instances)

=============================================================================
