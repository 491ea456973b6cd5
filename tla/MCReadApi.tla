------------------------------ MODULE MCReadApi ------------------------------
(***************************************************************************)
(* Two clients of two instances, and three snapshots: two that can be      *)
(* served, one scanned after the other, and one that is too large.         *)
(***************************************************************************)
EXTENDS ReadApi, TLC

CONSTANTS c1, c2, i1, i2, s1, s2, big

MCScannedAt == [s \in Snapshots |-> CASE s = s1 -> 1 [] s = s2 -> 2 [] OTHER -> 3]

\* Clients and instances are used alike.
Symmetry == Permutations(Clients) \cup Permutations(Instances)

=============================================================================
