------------------------------ MODULE MCWebCheck ------------------------------
(***************************************************************************)
(* Two names that lapse, are taken by somebody, or cannot be dated, over   *)
(* three instants; an answer is fresh until the next one.                  *)
(***************************************************************************)
EXTENDS WebCheck, TLC

CONSTANTS a, b

Expires(t) == [found |-> TRUE, expiry |-> t]
Free == [found |-> FALSE, expiry |-> None]

MCTimelines ==
  {[t \in Time |-> Expires(0)],
   [t \in Time |-> IF t < 2 THEN Free ELSE Expires(3)],
   [t \in Time |-> Expires(None)]}

Symmetry == Permutations(Names)

=============================================================================
