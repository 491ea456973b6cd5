----------------------------- MODULE MCPublisher -----------------------------
(***************************************************************************)
(* Small instances of the publisher.  Two groups with the cadences of the  *)
(* two schedules, the reserved concurrency of two invocations, and clocks  *)
(* scaled so that one tick is the function timeout.                        *)
(***************************************************************************)
EXTENDS Publisher, TLC

CONSTANTS short, long, r1, r2, b1, b2

\* The slower schedule has the longer window: twice as long here, eight times as
\* long in the deployment.
MCCadence == [g \in Groups |-> IF g = short THEN 1 ELSE 2]

\* Two unusable documents are strings; the others are of one other type.
MCForm == [b \in Broken |-> IF b \in {b1, b2} THEN "S" ELSE "M"]

\* Invocations, answers, chunk indexes and documents of a form are used alike.
Symmetry ==
  Permutations(Runs) \cup Permutations(Answers) \cup Permutations(Parts)
  \cup Permutations(Broken \cap {b1, b2}) \cup Permutations(Broken \ {b1, b2})

=============================================================================
