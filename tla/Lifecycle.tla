------------------------------- MODULE Lifecycle -------------------------------
(***************************************************************************)
(* The lifecycle of a registration: ens.Classify, and the way back that    *)
(* snapshot.CarryForward takes to publish a name again without asking the  *)
(* index about it.  Instants and periods are whole seconds, which is what  *)
(* canonicalTime makes of an instant and what the index gives an expiry    *)
(* in.                                                                     *)
(***************************************************************************)
EXTENDS Integers

CONSTANTS
  GracePeriod,    \* from the expiry to the end of the grace period
  PremiumPeriod,  \* from there to the end of the premium
  None            \* no expiry, no boundary

ASSUME LifecycleAssumption ==
  /\ GracePeriod \in Nat /\ PremiumPeriod \in Nat
  /\ None \notin Int

Statuses ==
  {"registered", "expiring-soon", "grace-period", "grace-ending-soon", "premium",
   "available", "unknown"}

Instant == Int \cup {None}

\* What the index says of a name: only a registration has an expiry, and one that
\* cannot be read is none.
Lookup == {l \in [found : BOOLEAN, expiry : Instant] : l.found \/ l.expiry = None}

Result == [status : Statuses, expiry : Instant, graceEnds : Instant, premiumEnds : Instant]

-----------------------------------------------------------------------------
(* Classify                                                                *)

GraceEnds(expiry) == expiry + GracePeriod
PremiumEnds(expiry) == GraceEnds(expiry) + PremiumPeriod

\* The soon window counts its last instant in.
Near(end, now, soon) == end <= now + soon

\* A period has ended at the instant it ends.
Phase(expiry, now, soon) ==
  CASE now < expiry ->
         IF Near(expiry, now, soon) THEN "expiring-soon" ELSE "registered"
    [] expiry <= now /\ now < GraceEnds(expiry) ->
         IF Near(GraceEnds(expiry), now, soon) THEN "grace-ending-soon" ELSE "grace-period"
    [] GraceEnds(expiry) <= now /\ now < PremiumEnds(expiry) -> "premium"
    [] PremiumEnds(expiry) <= now -> "available"

StatusOf(lookup, now, soon) ==
  IF ~lookup.found THEN "available"
  ELSE IF lookup.expiry = None THEN "unknown" ELSE Phase(lookup.expiry, now, soon)

\* The boundaries are stated once the expiry has passed.
Lapsed(lookup, now) == lookup.found /\ lookup.expiry # None /\ lookup.expiry <= now

Classify(lookup, now, soon) ==
  [status      |-> StatusOf(lookup, now, soon),
   expiry      |-> lookup.expiry,
   graceEnds   |-> IF Lapsed(lookup, now) THEN GraceEnds(lookup.expiry) ELSE None,
   premiumEnds |-> IF Lapsed(lookup, now) THEN PremiumEnds(lookup.expiry) ELSE None]

-----------------------------------------------------------------------------
(* CarryForward                                                            *)

\* Some answer of the index accounts for the result.
Recoverable(result) == result.expiry # None \/ result.status \in {"unknown", "available"}

\* Mutation: a name that is available was never found.
LookupFromStatus(result) ==
  IF result.status = "available" THEN [found |-> FALSE, expiry |-> None]
  ELSE [found |-> TRUE, expiry |-> result.expiry]

\* lookupFromResult, of a result that is recoverable.
LookupFromResult(result) ==
  [found  |-> result.expiry # None \/ result.status = "unknown",
   expiry |-> result.expiry]

\* What is carried is the index's answer, and never the status it had.
CarryForward(result, now, soon) == Classify(LookupFromResult(result), now, soon)

-----------------------------------------------------------------------------
\* How far a registration has come.  No two statuses of one registration share a
\* rank, and what cannot be told has none.
Rank(status) ==
  CASE status = "registered" -> 1
    [] status = "expiring-soon" -> 2
    [] status = "grace-period" -> 3
    [] status = "grace-ending-soon" -> 4
    [] status = "premium" -> 5
    [] status = "available" -> 6
    [] status = "unknown" -> 0

=============================================================================
