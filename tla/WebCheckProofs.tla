---------------------------- MODULE WebCheckProofs ----------------------------
(***************************************************************************)
(* What Classify and CarryForward compute, for every expiry, instant,      *)
(* period and window, and with it the properties of WebCheck, for any      *)
(* names, timelines, windows and bounds.                                   *)
(***************************************************************************)
EXTENDS WebCheck, FiniteSetTheorems, TLAPS

-----------------------------------------------------------------------------
(* The lifecycle of a name                                                 *)

\* An expiry is told apart from none.
LEMMA ExpiryIsNotNone == \A t \in Int : t # None
  BY LifecycleAssumption

\* Every instant falls in exactly one phase of a registration.
LEMMA PhaseCases ==
  ASSUME NEW expiry \in Int, NEW at \in Int, NEW soon \in Int
  PROVE  /\ at < expiry =>
              Phase(expiry, at, soon) =
                IF expiry <= at + soon THEN "expiring-soon" ELSE "registered"
         /\ expiry <= at /\ at < expiry + GracePeriod =>
              Phase(expiry, at, soon) =
                IF expiry + GracePeriod <= at + soon
                  THEN "grace-ending-soon" ELSE "grace-period"
         /\ expiry + GracePeriod <= at /\ at < expiry + GracePeriod + PremiumPeriod =>
              Phase(expiry, at, soon) = "premium"
         /\ expiry + GracePeriod + PremiumPeriod <= at =>
              Phase(expiry, at, soon) = "available"
  BY LifecycleAssumption DEF Phase, Near, GraceEnds, PremiumEnds

LEMMA PhaseType ==
  ASSUME NEW expiry \in Int, NEW at \in Int, NEW soon \in Int
  PROVE  Phase(expiry, at, soon) \in Statuses \ {"unknown"}
  <1>1. \/ at < expiry
        \/ expiry <= at /\ at < expiry + GracePeriod
        \/ expiry + GracePeriod <= at /\ at < expiry + GracePeriod + PremiumPeriod
        \/ expiry + GracePeriod + PremiumPeriod <= at
    BY LifecycleAssumption
  <1>2. QED
    BY <1>1, PhaseCases DEF Statuses

\* Every answer of the index is classified, with boundaries only beside an expiry.
\* (ens.Classify)
THEOREM ClassifyTypes ==
  ASSUME NEW lookup \in Lookup, NEW at \in Int, NEW soon \in Int
  PROVE  /\ Classify(lookup, at, soon) \in Result
         /\ Classify(lookup, at, soon).expiry = None =>
              /\ Classify(lookup, at, soon).graceEnds = None
              /\ Classify(lookup, at, soon).premiumEnds = None
  <1>1. lookup.expiry \in Instant
    BY DEF Lookup, Instant
  <1>2. StatusOf(lookup, at, soon) \in Statuses
    <2>1. CASE lookup.found /\ lookup.expiry # None
      <3>1. lookup.expiry \in Int
        BY <1>1, <2>1 DEF Instant
      <3>2. QED
        BY <2>1, <3>1, PhaseType DEF StatusOf
    <2>2. CASE ~(lookup.found /\ lookup.expiry # None)
      BY <2>2 DEF StatusOf, Statuses
    <2>3. QED
      BY <2>1, <2>2
  <1>3. Lapsed(lookup, at) =>
          /\ lookup.expiry # None
          /\ GraceEnds(lookup.expiry) \in Int /\ PremiumEnds(lookup.expiry) \in Int
    <2>1. SUFFICES ASSUME Lapsed(lookup, at)
                   PROVE  /\ lookup.expiry # None
                          /\ GraceEnds(lookup.expiry) \in Int
                          /\ PremiumEnds(lookup.expiry) \in Int
      OBVIOUS
    <2>2. lookup.expiry \in Int /\ lookup.expiry # None
      BY <1>1, <2>1 DEF Lapsed, Instant
    <2>3. QED
      BY <2>2, LifecycleAssumption DEF GraceEnds, PremiumEnds
  <1>4. QED
    BY <1>1, <1>2, <1>3 DEF Classify, Result, Instant

\* A result that was classified can be carried, and gives back the answer of the
\* index it was classified from: no status is taken for another's.
\* (lookupFromResult: the mapping is exact)
THEOREM LookupIsRecovered ==
  ASSUME NEW lookup \in Lookup, NEW at \in Int, NEW soon \in Int
  PROVE  /\ Recoverable(Classify(lookup, at, soon))
         /\ LookupFromResult(Classify(lookup, at, soon)) = lookup
  <1> DEFINE result == Classify(lookup, at, soon)
  <1>1. result.expiry = lookup.expiry /\ result.status = StatusOf(lookup, at, soon)
    BY DEF Classify
  <1>2. lookup = [found |-> lookup.found, expiry |-> lookup.expiry]
        /\ lookup.found \in BOOLEAN
    BY DEF Lookup, Instant
  <1>3. CASE lookup.expiry # None
    <2>1. lookup.found
      BY <1>3 DEF Lookup
    <2>2. QED
      BY <1>1, <1>2, <1>3, <2>1 DEF Recoverable, LookupFromResult
  <1>4. CASE lookup.expiry = None /\ lookup.found
    BY <1>1, <1>2, <1>4 DEF Recoverable, LookupFromResult, StatusOf
  <1>5. CASE lookup.expiry = None /\ ~lookup.found
    BY <1>1, <1>2, <1>5 DEF Recoverable, LookupFromResult, StatusOf
  <1>6. QED
    BY <1>3, <1>4, <1>5

\* A carried result is what a scan at that instant would have made of the same
\* answer, and carrying it again makes no difference: a name may be carried any
\* number of times.  (CarryForward)
THEOREM CarryIsClassify ==
  ASSUME NEW lookup \in Lookup, NEW then \in Int, NEW later \in Int, NEW at \in Int,
         NEW before \in Int, NEW soon \in Int
  PROVE  /\ CarryForward(Classify(lookup, then, before), at, soon)
              = Classify(lookup, at, soon)
         /\ CarryForward(CarryForward(Classify(lookup, then, before), later, before), at, soon)
              = Classify(lookup, at, soon)
  <1>1. LookupFromResult(Classify(lookup, then, before)) = lookup
    BY LookupIsRecovered
  <1>2. LookupFromResult(Classify(lookup, later, before)) = lookup
    BY LookupIsRecovered
  <1>3. QED
    BY <1>1, <1>2 DEF CarryForward

\* As long as nobody renews or registers it, a name only moves on through its
\* lifecycle: of two statuses read with the same window, the later is never the
\* earlier in it.  (CheckConfig.Soon: a fresh status and a snapshot status agree)
THEOREM StatusAdvances ==
  ASSUME NEW lookup \in Lookup, NEW at \in Int, NEW later \in Int, at <= later,
         NEW soon \in Int
  PROVE  Rank(Classify(lookup, at, soon).status)
           <= Rank(Classify(lookup, later, soon).status)
  <1>1. \A t \in Int : Classify(lookup, t, soon).status = StatusOf(lookup, t, soon)
    BY DEF Classify
  <1>2. CASE lookup.found /\ lookup.expiry # None
    <2> DEFINE e == lookup.expiry
    <2>1. e \in Int
      BY <1>2 DEF Lookup, Instant
    <2>2. \A t \in Int : StatusOf(lookup, t, soon) = Phase(e, t, soon)
      BY <1>2 DEF StatusOf
    <2>3. \A t \in Int :
            /\ t < e => Rank(Phase(e, t, soon)) = IF e <= t + soon THEN 2 ELSE 1
            /\ e <= t /\ t < e + GracePeriod =>
                 Rank(Phase(e, t, soon)) = IF e + GracePeriod <= t + soon THEN 4 ELSE 3
            /\ e + GracePeriod <= t /\ t < e + GracePeriod + PremiumPeriod =>
                 Rank(Phase(e, t, soon)) = 5
            /\ e + GracePeriod + PremiumPeriod <= t => Rank(Phase(e, t, soon)) = 6
      BY <2>1, PhaseCases DEF Rank
    <2> DEFINE r(t) == Rank(Phase(e, t, soon))
    <2>4. r(at) <= r(later)
      <3> HIDE DEF e
      <3>1. GracePeriod \in Nat /\ PremiumPeriod \in Nat
        BY LifecycleAssumption
      <3>2. QED
        BY <2>1, <2>3, <3>1
    <2>5. QED
      BY <1>1, <2>2, <2>4
  <1>3. CASE ~(lookup.found /\ lookup.expiry # None)
    <2>1. StatusOf(lookup, at, soon) = StatusOf(lookup, later, soon)
      BY <1>3 DEF StatusOf
    <2>2. StatusOf(lookup, at, soon) \in {"available", "unknown"}
      BY <1>3 DEF StatusOf
    <2>3. QED
      BY <1>1, <2>1, <2>2 DEF Rank
  <1>4. QED
    BY <1>2, <1>3

-----------------------------------------------------------------------------
(* The inductive invariant                                                 *)

USE DEF vars, snapshot, page, requests

\* What an answer says of a name it covers is what the index said, at an instant
\* since the one the answer carries.
IsEvidence(v, n) ==
  /\ v.expires = v.at + Lifetime
  /\ \E t \in v.at .. clock : v.result = Classify(index[n][t], v.at, Soon)

DocumentsAreEvidence ==
  \A d \in obtained : \A n \in d.names : IsEvidence(Verified(d, n), n)

BodiesAreObtained ==
  \A c \in Checks : At(c, "answered") => checks[c].body \in obtained

VerifiedIsEvidence ==
  \A n \in Names : verified[n] # None => IsEvidence(verified[n], n)

\* LinksAreVerified follows from what was verified, and that from what was
\* obtained.
IInv ==
  /\ TypeOK /\ PageFollowsItsCheck /\ RowsAreHonest
  /\ DocumentsAreEvidence /\ BodiesAreObtained /\ VerifiedIsEvidence

-----------------------------------------------------------------------------
(* Types                                                                   *)

LEMMA TimeIsInt == Time \subseteq Nat /\ Time \subseteq Int /\ Soon \in Int
  BY WebCheckAssumption DEF Time

LEMMA ChecksAreNotNone == \A c \in Checks : c \in Int /\ c # None
  BY WebCheckAssumption, LifecycleAssumption DEF Checks

LEMMA IndexType ==
  ASSUME TypeOK, NEW n \in Names, NEW t \in Time
  PROVE  index[n][t] \in Lookup
  <1>1. index[n] \in Timelines
    BY DEF TypeOK
  <1>2. index[n] \in [Time -> Lookup]
    BY <1>1, WebCheckAssumption
  <1>3. QED
    BY <1>2

LEMMA ClassifiedIndex ==
  ASSUME TypeOK, NEW n \in Names, NEW t \in Time, NEW at \in Time
  PROVE  Classify(index[n][t], at, Soon) \in Result
  BY IndexType, ClassifyTypes, TimeIsInt

LEMMA SelectionIsFinite ==
  ASSUME TypeOK
  PROVE  IsFiniteSet(selected)
  BY WebCheckAssumption, FS_Subset DEF TypeOK

\* A row that is honest carries to a row that is.
LEMMA CarriedRow ==
  ASSUME TypeOK, RowsAreHonest, NEW n \in Names, NEW t \in Time
  PROVE  /\ CarryForward(row[n], t, Soon) = Classify(read[n], t, Soon)
         /\ CarryForward(row[n], t, Soon) \in Result
  <1>1. read[n] \in Lookup /\ row[n] = Classify(read[n], published, Soon)
    BY DEF TypeOK, RowsAreHonest
  <1>2. published \in Int /\ t \in Int /\ Soon \in Int
    BY WebCheckAssumption DEF TypeOK, Time
  <1>3. CarryForward(row[n], t, Soon) = Classify(read[n], t, Soon)
    BY <1>1, <1>2, CarryIsClassify
  <1>4. QED
    BY <1>1, <1>2, <1>3, ClassifyTypes

LEMMA InitTypes == Init => TypeOK /\ RowsAreHonest
  <1> SUFFICES ASSUME Init PROVE TypeOK /\ RowsAreHonest
    OBVIOUS
  <1>1. 0 \in Time
    BY WebCheckAssumption DEF Time
  <1>2. \A n \in Names : index[n][0] \in Lookup
    <2>1. SUFFICES ASSUME NEW n \in Names PROVE index[n][0] \in Lookup
      OBVIOUS
    <2>2. index[n] \in Timelines
      BY DEF Init
    <2>3. index[n] \in [Time -> Lookup]
      BY <2>2, WebCheckAssumption
    <2>4. QED
      BY <2>3, <1>1
  <1>3. \A n \in Names : Classify(index[n][0], 0, Soon) \in Result
    BY <1>2, ClassifyTypes, TimeIsInt
  <1>4. Cardinality(selected) <= MaxNames /\ Cardinality(pending) <= MaxNames
    BY FS_EmptySet, WebCheckAssumption DEF Init
  <1>5. TypeOK
    BY <1>1, <1>2, <1>3, <1>4, WebCheckAssumption DEF Init, TypeOK
  <1>6. RowsAreHonest
    BY DEF Init, RowsAreHonest
  <1>7. QED
    BY <1>5, <1>6

LEMMA OverTypes ==
  ASSUME TypeOK, NEW c \in Checks, Over(c),
         verified' \in [Names -> Verification \cup {None}],
         failure' \in Checks \cup {None}
  PROVE  TypeOK'
  <1>1. checks' \in [Checks -> Check \cup {None}]
    BY DEF Over, TypeOK
  <1>2. inFlight' \in Checks \cup {None}
    BY DEF Over, TypeOK
  <1>3. pending' \subseteq Names /\ Cardinality(pending') <= MaxNames
    BY FS_EmptySet, WebCheckAssumption DEF Over, TypeOK
  <1>4. QED
    BY <1>1, <1>2, <1>3 DEF Over, TypeOK

LEMMA DocumentFields ==
  ASSUME NEW d \in Document
  PROVE  /\ d.names \subseteq Names /\ d.at \in Time /\ d.expires \in Nat
         /\ \A n \in d.names : d.results[n] \in Result /\ Verified(d, n) \in Verification
  BY DEF Document, Verified, Verification

LEMMA BodyIsDocument ==
  ASSUME TypeOK, BodiesAreObtained, NEW c \in Checks, At(c, "answered")
  PROVE  checks[c].body \in obtained /\ checks[c].body \in Document
  BY DEF TypeOK, BodiesAreObtained

\* The document a fresh read renders.
FreshDocument(c, at) ==
  [names |-> checks[c].names, at |-> at, expires |-> at + Lifetime,
   results |-> [n \in Names |->
     IF n \in checks[c].names THEN Classify(index[n][clock], at, Soon) ELSE None]]

LEMMA CheckFields ==
  ASSUME TypeOK, NEW c \in Checks, checks[c] # None
  PROVE  /\ checks[c] \in Check
         /\ checks[c].names \subseteq Names /\ checks[c].names # {}
         /\ checks[c].began \in Time /\ checks[c].began .. clock \subseteq Time
  <1>1. checks[c] \in Check
    BY DEF TypeOK
  <1>2. checks[c].names \in (SUBSET Names) \ {{}} /\ checks[c].began \in Time
    BY <1>1 DEF Check
  <1>3. clock \in Time
    BY DEF TypeOK
  <1>4. checks[c].began .. clock \subseteq Time
    BY <1>2, <1>3, WebCheckAssumption DEF Time
  <1>5. QED
    BY <1>1, <1>2, <1>4

LEMMA FreshDocumentType ==
  ASSUME TypeOK, NEW c \in Checks, checks[c] # None, NEW at \in checks[c].began .. clock
  PROVE  FreshDocument(c, at) \in Document
  <1>1. at \in Time /\ clock \in Time
    BY CheckFields DEF TypeOK
  <1>2. at + Lifetime \in Nat
    BY <1>1, WebCheckAssumption, TimeIsInt
  <1>3. \A n \in Names : Classify(index[n][clock], at, Soon) \in Result
    BY <1>1, ClassifiedIndex
  <1>4. checks[c].names \in (SUBSET Names) \ {{}}
    BY CheckFields
  <1> DEFINE results == [n \in Names |->
               IF n \in checks[c].names THEN Classify(index[n][clock], at, Soon) ELSE None]
  <1>5. results \in [Names -> Result \cup {None}]
    BY <1>3
  <1>6. \A n \in checks[c].names : results[n] \in Result
    BY <1>3, <1>4
  <1> HIDE DEF results
  <1>7. [names |-> checks[c].names, at |-> at, expires |-> at + Lifetime,
         results |-> results] \in Document
    BY <1>1, <1>2, <1>4, <1>5, <1>6 DEF Document
  <1>8. QED
    BY <1>7 DEF FreshDocument, results

\* What Serve does: the answer is one that has been obtained, and what has been
\* obtained grows by a fresh one at most.
LEMMA ServeCases ==
  ASSUME TypeOK, NEW c \in Checks, Serve(c)
  PROVE  \E d \in Document :
           /\ checks' = [checks EXCEPT ![c].phase = "answered", ![c].body = d]
           /\ d \in obtained'
           /\ \/ obtained' = obtained
              \/ /\ obtained' = obtained \cup {d}
                 /\ \E at \in checks[c].began .. clock : d = FreshDocument(c, at)
  <1>1. At(c, "asked") /\ checks[c] # None
    BY DEF Serve, At
  <1>2. CASE FreshRead(c)
    <2>1. PICK at \in checks[c].began .. clock :
            /\ Answered(c, FreshDocument(c, at))
            /\ obtained' = obtained \cup {FreshDocument(c, at)}
      BY <1>2 DEF FreshRead, FreshDocument
    <2>2. FreshDocument(c, at) \in Document
      BY <1>1, FreshDocumentType
    <2>3. QED
      BY <2>1, <2>2 DEF Answered
  <1>3. CASE CachedCopy(c)
    <2>1. PICK d \in obtained : Answered(c, d) /\ obtained' = obtained
      BY <1>3 DEF CachedCopy
    <2>2. d \in Document
      BY DEF TypeOK
    <2>3. QED
      BY <2>1, <2>2 DEF Answered
  <1>4. CASE Substituted(c)
    <2>1. PICK d \in obtained : Answered(c, d) /\ obtained' = obtained
      BY <1>4 DEF Substituted
    <2>2. d \in Document
      BY DEF TypeOK
    <2>3. QED
      BY <2>1, <2>2 DEF Answered
  <1>5. QED
    BY <1>2, <1>3, <1>4 DEF Serve

LEMMA ServeTypes ==
  ASSUME TypeOK, NEW c \in Checks, Serve(c)
  PROVE  TypeOK'
  <1>1. PICK d \in Document :
          /\ checks' = [checks EXCEPT ![c].phase = "answered", ![c].body = d]
          /\ obtained' = obtained \/ obtained' = obtained \cup {d}
    BY ServeCases
  <1>2. checks[c] \in Check
    BY CheckFields DEF Serve, At
  <1>3. [checks[c] EXCEPT !.phase = "answered", !.body = d] \in Check
    BY <1>2 DEF Check
  <1>4. checks \in [Checks -> Check \cup {None}] /\ obtained \subseteq Document
    BY DEF TypeOK
  <1>5. checks' \in [Checks -> Check \cup {None}]
    BY <1>1, <1>3, <1>4
  <1>6. obtained' \subseteq Document
    BY <1>1, <1>4
  <1>7. QED
    BY <1>5, <1>6 DEF Serve, TypeOK

LEMMA ReceiveTypes ==
  ASSUME TypeOK, BodiesAreObtained, NEW c \in Checks, Receive(c)
  PROVE  TypeOK'
  <1> DEFINE body == checks[c].body
  <1>1. body \in Document
    BY BodyIsDocument DEF Receive
  <1>2. \A n \in body.names : Verified(body, n) \in Verification
    BY <1>1, DocumentFields
  <1>3. verified \in [Names -> Verification \cup {None}]
    BY DEF TypeOK
  <1>4. verified' = IF Current(c)
                      THEN [n \in Names |-> IF n \in body.names THEN Verified(body, n)
                                            ELSE verified[n]]
                    ELSE verified
    BY DEF Receive
  <1> HIDE DEF body
  <1>5. verified' \in [Names -> Verification \cup {None}]
    BY <1>2, <1>3, <1>4
  <1>6. failure' \in Checks \cup {None} /\ Over(c)
    BY DEF Receive, TypeOK
  <1>7. QED
    BY <1>5, <1>6, OverTypes

LEMMA FailTypes ==
  ASSUME TypeOK, NEW c \in Checks, Fail(c)
  PROVE  TypeOK'
  <1>1. /\ failure' \in Checks \cup {None} /\ Over(c)
        /\ verified' \in [Names -> Verification \cup {None}]
    BY DEF Fail, TypeOK
  <1>2. QED
    BY <1>1, OverTypes

LEMMA PublishTypes ==
  ASSUME TypeOK, RowsAreHonest, NEW scanned \in SUBSET Names, Publish(scanned)
  PROVE  TypeOK' /\ RowsAreHonest'
  <1>1. clock \in Time
    BY DEF TypeOK
  <1>2. \A n \in Names :
          /\ index[n][clock] \in Lookup
          /\ Classify(index[n][clock], clock, Soon) \in Result
    BY <1>1, IndexType, ClassifiedIndex
  <1>3. \A n \in Names :
          /\ CarryForward(row[n], clock, Soon) = Classify(read[n], clock, Soon)
          /\ CarryForward(row[n], clock, Soon) \in Result
    BY <1>1, CarriedRow
  <1>4. row' \in [Names -> Result] /\ read' \in [Names -> Lookup]
    BY <1>2, <1>3 DEF Publish, TypeOK
  <1>5. edition' \in 0 .. MaxPublications /\ published' \in 0 .. clock'
    BY <1>1, WebCheckAssumption DEF Publish, TypeOK, Time
  <1>6. TypeOK'
    BY <1>4, <1>5 DEF Publish, TypeOK
  <1>7. RowsAreHonest'
    BY <1>3 DEF Publish, RowsAreHonest
  <1>8. QED
    BY <1>6, <1>7

LEMMA ToggleTypes ==
  ASSUME TypeOK, NEW n \in Names, Toggle(n)
  PROVE  TypeOK'
  <1>1. IsFiniteSet(selected) /\ selected \subseteq Names /\ Cardinality(selected) <= MaxNames
    BY SelectionIsFinite DEF TypeOK
  <1>2. Cardinality(selected) \in Nat
    BY <1>1, FS_CardinalityType
  <1>3. CASE n \in selected /\ selected' = selected \ {n}
    <2>1. Cardinality(selected') = Cardinality(selected) - 1
      BY <1>1, <1>3, FS_RemoveElement
    <2>2. Cardinality(selected') <= MaxNames
      BY <1>1, <1>2, <2>1, WebCheckAssumption
    <2>3. QED
      BY <1>1, <1>3, <2>2 DEF Toggle, TypeOK
  <1>4. CASE /\ n \notin selected /\ Cardinality(selected) < MaxNames
             /\ selected' = selected \cup {n}
    <2>1. Cardinality(selected') = Cardinality(selected) + 1
      BY <1>1, <1>4, FS_AddElement
    <2>2. Cardinality(selected') <= MaxNames
      BY <1>2, <1>4, <2>1, WebCheckAssumption
    <2>3. QED
      BY <1>1, <1>4, <2>2 DEF Toggle, TypeOK
  <1>5. QED
    BY <1>3, <1>4 DEF Toggle

LEMMA BeginTypes ==
  ASSUME TypeOK, Begin
  PROVE  TypeOK'
  <1> DEFINE c == begun + 1
             check == [phase |-> "asked", names |-> selected, began |-> clock, body |-> None]
  <1>1. c \in Checks /\ c \in 0 .. MaxChecks
    BY WebCheckAssumption DEF Begin, TypeOK, Checks
  <1>2. check \in Check
    BY DEF Begin, TypeOK, Check
  <1>3. checks' = [checks EXCEPT ![c] = check] /\ begun' = c /\ inFlight' = c
    BY DEF Begin
  <1> HIDE DEF c, check
  <1>4. checks' \in [Checks -> Check \cup {None}]
    BY <1>1, <1>2, <1>3 DEF TypeOK
  <1>5. inFlight' \in Checks \cup {None} /\ begun' \in 0 .. MaxChecks
    BY <1>1, <1>3
  <1>6. QED
    BY <1>4, <1>5 DEF Begin, TypeOK

LEMMA OtherTypes ==
  ASSUME TypeOK,
         Advance \/ Tick \/ ClearSelection \/ DismissFailure \/ UNCHANGED vars
  PROVE  TypeOK'
  <1>1. CASE Advance
    <2>1. clock' \in Time /\ now' \in 0 .. clock' /\ published' \in 0 .. clock'
      BY <1>1, WebCheckAssumption DEF Advance, TypeOK, Time
    <2>2. QED
      BY <1>1, <2>1 DEF Advance, TypeOK
  <1>2. CASE Tick
    <2>1. now' \in 0 .. clock'
      BY <1>2, TimeIsInt DEF Tick, TypeOK
    <2>2. QED
      BY <1>2, <2>1 DEF Tick, TypeOK
  <1>3. CASE ClearSelection
    <2>1. Cardinality(selected') <= MaxNames
      BY <1>3, FS_EmptySet, WebCheckAssumption DEF ClearSelection
    <2>2. QED
      BY <1>3, <2>1 DEF ClearSelection, TypeOK
  <1>4. CASE DismissFailure
    BY <1>4 DEF DismissFailure, TypeOK
  <1>5. CASE UNCHANGED vars
    BY <1>5 DEF TypeOK
  <1>6. QED
    BY <1>1, <1>2, <1>3, <1>4, <1>5

LEMMA NextTypes ==
  ASSUME TypeOK, RowsAreHonest, BodiesAreObtained, [Next]_vars
  PROVE  TypeOK'
  BY PublishTypes, ToggleTypes, BeginTypes, ServeTypes, ReceiveTypes, FailTypes, OtherTypes
  DEF Next

\* Only a publication writes the rows.
LEMMA NextRows ==
  ASSUME TypeOK, RowsAreHonest, [Next]_vars
  PROVE  RowsAreHonest'
  <1>1. CASE \E scanned \in SUBSET Names : Publish(scanned)
    BY <1>1, PublishTypes
  <1>2. CASE UNCHANGED snapshot
    BY <1>2 DEF RowsAreHonest
  <1>3. QED
    BY <1>1, <1>2
    DEF Next, Advance, Tick, Toggle, ClearSelection, DismissFailure, Begin, Serve,
        Receive, Fail, Over

-----------------------------------------------------------------------------
(* The page and its check                                                  *)

LEMMA OverFollows ==
  ASSUME TypeOK, PageFollowsItsCheck, NEW c \in Checks, Over(c),
         failure' = failure \/ failure' = IF Current(c) THEN c ELSE failure
  PROVE  PageFollowsItsCheck'
  <1>1. CASE Current(c)
    <2>1. inFlight = c /\ inFlight # None /\ c = begun /\ failure = None
      BY <1>1, ChecksAreNotNone DEF Current, PageFollowsItsCheck
    <2>2. inFlight' = None /\ pending' = {} /\ begun' = begun
      BY <1>1 DEF Over
    <2>3. failure' = None \/ failure' = begun'
      BY <1>1, <2>1, <2>2
    <2>4. QED
      BY <2>2, <2>3 DEF PageFollowsItsCheck
  <1>2. CASE ~Current(c)
    <2>1. inFlight' = inFlight /\ pending' = pending /\ begun' = begun /\ failure' = failure
      BY <1>2 DEF Over
    <2>2. inFlight # None => inFlight # c /\ inFlight \in Checks
      BY <1>2 DEF Current, TypeOK
    <2>3. inFlight # None => checks'[inFlight] = checks[inFlight]
      BY <2>2 DEF Over, TypeOK
    <2>4. QED
      BY <2>1, <2>3 DEF PageFollowsItsCheck
  <1>3. QED
    BY <1>1, <1>2

LEMMA ServeFollows ==
  ASSUME TypeOK, PageFollowsItsCheck, NEW c \in Checks, Serve(c)
  PROVE  PageFollowsItsCheck'
  <1>1. PICK d : checks' = [checks EXCEPT ![c].phase = "answered", ![c].body = d]
    BY ServeCases
  <1>2. checks[c] \in Check
    BY CheckFields DEF Serve, At
  <1>3. [checks[c] EXCEPT !.phase = "answered", !.body = d].names = checks[c].names
    BY <1>2 DEF Check
  <1>4. \A k \in Checks : checks'[k].names = checks[k].names
    BY <1>1, <1>3 DEF TypeOK
  <1>5. inFlight # None => inFlight \in Checks
    BY DEF TypeOK
  <1>6. UNCHANGED <<pending, inFlight, failure, begun>>
    BY DEF Serve
  <1>7. QED
    BY <1>4, <1>5, <1>6 DEF PageFollowsItsCheck

LEMMA BeginFollows ==
  ASSUME TypeOK, Begin
  PROVE  PageFollowsItsCheck'
  <1>1. begun + 1 \in Checks
    BY WebCheckAssumption DEF Begin, TypeOK, Checks
  <1>2. begun + 1 # None
    BY <1>1, ChecksAreNotNone
  <1>3. checks'[begun + 1].names = selected
    BY <1>1 DEF Begin, TypeOK
  <1>4. QED
    BY <1>2, <1>3 DEF Begin, PageFollowsItsCheck

LEMMA NextFollows ==
  ASSUME TypeOK, PageFollowsItsCheck, [Next]_vars
  PROVE  PageFollowsItsCheck'
  <1>1. ASSUME NEW c \in Checks, Receive(c) PROVE PageFollowsItsCheck'
    BY <1>1, OverFollows DEF Receive
  <1>2. ASSUME NEW c \in Checks, Fail(c) PROVE PageFollowsItsCheck'
    BY <1>2, OverFollows DEF Fail
  <1>3. CASE DismissFailure
    BY <1>3 DEF DismissFailure, PageFollowsItsCheck
  <1>4. CASE UNCHANGED <<pending, failure, inFlight, checks, begun>>
    BY <1>4 DEF PageFollowsItsCheck
  <1>5. QED
    BY <1>1, <1>2, <1>3, <1>4, ServeFollows, BeginFollows
    DEF Next, Advance, Tick, Publish, Toggle, ClearSelection

-----------------------------------------------------------------------------
(* What the page was told                                                  *)

\* The index keeps what it said, and time goes on.
LEMMA TimeGoesOn ==
  ASSUME TypeOK, [Next]_vars
  PROVE  index' = index /\ clock \in Nat /\ clock' \in Nat /\ clock <= clock'
  <1>1. clock \in Nat
    BY TimeIsInt DEF TypeOK
  <1>2. index' = index /\ (clock' = clock \/ clock' = clock + 1)
    BY DEF Next, Advance, Tick, Publish, Toggle, ClearSelection, DismissFailure, Begin,
           Serve, Receive, Fail, Over
  <1>3. QED
    BY <1>1, <1>2

LEMMA EvidenceStays ==
  ASSUME TypeOK, [Next]_vars, NEW v, NEW n \in Names, v.at \in Time, IsEvidence(v, n)
  PROVE  IsEvidence(v, n)'
  <1>1. PICK t \in v.at .. clock : v.result = Classify(index[n][t], v.at, Soon)
    BY DEF IsEvidence
  <1>2. index' = index /\ t \in v.at .. clock'
    BY TimeGoesOn, TimeIsInt
  <1>3. v.result = Classify(index'[n][t], v.at, Soon)
    BY <1>1, <1>2
  <1>4. QED
    BY <1>2, <1>3 DEF IsEvidence

LEMMA VerifiedFields ==
  \A d, n : /\ Verified(d, n).at = d.at /\ Verified(d, n).expires = d.expires
            /\ Verified(d, n).result = d.results[n]
  BY DEF Verified

LEMMA FreshDocumentIsEvidence ==
  ASSUME TypeOK, NEW c \in Checks, checks[c] # None, NEW at \in checks[c].began .. clock,
         NEW n \in FreshDocument(c, at).names
  PROVE  IsEvidence(Verified(FreshDocument(c, at), n), n)
  <1> DEFINE v == Verified(FreshDocument(c, at), n)
  <1>1. n \in checks[c].names /\ n \in Names
    BY CheckFields DEF FreshDocument
  <1>2. at \in Time /\ clock \in Time /\ at <= clock
    BY CheckFields DEF TypeOK
  <1>3. v.at = at /\ v.expires = at + Lifetime
    BY VerifiedFields DEF FreshDocument
  <1>4. FreshDocument(c, at).results[n] = Classify(index[n][clock], at, Soon)
    BY <1>1 DEF FreshDocument
  <1>5. v.result = Classify(index[n][clock], at, Soon)
    BY <1>4, VerifiedFields
  <1>6. clock \in at .. clock
    BY <1>2, TimeIsInt
  <1> HIDE DEF v
  <1>7. IsEvidence(v, n)
    BY <1>3, <1>5, <1>6 DEF IsEvidence
  <1>8. QED
    BY <1>7 DEF v

LEMMA NextDocuments ==
  ASSUME TypeOK, DocumentsAreEvidence, [Next]_vars
  PROVE  DocumentsAreEvidence'
  <1>1. ASSUME NEW d \in obtained, NEW n \in d.names
        PROVE  IsEvidence(Verified(d, n), n)'
    <2>1. d \in Document
      BY DEF TypeOK
    <2>2. n \in Names /\ Verified(d, n).at \in Time
      BY <2>1, DocumentFields, VerifiedFields
    <2>3. IsEvidence(Verified(d, n), n)
      BY DEF DocumentsAreEvidence
    <2>4. QED
      BY <2>2, <2>3, EvidenceStays
  <1>2. CASE obtained' = obtained
    BY <1>1, <1>2 DEF DocumentsAreEvidence
  <1>3. ASSUME NEW c \in Checks, Serve(c), obtained' # obtained
        PROVE  DocumentsAreEvidence'
    <2>1. checks[c] # None
      BY <1>3 DEF Serve, At
    <2>2. PICK at \in checks[c].began .. clock :
            obtained' = obtained \cup {FreshDocument(c, at)}
      BY <1>3, ServeCases
    <2>3. FreshDocument(c, at) \in Document
      BY <2>1, FreshDocumentType
    <2>4. ASSUME NEW n \in FreshDocument(c, at).names
          PROVE  IsEvidence(Verified(FreshDocument(c, at), n), n)
      BY <2>1, FreshDocumentIsEvidence
    <2>5. index' = index /\ clock' = clock
      BY <1>3 DEF Serve
    <2>6. PICK d : d = FreshDocument(c, at)
      OBVIOUS
    <2>7. \A n \in d.names : IsEvidence(Verified(d, n), n)
      BY <2>4, <2>6
    <2>8. \A n \in d.names : IsEvidence(Verified(d, n), n)'
      BY <2>5, <2>7 DEF IsEvidence, Verified
    <2>9. QED
      BY <1>1, <2>2, <2>6, <2>8 DEF DocumentsAreEvidence
  <1>4. QED
    BY <1>2, <1>3
    DEF Next, Advance, Tick, Publish, Toggle, ClearSelection, DismissFailure, Begin,
        Receive, Fail, Over

LEMMA OverBodies ==
  ASSUME TypeOK, BodiesAreObtained, NEW c \in Checks, Over(c)
  PROVE  BodiesAreObtained'
  BY DEF Over, TypeOK, BodiesAreObtained, At

LEMMA NextBodies ==
  ASSUME TypeOK, BodiesAreObtained, [Next]_vars
  PROVE  BodiesAreObtained'
  <1>1. ASSUME NEW c \in Checks, Serve(c) PROVE BodiesAreObtained'
    <2>1. PICK d \in Document :
            /\ checks' = [checks EXCEPT ![c].phase = "answered", ![c].body = d]
            /\ d \in obtained'
            /\ obtained \subseteq obtained'
      BY <1>1, ServeCases
    <2>2. checks[c] \in Check
      BY <1>1, CheckFields DEF Serve, At
    <2>3. [checks[c] EXCEPT !.phase = "answered", !.body = d].body = d
      BY <2>2 DEF Check
    <2>4. checks'[c].body = d
      BY <2>1, <2>3 DEF TypeOK
    <2>5. \A k \in Checks \ {c} : checks'[k] = checks[k]
      BY <2>1 DEF TypeOK
    <2>6. QED
      BY <2>1, <2>4, <2>5 DEF BodiesAreObtained, At
  <1>2. ASSUME NEW c \in Checks, Receive(c) \/ Fail(c) PROVE BodiesAreObtained'
    BY <1>2, OverBodies DEF Receive, Fail
  <1>3. CASE Begin
    <2>1. \A c \in Checks : checks'[c] = checks[c] \/ checks'[c].phase = "asked"
      BY <1>3 DEF Begin, TypeOK
    <2>2. QED
      BY <1>3, <2>1 DEF Begin, BodiesAreObtained, At
  <1>4. CASE UNCHANGED <<checks, obtained>>
    BY <1>4 DEF BodiesAreObtained, At
  <1>5. QED
    BY <1>1, <1>2, <1>3, <1>4
    DEF Next, Advance, Tick, Publish, Toggle, ClearSelection, DismissFailure

LEMMA NextVerified ==
  ASSUME TypeOK, DocumentsAreEvidence, BodiesAreObtained, VerifiedIsEvidence, [Next]_vars
  PROVE  VerifiedIsEvidence'
  <1>1. ASSUME NEW n \in Names, verified[n] # None PROVE IsEvidence(verified[n], n)'
           \/ verified'[n] # verified[n]
    <2>1. PICK v : v = verified[n]
      OBVIOUS
    <2>2. v \in Verification /\ v.at \in Time
      BY <1>1, <2>1 DEF TypeOK, Verification
    <2>3. IsEvidence(v, n)
      BY <1>1, <2>1 DEF VerifiedIsEvidence
    <2>4. IsEvidence(v, n)'
      BY <2>2, <2>3, EvidenceStays
    <2>5. QED
      BY <2>1, <2>4
  <1>2. CASE verified' = verified
    BY <1>1, <1>2 DEF VerifiedIsEvidence
  <1>3. ASSUME NEW c \in Checks, Receive(c), verified' # verified
        PROVE  VerifiedIsEvidence'
    <2>1. PICK d : d = checks[c].body
      OBVIOUS
    <2>2. d \in obtained /\ d \in Document
      BY <1>3, <2>1, BodyIsDocument DEF Receive
    <2>3. verified' = [n \in Names |-> IF n \in d.names THEN Verified(d, n) ELSE verified[n]]
      BY <1>3, <2>1 DEF Receive
    <2>4. ASSUME NEW n \in Names, n \in d.names PROVE IsEvidence(verified[n], n)'
      <3>1. IsEvidence(Verified(d, n), n) /\ Verified(d, n).at \in Time
        BY <2>2, <2>4, DocumentFields, VerifiedFields DEF DocumentsAreEvidence
      <3>2. PICK v : v = Verified(d, n)
        OBVIOUS
      <3>3. IsEvidence(v, n)'
        BY <3>1, <3>2, EvidenceStays
      <3>4. QED
        BY <2>3, <2>4, <3>2, <3>3
    <2>5. \A n \in Names : n \notin d.names => verified'[n] = verified[n]
      BY <2>3
    <2>6. QED
      BY <1>1, <2>4, <2>5 DEF VerifiedIsEvidence
  <1>4. QED
    BY <1>2, <1>3
    DEF Next, Advance, Tick, Publish, Toggle, ClearSelection, DismissFailure, Begin,
        Serve, Fail

-----------------------------------------------------------------------------
(* Theorems                                                                *)

THEOREM InitIsIInv == Init => IInv
  <1> SUFFICES ASSUME Init PROVE IInv
    OBVIOUS
  <1>1. TypeOK /\ RowsAreHonest
    BY InitTypes
  <1>2. PageFollowsItsCheck /\ DocumentsAreEvidence /\ VerifiedIsEvidence
    BY DEF Init, PageFollowsItsCheck, DocumentsAreEvidence, VerifiedIsEvidence
  <1>3. BodiesAreObtained
    BY DEF Init, BodiesAreObtained, At
  <1>4. QED
    BY <1>1, <1>2, <1>3 DEF IInv

THEOREM NextKeepsIInv == IInv /\ [Next]_vars => IInv'
  BY NextTypes, NextRows, NextFollows, NextDocuments, NextBodies, NextVerified DEF IInv

LEMMA EvidenceOpensLinks == IInv => LinksAreVerified
  <1> SUFFICES ASSUME IInv, NEW n \in Names, MayLinkOut(n)
               PROVE  /\ now - verified[n].at < Lifetime
                      /\ \E t \in verified[n].at .. clock :
                           verified[n].result = Classify(index[n][t], verified[n].at, Soon)
    BY DEF LinksAreVerified
  <1>1. IsEvidence(verified[n], n) /\ now < verified[n].expires
    BY DEF IInv, VerifiedIsEvidence, MayLinkOut
  <1>2. verified[n].at \in Nat /\ now \in Int
    <2>1. verified[n] \in Verification
      BY DEF IInv, TypeOK, MayLinkOut
    <2>2. verified[n].at \in Time /\ now \in 0 .. clock
      BY <2>1 DEF IInv, TypeOK, Verification
    <2>3. QED
      BY <2>2 DEF Time
  <1>3. now - verified[n].at < Lifetime
    BY <1>1, <1>2, WebCheckAssumption DEF IsEvidence
  <1>4. QED
    BY <1>1, <1>3 DEF IsEvidence

\* The page keeps to its types, and no check covers more names than the selection
\* may hold.  (useFreshCheck: toggle, check)
THEOREM TypeCorrect == Spec => []TypeOK
  <1>1. IInv => TypeOK
    BY DEF IInv
  <1>2. QED
    BY <1>1, InitIsIInv, NextKeepsIInv, PTL DEF Spec

\* Whatever becomes of the checks it replaced, what a page waits for and the
\* failure it shows are those of the last.  (useFreshCheck: check)
THEOREM PageFollows == Spec => []PageFollowsItsCheck
  <1>1. IInv => PageFollowsItsCheck
    BY DEF IInv
  <1>2. QED
    BY <1>1, InitIsIInv, NextKeepsIInv, PTL DEF Spec

\* No name is linked out but on what the index said of it within a lifetime
\* before the rendering.  (resolveOutbound)
THEOREM LinksVerified == Spec => []LinksAreVerified
  BY InitIsIInv, NextKeepsIInv, EvidenceOpensLinks, PTL DEF Spec

\* Any number of publications that carry a name forward leave its row what a scan
\* would have made of the same answer.  (CarryForward)
THEOREM RowsHonest == Spec => []RowsAreHonest
  <1>1. IInv => RowsAreHonest
    BY DEF IInv
  <1>2. QED
    BY <1>1, InitIsIInv, NextKeepsIInv, PTL DEF Spec

=============================================================================
