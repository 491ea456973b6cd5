------------------------------- MODULE WebCheck -------------------------------
(***************************************************************************)
(* What one page tells its visitor of a name (state/useFreshCheck.ts,      *)
(* verify/): the row of the published snapshot, scanned or carried         *)
(* forward, and the fresh check that opens the name's link out.  A check   *)
(* runs from await to await and another may replace it meanwhile; the      *)
(* endpoint is seen as FreshCheck promises it, and goes on with a request  *)
(* the page no longer waits for.  The simulated clock is left out, and so  *)
(* is what becomes of a page that is closed.                               *)
(***************************************************************************)
EXTENDS Lifecycle, FiniteSets

CONSTANTS
  Names,           \* the names of the snapshot
  Soon,            \* the soon window of the publisher and of the endpoint
  Lifetime,        \* how long an answer is fresh
  MaxNames,        \* CHECK_MAX_NAMES
  Timelines,       \* what the index may say of a name, instant by instant
  MaxTime,         \* bound: the last instant
  MaxChecks,       \* bound: the checks of the visitor
  MaxPublications, \* bound: the publications after the first
  Faults           \* what may go wrong in this instance

\* refused: no answer comes, or none that can be read.  confused: what answers
\* is about other names.
FaultKinds == {"refused", "confused"}

Time == 0 .. MaxTime
Checks == 1 .. MaxChecks

ASSUME WebCheckAssumption ==
  /\ {Soon, MaxTime, MaxChecks, MaxPublications} \subseteq Nat
  /\ {Lifetime, MaxNames} \subseteq Nat \ {0}
  /\ IsFiniteSet(Names)
  /\ Timelines \subseteq [Time -> Lookup]
  /\ Faults \subseteq FaultKinds

\* One answer of the endpoint, for the exact names it is about.
Document ==
  {d \in [names : (SUBSET Names) \ {{}}, at : Time, expires : Nat,
          results : [Names -> Result \cup {None}]] :
     \A n \in d.names : d.results[n] \in Result}

\* VerifiedName: each name has the instants of the answer that covered it.
Verification == [result : Result, at : Time, expires : Nat]

Check == [phase : {"asked", "answered"}, names : (SUBSET Names) \ {{}}, began : Time,
          body : Document \cup {None}]

VARIABLES
  clock,
  index,      \* what the index says of each name, over time
  published,  \* the instant of the snapshot being served
  row,        \* its result for each name
  read,       \* history: the answer of the index each row rests on
  edition,    \* how often a snapshot has been published
  now,        \* useNow: the instant the page is rendered at
  selected, pending, verified, failure,
  inFlight,   \* the check the page waits for
  checks,     \* each check under way, or None
  begun,      \* how many checks have begun
  obtained    \* every answer the endpoint has given or kept

snapshot == <<published, row, read, edition>>
page     == <<selected, pending, verified, failure>>
requests == <<inFlight, checks, begun>>
vars     == <<clock, index, snapshot, now, page, requests, obtained>>

Init ==
  /\ clock = 0 /\ now = 0
  /\ index \in [Names -> Timelines]
  /\ published = 0 /\ edition = 0
  /\ read = [n \in Names |-> index[n][0]]
  /\ row = [n \in Names |-> Classify(index[n][0], 0, Soon)]
  /\ selected = {} /\ pending = {} /\ failure = None
  /\ verified = [n \in Names |-> None]
  /\ inFlight = None /\ checks = [c \in Checks |-> None] /\ begun = 0
  /\ obtained = {}

-----------------------------------------------------------------------------
(* Outside the page                                                        *)

Advance ==
  /\ clock < MaxTime
  /\ clock' = clock + 1
  /\ UNCHANGED <<index, snapshot, now, page, requests, obtained>>

\* A run of the publisher: the lists that are due are scanned, and the names of
\* the others are carried forward.
Publish(scanned) ==
  /\ edition < MaxPublications /\ scanned # {}
  /\ edition' = edition + 1 /\ published' = clock
  /\ \A n \in Names \ scanned : Recoverable(row[n])
  /\ read' = [n \in Names |-> IF n \in scanned THEN index[n][clock] ELSE read[n]]
  /\ row' = [n \in Names |->
       IF n \in scanned THEN Classify(index[n][clock], clock, Soon)
       ELSE CarryForward(row[n], clock, Soon)]
  /\ UNCHANGED <<clock, index, now, page, requests, obtained>>

\* useNow's interval.
Tick ==
  /\ now # clock
  /\ now' = clock
  /\ UNCHANGED <<clock, index, snapshot, page, requests, obtained>>

-----------------------------------------------------------------------------
(* The endpoint                                                            *)

At(c, phase) == checks[c] # None /\ checks[c].phase = phase

Answered(c, document) ==
  checks' = [checks EXCEPT ![c].phase = "answered", ![c].body = document]

\* The index is read now, at an instant sampled since the request began.
FreshRead(c) ==
  \E at \in checks[c].began .. clock :
    LET asked == checks[c].names
        document ==
          [names |-> asked, at |-> at, expires |-> at + Lifetime,
           results |-> [n \in Names |->
             IF n \in asked THEN Classify(index[n][clock], at, Soon) ELSE None]] IN
    /\ Answered(c, document)
    /\ obtained' = obtained \cup {document}

\* A copy for this set of names, of whichever instance, that had not expired at
\* the request's instant.
CachedCopy(c) ==
  \E document \in obtained, at \in checks[c].began .. clock :
    /\ document.names = checks[c].names /\ at < document.expires
    /\ Answered(c, document)
    /\ UNCHANGED obtained

\* Something between the two answers with what it has.
Substituted(c) ==
  \E document \in obtained :
    /\ "confused" \in Faults /\ document.names # checks[c].names
    /\ Answered(c, document)
    /\ UNCHANGED obtained

Serve(c) ==
  /\ At(c, "asked")
  /\ FreshRead(c) \/ CachedCopy(c) \/ Substituted(c)
  /\ UNCHANGED <<clock, index, snapshot, now, page, inFlight, begun>>

-----------------------------------------------------------------------------
(* The page                                                                *)

\* A name beyond the bound is not added.
Toggle(n) ==
  /\ \/ n \in selected /\ selected' = selected \ {n}
     \/ /\ n \notin selected /\ Cardinality(selected) < MaxNames
        /\ selected' = selected \cup {n}
  /\ UNCHANGED <<clock, index, snapshot, now, pending, verified, failure, requests, obtained>>

ClearSelection ==
  /\ selected' = {}
  /\ UNCHANGED <<clock, index, snapshot, now, pending, verified, failure, requests, obtained>>

DismissFailure ==
  /\ failure' = None
  /\ UNCHANGED <<clock, index, snapshot, now, selected, pending, verified, requests, obtained>>

\* check(): the one in flight is aborted, which ends the wait and not the work.
Begin ==
  LET c == begun + 1 IN
  /\ selected # {} /\ begun < MaxChecks
  /\ begun' = c /\ inFlight' = c
  /\ checks' = [checks EXCEPT ![c] =
       [phase |-> "asked", names |-> selected, began |-> clock, body |-> None]]
  /\ pending' = selected /\ failure' = None
  /\ UNCHANGED <<clock, index, snapshot, now, selected, verified, obtained>>

\* Mutation: an aborted check goes on as any other.
AnyCheck(c) == TRUE

\* The check has not been aborted: a page that waits for it waits for no other.
Current(c) == inFlight = c

\* finally: the wait is over, if it was for this check.
Over(c) ==
  /\ checks' = [checks EXCEPT ![c] = None]
  /\ inFlight' = IF Current(c) THEN None ELSE inFlight
  /\ pending' = IF Current(c) THEN {} ELSE pending
  /\ UNCHANGED <<clock, index, snapshot, now, selected, begun, obtained>>

\* assertCovers: exactly the names that were asked about.
Covers(document, names) == document.names = names

\* Mutation: a lifetime is counted from the answer's arrival.
VerifiedFromArrival(document, n) ==
  [result |-> document.results[n], at |-> document.at, expires |-> clock + Lifetime]

\* The instants are the endpoint's own.
Verified(document, n) ==
  [result |-> document.results[n], at |-> document.at, expires |-> document.expires]

\* Mutation: the names are read from the selection when the answer comes.
ReceiveForSelection(c) ==
  LET body == checks[c].body IN
  /\ At(c, "answered") /\ Covers(body, checks[c].names)
  /\ verified' = IF Current(c)
                   THEN [n \in Names |-> IF n \in selected THEN Verified(body, n)
                                         ELSE verified[n]]
                 ELSE verified
  /\ Over(c)
  /\ UNCHANGED failure

\* What was held for a covered name is replaced, whichever was read later.
Receive(c) ==
  LET body == checks[c].body IN
  /\ At(c, "answered") /\ Covers(body, checks[c].names)
  /\ verified' = IF Current(c)
                   THEN [n \in Names |-> IF n \in body.names THEN Verified(body, n)
                                         ELSE verified[n]]
                 ELSE verified
  /\ Over(c)
  /\ UNCHANGED failure

\* No answer, one that cannot be read, or one about other names: nothing that was
\* verified is touched.
Fail(c) ==
  /\ \/ checks[c] # None /\ "refused" \in Faults
     \/ At(c, "answered") /\ ~Covers(checks[c].body, checks[c].names)
  /\ failure' = IF Current(c) THEN c ELSE failure
  /\ Over(c)
  /\ UNCHANGED verified

-----------------------------------------------------------------------------
Next ==
  \/ Advance \/ Tick
  \/ \E scanned \in SUBSET Names : Publish(scanned)
  \/ \E n \in Names : Toggle(n)
  \/ ClearSelection \/ DismissFailure \/ Begin
  \/ \E c \in Checks : Serve(c) \/ Receive(c) \/ Fail(c)

Spec == Init /\ [][Next]_vars

-----------------------------------------------------------------------------
(* Properties                                                              *)

\* resolveOutbound: the one reason for a link.
MayLinkOut(n) == verified[n] # None /\ now < verified[n].expires

\* What the page holds, and what is under way for it.  A check never covers more
\* names than the selection may hold.
TypeOK ==
  /\ clock \in Time /\ now \in 0 .. clock /\ published \in 0 .. clock
  /\ index \in [Names -> Timelines]
  /\ row \in [Names -> Result] /\ read \in [Names -> Lookup]
  /\ edition \in 0 .. MaxPublications
  /\ selected \subseteq Names /\ pending \subseteq Names
  /\ Cardinality(selected) <= MaxNames /\ Cardinality(pending) <= MaxNames
  /\ verified \in [Names -> Verification \cup {None}]
  /\ failure \in Checks \cup {None}
  /\ inFlight \in Checks \cup {None} /\ begun \in 0 .. MaxChecks
  /\ checks \in [Checks -> Check \cup {None}]
  /\ obtained \subseteq Document

\* The page speaks of the check its visitor asked for last: it waits for those
\* names and no others, and a failure it shows is of that check, whatever becomes
\* of the ones it replaced.  (useFreshCheck: check)
PageFollowsItsCheck ==
  /\ pending = IF inFlight = None THEN {} ELSE checks[inFlight].names
  /\ inFlight # None => inFlight = begun /\ failure = None
  /\ failure # None => failure = begun

\* A name is linked out only on what the index said of it within an answer's
\* lifetime before the page was rendered, classified at the instant shown beside
\* it, however long the answer was on its way and whichever copy it came from.
\* (resolveOutbound, assertCovers)
LinksAreVerified ==
  \A n \in Names :
    LET v == verified[n] IN
    MayLinkOut(n) =>
      /\ now - v.at < Lifetime
      /\ \E t \in v.at .. clock : v.result = Classify(index[n][t], v.at, Soon)

\* A row is what a scan at the snapshot's own instant would have made of the
\* answer its name was last scanned with, however often it has been carried
\* forward.  (CarryForward: the status is honest at the instant it is published)
RowsAreHonest ==
  \A n \in Names : row[n] = Classify(read[n], published, Soon)

\* What useFreshCheck.ts says of itself: it never drops a verification it has.
VerificationsAreKept ==
  [][\A n \in Names :
       verified[n] # None => verified'[n] # None /\ verified'[n].at >= verified[n].at]_vars

=============================================================================
