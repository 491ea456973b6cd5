----------------------------- MODULE WebSnapshot -----------------------------
(***************************************************************************)
(* The web application's loading of the published snapshot                 *)
(* (state/useSnapshot.ts, data/api.ts, data/cache.ts): the loads of        *)
(* several tabs, what each shows, and the one stored copy the tabs of an   *)
(* origin share.  A load runs from await to await: it reads the stored     *)
(* copy when it begins, and what it decides later it decides from that.    *)
(* The tabs run in processes of their own and the storage has no lock, so  *)
(* each call of it is a step: what one tab has read another may replace    *)
(* before the first removes it.  The read API is seen as ServedSnapshot    *)
(* promises it, and its pointer only advances.  A fixture, which asks      *)
(* nobody, is left out.                                                    *)
(***************************************************************************)
EXTENDS Integers

CONSTANTS
  Tabs,        \* the pages of one origin
  MaxVersion,  \* bound: the snapshots that are published, by scan order
  MaxLoads,    \* bound: the loads of all tabs together
  Unusable,    \* snapshots that parse and that toSnapshot cannot resolve
  Faults,      \* what may go wrong in this instance
  None,        \* nothing
  Garbage      \* an entry that does not parse

\* network: a request fails.  storage: it is missing, or refuses a write.
\* spoil: the entry is damaged, or written by another build.  confused: an
\* unconditional request is answered "not modified".
FaultKinds == {"network", "storage", "spoil", "confused"}

Versions == 1 .. MaxVersion
Loads == 1 .. MaxLoads

ASSUME WebAssumption ==
  /\ {MaxVersion, MaxLoads} \subseteq Nat
  /\ Unusable \subseteq Versions
  /\ Faults \subseteq FaultKinds
  /\ None # Garbage /\ {None, Garbage} \cap Int = {}

\* CacheEntry: the documents, and the entity tag they came with.
Copy == [snapshot : Versions, etag : Versions \cup {None}]

\* What a tab shows.  There is a snapshot exactly in the ready phase, and a
\* failure with none to show says so.
Loading == [phase |-> "loading", snapshot |-> None, origin |-> None, failure |-> None,
            revalidating |-> FALSE, confirmed |-> FALSE]
Kinds == {"unavailable", "malformed"}
FailedWith(kind) == [Loading EXCEPT !.phase = "failed", !.failure = kind]
View ==
  {Loading} \cup {FailedWith(kind) : kind \in Kinds}
  \cup [phase : {"ready"}, snapshot : Versions, origin : {"network", "cache"},
        failure : Kinds \cup {None}, revalidating : BOOLEAN, confirmed : BOOLEAN]

\* What a load is about to do: remove the entry it has read, ask for the snapshot,
\* ask for the pointer, or remove the entry it could not replace.
Phases == {"clearing", "asking", "pointer", "dropping"}

\* A load in flight: whose it is, whether it found a storage, the copy it read
\* there, and what it was served.
Load == [phase : Phases, tab : Tabs, usable : BOOLEAN,
         cached : Copy \cup {None}, body : Versions \cup {None},
         etag : Versions \cup {None}]

\* An empty or damaged entry is no copy, and no load is not a load.
ASSUME WebSentinels == {None, Garbage} \cap Copy = {} /\ None \notin Load

VARIABLES
  current,     \* the snapshot the read API serves, 0 before there is one
  stored,      \* the entry under CACHE_KEY
  view,        \* what each tab shows
  latest,      \* the load each tab began last
  load,        \* each load in flight, or None
  begun,       \* how many loads have begun
  seen, wrote, \* history: what was current since a tab's last load began;
               \* the snapshot a tab stored last
  storer       \* history: the tab that stored an entry last

history == <<seen, wrote, storer>>
vars    == <<current, stored, view, latest, load, begun, history>>

Init ==
  /\ current = 0 /\ stored = None
  /\ view = [t \in Tabs |-> Loading] /\ latest = [t \in Tabs |-> None]
  /\ load = [l \in Loads |-> None] /\ begun = 0
  /\ seen = [t \in Tabs |-> {}] /\ wrote = [t \in Tabs |-> 0] /\ storer = None

-----------------------------------------------------------------------------
(* Outside the tabs                                                        *)

Publish ==
  /\ current < MaxVersion
  /\ current' = current + 1
  /\ seen' = [t \in Tabs |-> seen[t] \cup {current'}]
  /\ UNCHANGED <<stored, view, latest, load, begun, wrote, storer>>

Spoil ==
  /\ "spoil" \in Faults
  /\ stored' = Garbage
  /\ UNCHANGED <<current, view, latest, load, begun, history>>

-----------------------------------------------------------------------------
(* What a load does with the storage and with the page                     *)

At(l, phase) == load[l] # None /\ load[l].phase = phase
Over(l) == load' = [load EXCEPT ![l] = None]

\* The page is this load's as long as no later one of its tab has begun.
Settle(l, shown) ==
  LET t == load[l].tab IN
  view' = IF latest[t] = l THEN [view EXCEPT ![t] = shown] ELSE view

\* An entry that can be shown parses and resolves.
Readable(entry) == entry \in Copy /\ entry.snapshot \notin Unusable

\* clearCache: whatever is stored by now is removed, unless the storage refuses.
Removed == {None} \cup (IF "storage" \in Faults THEN {stored} ELSE {})

\* A tab between two calls of the storage does nothing else.
Busy(t) == \E l \in Loads : /\ At(l, "clearing") \/ At(l, "dropping")
                            /\ load[l].tab = t

Ready(copy, origin) ==
  [phase |-> "ready", snapshot |-> copy.snapshot, origin |-> origin, failure |-> None,
   revalidating |-> FALSE, confirmed |-> FALSE]

\* A load that ends without an answer keeps showing the copy it read, and says
\* why that one is not being refreshed.
Fail(l, kind) ==
  LET copy == load[l].cached IN
  /\ Settle(l, IF copy = None THEN FailedWith(kind)
               ELSE [Ready(copy, "cache") EXCEPT !.failure = kind])
  /\ Over(l)
  /\ UNCHANGED <<current, stored, latest, begun, history>>

-----------------------------------------------------------------------------
(* Loads                                                                   *)

\* Mutation: a load that is superseded is left running.
SupersedeLeaving(t) == load

\* The effect's cleanup aborts the request, and an aborted load does nothing more:
\* what it had received it has dealt with before the event that aborts it.
Supersede(t) == [l \in Loads |-> IF l = latest[t] THEN None ELSE load[l]]

\* Mutation: the snapshot a page shows is taken to be there.
RetriedBlindly(t) ==
  [view[t] EXCEPT !.phase = "ready", !.failure = None, !.revalidating = TRUE]

\* retry: what is on screen stays there.
Retried(t) ==
  IF view[t].snapshot = None THEN Loading
  ELSE [view[t] EXCEPT !.phase = "ready", !.failure = None, !.revalidating = TRUE]

\* A page opens, or its visitor tries again.  The stored copy is shown at once; an
\* entry that cannot be shown is to be removed.
Begin(t, found) ==
  LET copy == IF found /\ Readable(stored) THEN stored ELSE None
      bad == found /\ stored # None /\ copy = None
      l == begun + 1 IN
  /\ begun < MaxLoads /\ (found \/ "storage" \in Faults) /\ ~Busy(t)
  /\ begun' = l /\ latest' = [latest EXCEPT ![t] = l]
  /\ load' = [Supersede(t) EXCEPT ![l] =
       [phase |-> IF bad THEN "clearing" ELSE "asking", tab |-> t, usable |-> found,
        cached |-> copy, body |-> None, etag |-> None]]
  /\ view' = [view EXCEPT ![t] =
       IF copy # None THEN [Ready(copy, "cache") EXCEPT !.revalidating = TRUE]
       ELSE IF latest[t] = None THEN Loading ELSE Retried(t)]
  /\ seen' = [seen EXCEPT ![t] = {current}]
  /\ UNCHANGED <<current, stored, wrote, storer>>

\* The entry that could not be shown is removed, or the one stored since.
Clear(l) ==
  /\ At(l, "clearing")
  /\ stored' \in Removed
  /\ load' = [load EXCEPT ![l].phase = "asking"]
  /\ UNCHANGED <<current, view, latest, begun, history>>

\* The read API's comparison with the tag a load sends, when it has one.
Confirmable(l) == load[l].cached # None /\ load[l].cached.etag = current

\* The page says that what it shows is the snapshot being served.
Confirm(l, copy) ==
  /\ Settle(l, [Ready(copy, "network") EXCEPT !.confirmed = TRUE])
  /\ Over(l)
  /\ UNCHANGED <<current, latest, begun, seen>>

\* Mutation: the copy is read again when the answer comes.
NotModifiedRereading(l) ==
  /\ At(l, "asking") /\ Confirmable(l) /\ Readable(stored)
  /\ Confirm(l, stored)
  /\ UNCHANGED <<stored, wrote, storer>>

\* The copy this load asked about is the snapshot being served.
NotModified(l) ==
  /\ At(l, "asking") /\ Confirmable(l)
  /\ Confirm(l, load[l].cached)
  /\ UNCHANGED <<stored, wrote, storer>>

\* Mutation: an answer to a question that was not asked is passed over.
NothingToConfirmSilently(l) ==
  /\ "confused" \in Faults /\ At(l, "asking") /\ load[l].cached = None
  /\ Over(l)
  /\ UNCHANGED <<current, stored, view, latest, begun, history>>

\* An answer to a question that was not asked.
NothingToConfirm(l) ==
  /\ "confused" \in Faults /\ At(l, "asking") /\ load[l].cached = None
  /\ Fail(l, "unavailable")

\* The whole snapshot; whether its tag can be read is the deployment's affair.
Served(l) ==
  /\ At(l, "asking") /\ ~Confirmable(l) /\ current # 0
  /\ \E tag \in {current, None} :
       load' = [load EXCEPT ![l].phase = "pointer", ![l].body = current, ![l].etag = tag]
  /\ UNCHANGED <<current, stored, view, latest, begun, history>>

\* No connection, or a status that is no success, as when there is no snapshot.
Unreachable(l) ==
  /\ At(l, "asking") \/ At(l, "pointer")
  /\ "network" \in Faults \/ current = 0
  /\ Fail(l, "unavailable")

\* assertPointerMatches: a publication came between the two requests.
PointerDisagrees(l) ==
  /\ At(l, "pointer") /\ current # load[l].body
  /\ Fail(l, "malformed")

\* The second request finds a pointer that agrees, or none, and the snapshot does
\* not resolve: nothing is stored.
Refused(l) ==
  /\ At(l, "pointer") /\ load[l].body \in Unusable
  /\ Fail(l, "malformed")

\* What is stored, if anything: a browser without a storage stores nothing.
Keep(l, copy) ==
  IF load[l].usable
    THEN /\ stored' = copy /\ storer' = load[l].tab
         /\ wrote' = [wrote EXCEPT ![load[l].tab] = copy.snapshot]
    ELSE UNCHANGED <<stored, wrote, storer>>

Received(l) == [snapshot |-> load[l].body, etag |-> load[l].etag]

\* Mutation: stored before it is resolved.
AcceptUnresolved(l) ==
  /\ At(l, "pointer")
  /\ Keep(l, Received(l)) /\ Confirm(l, Received(l))

\* Resolved, then stored, then shown.
Accept(l) ==
  /\ At(l, "pointer") /\ load[l].body \notin Unusable
  /\ Keep(l, Received(l)) /\ Confirm(l, Received(l))

\* writeCache: a storage that refuses the entry twice is to keep none.
StoreRefused(l) ==
  /\ "storage" \in Faults
  /\ At(l, "pointer") /\ load[l].body \notin Unusable /\ load[l].usable
  /\ load' = [load EXCEPT ![l].phase = "dropping"]
  /\ UNCHANGED <<current, stored, view, latest, begun, history>>

\* The entry that could not be replaced is removed, or the one stored since, and
\* the snapshot is shown all the same.
Drop(l) ==
  /\ At(l, "dropping")
  /\ stored' \in Removed
  /\ Confirm(l, Received(l))
  /\ UNCHANGED <<wrote, storer>>

-----------------------------------------------------------------------------
Answer(l) ==
  \/ NotModified(l) \/ NothingToConfirm(l) \/ Served(l) \/ Unreachable(l)
  \/ PointerDisagrees(l) \/ Refused(l) \/ Accept(l)
  \/ Clear(l) \/ StoreRefused(l) \/ Drop(l)

Next ==
  \/ Publish \/ Spoil
  \/ \E t \in Tabs, found \in BOOLEAN : Begin(t, found)
  \/ \E l \in Loads : Answer(l)

\* A browser answers or fails every request in the end.
Spec == Init /\ [][Next]_vars /\ \A l \in Loads : WF_vars(Answer(l))

-----------------------------------------------------------------------------
(* Properties                                                              *)

\* What the storage, each page and each load hold; a page is ready exactly when
\* it has a snapshot to show.
TypeOK ==
  /\ current \in 0 .. MaxVersion
  /\ stored \in Copy \cup {None, Garbage}
  /\ view \in [Tabs -> View]
  /\ latest \in [Tabs -> Loads \cup {None}]
  /\ load \in [Loads -> Load \cup {None}] /\ begun \in 0 .. MaxLoads
  /\ seen \in [Tabs -> SUBSET (0 .. MaxVersion)]
  /\ wrote \in [Tabs -> 0 .. MaxVersion] /\ storer \in Tabs \cup {None}

\* A page that says its snapshot is the current one says so of a snapshot that was
\* being served while its last load ran, whatever other tabs have stored
\* meanwhile.  (useSnapshot: confirmedCurrent)
ConfirmedWasCurrent ==
  \A t \in Tabs :
    view[t].confirmed /\ ~view[t].revalidating => view[t].snapshot \in seen[t]

\* A tab never puts an older snapshot over one it stored itself: a load that has
\* been superseded stores nothing.  Two tabs may.  (useSnapshot: cleanup)
OwnWritesAdvance == [][\A t \in Tabs : wrote'[t] >= wrote[t]]_vars

\* A copy that can be shown offline is lost to two loads only.  One has resolved a
\* snapshot that the storage did not take.  The other removes an entry it could not
\* read, and the copy is one that a different tab has stored since it read that.
\* It is not lost to a failed request, to an answer that cannot be resolved, or to
\* the tab that stored it.  (readCachedView, writeCache, clearCache; the damage of
\* Spoil comes from outside)
CopiesAreKept ==
  [][Readable(stored) /\ ~Readable(stored') =>
       \/ stored' = Garbage
       \/ \E l \in Loads : /\ At(l, "dropping") /\ load'[l] = None
                           /\ load[l].body \notin Unusable
       \/ \E l \in Loads : /\ At(l, "clearing") /\ At(l, "asking")'
                           /\ load[l].tab # storer]_vars

\* A page does not stay waiting, whichever way its load ends.
LoadsSettle ==
  \A t \in Tabs :
    (latest[t] # None /\ (view[t].phase = "loading" \/ view[t].revalidating))
      ~> (view[t].phase # "loading" /\ ~view[t].revalidating)

=============================================================================
