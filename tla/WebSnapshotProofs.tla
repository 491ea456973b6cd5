--------------------------- MODULE WebSnapshotProofs ---------------------------
(***************************************************************************)
(* The safety of WebSnapshot for any tabs, snapshots, loads and faults:    *)
(* that a page calls current only what was being served while its load     *)
(* ran, that a tab never goes back on what it stored, and what a copy that *)
(* can be shown may be lost to.                                            *)
(*                                                                         *)
(* What a page shows depends on what its load was served, and that on when *)
(* it asked.  The invariant follows a snapshot from the answer to the      *)
(* page: a tab has one load at a time (Owned), its history has been kept   *)
(* since that load began (Watched), a tag names the snapshot it came with  *)
(* wherever it is kept (Tagged), and what a load waits to compare with the *)
(* pointer was current since it began and is no older than what its tab    *)
(* stored (Fetched).  A load that has read an entry it must remove can     *)
(* come upon a copy that reads only when another tab has stored it since   *)
(* (Removing).  The safety half of LoadsSettle is proved with them: a page *)
(* that waits has a load to wait for (Awaited).                            *)
(***************************************************************************)
EXTENDS WebSnapshot, TLAPS

-----------------------------------------------------------------------------
(* The inductive invariant                                                 *)

\* Only the load a tab began last is in flight for it, and it began that itself.
Owned ==
  /\ \A l \in Loads : load[l] # None => l <= begun /\ latest[load[l].tab] = l
  /\ \A t, u \in Tabs : latest[t] # None /\ latest[t] = latest[u] => t = u

\* From a tab's first load on, its history holds the snapshot being served.
Watched ==
  \A t \in Tabs :
    /\ latest[t] # None => latest[t] <= begun /\ current \in seen[t]
    /\ wrote[t] <= current

\* A copy with a tag has the tag of its own snapshot.
OwnTag(copy) == copy.etag \in {None, copy.snapshot}
Tagged ==
  /\ stored \in Copy => OwnTag(stored)
  /\ \A l \in Loads : load[l] # None /\ load[l].cached # None => OwnTag(load[l].cached)

\* What a load has been served and has still to compare with the pointer, or to
\* show once the storage has refused it.
Holds(l) == At(l, "pointer") \/ At(l, "dropping")
Fetched ==
  \A l \in Loads : Holds(l) =>
    /\ load[l].body \in Versions /\ load[l].etag \in {None, load[l].body}
    /\ load[l].body \in seen[load[l].tab]
    /\ wrote[load[l].tab] <= load[l].body /\ load[l].body <= current

\* What a load that is about to remove the entry may come upon.
Removing ==
  \A l \in Loads :
    /\ At(l, "dropping") => load[l].body \notin Unusable
    /\ At(l, "clearing") /\ Readable(stored) => storer # load[l].tab

\* A page that waits has its load in flight.
Waiting(t) == latest[t] # None /\ (view[t].phase = "loading" \/ view[t].revalidating)
Awaited ==
  \A t \in Tabs : Waiting(t) => load[latest[t]] # None /\ load[latest[t]].tab = t

WInv ==
  /\ TypeOK /\ Owned /\ Watched /\ Tagged /\ Fetched /\ Removing
  /\ ConfirmedWasCurrent /\ Awaited

-----------------------------------------------------------------------------
(* What the pages show                                                     *)

LEMMA NoNumbers ==
  /\ MaxVersion \in Nat /\ MaxLoads \in Nat
  /\ \A i \in Int : i # None
  BY WebAssumption

LEMMA NoCopies == \A copy \in Copy : copy # None /\ copy # Garbage
  BY WebSentinels

LEMMA LoadsAreTyped ==
  ASSUME TypeOK, NEW l \in Loads, load[l] # None
  PROVE  /\ load[l] \in Load /\ load[l].tab \in Tabs
         /\ load[l].cached # None => load[l].cached \in Copy
  BY DEF TypeOK, Load

LEMMA LoadingIsAView == Loading \in View /\ ~Loading.confirmed
  BY DEF View, Loading

LEMMA FailuresAreViews ==
  ASSUME NEW kind \in Kinds
  PROVE  /\ FailedWith(kind) \in View /\ ~FailedWith(kind).confirmed
         /\ FailedWith(kind).phase # "loading" /\ ~FailedWith(kind).revalidating
  <1>1. FailedWith(kind) \in View
    BY DEF View
  <1>2. QED
    BY <1>1 DEF FailedWith, Loading

LEMMA ReadyIsAView ==
  ASSUME NEW copy, copy.snapshot \in Versions, NEW kind \in Kinds
  PROVE  /\ [Ready(copy, "network") EXCEPT !.confirmed = TRUE] \in View
         /\ [Ready(copy, "cache") EXCEPT !.revalidating = TRUE] \in View
         /\ [Ready(copy, "cache") EXCEPT !.failure = kind] \in View
         /\ [Ready(copy, "network") EXCEPT !.confirmed = TRUE].snapshot = copy.snapshot
         /\ [Ready(copy, "cache") EXCEPT !.revalidating = TRUE].revalidating
         /\ ~[Ready(copy, "cache") EXCEPT !.failure = kind].confirmed
         /\ [Ready(copy, "network") EXCEPT !.confirmed = TRUE].phase = "ready"
         /\ ~[Ready(copy, "network") EXCEPT !.confirmed = TRUE].revalidating
         /\ [Ready(copy, "cache") EXCEPT !.failure = kind].phase = "ready"
         /\ ~[Ready(copy, "cache") EXCEPT !.failure = kind].revalidating
  BY DEF Ready, View

\* A page that has nothing to show confirms nothing, and one that is refreshed
\* shows what it showed.
LEMMA RetriedIsAView ==
  ASSUME TypeOK, NEW t \in Tabs
  PROVE  /\ Retried(t) \in View
         /\ ~Retried(t).confirmed \/ Retried(t).revalidating
  <1>1. CASE view[t].snapshot = None
    BY <1>1, LoadingIsAView DEF Retried
  <1>2. CASE view[t].snapshot # None
    <2>1. view[t] \in View
      BY DEF TypeOK
    <2>2. view[t] # Loading
      BY <1>2 DEF Loading
    <2>3. \A kind \in Kinds : view[t] # FailedWith(kind)
      BY <1>2 DEF FailedWith, Loading
    <2>4. view[t] \in
            [phase : {"ready"}, snapshot : Versions, origin : {"network", "cache"},
             failure : Kinds \cup {None}, revalidating : BOOLEAN, confirmed : BOOLEAN]
      BY <2>1, <2>2, <2>3 DEF View
    <2>5. [view[t] EXCEPT !.phase = "ready", !.failure = None, !.revalidating = TRUE] \in
            [phase : {"ready"}, snapshot : Versions, origin : {"network", "cache"},
             failure : Kinds \cup {None}, revalidating : BOOLEAN, confirmed : BOOLEAN]
      BY <2>4
    <2>6. Retried(t) \in View
      BY <1>2, <2>5 DEF Retried, View
    <2>7. Retried(t).revalidating
      BY <1>2, <2>4 DEF Retried
    <2>8. QED
      BY <2>6, <2>7
  <1>3. QED
    BY <1>1, <1>2

\* A load changes no page but its own tab's.
LEMMA SettleShows ==
  ASSUME TypeOK, NEW l \in Loads, load[l] # None, NEW shown \in View, Settle(l, shown)
  PROVE  /\ view' \in [Tabs -> View]
         /\ \A t \in Tabs :
              view'[t] = view[t] \/ (t = load[l].tab /\ view'[t] = shown)
         /\ latest[load[l].tab] = l => view'[load[l].tab] = shown
  BY LoadsAreTyped DEF Settle, TypeOK

\* A load that is over leaves the others as they were.
LEMMA OverLeavesOthers ==
  ASSUME TypeOK, NEW l \in Loads, Over(l)
  PROVE  /\ load' \in [Loads -> Load \cup {None}]
         /\ \A m \in Loads : load'[m] # None => m # l /\ load'[m] = load[m]
         /\ \A m \in Loads : m # l => load'[m] = load[m]
  BY DEF Over, TypeOK

\* Nothing is not a copy that can be shown.
LEMMA NoneIsUnreadable == ~Readable(None)
  BY NoCopies DEF Readable

\* A load that settles its page, and is over, leaves no page waiting for it.
LEMMA SettledKeeps ==
  ASSUME TypeOK, Owned, Awaited, NEW l \in Loads, load[l] # None,
         NEW shown \in View, shown.phase # "loading", ~shown.revalidating,
         Settle(l, shown), Over(l), UNCHANGED latest
  PROVE  Awaited'
  <1> SUFFICES ASSUME NEW t \in Tabs, Waiting(t)'
               PROVE  load'[latest[t]] # None /\ load'[latest[t]].tab = t
    BY DEF Awaited
  <1>1. view'[load[l].tab] = shown /\ load[l].tab \in Tabs
    BY SettleShows, LoadsAreTyped DEF Owned
  <1>2. t # load[l].tab
    BY <1>1 DEF Waiting
  <1>3. Waiting(t) /\ latest[t] \in Loads
    <2>1. view'[t] = view[t]
      BY <1>2, SettleShows
    <2>2. QED
      BY <2>1 DEF Waiting, TypeOK
  <1>4. load[latest[t]] # None /\ load[latest[t]].tab = t
    BY <1>3 DEF Awaited
  <1>5. load'[latest[t]] = load[latest[t]]
    BY <1>2, <1>3, <1>4, OverLeavesOthers
  <1>6. QED
    BY <1>4, <1>5

-----------------------------------------------------------------------------
(* Loads that fail                                                         *)

\* A load that ends without an answer stores nothing and confirms nothing.
LEMMA FailKeeps ==
  ASSUME WInv, NEW l \in Loads, load[l] # None, NEW kind \in Kinds, Fail(l, kind)
  PROVE  WInv'
  <1> DEFINE copy == load[l].cached
             shown == IF copy = None THEN FailedWith(kind)
                      ELSE [Ready(copy, "cache") EXCEPT !.failure = kind]
  <1>1. TypeOK /\ Owned /\ Watched /\ Tagged /\ Fetched /\ Removing
        /\ ConfirmedWasCurrent /\ Awaited
    BY DEF WInv
  <1>2. /\ Settle(l, shown) /\ Over(l)
        /\ UNCHANGED <<current, stored, latest, begun, seen, wrote, storer>>
    BY DEF Fail, history
  <1>3. shown \in View /\ ~shown.confirmed /\ shown.phase # "loading" /\ ~shown.revalidating
    <2>1. CASE copy = None
      BY <2>1, FailuresAreViews
    <2>2. CASE copy # None
      <3>1. copy.snapshot \in Versions
        BY <1>1, <2>2, LoadsAreTyped DEF Copy
      <3>2. QED
        BY <2>2, <3>1, ReadyIsAView
    <2>3. QED
      BY <2>1, <2>2
  <1> HIDE DEF shown
  <1>4. /\ view' \in [Tabs -> View]
        /\ \A t \in Tabs : view'[t] = view[t] \/ ~view'[t].confirmed
    BY <1>1, <1>2, <1>3, SettleShows
  <1>5. /\ load' \in [Loads -> Load \cup {None}]
        /\ \A m \in Loads : load'[m] # None => load'[m] = load[m]
    BY <1>1, <1>2, OverLeavesOthers
  <1>6. TypeOK'
    BY <1>1, <1>2, <1>4, <1>5 DEF TypeOK
  <1>7. Owned' /\ Watched'
    BY <1>1, <1>2, <1>5 DEF Owned, Watched
  <1>8. Tagged'
    BY <1>1, <1>2, <1>5 DEF Tagged, OwnTag
  <1>9. Fetched' /\ Removing'
    BY <1>1, <1>2, <1>5 DEF Fetched, Removing, Holds, At, Readable
  <1>10. ConfirmedWasCurrent'
    BY <1>1, <1>2, <1>4 DEF ConfirmedWasCurrent
  <1>11. Awaited'
    BY <1>1, <1>2, <1>3, SettledKeeps
  <1>12. QED
    BY <1>6, <1>7, <1>8, <1>9, <1>10, <1>11 DEF WInv

-----------------------------------------------------------------------------
(* Loads that are answered                                                 *)

\* A load that confirms a snapshot its tab has seen current, and the storage.
LEMMA ConfirmKeeps ==
  ASSUME WInv, NEW l \in Loads, load[l] # None,
         NEW copy, copy.snapshot \in Versions, copy.snapshot \in seen[load[l].tab],
         Confirm(l, copy),
         stored' \in Copy \cup {None, Garbage}, stored' \in Copy => OwnTag(stored'),
         \/ wrote' = wrote
         \/ /\ wrote' = [wrote EXCEPT ![load[l].tab] = copy.snapshot]
            /\ copy.snapshot <= current,
         \/ storer' = load[l].tab
         \/ storer' = storer /\ stored' \in {stored, None}
  PROVE  WInv'
  <1> DEFINE t == load[l].tab
             shown == [Ready(copy, "network") EXCEPT !.confirmed = TRUE]
  <1>1. TypeOK /\ Owned /\ Watched /\ Tagged /\ Fetched /\ Removing
        /\ ConfirmedWasCurrent /\ Awaited
    BY DEF WInv
  <1>2. t \in Tabs
    BY <1>1, LoadsAreTyped
  <1>3. /\ shown \in View /\ shown.snapshot = copy.snapshot
        /\ shown.phase # "loading" /\ ~shown.revalidating
    BY ReadyIsAView DEF Kinds
  <1>4. Settle(l, shown) /\ Over(l) /\ UNCHANGED <<current, latest, begun, seen>>
    BY DEF Confirm
  <1> HIDE DEF shown
  <1>5. /\ view' \in [Tabs -> View]
        /\ \A u \in Tabs :
             view'[u] = view[u] \/ (u = t /\ view'[u] = shown)
    BY <1>1, <1>3, <1>4, SettleShows
  <1>6. /\ load' \in [Loads -> Load \cup {None}]
        /\ \A m \in Loads : load'[m] # None => m # l /\ load'[m] = load[m]
    BY <1>1, <1>4, OverLeavesOthers
  <1>7. /\ wrote' \in [Tabs -> 0 .. MaxVersion]
        /\ \A u \in Tabs : wrote'[u] # wrote[u] => u = t /\ wrote'[u] <= current
    <2>1. wrote \in [Tabs -> 0 .. MaxVersion] /\ copy.snapshot \in 0 .. MaxVersion
      BY <1>1, NoNumbers DEF TypeOK, Versions
    <2>2. QED
      BY <1>2, <2>1
  <1>8. TypeOK'
    BY <1>1, <1>2, <1>4, <1>5, <1>6, <1>7 DEF TypeOK
  <1>9. Owned'
    BY <1>1, <1>4, <1>6 DEF Owned
  <1>10. Watched'
    BY <1>1, <1>4, <1>7 DEF Watched
  <1>11. Tagged'
    BY <1>1, <1>6 DEF Tagged, OwnTag
  <1>12. Fetched'
    <2> SUFFICES ASSUME NEW m \in Loads, Holds(m)'
                 PROVE  /\ load'[m].body \in Versions /\ load'[m].etag \in {None, load'[m].body}
                        /\ load'[m].body \in seen'[load'[m].tab]
                        /\ wrote'[load'[m].tab] <= load'[m].body /\ load'[m].body <= current'
      BY DEF Fetched
    <2>1. m # l /\ load'[m] = load[m] /\ load[m] # None /\ Holds(m)
      BY <1>6 DEF Holds, At
    <2>2. load[m].tab # t
      BY <1>1, <2>1 DEF Owned
    <2>3. load[m].tab \in Tabs
      BY <1>1, <2>1, LoadsAreTyped
    <2>4. wrote'[load[m].tab] = wrote[load[m].tab]
      BY <1>7, <2>2, <2>3
    <2>5. QED
      BY <1>1, <1>4, <2>1, <2>4 DEF Fetched
  <1>13. ConfirmedWasCurrent'
    BY <1>1, <1>3, <1>4, <1>5 DEF ConfirmedWasCurrent
  <1>14. Awaited'
    BY <1>1, <1>3, <1>4, SettledKeeps
  <1>15. Removing'
    <2> SUFFICES ASSUME NEW m \in Loads, load'[m] # None
                 PROVE  /\ At(m, "dropping")' => load'[m].body \notin Unusable
                        /\ At(m, "clearing")' /\ Readable(stored') => storer' # load'[m].tab
      BY DEF Removing, At
    <2>1. m # l /\ load'[m] = load[m] /\ load[m].tab # t
      BY <1>1, <1>6 DEF Owned
    <2>2. /\ At(m, "dropping") => load[m].body \notin Unusable
          /\ At(m, "clearing") /\ Readable(stored) => storer # load[m].tab
      BY <1>1 DEF Removing
    <2>3. At(m, "clearing")' /\ Readable(stored') => storer' # load'[m].tab
      BY <2>1, <2>2, NoneIsUnreadable DEF At
    <2>4. QED
      BY <2>1, <2>2, <2>3 DEF At
  <1>16. QED
    BY <1>8, <1>9, <1>10, <1>11, <1>12, <1>13, <1>14, <1>15 DEF WInv

LEMMA NotModifiedKeeps ==
  ASSUME WInv, NEW l \in Loads, NotModified(l)
  PROVE  WInv'
  <1> DEFINE copy == load[l].cached
             t == load[l].tab
  <1>1. TypeOK /\ Owned /\ Watched /\ Tagged
    BY DEF WInv
  <1>2. load[l] # None /\ copy # None /\ copy.etag = current
    BY DEF NotModified, At, Confirmable
  <1>3. copy \in Copy /\ t \in Tabs /\ copy.snapshot \in Versions
    BY <1>1, <1>2, LoadsAreTyped DEF Copy
  <1>4. copy.snapshot = current
    <2>1. current \in Int
      BY <1>1, NoNumbers DEF TypeOK
    <2>2. QED
      BY <1>1, <1>2, <2>1, NoNumbers DEF Tagged, OwnTag
  <1>5. current \in seen[t]
    <2>1. latest[t] = l /\ l # None
      BY <1>1, <1>2, NoNumbers DEF Owned, Loads
    <2>2. QED
      BY <1>1, <1>3, <2>1 DEF Watched
  <1>6. stored' = stored /\ wrote' = wrote /\ storer' = storer /\ Confirm(l, copy)
    BY DEF NotModified
  <1>7. stored' \in Copy \cup {None, Garbage} /\ (stored' \in Copy => OwnTag(stored'))
    BY <1>1, <1>6 DEF TypeOK, Tagged
  <1> HIDE DEF copy, t
  <1>8. QED
    BY <1>2, <1>3, <1>4, <1>5, <1>6, <1>7, ConfirmKeeps DEF copy, t

\* What a load holds, as a copy: its tab has seen it current.
LEMMA ReceivedIsACopy ==
  ASSUME WInv, NEW l \in Loads, Holds(l)
  PROVE  /\ load[l] # None /\ load[l].tab \in Tabs
         /\ Received(l) \in Copy /\ OwnTag(Received(l))
         /\ Received(l).snapshot \in Versions /\ Received(l).snapshot \in seen[load[l].tab]
         /\ Received(l).snapshot <= current
  <1>1. TypeOK /\ Fetched /\ load[l] # None
    BY DEF WInv, Holds, At
  <1>2. /\ load[l].body \in Versions /\ load[l].etag \in {None, load[l].body}
        /\ load[l].body \in seen[load[l].tab] /\ load[l].body <= current
    BY <1>1 DEF Fetched
  <1>3. QED
    BY <1>1, <1>2, LoadsAreTyped DEF Received, Copy, OwnTag

LEMMA AcceptKeeps ==
  ASSUME WInv, NEW l \in Loads, Accept(l)
  PROVE  WInv'
  <1> DEFINE copy == Received(l)
  <1>1. TypeOK /\ Tagged /\ Holds(l)
    BY DEF WInv, Accept, Holds
  <1>2. /\ load[l] # None /\ load[l].tab \in Tabs /\ copy \in Copy /\ OwnTag(copy)
        /\ copy.snapshot \in Versions /\ copy.snapshot \in seen[load[l].tab]
        /\ copy.snapshot <= current
    BY <1>1, ReceivedIsACopy
  <1>3. Confirm(l, copy)
    BY DEF Accept
  <1> HIDE DEF copy
  <1>4. CASE load[l].usable
    <2>1. /\ stored' = copy /\ storer' = load[l].tab
          /\ wrote' = [wrote EXCEPT ![load[l].tab] = copy.snapshot]
      BY <1>4 DEF Accept, Keep, copy
    <2>2. QED
      BY <1>2, <1>3, <2>1, ConfirmKeeps
  <1>5. CASE ~load[l].usable
    <2>1. stored' = stored /\ wrote' = wrote /\ storer' = storer
      BY <1>5 DEF Accept, Keep
    <2>2. stored' \in Copy \cup {None, Garbage} /\ (stored' \in Copy => OwnTag(stored'))
      BY <1>1, <2>1 DEF TypeOK, Tagged
    <2>3. QED
      BY <1>2, <1>3, <2>1, <2>2, ConfirmKeeps
  <1>6. QED
    BY <1>4, <1>5

LEMMA DropKeeps ==
  ASSUME WInv, NEW l \in Loads, Drop(l)
  PROVE  WInv'
  <1> DEFINE copy == Received(l)
  <1>1. TypeOK /\ Tagged /\ Holds(l)
    BY DEF WInv, Drop, Holds
  <1>2. /\ load[l] # None /\ copy.snapshot \in Versions
        /\ copy.snapshot \in seen[load[l].tab]
    BY <1>1, ReceivedIsACopy
  <1>3. /\ Confirm(l, copy) /\ wrote' = wrote /\ storer' = storer
        /\ stored' \in {stored, None}
    BY DEF Drop, Removed
  <1> HIDE DEF copy
  <1>4. stored' \in Copy \cup {None, Garbage} /\ (stored' \in Copy => OwnTag(stored'))
    BY <1>1, <1>3, NoCopies DEF TypeOK, Tagged
  <1>5. QED
    BY <1>2, <1>3, <1>4, ConfirmKeeps

\* A load that has been served a snapshot is still a load, of the same tab.
WithAnswer(old, body, tag) ==
  [old EXCEPT !.phase = "pointer", !.body = body, !.etag = tag]

LEMMA ServedLoad ==
  ASSUME NEW old \in Load, NEW body \in Versions, NEW tag \in Versions \cup {None}
  PROVE  /\ WithAnswer(old, body, tag) \in Load
         /\ WithAnswer(old, body, tag).tab = old.tab
         /\ WithAnswer(old, body, tag).phase = "pointer"
         /\ WithAnswer(old, body, tag).cached = old.cached
         /\ WithAnswer(old, body, tag).body = body
         /\ WithAnswer(old, body, tag).etag = tag
  BY DEF Load, Phases, WithAnswer

LEMMA ServedKeeps ==
  ASSUME WInv, NEW l \in Loads, Served(l)
  PROVE  WInv'
  <1>1. TypeOK /\ Owned /\ Watched /\ Tagged /\ Fetched /\ Removing
        /\ ConfirmedWasCurrent /\ Awaited
    BY DEF WInv
  <1>2. /\ load[l] # None /\ current # 0
        /\ UNCHANGED <<current, stored, view, latest, begun, seen, wrote, storer>>
    BY DEF Served, At, history
  <1>3. PICK tag \in {current, None} :
          load' = [load EXCEPT ![l].phase = "pointer", ![l].body = current, ![l].etag = tag]
    BY DEF Served
  <1>4. current \in Versions /\ load[l] \in Load
    BY <1>1, <1>2, NoNumbers, LoadsAreTyped DEF TypeOK, Versions
  <1>5. load'[l] = [load[l] EXCEPT !.phase = "pointer", !.body = current, !.etag = tag]
        /\ \A m \in Loads : m # l => load'[m] = load[m]
    BY <1>1, <1>3 DEF TypeOK
  <1>6. /\ load'[l] \in Load
        /\ load'[l].tab = load[l].tab /\ load'[l].cached = load[l].cached
        /\ load'[l].body = current /\ load'[l].etag = tag /\ load'[l].phase = "pointer"
    <2>1. tag \in Versions \cup {None}
      BY <1>4
    <2>2. load'[l] = WithAnswer(load[l], current, tag)
      BY <1>5 DEF WithAnswer
    <2>3. QED
      BY <1>4, <2>1, <2>2, ServedLoad
  <1>7. load' \in [Loads -> Load \cup {None}]
    <2>1. load' = [m \in Loads |-> load'[m]]
      BY <1>1, <1>3 DEF TypeOK
    <2>2. \A m \in Loads : load'[m] \in Load \cup {None}
      BY <1>1, <1>5, <1>6 DEF TypeOK
    <2>3. QED
      BY <2>1, <2>2
  <1>8. TypeOK'
    BY <1>1, <1>2, <1>7 DEF TypeOK
  <1>9. Owned'
    <2>1. \A m \in Loads : load'[m] # None => load[m] # None /\ load'[m].tab = load[m].tab
      BY <1>2, <1>5, <1>6
    <2>2. QED
      BY <1>1, <1>2, <2>1 DEF Owned
  <1>10. Watched' /\ ConfirmedWasCurrent'
    BY <1>1, <1>2 DEF Watched, ConfirmedWasCurrent
  <1>11. Tagged'
    BY <1>1, <1>2, <1>5, <1>6 DEF Tagged, OwnTag
  <1>12. Fetched'
    <2> SUFFICES ASSUME NEW m \in Loads, Holds(m)'
                 PROVE  /\ load'[m].body \in Versions /\ load'[m].etag \in {None, load'[m].body}
                        /\ load'[m].body \in seen'[load'[m].tab]
                        /\ wrote'[load'[m].tab] <= load'[m].body /\ load'[m].body <= current'
      BY DEF Fetched
    <2>1. CASE m # l
      BY <1>1, <1>2, <1>5, <2>1 DEF Fetched, Holds, At
    <2>2. CASE m = l
      <3>1. load[l].tab \in Tabs /\ latest[load[l].tab] = l /\ l # None
        BY <1>1, <1>2, LoadsAreTyped, NoNumbers DEF Owned, Loads
      <3>2. current \in seen[load[l].tab] /\ wrote[load[l].tab] <= current
        BY <1>1, <3>1 DEF Watched
      <3>3. current <= current
        BY <1>4 DEF Versions
      <3>4. QED
        BY <1>2, <1>4, <1>6, <2>2, <3>2, <3>3
    <2>3. QED
      BY <2>1, <2>2
  <1>13. Awaited'
    <2>1. \A m \in Loads : load[m] # None => load'[m] # None /\ load'[m].tab = load[m].tab
      BY <1>4, <1>5, <1>6, WebSentinels
    <2>2. \A t \in Tabs : latest[t] # None => latest[t] \in Loads
      BY <1>1 DEF TypeOK
    <2>3. QED
      BY <1>1, <1>2, <2>1, <2>2 DEF Awaited, Waiting
  <1>14. Removing'
    <2> SUFFICES ASSUME NEW m \in Loads, At(m, "dropping")' \/ At(m, "clearing")'
                 PROVE  /\ At(m, "dropping")' => load'[m].body \notin Unusable
                        /\ At(m, "clearing")' /\ Readable(stored') => storer' # load'[m].tab
      BY DEF Removing
    <2>1. m # l
      BY <1>6 DEF At
    <2>2. QED
      BY <1>1, <1>2, <1>5, <2>1 DEF Removing, At, Readable
  <1>15. QED
    BY <1>8, <1>9, <1>10, <1>11, <1>12, <1>13, <1>14 DEF WInv

\* A load that goes on to another call of the storage is still a load, of the same
\* tab, and holds what it held.
Turned(old, phase) == [old EXCEPT !.phase = phase]

LEMMA TurnedLoad ==
  ASSUME NEW old \in Load, NEW phase \in Phases
  PROVE  /\ Turned(old, phase) \in Load
         /\ Turned(old, phase).phase = phase
         /\ Turned(old, phase).tab = old.tab
         /\ Turned(old, phase).cached = old.cached
         /\ Turned(old, phase).body = old.body
         /\ Turned(old, phase).etag = old.etag
  BY DEF Load, Turned

LEMMA TurnKeeps ==
  ASSUME WInv, NEW l \in Loads, load[l] # None, NEW phase \in {"asking", "dropping"},
         load' = [load EXCEPT ![l].phase = phase], stored' \in {stored, None},
         UNCHANGED <<current, view, latest, begun, history>>,
         phase = "dropping" => Holds(l) /\ load[l].body \notin Unusable
  PROVE  WInv'
  <1>1. TypeOK /\ Owned /\ Watched /\ Tagged /\ Fetched /\ Removing
        /\ ConfirmedWasCurrent /\ Awaited
    BY DEF WInv
  <1>2. UNCHANGED <<current, view, latest, begun, seen, wrote, storer>>
    BY DEF history
  <1>3. load'[l] = Turned(load[l], phase) /\ \A m \in Loads : m # l => load'[m] = load[m]
    BY <1>1 DEF TypeOK, Turned
  <1>4. /\ load'[l] \in Load /\ load'[l].phase = phase /\ load'[l].tab = load[l].tab
        /\ load'[l].cached = load[l].cached /\ load'[l].body = load[l].body
        /\ load'[l].etag = load[l].etag
    <2>1. load[l] \in Load /\ phase \in Phases
      BY <1>1, LoadsAreTyped DEF Phases
    <2>2. QED
      BY <1>3, <2>1, TurnedLoad
  <1>5. load' \in [Loads -> Load \cup {None}]
    <2>1. load' = [m \in Loads |-> load'[m]]
      BY <1>1 DEF TypeOK
    <2>2. \A m \in Loads : load'[m] \in Load \cup {None}
      BY <1>1, <1>3, <1>4 DEF TypeOK
    <2>3. QED
      BY <2>1, <2>2
  <1>6. TypeOK'
    BY <1>1, <1>2, <1>5 DEF TypeOK
  <1>7. \A m \in Loads : /\ load'[m] # None <=> load[m] # None
                         /\ load[m] # None => /\ load'[m].tab = load[m].tab
                                              /\ load'[m].cached = load[m].cached
    BY <1>3, <1>4, WebSentinels
  <1>8. Owned' /\ Watched' /\ ConfirmedWasCurrent'
    BY <1>1, <1>2, <1>7 DEF Owned, Watched, ConfirmedWasCurrent
  <1>9. Tagged'
    BY <1>1, <1>7, NoCopies DEF Tagged, OwnTag
  <1>10. Fetched'
    <2> SUFFICES ASSUME NEW m \in Loads, Holds(m)'
                 PROVE  /\ load'[m].body \in Versions /\ load'[m].etag \in {None, load'[m].body}
                        /\ load'[m].body \in seen'[load'[m].tab]
                        /\ wrote'[load'[m].tab] <= load'[m].body /\ load'[m].body <= current'
      BY DEF Fetched
    <2>1. Holds(m)
      BY <1>3, <1>4 DEF Holds, At
    <2>2. QED
      BY <1>1, <1>2, <1>3, <1>4, <2>1 DEF Fetched
  <1>11. Removing'
    <2> SUFFICES ASSUME NEW m \in Loads
                 PROVE  /\ At(m, "dropping")' => load'[m].body \notin Unusable
                        /\ At(m, "clearing")' /\ Readable(stored') => storer' # load'[m].tab
      BY DEF Removing
    <2>1. CASE m = l
      BY <1>4, <2>1 DEF At
    <2>2. CASE m # l
      <3>1. Readable(stored') => Readable(stored)
        BY NoneIsUnreadable
      <3>2. QED
        BY <1>1, <1>2, <1>3, <2>2, <3>1 DEF Removing, At
    <2>3. QED
      BY <2>1, <2>2
  <1>12. Awaited'
    <2>1. \A t \in Tabs : latest[t] # None => latest[t] \in Loads
      BY <1>1 DEF TypeOK
    <2>2. QED
      BY <1>1, <1>2, <1>7, <2>1 DEF Awaited, Waiting
  <1>13. QED
    BY <1>6, <1>8, <1>9, <1>10, <1>11, <1>12 DEF WInv

-----------------------------------------------------------------------------
(* The other steps                                                         *)

LEMMA PublishKeeps ==
  ASSUME WInv, Publish
  PROVE  WInv'
  <1>1. TypeOK /\ Owned /\ Watched /\ Tagged /\ Fetched /\ Removing
        /\ ConfirmedWasCurrent /\ Awaited
    BY DEF WInv
  <1>2. /\ current' = current + 1 /\ current < MaxVersion
        /\ UNCHANGED <<stored, view, latest, load, begun, wrote, storer>>
        /\ seen' = [t \in Tabs |-> seen[t] \cup {current'}]
    BY DEF Publish
  <1>3. current \in Int /\ current' \in 0 .. MaxVersion /\ current <= current'
    BY <1>1, <1>2, NoNumbers DEF TypeOK
  <1>4. \A t \in Tabs : seen[t] \subseteq seen'[t] /\ current' \in seen'[t]
    BY <1>2
  <1>5. TypeOK'
    BY <1>1, <1>2, <1>3 DEF TypeOK
  <1>6. Owned' /\ Tagged' /\ Removing'
    BY <1>1, <1>2 DEF Owned, Tagged, OwnTag, Removing, At, Readable
  <1>7. Watched'
    <2>1. \A t \in Tabs : wrote[t] \in Int
      BY <1>1 DEF TypeOK
    <2>2. QED
      BY <1>1, <1>2, <1>3, <1>4, <2>1 DEF Watched
  <1>8. Fetched'
    <2> SUFFICES ASSUME NEW l \in Loads, Holds(l)'
                 PROVE  /\ load'[l].body \in Versions /\ load'[l].etag \in {None, load'[l].body}
                        /\ load'[l].body \in seen'[load'[l].tab]
                        /\ wrote'[load'[l].tab] <= load'[l].body /\ load'[l].body <= current'
      BY DEF Fetched
    <2>1. Holds(l) /\ load[l].tab \in Tabs /\ load[l].body \in Int
      BY <1>1, <1>2, LoadsAreTyped DEF Holds, At, Fetched, Versions
    <2>2. QED
      BY <1>1, <1>2, <1>3, <1>4, <2>1 DEF Fetched
  <1>9. ConfirmedWasCurrent' /\ Awaited'
    BY <1>1, <1>2, <1>4 DEF ConfirmedWasCurrent, Awaited, Waiting
  <1>10. QED
    BY <1>5, <1>6, <1>7, <1>8, <1>9 DEF WInv

LEMMA SpoilKeeps ==
  ASSUME WInv, Spoil
  PROVE  WInv'
  <1>1. TypeOK /\ Owned /\ Watched /\ Tagged /\ Fetched /\ Removing
        /\ ConfirmedWasCurrent /\ Awaited
    BY DEF WInv
  <1>2. /\ stored' = Garbage
        /\ UNCHANGED <<current, view, latest, load, begun, seen, wrote, storer>>
    BY DEF Spoil, history
  <1>3. TypeOK' /\ Owned' /\ Watched'
    BY <1>1, <1>2 DEF TypeOK, Owned, Watched
  <1>4. Tagged'
    BY <1>1, <1>2, NoCopies DEF Tagged, OwnTag
  <1>5. Fetched' /\ Removing' /\ ConfirmedWasCurrent' /\ Awaited'
    BY <1>1, <1>2, NoCopies DEF Fetched, Removing, Readable, Holds, At, ConfirmedWasCurrent, Awaited, Waiting
  <1>6. QED
    BY <1>3, <1>4, <1>5 DEF WInv

\* The load that begins is the only one of its tab, and it has been served
\* nothing.
LEMMA BeginKeeps ==
  ASSUME WInv, NEW t \in Tabs, NEW found \in BOOLEAN, Begin(t, found)
  PROVE  WInv'
  <1> DEFINE copy == IF found /\ Readable(stored) THEN stored ELSE None
             bad == found /\ stored # None /\ copy = None
             l == begun + 1
             asked == [phase |-> IF bad THEN "clearing" ELSE "asking", tab |-> t,
                       usable |-> found, cached |-> copy, body |-> None, etag |-> None]
             shown == IF copy # None THEN [Ready(copy, "cache") EXCEPT !.revalidating = TRUE]
                      ELSE IF latest[t] = None THEN Loading ELSE Retried(t)
  <1>1. TypeOK /\ Owned /\ Watched /\ Tagged /\ Fetched /\ Removing
        /\ ConfirmedWasCurrent /\ Awaited
    BY DEF WInv
  <1>2. /\ begun < MaxLoads
        /\ begun' = l /\ latest' = [latest EXCEPT ![t] = l]
        /\ load' = [Supersede(t) EXCEPT ![l] = asked]
        /\ view' = [view EXCEPT ![t] = shown]
        /\ seen' = [seen EXCEPT ![t] = {current}]
        /\ UNCHANGED <<current, stored, wrote, storer>>
    BY DEF Begin
  <1>3. l \in Loads /\ l \in 0 .. MaxLoads /\ begun < l /\ begun \in Nat
    BY <1>1, <1>2, NoNumbers DEF TypeOK, Loads
  <1>4. copy \in Copy \cup {None} /\ (copy # None => copy = stored /\ OwnTag(copy))
    BY <1>1 DEF Readable, Tagged
  <1>5. asked \in Load
    BY <1>4 DEF Load, Phases
  <1>6. shown \in View /\ (shown.confirmed => shown.revalidating)
    <2>1. CASE copy # None
      <3>1. copy.snapshot \in Versions
        BY <1>4, <2>1 DEF Copy
      <3>2. QED
        BY <2>1, <3>1, ReadyIsAView DEF Kinds
    <2>2. CASE copy = None
      BY <1>1, <2>2, LoadingIsAView, RetriedIsAView
    <2>3. QED
      BY <2>1, <2>2
  <1>7. bad => ~Readable(stored)
    BY <1>4, NoCopies DEF Readable
  <1> HIDE DEF asked, shown, copy, bad
  <1>8. /\ load'[l] = asked
        /\ \A m \in Loads : m # l /\ load'[m] # None =>
             load'[m] = load[m] /\ m # latest[t]
        /\ load' \in [Loads -> Load \cup {None}]
    <2>1. Supersede(t) \in [Loads -> Load \cup {None}]
      BY <1>1 DEF Supersede, TypeOK
    <2>2. \A m \in Loads : Supersede(t)[m] # None =>
            Supersede(t)[m] = load[m] /\ m # latest[t]
      BY DEF Supersede
    <2> HIDE DEF l
    <2>3. QED
      BY <1>2, <1>3, <1>5, <2>1, <2>2
  <1>9. /\ load'[l].tab = t /\ load'[l].cached = copy
        /\ load'[l].phase = IF bad THEN "clearing" ELSE "asking"
    BY <1>8 DEF asked
  <1>10. \A m \in Loads : m # l /\ load'[m] # None =>
           load'[m] = load[m] /\ load[m].tab \in Tabs /\ load[m].tab # t
    BY <1>1, <1>8, LoadsAreTyped DEF Owned
  <1>11. TypeOK'
    <2> HIDE DEF l
    <2>1. seen' \in [Tabs -> SUBSET (0 .. MaxVersion)]
      BY <1>1, <1>2 DEF TypeOK
    <2>2. view' \in [Tabs -> View] /\ latest' \in [Tabs -> Loads \cup {None}]
      BY <1>1, <1>2, <1>3, <1>6 DEF TypeOK
    <2>3. QED
      BY <1>1, <1>2, <1>3, <1>8, <2>1, <2>2 DEF TypeOK
  <1>12. Owned'
    <2>1. ASSUME NEW m \in Loads, load'[m] # None
          PROVE  m <= begun' /\ latest'[load'[m].tab] = m
      <3>1. CASE m = l
        BY <1>1, <1>2, <1>3, <1>9, <3>1 DEF TypeOK
      <3>2. CASE m # l
        <4>1. m <= begun /\ latest[load[m].tab] = m /\ load'[m] = load[m]
          BY <1>1, <1>10, <2>1, <3>2 DEF Owned
        <4>2. latest'[load[m].tab] = m
          BY <1>1, <1>2, <1>10, <2>1, <3>2, <4>1 DEF TypeOK
        <4>3. QED
          BY <1>2, <1>3, <4>1, <4>2 DEF Loads
      <3>3. QED
        BY <3>1, <3>2
    <2>2. \A u \in Tabs : latest[u] # None => latest[u] # l
      BY <1>1, <1>3 DEF Watched, TypeOK, Loads
    <2> HIDE DEF l
    <2>3. \A u, v \in Tabs : latest'[u] # None /\ latest'[u] = latest'[v] => u = v
      BY <1>1, <1>2, <1>3, <2>2, NoNumbers DEF Owned, TypeOK, Loads
    <2>4. QED
      BY <2>1, <2>3 DEF Owned
  <1>13. Watched'
    <2> SUFFICES ASSUME NEW u \in Tabs
                 PROVE  /\ latest'[u] # None => latest'[u] <= begun' /\ current' \in seen'[u]
                        /\ wrote'[u] <= current'
      BY DEF Watched
    <2>1. CASE u = t
      BY <1>1, <1>2, <1>3, <2>1 DEF Watched, TypeOK
    <2>2. CASE u # t
      <3>1. latest'[u] = latest[u] /\ seen'[u] = seen[u]
        BY <1>1, <1>2, <2>2 DEF TypeOK
      <3>2. latest[u] # None => latest[u] \in Int
        BY <1>1 DEF TypeOK, Loads
      <3>3. QED
        BY <1>1, <1>2, <1>3, <3>1, <3>2 DEF Watched
    <2>3. QED
      BY <2>1, <2>2
  <1>14. Tagged'
    <2>1. stored' \in Copy => OwnTag(stored')
      BY <1>1, <1>2 DEF Tagged
    <2>2. ASSUME NEW m \in Loads, load'[m] # None, load'[m].cached # None
          PROVE  OwnTag(load'[m].cached)
      BY <1>1, <1>4, <1>9, <1>10, <2>2 DEF Tagged
    <2>3. QED
      BY <2>1, <2>2 DEF Tagged, OwnTag
  <1>15. Fetched'
    <2> SUFFICES ASSUME NEW m \in Loads, Holds(m)'
                 PROVE  /\ load'[m].body \in Versions /\ load'[m].etag \in {None, load'[m].body}
                        /\ load'[m].body \in seen'[load'[m].tab]
                        /\ wrote'[load'[m].tab] <= load'[m].body /\ load'[m].body <= current'
      BY DEF Fetched
    <2>1. m # l /\ load'[m] # None
      BY <1>9 DEF Holds, At
    <2>2. load'[m] = load[m] /\ Holds(m)
      BY <1>10, <2>1 DEF Holds, At
    <2>3. seen'[load[m].tab] = seen[load[m].tab]
      BY <1>1, <1>2, <1>10, <2>1 DEF TypeOK
    <2>4. QED
      BY <1>1, <1>2, <2>2, <2>3 DEF Fetched
  <1>16. ConfirmedWasCurrent'
    <2> SUFFICES ASSUME NEW u \in Tabs, view'[u].confirmed, ~view'[u].revalidating
                 PROVE  view'[u].snapshot \in seen'[u]
      BY DEF ConfirmedWasCurrent
    <2>1. u # t
      BY <1>1, <1>2, <1>6 DEF TypeOK
    <2>2. view'[u] = view[u] /\ seen'[u] = seen[u]
      BY <1>1, <1>2, <2>1 DEF TypeOK
    <2>3. QED
      BY <1>1, <2>2 DEF ConfirmedWasCurrent
  <1>17. Awaited'
    <2> HIDE DEF l
    <2> SUFFICES ASSUME NEW u \in Tabs, Waiting(u)'
                 PROVE  load'[latest'[u]] # None /\ load'[latest'[u]].tab = u
      BY DEF Awaited
    <2>1. CASE u = t
      BY <1>1, <1>2, <1>5, <1>8, <1>9, <2>1, WebSentinels DEF TypeOK
    <2>2. CASE u # t
      <3>1. latest'[u] = latest[u] /\ view'[u] = view[u] /\ latest[u] \in Loads
        BY <1>1, <1>2, <2>2 DEF Waiting, TypeOK
      <3>2. load[latest[u]] # None /\ load[latest[u]].tab = u
        BY <1>1, <3>1 DEF Awaited, Waiting
      <3>3. latest[u] <= begun /\ latest[u] # latest[t]
        BY <1>1, <2>2, <3>1, <3>2, NoNumbers DEF Owned, Loads
      <3>4. latest[u] # l
        BY <1>3, <3>1, <3>3 DEF l, Loads
      <3>5. load'[latest[u]] = load[latest[u]]
        BY <1>1, <1>2, <1>3, <3>1, <3>3, <3>4 DEF Supersede
      <3>6. QED
        BY <3>1, <3>2, <3>5
    <2>3. QED
      BY <2>1, <2>2
  <1>18. Removing'
    <2> SUFFICES ASSUME NEW m \in Loads, load'[m] # None
                 PROVE  /\ At(m, "dropping")' => load'[m].body \notin Unusable
                        /\ At(m, "clearing")' /\ Readable(stored') => storer' # load'[m].tab
      BY DEF Removing, At
    <2>1. CASE m = l
      BY <1>2, <1>7, <1>9, <2>1 DEF At, Readable
    <2>2. CASE m # l
      <3>1. load'[m] = load[m]
        BY <1>10, <2>2
      <3>2. QED
        BY <1>1, <1>2, <3>1 DEF Removing, At, Readable
    <2>3. QED
      BY <2>1, <2>2
  <1>19. QED
    BY <1>11, <1>12, <1>13, <1>14, <1>15, <1>16, <1>17, <1>18 DEF WInv

LEMMA AnswerKeeps ==
  ASSUME WInv, NEW l \in Loads, Answer(l)
  PROVE  WInv'
  <1>1. CASE NothingToConfirm(l) \/ Unreachable(l)
    BY <1>1, FailKeeps DEF NothingToConfirm, Unreachable, At, Kinds
  <1>2. CASE PointerDisagrees(l) \/ Refused(l)
    BY <1>2, FailKeeps DEF PointerDisagrees, Refused, At, Kinds
  <1>3. CASE Clear(l)
    BY <1>3, TurnKeeps DEF Clear, At, Removed
  <1>4. CASE StoreRefused(l)
    BY <1>4, TurnKeeps DEF StoreRefused, Holds, At
  <1>5. QED
    BY <1>1, <1>2, <1>3, <1>4, NotModifiedKeeps, ServedKeeps, AcceptKeeps, DropKeeps DEF Answer

LEMMA InitIsKept == Init => WInv
  <1> SUFFICES ASSUME Init
               PROVE  WInv
    OBVIOUS
  <1>1. TypeOK
    BY NoNumbers, LoadingIsAView DEF Init, TypeOK
  <1>2. Owned /\ Fetched /\ Tagged /\ Removing
    BY NoCopies DEF Init, Owned, Fetched, Tagged, Removing, OwnTag, Holds, At
  <1>3. Watched /\ ConfirmedWasCurrent /\ Awaited
    BY LoadingIsAView DEF Init, Watched, ConfirmedWasCurrent, Awaited, Waiting
  <1>4. QED
    BY <1>1, <1>2, <1>3 DEF WInv

LEMMA StepKeeps == WInv /\ [Next]_vars => WInv'
  <1> SUFFICES ASSUME WInv, [Next]_vars
               PROVE  WInv'
    OBVIOUS
  <1>1. CASE Publish
    BY <1>1, PublishKeeps
  <1>2. CASE Spoil
    BY <1>2, SpoilKeeps
  <1>3. CASE \E t \in Tabs, found \in BOOLEAN : Begin(t, found)
    BY <1>3, BeginKeeps
  <1>4. CASE \E l \in Loads : Answer(l)
    BY <1>4, AnswerKeeps
  <1>5. CASE UNCHANGED vars
    BY <1>5 DEF vars, history, WInv, TypeOK, Owned, Watched, Tagged, OwnTag, Fetched,
                Removing, Readable, Holds, At, ConfirmedWasCurrent, Awaited, Waiting
  <1>6. QED
    BY <1>1, <1>2, <1>3, <1>4, <1>5 DEF Next

LEMMA Invariance == Spec => []WInv
  BY InitIsKept, StepKeeps, PTL DEF Spec

-----------------------------------------------------------------------------
(* The properties                                                          *)

\* The storage, the pages and the loads hold what they are meant to: a page is
\* ready exactly when it has a snapshot to show.  (useSnapshot.ts, cache.ts)
THEOREM WebTypes == Spec => []TypeOK
  <1>1. WInv => TypeOK
    BY DEF WInv
  <1>2. QED
    BY <1>1, Invariance, PTL

\* A page calls its snapshot current only if it was being served while the page's
\* last load ran, whatever the storage held, other tabs stored, or the read API
\* answered to a question that was not asked.  (useSnapshot: confirmedCurrent)
THEOREM ConfirmedIsTrue == Spec => []ConfirmedWasCurrent
  <1>1. WInv => ConfirmedWasCurrent
    BY DEF WInv
  <1>2. QED
    BY <1>1, Invariance, PTL

\* A tab never puts an older snapshot over one it stored itself: only its last
\* load can store, and what that one was served is no older.
\* (useSnapshot: cleanup; api.ts: assertPointerMatches)
THEOREM TabsAdvance == Spec => OwnWritesAdvance
  <1>1. ASSUME WInv, [Next]_vars
        PROVE  \A t \in Tabs : wrote'[t] >= wrote[t]
    <2>1. TypeOK /\ Fetched
      BY <1>1 DEF WInv
    <2>2. \A t \in Tabs : wrote[t] \in Int
      BY <2>1 DEF TypeOK
    <2>3. CASE \E l \in Loads : Accept(l)
      <3>1. PICK l \in Loads : Accept(l)
        BY <2>3
      <3>2. /\ load[l] # None /\ load[l].tab \in Tabs
            /\ load[l].body \in Int /\ wrote[load[l].tab] <= load[l].body
        BY <2>1, <3>1, LoadsAreTyped DEF Accept, Holds, At, Fetched, Versions
      <3>3. \/ wrote' = wrote
            \/ wrote' = [wrote EXCEPT ![load[l].tab] = load[l].body]
        BY <3>1 DEF Accept, Keep, Received
      <3>4. QED
        BY <2>1, <2>2, <3>2, <3>3 DEF TypeOK
    <2>4. CASE ~\E l \in Loads : Accept(l)
      <3>1. wrote' = wrote
        BY <1>1, <2>4 DEF Next, Publish, Spoil, Begin, Answer, NotModified, NothingToConfirm,
             Served, Unreachable, PointerDisagrees, Refused, Clear, StoreRefused, Drop, Fail,
             vars, history
      <3>2. QED
        BY <2>2, <3>1
    <2>5. QED
      BY <2>3, <2>4
  <1>2. QED
    BY <1>1, Invariance, PTL DEF Spec, OwnWritesAdvance

\* A copy that can be shown offline outlives failed requests, answers that cannot
\* be resolved and the tab that stored it.  Apart from damage from outside, it goes
\* with a load that has resolved another and could not store that, or with one
\* that removes what it read before a different tab stored the copy.
\* (readCachedView, writeCache, clearCache)
THEOREM CopiesStay == Spec => CopiesAreKept
  <1>1. ASSUME WInv, [Next]_vars, Readable(stored), ~Readable(stored')
        PROVE  \/ stored' = Garbage
               \/ \E l \in Loads : /\ At(l, "dropping") /\ load'[l] = None
                                   /\ load[l].body \notin Unusable
               \/ \E l \in Loads : /\ At(l, "clearing") /\ At(l, "asking")'
                                   /\ load[l].tab # storer
    <2>1. stored' # stored /\ TypeOK /\ Removing
      BY <1>1 DEF WInv
    <2>2. ASSUME NEW l \in Loads, Clear(l)
          PROVE  At(l, "clearing") /\ At(l, "asking")' /\ load[l].tab # storer
      <3>1. At(l, "clearing") /\ load[l].tab # storer
        BY <1>1, <2>1, <2>2 DEF Clear, Removing
      <3>2. load'[l] = Turned(load[l], "asking") /\ load[l] \in Load
        BY <2>1, <2>2, <3>1, LoadsAreTyped DEF Clear, At, TypeOK, Turned
      <3>3. load'[l] \in Load /\ load'[l].phase = "asking"
        BY <3>2, TurnedLoad DEF Phases
      <3>4. QED
        BY <3>1, <3>3, WebSentinels DEF At
    <2>3. ASSUME NEW l \in Loads, Drop(l)
          PROVE  At(l, "dropping") /\ load'[l] = None /\ load[l].body \notin Unusable
      BY <2>1, <2>3 DEF Drop, Confirm, Over, Removing, TypeOK
    <2>4. ASSUME NEW l \in Loads, Accept(l)
          PROVE  FALSE
      <3>1. stored' = Received(l) /\ load[l].body \notin Unusable /\ Holds(l)
        BY <2>1, <2>4 DEF Accept, Keep, Holds
      <3>2. Received(l) \in Copy
        BY <1>1, <3>1, ReceivedIsACopy
      <3>3. QED
        BY <1>1, <3>1, <3>2 DEF Readable, Received
    <2>5. CASE Spoil
      BY <2>5 DEF Spoil
    <2>6. QED
      BY <1>1, <2>1, <2>2, <2>3, <2>4, <2>5 DEF Next, Publish, Begin, Answer, NotModified,
           NothingToConfirm, Served, Unreachable, PointerDisagrees, Refused, StoreRefused, Fail,
           vars, history
  <1>2. QED
    BY <1>1, Invariance, PTL DEF Spec, CopiesAreKept

\* A page never waits for nothing: while it shows that it loads, or that it
\* refreshes, a load of its own is in flight, which will settle it.  A load that
\* was superseded or aborted leaves the wait to the one that replaced it.
\* (useSnapshot: cleanup, retry)
THEOREM WaitsHaveLoads == Spec => []Awaited
  <1>1. WInv => Awaited
    BY DEF WInv
  <1>2. QED
    BY <1>1, Invariance, PTL

===============================================================================
