--------------------------- MODULE SnapshotContract ---------------------------
(***************************************************************************)
(* The part of package internal/snapshot that every storage backend and    *)
(* every publisher decides with: what identifies a snapshot, what its      *)
(* pointer carries, and the two write rules of the contract, the one for   *)
(* chunks and the one for the pointer.  No state lives here.               *)
(*                                                                         *)
(* Instants are ticks of one clock.  A tick stands for the longest time an *)
(* invocation may live, or more: what the rules compare is only whether    *)
(* one instant is before, equal to or after another.                       *)
(***************************************************************************)
EXTENDS Naturals

CONSTANTS
  Groups,       \* the scan groups; one word list stands for a group's lists
  Answers,      \* what the subgraph may answer when one list is scanned
  Parts,        \* the chunk indexes of an encoded snapshot
  MaxTime,      \* the last instant the clock reaches (bound)
  Cadence,      \* how often each group's schedule runs, in ticks
  StaleFactor,  \* a snapshot is stale after StaleFactor slowest intervals
  None,         \* nothing: no pointer, no chunk, no marker, no list
  Broken        \* pointer documents that do not read and validate

ASSUME ContractAssumption ==
  /\ Groups # {} /\ Parts # {} /\ Answers # {}
  /\ MaxTime \in Nat
  /\ Cadence \in [Groups -> Nat \ {0}]
  /\ StaleFactor \in Nat \ {0}
  \* Groups is finite, in the form the slowest cadence needs.
  /\ \A S \in (SUBSET Groups) \ {{}} :
       \E g \in S : \A h \in S : Cadence[h] <= Cadence[g]

-----------------------------------------------------------------------------
(* Values                                                                  *)

Time == 0 .. MaxTime

\* A snapshot is named after the group that produced it and the second it
\* classified at.
SnapshotID == [group : Groups, at : Time]

\* What a snapshot says of one list: when that list was last asked about, and
\* what the subgraph answered then.
ListScan == [at : Time, answer : Answers]

\* A snapshot's payload.  A list that contributes no name is no source of it,
\* and a payload without a source is refused before anything is stored.
Body == {b \in [Groups -> ListScan \cup {None}] : \E g \in Groups : b[g] # None}

\* META/LATEST.  The body stands for both checksums and the summary derived
\* from it, the published instant for PublishedAt.
Pointer == [id : SnapshotID, body : Body, published : Time]

\* A stored chunk: the payload its bytes belong to, and the item's TTL.  The
\* TTL is an attribute of the item and no part of the chunk.
Chunk == [body : Body, expires : Nat \cup {None}]

\* A staging marker: when the publisher last claimed the ID, and its own TTL.
Marker == [at : Nat, until : Nat]

\* These sentinels are told apart from everything they stand beside.
ASSUME SentinelAssumption ==
  /\ None \notin SnapshotID \cup ListScan \cup Pointer \cup Chunk \cup Marker \cup Nat
  /\ None \notin Body
  /\ None \notin Broken
  /\ Broken \cap Pointer = {}

\* The lists a snapshot holds names of.
Sources(body) == {g \in Groups : body[g] # None}

-----------------------------------------------------------------------------
(* Staleness                                                               *)

\* The slowest cadence among the sources governs.
Slowest(body) ==
  CHOOSE g \in Sources(body) : \A h \in Sources(body) : Cadence[h] <= Cadence[g]

StaleAfter(body) == StaleFactor * Cadence[Slowest(body)]

-----------------------------------------------------------------------------
(* PlanChunkWrite: the rule for a write against an ID that may already     *)
(* hold chunks.  have is the function of stored chunks by index, with None *)
(* where nothing is stored.                                                *)

MissingParts(have) == {p \in Parts : have[p] = None}

PlanChunkWrite(have, body) ==
  IF \E p \in Parts : have[p] # None /\ have[p].body # body THEN "refuse"
  ELSE IF MissingParts(have) = {} THEN "skip"
  ELSE "resume"

\* Verify accepts a set only when it is whole and is the payload the pointer
\* was built from; the TTL of an item is not part of what it compares.
Verifies(have, body) == \A p \in Parts : have[p] # None /\ have[p].body = body

-----------------------------------------------------------------------------
(* PlanLatestWrite: the ordering rule.  A pointer that is absent or does   *)
(* not read says nothing about which scan is newer.                        *)

SamePointer(p, q) == p.id = q.id /\ p.body = q.body

\* Mutation: a scan of the same second replaces the one stored.
PlanLatestWriteTies(stored, next) ==
  IF stored = None \/ stored \in Broken THEN "write"
  ELSE IF SamePointer(stored, next) THEN "keep"
  ELSE IF next.id.at >= stored.id.at THEN "write"
  ELSE "conflict"

PlanLatestWrite(stored, next) ==
  IF stored = None \/ stored \in Broken THEN "write"
  ELSE IF next.id.at > stored.id.at THEN "write"
  ELSE IF SamePointer(stored, next) THEN "keep"
  ELSE "conflict"

=============================================================================
