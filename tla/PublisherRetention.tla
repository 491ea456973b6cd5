--------------------------- MODULE PublisherRetention ---------------------------
(***************************************************************************)
(* What becomes of chunk sets, for every set of groups, runs, chunks and   *)
(* limits: EverySetTracked, that a set nothing bounds is named, owed a     *)
(* TTL, listed in the registry or lost at a known step, and                *)
(* UnboundedStayRegistered, that the registry lets none go that it was the *)
(* last to know of.  Calls fail, runs are killed, replies are lost and the *)
(* pointer is damaged; only an event that is delivered twice within one    *)
(* second, which gives two runs one ID, is left out: with it TLC finds a   *)
(* set that is neither, when a run bounds what another still writes.       *)
(*                                                                         *)
(* The argument is that nobody writes a set that somebody bounds.  A run   *)
(* bounds what it replaced, whose own run has read its chunks back long    *)
(* since (NotYetNamed), or what an old marker lists, whose own run is over *)
(* (Timed, Backlogged); so the keys it listed are still all there is to    *)
(* bound (Settled, Reclaimed).                                             *)
(***************************************************************************)
EXTENDS PublisherSafety

USE DEF vars, table, job, publish, sweep, history, At, Goto, Repeat, Running

-----------------------------------------------------------------------------
(* The inductive invariant                                                 *)

Unrepeated == "duplicate" \notin Faults

Before == {"scan", "readPointer", "readChunks", "stage", "planChunks", "writeChunks",
           "verify"}
Writing == {"planChunks", "writeChunks"}
Moving == {"readLatest", "quarantine", "swap"}
Settling == {"unstage", "expireCheck", "expire", "restage"}
Sweeping == {"sweep", "sweepExpire", "sweepUnstage"}

\* An ID is minted once, at the instant it says, and by then nothing is stored.
Minted ==
  /\ \A r \in Runs : id[r] # None => id[r] \in used
  /\ \A q, r \in Runs : id[r] # None /\ id[q] = id[r] => q = r
  /\ Readable => pointer.id \in used
  /\ \A r \in Runs : replaced[r] # None => replaced[r].id \in used
  /\ \A i \in used : i.at <= now
  /\ \A i \in SnapshotID \ used : staged[i] = None /\ \A p \in Parts : chunks[i][p] = None

\* No run is older than the function timeout, and no marker than its ID.
Timed ==
  /\ \A r \in Runs : id[r] # None => now <= id[r].at + RunLimit
  /\ \A r \in Runs : stamp[r] <= now
  /\ \A i \in SnapshotID : staged[i] # None => i.at <= staged[i].at

\* A marker a pass will act on is one to keep the chunks of, or an old one.
Backlogged ==
  \A r \in Runs :
    /\ pc[r] \notin Sweeping => backlog[r] = {}
    /\ \A e \in backlog[r] :
         /\ e.id \in used /\ e.id.at <= e.at
         /\ Retained(r, e.id) \/ stamp[r] >= e.at + AbandonedAfter

\* A run that has not read its chunks back is not named, by the pointer or by a
\* run that replaced it.
NotYetNamed ==
  \A r \in Runs : pc[r] \in Before =>
    /\ ~Live(id[r])
    /\ \A q \in Runs : replaced[q] # None => replaced[q].id # id[r]

\* The chunks of an ID that nothing bounds.
Unbound(i) == {p \in Parts : chunks[i][p] # None /\ chunks[i][p].expires = None}

\* A run bounds every chunk of what it replaced before it takes it for settled.
Settled ==
  \A r \in Runs : replaced[r] # None =>
    /\ pc[r] \in Settling \cup {"survey"} \cup Reclaiming
    /\ At(r, "expire") => Unbound(replaced[r].id) \subseteq parts[r]
    /\ pc[r] \notin Settling => Unbound(replaced[r].id) = {}

\* A pass bounds every chunk of an abandoned set, whose run is over, before it
\* removes its marker.
Reclaimed ==
  \A r \in Runs : pc[r] \in {"sweepExpire", "sweepUnstage"} =>
    /\ entry[r].id \in used /\ entry[r].id.at + RunLimit < stamp[r]
    /\ At(r, "sweepExpire") => Unbound(entry[r].id) \subseteq parts[r]
    /\ At(r, "sweepUnstage") => Unbound(entry[r].id) = {}

Dropped(i) == \E c \in Causes : [cause |-> c, id |-> i] \in lost

\* A run writes chunks only under a marker.
Claimed ==
  \A r \in Runs : pc[r] \in Writing => staged[id[r]] # None \/ Dropped(id[r])

RInv ==
  /\ TypeOK /\ Minted /\ Timed /\ Backlogged /\ NotYetNamed /\ Settled /\ Reclaimed
  /\ Claimed /\ EverySetIsTracked

-----------------------------------------------------------------------------
(* Which steps change what                                                 *)

\* A run keeps its ID until it ends, and reaches the pointer by the read-back.
LEMMA RunMoves ==
  ASSUME TypeOK, [Next]_vars, NEW q \in Runs
  PROVE  \/ \E g \in Groups : Start(q, g)
         \/ id'[q] = None /\ pc'[q] = "idle"
         \/ /\ id'[q] = id[q] /\ id[q] # None
            /\ pc'[q] \in Before => pc[q] \in Before
            /\ pc'[q] \in Moving =>
                 /\ pc[q] \in Moving \/ (At(q, "verify") /\ Verifies(chunks[id[q]], body[q]))
                 /\ body'[q] = body[q]
         \/ id'[q] = id[q] /\ id[q] = None /\ pc'[q] = pc[q]
<1> DEFINE Kept == \/ id'[q] = None /\ pc'[q] = "idle"
                   \/ /\ id'[q] = id[q] /\ id[q] # None
                      /\ pc'[q] \in Before => pc[q] \in Before
                      /\ pc'[q] \in Moving =>
                           /\ \/ pc[q] \in Moving
                              \/ At(q, "verify") /\ Verifies(chunks[id[q]], body[q])
                           /\ body'[q] = body[q]
                   \/ id'[q] = id[q] /\ id[q] = None /\ pc'[q] = pc[q]
<1> USE DEF TypeOK, RunsOK, PhaseOK, Before, Moving
<1>1. ASSUME NEW r \in Runs, NEW g \in Groups, Start(r, g) PROVE Kept \/ Start(q, g)
  BY <1>1 DEF Start
<1>2. ASSUME NEW r \in Runs, Gather(r) PROVE Kept
  BY <1>2 DEF Gather, Scan, ScanFails, Abort, Forget, ReadPointer, ReadChunks, ReadFails
<1>3. ASSUME NEW r \in Runs, WriteChunkSet(r) PROVE Kept
  BY <1>3 DEF WriteChunkSet, Stage, StageFails, PlanChunks, WriteChunks, VerifyChunks,
       PublishFails, GotoSurvey, Forget
<1>4. ASSUME NEW r \in Runs, MovePointer(r) PROVE Kept
  BY <1>4 DEF MovePointer, ReadLatest, Quarantine, Swap, SwapUnanswered, SwapEchoed,
       SwapRefused, PublishCallFails, PublishFails, GotoSurvey
<1>5. ASSUME NEW r \in Runs, Settle(r) PROVE Kept
  <2>1. CASE Unstage(r) BY <2>1 DEF Unstage, GotoSurvey
  <2>2. CASE ExpireCheck(r) BY <2>2 DEF ExpireCheck, GotoSurvey
  <2>3. CASE Expire(r) \/ Restage(r) BY <2>3 DEF Expire, Restage, GotoSurvey
  <2>4. CASE ExpireFails(r) BY <2>4 DEF ExpireFails
  <2> QED BY <1>5, <2>1, <2>2, <2>3, <2>4 DEF Settle
<1>6. ASSUME NEW r \in Runs, Reclaim(r) PROVE Kept
  <2>1. CASE Survey(r) \/ ListMarkers(r) BY <2>1 DEF Survey, ListMarkers
  <2>2. CASE SurveyFails(r) \/ SweepDone(r) BY <2>2 DEF SurveyFails, SweepDone, Finish, Forget
  <2>3. CASE SweepMarker(r) BY <2>3 DEF SweepMarker, TakeEntry
  <2>4. CASE SweepCheck(r) BY <2>4 DEF SweepCheck, TakeEntry
  <2>5. CASE SweepExpire(r) BY <2>5 DEF SweepExpire
  <2>6. CASE SweepExpireFails(r) \/ SweepUnstage(r) BY <2>6 DEF SweepExpireFails, SweepUnstage
  <2> QED BY <1>6, <2>1, <2>2, <2>3, <2>4, <2>5, <2>6 DEF Reclaim
<1>7. ASSUME NEW r \in Runs, Kill(r) PROVE Kept BY <1>7 DEF Kill, Forget
<1>8. CASE Environment
  BY <1>8 DEF Environment, Tick, Corrupt, DeleteMarker, DeleteChunk
<1>9. CASE UNCHANGED vars BY <1>9
<1> QED BY <1>1, <1>2, <1>3, <1>4, <1>5, <1>6, <1>7, <1>8, <1>9 DEF Next, Step

\* What a run still owes a TTL is what its own write replaced.
LEMMA ReplacedMoves ==
  ASSUME TypeOK, [Next]_vars, NEW q \in Runs
  PROVE  replaced'[q] \in {replaced[q], None} \/ Swap(q)
<1> DEFINE Kept == replaced'[q] \in {replaced[q], None}
<1> USE DEF TypeOK, RunsOK
<1>1. ASSUME NEW r \in Runs, NEW g \in Groups, Start(r, g) PROVE Kept
  BY <1>1 DEF Start
<1>2. ASSUME NEW r \in Runs, Gather(r) PROVE Kept
  BY <1>2 DEF Gather, Scan, ScanFails, Abort, Forget, ReadPointer, ReadChunks, ReadFails
<1>3. ASSUME NEW r \in Runs, WriteChunkSet(r) PROVE Kept
  BY <1>3 DEF WriteChunkSet, Stage, StageFails, PlanChunks, WriteChunks, VerifyChunks,
       PublishFails, GotoSurvey, Forget
<1>4. ASSUME NEW r \in Runs, MovePointer(r) PROVE Kept \/ Swap(q)
  BY <1>4 DEF MovePointer, ReadLatest, Quarantine, Swap, SwapUnanswered, SwapEchoed,
       SwapRefused, PublishCallFails, PublishFails, GotoSurvey
<1>5. ASSUME NEW r \in Runs, Settle(r) PROVE Kept
  BY <1>5 DEF Settle, Unstage, ExpireCheck, Expire, ExpireFails, Restage, GotoSurvey
<1>6. ASSUME NEW r \in Runs, Reclaim(r) PROVE Kept
  BY <1>6 DEF Reclaim, Survey, ListMarkers, SurveyFails, Finish, Forget, SweepMarker,
       SweepCheck, SweepDone, TakeEntry, SweepExpire, SweepExpireFails, SweepUnstage
<1>7. ASSUME NEW r \in Runs, Kill(r) PROVE Kept BY <1>7 DEF Kill, Forget
<1>8. CASE Environment
  BY <1>8 DEF Environment, Tick, Corrupt, DeleteMarker, DeleteChunk
<1>9. CASE UNCHANGED vars BY <1>9
<1> QED BY <1>1, <1>2, <1>3, <1>4, <1>5, <1>6, <1>7, <1>8, <1>9 DEF Next, Step

\* A run samples the clock.
LEMMA StampMoves ==
  ASSUME TypeOK, [Next]_vars, NEW q \in Runs
  PROVE  stamp'[q] \in {stamp[q], now, 0}
<1> DEFINE Kept == stamp'[q] \in {stamp[q], now, 0}
<1> USE DEF TypeOK, RunsOK
<1>1. ASSUME NEW r \in Runs, NEW g \in Groups, Start(r, g) PROVE Kept
  BY <1>1 DEF Start
<1>2. ASSUME NEW r \in Runs, Gather(r) PROVE Kept
  BY <1>2 DEF Gather, Scan, ScanFails, Abort, Forget, ReadPointer, ReadChunks, ReadFails
<1>3. ASSUME NEW r \in Runs, WriteChunkSet(r) PROVE Kept
  BY <1>3 DEF WriteChunkSet, Stage, StageFails, PlanChunks, WriteChunks, VerifyChunks,
       PublishFails, GotoSurvey, Forget
<1>4. ASSUME NEW r \in Runs, MovePointer(r) PROVE Kept
  BY <1>4 DEF MovePointer, ReadLatest, Quarantine, Swap, SwapUnanswered, SwapEchoed,
       SwapRefused, PublishCallFails, PublishFails, GotoSurvey
<1>5. ASSUME NEW r \in Runs, Settle(r) PROVE Kept
  BY <1>5 DEF Settle, Unstage, ExpireCheck, Expire, ExpireFails, Restage, GotoSurvey
<1>6. ASSUME NEW r \in Runs, Reclaim(r) PROVE Kept
  BY <1>6 DEF Reclaim, Survey, ListMarkers, SurveyFails, Finish, Forget, SweepMarker,
       SweepCheck, SweepDone, TakeEntry, SweepExpire, SweepExpireFails, SweepUnstage
<1>7. ASSUME NEW r \in Runs, Kill(r) PROVE Kept BY <1>7 DEF Kill, Forget
<1>8. CASE Environment
  BY <1>8 DEF Environment, Tick, Corrupt, DeleteMarker, DeleteChunk
<1>9. CASE UNCHANGED vars BY <1>9
<1> QED BY <1>1, <1>2, <1>3, <1>4, <1>5, <1>6, <1>7, <1>8, <1>9 DEF Next, Step

\* A pass works through the markers it listed, by the pointer it read then.
LEMMA BacklogMoves ==
  ASSUME TypeOK, [Next]_vars, NEW q \in Runs
  PROVE  \/ ListMarkers(q) \/ backlog'[q] = {}
         \/ pc[q] \notin Sweeping /\ backlog'[q] = backlog[q] /\ pc'[q] \notin Sweeping
         \/ /\ pc[q] \in Sweeping /\ pc'[q] \in Sweeping
            /\ backlog'[q] \subseteq backlog[q] /\ seen'[q] = seen[q]
            /\ replaced'[q] = replaced[q] /\ stamp'[q] = stamp[q]
<1> DEFINE Kept == \/ backlog'[q] = {}
                   \/ pc[q] \notin Sweeping /\ backlog'[q] = backlog[q] /\ pc'[q] \notin Sweeping
                   \/ /\ pc[q] \in Sweeping /\ pc'[q] \in Sweeping
                      /\ backlog'[q] \subseteq backlog[q] /\ seen'[q] = seen[q]
                      /\ replaced'[q] = replaced[q] /\ stamp'[q] = stamp[q]
<1> USE DEF TypeOK, RunsOK, Sweeping
<1>1. ASSUME NEW r \in Runs, NEW g \in Groups, Start(r, g) PROVE Kept
  BY <1>1 DEF Start
<1>2. ASSUME NEW r \in Runs, Gather(r) PROVE Kept
  BY <1>2 DEF Gather, Scan, ScanFails, Abort, Forget, ReadPointer, ReadChunks, ReadFails
<1>3. ASSUME NEW r \in Runs, WriteChunkSet(r) PROVE Kept
  BY <1>3 DEF WriteChunkSet, Stage, StageFails, PlanChunks, WriteChunks, VerifyChunks,
       PublishFails, GotoSurvey, Forget
<1>4. ASSUME NEW r \in Runs, MovePointer(r) PROVE Kept
  BY <1>4 DEF MovePointer, ReadLatest, Quarantine, Swap, SwapUnanswered, SwapEchoed,
       SwapRefused, PublishCallFails, PublishFails, GotoSurvey
<1>5. ASSUME NEW r \in Runs, Settle(r) PROVE Kept
  <2>1. CASE Unstage(r) BY <2>1 DEF Unstage, GotoSurvey
  <2>2. CASE ExpireCheck(r) BY <2>2 DEF ExpireCheck, GotoSurvey
  <2>3. CASE Expire(r) BY <2>3 DEF Expire, GotoSurvey
  <2>4. CASE ExpireFails(r) BY <2>4 DEF ExpireFails, GotoSurvey
  <2>5. CASE Restage(r) BY <2>5 DEF Restage, GotoSurvey
  <2> QED BY <1>5, <2>1, <2>2, <2>3, <2>4, <2>5 DEF Settle
<1>6. ASSUME NEW r \in Runs, Reclaim(r) PROVE Kept \/ ListMarkers(q)
  BY <1>6 DEF Reclaim, Survey, ListMarkers, SurveyFails, Finish, Forget, SweepMarker,
       SweepCheck, SweepDone, TakeEntry, SweepExpire, SweepExpireFails, SweepUnstage
<1>7. ASSUME NEW r \in Runs, Kill(r) PROVE Kept BY <1>7 DEF Kill, Forget
<1>8. CASE Environment
  BY <1>8 DEF Environment, Tick, Corrupt, DeleteMarker, DeleteChunk
<1>9. CASE UNCHANGED vars BY <1>9
<1> QED BY <1>1, <1>2, <1>3, <1>4, <1>5, <1>6, <1>7, <1>8, <1>9 DEF Next, Step

\* A run writes its own set, and bounds the one it replaced or took from the
\* registry; what has a TTL may be deleted.
LEMMA ChunksMove ==
  ASSUME TypeOK, [Next]_vars, NEW i \in SnapshotID
  PROVE  \/ chunks'[i] = chunks[i]
         \/ \E r \in Runs : WriteChunks(r) /\ id[r] = i
         \/ \E p \in Parts : DeleteChunk(i, p)
         \/ \E r \in Runs, S \in SUBSET Parts :
              /\ At(r, "expire") /\ replaced[r].id = i
              /\ chunks' = Expiring(i, S, SupersededUntil(r))
         \/ \E r \in Runs, S \in SUBSET Parts :
              /\ At(r, "sweepExpire") /\ entry[r].id = i
              /\ chunks' = Expiring(i, S, AbandonedUntil(r))
<1> DEFINE Kept == chunks'[i] = chunks[i]
           Superseding(r) == \E S \in SUBSET Parts :
              /\ At(r, "expire") /\ replaced[r].id = i
              /\ chunks' = Expiring(i, S, SupersededUntil(r))
           Abandoning(r) == \E S \in SUBSET Parts :
              /\ At(r, "sweepExpire") /\ entry[r].id = i
              /\ chunks' = Expiring(i, S, AbandonedUntil(r))
<1> USE DEF TypeOK, TableOK
<1>1. ASSUME NEW r \in Runs, NEW g \in Groups, Start(r, g) PROVE Kept
  BY <1>1 DEF Start
<1>2. ASSUME NEW r \in Runs, Gather(r) PROVE Kept
  BY <1>2 DEF Gather, Scan, ScanFails, Abort, ReadPointer, ReadChunks, ReadFails
<1>3. ASSUME NEW r \in Runs, WriteChunkSet(r) PROVE Kept \/ (WriteChunks(r) /\ id[r] = i)
  <2>1. CASE WriteChunks(r) BY <2>1 DEF WriteChunks
  <2>2. CASE ~WriteChunks(r)
    BY <1>3, <2>2 DEF WriteChunkSet, Stage, StageFails, PlanChunks, VerifyChunks
  <2> QED BY <2>1, <2>2
<1>4. ASSUME NEW r \in Runs, MovePointer(r) PROVE Kept
  BY <1>4 DEF MovePointer, ReadLatest, Quarantine, Swap, SwapUnanswered, SwapEchoed,
       SwapRefused, PublishCallFails, Install
<1>5. ASSUME NEW r \in Runs, Settle(r) PROVE Kept \/ Superseding(r)
  <2>1. ASSUME NEW S \in SUBSET parts[r], At(r, "expire"),
               chunks' = Expiring(replaced[r].id, S, SupersededUntil(r))
        PROVE  Kept \/ Superseding(r)
    <3>1. S \in SUBSET Parts BY DEF RunsOK
    <3>2. CASE replaced[r].id = i BY <2>1, <3>1, <3>2
    <3>3. CASE replaced[r].id # i BY <2>1, <3>3 DEF Expiring
    <3> QED BY <3>2, <3>3
  <2>2. CASE Expire(r) BY <2>1, <2>2 DEF Expire
  <2>3. CASE ExpireFails(r) /\ At(r, "expire") BY <2>1, <2>3 DEF ExpireFails
  <2>4. CASE ExpireFails(r) /\ ~At(r, "expire") BY <2>4 DEF ExpireFails
  <2> QED BY <1>5, <2>2, <2>3, <2>4 DEF Settle, Unstage, ExpireCheck, Restage
<1>6. ASSUME NEW r \in Runs, Reclaim(r) PROVE Kept \/ Abandoning(r)
  <2>1. ASSUME NEW S \in SUBSET parts[r], At(r, "sweepExpire"),
               chunks' = Expiring(entry[r].id, S, AbandonedUntil(r))
        PROVE  Kept \/ Abandoning(r)
    <3>1. S \in SUBSET Parts BY DEF RunsOK
    <3>2. CASE entry[r].id = i BY <2>1, <3>1, <3>2
    <3>3. CASE entry[r].id # i BY <2>1, <3>3 DEF Expiring
    <3> QED BY <3>2, <3>3
  <2>2. CASE SweepExpire(r) BY <2>1, <2>2 DEF SweepExpire
  <2>3. CASE SweepExpireFails(r) BY <2>1, <2>3 DEF SweepExpireFails
  <2>4. CASE ~SweepExpire(r) /\ ~SweepExpireFails(r)
    BY <1>6, <2>4 DEF Reclaim, Survey, ListMarkers, SurveyFails, Finish, SweepMarker,
         SweepCheck, SweepDone, SweepUnstage
  <2> QED BY <2>2, <2>3, <2>4
<1>7. ASSUME NEW r \in Runs, Kill(r) PROVE Kept BY <1>7 DEF Kill
<1>8. CASE Environment
  <2>1. ASSUME NEW j \in SnapshotID, NEW p \in Parts, DeleteChunk(j, p)
        PROVE  Kept \/ DeleteChunk(i, p)
    BY <2>1 DEF DeleteChunk
  <2> QED BY <1>8, <2>1 DEF Environment, Tick, Corrupt, DeleteMarker
<1>9. CASE UNCHANGED vars BY <1>9
<1> HIDE DEF Kept
<1> QED BY <1>1, <1>2, <1>3, <1>4, <1>5, <1>6, <1>7, <1>8, <1>9 DEF Next, Step, Kept

\* The instants an expiry may set.
LEMMA UntilTypes ==
  ASSUME TypeOK, NEW r \in Runs
  PROVE  /\ At(r, "expire") => SupersededUntil(r) \in Nat
         /\ At(r, "sweepExpire") => AbandonedUntil(r) \in Nat
<1>1. stamp[r] \in Nat BY DEF TypeOK, RunsOK, Time
<1>2. ASSUME At(r, "expire") PROVE SupersededUntil(r) \in Nat
  <2>1. replaced[r] \in Pointer BY <1>2 DEF TypeOK, RunsOK, PhaseOK
  <2>2. StaleAfter(replaced[r].body) \in Nat BY <2>1, WindowType DEF Pointer
  <2> QED BY <1>1, <2>2 DEF SupersededUntil
<1>3. AbandonedUntil(r) \in Nat BY <1>1, RetentionAssumption DEF AbandonedUntil
<1> QED BY <1>2, <1>3

\* Without a run that writes it a set gains no chunk, and none that nothing bounds.
LEMMA OnlyItsRunStores ==
  ASSUME TypeOK, [Next]_vars, NEW i \in SnapshotID,
         \A r \in Runs : At(r, "writeChunks") => id[r] # i
  PROVE  /\ \A p \in Parts : chunks[i][p] = None => chunks'[i][p] = None
         /\ Unbound(i)' \subseteq Unbound(i)
<1> DEFINE Kept == /\ \A p \in Parts : chunks[i][p] = None => chunks'[i][p] = None
                   /\ \A p \in Parts : chunks'[i][p] # None /\ chunks'[i][p].expires = None
                        => chunks[i][p] # None /\ chunks[i][p].expires = None
<1>1. chunks \in [SnapshotID -> [Parts -> Chunk \cup {None}]] BY DEF TypeOK, TableOK
<1>2. ASSUME chunks'[i] = chunks[i] PROVE Kept BY <1>2
<1>3. ASSUME NEW p \in Parts, DeleteChunk(i, p) PROVE Kept
  BY <1>1, <1>3 DEF DeleteChunk
<1>4. ASSUME NEW S, NEW at \in Nat, chunks' = Expiring(i, S, at) PROVE Kept
  <2>1. chunks'[i] = [p \in Parts |-> IF p \in S /\ chunks[i][p] # None
                        THEN [body |-> chunks[i][p].body, expires |-> at]
                        ELSE chunks[i][p]]
    BY <1>1, <1>4 DEF Expiring
  <2>2. at # None BY SentinelAssumption
  <2> QED BY <2>1, <2>2
<1>5. ASSUME NEW r \in Runs, WriteChunks(r), id[r] = i PROVE FALSE
  BY <1>5 DEF WriteChunks
<1>6. Kept BY <1>2, <1>3, <1>4, <1>5, ChunksMove, UntilTypes
<1> QED BY <1>6 DEF Unbound

\* A marker is written by the run that mints the ID, or puts a replaced set back.
LEMMA StagedMoves ==
  ASSUME TypeOK, [Next]_vars, NEW i \in SnapshotID
  PROVE  \/ staged'[i] \in {staged[i], None}
         \/ /\ staged'[i] = Claim
            /\ \E r \in Runs : id[r] = i \/ (replaced[r] # None /\ replaced[r].id = i)
<1> DEFINE Kept == staged'[i] \in {staged[i], None}
           Staging(r) == /\ staged'[i] = Claim
                         /\ id[r] = i \/ (replaced[r] # None /\ replaced[r].id = i)
<1> USE DEF TypeOK, TableOK
<1>1. ASSUME NEW r \in Runs, NEW g \in Groups, Start(r, g) PROVE Kept
  BY <1>1 DEF Start
<1>2. ASSUME NEW r \in Runs, Gather(r) PROVE Kept
  BY <1>2 DEF Gather, Scan, ScanFails, Abort, ReadPointer, ReadChunks, ReadFails
<1>3. ASSUME NEW r \in Runs, WriteChunkSet(r) PROVE Kept \/ Staging(r)
  BY <1>3 DEF WriteChunkSet, Stage, StageFails, PlanChunks, WriteChunks, VerifyChunks
<1>4. ASSUME NEW r \in Runs, MovePointer(r) PROVE Kept
  BY <1>4 DEF MovePointer, ReadLatest, Quarantine, Swap, SwapUnanswered, SwapEchoed,
       SwapRefused, PublishCallFails, Install
<1>5. ASSUME NEW r \in Runs, Settle(r) PROVE Kept \/ Staging(r)
  BY <1>5 DEF Settle, Unstage, RemoveMarker, ExpireCheck, Expire, ExpireFails, Restage,
       PhaseOK
<1>6. ASSUME NEW r \in Runs, Reclaim(r) PROVE Kept
  <2>1. CASE SweepMarker(r) BY <2>1 DEF SweepMarker, RemoveMarker
  <2>2. CASE ~SweepMarker(r)
    BY <1>6, <2>2 DEF Reclaim, Survey, ListMarkers, SurveyFails, Finish,
         SweepCheck, SweepDone, SweepExpire, SweepExpireFails, SweepUnstage
  <2> QED BY <2>1, <2>2
<1>7. ASSUME NEW r \in Runs, Kill(r) PROVE Kept BY <1>7 DEF Kill
<1>8. CASE Environment
  BY <1>8 DEF Environment, Tick, Corrupt, DeleteMarker, DeleteChunk
<1>9. CASE UNCHANGED vars BY <1>9
<1> QED BY <1>1, <1>2, <1>3, <1>4, <1>5, <1>6, <1>7, <1>8, <1>9 DEF Next, Step

\* IDs are minted by starting runs, and the clock moves on its own.
LEMMA MintMoves ==
  ASSUME [Next]_vars
  PROVE  /\ used' = used \/ \E r \in Runs, g \in Groups : Start(r, g)
         /\ now' = now \/ Tick
<1> DEFINE Kept == used' = used /\ now' = now
<1>1. ASSUME NEW r \in Runs, NEW g \in Groups, Start(r, g) PROVE now' = now
  BY <1>1 DEF Start
<1>2. ASSUME NEW r \in Runs, Gather(r) PROVE Kept
  BY <1>2 DEF Gather, Scan, ScanFails, Abort, ReadPointer, ReadChunks, ReadFails
<1>3. ASSUME NEW r \in Runs, WriteChunkSet(r) PROVE Kept
  BY <1>3 DEF WriteChunkSet, Stage, StageFails, PlanChunks, PublishFails, WriteChunks,
       VerifyChunks
<1>4. ASSUME NEW r \in Runs, MovePointer(r) PROVE Kept
  BY <1>4 DEF MovePointer, ReadLatest, Quarantine, Swap, SwapUnanswered, SwapEchoed,
       SwapRefused, PublishCallFails, PublishFails, Install
<1>5. ASSUME NEW r \in Runs, Settle(r) PROVE Kept
  BY <1>5 DEF Settle, Unstage, ExpireCheck, Expire, ExpireFails, Restage
<1>6. ASSUME NEW r \in Runs, Reclaim(r) PROVE Kept
  BY <1>6 DEF Reclaim, Survey, ListMarkers, SurveyFails, Finish, SweepMarker,
       SweepCheck, SweepDone, SweepExpire, SweepExpireFails, SweepUnstage
<1>7. ASSUME NEW r \in Runs, Kill(r) PROVE Kept BY <1>7 DEF Kill
<1>8. CASE Environment
  BY <1>8 DEF Environment, Tick, Corrupt, DeleteMarker, DeleteChunk
<1>9. CASE UNCHANGED vars BY <1>9
<1> QED BY <1>1, <1>2, <1>3, <1>4, <1>5, <1>6, <1>7, <1>8, <1>9 DEF Next, Step

\* A run settles what its write replaced step by step.
LEMMA SettlingMoves ==
  ASSUME TypeOK, [Next]_vars, NEW q \in Runs, replaced'[q] # None
  PROVE  \/ Swap(q) \/ ExpireCheck(q) \/ Expire(q)
         \/ /\ replaced'[q] = replaced[q]
            /\ \/ pc'[q] = pc[q] /\ parts'[q] = parts[q]
               \/ pc[q] \in Settling /\ pc'[q] \in Settling /\ pc'[q] # "expire"
               \/ pc[q] \in {"survey"} \cup Reclaiming /\ pc'[q] \in Reclaiming
               \/ pc[q] \notin Settling \cup {"survey"} \cup Reclaiming
<1> DEFINE Kept == /\ replaced'[q] = replaced[q]
                   /\ \/ pc'[q] = pc[q] /\ parts'[q] = parts[q]
                      \/ pc[q] \in Settling /\ pc'[q] \in Settling /\ pc'[q] # "expire"
                      \/ pc[q] \in {"survey"} \cup Reclaiming /\ pc'[q] \in Reclaiming
                      \/ pc[q] \notin Settling \cup {"survey"} \cup Reclaiming
<1> USE DEF TypeOK, RunsOK, Settling, Reclaiming
<1>1. ASSUME NEW r \in Runs, NEW g \in Groups, Start(r, g) PROVE Kept
  BY <1>1 DEF Start
<1>2. ASSUME NEW r \in Runs, Gather(r) PROVE Kept
  BY <1>2 DEF Gather, Scan, ScanFails, Abort, Forget, ReadPointer, ReadChunks, ReadFails
<1>3. ASSUME NEW r \in Runs, WriteChunkSet(r) PROVE Kept
  BY <1>3 DEF WriteChunkSet, Stage, StageFails, PlanChunks, WriteChunks, VerifyChunks,
       PublishFails, GotoSurvey, Forget
<1>4. ASSUME NEW r \in Runs, MovePointer(r) PROVE Kept \/ Swap(q)
  BY <1>4 DEF MovePointer, ReadLatest, Quarantine, Swap, SwapUnanswered, SwapEchoed,
       SwapRefused, PublishCallFails, PublishFails, GotoSurvey
<1>5. ASSUME NEW r \in Runs, Settle(r) PROVE Kept \/ ExpireCheck(q) \/ Expire(q)
  <2>1. CASE Unstage(r) BY <2>1 DEF Unstage, GotoSurvey
  <2>2. CASE ExpireCheck(r)
    <3>1. CASE r = q BY <2>2, <3>1
    <3>2. CASE r # q BY <2>2, <3>2 DEF ExpireCheck, GotoSurvey
    <3> QED BY <3>1, <3>2
  <2>3. CASE Expire(r) BY <2>3 DEF Expire, GotoSurvey
  <2>4. CASE ExpireFails(r) BY <2>4 DEF ExpireFails
  <2>5. CASE Restage(r) BY <2>5 DEF Restage, GotoSurvey
  <2> QED BY <1>5, <2>1, <2>2, <2>3, <2>4, <2>5 DEF Settle
<1>6. ASSUME NEW r \in Runs, Reclaim(r) PROVE Kept
  <2>1. CASE Survey(r) \/ ListMarkers(r) BY <2>1 DEF Survey, ListMarkers
  <2>2. CASE SurveyFails(r) \/ SweepDone(r) BY <2>2 DEF SurveyFails, SweepDone, Finish, Forget
  <2>3. CASE SweepMarker(r) BY <2>3 DEF SweepMarker, TakeEntry
  <2>4. CASE SweepCheck(r) BY <2>4 DEF SweepCheck, TakeEntry
  <2>5. CASE SweepExpire(r) BY <2>5 DEF SweepExpire
  <2>6. CASE SweepExpireFails(r) \/ SweepUnstage(r) BY <2>6 DEF SweepExpireFails, SweepUnstage
  <2> QED BY <1>6, <2>1, <2>2, <2>3, <2>4, <2>5, <2>6 DEF Reclaim
<1>7. ASSUME NEW r \in Runs, Kill(r) PROVE Kept BY <1>7 DEF Kill, Forget
<1>8. CASE Environment
  BY <1>8 DEF Environment, Tick, Corrupt, DeleteMarker, DeleteChunk
<1>9. CASE UNCHANGED vars BY <1>9
<1> QED BY <1>1, <1>2, <1>3, <1>4, <1>5, <1>6, <1>7, <1>8, <1>9 DEF Next, Step

\* A set is bounded for a marker only after the pointer was read for it.
LEMMA EntryMoves ==
  ASSUME TypeOK, [Next]_vars, NEW q \in Runs, pc'[q] \in {"sweepExpire", "sweepUnstage"}
  PROVE  \/ SweepCheck(q) \/ SweepExpire(q)
         \/ /\ pc'[q] = pc[q] /\ entry'[q] = entry[q]
            /\ parts'[q] = parts[q] /\ stamp'[q] = stamp[q]
<1> DEFINE Kept == /\ pc'[q] = pc[q] /\ entry'[q] = entry[q]
                   /\ parts'[q] = parts[q] /\ stamp'[q] = stamp[q]
<1> USE DEF TypeOK, RunsOK
<1>1. ASSUME NEW r \in Runs, NEW g \in Groups, Start(r, g) PROVE Kept
  BY <1>1 DEF Start
<1>2. ASSUME NEW r \in Runs, Gather(r) PROVE Kept
  BY <1>2 DEF Gather, Scan, ScanFails, Abort, Forget, ReadPointer, ReadChunks, ReadFails
<1>3. ASSUME NEW r \in Runs, WriteChunkSet(r) PROVE Kept
  BY <1>3 DEF WriteChunkSet, Stage, StageFails, PlanChunks, WriteChunks, VerifyChunks,
       PublishFails, GotoSurvey, Forget
<1>4. ASSUME NEW r \in Runs, MovePointer(r) PROVE Kept
  BY <1>4 DEF MovePointer, ReadLatest, Quarantine, Swap, SwapUnanswered, SwapEchoed,
       SwapRefused, PublishCallFails, PublishFails, GotoSurvey
<1>5. ASSUME NEW r \in Runs, Settle(r) PROVE Kept
  BY <1>5 DEF Settle, Unstage, ExpireCheck, Expire, ExpireFails, Restage, GotoSurvey
<1>6. ASSUME NEW r \in Runs, Reclaim(r) PROVE Kept \/ SweepCheck(q) \/ SweepExpire(q)
  <2>1. CASE Survey(r) \/ ListMarkers(r) BY <2>1 DEF Survey, ListMarkers
  <2>2. CASE SurveyFails(r) \/ SweepDone(r) BY <2>2 DEF SurveyFails, SweepDone, Finish, Forget
  <2>3. CASE SweepMarker(r) BY <2>3 DEF SweepMarker, TakeEntry
  <2>4. CASE SweepCheck(r)
    <3>1. CASE r = q BY <2>4, <3>1
    <3>2. CASE r # q BY <2>4, <3>2 DEF SweepCheck, TakeEntry
    <3> QED BY <3>1, <3>2
  <2>5. CASE SweepExpire(r) BY <2>5 DEF SweepExpire
  <2>6. CASE SweepExpireFails(r) \/ SweepUnstage(r) BY <2>6 DEF SweepExpireFails, SweepUnstage
  <2> QED BY <1>6, <2>1, <2>2, <2>3, <2>4, <2>5, <2>6 DEF Reclaim
<1>7. ASSUME NEW r \in Runs, Kill(r) PROVE Kept BY <1>7 DEF Kill, Forget
<1>8. CASE Environment
  BY <1>8 DEF Environment, Tick, Corrupt, DeleteMarker, DeleteChunk
<1>9. CASE UNCHANGED vars BY <1>9
<1> QED BY <1>1, <1>2, <1>3, <1>4, <1>5, <1>6, <1>7, <1>8, <1>9 DEF Next, Step

\* A run comes to write its chunks by way of its marker.
LEMMA WritingMoves ==
  ASSUME TypeOK, [Next]_vars, NEW q \in Runs, pc'[q] \in Writing
  PROVE  Stage(q) \/ (pc[q] \in Writing /\ id'[q] = id[q])
<1> DEFINE Kept == pc[q] \in Writing /\ id'[q] = id[q]
<1> USE DEF TypeOK, RunsOK, Writing
<1>1. ASSUME NEW r \in Runs, NEW g \in Groups, Start(r, g) PROVE Kept
  BY <1>1 DEF Start
<1>2. ASSUME NEW r \in Runs, Gather(r) PROVE Kept
  BY <1>2 DEF Gather, Scan, ScanFails, Abort, Forget, ReadPointer, ReadChunks, ReadFails
<1>3. ASSUME NEW r \in Runs, WriteChunkSet(r) PROVE Kept \/ Stage(q)
  BY <1>3 DEF WriteChunkSet, Stage, StageFails, PlanChunks, WriteChunks, VerifyChunks,
       PublishFails, GotoSurvey, Forget
<1>4. ASSUME NEW r \in Runs, MovePointer(r) PROVE Kept
  BY <1>4 DEF MovePointer, ReadLatest, Quarantine, Swap, SwapUnanswered, SwapEchoed,
       SwapRefused, PublishCallFails, PublishFails, GotoSurvey
<1>5. ASSUME NEW r \in Runs, Settle(r) PROVE Kept
  BY <1>5 DEF Settle, Unstage, ExpireCheck, Expire, ExpireFails, Restage, GotoSurvey
<1>6. ASSUME NEW r \in Runs, Reclaim(r) PROVE Kept
  BY <1>6 DEF Reclaim, Survey, ListMarkers, SurveyFails, Finish, Forget, SweepMarker,
       SweepCheck, SweepDone, TakeEntry, SweepExpire, SweepExpireFails, SweepUnstage
<1>7. ASSUME NEW r \in Runs, Kill(r) PROVE Kept BY <1>7 DEF Kill, Forget
<1>8. CASE Environment
  BY <1>8 DEF Environment, Tick, Corrupt, DeleteMarker, DeleteChunk
<1>9. CASE UNCHANGED vars BY <1>9
<1> QED BY <1>1, <1>2, <1>3, <1>4, <1>5, <1>6, <1>7, <1>8, <1>9 DEF Next, Step

\* A marker goes by its own TTL, by the run that wrote it, and by a pass: for a set
\* that is retained, or after the set was bounded.
LEMMA MarkersLeave ==
  ASSUME TypeOK, [Next]_vars, NEW i \in SnapshotID, staged[i] # None, staged'[i] = None
  PROVE  \/ DeleteMarker(i)
         \/ \E r \in Runs : /\ At(r, "unstage") /\ id[r] = i
                            /\ RemoveMarker(i, TRUE) /\ UNCHANGED pointer
         \/ \E r \in Runs : /\ At(r, "sweep") /\ Retained(r, i) /\ UNCHANGED pointer
                            /\ RemoveMarker(i, seen[r] # None /\ i = seen[r].id)
         \/ \E r \in Runs : At(r, "sweepUnstage") /\ entry[r].id = i
<1> DEFINE Own(r) == /\ At(r, "unstage") /\ id[r] = i
                     /\ RemoveMarker(i, TRUE) /\ UNCHANGED pointer
           Left(r) == /\ At(r, "sweep") /\ Retained(r, i) /\ UNCHANGED pointer
                      /\ RemoveMarker(i, seen[r] # None /\ i = seen[r].id)
           Done(r) == At(r, "sweepUnstage") /\ entry[r].id = i
<1> USE DEF TypeOK, TableOK
<1>0. Claim # None
  BY RetentionAssumption, PublisherAssumption, SentinelAssumption DEF Claim, Marker, Time
<1>1. ASSUME NEW r \in Runs, NEW g \in Groups, Start(r, g) PROVE FALSE
  BY <1>1 DEF Start
<1>2. ASSUME NEW r \in Runs, Gather(r) PROVE FALSE
  BY <1>2 DEF Gather, Scan, ScanFails, Abort, ReadPointer, ReadChunks, ReadFails
<1>3. ASSUME NEW r \in Runs, WriteChunkSet(r) PROVE FALSE
  BY <1>0, <1>3 DEF WriteChunkSet, Stage, StageFails, PlanChunks, WriteChunks, VerifyChunks
<1>4. ASSUME NEW r \in Runs, MovePointer(r) PROVE FALSE
  BY <1>4 DEF MovePointer, ReadLatest, Quarantine, Swap, SwapUnanswered, SwapEchoed,
       SwapRefused, PublishCallFails, Install
<1>5. ASSUME NEW r \in Runs, Settle(r) PROVE Own(r)
  <2>1. CASE Unstage(r)
    <3>1. id[r] = i BY <2>1 DEF Unstage, RemoveMarker
    <3> QED BY <2>1, <3>1 DEF Unstage
  <2>2. CASE ~Unstage(r)
    BY <1>0, <1>5, <2>2 DEF Settle, ExpireCheck, Expire, ExpireFails, Restage
  <2> QED BY <2>1, <2>2
<1>6. ASSUME NEW r \in Runs, Reclaim(r) PROVE Left(r) \/ Done(r)
  <2>1. CASE SweepMarker(r)
    <3>1. PICK e \in backlog[r] :
            /\ Retained(r, e.id) /\ At(r, "sweep") /\ UNCHANGED pointer
            /\ RemoveMarker(e.id, seen[r] # None /\ e.id = seen[r].id)
      BY <2>1 DEF SweepMarker, TakeEntry
    <3>2. e.id = i BY <3>1 DEF RemoveMarker
    <3> QED BY <3>1, <3>2
  <2>2. CASE SweepUnstage(r) BY <2>2 DEF SweepUnstage
  <2>3. CASE ~SweepMarker(r) /\ ~SweepUnstage(r)
    BY <1>6, <2>3 DEF Reclaim, Survey, ListMarkers, SurveyFails, Finish,
         SweepCheck, SweepDone, SweepExpire, SweepExpireFails
  <2> QED BY <2>1, <2>2, <2>3
<1>7. ASSUME NEW r \in Runs, Kill(r) PROVE FALSE BY <1>7 DEF Kill
<1>8. ASSUME Environment PROVE DeleteMarker(i)
  <2>1. ASSUME NEW j \in SnapshotID, DeleteMarker(j) PROVE DeleteMarker(i)
    BY <2>1 DEF DeleteMarker
  <2> QED BY <1>8, <2>1 DEF Environment, Tick, Corrupt, DeleteChunk
<1>9. ASSUME UNCHANGED vars PROVE FALSE BY <1>9
<1> HIDE DEF Own, Left, Done
<1>10. DeleteMarker(i) \/ \E r \in Runs : Own(r) \/ Left(r) \/ Done(r)
  BY <1>1, <1>2, <1>3, <1>4, <1>5, <1>6, <1>7, <1>8, <1>9 DEF Next, Step
<1> QED BY <1>10 DEF Own, Left, Done

\* What was lost track of stays recorded.
LEMMA LostGrows == ASSUME [Next]_vars PROVE lost \subseteq lost'
<1>1. ASSUME NEW r \in Runs, Gather(r) PROVE UNCHANGED lost
  BY <1>1 DEF Gather, Scan, ScanFails, Abort, ReadPointer, ReadChunks, ReadFails
<1>2. ASSUME NEW r \in Runs, WriteChunkSet(r) PROVE UNCHANGED lost
  BY <1>2 DEF WriteChunkSet, Stage, StageFails, PlanChunks, WriteChunks, VerifyChunks
<1>3. ASSUME NEW r \in Runs, MovePointer(r) PROVE lost \subseteq lost'
  BY <1>3 DEF MovePointer, ReadLatest, Quarantine, Swap, SwapUnanswered, SwapEchoed,
       SwapRefused, PublishCallFails, LoseReplaced, Lose
<1>4. ASSUME NEW r \in Runs, Settle(r) PROVE lost \subseteq lost'
  BY <1>4 DEF Settle, Unstage, ExpireCheck, Expire, ExpireFails, Restage, RemoveMarker, Lose
<1>5. ASSUME NEW r \in Runs, Reclaim(r) PROVE lost \subseteq lost'
  BY <1>5 DEF Reclaim, Survey, ListMarkers, SurveyFails, Finish, SweepMarker,
       SweepCheck, SweepDone, SweepExpire, SweepExpireFails, SweepUnstage, RemoveMarker, Lose
<1>6. CASE Environment
  BY <1>6 DEF Environment, Tick, Corrupt, DeleteMarker, DeleteChunk, Lose
<1> QED BY <1>1, <1>2, <1>3, <1>4, <1>5, <1>6 DEF Next, Step, Start, Kill, Lose

\* A run stops owing a set a TTL when it has bounded it, or finds nothing of it,
\* puts it back in the registry, or is killed.
LEMMA OwesMoves ==
  ASSUME TypeOK, [Next]_vars, NEW q \in Runs, NEW i, Owes(q, i)
  PROVE  \/ Owes(q, i)' \/ Restage(q) \/ Kill(q)
         \/ replaced'[q] = replaced[q] /\ pc'[q] = "survey"
<1> DEFINE Kept == Owes(q, i)'
           Over == replaced'[q] = replaced[q] /\ pc'[q] = "survey"
<1> USE DEF TypeOK, RunsOK, Owes
<1>1. ASSUME NEW r \in Runs, NEW g \in Groups, Start(r, g) PROVE Kept
  BY <1>1 DEF Start
<1>2. ASSUME NEW r \in Runs, Gather(r) PROVE Kept
  BY <1>2 DEF Gather, Scan, ScanFails, Abort, Forget, ReadPointer, ReadChunks, ReadFails
<1>3. ASSUME NEW r \in Runs, WriteChunkSet(r) PROVE Kept
  BY <1>3 DEF WriteChunkSet, Stage, StageFails, PlanChunks, WriteChunks, VerifyChunks,
       PublishFails, GotoSurvey, Forget
<1>4. ASSUME NEW r \in Runs, MovePointer(r) PROVE Kept
  BY <1>4 DEF MovePointer, ReadLatest, Quarantine, Swap, SwapUnanswered, SwapEchoed,
       SwapRefused, PublishCallFails, PublishFails, GotoSurvey
<1>5. ASSUME NEW r \in Runs, Settle(r) PROVE Kept \/ Over \/ Restage(q)
  <2>1. CASE Unstage(r) BY <2>1 DEF Unstage, GotoSurvey
  <2>2. CASE ExpireCheck(r) BY <2>2 DEF ExpireCheck, GotoSurvey
  <2>3. CASE Expire(r) BY <2>3 DEF Expire, GotoSurvey
  <2>4. CASE ExpireFails(r) BY <2>4 DEF ExpireFails
  <2>5. CASE Restage(r)
    <3>1. CASE r = q BY <2>5, <3>1
    <3>2. CASE r # q BY <2>5, <3>2 DEF Restage, GotoSurvey
    <3> QED BY <3>1, <3>2
  <2> QED BY <1>5, <2>1, <2>2, <2>3, <2>4, <2>5 DEF Settle
<1>6. ASSUME NEW r \in Runs, Reclaim(r) PROVE Kept
  BY <1>6 DEF Reclaim, Survey, ListMarkers, SurveyFails, Finish, Forget, SweepMarker,
       SweepCheck, SweepDone, TakeEntry, SweepExpire, SweepExpireFails, SweepUnstage
<1>7. ASSUME NEW r \in Runs, Kill(r) PROVE Kept \/ Kill(q)
  <2>1. CASE r = q BY <1>7, <2>1
  <2>2. CASE r # q BY <1>7, <2>2 DEF Kill, Forget
  <2> QED BY <2>1, <2>2
<1>8. CASE Environment
  BY <1>8 DEF Environment, Tick, Corrupt, DeleteMarker, DeleteChunk
<1>9. CASE UNCHANGED vars BY <1>9
<1> QED BY <1>1, <1>2, <1>3, <1>4, <1>5, <1>6, <1>7, <1>8, <1>9 DEF Next, Step

\* What is live leaves the pointer to the run that replaced it, or is recorded.
LEMMA LiveMoves ==
  ASSUME TypeOK, [Next]_vars, NEW i \in SnapshotID, Live(i)
  PROVE  Live(i)' \/ Owed(i)' \/ Dropped(i)'
<1> USE DEF TypeOK, RunsOK
<1>1. CASE UNCHANGED pointer BY <1>1 DEF Live, Readable
<1>2. ASSUME NEW r \in Runs, Swap(r) PROVE Owed(i)'
  <2>1. pointer = seen[r] /\ seen[r] \notin Broken /\ pc'[r] = "unstage"
    BY <1>2, GuardFinds DEF Swap, Install, Live, Readable
  <2>2. replaced'[r] = pointer BY <1>2, <2>1 DEF Swap
  <2>3. Owes(r, i)' BY <2>1, <2>2 DEF Owes, Live, Readable
  <2> QED BY <2>3 DEF Owed
<1>3. ASSUME NEW r \in Runs, SwapUnanswered(r) \/ SwapEchoed(r) PROVE Dropped(i)'
  <2>1. [cause |-> "lostReply", id |-> i] \in lost'
    BY <1>3 DEF SwapUnanswered, SwapEchoed, LoseReplaced, Lose, Live
  <2> QED BY <2>1 DEF Dropped, Causes
<1>4. ASSUME NEW b \in Broken, Corrupt(b) PROVE Dropped(i)'
  <2>1. [cause |-> "corrupt", id |-> i] \in lost' BY <1>4 DEF Corrupt, Lose, Live
  <2> QED BY <2>1 DEF Dropped, Causes
<1>5. ASSUME NEW r \in Runs, Step(r) PROVE UNCHANGED pointer \/ Swap(r) \/ SwapUnanswered(r) \/ SwapEchoed(r)
  <2>1. CASE Gather(r)
    BY <2>1 DEF Gather, Scan, ScanFails, Abort, ReadPointer, ReadChunks, ReadFails
  <2>2. CASE WriteChunkSet(r)
    BY <2>2 DEF WriteChunkSet, Stage, StageFails, PlanChunks, WriteChunks, VerifyChunks
  <2>3. CASE MovePointer(r)
    BY <2>3 DEF MovePointer, ReadLatest, Quarantine, SwapRefused, PublishCallFails
  <2>4. CASE Settle(r)
    BY <2>4 DEF Settle, Unstage, ExpireCheck, Expire, ExpireFails, Restage
  <2>5. CASE Reclaim(r)
    BY <2>5 DEF Reclaim, Survey, ListMarkers, SurveyFails, Finish, SweepMarker,
         SweepCheck, SweepDone, SweepExpire, SweepExpireFails, SweepUnstage
  <2> QED BY <1>5, <2>1, <2>2, <2>3, <2>4, <2>5 DEF Step
<1>6. UNCHANGED pointer
      \/ (\E r \in Runs : Swap(r) \/ SwapUnanswered(r) \/ SwapEchoed(r))
      \/ \E b \in Broken : Corrupt(b)
  BY <1>5 DEF Next, Start, Kill, Environment, Tick, DeleteMarker, DeleteChunk
<1> QED BY <1>1, <1>2, <1>3, <1>4, <1>6

-----------------------------------------------------------------------------
(* The invariant is inductive                                              *)

\* An ID that starts a run was never used, so nothing names it or is stored for it.
LEMMA StartsFresh ==
  ASSUME Unrepeated, TypeOK, Minted, NEW r \in Runs, NEW g \in Groups, Start(r, g)
  PROVE  /\ [group |-> g, at |-> now] \in SnapshotID \ used
         /\ used' = used \cup {[group |-> g, at |-> now]}
         /\ id'[r] = [group |-> g, at |-> now] /\ \A q \in Runs \ {r} : id'[q] = id[q]
         /\ id[r] = None /\ pc'[r] = "scan"
         /\ UNCHANGED <<pointer, chunks, staged, now>>
BY DEF Start, Unrepeated, TypeOK, RunsOK, PhaseOK, SnapshotID

\* IDs are minted once, by a run that then has it, and bring their own items.
LEMMA MintedStep ==
  ASSUME Unrepeated, TypeOK, TypeOK', Minted, [Next]_vars
  PROVE  Minted'
<1>1. ASSUME NEW q \in Runs, id'[q] # None
      PROVE  /\ id'[q] \in used'
             /\ (id'[q] = id[q] /\ id[q] \in used) \/ \E g \in Groups : Start(q, g)
  <2>1. used \subseteq used' BY MintMoves, StartsFresh
  <2>2. CASE \E g \in Groups : Start(q, g) BY <2>2, StartsFresh
  <2>3. CASE id'[q] = id[q] BY <1>1, <2>1, <2>3 DEF Minted
  <2> QED BY <1>1, <2>2, <2>3, RunMoves
<1>2. ASSUME NEW q \in Runs, NEW r \in Runs, id'[r] # None, id'[q] = id'[r] PROVE q = r
  <2>1. CASE id'[q] = id[q] /\ id'[r] = id[r] BY <1>2, <2>1 DEF Minted
  <2>2. ASSUME NEW g \in Groups, Start(q, g) PROVE q = r
    <3>1. r # q => id'[r] = id[r]
      BY <2>2, StartsFresh
    <3>2. id[r] # None => id[r] \in used BY DEF Minted
    <3> QED BY <1>2, <2>2, <3>1, <3>2, StartsFresh
  <2>3. ASSUME NEW g \in Groups, Start(r, g) PROVE q = r
    <3>1. r # q => id'[q] = id[q]
      BY <2>3, StartsFresh
    <3>2. id[q] # None => id[q] \in used BY DEF Minted
    <3> QED BY <1>2, <2>3, <3>1, <3>2, StartsFresh
  <2> QED BY <1>1, <1>2, <2>1, <2>2, <2>3
<1>3. ASSUME Readable' PROVE pointer'.id \in used'
  <2>1. CASE pointer' = pointer
    BY <1>3, <2>1, MintMoves, StartsFresh DEF Minted, Readable
  <2>2. ASSUME NEW r \in Runs, At(r, "swap"), Install(r) PROVE pointer'.id \in used'
    <3>1. pointer'.id = id[r] /\ id[r] # None /\ used' = used
      BY <2>2 DEF Install, NewPointer, TypeOK, PhaseOK
    <3> QED BY <3>1 DEF Minted
  <2>3. ASSUME NEW b \in Broken, Corrupt(b) PROVE FALSE
    BY <1>3, <2>3 DEF Corrupt, Readable
  <2> QED BY <2>1, <2>2, <2>3, PointerMoves
<1>31. ASSUME NEW q \in Runs, replaced'[q] # None PROVE replaced'[q].id \in used'
  <2>1. CASE replaced'[q] = replaced[q]
    BY <1>31, <2>1, MintMoves, StartsFresh DEF Minted
  <2>2. CASE Swap(q)
    <3>1. replaced'[q] = pointer /\ pointer \notin Broken /\ used' = used
      BY <1>31, <2>2, GuardFinds DEF Swap, Install, TypeOK, RunsOK
    <3> QED BY <1>31, <3>1 DEF Minted, Readable
  <2> QED BY <1>31, <2>1, <2>2, ReplacedMoves
<1>4. ASSUME NEW i \in used' PROVE i.at <= now'
  <2>1. i \in SnapshotID /\ i.at \in Nat /\ now \in Nat /\ now' \in Nat
    BY DEF TypeOK, HistoryOK, SnapshotID, Time
  <2>2. now <= now' BY <2>1, MintMoves DEF Tick
  <2>3. i.at <= now
    <3>1. CASE i \in used BY <3>1 DEF Minted
    <3>2. CASE i \notin used
      <4>1. PICK r \in Runs, g \in Groups : Start(r, g) BY <3>2, MintMoves
      <4>2. used' = used \cup {[group |-> g, at |-> now]} BY <4>1, StartsFresh
      <4>3. i.at = now BY <3>2, <4>2
      <4> QED BY <2>1, <4>3
    <3> QED BY <3>1, <3>2
  <2> QED BY <2>1, <2>2, <2>3
<1>5. ASSUME NEW i \in SnapshotID \ used'
      PROVE  staged'[i] = None /\ \A p \in Parts : chunks'[i][p] = None
  <2>1. i \notin used BY MintMoves, StartsFresh
  <2>2. staged[i] = None /\ \A p \in Parts : chunks[i][p] = None BY <2>1 DEF Minted
  <2>3. \A r \in Runs : id[r] # i
    <3>1. ASSUME NEW r \in Runs, id[r] = i PROVE FALSE
      BY <2>1, <3>1, SentinelAssumption DEF Minted
    <3> QED BY <3>1
  <2>4. \A r \in Runs : replaced[r] # None => replaced[r].id # i
    BY <2>1 DEF Minted
  <2>5. staged'[i] = None BY <2>2, <2>3, <2>4, StagedMoves
  <2>6. \A p \in Parts : chunks'[i][p] = None BY <2>2, <2>3, OnlyItsRunStores
  <2> QED BY <2>5, <2>6
<1> QED BY <1>1, <1>2, <1>3, <1>31, <1>4, <1>5 DEF Minted

\* The clock waits for a run that reaches its timeout, and markers are written now.
LEMMA TimedStep ==
  ASSUME Unrepeated, TypeOK, TypeOK', Minted, Timed, [Next]_vars
  PROVE  Timed'
<1>1. now \in Nat /\ now' \in Nat /\ RunLimit \in Nat /\ now <= now'
  BY MintMoves, PublisherAssumption DEF Tick, TypeOK, Time
<1>2. ASSUME NEW q \in Runs, id'[q] # None PROVE now' <= id'[q].at + RunLimit
  <2>1. id'[q] \in SnapshotID /\ id'[q].at \in Nat
    BY <1>2 DEF TypeOK, RunsOK, SnapshotID, Time
  <2>2. ASSUME NEW g \in Groups, Start(q, g) PROVE now' <= id'[q].at + RunLimit
    <3>1. id'[q] = [group |-> g, at |-> now] /\ now' = now BY <2>2, StartsFresh
    <3>2. id'[q].at = now BY <3>1
    <3> QED BY <1>1, <3>1, <3>2
  <2>3. CASE id'[q] = id[q]
    <3>1. now <= id[q].at + RunLimit BY <1>2, <2>3 DEF Timed
    <3>2. CASE Tick
      <4>1. now < id[q].at + RunLimit BY <1>2, <2>3, <3>2 DEF Tick, TypeOK, PhaseOK
      <4> QED BY <1>1, <2>1, <2>3, <3>2, <4>1 DEF Tick
    <3> QED BY <2>3, <3>1, <3>2, MintMoves
  <2> QED BY <1>2, <2>2, <2>3, RunMoves
<1>3. ASSUME NEW q \in Runs PROVE stamp'[q] <= now'
  <2>1. stamp[q] \in Nat /\ stamp[q] <= now BY DEF TypeOK, RunsOK, Time, Timed
  <2> QED BY <1>1, <2>1, StampMoves
<1>4. ASSUME NEW i \in SnapshotID, staged'[i] # None PROVE i.at <= staged'[i].at
  <2>1. CASE staged'[i] = staged[i] BY <1>4, <2>1 DEF Timed
  <2>2. CASE /\ staged'[i] = Claim
             /\ \E r \in Runs : id[r] = i \/ (replaced[r] # None /\ replaced[r].id = i)
    <3>1. i \in used
      BY <2>2, SentinelAssumption DEF Minted
    <3> QED BY <2>2, <3>1 DEF Claim, Minted
  <2> QED BY <1>4, <2>1, <2>2, StagedMoves
<1> QED BY <1>2, <1>3, <1>4 DEF Timed

\* A pass lists a marker to act on only if it is old enough or needs no bound.
LEMMA BackloggedStep ==
  ASSUME Unrepeated, TypeOK, TypeOK', Minted, Timed, Backlogged, [Next]_vars
  PROVE  Backlogged'
<1> SUFFICES ASSUME NEW q \in Runs
             PROVE  /\ pc'[q] \notin Sweeping => backlog'[q] = {}
                    /\ \A e \in backlog'[q] :
                         /\ e.id \in used' /\ e.id.at <= e.at
                         /\ Retained(q, e.id)' \/ stamp'[q] >= e.at + AbandonedAfter
  BY DEF Backlogged, Retained
<1>1. used \subseteq used' BY MintMoves, StartsFresh
<1>2. CASE backlog'[q] = {} BY <1>2
<1>3. CASE pc[q] \notin Sweeping /\ backlog'[q] = backlog[q] BY <1>3 DEF Backlogged
<1>4. CASE /\ pc[q] \in Sweeping /\ pc'[q] \in Sweeping
           /\ backlog'[q] \subseteq backlog[q] /\ seen'[q] = seen[q]
           /\ replaced'[q] = replaced[q] /\ stamp'[q] = stamp[q]
  BY <1>1, <1>4 DEF Backlogged, Retained
<1>5. CASE ListMarkers(q)
  <2>1. /\ backlog'[q] = {e \in Markers : Retained(q, e.id) \/ Reclaimable(q, e)}
        /\ pc'[q] = "sweep" /\ UNCHANGED <<seen, replaced, stamp>>
    BY <1>5 DEF ListMarkers, TypeOK, RunsOK
  <2>2. ASSUME NEW e \in backlog'[q]
        PROVE  /\ e.id \in used /\ e.id.at <= e.at
               /\ Retained(q, e.id) \/ stamp[q] >= e.at + AbandonedAfter
    <3>1. PICK i \in SnapshotID : staged[i] # None /\ e = [id |-> i, at |-> staged[i].at]
      BY <2>1 DEF Markers
    <3>2. i \in used BY <3>1 DEF Minted
    <3>3. i.at <= staged[i].at BY <3>1 DEF Timed
    <3> QED BY <2>1, <3>1, <3>2, <3>3 DEF Reclaimable
  <2> QED BY <1>1, <2>1, <2>2 DEF Retained, Sweeping
<1> QED BY <1>2, <1>3, <1>4, <1>5, BacklogMoves

\* Only a run that has read its chunks back is named, and it has one ID.
LEMMA NotYetNamedStep ==
  ASSUME Unrepeated, TypeOK, Minted, NotYetNamed, [Next]_vars
  PROVE  NotYetNamed'
<1> SUFFICES ASSUME NEW q \in Runs, pc'[q] \in Before
             PROVE  /\ ~(Readable' /\ pointer'.id = id'[q])
                    /\ \A r \in Runs : replaced'[r] # None => replaced'[r].id # id'[q]
  BY DEF NotYetNamed, Live, Readable
<1>1. ASSUME NEW g \in Groups, Start(q, g)
      PROVE  /\ ~(Readable' /\ pointer'.id = id'[q])
             /\ \A r \in Runs : replaced'[r] # None => replaced'[r].id # id'[q]
  <2>1. id'[q] \notin used /\ pointer' = pointer /\ replaced' = replaced
    BY <1>1, StartsFresh DEF Start
  <2> QED BY <2>1 DEF Minted, Readable
<1>2. CASE id'[q] = id[q] /\ id[q] # None /\ pc[q] \in Before
  <2>0. ~Live(id[q]) BY <1>2 DEF NotYetNamed
  <2>1. ~(Readable' /\ pointer'.id = id'[q])
    <3>1. CASE pointer' = pointer BY <1>2, <2>0, <3>1 DEF Live, Readable
    <3>2. ASSUME NEW r \in Runs, At(r, "swap"), Install(r), pointer'.id = id[q] PROVE FALSE
      <4>1. pointer'.id = id[r] /\ id[r] # None
        BY <3>2 DEF Install, NewPointer, TypeOK, PhaseOK
      <4>2. q = r BY <1>2, <3>2, <4>1 DEF Minted
      <4> QED BY <1>2, <3>2, <4>2 DEF Before
    <3>3. ASSUME NEW b \in Broken, Corrupt(b) PROVE ~Readable'
      BY <3>3 DEF Corrupt, Readable
    <3> QED BY <1>2, <3>1, <3>2, <3>3, PointerMoves
  <2>2. ASSUME NEW r \in Runs, replaced'[r] # None PROVE replaced'[r].id # id[q]
    <3>1. CASE replaced'[r] = replaced[r] BY <1>2, <2>2, <3>1 DEF NotYetNamed
    <3>2. CASE Swap(r)
      <4>1. replaced'[r] = pointer /\ pointer \notin Broken
        BY <2>2, <3>2, GuardFinds DEF Swap, Install, TypeOK, RunsOK
      <4> QED BY <2>0, <2>2, <4>1 DEF Live, Readable
    <3> QED BY <2>2, <3>1, <3>2, ReplacedMoves
  <2> QED BY <1>2, <2>1, <2>2
<1>3. pc'[q] # "idle" BY DEF Before
<1>4. CASE id'[q] = id[q] /\ id[q] = None /\ pc'[q] = pc[q]
  BY <1>3, <1>4 DEF TypeOK, PhaseOK
<1> QED BY <1>1, <1>2, <1>3, <1>4, RunMoves

\* Nothing is added to a set that a run has replaced.
LEMMA ReplacedIsClosed ==
  ASSUME TypeOK, NotYetNamed, [Next]_vars, NEW q \in Runs, replaced[q] # None
  PROVE  Unbound(replaced[q].id)' \subseteq Unbound(replaced[q].id) \/ replaced'[q] # replaced[q]
<1>1. ASSUME NEW i \in SnapshotID, i = replaced[q].id PROVE Unbound(i)' \subseteq Unbound(i)
  <2>1. ASSUME NEW r \in Runs, At(r, "writeChunks") PROVE id[r] # i
    BY <1>1, <2>1 DEF NotYetNamed, Before
  <2> QED BY <2>1, OnlyItsRunStores
<1>2. replaced[q].id \in SnapshotID BY DEF TypeOK, RunsOK, Pointer
<1> QED BY <1>1, <1>2 DEF Unbound

\* A run leaves the expiry behind only when nothing of the set is left unbounded.
LEMMA SettledStep ==
  ASSUME TypeOK, NotYetNamed, Settled, [Next]_vars
  PROVE  Settled'
<1> SUFFICES ASSUME NEW q \in Runs, replaced'[q] # None
             PROVE  /\ pc'[q] \in Settling \cup {"survey"} \cup Reclaiming
                    /\ pc'[q] = "expire" => Unbound(replaced[q].id)' \subseteq parts'[q]
                    /\ pc'[q] \notin Settling => Unbound(replaced[q].id)' = {}
  BY DEF Settled
<1>1. CASE Swap(q)
  BY <1>1 DEF Swap, Settling, TypeOK, RunsOK
<1>2. CASE ExpireCheck(q)
  <2>1. /\ replaced' = replaced /\ chunks' = chunks
        /\ \/ pc'[q] = "survey" /\ Stored(replaced[q].id) = {}
           \/ pc'[q] = "expire" /\ parts'[q] = Stored(replaced[q].id)
    BY <1>2 DEF ExpireCheck, GotoSurvey, TypeOK, RunsOK
  <2>2. Unbound(replaced[q].id)' \subseteq Stored(replaced[q].id) BY <2>1 DEF Unbound, Stored
  <2> QED BY <2>1, <2>2 DEF Settling
<1>3. CASE Expire(q)
  <2>1. /\ replaced' = replaced /\ pc'[q] = "survey" /\ At(q, "expire")
        /\ chunks' = Expiring(replaced[q].id, parts[q], SupersededUntil(q))
    BY <1>3 DEF Expire, GotoSurvey, TypeOK, RunsOK
  <2>2. Unbound(replaced[q].id) \subseteq parts[q] BY <1>2, <2>1 DEF Settled
  <2>3. replaced[q].id \in SnapshotID BY <2>1 DEF TypeOK, RunsOK, Pointer
  <2>4. SupersededUntil(q) # None BY <2>1, UntilTypes, SentinelAssumption
  <2>5. ASSUME NEW i \in SnapshotID, i = replaced[q].id, NEW p \in Parts, chunks'[i][p] # None
        PROVE  chunks'[i][p].expires # None
    <3>1. chunks'[i][p] = IF p \in parts[q] /\ chunks[i][p] # None
            THEN [body |-> chunks[i][p].body, expires |-> SupersededUntil(q)]
            ELSE chunks[i][p]
      BY <2>1, <2>5 DEF Expiring, TypeOK, TableOK
    <3>2. p \notin parts[q] /\ chunks[i][p] # None => chunks[i][p].expires # None
      BY <2>2, <2>5 DEF Unbound
    <3> QED BY <2>4, <2>5, <3>1, <3>2
  <2>6. Unbound(replaced[q].id)' = {} BY <2>1, <2>3, <2>5 DEF Unbound
  <2> QED BY <2>1, <2>6
<1>4. CASE /\ replaced'[q] = replaced[q]
           /\ \/ pc'[q] = pc[q] /\ parts'[q] = parts[q]
              \/ pc[q] \in Settling /\ pc'[q] \in Settling /\ pc'[q] # "expire"
              \/ pc[q] \in {"survey"} \cup Reclaiming /\ pc'[q] \in Reclaiming
              \/ pc[q] \notin Settling \cup {"survey"} \cup Reclaiming
  <2>1. Unbound(replaced[q].id)' \subseteq Unbound(replaced[q].id)
    BY <1>4, ReplacedIsClosed
  <2>2. pc[q] \in Settling \cup {"survey"} \cup Reclaiming BY <1>4 DEF Settled
  <2>3. pc[q] \in {"survey"} \cup Reclaiming => pc[q] \notin Settling
    BY DEF Settling, Reclaiming
  <2>4. At(q, "expire") => Unbound(replaced[q].id) \subseteq parts[q] BY <1>4 DEF Settled
  <2>5. pc[q] \notin Settling => Unbound(replaced[q].id) = {} BY <1>4 DEF Settled
  <2>6. pc'[q] \in Reclaiming => pc'[q] # "expire" BY DEF Reclaiming
  <2> QED BY <1>4, <2>1, <2>2, <2>3, <2>4, <2>5, <2>6
<1> QED BY <1>1, <1>2, <1>3, <1>4, SettlingMoves

\* No run has the ID of a marker that outlived the function timeout.
LEMMA OldIsOver ==
  ASSUME TypeOK, Timed, NEW r \in Runs, NEW i \in SnapshotID, i.at + RunLimit < stamp[r]
  PROVE  \A q \in Runs : id[q] # i
<1>1. i.at \in Nat /\ stamp[r] \in Nat /\ now \in Nat /\ stamp[r] <= now
  BY DEF SnapshotID, Time, TypeOK, RunsOK, Timed
<1>2. ASSUME NEW q \in Runs, id[q] = i PROVE FALSE
  <2>1. now <= i.at + RunLimit BY <1>2, SentinelAssumption DEF Timed
  <2> QED BY <1>1, <2>1, PublisherAssumption
<1> QED BY <1>2

\* A pass acts on markers older than any run, and leaves none of their chunks
\* unbounded.
LEMMA ReclaimedStep ==
  ASSUME Unrepeated, TypeOK, TypeOK', Minted, Timed, Backlogged, Reclaimed, [Next]_vars
  PROVE  Reclaimed'
<1> SUFFICES ASSUME NEW q \in Runs, pc'[q] \in {"sweepExpire", "sweepUnstage"}
             PROVE  /\ entry'[q].id \in used' /\ entry'[q].id.at + RunLimit < stamp'[q]
                    /\ pc'[q] = "sweepExpire" => Unbound(entry[q].id)' \subseteq parts'[q]
                    /\ pc'[q] = "sweepUnstage" => Unbound(entry[q].id)' = {}
  BY DEF Reclaimed
<1>0. used \subseteq used' BY MintMoves, StartsFresh
<1>1. CASE SweepCheck(q)
  <2>1. PICK e \in backlog[q] :
          /\ ~Retained(q, e.id) /\ entry'[q] = e /\ parts'[q] = Stored(e.id)
          /\ pc'[q] = IF Stored(e.id) = {} THEN "sweepUnstage" ELSE "sweepExpire"
          /\ UNCHANGED <<chunks, stamp>>
    BY <1>1 DEF SweepCheck, TakeEntry, TypeOK, RunsOK
  <2>2. e.id \in SnapshotID /\ e.id.at \in Nat /\ e.at \in Nat
    BY <2>1 DEF TypeOK, RunsOK, Entry, SnapshotID, Time
  <2>3. e.id \in used /\ e.id.at <= e.at /\ stamp[q] >= e.at + AbandonedAfter
    BY <2>1 DEF Backlogged
  <2>4. stamp[q] \in Nat BY DEF TypeOK, RunsOK, Time
  <2>5. e.id.at + RunLimit < stamp[q]
    BY <2>2, <2>3, <2>4, PublisherAssumption, RetentionAssumption
  <2>6. Unbound(entry[q].id)' \subseteq Stored(e.id) BY <2>1 DEF Unbound, Stored
  <2> QED BY <1>0, <2>1, <2>3, <2>5, <2>6
<1>2. CASE SweepExpire(q)
  <2>1. /\ At(q, "sweepExpire") /\ pc'[q] = "sweepUnstage"
        /\ chunks' = Expiring(entry[q].id, parts[q], AbandonedUntil(q))
        /\ UNCHANGED <<entry, stamp, used>>
    BY <1>2 DEF SweepExpire, TypeOK, RunsOK
  <2>2. /\ Unbound(entry[q].id) \subseteq parts[q]
        /\ entry[q].id \in used /\ entry[q].id.at + RunLimit < stamp[q]
    BY <2>1 DEF Reclaimed
  <2>3. entry[q].id \in SnapshotID BY <2>1 DEF TypeOK, RunsOK, PhaseOK, Entry
  <2>4. AbandonedUntil(q) # None BY <2>1, UntilTypes, SentinelAssumption
  <2>5. ASSUME NEW i \in SnapshotID, i = entry[q].id, NEW p \in Parts, chunks'[i][p] # None
        PROVE  chunks'[i][p].expires # None
    <3>1. chunks'[i][p] = IF p \in parts[q] /\ chunks[i][p] # None
            THEN [body |-> chunks[i][p].body, expires |-> AbandonedUntil(q)]
            ELSE chunks[i][p]
      BY <2>1, <2>5 DEF Expiring, TypeOK, TableOK
    <3>2. p \notin parts[q] /\ chunks[i][p] # None => chunks[i][p].expires # None
      BY <2>2, <2>5 DEF Unbound
    <3> QED BY <2>4, <2>5, <3>1, <3>2
  <2>6. Unbound(entry[q].id)' = {} BY <2>1, <2>3, <2>5 DEF Unbound
  <2> QED BY <2>1, <2>2, <2>6
<1>3. CASE /\ pc'[q] = pc[q] /\ entry'[q] = entry[q]
           /\ parts'[q] = parts[q] /\ stamp'[q] = stamp[q]
  <2>1. entry[q].id \in SnapshotID BY <1>3 DEF TypeOK, RunsOK, PhaseOK, Entry
  <2>2. /\ entry[q].id \in used /\ entry[q].id.at + RunLimit < stamp[q]
        /\ pc[q] = "sweepExpire" => Unbound(entry[q].id) \subseteq parts[q]
        /\ pc[q] = "sweepUnstage" => Unbound(entry[q].id) = {}
    BY <1>3 DEF Reclaimed
  <2>3. ASSUME NEW i \in SnapshotID, i = entry[q].id PROVE Unbound(i)' \subseteq Unbound(i)
    BY <2>2, <2>3, OldIsOver, OnlyItsRunStores
  <2>4. Unbound(entry[q].id)' \subseteq Unbound(entry[q].id) BY <1>3, <2>1, <2>3 DEF Unbound
  <2> QED BY <1>0, <1>3, <2>2, <2>4
<1> QED BY <1>1, <1>2, <1>3, EntryMoves

\* A marker that goes leaves its set live, bounded or recorded as lost.
LEMMA MarkersLeaveTracked ==
  ASSUME TypeOK, Timed, Settled, Reclaimed, [Next]_vars, NEW i \in SnapshotID,
         staged[i] # None, staged'[i] = None
  PROVE  \/ Live(i) /\ Live(i)'
         \/ \E c \in {"markerTTL", "lateUnstage"} : [cause |-> c, id |-> i] \in lost'
         \/ Unbound(i) = {} /\ \A q \in Runs : id[q] # i
         \/ Unbound(i) = {} /\ \E r \in Runs : replaced[r] # None /\ replaced[r].id = i
<1>1. CASE DeleteMarker(i) BY <1>1 DEF DeleteMarker, Lose
<1>2. ASSUME RemoveMarker(i, TRUE), UNCHANGED pointer
      PROVE  \/ Live(i) /\ Live(i)'
             \/ [cause |-> "lateUnstage", id |-> i] \in lost'
  BY <1>2 DEF RemoveMarker, Lose, Live, Readable
<1>3. ASSUME NEW r \in Runs, At(r, "sweep"), Retained(r, i), UNCHANGED pointer,
             RemoveMarker(i, seen[r] # None /\ i = seen[r].id)
      PROVE  \/ Live(i) /\ Live(i)'
             \/ [cause |-> "lateUnstage", id |-> i] \in lost'
             \/ Unbound(i) = {} /\ replaced[r] # None /\ replaced[r].id = i
  <2>1. CASE seen[r] # None /\ i = seen[r].id BY <1>2, <1>3, <2>1
  <2>2. CASE replaced[r] # None /\ i = replaced[r].id
    BY <1>3, <2>2 DEF Settled, Settling
  <2> QED BY <1>3, <2>1, <2>2 DEF Retained
<1>4. ASSUME NEW r \in Runs, At(r, "sweepUnstage"), entry[r].id = i
      PROVE  Unbound(i) = {} /\ \A q \in Runs : id[q] # i
  BY <1>4, OldIsOver DEF Reclaimed
<1> QED BY <1>1, <1>2, <1>3, <1>4, MarkersLeave

\* The marker of a set stays until its run has read the set back, or is known to
\* have gone.
LEMMA ClaimedStep ==
  ASSUME TypeOK, Timed, NotYetNamed, Settled, Reclaimed, Claimed, [Next]_vars
  PROVE  Claimed'
<1> SUFFICES ASSUME NEW q \in Runs, pc'[q] \in Writing
             PROVE  staged'[id'[q]] # None \/ Dropped(id[q])'
  BY DEF Claimed
<1>1. CASE Stage(q)
  <2>1. id[q] \in SnapshotID /\ id' = id /\ staged' = [staged EXCEPT ![id[q]] = Claim]
    BY <1>1 DEF Stage, TypeOK, RunsOK, PhaseOK
  <2>2. Claim # None
    BY RetentionAssumption, PublisherAssumption, SentinelAssumption
    DEF Claim, Marker, TypeOK, Time
  <2> QED BY <2>1, <2>2 DEF TypeOK, TableOK
<1>2. CASE pc[q] \in Writing /\ id'[q] = id[q]
  <2>1. id[q] \in SnapshotID BY <1>2 DEF TypeOK, RunsOK, PhaseOK, Writing
  <2>2. CASE Dropped(id[q]) BY <1>2, <2>2, LostGrows DEF Dropped
  <2>3. CASE staged[id[q]] # None /\ staged'[id[q]] = None
    <3>1. pc[q] \in Before BY <1>2 DEF Writing, Before
    <3>2. ~Live(id[q]) /\ \A r \in Runs : replaced[r] # None => replaced[r].id # id[q]
      BY <3>1 DEF NotYetNamed
    <3>3. \E c \in {"markerTTL", "lateUnstage"} : [cause |-> c, id |-> id[q]] \in lost'
      BY <2>1, <2>3, <3>2, MarkersLeaveTracked
    <3> QED BY <1>2, <3>3 DEF Dropped, Causes
  <2> QED BY <1>2, <2>2, <2>3 DEF Claimed
<1> QED BY <1>1, <1>2, WritingMoves

\* Every set that nothing bounds is found again after a step.
LEMMA TrackedStep ==
  ASSUME TypeOK, TypeOK', Timed, NotYetNamed, Settled, Settled', Reclaimed, Claimed,
         EverySetIsTracked, [Next]_vars
  PROVE  EverySetIsTracked'
<1> SUFFICES ASSUME NEW i \in SnapshotID, Unbound(i)' # {}
             PROVE  \/ Live(i)' \/ staged'[i] # None \/ Owed(i)' \/ Dropped(i)'
  BY DEF EverySetIsTracked, Unbounded, Unbound, Stored, Dropped
<1>1. CASE Dropped(i) BY <1>1, LostGrows DEF Dropped
<1>2. CASE Live(i) BY <1>2, LiveMoves
<1>3. ASSUME \A r \in Runs : At(r, "writeChunks") => id[r] # i PROVE Unbound(i) # {}
  BY <1>3, OnlyItsRunStores
<1>4. ASSUME staged[i] # None, staged'[i] = None, ~Live(i) PROVE Dropped(i)'
  <2>1. ASSUME NEW r \in Runs, replaced[r] # None, replaced[r].id = i, Unbound(i) = {}
        PROVE  FALSE
    BY <1>3, <2>1 DEF NotYetNamed, Before
  <2>2. ASSUME Unbound(i) = {}, \A q \in Runs : id[q] # i PROVE FALSE BY <1>3, <2>2
  <2>3. \E c \in {"markerTTL", "lateUnstage"} : [cause |-> c, id |-> i] \in lost'
    BY <1>4, <2>1, <2>2, MarkersLeaveTracked
  <2> QED BY <2>3 DEF Dropped, Causes
<1>5. ASSUME NEW r \in Runs, Owes(r, i)
      PROVE  Owed(i)' \/ staged'[i] # None \/ Dropped(i)'
  <2>1. replaced[r] # None /\ replaced[r].id = i BY <1>5 DEF Owes
  <2>2. CASE Owes(r, i)' BY <2>2 DEF Owed
  <2>3. CASE Restage(r)
    <3>1. Claim # None
      BY RetentionAssumption, PublisherAssumption, SentinelAssumption
      DEF Claim, Marker, TypeOK, Time
    <3>2. \/ staged' = [staged EXCEPT ![i] = Claim]
          \/ [cause |-> "restage", id |-> i] \in lost'
      BY <2>1, <2>3 DEF Restage, Lose
    <3> QED BY <3>1, <3>2 DEF TypeOK, TableOK, Dropped, Causes
  <2>4. CASE Kill(r)
    <3>1. [cause |-> "kill", id |-> i] \in lost' BY <1>5, <2>1, <2>4 DEF Kill, Lose
    <3> QED BY <3>1 DEF Dropped, Causes
  <2>5. CASE replaced'[r] = replaced[r] /\ pc'[r] = "survey"
    <3>1. Unbound(replaced[r].id)' = {} BY <2>1, <2>5 DEF Settled, Settling
    <3> QED BY <2>1, <2>5, <3>1 DEF Unbound
  <2> QED BY <1>5, <2>2, <2>3, <2>4, <2>5, OwesMoves
<1>6. ASSUME NEW r \in Runs, At(r, "writeChunks"), id[r] = i
      PROVE  staged[i] # None \/ Dropped(i)
  BY <1>6 DEF Claimed, Writing
<1>7. Unbound(i) # {} => Live(i) \/ staged[i] # None \/ Owed(i) \/ Dropped(i)
  BY DEF EverySetIsTracked, Unbounded, Unbound, Stored, Dropped
<1> QED BY <1>1, <1>2, <1>3, <1>4, <1>5, <1>6, <1>7 DEF Owed

\* Nothing is stored, named or running at first.
LEMMA RInvInit == ASSUME Init, TypeOK PROVE RInv
<1>1. Minted /\ Timed BY SentinelAssumption DEF Init, Minted, Timed, Readable
<1>2. Backlogged /\ NotYetNamed /\ Settled /\ Reclaimed /\ Claimed
  BY DEF Init, Backlogged, NotYetNamed, Settled, Reclaimed, Claimed, Sweeping, Before,
         Writing
<1>3. EverySetIsTracked BY DEF Init, EverySetIsTracked, Unbounded, Stored
<1> QED BY <1>1, <1>2, <1>3 DEF RInv

\* Every step keeps the invariant.
LEMMA RInvStep == ASSUME Unrepeated, RInv, TypeOK', [Next]_vars PROVE RInv'
<1> USE DEF RInv
<1>1. Minted' BY MintedStep
<1>2. Timed' BY TimedStep
<1>3. Backlogged' BY BackloggedStep
<1>4. NotYetNamed' BY NotYetNamedStep
<1>5. Settled' BY SettledStep
<1>6. Reclaimed' BY ReclaimedStep
<1>7. Claimed' BY ClaimedStep
<1>8. EverySetIsTracked' BY <1>5, TrackedStep
<1> QED BY <1>1, <1>2, <1>3, <1>4, <1>5, <1>6, <1>7, <1>8

\* The invariant holds of every behaviour without a repeated event.
LEMMA Retention == ASSUME Unrepeated PROVE Spec => []RInv
<1>1. Init /\ TypeOK => RInv BY RInvInit
<1>2. RInv /\ TypeOK' /\ [Next]_vars => RInv' BY RInvStep
<1> QED BY <1>1, <1>2, TypeCorrect, PTL DEF Spec

\* Every chunk set is found again: it is named by the pointer, listed in the
\* registry, still owed a TTL or bounded by one, unless it was lost at one of the
\* steps Causes lists.  (StageSnapshot before PutChunks; restageSuperseded;
\* reclaimAbandoned)
THEOREM EverySetTracked == ASSUME Unrepeated PROVE Spec => []EverySetIsTracked
BY Retention, PTL DEF RInv

\* The registry loses no set it was the last to know of.
LEMMA RegistryStep ==
  ASSUME RInv, [Next]_vars, NEW i \in SnapshotID, staged[i] # None, staged'[i] = None,
         Unbounded(i)
  PROVE  \/ Live(i)
         \/ \E c \in {"markerTTL", "lateUnstage"} : [cause |-> c, id |-> i] \in lost'
<1>1. Unbound(i) # {} BY DEF Unbounded, Unbound, Stored
<1> QED BY <1>1, MarkersLeaveTracked DEF RInv

\* A set that is neither live, owed nor bounded leaves the registry only by the
\* marker's own TTL, or because a pass took it for the live one.  (unstage;
\* ExpireChunks before UnstageSnapshot)
THEOREM UnboundedStayRegistered == ASSUME Unrepeated PROVE Spec => RegistryKeepsTheUnbounded
<1>1. RInv /\ [Next]_vars
        => [\A i \in SnapshotID :
              staged[i] # None /\ staged'[i] = None /\ Unbounded(i)
                => \/ Live(i) \/ Owed(i)
                   \/ \E c \in {"markerTTL", "lateUnstage", "kill", "lostReply"} :
                        [cause |-> c, id |-> i] \in lost']_vars
  BY RegistryStep
<1> QED BY <1>1, Retention, PTL DEF Spec, RegistryKeepsTheUnbounded

=============================================================================
