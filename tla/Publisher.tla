------------------------------ MODULE Publisher ------------------------------
(***************************************************************************)
(* The scheduled publisher: invocations of internal/scanner.Run that       *)
(* publish through internal/dynamo.Store into one table.  An action is one *)
(* store call, with everything the run decides from its answer up to the   *)
(* next call: the calls of different invocations interleave, any of them   *)
(* may fail, and an invocation may be killed between any two of them.      *)
(***************************************************************************)
EXTENDS SnapshotContract, Sequences

CONSTANTS
  Runs,                \* invocation slots: the function's reserved concurrency
  Form,                \* what each unusable item holds where its document should be
  Faults,              \* what may go wrong in this instance
  MaxRuns,             \* invocations started in one behaviour (bound)
  RunLimit,            \* the function timeout
  ReadLimit,           \* longest a reader holds a pointer before its chunks
  AbandonedAfter,      \* abandonedAfter
  AbandonedRetention,  \* abandonedRetention
  StagingRetention,    \* stagingRetention
  PreviousReads,       \* Config.PreviousReadAttempts
  PointerAttempts,     \* maxPointerAttempts
  ExpireAttempts,      \* maxExpireAttempts
  ReclaimsPerRun,      \* maxReclaimsPerRun
  QuarantineKeys       \* maxQuarantineAttempts

\* kill: the platform ends an invocation, at its timeout or before it.
\* error: a store call fails.
\* lostReply: the pointer write lands and its reply does not arrive.
\* corrupt: the stored pointer stops reading and validating.
\* duplicate: a schedule event is delivered twice, within one second.
FaultKinds == {"kill", "error", "lostReply", "corrupt", "duplicate"}

ASSUME PublisherAssumption ==
  /\ Runs # {} /\ Faults \subseteq FaultKinds /\ MaxRuns \in Nat
  /\ RunLimit \in Nat /\ ReadLimit \in Nat
  /\ StagingRetention \in Nat
  /\ PreviousReads \in Nat \ {0} /\ PointerAttempts \in Nat \ {0}
  /\ ExpireAttempts \in Nat \ {0} /\ ReclaimsPerRun \in Nat
  /\ QuarantineKeys \in Nat
  /\ None \notin Runs

\* A marker outlives the longest invocation before it may be reclaimed, and
\* every retention outlives an invocation and a read started before it.
ASSUME RetentionAssumption ==
  /\ AbandonedAfter \in Nat /\ AbandonedAfter > RunLimit
  /\ StagingRetention > AbandonedAfter
  /\ AbandonedRetention \in Nat /\ AbandonedRetention > RunLimit + ReadLimit
  /\ \A g \in Groups : StaleFactor * Cadence[g] > RunLimit + ReadLimit

\* The type codes of the table's attributes, or no attribute at all: whatever is
\* stored, attributeTypeCode knows its type, and pointerGuard never comes to the
\* condition it keeps for one it does not.
Forms == {"absent", "S", "N", "B", "SS", "NS", "BS", "BOOL", "NULL", "L", "M"}

ASSUME FormAssumption == Form \in [Broken -> Forms]

-----------------------------------------------------------------------------
VARIABLES
  \* The table.
  pointer,      \* META/LATEST
  chunks,       \* the chunk items of every snapshot ID
  staged,       \* the staging markers
  quarantined,  \* the preserved pointer items, in key order
  \* The clock.
  now,
  \* Each invocation.
  pc,           \* the call it makes next
  id,           \* built.Metadata.SnapshotID
  body,         \* the results it publishes
  base,         \* the pointer of the previous snapshot it merged forward from
  seen,         \* the pointer it last read and acts on
  parts,        \* chunk indexes it has still to write, or keys to expire
  tries,        \* attempts at the call it repeats
  stamp,        \* the instant it sampled: PublishedAt, then the reclaim's now
  replaced,     \* the pointer its own write replaced and still owes a TTL, or settled
  backlog,      \* the markers its reclaim pass has still to act on
  entry,        \* the marker it is acting on
  failed,       \* publishErr # nil
  \* History.
  landed,       \* its own write moved the pointer
  launches,     \* invocations started
  used,         \* IDs minted
  scans,        \* list scans completed
  namedUntil,   \* when the pointer last stopped naming an ID
  lost          \* chunk sets whose retention was dropped, and at which step

table   == <<pointer, chunks, staged, quarantined>>
job     == <<id, body, base>>
publish == <<seen, parts, tries, stamp, replaced>>
sweep   == <<backlog, entry>>
history == <<launches, used, scans, namedUntil, lost>>
vars    == <<table, now, pc, job, publish, sweep, failed, landed, history>>

Steps ==
  {"idle", "scan", "readPointer", "readChunks", "stage", "planChunks",
   "writeChunks", "verify", "readLatest", "quarantine", "swap", "unstage",
   "expireCheck", "expire", "restage", "survey", "list", "sweep",
   "sweepExpire", "sweepUnstage"}

Entry == [id : SnapshotID, at : Nat]

ASSUME EntryAssumption == None \notin Entry

\* Where a chunk set's retention can be dropped: the run is killed before it
\* settles the set it replaced; the reply of the pointer write is lost; the
\* pointer that named the set is corrupt; the set could not be put back in the
\* registry; its marker is removed by a run that takes the set for live when it no
\* longer is; a marker reached its own TTL.
Causes == {"kill", "lostReply", "corrupt", "restage", "lateUnstage", "markerTTL"}

Readable == pointer \notin Broken \cup {None}

Init ==
  /\ pointer = None
  /\ chunks = [i \in SnapshotID |-> [p \in Parts |-> None]]
  /\ staged = [i \in SnapshotID |-> None]
  /\ quarantined = <<>>
  /\ now = 0
  /\ pc = [r \in Runs |-> "idle"]
  /\ id = [r \in Runs |-> None]
  /\ body = [r \in Runs |-> None]
  /\ base = [r \in Runs |-> None]
  /\ seen = [r \in Runs |-> None]
  /\ parts = [r \in Runs |-> {}]
  /\ tries = [r \in Runs |-> 0]
  /\ stamp = [r \in Runs |-> 0]
  /\ replaced = [r \in Runs |-> None]
  /\ backlog = [r \in Runs |-> {}]
  /\ entry = [r \in Runs |-> None]
  /\ failed = [r \in Runs |-> FALSE]
  /\ landed = [r \in Runs |-> FALSE]
  /\ launches = 0
  /\ used = {}
  /\ scans = [g \in Groups |-> {}]
  /\ namedUntil = [i \in SnapshotID |-> None]
  /\ lost = {}

-----------------------------------------------------------------------------
(* Moving between calls                                                    *)

At(r, step) == pc[r] = step
Goto(r, step) == pc' = [pc EXCEPT ![r] = step]
Repeat(r, n) == tries' = [tries EXCEPT ![r] = n]

\* The invocation is over and its memory is gone.
Forget(r) ==
  /\ Goto(r, "idle")
  /\ id' = [id EXCEPT ![r] = None]
  /\ body' = [body EXCEPT ![r] = None]
  /\ base' = [base EXCEPT ![r] = None]
  /\ seen' = [seen EXCEPT ![r] = None]
  /\ parts' = [parts EXCEPT ![r] = {}]
  /\ tries' = [tries EXCEPT ![r] = 0]
  /\ stamp' = [stamp EXCEPT ![r] = 0]
  /\ replaced' = [replaced EXCEPT ![r] = None]
  /\ backlog' = [backlog EXCEPT ![r] = {}]
  /\ entry' = [entry EXCEPT ![r] = None]
  /\ failed' = [failed EXCEPT ![r] = FALSE]
  /\ landed' = [landed EXCEPT ![r] = FALSE]

Lose(cause, i) == lost' = lost \cup {[cause |-> cause, id |-> i]}

Live(i) == Readable /\ pointer.id = i

\* The stored chunk indexes of an ID, and whether nothing bounds one of them.
Stored(i) == {p \in Parts : chunks[i][p] # None}
Unbounded(i) == \E p \in Stored(i) : chunks[i][p].expires = None

\* A running invocation still owes the set its own pointer write replaced.
Owes(r, i) ==
  /\ replaced[r] # None /\ replaced[r].id = i
  /\ pc[r] \in {"unstage", "expireCheck", "expire", "restage"}

Owed(i) == \E r \in Runs : Owes(r, i)

-----------------------------------------------------------------------------
(* Scanning and merging forward                                            *)

\* An event names a group.  The classification instant is sampled before the
\* first lookup and names the snapshot; nothing in the code refuses a second
\* invocation in the same second, which only a repeated event produces.
Start(r, g) ==
  /\ At(r, "idle") /\ launches < MaxRuns
  /\ LET i == [group |-> g, at |-> now] IN
       /\ i \in used => "duplicate" \in Faults
       /\ id' = [id EXCEPT ![r] = i]
       /\ used' = used \cup {i}
  /\ launches' = launches + 1
  /\ Goto(r, "scan")
  /\ UNCHANGED <<table, now, body, base, publish, sweep, failed, landed,
                 scans, namedUntil, lost>>

OwnBody(i, answer) ==
  [g \in Groups |-> IF g = i.group THEN [at |-> i.at, answer |-> answer] ELSE None]

\* checker.Run returns every name of the group, all classified at one instant.
Scan(r) ==
  /\ At(r, "scan")
  /\ \E answer \in Answers :
       /\ body' = [body EXCEPT ![r] = OwnBody(id[r], answer)]
       /\ scans' = [scans EXCEPT ![id[r].group] =
                      @ \cup {[at |-> id[r].at, answer |-> answer]}]
  /\ Goto(r, "readPointer")
  /\ UNCHANGED <<table, now, id, base, publish, sweep, failed, landed,
                 launches, used, namedUntil, lost>>

\* A run that ends before it has written anything: the reclaim pass does not run.
Abort(r) == Forget(r) /\ UNCHANGED <<table, now, history>>

ScanFails(r) == At(r, "scan") /\ "error" \in Faults /\ Abort(r)

\* readPrevious, first call.  An absent pointer is a bootstrap.
ReadPointer(r) ==
  /\ At(r, "readPointer")
  /\ \/ /\ pointer = None
        /\ Goto(r, "stage") /\ Repeat(r, 0)
        /\ UNCHANGED seen
     \/ /\ Readable
        /\ seen' = [seen EXCEPT ![r] = pointer]
        /\ Goto(r, "readChunks")
        /\ UNCHANGED tries
  /\ UNCHANGED <<table, now, job, parts, stamp, replaced, sweep, failed, landed,
                 history>>

\* Mutation: a carried list is dated by the run that carries it.
CarryForwardAsFresh(own, previous, g) ==
  [h \in Groups |->
     IF h = g \/ previous[h] = None THEN own[h]
     ELSE [at |-> own[g].at, answer |-> previous[h].answer]]

\* Mutation: nothing is carried.
CarryForwardNothing(own, previous, g) == own

\* Lists of other groups keep what the previous snapshot says of them, their
\* own scan instants included; a list it has no instant for is dropped.
CarryForward(own, previous, g) ==
  [h \in Groups |-> IF h = g THEN own[h] ELSE previous[h]]

\* readPrevious, second call, and what Run decides from it.  A snapshot scanned
\* later than this one ends the run.  Otherwise every carried instant is at or
\* before the scan, so Build accepts the merged payload.
ReadChunks(r) ==
  LET previous == seen[r] IN
  /\ At(r, "readChunks")
  /\ \/ /\ Stored(previous.id) = {}
        /\ Goto(r, "stage") /\ Repeat(r, 0)
        /\ seen' = [seen EXCEPT ![r] = None]
        /\ UNCHANGED <<table, now, job, parts, stamp, replaced, sweep, failed,
                       landed, history>>
     \/ /\ Verifies(chunks[previous.id], previous.body)
        /\ previous.id.at > id[r].at
        /\ Abort(r)
     \/ /\ Verifies(chunks[previous.id], previous.body)
        /\ previous.id.at <= id[r].at
        /\ base' = [base EXCEPT ![r] = previous]
        /\ body' = [body EXCEPT ![r] =
                      CarryForward(@, previous.body, id[r].group)]
        /\ Goto(r, "stage") /\ Repeat(r, 0)
        /\ seen' = [seen EXCEPT ![r] = None]
        /\ UNCHANGED <<table, now, id, parts, stamp, replaced, sweep, failed,
                       landed, history>>

\* A read that fails is repeated from the pointer, and after the last attempt
\* the run publishes past what it could not read.
ReadFails(r) ==
  /\ \/ At(r, "readPointer") /\ ("error" \in Faults \/ pointer \in Broken)
     \/ /\ At(r, "readChunks")
        /\ \/ "error" \in Faults
           \/ /\ Stored(seen[r].id) # {}
              /\ ~Verifies(chunks[seen[r].id], seen[r].body)
  /\ \/ tries[r] + 1 < PreviousReads /\ Goto(r, "readPointer") /\ Repeat(r, tries[r] + 1)
     \/ tries[r] + 1 >= PreviousReads /\ Goto(r, "stage") /\ Repeat(r, 0)
  /\ seen' = [seen EXCEPT ![r] = None]
  /\ UNCHANGED <<table, now, job, parts, stamp, replaced, sweep, failed, landed,
                 history>>

-----------------------------------------------------------------------------
(* Staging and writing chunks                                              *)

Claim == [at |-> now, until |-> now + StagingRetention]

\* Mutation: no marker is written.
StageNothing(r) ==
  /\ At(r, "stage")
  /\ stamp' = [stamp EXCEPT ![r] = now]
  /\ Goto(r, "planChunks")
  /\ UNCHANGED <<table, now, job, seen, parts, tries, replaced, sweep, failed,
                 landed, history>>

\* The marker is durable before the first chunk; PublishedAt is sampled next.
Stage(r) ==
  /\ At(r, "stage")
  /\ staged' = [staged EXCEPT ![id[r]] = Claim]
  /\ stamp' = [stamp EXCEPT ![r] = now]
  /\ Goto(r, "planChunks")
  /\ UNCHANGED <<pointer, chunks, quarantined, now, job, seen, parts, tries,
                 replaced, sweep, failed, landed, history>>

\* The write may have landed all the same; either way no chunk is written.
StageFails(r) ==
  /\ At(r, "stage") /\ "error" \in Faults
  /\ staged' \in {staged, [staged EXCEPT ![id[r]] = Claim]}
  /\ Forget(r)
  /\ UNCHANGED <<pointer, chunks, quarantined, now, history>>

\* snapshot.Publish returned: retention of what was replaced, if the write
\* landed, and the reclaim pass in any case.
GotoSurvey(r) == Goto(r, "survey") /\ stamp' = [stamp EXCEPT ![r] = now]

PublishFails(r) ==
  /\ failed' = [failed EXCEPT ![r] = TRUE]
  /\ GotoSurvey(r)
  /\ base' = [base EXCEPT ![r] = None]
  /\ seen' = [seen EXCEPT ![r] = None]
  /\ parts' = [parts EXCEPT ![r] = {}]
  /\ Repeat(r, 0)
  /\ UNCHANGED <<now, id, body, replaced, sweep>>

\* PutChunks: the stored set is read and the rule decides, for every index at once.
PlanChunks(r) ==
  LET plan == PlanChunkWrite(chunks[id[r]], body[r]) IN
  /\ At(r, "planChunks")
  /\ UNCHANGED <<table, landed, history>>
  /\ \/ plan = "refuse" /\ PublishFails(r)
     \/ /\ plan = "skip" /\ Goto(r, "verify")
        /\ UNCHANGED <<now, job, publish, sweep, failed>>
     \/ /\ plan = "resume" /\ Goto(r, "writeChunks")
        /\ parts' = [parts EXCEPT ![r] = MissingParts(chunks[id[r]])]
        /\ UNCHANGED <<now, job, seen, tries, stamp, replaced, sweep, failed>>

\* A batch stores some of its items and returns the others unprocessed; the
\* put is unconditional and the item it writes carries no TTL.
WriteChunks(r) ==
  /\ At(r, "writeChunks")
  /\ \E S \in SUBSET parts[r] :
       /\ S # {}
       /\ chunks' = [chunks EXCEPT ![id[r]] =
            [p \in Parts |-> IF p \in S THEN [body |-> body[r], expires |-> None]
                                        ELSE chunks[id[r]][p]]]
       /\ parts' = [parts EXCEPT ![r] = @ \ S]
       /\ Goto(r, IF parts[r] \ S = {} THEN "verify" ELSE "writeChunks")
  /\ UNCHANGED <<pointer, staged, quarantined, now, job, seen, tries, stamp,
                 replaced, sweep, failed, landed, history>>

\* The whole set is read back before anything can name it.
VerifyChunks(r) ==
  /\ At(r, "verify")
  /\ UNCHANGED <<table, landed, history>>
  /\ \/ /\ Verifies(chunks[id[r]], body[r])
        /\ Goto(r, "readLatest")
        /\ UNCHANGED <<now, job, publish, sweep, failed>>
     \/ ~Verifies(chunks[id[r]], body[r]) /\ PublishFails(r)

-----------------------------------------------------------------------------
(* PutLatest: a compare-and-swap against the item it read                  *)

NewPointer(r) == [id |-> id[r], body |-> body[r], published |-> stamp[r]]

\* The run's own pointer is stored: nothing is written and nothing replaced.
ReadLatest(r) ==
  LET plan == PlanLatestWrite(pointer, NewPointer(r)) IN
  /\ At(r, "readLatest")
  /\ UNCHANGED <<table, landed, history>>
  /\ \/ plan = "conflict" /\ PublishFails(r)
     \/ /\ plan = "keep" /\ Goto(r, "unstage")
        /\ base' = [base EXCEPT ![r] = None]
        /\ Repeat(r, 0)
        /\ UNCHANGED <<now, id, body, seen, parts, stamp, replaced, sweep, failed>>
     \/ /\ plan = "write"
        /\ seen' = [seen EXCEPT ![r] = pointer]
        /\ Goto(r, IF pointer \in Broken THEN "quarantine" ELSE "swap")
        /\ UNCHANGED <<now, job, parts, tries, stamp, replaced, sweep, failed>>

\* An unusable pointer is copied to a key of its own before it is replaced.
Quarantine(r) ==
  /\ At(r, "quarantine")
  /\ UNCHANGED <<pointer, chunks, staged, landed, history>>
  /\ \/ /\ Len(quarantined) < QuarantineKeys
        /\ quarantined' = Append(quarantined, seen[r])
        /\ Goto(r, "swap")
        /\ UNCHANGED <<now, job, publish, sweep, failed>>
     \/ /\ Len(quarantined) >= QuarantineKeys
        /\ PublishFails(r)
        /\ UNCHANGED quarantined

\* What there is in an item to compare: a pointer that reads is a string.
FormOf(item) ==
  IF item \in Broken THEN Form[item] ELSE IF item = None THEN "absent" ELSE "S"

\* Mutation: a document that is a string is not compared either.
GuardOnForm(r) == FormOf(pointer) = FormOf(seen[r])

\* The item the plan was made from, by its document when that is a string, and
\* otherwise by no more than the document's absence or its type.
Guard(r) ==
  \/ pointer = seen[r]
  \/ /\ seen[r] \in Broken /\ Form[seen[r]] # "S"
     /\ FormOf(pointer) = Form[seen[r]]

\* The pointer moves; the history records what stopped being named, and when.
Install(r) ==
  /\ Guard(r)
  /\ pointer' = NewPointer(r)
  /\ landed' = [landed EXCEPT ![r] = TRUE]
  /\ namedUntil' = [i \in SnapshotID |-> IF Live(i) THEN now ELSE namedUntil[i]]
  /\ UNCHANGED <<chunks, staged, quarantined, now, launches, used, scans>>

Swap(r) ==
  /\ At(r, "swap") /\ Install(r)
  /\ replaced' = [replaced EXCEPT ![r] =
                    IF seen[r] \in Broken THEN None ELSE seen[r]]
  /\ Goto(r, "unstage")
  /\ base' = [base EXCEPT ![r] = None]
  /\ seen' = [seen EXCEPT ![r] = None]
  /\ Repeat(r, 0)
  /\ UNCHANGED <<id, body, parts, stamp, sweep, failed, lost>>

\* The swap after which nobody knows what it replaced.
LoseReplaced(r) ==
  IF Readable THEN Lose("lostReply", pointer.id) ELSE UNCHANGED lost

\* The write lands and its caller gets an error: the publication fails.
SwapUnanswered(r) ==
  /\ At(r, "swap") /\ "lostReply" \in Faults
  /\ Install(r) /\ LoseReplaced(r)
  /\ PublishFails(r)

\* The client repeats a write whose reply was lost, and the repetition finds
\* the condition false: the caller reads again.
SwapEchoed(r) ==
  /\ At(r, "swap") /\ "lostReply" \in Faults
  /\ Install(r) /\ LoseReplaced(r)
  /\ tries[r] + 1 < PointerAttempts
  /\ Goto(r, "readLatest") /\ Repeat(r, tries[r] + 1)
  /\ seen' = [seen EXCEPT ![r] = None]
  /\ UNCHANGED <<job, parts, stamp, replaced, sweep, failed>>

\* Mutation: a refused write ends the publication at once.
SwapRefusedOnce(r) ==
  /\ At(r, "swap") /\ ~Guard(r)
  /\ PublishFails(r)
  /\ UNCHANGED <<table, landed, history>>

\* Mutation: nothing follows the last attempt.
SwapRefusedWithoutEnd(r) ==
  /\ At(r, "swap") /\ ~Guard(r) /\ tries[r] + 1 < PointerAttempts
  /\ Goto(r, "readLatest") /\ Repeat(r, tries[r] + 1)
  /\ seen' = [seen EXCEPT ![r] = None]
  /\ UNCHANGED <<table, now, job, parts, stamp, replaced, sweep, failed, landed,
                 history>>

\* The pointer changed under the run, which submits its scan to the rule again.
SwapRefused(r) ==
  /\ At(r, "swap") /\ ~Guard(r)
  /\ UNCHANGED <<table, landed, history>>
  /\ \/ /\ tries[r] + 1 < PointerAttempts
        /\ Goto(r, "readLatest") /\ Repeat(r, tries[r] + 1)
        /\ seen' = [seen EXCEPT ![r] = None]
        /\ UNCHANGED <<now, job, parts, stamp, replaced, sweep, failed>>
     \/ tries[r] + 1 >= PointerAttempts /\ PublishFails(r)

\* A store call of Publish fails before anything of it lands.
PublishCallFails(r) ==
  /\ pc[r] \in {"planChunks", "writeChunks", "verify", "readLatest", "quarantine", "swap"}
  /\ "error" \in Faults
  /\ PublishFails(r)
  /\ UNCHANGED <<table, landed, history>>

-----------------------------------------------------------------------------
(* Retention of what the write replaced                                    *)

\* A marker is removed whoever wrote it last: the marker of a set the run takes
\* for live is one another run has put back, once that run superseded the set.
RemoveMarker(i, takenForLive) ==
  \/ /\ staged' = [staged EXCEPT ![i] = None]
     /\ IF takenForLive /\ ~Live(i) THEN Lose("lateUnstage", i) ELSE UNCHANGED lost
  \/ "error" \in Faults /\ UNCHANGED <<staged, lost>>

\* Mutation: the run settles a replaced snapshot even when there was none.
UnstageThenSettle(r) ==
  /\ At(r, "unstage")
  /\ RemoveMarker(id[r], TRUE)
  /\ Goto(r, "expireCheck")
  /\ UNCHANGED <<pointer, chunks, quarantined, now, job, seen, parts, tries, stamp,
                 replaced, sweep, failed, landed, launches, used, scans, namedUntil>>

\* The run's own marker.  Removing it may fail, and the marker is then kept.
Unstage(r) ==
  /\ At(r, "unstage")
  /\ RemoveMarker(id[r], TRUE)
  /\ IF replaced[r] = None
       THEN GotoSurvey(r)
       ELSE Goto(r, "expireCheck") /\ UNCHANGED stamp
  /\ UNCHANGED <<pointer, chunks, quarantined, now, job, seen, parts, tries,
                 replaced, sweep, failed, landed, launches, used, scans, namedUntil>>

\* ExpireChunks refuses the ID the pointer names, and every ID while a stored
\* pointer does not read.  An absent pointer names nothing.
MayExpire(i) == pointer = None \/ (Readable /\ pointer.id # i)

\* The TTL is set on every chunk of keys that is still stored.
Expiring(i, keys, at) ==
  [chunks EXCEPT ![i] =
     [p \in Parts |-> IF p \in keys /\ chunks[i][p] # None
                        THEN [body |-> chunks[i][p].body, expires |-> at]
                        ELSE chunks[i][p]]]

\* The first half of ExpireChunks: the pointer, then the keys.  No keys means
\* there is nothing left to bound.
ExpireCheck(r) ==
  LET i == replaced[r].id IN
  /\ At(r, "expireCheck") /\ MayExpire(i)
  /\ IF Stored(i) = {}
       THEN GotoSurvey(r) /\ Repeat(r, 0) /\ UNCHANGED parts
       ELSE /\ Goto(r, "expire")
            /\ parts' = [parts EXCEPT ![r] = Stored(i)]
            /\ UNCHANGED <<stamp, tries>>
  /\ UNCHANGED <<table, now, job, seen, replaced, sweep, failed, landed, history>>

\* Mutation: the window is left out.
SupersededAtOnce(r) == stamp[r]

\* The window is the replaced snapshot's own staleness threshold.
SupersededUntil(r) == stamp[r] + StaleAfter(replaced[r].body)

\* The second half: one update per key.
Expire(r) ==
  /\ At(r, "expire")
  /\ chunks' = Expiring(replaced[r].id, parts[r], SupersededUntil(r))
  /\ parts' = [parts EXCEPT ![r] = {}]
  /\ GotoSurvey(r) /\ Repeat(r, 0)
  /\ UNCHANGED <<pointer, staged, quarantined, now, job, seen, replaced, sweep,
                 failed, landed, history>>

\* An attempt that fails has bounded some of the chunks, or all; after the last one the set
\* goes back to the registry.
ExpireFails(r) ==
  /\ \/ /\ At(r, "expireCheck")
        /\ "error" \in Faults \/ ~MayExpire(replaced[r].id)
        /\ UNCHANGED chunks
     \/ /\ At(r, "expire") /\ "error" \in Faults
        /\ \E S \in SUBSET parts[r] :
             chunks' = Expiring(replaced[r].id, S, SupersededUntil(r))
  /\ Repeat(r, tries[r] + 1)
  /\ Goto(r, IF tries[r] + 1 < ExpireAttempts THEN "expireCheck" ELSE "restage")
  /\ parts' = [parts EXCEPT ![r] = {}]
  /\ UNCHANGED <<pointer, staged, quarantined, now, job, seen, stamp, replaced,
                 sweep, failed, landed, history>>

\* restageSuperseded; a set whose expiry did not land is no longer treated as
\* settled by the reclaim pass.
Restage(r) ==
  /\ At(r, "restage")
  /\ \/ /\ staged' = [staged EXCEPT ![replaced[r].id] = Claim]
        /\ UNCHANGED lost
     \/ /\ "error" \in Faults
        /\ Lose("restage", replaced[r].id)
        /\ UNCHANGED staged
  /\ replaced' = [replaced EXCEPT ![r] = None]
  /\ GotoSurvey(r) /\ Repeat(r, 0)
  /\ UNCHANGED <<pointer, chunks, quarantined, now, job, seen, parts, sweep,
                 failed, landed, launches, used, scans, namedUntil>>

-----------------------------------------------------------------------------
(* The reclaim pass                                                        *)

\* The run is over: its result is returned, or its error.
Finish(r) == Forget(r) /\ UNCHANGED <<table, now, history>>

\* The pointer is read once, before the registry; one that cannot be read ends
\* the pass.
Survey(r) ==
  /\ At(r, "survey") /\ (pointer = None \/ Readable)
  /\ seen' = [seen EXCEPT ![r] = pointer]
  /\ Goto(r, "list")
  /\ UNCHANGED <<table, now, job, parts, tries, stamp, replaced, sweep, failed,
                 landed, history>>

\* The live snapshot, and the one this run replaced once that is settled, have
\* the retention they should have: only their markers are left over.
Retained(r, i) ==
  \/ seen[r] # None /\ i = seen[r].id
  \/ replaced[r] # None /\ i = replaced[r].id

\* Mutation: the grace period is no longer than an invocation.
ReclaimableTooSoon(r, e) == e.id # id[r] /\ stamp[r] >= e.at + RunLimit

\* A marker is old enough that its publisher cannot be running, and is not this
\* run's own.
Reclaimable(r, e) ==
  e.id # id[r] /\ stamp[r] >= e.at + AbandonedAfter

Markers == {[id |-> i, at |-> staged[i].at] : i \in {j \in SnapshotID : staged[j] # None}}

\* Every marker the pass will act on.  What it skips costs it nothing, so the
\* order of the registry shows only in which markers the budget leaves over.
ListMarkers(r) ==
  /\ At(r, "list")
  /\ backlog' = [backlog EXCEPT ![r] =
                   {e \in Markers : Retained(r, e.id) \/ Reclaimable(r, e)}]
  /\ Goto(r, "sweep")
  /\ UNCHANGED <<table, now, job, publish, entry, failed, landed, history>>

SurveyFails(r) ==
  /\ \/ At(r, "survey") /\ ("error" \in Faults \/ pointer \in Broken)
     \/ At(r, "list") /\ "error" \in Faults
  /\ Finish(r)

TakeEntry(r, e) ==
  /\ At(r, "sweep") /\ e \in backlog[r] /\ tries[r] < ReclaimsPerRun
  /\ backlog' = [backlog EXCEPT ![r] = @ \ {e}]
  /\ Repeat(r, tries[r] + 1)

SweepDone(r) ==
  /\ At(r, "sweep")
  /\ backlog[r] = {} \/ tries[r] >= ReclaimsPerRun
  /\ Finish(r)

\* A retained set keeps its chunks and loses its marker.  A marker that cannot
\* be removed is kept.  The snapshot that was live when the pass began may have
\* been superseded and put back in the registry since.
SweepMarker(r) ==
  \E e \in backlog[r] :
    /\ Retained(r, e.id) /\ TakeEntry(r, e)
    /\ RemoveMarker(e.id, seen[r] # None /\ e.id = seen[r].id)
    /\ UNCHANGED <<pointer, chunks, quarantined, now, pc, job, seen, parts,
                   stamp, replaced, entry, failed, landed, launches, used,
                   scans, namedUntil>>

\* The first half of ExpireChunks on an abandoned set; one that is refused or
\* fails keeps its marker, and one that is gone leaves only its marker.
SweepCheck(r) ==
  \E e \in backlog[r] :
    /\ ~Retained(r, e.id) /\ TakeEntry(r, e)
    /\ \/ /\ ~MayExpire(e.id) \/ "error" \in Faults
          /\ UNCHANGED <<pc, parts, entry>>
       \/ /\ MayExpire(e.id)
          /\ entry' = [entry EXCEPT ![r] = e]
          /\ parts' = [parts EXCEPT ![r] = Stored(e.id)]
          /\ Goto(r, IF Stored(e.id) = {} THEN "sweepUnstage" ELSE "sweepExpire")
    /\ UNCHANGED <<table, now, job, seen, stamp, replaced, failed, landed, history>>

\* Mutation: the window is left out.
AbandonedAtOnce(r) == stamp[r]

\* The window of a set nobody published is counted from the start of the pass.
AbandonedUntil(r) == stamp[r] + AbandonedRetention

SweepExpire(r) ==
  /\ At(r, "sweepExpire")
  /\ chunks' = Expiring(entry[r].id, parts[r], AbandonedUntil(r))
  /\ parts' = [parts EXCEPT ![r] = {}]
  /\ Goto(r, "sweepUnstage")
  /\ UNCHANGED <<pointer, staged, quarantined, now, job, seen, tries, stamp,
                 replaced, sweep, failed, landed, history>>

\* Mutation: the marker goes although the expiry failed.
SweepExpireUnchecked(r) ==
  /\ At(r, "sweepExpire") /\ "error" \in Faults
  /\ \E S \in SUBSET parts[r] :
       chunks' = Expiring(entry[r].id, S, AbandonedUntil(r))
  /\ parts' = [parts EXCEPT ![r] = {}]
  /\ Goto(r, "sweepUnstage")
  /\ UNCHANGED <<pointer, staged, quarantined, now, job, seen, tries, stamp,
                 replaced, sweep, failed, landed, history>>

\* A partly applied expiry keeps the marker, and a later pass repeats it.
SweepExpireFails(r) ==
  /\ At(r, "sweepExpire") /\ "error" \in Faults
  /\ \E S \in SUBSET parts[r] :
       chunks' = Expiring(entry[r].id, S, AbandonedUntil(r))
  /\ parts' = [parts EXCEPT ![r] = {}]
  /\ entry' = [entry EXCEPT ![r] = None]
  /\ Goto(r, "sweep")
  /\ UNCHANGED <<pointer, staged, quarantined, now, job, seen, tries, stamp,
                 replaced, backlog, failed, landed, history>>

SweepUnstage(r) ==
  /\ At(r, "sweepUnstage")
  /\ \/ staged' = [staged EXCEPT ![entry[r].id] = None]
     \/ "error" \in Faults /\ UNCHANGED staged
  /\ entry' = [entry EXCEPT ![r] = None]
  /\ Goto(r, "sweep")
  /\ UNCHANGED <<pointer, chunks, quarantined, now, job, publish, backlog,
                 failed, landed, history>>

-----------------------------------------------------------------------------
(* The platform, the clock and the table's own deletions                   *)

Running(r) == ~At(r, "idle")

\* The timeout, an out-of-memory stop, a crash: no defer runs.
Kill(r) ==
  /\ Running(r) /\ "kill" \in Faults
  /\ Forget(r)
  /\ IF replaced[r] # None /\ Owes(r, replaced[r].id)
       THEN Lose("kill", replaced[r].id)
       ELSE UNCHANGED lost
  /\ UNCHANGED <<table, now, launches, used, scans, namedUntil>>

\* No invocation outlives the function timeout.
Tick ==
  /\ now < MaxTime
  /\ \A r \in Runs : Running(r) => now < id[r].at + RunLimit
  /\ now' = now + 1
  /\ UNCHANGED <<table, pc, job, publish, sweep, failed, landed, history>>

\* What is stored at the pointer's key stops being a pointer.
Corrupt(b) ==
  /\ "corrupt" \in Faults /\ pointer \notin {None, b}
  /\ pointer' = b
  /\ namedUntil' = [i \in SnapshotID |-> IF Live(i) THEN now ELSE namedUntil[i]]
  /\ IF Readable THEN Lose("corrupt", pointer.id) ELSE UNCHANGED lost
  /\ UNCHANGED <<chunks, staged, quarantined, now, pc, job, publish, sweep,
                 failed, landed, launches, used, scans>>

\* The table deletes an item some time after its TTL, each on its own.
DeleteChunk(i, p) ==
  /\ chunks[i][p] # None /\ chunks[i][p].expires # None
  /\ chunks[i][p].expires <= now
  /\ chunks' = [chunks EXCEPT ![i][p] = None]
  /\ UNCHANGED <<pointer, staged, quarantined, now, pc, job, publish, sweep,
                 failed, landed, history>>

DeleteMarker(i) ==
  /\ staged[i] # None /\ staged[i].until <= now
  /\ staged' = [staged EXCEPT ![i] = None]
  /\ Lose("markerTTL", i)
  /\ UNCHANGED <<pointer, chunks, quarantined, now, pc, job, publish, sweep,
                 failed, landed, launches, used, scans, namedUntil>>

-----------------------------------------------------------------------------
(* The specification                                                       *)

Gather(r) ==
  \/ Scan(r) \/ ScanFails(r)
  \/ ReadPointer(r) \/ ReadChunks(r) \/ ReadFails(r)

WriteChunkSet(r) ==
  Stage(r) \/ StageFails(r) \/ PlanChunks(r) \/ WriteChunks(r) \/ VerifyChunks(r)

MovePointer(r) ==
  \/ ReadLatest(r) \/ Quarantine(r) \/ Swap(r)
  \/ SwapUnanswered(r) \/ SwapEchoed(r) \/ SwapRefused(r)
  \/ PublishCallFails(r)

Settle(r) ==
  Unstage(r) \/ ExpireCheck(r) \/ Expire(r) \/ ExpireFails(r) \/ Restage(r)

Reclaim(r) ==
  \/ Survey(r) \/ ListMarkers(r) \/ SurveyFails(r)
  \/ SweepMarker(r) \/ SweepCheck(r) \/ SweepDone(r)
  \/ SweepExpire(r) \/ SweepExpireFails(r) \/ SweepUnstage(r)

\* The next call of a running invocation.
Step(r) ==
  Gather(r) \/ WriteChunkSet(r) \/ MovePointer(r) \/ Settle(r) \/ Reclaim(r)

Environment ==
  \/ Tick
  \/ \E b \in Broken : Corrupt(b)
  \/ \E i \in SnapshotID : DeleteMarker(i)
  \/ \E i \in SnapshotID, p \in Parts : DeleteChunk(i, p)

Next ==
  \/ \E r \in Runs, g \in Groups : Start(r, g)
  \/ \E r \in Runs : Step(r) \/ Kill(r)
  \/ Environment

Spec == Init /\ [][Next]_vars

\* An invocation the platform has started keeps making its calls: every call has
\* a deadline, so each one is answered.  Nothing makes a schedule fire.
FairSpec == Spec /\ \A r \in Runs : WF_vars(Step(r))

-----------------------------------------------------------------------------
(* Properties                                                              *)

TableOK ==
  /\ pointer \in Pointer \cup Broken \cup {None}
  /\ chunks \in [SnapshotID -> [Parts -> Chunk \cup {None}]]
  /\ staged \in [SnapshotID -> Marker \cup {None}]
  /\ quarantined \in Seq(Broken)

RunsOK ==
  /\ pc \in [Runs -> Steps]
  /\ id \in [Runs -> SnapshotID \cup {None}]
  /\ body \in [Runs -> Body \cup {None}]
  /\ base \in [Runs -> Pointer \cup {None}]
  /\ seen \in [Runs -> Pointer \cup Broken \cup {None}]
  /\ parts \in [Runs -> SUBSET Parts]
  /\ tries \in [Runs -> Nat]
  /\ stamp \in [Runs -> Time]
  /\ replaced \in [Runs -> Pointer \cup {None}]
  /\ backlog \in [Runs -> SUBSET Entry]
  /\ entry \in [Runs -> Entry \cup {None}]
  /\ failed \in [Runs -> BOOLEAN]
  /\ landed \in [Runs -> BOOLEAN]

HistoryOK ==
  /\ launches \in Nat
  /\ used \in SUBSET SnapshotID
  /\ scans \in [Groups -> SUBSET ListScan]
  /\ namedUntil \in [SnapshotID -> Time \cup {None}]
  /\ lost \in SUBSET [cause : Causes, id : SnapshotID]

\* Where in a run each of its variables holds something: what a call acts on is
\* there when the call is made.
Reclaiming == {"list", "sweep", "sweepExpire", "sweepUnstage"}

PhaseOK(r) ==
  /\ Running(r) <=> id[r] # None
  /\ pc[r] \notin {"idle", "scan"} <=> body[r] # None
  /\ body[r] # None => body[r][id[r].group] # None
  /\ At(r, "readChunks") => seen[r] \in Pointer
  /\ At(r, "quarantine") => seen[r] \in Broken
  /\ pc[r] \in {"expireCheck", "expire", "restage"} => replaced[r] # None
  /\ pc[r] \in Reclaiming => seen[r] \notin Broken
  /\ pc[r] \in {"sweepExpire", "sweepUnstage"} => entry[r] # None

\* What each variable holds, in the table, in each invocation and in the history.
TypeOK ==
  /\ TableOK
  /\ now \in Time
  /\ RunsOK
  /\ HistoryOK
  /\ \A r \in Runs : PhaseOK(r)

\* The set i is whole, it is the payload the pointer that named it was built
\* from, and nothing will delete any of it.
Servable(p) ==
  /\ Verifies(chunks[p.id], p.body)
  /\ \A k \in Parts : chunks[p.id][k].expires = None

\* Whatever fails, wherever a run is killed and however runs overlap, what the
\* pointer names can be read whole, and no expiry ever reaches it: neither the
\* retention of a replaced snapshot nor a reclaim, each of which reads the
\* pointer before it writes a TTL.  (Publish; ExpireChunks; reclaimAbandoned)
LiveIsServable == Readable => Servable(pointer)

\* A reader that resolved the pointer just before it moved still finds every
\* chunk, for as long as it may take to ask: the TTL of a superseded set counts
\* from an instant sampled before the pointer moved.  (expireSuperseded)
ReadersKeepTheirChunks ==
  \A i \in SnapshotID :
    namedUntil[i] # None /\ now <= namedUntil[i] + ReadLimit
      => MissingParts(chunks[i]) = {}

\* Every chunk set is found again: it is named by the pointer, listed in the
\* registry, still owed a TTL by the run that replaced it, or bounded by one,
\* unless its retention was dropped at one of the steps Causes lists.
\* (StageSnapshot before PutChunks; restageSuperseded; reclaimAbandoned)
EverySetIsTracked ==
  \A i \in SnapshotID :
    Unbounded(i) =>
      \/ Live(i) \/ staged[i] # None \/ Owed(i)
      \/ \E c \in Causes : [cause |-> c, id |-> i] \in lost

\* The registry loses no set it was the last to know of: a set that is neither
\* live, owed nor bounded leaves it only by the marker's own TTL, or because a
\* pass took it for the live one.  (unstage; ExpireChunks before UnstageSnapshot)
RegistryKeepsTheUnbounded ==
  [][\A i \in SnapshotID :
       staged[i] # None /\ staged'[i] = None /\ Unbounded(i)
         => \/ Live(i) \/ Owed(i)
            \/ \E c \in {"markerTTL", "lateUnstage", "kill", "lostReply"} :
                 [cause |-> c, id |-> i] \in lost']_vars

\* The pointer never names a scan at or before the one it named, whichever runs
\* overlap and whatever they had read when they began.  (PutLatest)
PointerOnlyAdvances ==
  [][Readable /\ pointer' \notin Broken /\ pointer' # pointer
       => pointer' # None /\ pointer'.id.at > pointer.id.at]_vars

\* What a published snapshot says of a list is what a scan of that list
\* answered at that instant, however often it was carried since, and no list is
\* dated after the snapshot: a carried list is never given the scan time of the
\* run that carried it.  (previousScanTimes, deriveSources; Build)
SourcesAreScans ==
  Readable => \A g \in Sources(pointer.body) :
                /\ pointer.body[g] \in scans[g]
                /\ pointer.body[g].at <= pointer.id.at

\* What list g is said to be does not get older or disappear between two
\* snapshots.
Regresses(old, new) ==
  \E g \in Sources(old) : new[g] = None \/ new[g].at < old[g].at

\* A publication that replaces the very snapshot it merged forward from loses
\* nothing of it.  Only one that replaces another can: the previous snapshot is
\* not read again when the pointer is.  (readPrevious; PutLatest)
NothingLostWithoutARace ==
  [][Readable /\ pointer' \notin Broken /\ pointer' # pointer
       /\ Regresses(pointer.body, pointer'.body)
       => \E r \in Runs : At(r, "swap") /\ landed'[r] /\ base[r] # pointer]_vars

\* An unusable pointer that a publication replaces is preserved as it was at that
\* moment, even when it changed after the publisher read it, as long as its
\* document is a string.  Of any other form, the one preserved may be another of
\* the same form, which was there when the publisher read: the write cannot tell
\* them apart.  (quarantinePointer; pointerGuard)
EvidenceIsKept ==
  [][(pointer \in Broken) /\ pointer' \notin Broken
       => \E k \in DOMAIN quarantined :
            \/ quarantined[k] = pointer
            \/ Form[pointer] # "S" /\ Form[quarantined[k]] = Form[pointer]]_vars

\* A list once published stays published, and the instant it was scanned at
\* never goes back.
SourcesNeverRegress ==
  [][Readable /\ pointer' \notin Broken /\ pointer' # pointer
       => ~Regresses(pointer.body, pointer'.body)]_vars

\* Every invocation ends.
RunsEnd == \A r \in Runs : Running(r) ~> ~Running(r)

\* A scan that completed is published, or a snapshot at least as new is: losing
\* the compare-and-swap to an older snapshot costs a run attempts and never its
\* publication.  (PutLatest's loop, under the reserved concurrency)
ScansReachReaders ==
  \A r \in Runs, i \in SnapshotID :
    At(r, "readPointer") /\ id[r] = i ~> Readable /\ pointer.id.at >= i.at

\* What a reader resolves: the pointer, then the chunks it names.
Served ==
  IF Readable /\ Verifies(chunks[pointer.id], pointer.body)
    THEN [id |-> pointer.id, body |-> pointer.body] ELSE None

Promised == INSTANCE PublishedSnapshot WITH served <- Served, scans <- scans

\* The publisher keeps the contract's promise to readers.
ReadersArePromised == Promised!Spec

=============================================================================
