---------------------------- MODULE PublisherSafety ----------------------------
(***************************************************************************)
(* The publisher, for every set of groups, runs, chunks and answers, every *)
(* limit and every set of faults: TypeCorrect; PointerAdvances, that the   *)
(* pointer only moves to later scans; SourcesStayScans, that what a        *)
(* published snapshot says of a list is what a scan of it answered;        *)
(* NothingIsLost, that only a race can make a publication lose a list; and *)
(* EvidenceKept, that an unusable pointer is copied before it is replaced. *)
(*                                                                         *)
(* TypeOK is inductive as it stands, because PhaseOK says what each call   *)
(* finds; its proof has one lemma per action, and under it one step per    *)
(* part: the table, the invocations, the history and the phases.  The      *)
(* others rest on an invariant of their own beside it: PlannedSwap, that a *)
(* run about to write the pointer has read an older one; Attribution,      *)
(* which extends the property from the pointer to everything a run may     *)
(* still make a pointer of; Merged, that what a run merged forward is in   *)
(* what it publishes; Copied, that the copy is made before the write.      *)
(***************************************************************************)
EXTENDS Publisher, TLAPS

USE DEF vars, table, job, publish, sweep, history, At, Goto, Repeat, Running

-----------------------------------------------------------------------------
(* The operators of the contract                                           *)

\* StaleAfter is governed by a source, and by none with a faster schedule.
LEMMA SlowestIsASource ==
  ASSUME NEW b \in Body
  PROVE  /\ Slowest(b) \in Sources(b)
         /\ \A h \in Sources(b) : Cadence[h] <= Cadence[Slowest(b)]
<1>1. Sources(b) \in (SUBSET Groups) \ {{}}
  BY DEF Sources, Body
<1>2. \E g \in Sources(b) : \A h \in Sources(b) : Cadence[h] <= Cadence[g]
  BY <1>1, ContractAssumption
<1> QED BY <1>2 DEF Slowest

\* The recovery window of a snapshot is a number of ticks.
LEMMA WindowType == ASSUME NEW b \in Body PROVE StaleAfter(b) \in Nat
<1>1. Slowest(b) \in Groups BY SlowestIsASource DEF Sources
<1>2. Cadence[Slowest(b)] \in Nat /\ StaleFactor \in Nat BY <1>1, ContractAssumption
<1>3. \A m, n \in Nat : m * n \in Nat OBVIOUS
<1> QED BY <1>2, <1>3 DEF StaleAfter

\* ExpireChunks leaves well-formed items behind.
LEMMA ExpiringType ==
  ASSUME TypeOK, NEW i \in SnapshotID, NEW keys, NEW at \in Nat
  PROVE  Expiring(i, keys, at) \in [SnapshotID -> [Parts -> Chunk \cup {None}]]
<1> DEFINE set == [p \in Parts |-> IF p \in keys /\ chunks[i][p] # None
                     THEN [body |-> chunks[i][p].body, expires |-> at]
                     ELSE chunks[i][p]]
<1>1. chunks \in [SnapshotID -> [Parts -> Chunk \cup {None}]] BY DEF TypeOK, TableOK
<1>2. ASSUME NEW p \in Parts, chunks[i][p] # None
      PROVE  [body |-> chunks[i][p].body, expires |-> at] \in Chunk
  BY <1>1, <1>2 DEF Chunk
<1>3. set \in [Parts -> Chunk \cup {None}] BY <1>1, <1>2
<1> HIDE DEF set
<1>4. [chunks EXCEPT ![i] = set] \in [SnapshotID -> [Parts -> Chunk \cup {None}]]
  BY <1>1, <1>3
<1> QED BY <1>4 DEF Expiring, set

-----------------------------------------------------------------------------
(* Invocations that end, and publications that fail                        *)

\* An invocation that is over leaves a free slot.
LEMMA ForgetType ==
  ASSUME TypeOK, NEW r \in Runs, Forget(r) PROVE RunsOK'
<1> USE DEF TypeOK, RunsOK, Forget
<1>1. pc' \in [Runs -> Steps] BY DEF Steps
<1>2. /\ id' \in [Runs -> SnapshotID \cup {None}]
      /\ body' \in [Runs -> Body \cup {None}]
      /\ base' \in [Runs -> Pointer \cup {None}]
      /\ seen' \in [Runs -> Pointer \cup Broken \cup {None}]
  OBVIOUS
<1>3. /\ parts' \in [Runs -> SUBSET Parts]
      /\ tries' \in [Runs -> Nat]
  OBVIOUS
<1>31. stamp' \in [Runs -> Time]
   BY ContractAssumption DEF Time
<1>4. /\ replaced' \in [Runs -> Pointer \cup {None}]
      /\ backlog' \in [Runs -> SUBSET Entry]
      /\ entry' \in [Runs -> Entry \cup {None}]
      /\ failed' \in [Runs -> BOOLEAN]
      /\ landed' \in [Runs -> BOOLEAN]
  OBVIOUS
<1> QED BY <1>1, <1>2, <1>3, <1>31, <1>4

\* A publication that fails goes on to the reclaim pass, whether or not its
\* write moved the pointer.
LEMMA PublishFailsType ==
  ASSUME TypeOK, NEW r \in Runs, PublishFails(r), landed' \in [Runs -> BOOLEAN]
  PROVE  RunsOK'
<1> USE DEF TypeOK, RunsOK, PublishFails, GotoSurvey
<1>1. pc' \in [Runs -> Steps] BY DEF Steps
<1>2. /\ base' \in [Runs -> Pointer \cup {None}]
      /\ seen' \in [Runs -> Pointer \cup Broken \cup {None}]
  OBVIOUS
<1>3. /\ parts' \in [Runs -> SUBSET Parts]
      /\ tries' \in [Runs -> Nat]
  OBVIOUS
<1>4. /\ stamp' \in [Runs -> Time]
      /\ failed' \in [Runs -> BOOLEAN]
  OBVIOUS
<1> QED BY <1>1, <1>2, <1>3, <1>4

-----------------------------------------------------------------------------
(* The calls that need more than their definitions                         *)

\* Start leaves every phase with what it needs.
LEMMA StartPhases ==
  ASSUME TypeOK, NEW r \in Runs, NEW g \in Groups, Start(r, g)
  PROVE  \A q \in Runs : PhaseOK(q)'
<1> USE DEF TypeOK, Start
<1>1. id' \in [Runs -> SnapshotID \cup {None}] /\ id'[r] \in SnapshotID
  BY DEF RunsOK, SnapshotID, Time
<1>2. body[r] = None BY DEF PhaseOK
<1>4. ASSUME NEW q \in Runs PROVE PhaseOK(q)'
  BY <1>1, <1>2, SentinelAssumption DEF PhaseOK, RunsOK, Reclaiming
<1> QED BY <1>4

\* Scan leaves the invocations well-formed.
LEMMA ScanRuns ==
  ASSUME TypeOK, NEW r \in Runs, Scan(r)
  PROVE  RunsOK' /\ \A q \in Runs : PhaseOK(q)'
<1> USE DEF TypeOK
<1>1. id[r] \in SnapshotID BY DEF Scan, RunsOK, PhaseOK
<1>2. PICK answer \in Answers : body' = [body EXCEPT ![r] = OwnBody(id[r], answer)]
  BY DEF Scan
<1>3. OwnBody(id[r], answer) \in Body /\ OwnBody(id[r], answer)[id[r].group] # None
  <2>1. [at |-> id[r].at, answer |-> answer] \in ListScan
    BY <1>1 DEF ListScan, SnapshotID
  <2>2. id[r].group \in Groups BY <1>1 DEF SnapshotID
  <2>3. [at |-> id[r].at, answer |-> answer] # None BY <2>1, SentinelAssumption
  <2> QED BY <2>1, <2>2, <2>3 DEF OwnBody, Body
<1>4. body' \in [Runs -> Body \cup {None}] /\ body'[r] = OwnBody(id[r], answer)
  BY <1>2, <1>3 DEF RunsOK
<1>5. RunsOK' BY <1>4 DEF Scan, RunsOK, Steps
<1>6. ASSUME NEW q \in Runs PROVE PhaseOK(q)'
  <2>1. OwnBody(id[r], answer) # None /\ PhaseOK(q) /\ PhaseOK(r)
    BY <1>3, SentinelAssumption
  <2>2. CASE q = r BY <1>1, <1>3, <1>4, <2>1, <2>2 DEF Scan, PhaseOK, RunsOK, Reclaiming
  <2>3. CASE q # r BY <1>2, <2>1, <2>3 DEF Scan, PhaseOK, RunsOK, Reclaiming
  <2> QED BY <2>2, <2>3
<1> QED BY <1>5, <1>6

\* ReadPointer leaves the invocations well-formed.
LEMMA ReadPointerRuns == ASSUME TypeOK, NEW r \in Runs, ReadPointer(r) PROVE RunsOK'
<1> USE DEF ReadPointer, TypeOK
<1>1. pc' \in [Runs -> Steps] BY DEF RunsOK, Steps
<1>2. seen' \in [Runs -> Pointer \cup Broken \cup {None}] BY DEF RunsOK, TableOK
<1>3. tries' \in [Runs -> Nat] BY DEF RunsOK
<1> QED BY <1>1, <1>2, <1>3 DEF RunsOK


\* Merging forward keeps the list the run scanned, so the result has a source.
LEMMA CarryForwardType ==
  ASSUME NEW own \in Body, NEW previous \in Body, NEW g \in Groups, own[g] # None
  PROVE  CarryForward(own, previous, g) \in Body /\ CarryForward(own, previous, g)[g] = own[g]
BY DEF CarryForward, Body

\* ReadChunks leaves the invocations well-formed.
LEMMA ReadChunksRuns ==
  ASSUME TypeOK, NEW r \in Runs, ReadChunks(r)
  PROVE  RunsOK' /\ \A q \in Runs : PhaseOK(q)'
<1> USE DEF TypeOK
<1>0. id[r] \in SnapshotID /\ body[r] \in Body /\ body[r][id[r].group] # None /\ seen[r] \in Pointer
  BY DEF ReadChunks, PhaseOK, RunsOK
<1>1. CASE Forget(r)
  <2>1. RunsOK' BY <1>1, ForgetType
  <2>2. ASSUME NEW q \in Runs PROVE PhaseOK(q)'
    BY <1>1 DEF Forget, PhaseOK, RunsOK, Reclaiming
  <2> QED BY <2>1, <2>2
<1>2. CASE ~Forget(r)
  <2> DEFINE merged == CarryForward(body[r], seen[r].body, id[r].group)
  <2>1. merged \in Body /\ merged[id[r].group] # None
    BY <1>0, CarryForwardType DEF Pointer, SnapshotID
  <2> HIDE DEF merged
  <2>2. body' \in [Runs -> Body \cup {None}] /\ body' \in {body, [body EXCEPT ![r] = merged]}
    BY <1>2, <2>1 DEF ReadChunks, Abort, RunsOK, merged
  <2>3. base' \in [Runs -> Pointer \cup {None}]
    BY <1>2, <1>0 DEF ReadChunks, Abort, RunsOK
  <2>4. /\ seen' = [seen EXCEPT ![r] = None] /\ pc' = [pc EXCEPT ![r] = "stage"]
        /\ tries' = [tries EXCEPT ![r] = 0]
        /\ UNCHANGED <<id, parts, stamp, replaced, sweep, failed, landed>>
    BY <1>2 DEF ReadChunks, Abort
  <2>5. RunsOK'
     <3>1. pc' \in [Runs -> Steps] BY <2>4 DEF RunsOK, Steps
     <3>2. seen' \in [Runs -> Pointer \cup Broken \cup {None}] BY <2>4 DEF RunsOK
     <3>3. tries' \in [Runs -> Nat] BY <2>4 DEF RunsOK
     <3> QED BY <2>2, <2>3, <2>4, <3>1, <3>2, <3>3 DEF RunsOK
  <2>6. ASSUME NEW q \in Runs PROVE PhaseOK(q)'
    <3>0. PhaseOK(q) /\ pc[r] = "readChunks" /\ merged # None
      BY <2>1, SentinelAssumption DEF ReadChunks, TypeOK
    <3>1. CASE q = r
      BY <1>0, <2>1, <2>2, <2>4, <3>0, <3>1 DEF PhaseOK, RunsOK, Reclaiming
    <3>2. CASE q # r BY <2>2, <2>4, <3>0, <3>2 DEF PhaseOK, RunsOK, Reclaiming
    <3> QED BY <3>1, <3>2
  <2> QED BY <2>5, <2>6
<1> QED BY <1>1, <1>2

\* StageFails leaves the table well-formed.
LEMMA StageFailsTable == ASSUME TypeOK, NEW r \in Runs, StageFails(r) PROVE TableOK'
<1> USE DEF TypeOK
<1>0. id[r] \in SnapshotID BY DEF StageFails, PhaseOK, RunsOK
<1>1. Claim \in Marker
  BY RetentionAssumption, PublisherAssumption DEF Claim, Marker, Time
<1>2. staged' \in [SnapshotID -> Marker \cup {None}]
  BY <1>0, <1>1 DEF StageFails, TableOK
<1> QED BY <1>2 DEF TableOK, StageFails

\* PlanChunks leaves the invocations well-formed.
LEMMA PlanChunksRuns == ASSUME TypeOK, NEW r \in Runs, PlanChunks(r) PROVE RunsOK'
<1>1. CASE PublishFails(r) BY <1>1, PublishFailsType DEF PlanChunks, TypeOK, RunsOK
<1>2. CASE ~PublishFails(r)
   <2>1. pc' \in [Runs -> Steps] BY <1>2 DEF PlanChunks, TypeOK, RunsOK, Steps
   <2>2. parts' \in [Runs -> SUBSET Parts]
     BY <1>2 DEF PlanChunks, TypeOK, RunsOK, MissingParts
   <2> QED BY <1>2, <2>1, <2>2 DEF PlanChunks, TypeOK, RunsOK
<1> QED BY <1>1, <1>2

\* VerifyChunks leaves the invocations well-formed.
LEMMA VerifyChunksRuns == ASSUME TypeOK, NEW r \in Runs, VerifyChunks(r) PROVE RunsOK'
<1>1. CASE PublishFails(r) BY <1>1, PublishFailsType DEF VerifyChunks, TypeOK, RunsOK
<1>2. CASE ~PublishFails(r) BY <1>2 DEF VerifyChunks, TypeOK, RunsOK, Steps
<1> QED BY <1>1, <1>2

\* ReadLatest leaves the invocations well-formed.
LEMMA ReadLatestRuns == ASSUME TypeOK, NEW r \in Runs, ReadLatest(r) PROVE RunsOK'
<1>1. CASE PublishFails(r) BY <1>1, PublishFailsType DEF ReadLatest, TypeOK, RunsOK
<1>2. CASE ~PublishFails(r)
   <2>1. pc' \in [Runs -> Steps] BY <1>2 DEF ReadLatest, TypeOK, RunsOK, Steps
   <2>2. seen' \in [Runs -> Pointer \cup Broken \cup {None}]
     BY <1>2 DEF ReadLatest, TypeOK, RunsOK, TableOK
   <2>3. base' \in [Runs -> Pointer \cup {None}] /\ tries' \in [Runs -> Nat]
     BY <1>2 DEF ReadLatest, TypeOK, RunsOK
   <2> QED BY <1>2, <2>1, <2>2, <2>3 DEF ReadLatest, TypeOK, RunsOK
<1> QED BY <1>1, <1>2

\* Quarantine preserves TypeOK.
LEMMA QuarantineType == ASSUME TypeOK, NEW r \in Runs, Quarantine(r) PROVE TypeOK'
<1>1. seen[r] \in Broken BY DEF Quarantine, TypeOK, PhaseOK
<1>2. TableOK'
  <2>1. quarantined' \in Seq(Broken)
     BY <1>1 DEF Quarantine, TypeOK, TableOK
  <2> QED BY <2>1 DEF Quarantine, TypeOK, TableOK
<1>3. CASE PublishFails(r)
  <2>1. RunsOK' BY <1>3, PublishFailsType DEF Quarantine, TypeOK, RunsOK
  <2>2. HistoryOK' /\ now' \in Time
    BY <1>3 DEF Quarantine, TypeOK, HistoryOK, PublishFails
  <2>3. ASSUME NEW q \in Runs PROVE PhaseOK(q)'
    BY <1>3
    DEF Quarantine, PublishFails, GotoSurvey, TypeOK, RunsOK, PhaseOK, Reclaiming
  <2> QED BY <1>2, <2>1, <2>2, <2>3 DEF TypeOK
<1>4. CASE ~PublishFails(r)
  <2>1. RunsOK' BY <1>4 DEF Quarantine, TypeOK, RunsOK, Steps
  <2>2. HistoryOK' /\ now' \in Time BY <1>4 DEF Quarantine, TypeOK, HistoryOK
  <2>3. ASSUME NEW q \in Runs PROVE PhaseOK(q)'
    BY <1>4 DEF Quarantine, TypeOK, RunsOK, PhaseOK, Reclaiming
  <2> QED BY <1>2, <2>1, <2>2, <2>3 DEF TypeOK
<1> QED BY <1>3, <1>4

\* Swap leaves the invocations well-formed.
LEMMA SwapRuns == ASSUME TypeOK, NEW r \in Runs, Swap(r) PROVE RunsOK'
<1> USE DEF Swap, TypeOK
<1>1. pc' \in [Runs -> Steps] BY DEF RunsOK, Steps
<1>2. /\ base' \in [Runs -> Pointer \cup {None}]
      /\ seen' \in [Runs -> Pointer \cup Broken \cup {None}]
      /\ tries' \in [Runs -> Nat]
  BY DEF RunsOK
<1>3. replaced' \in [Runs -> Pointer \cup {None}] BY DEF RunsOK
<1>4. landed' \in [Runs -> BOOLEAN] BY DEF RunsOK, Install
<1> QED BY <1>1, <1>2, <1>3, <1>4 DEF RunsOK

\* SwapRefused leaves the invocations well-formed.
LEMMA SwapRefusedRuns == ASSUME TypeOK, NEW r \in Runs, SwapRefused(r) PROVE RunsOK'
<1>1. CASE PublishFails(r) BY <1>1, PublishFailsType DEF SwapRefused, TypeOK, RunsOK
<1>2. CASE ~PublishFails(r)
   <2>1. pc' \in [Runs -> Steps] BY <1>2 DEF SwapRefused, TypeOK, RunsOK, Steps
   <2>2. seen' \in [Runs -> Pointer \cup Broken \cup {None}]
     BY <1>2 DEF SwapRefused, TypeOK, RunsOK
   <2>3. tries' \in [Runs -> Nat] BY <1>2 DEF SwapRefused, TypeOK, RunsOK
   <2> QED BY <1>2, <2>1, <2>2, <2>3 DEF SwapRefused, TypeOK, RunsOK
<1> QED BY <1>1, <1>2

\* Expire leaves the table well-formed.
LEMMA ExpireTable ==
  ASSUME TypeOK, NEW r \in Runs, Expire(r) \/ ExpireFails(r)
  PROVE  TableOK'
<1>1. replaced[r] \in Pointer BY DEF Expire, ExpireFails, TypeOK, RunsOK, PhaseOK
<1>2. SupersededUntil(r) \in Nat
  <2>1. StaleAfter(replaced[r].body) \in Nat BY <1>1, WindowType DEF Pointer
  <2>2. stamp[r] \in Nat BY DEF TypeOK, RunsOK, Time
  <2> QED BY <2>1, <2>2 DEF SupersededUntil
<1>3. replaced[r].id \in SnapshotID BY <1>1 DEF Pointer
<1>4. chunks' \in [SnapshotID -> [Parts -> Chunk \cup {None}]]
  BY <1>2, <1>3, ExpiringType DEF Expire, ExpireFails, TypeOK, TableOK
<1> QED BY <1>4 DEF Expire, ExpireFails, TypeOK, TableOK

\* Restage leaves the table well-formed.
LEMMA RestageTable == ASSUME TypeOK, NEW r \in Runs, Restage(r) PROVE TableOK'
<1>1. replaced[r].id \in SnapshotID BY DEF Restage, TypeOK, RunsOK, PhaseOK, Pointer
<1>2. Claim \in Marker
  BY RetentionAssumption, PublisherAssumption DEF TypeOK, Claim, Marker, Time
<1> QED BY <1>1, <1>2 DEF Restage, TypeOK, TableOK

\* SweepCheck leaves every phase with what it needs.
LEMMA SweepCheckPhases ==
  ASSUME TypeOK, NEW r \in Runs, SweepCheck(r)
  PROVE  \A q \in Runs : PhaseOK(q)'
<1>1. PICK e \in backlog[r] : entry' \in {entry, [entry EXCEPT ![r] = e]} /\ (~UNCHANGED pc => entry' = [entry EXCEPT ![r] = e])
   BY DEF SweepCheck
<1>2. e \in Entry /\ e # None BY EntryAssumption DEF Entry, TypeOK, RunsOK
<1>3. ASSUME NEW q \in Runs PROVE PhaseOK(q)'
  <2>1. PhaseOK(q) BY DEF TypeOK
  <2>2. CASE UNCHANGED <<pc, entry>> BY <2>1, <2>2 DEF SweepCheck, PhaseOK, Reclaiming
  <2>3. CASE entry' = [entry EXCEPT ![r] = e]
    BY <1>2, <2>1, <2>3 DEF SweepCheck, TakeEntry, TypeOK, RunsOK, PhaseOK, Reclaiming
  <2> QED BY <1>1, <2>2, <2>3
<1> QED BY <1>3

\* SweepExpire leaves the table well-formed.
LEMMA SweepExpireTable ==
  ASSUME TypeOK, NEW r \in Runs, SweepExpire(r) \/ SweepExpireFails(r)
  PROVE  TableOK'
<1>1. entry[r].id \in SnapshotID
  BY DEF SweepExpire, SweepExpireFails, TypeOK, RunsOK, PhaseOK, Entry
<1>2. AbandonedUntil(r) \in Nat
  BY RetentionAssumption DEF AbandonedUntil, TypeOK, RunsOK, Time
<1>4. chunks' \in [SnapshotID -> [Parts -> Chunk \cup {None}]]
  BY <1>1, <1>2, ExpiringType DEF SweepExpire, SweepExpireFails, TypeOK, TableOK
<1> QED BY <1>4 DEF SweepExpire, SweepExpireFails, TypeOK, TableOK

-----------------------------------------------------------------------------
(* Every action                                                            *)

\* Start preserves TypeOK.
LEMMA StartType ==
  ASSUME TypeOK, NEW r \in Runs, NEW g \in Groups, Start(r, g) PROVE TypeOK'
<1>1. TableOK' BY DEF Start, TypeOK, TableOK
<1>2. RunsOK'
  BY SentinelAssumption DEF Start, TypeOK, RunsOK, Steps, SnapshotID, Time
<1>3. HistoryOK' BY DEF Start, TypeOK, HistoryOK, SnapshotID, Time
<1>4. \A q \in Runs : PhaseOK(q)' BY StartPhases
<1> QED BY <1>1, <1>2, <1>3, <1>4 DEF Start, TypeOK

\* Scan preserves TypeOK.
LEMMA ScanType ==
  ASSUME TypeOK, NEW r \in Runs, Scan(r) PROVE TypeOK'
<1>1. TableOK' BY DEF Scan, TypeOK, TableOK
<1>2. RunsOK' BY ScanRuns
<1>3. HistoryOK'
  BY DEF Scan, TypeOK, HistoryOK, SnapshotID, ListScan, RunsOK, PhaseOK
<1>4. \A q \in Runs : PhaseOK(q)' BY ScanRuns
<1> QED BY <1>1, <1>2, <1>3, <1>4 DEF Scan, TypeOK

\* ScanFails preserves TypeOK.
LEMMA ScanFailsType ==
  ASSUME TypeOK, NEW r \in Runs, ScanFails(r) PROVE TypeOK'
<1>1. TableOK' BY DEF ScanFails, TypeOK, TableOK, Abort
<1>2. RunsOK' BY ForgetType DEF ScanFails, Abort
<1>3. HistoryOK' BY DEF ScanFails, TypeOK, HistoryOK, Abort
<1>4. ASSUME NEW q \in Runs PROVE PhaseOK(q)'
  BY SentinelAssumption
  DEF ScanFails, TypeOK, PhaseOK, RunsOK, Reclaiming, Abort, Forget
<1> QED BY <1>1, <1>2, <1>3, <1>4 DEF ScanFails, TypeOK, Abort

\* ReadPointer preserves TypeOK.
LEMMA ReadPointerType ==
  ASSUME TypeOK, NEW r \in Runs, ReadPointer(r) PROVE TypeOK'
<1>1. TableOK' BY DEF ReadPointer, TypeOK, TableOK
<1>2. RunsOK' BY ReadPointerRuns
<1>3. HistoryOK' BY DEF ReadPointer, TypeOK, HistoryOK
<1>4. ASSUME NEW q \in Runs PROVE PhaseOK(q)'
  BY SentinelAssumption
  DEF ReadPointer, TypeOK, PhaseOK, RunsOK, Reclaiming, Readable, TableOK
<1> QED BY <1>1, <1>2, <1>3, <1>4 DEF ReadPointer, TypeOK

\* ReadChunks preserves TypeOK.
LEMMA ReadChunksType ==
  ASSUME TypeOK, NEW r \in Runs, ReadChunks(r) PROVE TypeOK'
<1>1. TableOK' BY DEF ReadChunks, TypeOK, TableOK, Abort
<1>2. RunsOK' BY ReadChunksRuns
<1>3. HistoryOK' BY DEF ReadChunks, TypeOK, HistoryOK, Abort
<1>4. \A q \in Runs : PhaseOK(q)' BY ReadChunksRuns
<1> QED BY <1>1, <1>2, <1>3, <1>4 DEF ReadChunks, TypeOK, Abort

\* ReadFails preserves TypeOK.
LEMMA ReadFailsType ==
  ASSUME TypeOK, NEW r \in Runs, ReadFails(r) PROVE TypeOK'
<1>1. TableOK' BY DEF ReadFails, TypeOK, TableOK
<1>2. RunsOK' BY DEF ReadFails, TypeOK, RunsOK, Steps
<1>3. HistoryOK' BY DEF ReadFails, TypeOK, HistoryOK
<1>4. ASSUME NEW q \in Runs PROVE PhaseOK(q)'
  BY SentinelAssumption DEF ReadFails, TypeOK, PhaseOK, RunsOK, Reclaiming
<1> QED BY <1>1, <1>2, <1>3, <1>4 DEF ReadFails, TypeOK

\* Stage preserves TypeOK.
LEMMA StageType ==
  ASSUME TypeOK, NEW r \in Runs, Stage(r) PROVE TypeOK'
<1>1. TableOK'
  BY RetentionAssumption, PublisherAssumption
  DEF Stage, TypeOK, TableOK, Claim, Marker, Time, RunsOK, PhaseOK
<1>2. RunsOK' BY DEF Stage, TypeOK, RunsOK, Steps
<1>3. HistoryOK' BY DEF Stage, TypeOK, HistoryOK
<1>4. ASSUME NEW q \in Runs PROVE PhaseOK(q)'
  BY SentinelAssumption DEF Stage, TypeOK, PhaseOK, RunsOK, Reclaiming
<1> QED BY <1>1, <1>2, <1>3, <1>4 DEF Stage, TypeOK

\* StageFails preserves TypeOK.
LEMMA StageFailsType ==
  ASSUME TypeOK, NEW r \in Runs, StageFails(r) PROVE TypeOK'
<1>1. TableOK' BY StageFailsTable
<1>2. RunsOK' BY ForgetType DEF StageFails
<1>3. HistoryOK' BY DEF StageFails, TypeOK, HistoryOK
<1>4. ASSUME NEW q \in Runs PROVE PhaseOK(q)'
  BY SentinelAssumption DEF StageFails, TypeOK, PhaseOK, RunsOK, Reclaiming, Forget
<1> QED BY <1>1, <1>2, <1>3, <1>4 DEF StageFails, TypeOK

\* PlanChunks preserves TypeOK.
LEMMA PlanChunksType ==
  ASSUME TypeOK, NEW r \in Runs, PlanChunks(r) PROVE TypeOK'
<1>1. TableOK' BY DEF PlanChunks, TypeOK, TableOK
<1>2. RunsOK' BY PlanChunksRuns
<1>3. HistoryOK' BY DEF PlanChunks, TypeOK, HistoryOK
<1>4. ASSUME NEW q \in Runs PROVE PhaseOK(q)'
  BY SentinelAssumption
  DEF PlanChunks, TypeOK, PhaseOK, RunsOK, Reclaiming, PublishFails, GotoSurvey
<1> QED BY <1>1, <1>2, <1>3, <1>4 DEF PlanChunks, TypeOK, PublishFails

\* WriteChunks preserves TypeOK.
LEMMA WriteChunksType ==
  ASSUME TypeOK, NEW r \in Runs, WriteChunks(r) PROVE TypeOK'
<1>1. TableOK'
  BY SentinelAssumption DEF WriteChunks, TypeOK, TableOK, Chunk, RunsOK, PhaseOK
<1>2. RunsOK' BY DEF WriteChunks, TypeOK, RunsOK, Steps
<1>3. HistoryOK' BY DEF WriteChunks, TypeOK, HistoryOK
<1>4. ASSUME NEW q \in Runs PROVE PhaseOK(q)'
  BY SentinelAssumption DEF WriteChunks, TypeOK, PhaseOK, RunsOK, Reclaiming
<1> QED BY <1>1, <1>2, <1>3, <1>4 DEF WriteChunks, TypeOK

\* VerifyChunks preserves TypeOK.
LEMMA VerifyChunksType ==
  ASSUME TypeOK, NEW r \in Runs, VerifyChunks(r) PROVE TypeOK'
<1>1. TableOK' BY DEF VerifyChunks, TypeOK, TableOK
<1>2. RunsOK' BY VerifyChunksRuns
<1>3. HistoryOK' BY DEF VerifyChunks, TypeOK, HistoryOK
<1>4. ASSUME NEW q \in Runs PROVE PhaseOK(q)'
  BY SentinelAssumption
  DEF VerifyChunks, TypeOK, PhaseOK, RunsOK, Reclaiming, PublishFails, GotoSurvey
<1> QED BY <1>1, <1>2, <1>3, <1>4 DEF VerifyChunks, TypeOK, PublishFails

\* ReadLatest preserves TypeOK.
LEMMA ReadLatestType ==
  ASSUME TypeOK, NEW r \in Runs, ReadLatest(r) PROVE TypeOK'
<1>1. TableOK' BY DEF ReadLatest, TypeOK, TableOK
<1>2. RunsOK' BY ReadLatestRuns
<1>3. HistoryOK' BY DEF ReadLatest, TypeOK, HistoryOK
<1>4. ASSUME NEW q \in Runs PROVE PhaseOK(q)'
  BY SentinelAssumption
  DEF ReadLatest, TypeOK, PhaseOK, RunsOK, Reclaiming, PublishFails, GotoSurvey, TableOK
<1> QED BY <1>1, <1>2, <1>3, <1>4 DEF ReadLatest, TypeOK, PublishFails

\* Swap preserves TypeOK.
LEMMA SwapType ==
  ASSUME TypeOK, NEW r \in Runs, Swap(r) PROVE TypeOK'
<1>1. TableOK'
  BY DEF Swap, TypeOK, TableOK, Install, NewPointer, Pointer, RunsOK, PhaseOK
<1>2. RunsOK' BY SwapRuns
<1>3. HistoryOK'
  BY DEF Swap, TypeOK, HistoryOK, Install, Live, Readable, TableOK
<1>4. ASSUME NEW q \in Runs PROVE PhaseOK(q)'
  BY SentinelAssumption DEF Swap, TypeOK, PhaseOK, RunsOK, Reclaiming, Install
<1> QED BY <1>1, <1>2, <1>3, <1>4 DEF Swap, TypeOK, Install

\* SwapUnanswered preserves TypeOK.
LEMMA SwapUnansweredType ==
  ASSUME TypeOK, NEW r \in Runs, SwapUnanswered(r) PROVE TypeOK'
<1>1. TableOK'
  BY DEF SwapUnanswered, TypeOK, TableOK, Install, NewPointer, Pointer, RunsOK, PhaseOK
<1>2. RunsOK' BY PublishFailsType DEF SwapUnanswered, Install, TypeOK, RunsOK
<1>3. HistoryOK'
  BY
  DEF SwapUnanswered, TypeOK, HistoryOK, Install, Live, Readable, TableOK, LoseReplaced, Lose, Causes, Pointer
<1>4. ASSUME NEW q \in Runs PROVE PhaseOK(q)'
  BY SentinelAssumption
  DEF SwapUnanswered, TypeOK, PhaseOK, RunsOK, Reclaiming, Install, PublishFails, GotoSurvey
<1> QED BY <1>1, <1>2, <1>3, <1>4 DEF SwapUnanswered, TypeOK, Install, PublishFails

\* SwapEchoed preserves TypeOK.
LEMMA SwapEchoedType ==
  ASSUME TypeOK, NEW r \in Runs, SwapEchoed(r) PROVE TypeOK'
<1>1. TableOK'
  BY DEF SwapEchoed, TypeOK, TableOK, Install, NewPointer, Pointer, RunsOK, PhaseOK
<1>2. RunsOK' BY DEF SwapEchoed, TypeOK, RunsOK, Steps, Install
<1>3. HistoryOK'
  BY
  DEF SwapEchoed, TypeOK, HistoryOK, Install, Live, Readable, TableOK, LoseReplaced, Lose, Causes, Pointer
<1>4. ASSUME NEW q \in Runs PROVE PhaseOK(q)'
  BY SentinelAssumption DEF SwapEchoed, TypeOK, PhaseOK, RunsOK, Reclaiming, Install
<1> QED BY <1>1, <1>2, <1>3, <1>4 DEF SwapEchoed, TypeOK, Install

\* SwapRefused preserves TypeOK.
LEMMA SwapRefusedType ==
  ASSUME TypeOK, NEW r \in Runs, SwapRefused(r) PROVE TypeOK'
<1>1. TableOK' BY DEF SwapRefused, TypeOK, TableOK
<1>2. RunsOK' BY SwapRefusedRuns
<1>3. HistoryOK' BY DEF SwapRefused, TypeOK, HistoryOK
<1>4. ASSUME NEW q \in Runs PROVE PhaseOK(q)'
  BY SentinelAssumption
  DEF SwapRefused, TypeOK, PhaseOK, RunsOK, Reclaiming, PublishFails, GotoSurvey
<1> QED BY <1>1, <1>2, <1>3, <1>4 DEF SwapRefused, TypeOK, PublishFails

\* PublishCallFails preserves TypeOK.
LEMMA PublishCallFailsType ==
  ASSUME TypeOK, NEW r \in Runs, PublishCallFails(r) PROVE TypeOK'
<1>1. TableOK' BY DEF PublishCallFails, TypeOK, TableOK
<1>2. RunsOK' BY PublishFailsType DEF PublishCallFails, TypeOK, RunsOK
<1>3. HistoryOK' BY DEF PublishCallFails, TypeOK, HistoryOK
<1>4. ASSUME NEW q \in Runs PROVE PhaseOK(q)'
  BY SentinelAssumption
  DEF PublishCallFails, TypeOK, PhaseOK, RunsOK, Reclaiming, PublishFails, GotoSurvey
<1> QED BY <1>1, <1>2, <1>3, <1>4 DEF PublishCallFails, TypeOK, PublishFails

\* Unstage preserves TypeOK.
LEMMA UnstageType ==
  ASSUME TypeOK, NEW r \in Runs, Unstage(r) PROVE TypeOK'
<1>1. TableOK' BY DEF Unstage, TypeOK, TableOK, RemoveMarker
<1>2. RunsOK' BY DEF Unstage, TypeOK, RunsOK, Steps, GotoSurvey
<1>3. HistoryOK'
  BY DEF Unstage, TypeOK, HistoryOK, RemoveMarker, Lose, Causes, RunsOK, PhaseOK
<1>4. ASSUME NEW q \in Runs PROVE PhaseOK(q)'
  BY SentinelAssumption DEF Unstage, TypeOK, PhaseOK, RunsOK, Reclaiming, GotoSurvey
<1> QED BY <1>1, <1>2, <1>3, <1>4 DEF Unstage, TypeOK

\* ExpireCheck preserves TypeOK.
LEMMA ExpireCheckType ==
  ASSUME TypeOK, NEW r \in Runs, ExpireCheck(r) PROVE TypeOK'
<1>1. TableOK' BY DEF ExpireCheck, TypeOK, TableOK
<1>2. RunsOK'
  BY DEF ExpireCheck, TypeOK, RunsOK, Steps, GotoSurvey, Stored
<1>3. HistoryOK' BY DEF ExpireCheck, TypeOK, HistoryOK
<1>4. ASSUME NEW q \in Runs PROVE PhaseOK(q)'
  BY SentinelAssumption DEF ExpireCheck, TypeOK, PhaseOK, RunsOK, Reclaiming, GotoSurvey
<1> QED BY <1>1, <1>2, <1>3, <1>4 DEF ExpireCheck, TypeOK

\* Expire preserves TypeOK.
LEMMA ExpireType ==
  ASSUME TypeOK, NEW r \in Runs, Expire(r) PROVE TypeOK'
<1>1. TableOK' BY ExpireTable
<1>2. RunsOK' BY DEF Expire, TypeOK, RunsOK, Steps, GotoSurvey
<1>3. HistoryOK' BY DEF Expire, TypeOK, HistoryOK
<1>4. ASSUME NEW q \in Runs PROVE PhaseOK(q)'
  BY SentinelAssumption DEF Expire, TypeOK, PhaseOK, RunsOK, Reclaiming, GotoSurvey
<1> QED BY <1>1, <1>2, <1>3, <1>4 DEF Expire, TypeOK

\* ExpireFails preserves TypeOK.
LEMMA ExpireFailsType ==
  ASSUME TypeOK, NEW r \in Runs, ExpireFails(r) PROVE TypeOK'
<1>1. TableOK' BY ExpireTable
<1>2. RunsOK' BY DEF ExpireFails, TypeOK, RunsOK, Steps
<1>3. HistoryOK' BY DEF ExpireFails, TypeOK, HistoryOK
<1>4. ASSUME NEW q \in Runs PROVE PhaseOK(q)'
  BY SentinelAssumption DEF ExpireFails, TypeOK, PhaseOK, RunsOK, Reclaiming
<1> QED BY <1>1, <1>2, <1>3, <1>4 DEF ExpireFails, TypeOK

\* Restage preserves TypeOK.
LEMMA RestageType ==
  ASSUME TypeOK, NEW r \in Runs, Restage(r) PROVE TypeOK'
<1>1. TableOK' BY RestageTable
<1>2. RunsOK' BY DEF Restage, TypeOK, RunsOK, Steps, GotoSurvey
<1>3. HistoryOK'
  BY DEF Restage, TypeOK, HistoryOK, Lose, Causes, RunsOK, PhaseOK, Pointer
<1>4. ASSUME NEW q \in Runs PROVE PhaseOK(q)'
  BY SentinelAssumption DEF Restage, TypeOK, PhaseOK, RunsOK, Reclaiming, GotoSurvey
<1> QED BY <1>1, <1>2, <1>3, <1>4 DEF Restage, TypeOK

\* Survey preserves TypeOK.
LEMMA SurveyType ==
  ASSUME TypeOK, NEW r \in Runs, Survey(r) PROVE TypeOK'
<1>1. TableOK' BY DEF Survey, TypeOK, TableOK
<1>2. RunsOK' BY DEF Survey, TypeOK, RunsOK, Steps, Readable, TableOK
<1>3. HistoryOK' BY DEF Survey, TypeOK, HistoryOK
<1>4. ASSUME NEW q \in Runs PROVE PhaseOK(q)'
  BY SentinelAssumption
  DEF Survey, TypeOK, PhaseOK, RunsOK, Reclaiming, Readable, TableOK
<1> QED BY <1>1, <1>2, <1>3, <1>4 DEF Survey, TypeOK

\* ListMarkers preserves TypeOK.
LEMMA ListMarkersType ==
  ASSUME TypeOK, NEW r \in Runs, ListMarkers(r) PROVE TypeOK'
<1>1. TableOK' BY DEF ListMarkers, TypeOK, TableOK
<1>2. RunsOK'
  BY DEF ListMarkers, TypeOK, RunsOK, Steps, Markers, Entry, TableOK, Marker
<1>3. HistoryOK' BY DEF ListMarkers, TypeOK, HistoryOK
<1>4. ASSUME NEW q \in Runs PROVE PhaseOK(q)'
  BY SentinelAssumption DEF ListMarkers, TypeOK, PhaseOK, RunsOK, Reclaiming
<1> QED BY <1>1, <1>2, <1>3, <1>4 DEF ListMarkers, TypeOK

\* SurveyFails preserves TypeOK.
LEMMA SurveyFailsType ==
  ASSUME TypeOK, NEW r \in Runs, SurveyFails(r) PROVE TypeOK'
<1>1. TableOK' BY DEF SurveyFails, TypeOK, TableOK, Finish
<1>2. RunsOK' BY ForgetType DEF SurveyFails, Finish
<1>3. HistoryOK' BY DEF SurveyFails, TypeOK, HistoryOK, Finish
<1>4. ASSUME NEW q \in Runs PROVE PhaseOK(q)'
  BY SentinelAssumption
  DEF SurveyFails, TypeOK, PhaseOK, RunsOK, Reclaiming, Finish, Forget
<1> QED BY <1>1, <1>2, <1>3, <1>4 DEF SurveyFails, TypeOK, Finish

\* SweepMarker preserves TypeOK.
LEMMA SweepMarkerType ==
  ASSUME TypeOK, NEW r \in Runs, SweepMarker(r) PROVE TypeOK'
<1>1. TableOK' BY DEF SweepMarker, TypeOK, TableOK, RemoveMarker
<1>2. RunsOK' BY DEF SweepMarker, TypeOK, RunsOK, Steps, TakeEntry
<1>3. HistoryOK'
  BY DEF SweepMarker, TypeOK, HistoryOK, RemoveMarker, Lose, Causes, RunsOK, Entry
<1>4. ASSUME NEW q \in Runs PROVE PhaseOK(q)'
  BY SentinelAssumption DEF SweepMarker, TypeOK, PhaseOK, RunsOK, Reclaiming, TakeEntry
<1> QED BY <1>1, <1>2, <1>3, <1>4 DEF SweepMarker, TypeOK

\* SweepCheck preserves TypeOK.
LEMMA SweepCheckType ==
  ASSUME TypeOK, NEW r \in Runs, SweepCheck(r) PROVE TypeOK'
<1>1. TableOK' BY DEF SweepCheck, TypeOK, TableOK
<1>2. RunsOK'
  <2>1. PICK e \in backlog[r] :
          /\ TakeEntry(r, e)
          /\ \/ UNCHANGED <<pc, parts, entry>>
             \/ /\ entry' = [entry EXCEPT ![r] = e]
                /\ parts' = [parts EXCEPT ![r] = Stored(e.id)]
                /\ Goto(r, IF Stored(e.id) = {} THEN "sweepUnstage" ELSE "sweepExpire")
    BY DEF SweepCheck
  <2>2. Stored(e.id) \in SUBSET Parts BY DEF Stored
  <2>3. e \in Entry BY DEF TypeOK, RunsOK
  <2> QED BY <2>1, <2>2, <2>3 DEF SweepCheck, TypeOK, RunsOK, Steps, TakeEntry
<1>3. HistoryOK' BY DEF SweepCheck, TypeOK, HistoryOK
<1>4. \A q \in Runs : PhaseOK(q)' BY SweepCheckPhases
<1> QED BY <1>1, <1>2, <1>3, <1>4 DEF SweepCheck, TypeOK

\* SweepDone preserves TypeOK.
LEMMA SweepDoneType ==
  ASSUME TypeOK, NEW r \in Runs, SweepDone(r) PROVE TypeOK'
<1>1. TableOK' BY DEF SweepDone, TypeOK, TableOK, Finish
<1>2. RunsOK' BY ForgetType DEF SweepDone, Finish
<1>3. HistoryOK' BY DEF SweepDone, TypeOK, HistoryOK, Finish
<1>4. ASSUME NEW q \in Runs PROVE PhaseOK(q)'
  BY SentinelAssumption
  DEF SweepDone, TypeOK, PhaseOK, RunsOK, Reclaiming, Finish, Forget
<1> QED BY <1>1, <1>2, <1>3, <1>4 DEF SweepDone, TypeOK, Finish

\* SweepExpire preserves TypeOK.
LEMMA SweepExpireType ==
  ASSUME TypeOK, NEW r \in Runs, SweepExpire(r) PROVE TypeOK'
<1>1. TableOK' BY SweepExpireTable
<1>2. RunsOK' BY DEF SweepExpire, TypeOK, RunsOK, Steps
<1>3. HistoryOK' BY DEF SweepExpire, TypeOK, HistoryOK
<1>4. ASSUME NEW q \in Runs PROVE PhaseOK(q)'
  BY SentinelAssumption DEF SweepExpire, TypeOK, PhaseOK, RunsOK, Reclaiming
<1> QED BY <1>1, <1>2, <1>3, <1>4 DEF SweepExpire, TypeOK

\* SweepExpireFails preserves TypeOK.
LEMMA SweepExpireFailsType ==
  ASSUME TypeOK, NEW r \in Runs, SweepExpireFails(r) PROVE TypeOK'
<1>1. TableOK' BY SweepExpireTable
<1>2. RunsOK' BY DEF SweepExpireFails, TypeOK, RunsOK, Steps
<1>3. HistoryOK' BY DEF SweepExpireFails, TypeOK, HistoryOK
<1>4. ASSUME NEW q \in Runs PROVE PhaseOK(q)'
  BY SentinelAssumption DEF SweepExpireFails, TypeOK, PhaseOK, RunsOK, Reclaiming
<1> QED BY <1>1, <1>2, <1>3, <1>4 DEF SweepExpireFails, TypeOK

\* SweepUnstage preserves TypeOK.
LEMMA SweepUnstageType ==
  ASSUME TypeOK, NEW r \in Runs, SweepUnstage(r) PROVE TypeOK'
<1>1. TableOK' BY DEF SweepUnstage, TypeOK, TableOK
<1>2. RunsOK' BY DEF SweepUnstage, TypeOK, RunsOK, Steps
<1>3. HistoryOK' BY DEF SweepUnstage, TypeOK, HistoryOK
<1>4. ASSUME NEW q \in Runs PROVE PhaseOK(q)'
  BY SentinelAssumption DEF SweepUnstage, TypeOK, PhaseOK, RunsOK, Reclaiming
<1> QED BY <1>1, <1>2, <1>3, <1>4 DEF SweepUnstage, TypeOK

\* Kill preserves TypeOK.
LEMMA KillType ==
  ASSUME TypeOK, NEW r \in Runs, Kill(r) PROVE TypeOK'
<1>1. TableOK' BY DEF Kill, TypeOK, TableOK
<1>2. RunsOK' BY ForgetType DEF Kill
<1>3. HistoryOK'
  BY DEF Kill, TypeOK, HistoryOK, Lose, Causes, RunsOK, Pointer
<1>4. ASSUME NEW q \in Runs PROVE PhaseOK(q)'
  BY SentinelAssumption DEF Kill, TypeOK, PhaseOK, RunsOK, Reclaiming, Forget
<1> QED BY <1>1, <1>2, <1>3, <1>4 DEF Kill, TypeOK


\* The clock, a damaged pointer and the table's own deletions preserve TypeOK.
LEMMA EnvironmentType == ASSUME TypeOK, Environment PROVE TypeOK'
<1>1. CASE Tick
  <2>1. now' \in Time BY <1>1, ContractAssumption DEF Tick, TypeOK, Time
  <2> QED BY <1>1, <2>1
          DEF Tick, TypeOK, TableOK, RunsOK, HistoryOK, PhaseOK, Reclaiming
<1>2. ASSUME NEW b \in Broken, Corrupt(b) PROVE TypeOK'
  <2>1. TableOK' BY <1>2 DEF Corrupt, TypeOK, TableOK
  <2>2. RunsOK' /\ now' \in Time BY <1>2 DEF Corrupt, TypeOK, RunsOK
  <2>3. HistoryOK'
    BY <1>2 DEF Corrupt, TypeOK, HistoryOK, Lose, Causes, Readable, TableOK, Pointer
  <2>4. ASSUME NEW q \in Runs PROVE PhaseOK(q)'
    BY <1>2 DEF Corrupt, TypeOK, PhaseOK, Reclaiming
  <2> QED BY <2>1, <2>2, <2>3, <2>4 DEF TypeOK
<1>3. ASSUME NEW i \in SnapshotID, DeleteMarker(i) PROVE TypeOK'
  <2>1. TableOK' BY <1>3 DEF DeleteMarker, TypeOK, TableOK
  <2>2. RunsOK' /\ now' \in Time BY <1>3 DEF DeleteMarker, TypeOK, RunsOK
  <2>3. HistoryOK' BY <1>3 DEF DeleteMarker, TypeOK, HistoryOK, Lose, Causes
  <2>4. ASSUME NEW q \in Runs PROVE PhaseOK(q)'
    BY <1>3 DEF DeleteMarker, TypeOK, PhaseOK, Reclaiming
  <2> QED BY <2>1, <2>2, <2>3, <2>4 DEF TypeOK
<1>4. ASSUME NEW i \in SnapshotID, NEW p \in Parts, DeleteChunk(i, p) PROVE TypeOK'
  <2>1. TableOK' BY <1>4 DEF DeleteChunk, TypeOK, TableOK
  <2>2. RunsOK' /\ now' \in Time /\ HistoryOK'
    BY <1>4 DEF DeleteChunk, TypeOK, RunsOK, HistoryOK
  <2>4. ASSUME NEW q \in Runs PROVE PhaseOK(q)'
    BY <1>4 DEF DeleteChunk, TypeOK, PhaseOK, Reclaiming
  <2> QED BY <2>1, <2>2, <2>4 DEF TypeOK
<1> QED BY <1>1, <1>2, <1>3, <1>4 DEF Environment

\* TypeOK holds of an empty table with no invocation.
LEMMA InitType == Init => TypeOK
<1> SUFFICES ASSUME Init PROVE TypeOK OBVIOUS
<1> USE DEF Init
<1>1. TableOK BY DEF TableOK
<1>2. RunsOK BY ContractAssumption DEF RunsOK, Steps, Time
<1>3. HistoryOK BY DEF HistoryOK
<1>4. ASSUME NEW q \in Runs PROVE PhaseOK(q) BY DEF PhaseOK, Reclaiming
<1>5. now \in Time BY ContractAssumption DEF Time
<1> QED BY <1>1, <1>2, <1>3, <1>4, <1>5 DEF TypeOK

\* TypeOK is a predicate of the variables.
LEMMA StutterType == ASSUME TypeOK, UNCHANGED vars PROVE TypeOK'
BY DEF TypeOK, TableOK, RunsOK, HistoryOK, PhaseOK, Reclaiming

\* TypeOK is inductive.
LEMMA NextType == TypeOK /\ [Next]_vars => TypeOK'
<1> SUFFICES ASSUME TypeOK, [Next]_vars PROVE TypeOK' OBVIOUS
<1>1. ASSUME NEW r \in Runs, NEW g \in Groups, Start(r, g) PROVE TypeOK'
  BY <1>1, StartType
<1>2. ASSUME NEW r \in Runs, Gather(r) PROVE TypeOK'
  BY <1>2, ScanType, ScanFailsType, ReadPointerType, ReadChunksType, ReadFailsType
  DEF Gather
<1>3. ASSUME NEW r \in Runs, WriteChunkSet(r) PROVE TypeOK'
  BY <1>3, StageType, StageFailsType, PlanChunksType, WriteChunksType, VerifyChunksType
  DEF WriteChunkSet
<1>4. ASSUME NEW r \in Runs, MovePointer(r) PROVE TypeOK'
  BY <1>4, ReadLatestType, QuarantineType, SwapType, SwapUnansweredType, SwapEchoedType,
     SwapRefusedType, PublishCallFailsType
  DEF MovePointer
<1>5. ASSUME NEW r \in Runs, Settle(r) PROVE TypeOK'
  BY <1>5, UnstageType, ExpireCheckType, ExpireType, ExpireFailsType, RestageType
  DEF Settle
<1>6. ASSUME NEW r \in Runs, Reclaim(r) PROVE TypeOK'
  BY <1>6, SurveyType, ListMarkersType, SurveyFailsType, SweepMarkerType, SweepCheckType,
     SweepDoneType, SweepExpireType, SweepExpireFailsType, SweepUnstageType
  DEF Reclaim
<1>7. ASSUME NEW r \in Runs, Kill(r) PROVE TypeOK' BY <1>7, KillType
<1>8. CASE Environment BY <1>8, EnvironmentType
<1>9. CASE UNCHANGED vars BY <1>9, StutterType
<1> QED BY <1>1, <1>2, <1>3, <1>4, <1>5, <1>6, <1>7, <1>8, <1>9 DEF Next, Step

\* Every variable always holds a value of its kind, and every call of a run finds
\* what it acts on, whatever fails.
THEOREM TypeCorrect == Spec => []TypeOK
BY InitType, NextType, PTL DEF Spec

-----------------------------------------------------------------------------
(* Which steps change what                                                 *)

\* The pointer is moved by a publication that finds it unchanged, and by damage.
LEMMA PointerMoves ==
  ASSUME [Next]_vars
  PROVE  \/ UNCHANGED pointer
         \/ \E r \in Runs : At(r, "swap") /\ Install(r)
         \/ \E b \in Broken : Corrupt(b)
<1>1. ASSUME NEW r \in Runs, NEW g \in Groups, Start(r, g) PROVE UNCHANGED pointer
  BY <1>1 DEF Start
<1>2. ASSUME NEW r \in Runs, Gather(r) PROVE UNCHANGED pointer
  BY <1>2 DEF Gather, Scan, ScanFails, Abort, ReadPointer, ReadChunks, ReadFails
<1>3. ASSUME NEW r \in Runs, WriteChunkSet(r) PROVE UNCHANGED pointer
  BY <1>3 DEF WriteChunkSet, Stage, StageFails, PlanChunks, WriteChunks,
       VerifyChunks
<1>4. ASSUME NEW r \in Runs, MovePointer(r) PROVE UNCHANGED pointer \/ (At(r, "swap") /\ Install(r))
  BY <1>4 DEF MovePointer, ReadLatest, Quarantine, Swap, SwapUnanswered,
       SwapEchoed, SwapRefused, PublishCallFails
<1>5. ASSUME NEW r \in Runs, Settle(r) PROVE UNCHANGED pointer
  BY <1>5 DEF Settle, Unstage, ExpireCheck, Expire, ExpireFails, Restage
<1>6. ASSUME NEW r \in Runs, Reclaim(r) PROVE UNCHANGED pointer
  BY <1>6 DEF Reclaim, Survey, ListMarkers, SurveyFails, Finish, SweepMarker,
       SweepCheck, SweepDone,
              SweepExpire, SweepExpireFails, SweepUnstage
<1>7. ASSUME NEW r \in Runs, Kill(r) PROVE UNCHANGED pointer BY <1>7 DEF Kill
<1>8. CASE Environment
  BY <1>8 DEF Environment, Tick, DeleteMarker, DeleteChunk
<1> QED BY <1>1, <1>2, <1>3, <1>4, <1>5, <1>6, <1>7, <1>8 DEF Next, Step

\* Only the ordering rule, by way of quarantine or not, sends a run to the write.
LEMMA SwapIsPlanned ==
  ASSUME TypeOK, [Next]_vars, NEW q \in Runs, pc'[q] = "swap"
  PROVE  \/ pc[q] = "swap" /\ seen'[q] = seen[q] /\ id'[q] = id[q]
         \/ ReadLatest(q) \/ Quarantine(q)
<1> DEFINE Kept == pc[q] = "swap" /\ seen'[q] = seen[q] /\ id'[q] = id[q]
<1> USE DEF TypeOK, RunsOK
<1>1. ASSUME NEW r \in Runs, NEW g \in Groups, Start(r, g) PROVE Kept
  BY <1>1 DEF Start
<1>2. ASSUME NEW r \in Runs, Gather(r) PROVE Kept
  BY <1>2 DEF Gather, Scan, ScanFails, Abort, Forget, ReadPointer, ReadChunks,
       ReadFails
<1>3. ASSUME NEW r \in Runs, WriteChunkSet(r) PROVE Kept
  BY <1>3 DEF WriteChunkSet, Stage, StageFails, PlanChunks, WriteChunks,
       VerifyChunks, PublishFails, GotoSurvey, Forget
<1>4. ASSUME NEW r \in Runs, MovePointer(r) PROVE Kept \/ ReadLatest(q) \/ Quarantine(q)
  BY <1>4 DEF MovePointer, ReadLatest, Quarantine, Swap, SwapUnanswered,
       SwapEchoed, SwapRefused, PublishCallFails, PublishFails, GotoSurvey
<1>5. ASSUME NEW r \in Runs, Settle(r) PROVE Kept
  BY <1>5 DEF Settle, Unstage, ExpireCheck, Expire, ExpireFails, Restage, GotoSurvey
<1>6. ASSUME NEW r \in Runs, Reclaim(r) PROVE Kept
  BY <1>6 DEF Reclaim, Survey, ListMarkers, SurveyFails, Finish, Forget,
       SweepMarker, SweepCheck, SweepDone, TakeEntry,
              SweepExpire, SweepExpireFails, SweepUnstage
<1>7. ASSUME NEW r \in Runs, Kill(r) PROVE Kept BY <1>7 DEF Kill, Forget
<1>8. CASE Environment
  BY <1>8 DEF Environment, Tick, Corrupt, DeleteMarker, DeleteChunk
<1>9. CASE UNCHANGED vars BY <1>9
<1> QED BY <1>1, <1>2, <1>3, <1>4, <1>5, <1>6, <1>7, <1>8, <1>9 DEF Next, Step

-----------------------------------------------------------------------------
(* The pointer only advances                                               *)

\* A run about to replace a pointer has scanned later than that pointer did.
PlannedSwap == \A r \in Runs : At(r, "swap") /\ seen[r] \in Pointer => seen[r].id.at < id[r].at

\* What a run writes is a pointer, and one that reads.
LEMMA NewPointerType ==
  ASSUME TypeOK, NEW r \in Runs, At(r, "swap") \/ At(r, "readLatest")
  PROVE  NewPointer(r) \in Pointer /\ NewPointer(r) # None /\ NewPointer(r) \notin Broken
<1>1. id[r] \in SnapshotID /\ body[r] \in Body /\ stamp[r] \in Time
  BY DEF TypeOK, RunsOK, PhaseOK
<1> QED BY <1>1, SentinelAssumption DEF NewPointer, Pointer

\* PlannedSwap is inductive: PlanLatestWrite is asked of the pointer the run keeps.
LEMMA PlannedSwapStep == ASSUME TypeOK, PlannedSwap, [Next]_vars PROVE PlannedSwap'
<1> SUFFICES ASSUME NEW q \in Runs, pc'[q] = "swap", seen'[q] \in Pointer
             PROVE  seen'[q].id.at < id'[q].at
  BY DEF PlannedSwap
<1>1. CASE pc[q] = "swap" /\ seen'[q] = seen[q] /\ id'[q] = id[q]
  BY <1>1 DEF PlannedSwap
<1>2. CASE Quarantine(q)
  <2>1. seen[q] \in Broken /\ seen' = seen
    BY <1>2 DEF Quarantine, TypeOK, RunsOK, PhaseOK, PublishFails, GotoSurvey
  <2> QED BY <2>1, SentinelAssumption
<1>3. CASE ReadLatest(q)
  <2>1. seen'[q] = pointer /\ id' = id /\ PlanLatestWrite(pointer, NewPointer(q)) = "write"
    BY <1>3 DEF ReadLatest, TypeOK, RunsOK, PublishFails, GotoSurvey
  <2>2. pointer # None /\ pointer \notin Broken BY <2>1, SentinelAssumption
  <2> QED BY <2>1, <2>2 DEF PlanLatestWrite, NewPointer
<1> QED BY <1>1, <1>2, <1>3, SwapIsPlanned

\* A pointer that reads is compared as it was read; an unusable one may be
\* another of its form, and is a copy away from the one that was read.
LEMMA GuardFinds ==
  ASSUME NEW r \in Runs, Guard(r)
  PROVE  /\ pointer \notin Broken \cup {None} => pointer = seen[r]
         /\ seen[r] \notin Broken => pointer = seen[r]
         /\ pointer \in Broken => /\ seen[r] \in Broken
                                 /\ \/ pointer = seen[r]
                                    \/ Form[pointer] # "S" /\ Form[seen[r]] = Form[pointer]
BY DEF Guard, FormOf

\* The write finds the pointer the plan was made from, so it moves forward.
LEMMA PointerAdvancesStep ==
  ASSUME TypeOK, PlannedSwap, [Next]_vars, Readable, pointer' \notin Broken, pointer' # pointer
  PROVE  pointer' # None /\ pointer'.id.at > pointer.id.at
<1>1. PICK r \in Runs : At(r, "swap") /\ Install(r)
  BY PointerMoves DEF Corrupt
<1>2. pointer \in Pointer /\ seen[r] = pointer /\ pointer' = NewPointer(r)
  BY <1>1, GuardFinds DEF Install, TypeOK, TableOK, Readable
<1>3. pointer'.id.at = id[r].at BY <1>2 DEF NewPointer
<1>4. id[r].at \in Nat /\ pointer.id.at \in Nat
  BY <1>1, <1>2 DEF TypeOK, RunsOK, PhaseOK, Pointer, SnapshotID, Time
<1> QED BY <1>1, <1>2, <1>3, <1>4, NewPointerType DEF PlannedSwap

\* The pointer never names a scan at or before the one it named.  (PutLatest)
THEOREM PointerAdvances == Spec => PointerOnlyAdvances
<1>1. Init => PlannedSwap BY DEF Init, PlannedSwap
<1>2. TypeOK /\ PlannedSwap /\ [Next]_vars => PlannedSwap' BY PlannedSwapStep
<1>3. TypeOK /\ PlannedSwap /\ [Next]_vars
        => [Readable /\ pointer' \notin Broken /\ pointer' # pointer
              => pointer' # None /\ pointer'.id.at > pointer.id.at]_vars
  BY PointerAdvancesStep
<1> QED BY <1>1, <1>2, <1>3, TypeCorrect, PTL DEF Spec, PointerOnlyAdvances

-----------------------------------------------------------------------------
(* Carried lists keep their scans                                          *)

\* A completed scan stays completed.
LEMMA ScansGrow ==
  ASSUME TypeOK, [Next]_vars, NEW g \in Groups PROVE scans[g] \subseteq scans'[g]
<1>1. ASSUME NEW r \in Runs, Scan(r) PROVE scans[g] \subseteq scans'[g]
  BY <1>1 DEF Scan, TypeOK, HistoryOK
<1>2. CASE \A r \in Runs : ~Scan(r)
  <2>1. ASSUME NEW r \in Runs, Step(r) PROVE UNCHANGED scans
    <3>1. Gather(r) => UNCHANGED scans
      BY <1>2 DEF Gather, ScanFails, Abort, ReadPointer, ReadChunks, ReadFails
    <3>2. WriteChunkSet(r) => UNCHANGED scans
      BY DEF WriteChunkSet, Stage, StageFails, PlanChunks, WriteChunks, VerifyChunks
    <3>3. MovePointer(r) => UNCHANGED scans
      BY DEF MovePointer, ReadLatest, Quarantine, Swap, SwapUnanswered,
           SwapEchoed, SwapRefused, PublishCallFails, Install
    <3>4. Settle(r) => UNCHANGED scans
      BY DEF Settle, Unstage, ExpireCheck, Expire, ExpireFails, Restage
    <3>5. Reclaim(r) => UNCHANGED scans
      BY DEF Reclaim, Survey, ListMarkers, SurveyFails, Finish, SweepMarker,
           SweepCheck, SweepDone,
              SweepExpire, SweepExpireFails, SweepUnstage
    <3> QED BY <2>1, <3>1, <3>2, <3>3, <3>4, <3>5 DEF Step
  <2>2. UNCHANGED scans
    BY <2>1 DEF Next, Start, Kill, Environment, Tick, Corrupt, DeleteMarker,
         DeleteChunk
  <2> QED BY <2>2
<1> QED BY <1>1, <1>2

\* A run changes what it publishes when it scans, when it merges and when it ends.
LEMMA BodyMoves ==
  ASSUME TypeOK, [Next]_vars, NEW q \in Runs
  PROVE  \/ body'[q] = body[q] /\ (body[q] = None \/ id'[q] = id[q])
         \/ body'[q] = None
         \/ Scan(q) \/ ReadChunks(q)
<1> DEFINE Kept == \/ body'[q] = body[q] /\ (body[q] = None \/ id'[q] = id[q])
                   \/ body'[q] = None
<1> USE DEF TypeOK, RunsOK
<1>1. ASSUME NEW r \in Runs, NEW g \in Groups, Start(r, g) PROVE Kept
  BY <1>1 DEF Start, PhaseOK
<1>2. ASSUME NEW r \in Runs, Gather(r) PROVE Kept \/ Scan(q) \/ ReadChunks(q)
  BY <1>2 DEF Gather, Scan, ScanFails, Abort, Forget, ReadPointer, ReadChunks,
       ReadFails
<1>3. ASSUME NEW r \in Runs, WriteChunkSet(r) PROVE Kept
  BY <1>3 DEF WriteChunkSet, Stage, StageFails, PlanChunks, WriteChunks,
       VerifyChunks, PublishFails, GotoSurvey, Forget
<1>4. ASSUME NEW r \in Runs, MovePointer(r) PROVE Kept
  BY <1>4 DEF MovePointer, ReadLatest, Quarantine, Swap, SwapUnanswered,
       SwapEchoed, SwapRefused, PublishCallFails, PublishFails, GotoSurvey
<1>5. ASSUME NEW r \in Runs, Settle(r) PROVE Kept
  BY <1>5 DEF Settle, Unstage, ExpireCheck, Expire, ExpireFails, Restage, GotoSurvey
<1>6. ASSUME NEW r \in Runs, Reclaim(r) PROVE Kept
  BY <1>6 DEF Reclaim, Survey, ListMarkers, SurveyFails, Finish, Forget,
       SweepMarker, SweepCheck, SweepDone, TakeEntry,
              SweepExpire, SweepExpireFails, SweepUnstage
<1>7. ASSUME NEW r \in Runs, Kill(r) PROVE Kept BY <1>7 DEF Kill, Forget
<1>8. CASE Environment
  BY <1>8 DEF Environment, Tick, Corrupt, DeleteMarker, DeleteChunk
<1>9. CASE UNCHANGED vars BY <1>9
<1> QED BY <1>1, <1>2, <1>3, <1>4, <1>5, <1>6, <1>7, <1>8, <1>9 DEF Next, Step

\* What a run remembers of the pointer it read there.
LEMMA SeenMoves ==
  ASSUME TypeOK, [Next]_vars, NEW q \in Runs
  PROVE  seen'[q] \in {seen[q], None, pointer}
<1> DEFINE Kept == seen'[q] \in {seen[q], None, pointer}
<1> USE DEF TypeOK, RunsOK
<1>1. ASSUME NEW r \in Runs, NEW g \in Groups, Start(r, g) PROVE Kept
  BY <1>1 DEF Start, PhaseOK
<1>2. ASSUME NEW r \in Runs, Gather(r) PROVE Kept
  BY <1>2 DEF Gather, Scan, ScanFails, Abort, Forget, ReadPointer, ReadChunks,
       ReadFails
<1>3. ASSUME NEW r \in Runs, WriteChunkSet(r) PROVE Kept
  BY <1>3 DEF WriteChunkSet, Stage, StageFails, PlanChunks, WriteChunks,
       VerifyChunks, PublishFails, GotoSurvey, Forget
<1>4. ASSUME NEW r \in Runs, MovePointer(r) PROVE Kept
  BY <1>4 DEF MovePointer, ReadLatest, Quarantine, Swap, SwapUnanswered,
       SwapEchoed, SwapRefused, PublishCallFails, PublishFails, GotoSurvey
<1>5. ASSUME NEW r \in Runs, Settle(r) PROVE Kept
  BY <1>5 DEF Settle, Unstage, ExpireCheck, Expire, ExpireFails, Restage, GotoSurvey
<1>6. ASSUME NEW r \in Runs, Reclaim(r) PROVE Kept
  BY <1>6 DEF Reclaim, Survey, ListMarkers, SurveyFails, Finish, Forget,
       SweepMarker, SweepCheck, SweepDone, TakeEntry,
              SweepExpire, SweepExpireFails, SweepUnstage
<1>7. ASSUME NEW r \in Runs, Kill(r) PROVE Kept BY <1>7 DEF Kill, Forget
<1>8. CASE Environment
  BY <1>8 DEF Environment, Tick, Corrupt, DeleteMarker, DeleteChunk
<1>9. CASE UNCHANGED vars BY <1>9
<1> QED BY <1>1, <1>2, <1>3, <1>4, <1>5, <1>6, <1>7, <1>8, <1>9 DEF Next, Step

\* Every list of b was scanned when b says it was, and not after at.
Attributed(sc, b, at) == \A g \in Sources(b) : b[g] \in sc[g] /\ b[g].at <= at

Attribution ==
  /\ Readable => Attributed(scans, pointer.body, pointer.id.at)
  /\ \A r \in Runs : body[r] # None => Attributed(scans, body[r], id[r].at)
  /\ \A r \in Runs : seen[r] \in Pointer => Attributed(scans, seen[r].body, seen[r].id.at)

\* A payload that is attributed stays so.
LEMMA AttributedLater ==
  ASSUME TypeOK, [Next]_vars, NEW b, NEW at, Attributed(scans, b, at)
  PROVE  Attributed(scans', b, at)
BY ScansGrow DEF Attributed, Sources

\* Attribution is inductive: a scan attributes its own list, a merge takes the
\* lists of a snapshot scanned no later, and the pointer takes what a run holds.
LEMMA AttributionStep == ASSUME TypeOK, TypeOK', Attribution, [Next]_vars PROVE Attribution'
<1>1. ASSUME NEW q \in Runs, seen'[q] \in Pointer
      PROVE  Attributed(scans', seen'[q].body, seen'[q].id.at)
  <2>1. Attributed(scans, seen'[q].body, seen'[q].id.at)
    BY <1>1, SeenMoves, SentinelAssumption DEF Attribution, Readable
  <2> QED BY <2>1, AttributedLater
<1>2. ASSUME NEW q \in Runs, body'[q] # None
      PROVE  Attributed(scans', body'[q], id'[q].at)
  <2>1. CASE body'[q] = body[q] /\ (body[q] = None \/ id'[q] = id[q])
    BY <1>2, <2>1, AttributedLater DEF Attribution
  <2>2. CASE Scan(q)
    <3>1. id[q] \in SnapshotID /\ id' = id BY <2>2 DEF Scan, TypeOK, RunsOK, PhaseOK
    <3>2. PICK answer \in Answers :
            /\ body'[q] = OwnBody(id[q], answer)
            /\ scans' = [scans EXCEPT ![id[q].group] =
                           @ \cup {[at |-> id[q].at, answer |-> answer]}]
      BY <2>2 DEF Scan, TypeOK, RunsOK
    <3>3. [at |-> id[q].at, answer |-> answer] \in scans'[id[q].group]
      BY <3>1, <3>2 DEF TypeOK, HistoryOK, SnapshotID
    <3>4. id[q].at \in Nat BY <3>1 DEF SnapshotID, Time
    <3> QED BY <3>1, <3>2, <3>3, <3>4 DEF Attributed, Sources, OwnBody
  <2>3. CASE ReadChunks(q)
    <3>1. body[q] \in Body /\ seen[q] \in Pointer /\ id[q] \in SnapshotID
      BY <2>3 DEF ReadChunks, TypeOK, RunsOK, PhaseOK
    <3>2. body[q] # None /\ Attributed(scans, body[q], id[q].at)
          /\ Attributed(scans, seen[q].body, seen[q].id.at)
      BY <3>1, SentinelAssumption DEF Attribution
    <3>3. CASE body'[q] = body[q] /\ id'[q] = id[q]
      BY <3>2, <3>3, AttributedLater
    <3>4. CASE /\ seen[q].id.at <= id[q].at /\ id'[q] = id[q]
               /\ body'[q] = CarryForward(body[q], seen[q].body, id[q].group)
      <4>1. seen[q].id.at \in Nat /\ id[q].at \in Nat
        BY <3>1 DEF Pointer, SnapshotID, Time
      <4>2. ASSUME NEW g \in Sources(body'[q])
            PROVE  body'[q][g] \in scans[g] /\ body'[q][g].at <= id[q].at
        <5>1. g \in Groups /\ body'[q][g] # None BY DEF Sources
        <5>2. CASE g = id[q].group
          <6>1. body'[q][g] = body[q][g] BY <3>4, <5>1, <5>2 DEF CarryForward
          <6> QED BY <3>2, <5>1, <6>1 DEF Attributed, Sources
        <5>3. CASE g # id[q].group
          <6>1. body'[q][g] = seen[q].body[g] BY <3>4, <5>1, <5>3 DEF CarryForward
          <6>2. body'[q][g] \in scans[g] /\ body'[q][g].at <= seen[q].id.at
            BY <3>2, <5>1, <6>1 DEF Attributed, Sources
          <6>3. body'[q][g].at \in Nat
            BY <5>1, <6>2 DEF TypeOK, HistoryOK, ListScan, Time
          <6> QED BY <3>4, <4>1, <6>2, <6>3
        <5> QED BY <5>2, <5>3
      <4>3. Attributed(scans, body'[q], id[q].at) BY <4>2 DEF Attributed
      <4> QED BY <3>4, <4>3, AttributedLater
    <3>5. \/ body'[q] = body[q] /\ id'[q] = id[q]
          \/ /\ seen[q].id.at <= id[q].at /\ id'[q] = id[q]
             /\ body'[q] = CarryForward(body[q], seen[q].body, id[q].group)
      BY <1>2, <2>3 DEF ReadChunks, TypeOK, RunsOK, Abort, Forget
    <3> QED BY <3>3, <3>4, <3>5
  <2> QED BY <1>2, <2>1, <2>2, <2>3, BodyMoves
<1>3. ASSUME Readable' PROVE Attributed(scans', pointer'.body, pointer'.id.at)
  <2>1. Attributed(scans, pointer'.body, pointer'.id.at)
    <3>1. CASE UNCHANGED pointer BY <1>3, <3>1 DEF Attribution, Readable
    <3>2. ASSUME NEW r \in Runs, At(r, "swap"), Install(r)
          PROVE  Attributed(scans, pointer'.body, pointer'.id.at)
      <4>1. pointer'.id = id[r] /\ pointer'.body = body[r] /\ body[r] # None
        BY <3>2 DEF Install, NewPointer, TypeOK, PhaseOK
      <4> QED BY <4>1 DEF Attribution
    <3>3. ASSUME NEW b \in Broken, Corrupt(b) PROVE FALSE
      BY <1>3, <3>3 DEF Corrupt, Readable
    <3> QED BY <3>1, <3>2, <3>3, PointerMoves
  <2> QED BY <2>1, AttributedLater
<1> QED BY <1>1, <1>2, <1>3 DEF Attribution, Readable

\* What a published snapshot says of a list is what a scan of it answered then.
\* (CarryForward, deriveSources)
THEOREM SourcesStayScans == Spec => []SourcesAreScans
<1>1. Init => Attribution BY SentinelAssumption DEF Init, Attribution, Readable
<1>2. TypeOK /\ TypeOK' /\ Attribution /\ [Next]_vars => Attribution' BY AttributionStep
<1>3. Attribution => SourcesAreScans BY DEF Attribution, Attributed, SourcesAreScans
<1> QED BY <1>1, <1>2, <1>3, TypeCorrect, PTL DEF Spec

-----------------------------------------------------------------------------
(* A publication loses nothing of what it merged forward from              *)

\* The group of a run was scanned at the instant that names the snapshot.
NamedByScan ==
  \A r \in Runs : body[r] # None =>
    body[r][id[r].group] # None /\ body[r][id[r].group].at = id[r].at

\* A merge leaves the run's own group as it scanned it.
LEMMA NamedByScanStep == ASSUME TypeOK, NamedByScan, [Next]_vars PROVE NamedByScan'
<1> SUFFICES ASSUME NEW q \in Runs, body'[q] # None
             PROVE  /\ body'[q][id'[q].group] # None
                    /\ body'[q][id'[q].group].at = id'[q].at
  BY DEF NamedByScan
<1>1. CASE body'[q] = body[q] /\ (body[q] = None \/ id'[q] = id[q])
  BY <1>1 DEF NamedByScan
<1>2. CASE Scan(q)
  <2>1. id' = id /\ id[q].group \in Groups /\ id[q].at \in Time
    BY <1>2 DEF Scan, TypeOK, RunsOK, PhaseOK, SnapshotID
  <2>2. PICK answer \in Answers : body'[q] = OwnBody(id[q], answer)
    BY <1>2 DEF Scan, TypeOK, RunsOK
  <2>3. body'[q][id[q].group] = [at |-> id[q].at, answer |-> answer]
    BY <2>1, <2>2 DEF OwnBody
  <2>4. [at |-> id[q].at, answer |-> answer] \in ListScan BY <2>1 DEF ListScan
  <2>5. [at |-> id[q].at, answer |-> answer] # None BY <2>4, SentinelAssumption
  <2> QED BY <2>1, <2>3, <2>5
<1>3. CASE ReadChunks(q)
  <2>1. body[q] # None /\ id[q].group \in Groups
    BY <1>3 DEF ReadChunks, TypeOK, RunsOK, PhaseOK, SnapshotID
  <2>2. /\ id'[q] = id[q]
        /\ body'[q] \in {body[q], CarryForward(body[q], seen[q].body, id[q].group)}
    BY <1>3 DEF ReadChunks, TypeOK, RunsOK, Abort, Forget
  <2>3. CarryForward(body[q], seen[q].body, id[q].group)[id[q].group] = body[q][id[q].group]
    BY <2>1 DEF CarryForward
  <2> QED BY <2>1, <2>2, <2>3 DEF NamedByScan
<1> QED BY <1>1, <1>2, <1>3, BodyMoves

Gathering == {"idle", "scan", "readPointer", "readChunks"}

\* What a run merged forward is in what it publishes, and no older than it was.
Merged ==
  \A r \in Runs :
    /\ pc[r] \in Gathering => base[r] = None
    /\ base[r] # None => ~Regresses(base[r].body, body[r])

\* A run merges once, before it writes anything, and then changes neither side.
LEMMA BaseMoves ==
  ASSUME TypeOK, [Next]_vars, NEW q \in Runs
  PROVE  \/ ReadChunks(q) \/ base'[q] = None
         \/ /\ base'[q] = base[q]
            /\ pc[q] \in Gathering \/ (pc'[q] \notin Gathering /\ body'[q] = body[q])
<1> DEFINE Kept == \/ base'[q] = None
                   \/ /\ base'[q] = base[q]
                      /\ \/ pc[q] \in Gathering
                         \/ pc'[q] \notin Gathering /\ body'[q] = body[q]
<1> USE DEF TypeOK, RunsOK, Gathering
<1>1. ASSUME NEW r \in Runs, NEW g \in Groups, Start(r, g) PROVE Kept
  BY <1>1 DEF Start
<1>2. ASSUME NEW r \in Runs, Gather(r) PROVE Kept \/ ReadChunks(q)
  BY <1>2 DEF Gather, Scan, ScanFails, Abort, Forget, ReadPointer, ReadChunks,
       ReadFails
<1>3. ASSUME NEW r \in Runs, WriteChunkSet(r) PROVE Kept
  BY <1>3 DEF WriteChunkSet, Stage, StageFails, PlanChunks, WriteChunks,
       VerifyChunks, PublishFails, GotoSurvey, Forget
<1>4. ASSUME NEW r \in Runs, MovePointer(r) PROVE Kept
  BY <1>4 DEF MovePointer, ReadLatest, Quarantine, Swap, SwapUnanswered,
       SwapEchoed, SwapRefused, PublishCallFails, PublishFails, GotoSurvey
<1>5. ASSUME NEW r \in Runs, Settle(r) PROVE Kept
  BY <1>5 DEF Settle, Unstage, ExpireCheck, Expire, ExpireFails, Restage, GotoSurvey
<1>6. ASSUME NEW r \in Runs, Reclaim(r) PROVE Kept
  BY <1>6 DEF Reclaim, Survey, ListMarkers, SurveyFails, Finish, Forget,
       SweepMarker, SweepCheck, SweepDone, TakeEntry,
              SweepExpire, SweepExpireFails, SweepUnstage
<1>7. ASSUME NEW r \in Runs, Kill(r) PROVE Kept BY <1>7 DEF Kill, Forget
<1>8. CASE Environment
  BY <1>8 DEF Environment, Tick, Corrupt, DeleteMarker, DeleteChunk
<1>9. CASE UNCHANGED vars BY <1>9
<1> QED BY <1>1, <1>2, <1>3, <1>4, <1>5, <1>6, <1>7, <1>8, <1>9 DEF Next, Step

\* A merge keeps every other list as it was, and its own is scanned no earlier.
LEMMA CarryForwardKeeps ==
  ASSUME TypeOK, Attribution, NamedByScan, NEW q \in Runs, At(q, "readChunks"),
         seen[q].id.at <= id[q].at
  PROVE  ~Regresses(seen[q].body, CarryForward(body[q], seen[q].body, id[q].group))
<1>1. /\ seen[q] \in Pointer /\ body[q] # None /\ body[q] \in Body
      /\ id[q] \in SnapshotID
  BY DEF TypeOK, RunsOK, PhaseOK
<1>2. Attributed(scans, seen[q].body, seen[q].id.at) BY <1>1 DEF Attribution
<1> SUFFICES ASSUME NEW g \in Sources(seen[q].body)
             PROVE  LET new == CarryForward(body[q], seen[q].body, id[q].group)
                    IN  new[g] # None /\ ~(new[g].at < seen[q].body[g].at)
  BY DEF Regresses
<1>3. /\ g \in Groups /\ seen[q].body[g] # None /\ seen[q].body[g] \in scans[g]
      /\ seen[q].body[g].at <= seen[q].id.at
  BY <1>2 DEF Sources, Attributed
<1>4. seen[q].body[g].at \in Nat /\ seen[q].id.at \in Nat /\ id[q].at \in Nat
  BY <1>1, <1>3 DEF TypeOK, HistoryOK, ListScan, Pointer, SnapshotID, Time
<1>5. CASE g = id[q].group
  <2>1. body[q][g] # None /\ body[q][g].at = id[q].at BY <1>1, <1>5 DEF NamedByScan
  <2> QED BY <1>3, <1>4, <1>5, <2>1 DEF CarryForward
<1>6. CASE g # id[q].group
  BY <1>3, <1>4, <1>6 DEF CarryForward
<1> QED BY <1>5, <1>6

\* Merged is inductive.
LEMMA MergedStep ==
  ASSUME TypeOK, Attribution, NamedByScan, Merged, [Next]_vars PROVE Merged'
<1> SUFFICES ASSUME NEW q \in Runs
             PROVE  /\ pc'[q] \in Gathering => base'[q] = None
                    /\ base'[q] # None => ~Regresses(base'[q].body, body'[q])
  BY DEF Merged, Regresses
<1>1. CASE base'[q] = None BY <1>1
<1>2. CASE /\ base'[q] = base[q]
           /\ pc[q] \in Gathering \/ (pc'[q] \notin Gathering /\ body'[q] = body[q])
  BY <1>2 DEF Merged
<1>3. CASE ReadChunks(q)
  <2>1. base[q] = None BY <1>3 DEF ReadChunks, Merged, Gathering
  <2>2. CASE /\ base'[q] = seen[q] /\ pc'[q] = "stage" /\ seen[q].id.at <= id[q].at
             /\ body'[q] = CarryForward(body[q], seen[q].body, id[q].group)
    BY <1>3, <2>2, CarryForwardKeeps DEF ReadChunks, Gathering
  <2> QED BY <1>3, <2>1, <2>2 DEF ReadChunks, Abort, Forget, TypeOK, RunsOK
<1> QED BY <1>1, <1>2, <1>3, BaseMoves

\* A publication that finds the very snapshot it merged from keeps all of it.
LEMMA NothingLostStep ==
  ASSUME TypeOK, Merged, [Next]_vars, Readable, pointer' \notin Broken,
         pointer' # pointer, Regresses(pointer.body, pointer'.body)
  PROVE  \E r \in Runs : At(r, "swap") /\ landed'[r] /\ base[r] # pointer
<1>1. PICK r \in Runs : At(r, "swap") /\ Install(r)
  BY PointerMoves DEF Corrupt
<1>2. landed'[r] BY <1>1 DEF Install, TypeOK, RunsOK
<1>3. pointer'.body = body[r] BY <1>1 DEF Install, NewPointer
<1>4. pointer # None BY DEF Readable
<1>5. base[r] # pointer BY <1>3, <1>4 DEF Merged
<1> QED BY <1>1, <1>2, <1>5

\* Only a publication that replaces another snapshot than it merged forward from
\* can lose a list or set one back.  (readPrevious; PutLatest)
THEOREM NothingIsLost == Spec => NothingLostWithoutARace
<1>1. Init => Attribution /\ NamedByScan /\ Merged
  BY SentinelAssumption DEF Init, Attribution, NamedByScan, Merged, Readable
<1>2. TypeOK /\ TypeOK' /\ Attribution /\ [Next]_vars => Attribution' BY AttributionStep
<1>3. TypeOK /\ NamedByScan /\ [Next]_vars => NamedByScan' BY NamedByScanStep
<1>4. TypeOK /\ Attribution /\ NamedByScan /\ Merged /\ [Next]_vars => Merged'
  BY MergedStep
<1>5. TypeOK /\ Merged /\ [Next]_vars
        => [Readable /\ pointer' \notin Broken /\ pointer' # pointer
              /\ Regresses(pointer.body, pointer'.body)
              => \E r \in Runs : At(r, "swap") /\ landed'[r] /\ base[r] # pointer]_vars
  BY NothingLostStep
<1> QED BY <1>1, <1>2, <1>3, <1>4, <1>5, TypeCorrect, PTL
        DEF Spec, NothingLostWithoutARace

-----------------------------------------------------------------------------
(* An unusable pointer is preserved before it is replaced                  *)

\* A run about to replace an unusable pointer has copied it.
Copied ==
  \A r \in Runs : At(r, "swap") /\ seen[r] \in Broken
                    => \E k \in DOMAIN quarantined : quarantined[k] = seen[r]

\* Copies are only added, and only by the call that makes them.
LEMMA QuarantinedMoves ==
  ASSUME [Next]_vars PROVE UNCHANGED quarantined \/ \E r \in Runs : Quarantine(r)
<1>1. ASSUME NEW r \in Runs, NEW g \in Groups, Start(r, g) PROVE UNCHANGED quarantined
  BY <1>1 DEF Start
<1>2. ASSUME NEW r \in Runs, Gather(r) PROVE UNCHANGED quarantined
  BY <1>2 DEF Gather, Scan, ScanFails, Abort, ReadPointer, ReadChunks, ReadFails
<1>3. ASSUME NEW r \in Runs, WriteChunkSet(r) PROVE UNCHANGED quarantined
  BY <1>3 DEF WriteChunkSet, Stage, StageFails, PlanChunks, WriteChunks,
       VerifyChunks
<1>4. ASSUME NEW r \in Runs, MovePointer(r) PROVE UNCHANGED quarantined \/ Quarantine(r)
  BY <1>4 DEF MovePointer, ReadLatest, Swap, SwapUnanswered,
       SwapEchoed, SwapRefused, PublishCallFails, Install
<1>5. ASSUME NEW r \in Runs, Settle(r) PROVE UNCHANGED quarantined
  BY <1>5 DEF Settle, Unstage, ExpireCheck, Expire, ExpireFails, Restage
<1>6. ASSUME NEW r \in Runs, Reclaim(r) PROVE UNCHANGED quarantined
  BY <1>6 DEF Reclaim, Survey, ListMarkers, SurveyFails, Finish, SweepMarker,
       SweepCheck, SweepDone,
              SweepExpire, SweepExpireFails, SweepUnstage
<1>7. ASSUME NEW r \in Runs, Kill(r) PROVE UNCHANGED quarantined BY <1>7 DEF Kill
<1>8. CASE Environment
  BY <1>8 DEF Environment, Tick, Corrupt, DeleteMarker, DeleteChunk
<1> QED BY <1>1, <1>2, <1>3, <1>4, <1>5, <1>6, <1>7, <1>8 DEF Next, Step

\* A copy that is kept stays kept.
LEMMA CopiesStay ==
  ASSUME TypeOK, NEW r \in Runs, Quarantine(r), NEW k \in DOMAIN quarantined
  PROVE  k \in DOMAIN quarantined' /\ quarantined'[k] = quarantined[k]
<1>1. quarantined \in Seq(Broken) /\ seen[r] \in Broken
  BY DEF TypeOK, TableOK, PhaseOK, Quarantine
<1>2. quarantined' \in {quarantined, Append(quarantined, seen[r])} BY DEF Quarantine
<1> QED BY <1>1, <1>2

\* Copied is inductive: the way to the write of an unusable pointer is its copy.
LEMMA CopiedStep == ASSUME TypeOK, Copied, [Next]_vars PROVE Copied'
<1> SUFFICES ASSUME NEW q \in Runs, pc'[q] = "swap", seen'[q] \in Broken
             PROVE  \E k \in DOMAIN quarantined' : quarantined'[k] = seen'[q]
  BY DEF Copied
<1>1. CASE pc[q] = "swap" /\ seen'[q] = seen[q]
  <2>1. PICK k \in DOMAIN quarantined : quarantined[k] = seen[q] BY <1>1 DEF Copied
  <2>2. k \in DOMAIN quarantined' /\ quarantined'[k] = quarantined[k]
    BY QuarantinedMoves, CopiesStay
  <2> QED BY <1>1, <2>1, <2>2
<1>2. CASE Quarantine(q)
  <2>1. quarantined \in Seq(Broken) /\ seen[q] \in Broken /\ seen' = seen
        /\ quarantined' = Append(quarantined, seen[q])
    BY <1>2 DEF Quarantine, TypeOK, TableOK, RunsOK, PhaseOK, PublishFails, GotoSurvey
  <2>2. /\ Len(quarantined) + 1 \in DOMAIN quarantined'
        /\ quarantined'[Len(quarantined) + 1] = seen[q]
    BY <2>1
  <2> QED BY <2>1, <2>2
<1>3. CASE ReadLatest(q)
  BY <1>3 DEF ReadLatest, TypeOK, RunsOK, PublishFails, GotoSurvey
<1> QED BY <1>1, <1>2, <1>3, SwapIsPlanned

\* An unusable pointer that is replaced was copied as it was at that moment when
\* its document is a string; of another form, it or one of its form that was there
\* before it was.  (quarantinePointer; pointerGuard)
THEOREM EvidenceKept == Spec => EvidenceIsKept
<1>1. Init => Copied BY DEF Init, Copied
<1>2. TypeOK /\ Copied /\ [Next]_vars => Copied' BY CopiedStep
<1>3. Copied /\ [Next]_vars
        => [(pointer \in Broken) /\ pointer' \notin Broken
              => \E k \in DOMAIN quarantined :
                   \/ quarantined[k] = pointer
                   \/ Form[pointer] # "S" /\ Form[quarantined[k]] = Form[pointer]]_vars
  <2> SUFFICES ASSUME Copied, [Next]_vars, pointer \in Broken, pointer' \notin Broken
               PROVE  \E k \in DOMAIN quarantined :
                        \/ quarantined[k] = pointer
                        \/ Form[pointer] # "S" /\ Form[quarantined[k]] = Form[pointer]
    OBVIOUS
  <2>1. PICK r \in Runs : At(r, "swap") /\ Install(r) BY PointerMoves DEF Corrupt
  <2>2. /\ seen[r] \in Broken
        /\ pointer = seen[r] \/ (Form[pointer] # "S" /\ Form[seen[r]] = Form[pointer])
    BY <2>1, GuardFinds DEF Install
  <2>3. PICK k \in DOMAIN quarantined : quarantined[k] = seen[r] BY <2>1, <2>2 DEF Copied
  <2> QED BY <2>2, <2>3
<1> QED BY <1>1, <1>2, <1>3, TypeCorrect, PTL DEF Spec, EvidenceIsKept

===============================================================================
