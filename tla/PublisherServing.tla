---------------------------- MODULE PublisherServing ----------------------------
(***************************************************************************)
(* What readers find, for every set of groups, runs, chunks and limits,    *)
(* and with calls that fail, runs that are killed and replies that are     *)
(* lost: LiveStaysServable, that what the pointer names is whole and       *)
(* nothing deletes it; ReadersKeepChunks, that a set the pointer has left  *)
(* is whole for as long as a reader may take to ask for it; and            *)
(* ReadersGetThePromise, that the publisher implements PublishedSnapshot.  *)
(* All are for behaviours without a damaged pointer, which stops ordering  *)
(* runs, and without a repeated event, which gives two runs one ID.        *)
(*                                                                         *)
(* The argument turns on Dead, a condition on a snapshot ID that is never  *)
(* lost again: the ID is not live and no run can make it so.  Only chunks  *)
(* of dead IDs are given a TTL, and a run that is about to move the        *)
(* pointer has an ID that is not dead and chunks that were verified.  The  *)
(* TTL it is given is longer than an invocation and a read, counted from   *)
(* an instant of the run that gives it (Stamped), so it ends later than    *)
(* any read of what the pointer named (Windows).                           *)
(***************************************************************************)
EXTENDS PublisherRetention

USE DEF vars, table, job, publish, sweep, history, At, Goto, Repeat, Running

-----------------------------------------------------------------------------
(* The inductive invariant                                                 *)

Sound == Unrepeated /\ "corrupt" \notin Faults

\* Every pointer reads.
Undamaged == pointer \notin Broken /\ \A r \in Runs : seen[r] \notin Broken

\* The pointer has passed the ID, or its run is over without having moved it.
Dead(i) ==
  /\ i \in used
  /\ \/ Readable /\ pointer.id # i /\ pointer.id.at >= i.at
     \/ ~Live(i) /\ \A r \in Runs : id[r] # i

\* What a run will bound is dead.
Doomed ==
  \A r \in Runs :
    /\ replaced[r] # None => Dead(replaced[r].id)
    /\ At(r, "sweepExpire") => Dead(entry[r].id)

\* What a run that may still move the pointer has written bears no TTL, and is
\* whole from the read-back on.
Written ==
  \A r \in Runs :
    pc[r] \in Before \cup Moving /\ ~Dead(id[r]) =>
      /\ \A p \in Parts : chunks[id[r]][p] # None => chunks[id[r]][p].expires = None
      /\ pc[r] \in Moving => Verifies(chunks[id[r]], body[r])

Unstamped == Gathering \cup {"stage"}

\* The instant a run counts its windows from is no earlier than the one it is named
\* after.
Stamped == \A r \in Runs : pc[r] \notin Unstamped => id[r].at <= stamp[r]

\* No chunk of a set the pointer has left goes before its last reader has asked.
Windows ==
  \A i \in SnapshotID : namedUntil[i] # None =>
    /\ namedUntil[i] <= now
    /\ \A p \in Parts :
         /\ chunks[i][p] = None => now > namedUntil[i] + ReadLimit
         /\ chunks[i][p] # None /\ chunks[i][p].expires # None
              => chunks[i][p].expires > namedUntil[i] + ReadLimit

IInv ==
  /\ RInv /\ PlannedSwap
  /\ Undamaged /\ Doomed /\ Written /\ LiveIsServable /\ Stamped /\ Windows

-----------------------------------------------------------------------------
(* Which steps change what                                                 *)

\* A run writes its own set and bounds dead ones; what has a TTL may be deleted.
LEMMA UndeadChunksMove ==
  ASSUME TypeOK, Doomed, [Next]_vars, NEW i \in SnapshotID, ~Dead(i)
  PROVE  \/ chunks'[i] = chunks[i]
         \/ \E r \in Runs : WriteChunks(r) /\ id[r] = i
         \/ \E p \in Parts : DeleteChunk(i, p)
<1>1. ASSUME NEW r \in Runs, At(r, "expire"), replaced[r].id = i PROVE FALSE
  BY <1>1 DEF Doomed, TypeOK, PhaseOK
<1>2. ASSUME NEW r \in Runs, At(r, "sweepExpire"), entry[r].id = i PROVE FALSE
  BY <1>2 DEF Doomed
<1> QED BY <1>1, <1>2, ChunksMove

\* A run samples the clock before it writes its first chunk, and again later.
LEMMA StampedMoves ==
  ASSUME TypeOK, [Next]_vars, NEW q \in Runs, pc'[q] \notin Unstamped
  PROVE  Stage(q) \/ (/\ pc[q] \notin Unstamped /\ id'[q] = id[q]
                      /\ stamp'[q] \in {stamp[q], now})
<1> DEFINE Kept == /\ pc[q] \notin Unstamped /\ id'[q] = id[q]
                   /\ stamp'[q] \in {stamp[q], now}
<1> USE DEF TypeOK, RunsOK, Unstamped, Gathering
<1>1. ASSUME NEW r \in Runs, NEW g \in Groups, Start(r, g) PROVE Kept
  BY <1>1 DEF Start
<1>2. ASSUME NEW r \in Runs, Gather(r) PROVE Kept
  BY <1>2 DEF Gather, Scan, ScanFails, Abort, Forget, ReadPointer, ReadChunks, ReadFails
<1>3. ASSUME NEW r \in Runs, WriteChunkSet(r) PROVE Kept \/ Stage(q)
  BY <1>3 DEF WriteChunkSet, Stage, StageFails, PlanChunks, WriteChunks, VerifyChunks,
       PublishFails, GotoSurvey, Forget
<1>4. ASSUME NEW r \in Runs, MovePointer(r) PROVE Kept
  BY <1>4 DEF MovePointer, ReadLatest, Quarantine, Swap, SwapUnanswered, SwapEchoed,
       SwapRefused, PublishCallFails, PublishFails, GotoSurvey
<1>5. ASSUME NEW r \in Runs, Settle(r) PROVE Kept
  BY <1>5 DEF Settle, Unstage, ExpireCheck, Expire, ExpireFails, Restage, GotoSurvey
<1>6. ASSUME NEW r \in Runs, Reclaim(r) PROVE Kept
  BY <1>6 DEF Reclaim, Survey, ListMarkers, SurveyFails, Finish, Forget, SweepMarker,
       SweepCheck, SweepDone, TakeEntry, SweepExpire, SweepExpireFails, SweepUnstage
<1>7. ASSUME NEW r \in Runs, Kill(r) PROVE Kept BY <1>7 DEF Kill, Forget
<1>8. CASE Environment
  BY <1>8 DEF Environment, Tick, Corrupt, DeleteMarker, DeleteChunk
<1>9. CASE UNCHANGED vars BY <1>9
<1> QED BY <1>1, <1>2, <1>3, <1>4, <1>5, <1>6, <1>7, <1>8, <1>9 DEF Next, Step

\* The record of when an ID stopped being named is made when the pointer moves.
LEMMA NamedUntilMoves ==
  ASSUME [Next]_vars
  PROVE  \/ UNCHANGED namedUntil
         \/ \E r \in Runs : At(r, "swap") /\ Install(r)
         \/ \E b \in Broken : Corrupt(b)
<1>1. ASSUME NEW r \in Runs, Gather(r) PROVE UNCHANGED namedUntil
  BY <1>1 DEF Gather, Scan, ScanFails, Abort, ReadPointer, ReadChunks, ReadFails
<1>2. ASSUME NEW r \in Runs, WriteChunkSet(r) PROVE UNCHANGED namedUntil
  BY <1>2 DEF WriteChunkSet, Stage, StageFails, PlanChunks, WriteChunks, VerifyChunks
<1>3. ASSUME NEW r \in Runs, MovePointer(r)
      PROVE  UNCHANGED namedUntil \/ (At(r, "swap") /\ Install(r))
  BY <1>3 DEF MovePointer, ReadLatest, Quarantine, Swap, SwapUnanswered, SwapEchoed,
       SwapRefused, PublishCallFails
<1>4. ASSUME NEW r \in Runs, Settle(r) PROVE UNCHANGED namedUntil
  BY <1>4 DEF Settle, Unstage, ExpireCheck, Expire, ExpireFails, Restage
<1>5. ASSUME NEW r \in Runs, Reclaim(r) PROVE UNCHANGED namedUntil
  BY <1>5 DEF Reclaim, Survey, ListMarkers, SurveyFails, Finish, SweepMarker,
       SweepCheck, SweepDone, SweepExpire, SweepExpireFails, SweepUnstage
<1>6. CASE Environment
  BY <1>6 DEF Environment, Tick, DeleteMarker, DeleteChunk
<1> QED BY <1>1, <1>2, <1>3, <1>4, <1>5, <1>6 DEF Next, Step, Start, Kill

-----------------------------------------------------------------------------
(* The invariant is inductive                                              *)

\* Only damage makes a pointer that does not read.
LEMMA UndamagedStep ==
  ASSUME Sound, TypeOK, Undamaged, [Next]_vars PROVE Undamaged'
<1>1. pointer' \notin Broken
  <2>1. ASSUME NEW r \in Runs, At(r, "swap"), Install(r) PROVE pointer' \notin Broken
    BY <2>1, NewPointerType DEF Install
  <2>2. ASSUME NEW b \in Broken, Corrupt(b) PROVE FALSE
    BY <2>2 DEF Corrupt, Sound
  <2> QED BY <2>1, <2>2, PointerMoves DEF Undamaged
<1>2. ASSUME NEW q \in Runs PROVE seen'[q] \notin Broken
  BY SeenMoves, SentinelAssumption DEF Undamaged
<1> QED BY <1>1, <1>2 DEF Undamaged

\* An ID that is dead stays so: the pointer only advances, and no ID is minted twice.
LEMMA DeadStays ==
  ASSUME Sound, TypeOK, PlannedSwap, Undamaged, Undamaged', Minted, [Next]_vars,
         NEW i \in SnapshotID, Dead(i)
  PROVE  Dead(i)'
<1>1. i \in used /\ i \in used'
  BY MintMoves, StartsFresh DEF Dead, Sound
<1>2. CASE Readable /\ pointer.id # i /\ pointer.id.at >= i.at
  <2>1. CASE pointer' = pointer
    BY <1>1, <1>2, <2>1 DEF Dead, Readable
  <2>2. CASE pointer' # pointer
    <3>1. pointer' # None /\ pointer'.id.at > pointer.id.at
      BY <1>2, <2>2, PointerAdvancesStep DEF Undamaged
    <3>2. pointer' \in Pointer
      <4>1. PICK r \in Runs : At(r, "swap") /\ Install(r)
        BY <2>2, PointerMoves DEF Corrupt, Sound
      <4> QED BY <4>1, NewPointerType DEF Install
    <3>3. pointer \in Pointer BY <1>2 DEF TypeOK, TableOK, Readable
    <3>4. pointer'.id.at \in Nat /\ pointer.id.at \in Nat /\ i.at \in Nat
      BY <3>2, <3>3 DEF Pointer, SnapshotID, Time
    <3>5. pointer'.id.at > i.at BY <1>2, <3>1, <3>4
    <3>6. pointer'.id # i /\ pointer'.id.at >= i.at BY <3>4, <3>5
    <3> QED BY <1>1, <3>1, <3>6 DEF Dead, Readable, Undamaged
  <2> QED BY <2>1, <2>2
<1>3. CASE ~Live(i) /\ \A r \in Runs : id[r] # i
  <2>1. ASSUME NEW q \in Runs PROVE id'[q] # i
    BY <1>1, <1>3, RunMoves, StartsFresh, SentinelAssumption DEF Sound
  <2>2. ~Live(i)'
    <3>1. ASSUME NEW r \in Runs, At(r, "swap"), Install(r) PROVE ~Live(i)'
      BY <1>3, <3>1 DEF Install, NewPointer, Live
    <3>2. ASSUME NEW b \in Broken, Corrupt(b) PROVE FALSE
      BY <3>2 DEF Corrupt, Sound
    <3> QED BY <1>3, <3>1, <3>2, PointerMoves DEF Live, Readable
  <2> QED BY <1>1, <2>1, <2>2 DEF Dead
<1> QED BY <1>2, <1>3 DEF Dead

\* What a run replaced is dead once it has moved the pointer past it, and so is an
\* abandoned set a pass looked at: its marker is older than any run.
LEMMA DoomedStep ==
  ASSUME Sound, TypeOK, TypeOK', PlannedSwap, Undamaged, Undamaged', Minted, Minted',
         Timed, Backlogged, Doomed, [Next]_vars
  PROVE  Doomed'
<1>1. ASSUME NEW q \in Runs, NEW i \in SnapshotID, replaced'[q] # None, replaced'[q].id = i
      PROVE  Dead(i)'
  <2>1. CASE replaced'[q] = replaced[q]
    BY <1>1, <2>1, DeadStays DEF Doomed
  <2>2. CASE Swap(q)
    <3>1. /\ replaced'[q] = pointer /\ pointer \in Pointer /\ pointer = seen[q]
          /\ pointer' = NewPointer(q)
      BY <1>1, <2>2, GuardFinds DEF Swap, Install, TypeOK, TableOK, RunsOK
    <3>2. pointer.id.at < id[q].at /\ pointer'.id = id[q]
      BY <2>2, <3>1 DEF Swap, PlannedSwap, NewPointer
    <3>3. pointer.id \in used
      BY <3>1, SentinelAssumption DEF Minted, Readable
    <3>4. pointer.id.at \in Nat /\ id[q].at \in Nat
      BY <2>2, <3>1 DEF Swap, TypeOK, RunsOK, PhaseOK, Pointer, SnapshotID, Time
    <3>5. pointer'.id # pointer.id /\ pointer'.id.at >= pointer.id.at BY <3>2, <3>4
    <3>6. Readable' BY <2>2, <3>1, NewPointerType DEF Swap, Readable
    <3>7. used' = used BY <2>2 DEF Swap, Install
    <3> QED BY <1>1, <3>1, <3>3, <3>5, <3>6, <3>7 DEF Dead
  <2> QED BY <1>1, <2>1, <2>2, ReplacedMoves
<1>2. ASSUME NEW q \in Runs, NEW i \in SnapshotID, pc'[q] = "sweepExpire", entry'[q].id = i
      PROVE  Dead(i)'
  <2>1. CASE At(q, "sweepExpire") /\ entry'[q] = entry[q]
    BY <1>2, <2>1, DeadStays DEF Doomed
  <2>2. CASE SweepCheck(q)
    <3>1. PICK e \in backlog[q] : ~Retained(q, e.id) /\ MayExpire(e.id) /\ entry'[q] = e
      BY <1>2, <2>2 DEF SweepCheck, TakeEntry, TypeOK, RunsOK
    <3>2. e.id \in SnapshotID /\ e.id.at \in Nat /\ e.at \in Nat
      BY <3>1 DEF TypeOK, RunsOK, Entry, SnapshotID, Time
    <3>3. /\ e.id \in used /\ e.id.at <= e.at
          /\ stamp[q] >= e.at + AbandonedAfter /\ stamp[q] <= now
      BY <3>1 DEF Backlogged, Timed
    <3>4. stamp[q] \in Nat /\ now \in Nat BY DEF TypeOK, RunsOK, Time
    <3>5. now > e.id.at + RunLimit
      BY <3>2, <3>3, <3>4, PublisherAssumption, RetentionAssumption
    <3>6. ASSUME NEW r \in Runs, id[r] = e.id PROVE FALSE
      <4>1. now <= e.id.at + RunLimit
        BY <3>2, <3>6, SentinelAssumption DEF Timed
      <4> QED BY <3>2, <3>4, <3>5, <4>1, PublisherAssumption
    <3>7. ~Live(e.id) BY <3>1 DEF MayExpire, Live, Readable
    <3>8. Dead(e.id) BY <3>3, <3>6, <3>7 DEF Dead
    <3> QED BY <1>2, <3>1, <3>8, DeadStays
  <2>3. CASE SweepExpire(q) BY <1>2, <2>3 DEF SweepExpire, TypeOK, RunsOK
  <2> QED BY <1>2, <2>1, <2>2, <2>3, EntryMoves
<1>3. ASSUME NEW q \in Runs, (replaced[q] # None)' PROVE Dead(replaced[q].id)'
  <2>1. replaced'[q].id \in SnapshotID BY <1>3 DEF TypeOK, RunsOK, Pointer
  <2> QED BY <1>1, <1>3, <2>1 DEF Dead
<1>4. ASSUME NEW q \in Runs, At(q, "sweepExpire")' PROVE Dead(entry[q].id)'
  <2>1. entry'[q].id \in SnapshotID BY <1>4 DEF TypeOK, RunsOK, PhaseOK, Entry
  <2> QED BY <1>2, <1>4, <2>1 DEF Dead
<1> QED BY <1>3, <1>4 DEF Doomed

\* The chunks of an ID that is not dead are bounded by nobody, and written by one run.
LEMMA WrittenStep ==
  ASSUME Sound, TypeOK, PlannedSwap, Undamaged, Undamaged', Minted, Doomed, Written,
         [Next]_vars
  PROVE  Written'
<1> SUFFICES ASSUME NEW q \in Runs, pc'[q] \in Before \cup Moving, ~Dead(id[q])'
             PROVE  /\ \A p \in Parts : chunks'[id'[q]][p] # None
                                          => chunks'[id'[q]][p].expires = None
                    /\ pc'[q] \in Moving => Verifies(chunks'[id'[q]], body'[q])
  BY DEF Written, Verifies
<1>1. ASSUME NEW g \in Groups, Start(q, g)
      PROVE  /\ \A p \in Parts : chunks'[id'[q]][p] = None
             /\ pc'[q] \notin Moving
  <2>1. id'[q] \in SnapshotID \ used /\ chunks' = chunks /\ pc'[q] = "scan"
    BY <1>1, StartsFresh DEF Sound
  <2> QED BY <2>1 DEF Minted, Moving
<1>2. CASE /\ id'[q] = id[q] /\ id[q] # None
           /\ pc'[q] \in Before => pc[q] \in Before
           /\ pc'[q] \in Moving =>
                /\ pc[q] \in Moving \/ (At(q, "verify") /\ Verifies(chunks[id[q]], body[q]))
                /\ body'[q] = body[q]
  <2>1. id[q] \in SnapshotID BY <1>2 DEF TypeOK, RunsOK
  <2>2. ~Dead(id[q])
    <3>1. ASSUME NEW i \in SnapshotID, i = id[q], Dead(i) PROVE FALSE
      <4>1. Dead(i)' BY <3>1, DeadStays
      <4> QED BY <1>2, <3>1, <4>1 DEF Dead
    <3> QED BY <2>1, <3>1
  <2>3. pc[q] \in Before \cup Moving BY <1>2 DEF Before
  <2>4. /\ \A p \in Parts : chunks[id[q]][p] # None => chunks[id[q]][p].expires = None
        /\ pc'[q] \in Moving => Verifies(chunks[id[q]], body'[q])
    BY <1>2, <2>2, <2>3 DEF Written
  <2>5. CASE chunks'[id[q]] = chunks[id[q]] BY <1>2, <2>4, <2>5
  <2>6. ASSUME NEW r \in Runs, WriteChunks(r), id[r] = id[q]
        PROVE  /\ \A p \in Parts : chunks'[id[q]][p] # None
                                     => chunks'[id[q]][p].expires = None
               /\ pc'[q] \notin Moving
    <3>1. r = q BY <1>2, <2>6 DEF Minted
    <3>2. \E S \in SUBSET parts[q] :
            /\ chunks' = [chunks EXCEPT ![id[q]] =
                 [p \in Parts |-> IF p \in S THEN [body |-> body[q], expires |-> None]
                                             ELSE chunks[id[q]][p]]]
            /\ Goto(q, IF parts[q] \ S = {} THEN "verify" ELSE "writeChunks")
      <4>1. WriteChunks(q) BY <2>6, <3>1
      <4> QED BY <4>1 DEF WriteChunks
    <3>3. PICK S \in SUBSET parts[q] :
            chunks' = [chunks EXCEPT ![id[q]] =
              [p \in Parts |-> IF p \in S THEN [body |-> body[q], expires |-> None]
                                          ELSE chunks[id[q]][p]]]
      BY <3>2
    <3>4. chunks'[id[q]] =
            [p \in Parts |-> IF p \in S THEN [body |-> body[q], expires |-> None]
                                        ELSE chunks[id[q]][p]]
      BY <2>1, <3>3 DEF TypeOK, TableOK
    <3>5. pc'[q] \in {"verify", "writeChunks"} BY <3>2 DEF TypeOK, RunsOK
    <3> QED BY <2>4, <3>4, <3>5 DEF Moving
  <2>7. ASSUME NEW p \in Parts, DeleteChunk(id[q], p) PROVE FALSE
    BY <2>4, <2>7 DEF DeleteChunk
  <2> QED BY <1>2, <2>1, <2>2, <2>5, <2>6, <2>7, UndeadChunksMove
<1>3. pc'[q] # "idle" BY DEF Before, Moving
<1>4. CASE id'[q] = id[q] /\ id[q] = None /\ pc'[q] = pc[q]
  BY <1>3, <1>4 DEF TypeOK, PhaseOK
<1> QED BY <1>1, <1>2, <1>3, <1>4, RunMoves

\* A run that finds the pointer it planned against has an ID that is not dead, so
\* what it moves the pointer to is whole; and what is live is never dead.
LEMMA LiveIsServableStep ==
  ASSUME Sound, TypeOK, PlannedSwap, Undamaged, Minted, Doomed, NotYetNamed, Written,
         LiveIsServable, [Next]_vars
  PROVE  LiveIsServable'
<1> SUFFICES ASSUME Readable'
             PROVE  \A p \in Parts : /\ chunks'[pointer'.id][p] # None
                                     /\ chunks'[pointer'.id][p].body = pointer'.body
                                     /\ chunks'[pointer'.id][p].expires = None
  BY DEF LiveIsServable, Servable, Verifies, Readable
<1>1. CASE pointer' = pointer
  <2>1. pointer.id \in SnapshotID /\ Readable
    BY <1>1 DEF Readable, TypeOK, TableOK, Pointer
  <2>2. \A p \in Parts : /\ chunks[pointer.id][p] # None
                         /\ chunks[pointer.id][p].body = pointer.body
                         /\ chunks[pointer.id][p].expires = None
    BY <2>1 DEF LiveIsServable, Servable, Verifies
  <2>3. ~Dead(pointer.id) BY <2>1 DEF Dead, Live
  <2>4. ASSUME NEW r \in Runs, WriteChunks(r), id[r] = pointer.id PROVE FALSE
    BY <2>1, <2>4 DEF WriteChunks, NotYetNamed, Before, Live
  <2>5. ASSUME NEW p \in Parts, DeleteChunk(pointer.id, p) PROVE FALSE
    BY <2>2, <2>5 DEF DeleteChunk
  <2> QED BY <1>1, <2>1, <2>2, <2>3, <2>4, <2>5, UndeadChunksMove
<1>2. ASSUME NEW r \in Runs, At(r, "swap"), Install(r)
      PROVE  \A p \in Parts : /\ chunks'[pointer'.id][p] # None
                              /\ chunks'[pointer'.id][p].body = pointer'.body
                              /\ chunks'[pointer'.id][p].expires = None
  <2>1. pointer' = NewPointer(r) /\ (Readable => pointer = seen[r]) /\ chunks' = chunks
    BY <1>2, GuardFinds DEF Install, Readable
  <2>2. ASSUME Readable, pointer.id.at >= id[r].at PROVE FALSE
    <3>1. pointer \in Pointer /\ pointer.id.at \in Nat /\ id[r].at \in Nat
      BY <1>2, <2>2 DEF Readable, TypeOK, TableOK, RunsOK, PhaseOK, Pointer, SnapshotID, Time
    <3> QED BY <1>2, <2>1, <2>2, <3>1 DEF PlannedSwap
  <2>3. ~Dead(id[r]) BY <2>2 DEF Dead
  <2>4. pc[r] \in Moving BY <1>2 DEF Moving
  <2> QED BY <2>1, <2>3, <2>4 DEF Written, Verifies, NewPointer
<1>3. ASSUME NEW b \in Broken, Corrupt(b) PROVE FALSE
  BY <1>3 DEF Corrupt, Sound
<1> QED BY <1>1, <1>2, <1>3, PointerMoves

\* A run that is past its marker was stamped when it made it, or later.
LEMMA StampedStep ==
  ASSUME Unrepeated, TypeOK, Minted, Timed, Stamped, [Next]_vars PROVE Stamped'
<1> SUFFICES ASSUME NEW q \in Runs, pc'[q] \notin Unstamped
             PROVE  id'[q].at <= stamp'[q]
  BY DEF Stamped
<1>1. CASE Stage(q)
  <2>1. id[q] \in used /\ id' = id /\ stamp'[q] = now
    BY <1>1 DEF Stage, TypeOK, RunsOK, PhaseOK, Minted
  <2> QED BY <2>1 DEF Minted
<1>2. CASE /\ pc[q] \notin Unstamped /\ id'[q] = id[q] /\ stamp'[q] \in {stamp[q], now}
  <2>1. id[q] \in used
    BY <1>2 DEF Unstamped, Gathering, TypeOK, PhaseOK, Minted
  <2> QED BY <1>2, <2>1 DEF Stamped, Minted
<1> QED BY <1>1, <1>2, StampedMoves

\* A TTL set now ends after every read of a pointer read until now.
LEMMA WindowsOutlast ==
  ASSUME TypeOK, Timed, Stamped, NEW r \in Runs
  PROVE  /\ At(r, "expire") => SupersededUntil(r) > now + ReadLimit
         /\ At(r, "sweepExpire") => AbandonedUntil(r) > now + ReadLimit
<1>1. now \in Nat /\ stamp[r] \in Nat /\ RunLimit \in Nat /\ ReadLimit \in Nat
  BY PublisherAssumption DEF TypeOK, RunsOK, Time
<1>2. ASSUME pc[r] \in {"expire", "sweepExpire"} PROVE now <= stamp[r] + RunLimit
  <2>1. id[r] \in SnapshotID /\ id[r] # None
    BY <1>2, SentinelAssumption DEF TypeOK, RunsOK, PhaseOK
  <2>2. id[r].at \in Nat BY <2>1 DEF SnapshotID, Time
  <2>3. id[r].at <= stamp[r] BY <1>2 DEF Stamped, Unstamped, Gathering
  <2>4. now <= id[r].at + RunLimit BY <2>1 DEF Timed
  <2> QED BY <1>1, <2>2, <2>3, <2>4
<1>3. ASSUME At(r, "expire") PROVE SupersededUntil(r) > now + ReadLimit
  <2> DEFINE b == replaced[r].body
  <2>1. b \in Body BY <1>3 DEF TypeOK, RunsOK, PhaseOK, Pointer
  <2> HIDE DEF b
  <2>2. Slowest(b) \in Groups BY <2>1, SlowestIsASource DEF Sources
  <2>3. StaleAfter(b) > RunLimit + ReadLimit BY <2>2, RetentionAssumption DEF StaleAfter
  <2>4. StaleAfter(b) \in Nat BY <2>1, WindowType
  <2>5. stamp[r] + StaleAfter(b) > now + ReadLimit BY <1>1, <1>2, <1>3, <2>3, <2>4
  <2> QED BY <2>5 DEF SupersededUntil, b
<1>4. ASSUME At(r, "sweepExpire") PROVE AbandonedUntil(r) > now + ReadLimit
  BY <1>1, <1>2, <1>4, RetentionAssumption DEF AbandonedUntil
<1> QED BY <1>3, <1>4

\* A set that loses the pointer is whole, and what it is given then outlasts its
\* last reader.
LEMMA WindowsStep ==
  ASSUME Sound, TypeOK, TypeOK', Timed, Stamped, LiveIsServable, Windows, [Next]_vars
  PROVE  Windows'
<1> SUFFICES ASSUME NEW i \in SnapshotID, namedUntil'[i] # None
             PROVE  /\ namedUntil'[i] <= now'
                    /\ \A p \in Parts :
                         /\ chunks'[i][p] = None => now' > namedUntil'[i] + ReadLimit
                         /\ chunks'[i][p] # None /\ chunks'[i][p].expires # None
                              => chunks'[i][p].expires > namedUntil'[i] + ReadLimit
  BY DEF Windows
<1>0. /\ now \in Nat /\ now' \in Nat /\ now <= now' /\ ReadLimit \in Nat
      /\ namedUntil'[i] \in Nat
      /\ chunks \in [SnapshotID -> [Parts -> Chunk \cup {None}]]
  BY MintMoves, PublisherAssumption DEF Tick, TypeOK, TableOK, HistoryOK, Time
<1>1. ASSUME NEW r \in Runs, Install(r), Live(i)
      PROVE  /\ namedUntil'[i] = now /\ now' = now
             /\ \A p \in Parts : chunks'[i][p] # None /\ chunks'[i][p].expires = None
  <2>1. namedUntil'[i] = now /\ now' = now /\ chunks' = chunks BY <1>1 DEF Install
  <2>2. Servable(pointer) /\ pointer.id = i BY <1>1 DEF LiveIsServable, Live
  <2> QED BY <2>1, <2>2 DEF Servable, Verifies
<1>2. CASE namedUntil'[i] = namedUntil[i]
  <2>1. /\ namedUntil[i] <= now
        /\ \A p \in Parts :
             /\ chunks[i][p] = None => now > namedUntil[i] + ReadLimit
             /\ chunks[i][p] # None /\ chunks[i][p].expires # None
                  => chunks[i][p].expires > namedUntil[i] + ReadLimit
    BY <1>2 DEF Windows
  <2>2. CASE chunks'[i] = chunks[i] BY <1>0, <1>2, <2>1, <2>2
  <2>3. ASSUME NEW r \in Runs, WriteChunks(r), id[r] = i, NEW p \in Parts
        PROVE  chunks'[i][p] = chunks[i][p]
               \/ (chunks'[i][p] # None /\ chunks'[i][p].expires = None)
    <3>0. \E S \in SUBSET parts[r] :
            chunks' = [chunks EXCEPT ![id[r]] =
              [k \in Parts |-> IF k \in S THEN [body |-> body[r], expires |-> None]
                                          ELSE chunks[id[r]][k]]]
      BY <2>3 DEF WriteChunks
    <3>1. PICK S \in SUBSET parts[r] :
            chunks' = [chunks EXCEPT ![i] =
              [k \in Parts |-> IF k \in S THEN [body |-> body[r], expires |-> None]
                                          ELSE chunks[i][k]]]
      BY <2>3, <3>0
    <3>2. chunks'[i][p] = IF p \in S THEN [body |-> body[r], expires |-> None]
                                     ELSE chunks[i][p]
      BY <1>0, <3>1
    <3>3. [body |-> body[r], expires |-> None] \in Chunk
      BY <2>3 DEF WriteChunks, TypeOK, RunsOK, PhaseOK, Chunk
    <3> QED BY <3>2, <3>3, SentinelAssumption
  <2>4. ASSUME NEW k \in Parts, DeleteChunk(i, k), NEW p \in Parts
        PROVE  chunks'[i][p] = chunks[i][p] \/ now > namedUntil[i] + ReadLimit
    <3>1. CASE p = k
      <4>1. /\ chunks[i][k] # None /\ chunks[i][k].expires # None
            /\ chunks[i][k].expires <= now
        BY <2>4 DEF DeleteChunk
      <4>2. chunks[i][k].expires \in Nat BY <1>0, <4>1 DEF Chunk
      <4> QED BY <1>0, <1>2, <2>1, <4>1, <4>2
    <3>2. CASE p # k BY <1>0, <2>4, <3>2 DEF DeleteChunk
    <3> QED BY <3>1, <3>2
  <2>5. ASSUME NEW S, NEW at \in Nat, at > now + ReadLimit, chunks' = Expiring(i, S, at),
               NEW p \in Parts
        PROVE  \/ chunks'[i][p] = chunks[i][p]
               \/ chunks'[i][p] # None /\ chunks'[i][p].expires > namedUntil[i] + ReadLimit
    <3>1. chunks'[i][p] = IF p \in S /\ chunks[i][p] # None
            THEN [body |-> chunks[i][p].body, expires |-> at] ELSE chunks[i][p]
      BY <1>0, <2>5 DEF Expiring
    <3>2. chunks[i][p] # None => [body |-> chunks[i][p].body, expires |-> at] \in Chunk
      BY <1>0 DEF Chunk
    <3>3. at > namedUntil[i] + ReadLimit BY <1>0, <1>2, <2>1, <2>5
    <3> QED BY <3>1, <3>2, <3>3, SentinelAssumption
  <2>6. ASSUME NEW p \in Parts
        PROVE  \/ chunks'[i][p] = chunks[i][p]
               \/ chunks'[i][p] # None /\ chunks'[i][p].expires = None
               \/ chunks'[i][p] # None /\ chunks'[i][p].expires > namedUntil[i] + ReadLimit
               \/ chunks'[i][p] = None /\ now > namedUntil[i] + ReadLimit
    <3>1. ASSUME NEW k \in Parts, DeleteChunk(i, k)
          PROVE  chunks'[i][p] = chunks[i][p] \/ chunks'[i][p] = None
      BY <1>0, <3>1 DEF DeleteChunk
    <3> QED BY <2>2, <2>3, <2>4, <2>5, <3>1, ChunksMove, UntilTypes, WindowsOutlast
  <2> QED BY <1>0, <1>2, <2>1, <2>6
<1>3. ASSUME NEW b \in Broken, Corrupt(b) PROVE FALSE BY <1>3 DEF Corrupt, Sound
<1>4. ASSUME NEW r \in Runs, Install(r), ~Live(i) PROVE namedUntil'[i] = namedUntil[i]
  BY <1>4 DEF Install
<1>5. CASE \E r \in Runs : Install(r) /\ Live(i) BY <1>0, <1>1, <1>5
<1> QED BY <1>2, <1>3, <1>4, <1>5, NamedUntilMoves

\* Nothing is stored, named or running at first.
LEMMA IInvInit == ASSUME Init, TypeOK PROVE IInv
<1>1. PlannedSwap /\ Undamaged
  BY SentinelAssumption DEF Init, PlannedSwap, Undamaged
<1>2. Doomed /\ Written BY DEF Init, Doomed, Written, Before, Moving
<1>3. LiveIsServable BY DEF Init, LiveIsServable, Readable
<1>4. Stamped /\ Windows BY DEF Init, Stamped, Windows, Unstamped, Gathering
<1> QED BY <1>1, <1>2, <1>3, <1>4, RInvInit DEF IInv

\* Every step keeps the invariant.
LEMMA IInvStep == ASSUME Sound, IInv, TypeOK', [Next]_vars PROVE IInv'
<1> USE DEF IInv, RInv
<1>0. Unrepeated BY DEF Sound
<1>1. PlannedSwap' BY PlannedSwapStep
<1>2. Undamaged' BY UndamagedStep
<1>3. RInv' BY <1>0, RInvStep
<1>4. Doomed' BY <1>2, <1>3, DoomedStep
<1>5. Written' BY <1>2, WrittenStep
<1>6. LiveIsServable' BY LiveIsServableStep
<1>7. Stamped' BY <1>0, StampedStep
<1>8. Windows' BY WindowsStep
<1> QED BY <1>1, <1>2, <1>3, <1>4, <1>5, <1>6, <1>7, <1>8

\* The invariant holds of every behaviour with readable pointers and unique IDs.
LEMMA Serving == ASSUME Sound PROVE Spec => []IInv
<1>1. Init /\ TypeOK => IInv BY IInvInit
<1>2. IInv /\ TypeOK' /\ [Next]_vars => IInv' BY IInvStep
<1> QED BY <1>1, <1>2, TypeCorrect, PTL DEF Spec

\* What the pointer names can be read whole, and no expiry ever reaches it, however
\* runs overlap, fail, are killed or lose their replies.  (Publish; ExpireChunks;
\* reclaimAbandoned)
THEOREM LiveStaysServable == ASSUME Sound PROVE Spec => []LiveIsServable
BY Serving, PTL DEF IInv

\* A reader that resolved the pointer just before it moved still finds every chunk,
\* for as long as it may take to ask.  (expireSuperseded; reclaimAbandoned)
THEOREM ReadersKeepChunks == ASSUME Sound PROVE Spec => []ReadersKeepTheirChunks
<1>1. IInv => ReadersKeepTheirChunks
  <2> SUFFICES ASSUME IInv, NEW i \in SnapshotID, namedUntil[i] # None,
                      now <= namedUntil[i] + ReadLimit, NEW p \in Parts, chunks[i][p] = None
               PROVE  FALSE
    BY DEF ReadersKeepTheirChunks, MissingParts
  <2>1. now > namedUntil[i] + ReadLimit BY DEF IInv, Windows
  <2>2. now \in Nat /\ namedUntil[i] \in Nat /\ ReadLimit \in Nat
    BY PublisherAssumption DEF IInv, RInv, TypeOK, HistoryOK, Time
  <2> QED BY <2>1, <2>2
<1> QED BY <1>1, Serving, PTL

-----------------------------------------------------------------------------
(* The publisher implements the contract's promise to readers              *)

\* Scans are completed by the call that asks the subgraph.
LEMMA ScansMove == ASSUME [Next]_vars PROVE UNCHANGED scans \/ \E r \in Runs : Scan(r)
<1>1. ASSUME NEW r \in Runs, Gather(r) PROVE UNCHANGED scans \/ Scan(r)
  BY <1>1 DEF Gather, ScanFails, Abort, ReadPointer, ReadChunks, ReadFails
<1>2. ASSUME NEW r \in Runs, WriteChunkSet(r) PROVE UNCHANGED scans
  BY <1>2 DEF WriteChunkSet, Stage, StageFails, PlanChunks, WriteChunks, VerifyChunks
<1>3. ASSUME NEW r \in Runs, MovePointer(r) PROVE UNCHANGED scans
  BY <1>3 DEF MovePointer, ReadLatest, Quarantine, Swap, SwapUnanswered, SwapEchoed,
       SwapRefused, PublishCallFails, Install
<1>4. ASSUME NEW r \in Runs, Settle(r) PROVE UNCHANGED scans
  BY <1>4 DEF Settle, Unstage, ExpireCheck, Expire, ExpireFails, Restage
<1>5. ASSUME NEW r \in Runs, Reclaim(r) PROVE UNCHANGED scans
  BY <1>5 DEF Reclaim, Survey, ListMarkers, SurveyFails, Finish, SweepMarker,
       SweepCheck, SweepDone, SweepExpire, SweepExpireFails, SweepUnstage
<1>6. CASE Environment
  BY <1>6 DEF Environment, Tick, Corrupt, DeleteMarker, DeleteChunk
<1> QED BY <1>1, <1>2, <1>3, <1>4, <1>5, <1>6 DEF Next, Step, Start, Kill

\* What a reader resolves is all that the pointer names, as soon as there is one.
LEMMA ServedIsNamed ==
  ASSUME LiveIsServable
  PROVE  Served = IF Readable THEN [id |-> pointer.id, body |-> pointer.body] ELSE None
BY DEF LiveIsServable, Servable, Served

\* A step that moves the pointer publishes, one that scans scans, and no other step
\* changes what a reader sees.
LEMMA PromiseStep ==
  ASSUME Sound, IInv, IInv', Attribution, NamedByScan, [Next]_vars
  PROVE  [Promised!Next]_<<Served, scans>>
<1> USE DEF IInv, RInv
<1>1. CASE pointer' = pointer
  <2>1. Served' = Served BY <1>1, ServedIsNamed DEF Served, LiveIsServable, Servable, Readable
  <2>2. ASSUME NEW r \in Runs, Scan(r) PROVE Promised!Next
    <3>1. id[r].group \in Groups /\ id[r].at \in Time
      BY <2>2 DEF Scan, TypeOK, RunsOK, PhaseOK, SnapshotID
    <3>2. PICK answer \in Answers :
            scans' = [scans EXCEPT ![id[r].group] =
                        @ \cup {[at |-> id[r].at, answer |-> answer]}]
      BY <2>2 DEF Scan
    <3>3. [at |-> id[r].at, answer |-> answer] \in Promised!ListScan
      BY <3>1 DEF Time, Promised!ListScan, Promised!Time
    <3>4. Promised!Scan(id[r].group) BY <2>1, <3>2, <3>3 DEF Promised!Scan
    <3> QED BY <3>1, <3>4 DEF Promised!Next
  <2> QED BY <2>1, <2>2, ScansMove
<1>2. ASSUME NEW r \in Runs, At(r, "swap"), Install(r), pointer' # pointer PROVE Promised!Publish
  <2> DEFINE s == [id |-> id[r], body |-> body[r]]
  <2>1. id[r] \in SnapshotID /\ body[r] \in Body /\ body[r] # None
    BY <1>2 DEF TypeOK, RunsOK, PhaseOK
  <2>2. s \in Promised!Snapshot
    BY <2>1 DEF Promised!Snapshot, Promised!SnapshotID, SnapshotID, Promised!Time, Time,
         Promised!Body, Body, Promised!ListScan, ListScan
  <2>3. Readable' /\ pointer'.id = id[r] /\ pointer'.body = body[r] /\ scans' = scans
    BY <1>2, NewPointerType DEF Install, Readable, NewPointer
  <2>4. Served' = s BY <2>3 DEF Served, LiveIsServable, Servable, Readable
  <2>5. Promised!Newer(s)
    <3>1. CASE ~Readable BY <3>1, ServedIsNamed DEF Promised!Newer
    <3>2. CASE Readable
      <4>1. id[r].at > pointer.id.at BY <1>2, <2>3, <3>2, PointerAdvancesStep DEF Undamaged
      <4>2. Served.id = pointer.id BY <3>2, ServedIsNamed
      <4> QED BY <4>1, <4>2 DEF Promised!Newer
    <3> QED BY <3>1, <3>2
  <2>6. Promised!Named(s) BY <2>1 DEF NamedByScan, Promised!Named
  <2>7. Promised!Attributed(s)
    BY <2>1 DEF Attribution, Attributed, Sources, Promised!Attributed
  <2> HIDE DEF s
  <2> QED BY <2>2, <2>3, <2>4, <2>5, <2>6, <2>7 DEF Promised!Publish
<1>3. ASSUME NEW b \in Broken, Corrupt(b) PROVE FALSE
  BY <1>3 DEF Corrupt, Sound
<1> QED BY <1>1, <1>2, <1>3, PointerMoves DEF Promised!Next

\* At every instant a reader resolves nothing or one whole snapshot, replaced only
\* by one scanned later, all of it attributed to scans.  (Publish, Read)
THEOREM ReadersGetThePromise == ASSUME Sound PROVE Spec => ReadersArePromised
<1>1. Init => Promised!Init
  BY DEF Init, Promised!Init, Served, Readable
<1>2. Init => Attribution /\ NamedByScan
  BY SentinelAssumption DEF Init, Attribution, NamedByScan, Readable
<1>3. TypeOK /\ TypeOK' /\ Attribution /\ [Next]_vars => Attribution' BY AttributionStep
<1>4. TypeOK /\ NamedByScan /\ [Next]_vars => NamedByScan' BY NamedByScanStep
<1>5. IInv /\ IInv' /\ Attribution /\ NamedByScan /\ [Next]_vars
        => [Promised!Next]_<<Served, scans>>
  BY PromiseStep
<1> QED BY <1>1, <1>2, <1>3, <1>4, <1>5, TypeCorrect, Serving, PTL
        DEF Spec, ReadersArePromised, Promised!Spec

=============================================================================
