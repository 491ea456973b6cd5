---------------------------- MODULE ReadApiProofs ----------------------------
(***************************************************************************)
(* The read API, for any clients, instances, snapshots and faults: types,  *)
(* what its mutex and its one cached snapshot are for, what a validated    *)
(* copy is worth, and that it keeps the promise of ServedSnapshot.         *)
(***************************************************************************)
EXTENDS ReadApi, FiniteSetTheorems, TLAPS

USE DEF vars, table, process, request, outcome, counts

-----------------------------------------------------------------------------
(* The inductive invariant                                                 *)

\* What a request knows at each step.
PlacedAt(c) ==
  /\ pc[c] = "idle" => at[c] = None
  /\ pc[c] # "idle" => at[c] \in Instances /\ asked[c] \in Asked /\ told[c] = None
  /\ pc[c] \in {"lock", "pointer"} => named[c] = Unread
  /\ pc[c] = "chunks" => named[c] \in Pointer /\ named[c].id \notin Large

Placed == \A c \in Clients : PlacedAt(c)

Core == TypeOK /\ IsFiniteSet(written) /\ Placed

\* Who reads the store has the mutex of its instance.
MutexIsHeld ==
  \A c \in Clients : pc[c] \in {"pointer", "chunks"} => holder[at[c]] = c

\* The snapshot for the pointer is fetched only while it is not kept.
FetchesAreMisses ==
  \A c \in Clients : pc[c] = "chunks" => ~IsCached(at[c], named[c])

\* An entry is the snapshot its pointer names.
Verified(entry) == entry.body = entry.latest.id

EntriesAreVerified ==
  \A i \in Instances : cached[i] # None => Verified(cached[i])

\* What resolve returns is true of the pointer it read.
OutcomeAt(c) ==
  /\ resolved[c] # None =>
       /\ named[c] \in Pointer /\ named[c].id \notin Large
       /\ resolved[c].latest = named[c] /\ Verified(resolved[c])
  /\ failure[c] # None => Truthful(Wants[c], named[c], Refused(failure[c]))
  /\ pc[c] # "reply" => resolved[c] = None /\ failure[c] = None

OutcomesAreTrue == \A c \in Clients : OutcomeAt(c)

\* A client keeps documents, and validates the one it keeps.
CopyAt(c) ==
  /\ copy[c] # None => \A p \in Pointer : p.id = copy[c].doc.id =>
                         copy[c].doc = Whole(copy[c].path, p)
  /\ pc[c] # "idle" /\ asked[c].by # "nothing" =>
       /\ copy[c] # None /\ copy[c].path = asked[c].path /\ copy[c].doc = asked[c].copy

CopiesAreWhole == \A c \in Clients : CopyAt(c)

\* A mutex that is taken is held by a request that is reading the store, and a
\* request that replies has something to say: what NobodyIsStuck rests on.
MutexIsReleased ==
  \A i \in Instances : holder[i] # None =>
    /\ holder[i] \in Clients /\ at[holder[i]] = i
    /\ pc[holder[i]] \in {"pointer", "chunks"}

RepliesAreDue ==
  \A c \in Clients : pc[c] = "reply" => resolved[c] # None \/ failure[c] # None

IInv ==
  /\ Core /\ MutexIsHeld /\ FetchesAreMisses /\ EntriesAreVerified
  /\ OutcomesAreTrue /\ CopiesAreWhole /\ ConfirmedCopiesAreCurrent
  /\ MutexIsReleased /\ RepliesAreDue

-----------------------------------------------------------------------------
(* Types                                                                   *)

LEMMA Kinds ==
  /\ None \notin Clients /\ None \notin Instances
  /\ MaxWrites \in Nat /\ ScannedAt \in [Snapshots -> Nat]
  /\ None # Broken /\ None # Unread /\ Broken # Unread
  /\ None \notin Pointer /\ Broken \notin Pointer /\ Unread \notin Pointer
  /\ None \notin Snapshots /\ Broken \notin Snapshots
  /\ None \notin Codes /\ None \notin Answer /\ None \notin Request
  BY ApiAssumption, ReadAssumption, ReadSentinels

LEMMA PublishTypes ==
  ASSUME Core, NEW s \in Snapshots, Publish(s)
  PROVE  TypeOK' /\ IsFiniteSet(written')
  <1>1. Cardinality(written) \in Nat /\ Cardinality(written) < MaxWrites
    BY FS_CardinalityType DEF Core, Publish
  <1>2. Cardinality(written) + 1 \in 1 .. MaxWrites
    BY <1>1, Kinds
  <1>3. current' \in Pointer
    BY <1>2 DEF Publish, Pointer
  <1>4. written' \subseteq Pointer /\ IsFiniteSet(written')
    <2>1. /\ written \subseteq Pointer /\ IsFiniteSet(written)
          /\ written' = written \cup {current'}
      BY DEF Publish, Core, TypeOK
    <2>2. QED
      BY <1>3, <2>1, FS_AddElement
  <1>5. chunks' \in [Snapshots -> Snapshots \cup {None, Broken}]
    BY DEF Publish, Core, TypeOK
  <1>6. QED
    BY <1>3, <1>4, <1>5 DEF Publish, Core, TypeOK

LEMMA OperatorTypes ==
  ASSUME Core,
         \/ \E p \in written : Rollback(p)
         \/ Damage
         \/ \E s \in Snapshots : LoseChunks(s)
         \/ \E c \in Clients : EndContext(c)
  PROVE  TypeOK' /\ IsFiniteSet(written')
  <1>1. CASE \E p \in written : Rollback(p)
    BY <1>1 DEF Rollback, Core, TypeOK
  <1>2. CASE Damage
    BY <1>2 DEF Damage, Core, TypeOK
  <1>3. ASSUME NEW s \in Snapshots, LoseChunks(s) PROVE TypeOK' /\ IsFiniteSet(written')
    <2>1. chunks' \in [Snapshots -> Snapshots \cup {None, Broken}]
      BY <1>3 DEF LoseChunks, Core, TypeOK
    <2>2. QED
      BY <1>3, <2>1 DEF LoseChunks, Core, TypeOK
  <1>4. ASSUME NEW c \in Clients, EndContext(c) PROVE TypeOK' /\ IsFiniteSet(written')
    <2>1. ended' \in [Clients -> BOOLEAN]
      BY <1>4 DEF EndContext, Core, TypeOK
    <2>2. QED
      BY <1>4, <2>1 DEF EndContext, Core, TypeOK
  <1>5. QED
    BY <1>1, <1>2, <1>3, <1>4

LEMMA AskTypes ==
  ASSUME Core, NEW c \in Clients, NEW i \in Instances, NEW path \in Paths,
         NEW by \in {"nothing", "tag", "date"}, Ask(c, i, path, by)
  PROVE  TypeOK' /\ IsFiniteSet(written')
  <1> DEFINE held == IF by = "nothing" THEN None ELSE copy[c].doc
  <1>1. held \in Document \cup {None}
    BY DEF Ask, Core, TypeOK, Copy
  <1> HIDE DEF held
  <1>2. [path |-> path, by |-> by, copy |-> held] \in Asked
    BY <1>1 DEF Asked
  <1>3. asked' \in [Clients -> Asked \cup {None}]
    BY <1>2 DEF Ask, Core, TypeOK, held
  <1>4. /\ pc' \in [Clients -> Steps] /\ at' \in [Clients -> Instances \cup {None}]
        /\ named' \in [Clients -> Pointer \cup {None, Unread}]
        /\ told' \in [Clients -> Answer \cup {None}] /\ arrived' \in Nat
    BY DEF Ask, Goto, Core, TypeOK, Steps
  <1>5. QED
    BY <1>3, <1>4 DEF Ask, Core, TypeOK

LEMMA LockTypes ==
  ASSUME Core, NEW c \in Clients, Lock(c)
  PROVE  TypeOK' /\ IsFiniteSet(written')
  <1>1. /\ holder' \in [Instances -> Clients \cup {None}] /\ pc' \in [Clients -> Steps]
    BY DEF Lock, Goto, Core, TypeOK, Steps
  <1>2. QED
    BY <1>1 DEF Lock, Core, TypeOK

\* What a resolution that is over leaves.
LEMMA EndedTypes ==
  ASSUME Core, NEW c \in Clients, Unlock(c)
  PROVE  /\ holder' \in [Instances -> Clients \cup {None}]
         /\ \A code \in Codes : Failed(c, code) =>
              /\ failure' \in [Clients -> Codes \cup {None}]
              /\ resolved' \in [Clients -> CachedSnapshot \cup {None}]
              /\ pc' \in [Clients -> Steps]
         /\ \A entry \in CachedSnapshot : Resolved(c, entry) =>
              /\ failure' \in [Clients -> Codes \cup {None}]
              /\ resolved' \in [Clients -> CachedSnapshot \cup {None}]
              /\ pc' \in [Clients -> Steps]
  <1>1. holder' \in [Instances -> Clients \cup {None}]
    BY DEF Unlock, Core, TypeOK
  <1>2. ASSUME NEW code \in Codes, Failed(c, code)
        PROVE  /\ failure' \in [Clients -> Codes \cup {None}]
               /\ resolved' \in [Clients -> CachedSnapshot \cup {None}]
               /\ pc' \in [Clients -> Steps]
    BY <1>2 DEF Failed, Goto, Core, TypeOK, Steps
  <1>3. ASSUME NEW entry \in CachedSnapshot, Resolved(c, entry)
        PROVE  /\ failure' \in [Clients -> Codes \cup {None}]
               /\ resolved' \in [Clients -> CachedSnapshot \cup {None}]
               /\ pc' \in [Clients -> Steps]
    BY <1>3 DEF Resolved, Goto, Core, TypeOK, Steps
  <1>4. QED
    BY <1>1, <1>2, <1>3

LEMMA NamedTypes ==
  ASSUME Core, NEW c \in Clients, PointerRead(c)
  PROVE  /\ named' \in [Clients -> Pointer \cup {None, Unread}]
         /\ named'[c] = current /\ current \in Pointer
  BY DEF PointerRead, Core, TypeOK

LEMMA PointerTypes ==
  ASSUME Core, NEW c \in Clients, PointerFails(c) \/ TooLarge(c) \/ Hit(c) \/ Miss(c)
  PROVE  TypeOK' /\ IsFiniteSet(written')
  <1>1. CASE PointerFails(c)
    <2>1. PICK e \in ReadErrors(c, current) :
            /\ Failed(c, Classified(c, e, "no_snapshot"))
            /\ named' = [named EXCEPT ![c] =
                           IF e = "notFound" /\ ~ended[c] THEN None ELSE Unread]
      BY <1>1 DEF PointerFails
    <2>2. Classified(c, e, "no_snapshot") \in Codes
      BY DEF Classified, Codes
    <2>3. named' \in [Clients -> Pointer \cup {None, Unread}]
      BY <2>1 DEF Core, TypeOK
    <2>4. QED
      BY <1>1, <2>1, <2>2, <2>3, EndedTypes DEF PointerFails, Core, TypeOK
  <1>2. CASE TooLarge(c)
    <2>1. "too_large" \in Codes
      BY DEF Codes
    <2>2. QED
      BY <1>2, <2>1, NamedTypes, EndedTypes DEF TooLarge, Core, TypeOK
  <1>3. CASE Hit(c)
    <2>1. cached[at[c]] \in CachedSnapshot
      <3>1. At(c, "pointer") /\ cached[at[c]] # None
        BY <1>3 DEF Hit, PointerRead, IsCached
      <3>2. QED
        BY <3>1 DEF Core, TypeOK, Placed, PlacedAt, At
    <2>2. QED
      BY <1>3, <2>1, NamedTypes, EndedTypes DEF Hit, Core, TypeOK
  <1>4. CASE Miss(c)
    <2>1. pc' \in [Clients -> Steps]
      BY <1>4 DEF Miss, Goto, Core, TypeOK, Steps
    <2>2. QED
      BY <1>4, <2>1, NamedTypes DEF Miss, Core, TypeOK
  <1>5. QED
    BY <1>1, <1>2, <1>3, <1>4

LEMMA ChunksTypes ==
  ASSUME Core, NEW c \in Clients, ChunksFail(c) \/ Unreadable(c) \/ Load(c)
  PROVE  TypeOK' /\ IsFiniteSet(written')
  <1>1. CASE ChunksFail(c)
    <2>1. PICK e \in ReadErrors(c, chunks[named[c].id]) :
            Failed(c, Classified(c, e, "chunks_missing"))
      BY <1>1 DEF ChunksFail
    <2>2. Classified(c, e, "chunks_missing") \in Codes
      BY DEF Classified, Codes
    <2>3. QED
      BY <1>1, <2>1, <2>2, EndedTypes DEF ChunksFail, Core, TypeOK
  <1>2. CASE Unreadable(c)
    <2>1. "unreadable" \in Codes
      BY DEF Codes
    <2>2. QED
      BY <1>2, <2>1, EndedTypes DEF Unreadable, Core, TypeOK
  <1>3. CASE Load(c)
    <2> DEFINE entry == [latest |-> named[c], body |-> chunks[named[c].id]]
    <2>1. named[c] \in Pointer /\ chunks[named[c].id] = named[c].id
      BY <1>3 DEF Load, At, Core, Placed, PlacedAt, Verifies
    <2>2. named[c].id \in Snapshots
      BY <2>1 DEF Pointer
    <2>3. entry \in CachedSnapshot
      BY <2>1, <2>2 DEF CachedSnapshot
    <2>4. Resolved(c, entry) /\ Unlock(c) /\ cached' = [cached EXCEPT ![at[c]] = entry]
      BY <1>3 DEF Load
    <2> HIDE DEF entry
    <2>5. cached' \in [Instances -> CachedSnapshot \cup {None}]
      BY <2>3, <2>4 DEF Core, TypeOK
    <2>6. QED
      BY <1>3, <2>3, <2>4, <2>5, EndedTypes DEF Load, Core, TypeOK
  <1>4. QED
    BY <1>1, <1>2, <1>3

LEMMA DocumentTypes ==
  ASSUME NEW path \in Paths, NEW entry \in CachedSnapshot
  PROVE  DocumentOf(path, entry) \in Document /\ Full(DocumentOf(path, entry)) \in Answer
  <1>1. /\ entry.latest.id \in Snapshots /\ entry.body \in Snapshots
        /\ entry.latest.published \in 1 .. MaxWrites
    BY DEF CachedSnapshot, Pointer
  <1>2. DocumentOf(path, entry) \in Document
    BY <1>1 DEF DocumentOf, Document
  <1>3. QED
    BY <1>2 DEF Full, Answer

LEMMA ReplyTypes ==
  ASSUME Core, NEW c \in Clients, Reply(c)
  PROVE  TypeOK' /\ IsFiniteSet(written')
  <1>1. ASSUME NEW answer \in Answer, Answered(c, answer),
               copy' \in [Clients -> Copy \cup {None}]
        PROVE  TypeOK' /\ IsFiniteSet(written')
    <2>1. /\ told' \in [Clients -> Answer \cup {None}]
          /\ pc' \in [Clients -> Steps] /\ at' \in [Clients -> Instances \cup {None}]
          /\ ended' \in [Clients -> BOOLEAN]
          /\ resolved' \in [Clients -> CachedSnapshot \cup {None}]
          /\ failure' \in [Clients -> Codes \cup {None}]
      BY <1>1 DEF Answered, Goto, Core, TypeOK, Steps
    <2>2. QED
      BY <1>1, <2>1 DEF Answered, Core, TypeOK
  <1>2. CASE Refuse(c)
    <2>1. Refused(failure[c]) \in Answer
      BY <1>2 DEF Refuse, Refused, Answer, Core, TypeOK
    <2>2. QED
      BY <1>1, <1>2, <2>1 DEF Refuse, Core, TypeOK
  <1>3. CASE Revalidate(c)
    <2>1. Same \in Answer
      BY DEF Same, Answer
    <2>2. QED
      BY <1>1, <1>3, <2>1 DEF Revalidate, Core, TypeOK
  <1>4. CASE Serve(c)
    <2> DEFINE path == asked[c].path
               doc == DocumentOf(path, resolved[c])
    <2>1. path \in Paths /\ resolved[c] \in CachedSnapshot
      BY <1>4 DEF Serve, Answered, At, Core, TypeOK, Placed, PlacedAt, Asked
    <2>2. doc \in Document /\ Full(doc) \in Answer
      BY <2>1, DocumentTypes
    <2>3. /\ Answered(c, Full(doc))
          /\ copy' = IF path \in Cacheable
                     THEN [copy EXCEPT ![c] = [path |-> path, doc |-> doc]] ELSE copy
      BY <1>4 DEF Serve
    <2> HIDE DEF path, doc
    <2>4. path \in Cacheable => [path |-> path, doc |-> doc] \in Copy
      BY <2>2 DEF Copy
    <2>5. copy' \in [Clients -> Copy \cup {None}]
      BY <2>3, <2>4 DEF Core, TypeOK
    <2>6. QED
      BY <1>1, <2>2, <2>3, <2>5
  <1>5. QED
    BY <1>2, <1>3, <1>4 DEF Reply

LEMMA ReplaceTypes ==
  ASSUME Core, NEW i \in Instances, Replace(i)
  PROVE  TypeOK' /\ IsFiniteSet(written')
  <1>1. /\ cached' \in [Instances -> CachedSnapshot \cup {None}]
        /\ holder' \in [Instances -> Clients \cup {None}]
    BY DEF Replace, Core, TypeOK
  <1>2. /\ pc' \in [Clients -> Steps] /\ at' \in [Clients -> Instances \cup {None}]
        /\ ended' \in [Clients -> BOOLEAN]
    BY DEF Replace, Core, TypeOK, Steps
  <1>3. /\ resolved' \in [Clients -> CachedSnapshot \cup {None}]
        /\ failure' \in [Clients -> Codes \cup {None}]
    BY DEF Replace, Core, TypeOK
  <1>4. QED
    BY <1>1, <1>2, <1>3 DEF Replace, Core, TypeOK

LEMMA NextTypes ==
  ASSUME Core, [Next]_vars
  PROVE  TypeOK' /\ IsFiniteSet(written')
  <1>1. CASE UNCHANGED vars
    BY <1>1 DEF Core, TypeOK
  <1>2. QED
    BY <1>1, PublishTypes, OperatorTypes, AskTypes, LockTypes, PointerTypes, ChunksTypes,
       ReplyTypes, ReplaceTypes
    DEF Next, Resolve, Environment

-----------------------------------------------------------------------------
(* Who changes what                                                        *)

Untouched(d) ==
  /\ pc'[d] = pc[d] /\ at'[d] = at[d] /\ asked'[d] = asked[d] /\ named'[d] = named[d]
  /\ resolved'[d] = resolved[d] /\ failure'[d] = failure[d]
  /\ told'[d] = told[d] /\ copy'[d] = copy[d]

\* The steps in which a client has a part.
Acts(c) ==
  \/ \E i \in Instances, path \in Paths, by \in {"nothing", "tag", "date"} :
       Ask(c, i, path, by)
  \/ EndContext(c) \/ Lock(c) \/ Resolve(c) \/ Reply(c)

\* Those in which none has.
Elsewhere ==
  \/ \E s \in Snapshots : Publish(s) \/ LoseChunks(s)
  \/ \E p \in written : Rollback(p)
  \/ Damage
  \/ UNCHANGED vars

LEMMA NextSplits ==
  ASSUME [Next]_vars
  PROVE  (\E c \in Clients : Acts(c)) \/ Elsewhere \/ \E i \in Instances : Replace(i)
  BY DEF Next, Environment, Acts, Elsewhere

LEMMA ElsewhereChanges ==
  ASSUME Elsewhere
  PROVE  UNCHANGED <<process, pc, request, outcome>>
  BY DEF Elsewhere, Publish, LoseChunks, Rollback, Damage

LEMMA ReplaceChanges ==
  ASSUME Core, NEW i \in Instances, Replace(i)
  PROVE  /\ \A c \in Clients :
              /\ asked'[c] = asked[c] /\ named'[c] = named[c]
              /\ told'[c] = told[c] /\ copy'[c] = copy[c]
              /\ at[c] # i => Untouched(c)
              /\ at[c] = i => /\ pc'[c] = "idle" /\ at'[c] = None
                              /\ resolved'[c] = None /\ failure'[c] = None
         /\ \A j \in Instances :
              /\ cached'[j] = IF j = i THEN None ELSE cached[j]
              /\ holder'[j] = IF j = i THEN None ELSE holder[j]
  <1>1. \A c \in Clients :
          /\ asked'[c] = asked[c] /\ named'[c] = named[c]
          /\ told'[c] = told[c] /\ copy'[c] = copy[c]
          /\ at[c] # i => /\ pc'[c] = pc[c] /\ at'[c] = at[c]
                          /\ resolved'[c] = resolved[c] /\ failure'[c] = failure[c]
          /\ at[c] = i => /\ pc'[c] = "idle" /\ at'[c] = None
                          /\ resolved'[c] = None /\ failure'[c] = None
    BY DEF Replace
  <1>2. \A j \in Instances :
          /\ cached'[j] = IF j = i THEN None ELSE cached[j]
          /\ holder'[j] = IF j = i THEN None ELSE holder[j]
    BY DEF Replace, Core, TypeOK
  <1>3. QED
    BY <1>1, <1>2 DEF Untouched

LEMMA OthersStay ==
  ASSUME Core, NEW c \in Clients, Acts(c)
  PROVE  \A d \in Clients \ {c} : Untouched(d)
  <1>1. CASE \E i \in Instances, path \in Paths, by \in {"nothing", "tag", "date"} :
               Ask(c, i, path, by)
    BY <1>1 DEF Ask, Goto, Untouched, Core, TypeOK
  <1>2. CASE EndContext(c) \/ Lock(c)
    BY <1>2 DEF EndContext, Lock, Goto, Untouched, Core, TypeOK
  <1>3. CASE Resolve(c)
    <2>1. /\ \A d \in Clients \ {c} : pc'[d] = pc[d] /\ named'[d] = named[d]
          /\ UNCHANGED <<at, asked, told, copy>>
      BY <1>3 DEF Resolve, PointerFails, TooLarge, Hit, Miss, ChunksFail, Unreadable, Load,
         PointerRead, Resolved, Failed, Goto, Core, TypeOK
    <2>2. \A d \in Clients \ {c} : resolved'[d] = resolved[d] /\ failure'[d] = failure[d]
      BY <1>3 DEF Resolve, PointerFails, TooLarge, Hit, Miss, ChunksFail, Unreadable, Load,
         Resolved, Failed, Core, TypeOK
    <2>3. QED
      BY <2>1, <2>2 DEF Untouched
  <1>4. CASE Reply(c)
    <2>1. \A d \in Clients \ {c} :
            /\ pc'[d] = pc[d] /\ at'[d] = at[d] /\ asked'[d] = asked[d] /\ named'[d] = named[d]
            /\ resolved'[d] = resolved[d] /\ failure'[d] = failure[d]
            /\ told'[d] = told[d]
      BY <1>4 DEF Reply, Refuse, Revalidate, Serve, Answered, Goto, Core, TypeOK
    <2>2. \A d \in Clients \ {c} : copy'[d] = copy[d]
      BY <1>4 DEF Reply, Refuse, Revalidate, Serve, Core, TypeOK
    <2>3. QED
      BY <2>1, <2>2 DEF Untouched
  <1>5. QED
    BY <1>1, <1>2, <1>3, <1>4 DEF Acts

-----------------------------------------------------------------------------
(* Where each request is                                                   *)

LEMMA ResolveMoves ==
  ASSUME Core, NEW c \in Clients, Resolve(c)
  PROVE  /\ UNCHANGED <<at, asked, told, copy, table>>
         /\ pc[c] \in {"pointer", "chunks"} /\ pc'[c] \in {"chunks", "reply"}
         /\ pc'[c] = "chunks" => /\ Miss(c) /\ named'[c] \in Pointer
                                 /\ named'[c].id \notin Large /\ named'[c] = current
  <1>1. CASE PointerFails(c) \/ TooLarge(c) \/ Hit(c) \/ ChunksFail(c) \/ Unreadable(c)
             \/ Load(c)
    BY <1>1 DEF PointerFails, TooLarge, Hit, ChunksFail, Unreadable, Load, PointerRead,
       Failed, Resolved, Goto, At, Core, TypeOK
  <1>2. CASE Miss(c)
    BY <1>2, NamedTypes DEF Miss, PointerRead, Goto, At, Core, TypeOK
  <1>3. QED
    BY <1>1, <1>2 DEF Resolve

LEMMA NextPlaced ==
  ASSUME Core, TypeOK', [Next]_vars
  PROVE  Placed'
  <1>1. \A d \in Clients : Untouched(d) => PlacedAt(d)'
    BY DEF Core, Placed, PlacedAt, Untouched
  <1>2. ASSUME NEW c \in Clients, NEW i \in Instances, NEW path \in Paths,
               NEW by \in {"nothing", "tag", "date"}, Ask(c, i, path, by)
        PROVE  PlacedAt(c)'
    <2>1. /\ pc'[c] = "lock" /\ at'[c] = i /\ named'[c] = Unread /\ told'[c] = None
      BY <1>2 DEF Ask, Goto, Core, TypeOK
    <2>2. asked'[c] \in Asked
      <3>1. asked'[c] = [path |-> path, by |-> by,
                         copy |-> IF by = "nothing" THEN None ELSE copy[c].doc]
        BY <1>2 DEF Ask, Core, TypeOK
      <3>2. (IF by = "nothing" THEN None ELSE copy[c].doc) \in Document \cup {None}
        BY <1>2 DEF Ask, Core, TypeOK, Copy
      <3>3. QED
        BY <3>1, <3>2 DEF Asked
    <2>3. QED
      BY <2>1, <2>2 DEF PlacedAt
  <1>3. ASSUME NEW c \in Clients, EndContext(c) \/ Lock(c) PROVE PlacedAt(c)'
    BY <1>3 DEF EndContext, Lock, Goto, At, Core, TypeOK, Placed, PlacedAt
  <1>4. ASSUME NEW c \in Clients, Resolve(c) PROVE PlacedAt(c)'
    <2>1. pc[c] # "idle" /\ PlacedAt(c)
      BY <1>4, ResolveMoves DEF Core, Placed
    <2>2. QED
      BY <1>4, <2>1, ResolveMoves DEF PlacedAt
  <1>5. ASSUME NEW c \in Clients, Reply(c) PROVE PlacedAt(c)'
    BY <1>5 DEF Reply, Refuse, Revalidate, Serve, Answered, Goto, Core, TypeOK, PlacedAt
  <1>6. ASSUME NEW c \in Clients, Acts(c) PROVE Placed'
    BY <1>1, <1>2, <1>3, <1>4, <1>5, <1>6, OthersStay DEF Acts, Placed
  <1>7. ASSUME NEW i \in Instances, Replace(i) PROVE Placed'
    BY <1>1, <1>7, ReplaceChanges DEF Placed, PlacedAt
  <1>8. CASE Elsewhere
    BY <1>1, <1>8, ElsewhereChanges DEF Placed, Untouched
  <1>9. QED
    BY <1>6, <1>7, <1>8, NextSplits

-----------------------------------------------------------------------------
(* The mutex and what is kept                                              *)

\* Only the holder of a mutex lets it go, and only the one that waits takes it.
LEMMA NextMutex ==
  ASSUME Core, MutexIsHeld, [Next]_vars
  PROVE  MutexIsHeld'
  <1>1. ASSUME NEW c \in Clients, Acts(c), ~Lock(c), ~Resolve(c) PROVE MutexIsHeld'
    <2>1. \/ UNCHANGED holder /\ pc'[c] \notin {"pointer", "chunks"}
          \/ UNCHANGED <<holder, pc, at>>
      BY <1>1 DEF Acts, Ask, EndContext, Reply, Refuse, Revalidate, Serve, Answered, Goto,
         Core, TypeOK
    <2>2. QED
      BY <1>1, <2>1, OthersStay DEF MutexIsHeld, Untouched
  <1>2. ASSUME NEW c \in Clients, Lock(c) PROVE MutexIsHeld'
    <2>1. /\ at[c] \in Instances /\ holder[at[c]] = None /\ UNCHANGED at
          /\ holder' = [holder EXCEPT ![at[c]] = c]
      BY <1>2 DEF Lock, At, Core, Placed, PlacedAt
    <2>2. \A d \in Clients \ {c} : pc'[d] = pc[d] /\ at'[d] = at[d]
      BY <1>2, OthersStay DEF Acts, Untouched
    <2>3. \A d \in Clients \ {c} : pc[d] \in {"pointer", "chunks"} =>
            at[d] \in Instances /\ at[d] # at[c]
      BY <2>1, Kinds DEF MutexIsHeld, Core, Placed, PlacedAt
    <2>4. QED
      BY <2>1, <2>2, <2>3 DEF MutexIsHeld, Core, TypeOK
  <1>3. ASSUME NEW c \in Clients, Resolve(c) PROVE MutexIsHeld'
    <2>1. /\ at[c] \in Instances /\ holder[at[c]] = c /\ UNCHANGED at
          /\ pc'[c] = "chunks" => Miss(c)
      BY <1>3, ResolveMoves DEF MutexIsHeld, Core, Placed, PlacedAt
    <2>2. UNCHANGED holder \/ (pc'[c] # "chunks" /\ Unlock(c))
      <3>1. CASE Miss(c)
        BY <3>1 DEF Miss
      <3>2. CASE ~Miss(c)
        BY <1>3, <3>2, <2>1 DEF Resolve, PointerFails, TooLarge, Hit, ChunksFail, Unreadable, Load
      <3>3. QED
        BY <3>1, <3>2
    <2>3. pc'[c] \in {"chunks", "reply"}
      BY <1>3, ResolveMoves
    <2>4. \A d \in Clients \ {c} : pc'[d] = pc[d] /\ at'[d] = at[d]
      BY <1>3, OthersStay DEF Acts, Untouched
    <2>5. \A d \in Clients \ {c} : pc[d] \in {"pointer", "chunks"} =>
            /\ at[d] \in Instances /\ holder[at[d]] = d /\ at[d] # at[c]
      BY <2>1 DEF MutexIsHeld, Core, Placed, PlacedAt
    <2>6. \A d \in Clients \ {c} : pc[d] \in {"pointer", "chunks"} => holder'[at[d]] = d
      BY <2>1, <2>2, <2>5 DEF Unlock, Core, TypeOK
    <2>7. QED
      BY <2>1, <2>2, <2>3, <2>4, <2>6 DEF MutexIsHeld
  <1>4. ASSUME NEW i \in Instances, Replace(i) PROVE MutexIsHeld'
    BY <1>4, ReplaceChanges DEF MutexIsHeld, Untouched, Core, Placed, PlacedAt
  <1>5. CASE Elsewhere
    BY <1>5, ElsewhereChanges DEF MutexIsHeld
  <1>6. QED
    BY <1>1, <1>2, <1>3, <1>4, <1>5, NextSplits

\* What an instance keeps is replaced by the request that has its mutex.
LEMMA NextMisses ==
  ASSUME Core, MutexIsHeld, FetchesAreMisses, EntriesAreVerified, [Next]_vars
  PROVE  FetchesAreMisses' /\ EntriesAreVerified'
  <1>1. ASSUME NEW c \in Clients, Acts(c), ~Load(c) PROVE FetchesAreMisses' /\ EntriesAreVerified'
    <2>1. UNCHANGED cached
      BY <1>1 DEF Acts, Ask, EndContext, Lock, Resolve, PointerFails, TooLarge, Hit, Miss,
         ChunksFail, Unreadable, Reply, Refuse, Revalidate, Serve, Answered
    <2>2. pc'[c] = "chunks" => ~IsCached(at'[c], named'[c])
      <3>1. CASE Resolve(c)
        BY <3>1, <2>1, ResolveMoves, NamedTypes DEF Miss, IsCached
      <3>2. CASE ~Resolve(c)
        <4>1. \/ pc'[c] # "chunks"
              \/ UNCHANGED <<pc, at, named>>
          BY <1>1, <3>2 DEF Acts, Ask, EndContext, Lock, Reply, Refuse, Revalidate, Serve,
             Answered, Goto, Core, TypeOK
        <4>2. QED
          BY <4>1 DEF FetchesAreMisses
      <3>3. QED
        BY <3>1, <3>2
    <2>3. FetchesAreMisses'
      BY <1>1, <2>1, <2>2, OthersStay DEF FetchesAreMisses, Untouched, IsCached
    <2>4. QED
      BY <2>1, <2>3 DEF EntriesAreVerified
  <1>2. ASSUME NEW c \in Clients, Load(c) PROVE FetchesAreMisses' /\ EntriesAreVerified'
    <2> DEFINE entry == [latest |-> named[c], body |-> chunks[named[c].id]]
    <2>1. /\ pc[c] = "chunks" /\ at[c] \in Instances /\ holder[at[c]] = c
          /\ chunks[named[c].id] = named[c].id
          /\ cached' = [cached EXCEPT ![at[c]] = entry] /\ UNCHANGED <<at, named>>
      BY <1>2 DEF Load, At, Verifies, Core, Placed, PlacedAt, MutexIsHeld
    <2>2. Verified(entry)
      BY <2>1 DEF Verified
    <2>3. pc'[c] = "reply" /\ \A d \in Clients \ {c} : pc'[d] = pc[d]
      BY <1>2 DEF Load, Resolved, Goto, Core, TypeOK
    <2>4. \A d \in Clients \ {c} : pc[d] = "chunks" => at[d] \in Instances /\ at[d] # at[c]
      BY <2>1 DEF MutexIsHeld, Core, Placed, PlacedAt
    <2> HIDE DEF entry
    <2>5. \A j \in Instances : cached'[j] = IF j = at[c] THEN entry ELSE cached[j]
      BY <2>1 DEF Core, TypeOK
    <2>6. FetchesAreMisses'
      BY <2>1, <2>3, <2>4, <2>5 DEF FetchesAreMisses, IsCached
    <2>7. EntriesAreVerified'
      BY <2>2, <2>5 DEF EntriesAreVerified
    <2>8. QED
      BY <2>6, <2>7
  <1>3. ASSUME NEW i \in Instances, Replace(i) PROVE FetchesAreMisses' /\ EntriesAreVerified'
    <2>1. FetchesAreMisses'
      BY <1>3, ReplaceChanges
      DEF FetchesAreMisses, IsCached, Untouched, Core, Placed, PlacedAt
    <2>2. EntriesAreVerified'
      BY <1>3, ReplaceChanges DEF EntriesAreVerified
    <2>3. QED
      BY <2>1, <2>2
  <1>4. CASE Elsewhere
    BY <1>4, ElsewhereChanges DEF FetchesAreMisses, EntriesAreVerified, IsCached
  <1>5. QED
    BY <1>1, <1>2, <1>3, <1>4, NextSplits

-----------------------------------------------------------------------------
(* What resolve returns                                                    *)

\* No refusal depends on what the client holds.
LEMMA RefusalsAreTrue ==
  ASSUME NEW p, NEW want
  PROVE  /\ Truthful(want, p, Refused("unavailable"))
         /\ p = None => Truthful(want, p, Refused("no_snapshot"))
         /\ p \in Pointer /\ p.id \in Large => Truthful(want, p, Refused("too_large"))
         /\ p \in Pointer /\ p.id \notin Large =>
              /\ Truthful(want, p, Refused("chunks_missing"))
              /\ Truthful(want, p, Refused("unreadable"))
  BY DEF Truthful

\* What a request failed with stays true while it is served.
LEMMA RefusalsStayTrue ==
  ASSUME Core, NEW c \in Clients, Untouched(c), OutcomeAt(c)
  PROVE  OutcomeAt(c)'
  <1>1. Wants'[c] = Wants[c]
    BY DEF Wants, Confirms, Untouched
  <1>2. QED
    BY <1>1 DEF OutcomeAt, Untouched, Verified

LEMMA FailureIsTrue ==
  ASSUME Core, NEW c \in Clients, OutcomeAt(c), pc[c] \in {"pointer", "chunks"},
         NEW code \in Codes, Failed(c, code),
         \A want : Truthful(want, named'[c], Refused(code))
  PROVE  OutcomeAt(c)'
  <1>1. /\ failure'[c] = code /\ pc'[c] = "reply" /\ resolved'[c] = None
    BY DEF Failed, Goto, OutcomeAt, Core, TypeOK
  <1>2. QED
    BY <1>1 DEF OutcomeAt

LEMMA EntryIsTrue ==
  ASSUME Core, NEW c \in Clients, OutcomeAt(c), pc[c] \in {"pointer", "chunks"},
         NEW entry, Resolved(c, entry), Verified(entry), entry.latest = named'[c],
         named'[c] \in Pointer, named'[c].id \notin Large
  PROVE  OutcomeAt(c)'
  <1>1. /\ resolved'[c] = entry /\ pc'[c] = "reply" /\ failure'[c] = None
    BY DEF Resolved, Goto, OutcomeAt, Core, TypeOK
  <1>2. QED
    BY <1>1 DEF OutcomeAt

LEMMA ResolveOutcome ==
  ASSUME Core, EntriesAreVerified, NEW c \in Clients, OutcomeAt(c), Resolve(c)
  PROVE  OutcomeAt(c)'
  <1>1. /\ pc[c] \in {"pointer", "chunks"} /\ at[c] \in Instances
        /\ At(c, "chunks") => named[c] \in Pointer /\ named[c].id \notin Large
    BY ResolveMoves DEF Core, Placed, PlacedAt, At
  <1>2. CASE PointerFails(c)
    <2>1. PICK e \in ReadErrors(c, current) :
            /\ Failed(c, Classified(c, e, "no_snapshot"))
            /\ named' = [named EXCEPT ![c] =
                           IF e = "notFound" /\ ~ended[c] THEN None ELSE Unread]
      BY <1>2 DEF PointerFails
    <2>2. named'[c] = IF e = "notFound" /\ ~ended[c] THEN None ELSE Unread
      BY <2>1 DEF Core, TypeOK
    <2>3. CASE e = "notFound" /\ ~ended[c]
      BY <1>1, <2>1, <2>2, <2>3, FailureIsTrue, RefusalsAreTrue DEF Classified, Codes
    <2>4. CASE ~(e = "notFound" /\ ~ended[c])
      BY <1>1, <2>1, <2>4, FailureIsTrue, RefusalsAreTrue DEF Classified, Codes
    <2>5. QED
      BY <2>3, <2>4
  <1>3. CASE TooLarge(c)
    <2>1. named'[c] \in Pointer /\ named'[c].id \in Large /\ Failed(c, "too_large")
      BY <1>3, NamedTypes DEF TooLarge
    <2>2. QED
      BY <1>1, <2>1, FailureIsTrue, RefusalsAreTrue DEF Codes
  <1>4. CASE Hit(c)
    <2>1. /\ named'[c] = current /\ current \in Pointer /\ current.id \notin Large
          /\ Resolved(c, cached[at[c]]) /\ cached[at[c]] # None
          /\ cached[at[c]].latest = current
      BY <1>4, NamedTypes DEF Hit, IsCached
    <2>2. QED
      BY <1>1, <2>1, EntryIsTrue DEF EntriesAreVerified
  <1>5. CASE Miss(c)
    <2>1. pc'[c] = "chunks" /\ UNCHANGED <<resolved, failure>>
      BY <1>5 DEF Miss, Goto, Core, TypeOK
    <2>2. QED
      BY <1>1, <2>1 DEF OutcomeAt
  <1>6. CASE ChunksFail(c)
    <2>1. PICK e \in ReadErrors(c, chunks[named[c].id]) :
            Failed(c, Classified(c, e, "chunks_missing"))
      BY <1>6 DEF ChunksFail
    <2>2. named'[c] = named[c] /\ named[c] \in Pointer /\ named[c].id \notin Large
      BY <1>1, <1>6 DEF ChunksFail
    <2>3. \A want : /\ Truthful(want, named'[c], Refused("chunks_missing"))
                    /\ Truthful(want, named'[c], Refused("unavailable"))
      BY <2>2, RefusalsAreTrue
    <2>4. QED
      BY <1>1, <2>1, <2>3, FailureIsTrue DEF Classified, Codes
  <1>7. CASE Unreadable(c)
    <2>1. /\ named'[c] = named[c] /\ named[c] \in Pointer /\ named[c].id \notin Large
          /\ Failed(c, "unreadable")
      BY <1>1, <1>7 DEF Unreadable
    <2>2. QED
      BY <1>1, <2>1, FailureIsTrue, RefusalsAreTrue DEF Codes
  <1>8. CASE Load(c)
    <2>1. /\ named'[c] = named[c] /\ named[c] \in Pointer /\ named[c].id \notin Large
          /\ Resolved(c, [latest |-> named[c], body |-> chunks[named[c].id]])
          /\ chunks[named[c].id] = named[c].id
      BY <1>1, <1>8 DEF Load, Verifies
    <2>2. QED
      BY <1>1, <2>1, EntryIsTrue DEF Verified
  <1>9. QED
    BY <1>2, <1>3, <1>4, <1>5, <1>6, <1>7, <1>8 DEF Resolve

LEMMA NextOutcomes ==
  ASSUME Core, EntriesAreVerified, OutcomesAreTrue, [Next]_vars
  PROVE  OutcomesAreTrue'
  <1>1. ASSUME NEW c \in Clients, Acts(c) PROVE OutcomeAt(c)'
    <2>1. OutcomeAt(c)
      BY DEF OutcomesAreTrue
    <2>2. CASE Resolve(c)
      BY <2>1, <2>2, ResolveOutcome
    <2>3. CASE Reply(c)
      BY <2>3 DEF Reply, Refuse, Revalidate, Serve, Answered, OutcomeAt, Core, TypeOK
    <2>4. CASE ~Resolve(c) /\ ~Reply(c)
      <3>1. pc[c] # "reply" /\ pc'[c] # "reply" /\ UNCHANGED <<resolved, failure>>
        BY <1>1, <2>4 DEF Acts, Ask, EndContext, Lock, Goto, At, Core, TypeOK
      <3>2. QED
        BY <2>1, <3>1 DEF OutcomeAt
    <2>5. QED
      BY <2>2, <2>3, <2>4
  <1>2. ASSUME NEW c \in Clients, Acts(c) PROVE OutcomesAreTrue'
    BY <1>1, <1>2, OthersStay, RefusalsStayTrue DEF OutcomesAreTrue
  <1>3. ASSUME NEW i \in Instances, Replace(i) PROVE OutcomesAreTrue'
    <2>1. ASSUME NEW c \in Clients, at[c] = i PROVE OutcomeAt(c)'
      BY <1>3, <2>1, ReplaceChanges DEF OutcomeAt
    <2>2. ASSUME NEW c \in Clients, at[c] # i PROVE OutcomeAt(c)'
      BY <1>3, <2>2, ReplaceChanges, RefusalsStayTrue DEF OutcomesAreTrue
    <2>3. QED
      BY <2>1, <2>2 DEF OutcomesAreTrue
  <1>4. CASE Elsewhere
    BY <1>4, ElsewhereChanges, RefusalsStayTrue DEF OutcomesAreTrue, Untouched
  <1>5. QED
    BY <1>2, <1>3, <1>4, NextSplits

-----------------------------------------------------------------------------
(* Nobody is stuck                                                         *)

\* A mutex is taken by the request that goes on to read, and left by every way out
\* of resolve.
LEMMA NextReleased ==
  ASSUME Core, MutexIsHeld, MutexIsReleased, [Next]_vars
  PROVE  MutexIsReleased'
  <1>1. ASSUME NEW c \in Clients, Acts(c), ~Lock(c), ~Resolve(c) PROVE MutexIsReleased'
    <2>1. UNCHANGED holder
      BY <1>1 DEF Acts, Ask, EndContext, Reply, Refuse, Revalidate, Serve, Answered
    <2>2. \/ pc[c] \notin {"pointer", "chunks"}
          \/ UNCHANGED <<pc, at>>
      BY <1>1 DEF Acts, Ask, EndContext, Reply, Refuse, Revalidate, Serve, Answered, At
    <2>3. QED
      BY <1>1, <2>1, <2>2, OthersStay DEF MutexIsReleased, Untouched
  <1>2. ASSUME NEW c \in Clients, Lock(c) PROVE MutexIsReleased'
    <2>1. /\ at[c] \in Instances /\ UNCHANGED at /\ pc'[c] = "pointer" /\ pc[c] = "lock"
          /\ \A i \in Instances : holder'[i] = IF i = at[c] THEN c ELSE holder[i]
      BY <1>2 DEF Lock, At, Goto, Core, TypeOK, Placed, PlacedAt
    <2>2. \A d \in Clients \ {c} : pc'[d] = pc[d]
      BY <1>2, OthersStay DEF Acts, Untouched
    <2>3. QED
      BY <2>1, <2>2 DEF MutexIsReleased
  <1>3. ASSUME NEW c \in Clients, Resolve(c) PROVE MutexIsReleased'
    <2>1. /\ at[c] \in Instances /\ holder[at[c]] = c /\ UNCHANGED at
          /\ pc'[c] \in {"chunks", "reply"} /\ (pc'[c] = "chunks" => Miss(c))
      BY <1>3, ResolveMoves DEF MutexIsHeld, Core, Placed, PlacedAt
    <2>2. (UNCHANGED holder /\ pc'[c] = "chunks") \/ Unlock(c)
      BY <1>3, <2>1 DEF Resolve, PointerFails, TooLarge, Hit, Miss, ChunksFail, Unreadable,
         Load, Goto, Core, TypeOK
    <2>3. \A d \in Clients \ {c} : pc'[d] = pc[d]
      BY <1>3, OthersStay DEF Acts, Untouched
    <2>4. CASE UNCHANGED holder /\ pc'[c] = "chunks"
      BY <2>1, <2>3, <2>4 DEF MutexIsReleased
    <2>5. CASE Unlock(c)
      <3>1. \A i \in Instances : holder'[i] = IF i = at[c] THEN None ELSE holder[i]
        BY <2>1, <2>5 DEF Unlock, Core, TypeOK
      <3>2. \A i \in Instances : i # at[c] /\ holder[i] # None => holder[i] # c
        BY DEF MutexIsReleased
      <3>3. QED
        BY <2>1, <2>3, <3>1, <3>2 DEF MutexIsReleased
    <2>6. QED
      BY <2>2, <2>4, <2>5
  <1>4. ASSUME NEW i \in Instances, Replace(i) PROVE MutexIsReleased'
    BY <1>4, ReplaceChanges DEF MutexIsReleased, Untouched
  <1>5. CASE Elsewhere
    BY <1>5, ElsewhereChanges DEF MutexIsReleased
  <1>6. QED
    BY <1>1, <1>2, <1>3, <1>4, <1>5, NextSplits

\* Whatever resolve returns, it is an entry or a failure.
LEMMA NextDue ==
  ASSUME Core, RepliesAreDue, [Next]_vars
  PROVE  RepliesAreDue'
  <1>1. ASSUME NEW c \in Clients, Resolve(c), pc'[c] = "reply"
        PROVE  resolved'[c] # None \/ failure'[c] # None
    <2>1. ASSUME NEW code \in Codes, Failed(c, code) PROVE failure'[c] # None
      BY <2>1, Kinds DEF Failed, Core, TypeOK
    <2>2. CASE PointerFails(c) \/ ChunksFail(c)
      <3>1. \A e : Classified(c, e, "no_snapshot") \in Codes
                   /\ Classified(c, e, "chunks_missing") \in Codes
        BY DEF Classified, Codes
      <3>2. QED
        BY <2>1, <2>2, <3>1 DEF PointerFails, ChunksFail
    <2>3. CASE TooLarge(c) \/ Unreadable(c)
      BY <2>1, <2>3 DEF TooLarge, Unreadable, Codes
    <2>4. CASE Hit(c)
      BY <2>4 DEF Hit, IsCached, Resolved, Core, TypeOK
    <2>5. CASE Load(c)
      <3>1. named[c] \in Pointer /\ named[c].id \in Snapshots
        BY <2>5 DEF Load, At, Core, Placed, PlacedAt, Pointer
      <3>2. [latest |-> named[c], body |-> chunks[named[c].id]] \in CachedSnapshot
        BY <2>5, <3>1 DEF Load, Verifies, CachedSnapshot
      <3>3. QED
        BY <2>5, <3>2, ApiSentinels DEF Load, Resolved, Core, TypeOK
    <2>6. CASE Miss(c)
      BY <1>1, <2>6 DEF Miss, Goto, Core, TypeOK
    <2>7. QED
      BY <1>1, <2>2, <2>3, <2>4, <2>5, <2>6 DEF Resolve
  <1>2. ASSUME NEW c \in Clients, Acts(c), pc'[c] = "reply"
        PROVE  resolved'[c] # None \/ failure'[c] # None
    <2>1. CASE Resolve(c)
      BY <1>1, <1>2, <2>1
    <2>2. CASE ~Resolve(c)
      <3>1. pc'[c] # "reply"
        BY <1>2, <2>2 DEF Acts, Ask, EndContext, Lock, Reply, Refuse, Revalidate, Serve,
           Answered, Goto, At, Core, TypeOK
      <3>2. QED
        BY <1>2, <3>1
    <2>3. QED
      BY <2>1, <2>2
  <1>3. ASSUME NEW c \in Clients, Acts(c) PROVE RepliesAreDue'
    BY <1>2, <1>3, OthersStay DEF RepliesAreDue, Untouched
  <1>4. ASSUME NEW i \in Instances, Replace(i) PROVE RepliesAreDue'
    BY <1>4, ReplaceChanges DEF RepliesAreDue, Untouched
  <1>5. CASE Elsewhere
    BY <1>5, ElsewhereChanges DEF RepliesAreDue
  <1>6. QED
    BY <1>3, <1>4, <1>5, NextSplits

-----------------------------------------------------------------------------
(* The copies of the clients                                               *)

\* Of what may be kept, the pointer fixes nothing that its snapshot does not.
LEMMA KeptDocument ==
  ASSUME NEW path \in Cacheable, NEW p \in Pointer, NEW entry,
         entry.latest \in Pointer, Verified(entry), p.id = entry.latest.id
  PROVE  DocumentOf(path, entry) = Whole(path, p)
  BY DEF DocumentOf, Whole, Verified, Cacheable

LEMMA ReplyCopies ==
  ASSUME Core, OutcomesAreTrue, CopiesAreWhole, ConfirmedCopiesAreCurrent,
         NEW c \in Clients, Reply(c)
  PROVE  /\ CopyAt(c)'
         /\ told'[c] = Same /\ asked'[c].by = "tag" =>
              copy'[c].doc = Whole(asked'[c].path, named'[c])
  <1>1. /\ pc[c] = "reply" /\ pc'[c] = "idle" /\ UNCHANGED <<asked, named>>
        /\ asked[c] \in Asked /\ CopyAt(c) /\ OutcomeAt(c)
    BY DEF Reply, Refuse, Revalidate, Serve, Answered, Goto, At, Core, TypeOK, Placed,
       PlacedAt, CopiesAreWhole, OutcomesAreTrue
  <1>2. CASE Refuse(c)
    <2>1. told'[c] = Refused(failure[c]) /\ failure[c] \in Codes /\ UNCHANGED copy
      BY <1>2 DEF Refuse, Answered, Core, TypeOK
    <2>2. told'[c] # Same
      BY <2>1 DEF Refused, Same, Codes
    <2>3. QED
      BY <1>1, <2>1, <2>2 DEF CopyAt
  <1>3. CASE Revalidate(c)
    <2>1. /\ resolved[c].latest = named[c] /\ named[c] \in Pointer /\ UNCHANGED copy
      BY <1>1, <1>3 DEF Revalidate, OutcomeAt
    <2>2. ASSUME asked[c].by = "tag" PROVE copy[c].doc = Whole(asked[c].path, named[c])
      <3>1. asked[c].copy.id = named[c].id
        BY <1>3, <2>1, <2>2 DEF Revalidate, NotModified
      <3>2. copy[c] # None /\ copy[c].path = asked[c].path /\ copy[c].doc = asked[c].copy
        BY <1>1, <2>2 DEF CopyAt
      <3>3. QED
        BY <1>1, <2>1, <3>1, <3>2 DEF CopyAt
    <2>3. QED
      BY <1>1, <2>1, <2>2 DEF CopyAt
  <1>4. CASE Serve(c)
    <2> DEFINE path == asked[c].path
               doc == DocumentOf(path, resolved[c])
    <2>1. /\ resolved[c].latest = named[c] /\ named[c] \in Pointer /\ Verified(resolved[c])
      BY <1>1, <1>4 DEF Serve, OutcomeAt
    <2>2. doc.id = named[c].id
      BY <2>1 DEF DocumentOf
    <2>3. path \in Cacheable => \A p \in Pointer : p.id = doc.id => doc = Whole(path, p)
      BY <2>1, <2>2, KeptDocument
    <2>4. /\ told'[c] = Full(doc)
          /\ copy' = IF path \in Cacheable
                     THEN [copy EXCEPT ![c] = [path |-> path, doc |-> doc]] ELSE copy
      BY <1>4 DEF Serve, Answered, Core, TypeOK
    <2>5. told'[c] # Same
      BY <2>4 DEF Full, Same
    <2> HIDE DEF path, doc
    <2>6. CASE path \in Cacheable
      <3>1. copy'[c] = [path |-> path, doc |-> doc]
        BY <2>4, <2>6 DEF Core, TypeOK
      <3>2. QED
        BY <1>1, <2>3, <2>5, <2>6, <3>1 DEF CopyAt
    <2>7. CASE path \notin Cacheable
      BY <1>1, <2>4, <2>5, <2>7 DEF CopyAt
    <2>8. QED
      BY <2>6, <2>7
  <1>5. QED
    BY <1>2, <1>3, <1>4 DEF Reply

LEMMA NextCopies ==
  ASSUME Core, OutcomesAreTrue, CopiesAreWhole, ConfirmedCopiesAreCurrent, [Next]_vars
  PROVE  CopiesAreWhole' /\ ConfirmedCopiesAreCurrent'
  <1> DEFINE Confirmed(c) == pc[c] = "idle" /\ told[c] = Same /\ asked[c].by = "tag" =>
                               copy[c].doc = Whole(asked[c].path, named[c])
  <1>1. \A c \in Clients : CopyAt(c) /\ Confirmed(c)
    BY DEF CopiesAreWhole, ConfirmedCopiesAreCurrent
  <1>2. SUFFICES \A c \in Clients : CopyAt(c)' /\ Confirmed(c)'
    BY DEF CopiesAreWhole, ConfirmedCopiesAreCurrent
  <1>3. ASSUME NEW c \in Clients, Untouched(c) PROVE CopyAt(c)' /\ Confirmed(c)'
    BY <1>1, <1>3 DEF Untouched, CopyAt
  <1>4. ASSUME NEW c \in Clients, Acts(c) PROVE CopyAt(c)' /\ Confirmed(c)'
    <2>1. CASE Reply(c)
      BY <2>1, ReplyCopies
    <2>2. CASE \E i \in Instances, path \in Paths, by \in {"nothing", "tag", "date"} :
                 Ask(c, i, path, by)
      <3>1. PICK i \in Instances, path \in Paths, by \in {"nothing", "tag", "date"} :
              Ask(c, i, path, by)
        BY <2>2
      <3>2. /\ asked'[c] = [path |-> path, by |-> by,
                            copy |-> IF by = "nothing" THEN None ELSE copy[c].doc]
            /\ pc'[c] = "lock" /\ UNCHANGED copy
            /\ by # "nothing" => copy[c] # None /\ copy[c].path = path
        BY <3>1 DEF Ask, Goto, Core, TypeOK
      <3>3. QED
        BY <1>1, <3>2 DEF CopyAt
    <2>3. CASE EndContext(c) \/ Lock(c) \/ Resolve(c)
      <3>1. pc[c] # "idle" /\ pc'[c] # "idle" /\ UNCHANGED <<asked, copy>>
        BY <2>3, ResolveMoves DEF EndContext, Lock, Goto, At, Core, TypeOK
      <3>2. QED
        BY <1>1, <3>1 DEF CopyAt
    <2>4. QED
      BY <1>4, <2>1, <2>2, <2>3 DEF Acts
  <1>5. ASSUME NEW c \in Clients, Acts(c) PROVE \A d \in Clients : CopyAt(d)' /\ Confirmed(d)'
    BY <1>3, <1>4, <1>5, OthersStay
  <1>6. ASSUME NEW i \in Instances, Replace(i)
        PROVE  \A d \in Clients : CopyAt(d)' /\ Confirmed(d)'
    <2>1. ASSUME NEW d \in Clients, at[d] = i PROVE CopyAt(d)' /\ Confirmed(d)'
      <3>1. pc[d] # "idle" /\ told[d] = None
        BY <2>1, Kinds DEF Core, Placed, PlacedAt
      <3>2. /\ pc'[d] = "idle" /\ copy'[d] = copy[d] /\ told'[d] = None
        BY <1>6, <2>1, <3>1, ReplaceChanges
      <3>3. None # Same
        BY Kinds DEF Same, Answer
      <3>4. QED
        BY <1>1, <3>2, <3>3 DEF CopyAt
    <2>2. QED
      BY <1>3, <1>6, <2>1, ReplaceChanges
  <1>7. CASE Elsewhere
    BY <1>3, <1>7, ElsewhereChanges DEF Untouched
  <1>8. QED
    BY <1>5, <1>6, <1>7, NextSplits

-----------------------------------------------------------------------------
(* What the alarms say                                                     *)

LEMMA StepAlarms ==
  ASSUME IInv, [Next]_vars, NEW c \in Clients, failure[c] = None
  PROVE  /\ failure'[c] = "chunks_missing" => chunks[named[c].id] = None
         /\ failure'[c] = "no_snapshot" => current = None
  <1>1. failure \in [Clients -> Codes \cup {None}]
    BY DEF IInv, Core, TypeOK
  <1>2. None # "chunks_missing" /\ None # "no_snapshot"
    BY Kinds DEF Codes
  <1>3. CASE failure'[c] \in {None, "too_large", "unreadable", "unavailable"}
    BY <1>2, <1>3
  <1>4. ASSUME PointerFails(c)
        PROVE  /\ failure'[c] = "chunks_missing" => chunks[named[c].id] = None
               /\ failure'[c] = "no_snapshot" => current = None
    <2>1. PICK e \in ReadErrors(c, current) : Failed(c, Classified(c, e, "no_snapshot"))
      BY <1>4 DEF PointerFails
    <2>2. failure'[c] = Classified(c, e, "no_snapshot")
      BY <1>1, <2>1 DEF Failed
    <2>3. CASE ended[c] \/ e # "notFound"
      BY <2>2, <2>3 DEF Classified
    <2>4. CASE ~ended[c] /\ e = "notFound"
      BY <2>2, <2>4 DEF Classified, ReadErrors
    <2>5. QED
      BY <2>3, <2>4
  <1>5. ASSUME ChunksFail(c)
        PROVE  /\ failure'[c] = "chunks_missing" => chunks[named[c].id] = None
               /\ failure'[c] = "no_snapshot" => current = None
    <2>1. PICK e \in ReadErrors(c, chunks[named[c].id]) :
            Failed(c, Classified(c, e, "chunks_missing"))
      BY <1>5 DEF ChunksFail
    <2>2. failure'[c] = Classified(c, e, "chunks_missing")
      BY <1>1, <2>1 DEF Failed
    <2>3. CASE ended[c] \/ e # "notFound"
      BY <2>2, <2>3 DEF Classified
    <2>4. CASE ~ended[c] /\ e = "notFound"
      BY <2>2, <2>4 DEF Classified, ReadErrors
    <2>5. QED
      BY <2>3, <2>4
  <1>6. CASE Acts(c) /\ ~PointerFails(c) /\ ~ChunksFail(c)
    <2>1. failure'[c] \in {None, "too_large", "unreadable"}
      BY <1>1, <1>6
      DEF Acts, Ask, EndContext, Lock, Resolve, TooLarge, Hit, Miss, Unreadable, Load,
          Failed, Resolved, Reply, Refuse, Revalidate, Serve, Answered
    <2>2. QED
      BY <1>3, <2>1
  <1>7. ASSUME NEW d \in Clients \ {c}, Acts(d) PROVE failure'[c] = None
    BY <1>7, OthersStay DEF Untouched, IInv
  <1>8. ASSUME NEW i \in Instances, Replace(i) PROVE failure'[c] = None
    BY <1>8, ReplaceChanges DEF Untouched, IInv
  <1>9. CASE Elsewhere
    BY <1>3, <1>9, ElsewhereChanges
  <1>10. QED
    BY <1>3, <1>4, <1>5, <1>6, <1>7, <1>8, <1>9, NextSplits

-----------------------------------------------------------------------------
(* The promise                                                             *)

LEMMA WantsStay ==
  ASSUME NEW c \in Clients, pc'[c] = "idle" <=> pc[c] = "idle",
         pc[c] # "idle" => asked'[c] = asked[c]
  PROVE  Wants'[c] = Wants[c]
  BY DEF Wants, Confirms

\* A client that is served wants something.
LEMMA WantsAreRequests ==
  ASSUME IInv, NEW c \in Clients, pc[c] # "idle"
  PROVE  Wants[c] \in Request /\ Wants[c] # None
  <1>1. Wants[c] = [path |-> asked[c].path, held |-> Confirms(asked[c])]
    BY DEF Wants
  <1>2. asked[c].path \in Paths /\ asked[c].by \in {"nothing", "tag", "date"}
    BY DEF IInv, Core, Placed, PlacedAt, Asked
  <1>3. Confirms(asked[c]) \in SUBSET Snapshots
    <2>1. CASE asked[c].by = "tag"
      <3>1. asked[c].copy \in Document
        BY <2>1 DEF Copy, IInv, Core, TypeOK, CopiesAreWhole, CopyAt
      <3>2. QED
        BY <2>1, <3>1 DEF Confirms, Document
    <2>2. CASE asked[c].by # "tag"
      BY <1>2, <2>2 DEF Confirms
    <2>3. QED
      BY <2>1, <2>2
  <1>4. QED
    BY <1>1, <1>2, <1>3, Kinds DEF Request

LEMMA AskPromised ==
  ASSUME IInv, TypeOK', Placed', NEW c \in Clients, NEW i \in Instances, NEW path \in Paths,
         NEW by \in {"nothing", "tag", "date"}, Ask(c, i, path, by)
  PROVE  Promised!Ask(c)
  <1>1. /\ pc[c] = "idle" /\ pc'[c] = "lock" /\ UNCHANGED current
        /\ named' = [named EXCEPT ![c] = Unread] /\ told' = [told EXCEPT ![c] = None]
        /\ asked'[c] = [path |-> path, by |-> by,
                        copy |-> IF by = "nothing" THEN None ELSE copy[c].doc]
    BY DEF Ask, At, Goto, IInv, Core, TypeOK
  <1>2. \A d \in Clients \ {c} : Wants'[d] = Wants[d]
    BY OthersStay, WantsStay DEF Acts, Untouched, IInv
  <1>3. Wants'[c] = [path |-> path, held |-> Confirms(asked[c])']
    BY <1>1 DEF Wants
  <1>4. Confirms(asked[c])' \in SUBSET Snapshots
    <2>1. CASE by = "tag"
      <3>1. asked'[c].copy \in Document
        BY <1>1, <2>1 DEF Ask, Copy, IInv, Core, TypeOK
      <3>2. QED
        BY <1>1, <2>1, <3>1 DEF Confirms, Document
    <2>2. CASE by # "tag"
      BY <1>1, <2>2 DEF Confirms
    <2>3. QED
      BY <2>1, <2>2
  <1>5. Wants'[c] \in Request
    BY <1>3, <1>4 DEF Request
  <1>6. Wants' = [Wants EXCEPT ![c] = Wants'[c]]
    BY <1>2 DEF Wants
  <1>7. Wants[c] = None
    BY <1>1 DEF Wants
  <1>8. QED
    BY <1>1, <1>5, <1>6, <1>7 DEF Promised!Ask, Promised!Request, Request, Promised!Paths, Paths

\* The instant an answer is about is when the pointer was read; nothing else that
\* resolve does is seen.
LEMMA ResolvePromised ==
  ASSUME IInv, NEW c \in Clients, Resolve(c)
  PROVE  Promised!Name(c) \/ UNCHANGED <<current, Wants, named, told>>
  <1>1. /\ UNCHANGED <<current, told>> /\ pc[c] # "idle" /\ Wants[c] # None
        /\ asked[c] \in Asked
    <2>1. pc[c] # "idle" /\ asked[c] \in Asked /\ UNCHANGED <<current, told>>
      BY ResolveMoves DEF IInv, Core, Placed, PlacedAt
    <2>2. Wants[c] = [path |-> asked[c].path, held |-> Confirms(asked[c])]
      BY <2>1 DEF Wants
    <2>3. QED
      BY <2>1, <2>2, WantsAreRequests
  <1>2. UNCHANGED Wants
    <2>1. \A d \in Clients : Wants'[d] = Wants[d]
      BY OthersStay, WantsStay, ResolveMoves DEF Acts, Untouched, IInv
    <2>2. QED
      BY <2>1 DEF Wants
  <1>3. CASE UNCHANGED named
    BY <1>1, <1>2, <1>3
  <1>4. CASE PointerFails(c) \/ PointerRead(c)
    <2>1. named[c] = Unread
      BY <1>4 DEF PointerFails, PointerRead, At, IInv, Core, Placed, PlacedAt
    <2>2. named' = [named EXCEPT ![c] = current] \/ UNCHANGED named
      <3>1. CASE PointerRead(c)
        BY <3>1 DEF PointerRead
      <3>2. CASE PointerFails(c)
        <4>1. PICK e \in ReadErrors(c, current) :
                named' = [named EXCEPT ![c] =
                            IF e = "notFound" /\ ~ended[c] THEN None ELSE Unread]
          BY <3>2 DEF PointerFails
        <4>2. CASE e = "notFound" /\ ~ended[c]
          BY <4>1, <4>2 DEF ReadErrors
        <4>3. CASE ~(e = "notFound" /\ ~ended[c])
          BY <2>1, <4>1, <4>3 DEF IInv, Core, TypeOK
        <4>4. QED
          BY <4>2, <4>3
      <3>3. QED
        BY <1>4, <3>1, <3>2
    <2>3. QED
      BY <1>1, <1>2, <2>1, <2>2 DEF Promised!Name
  <1>5. QED
    BY <1>3, <1>4 DEF Resolve, TooLarge, Hit, Miss, ChunksFail, Unreadable, Load

\* Every reply is true of the pointer that was read.
LEMMA ReplyIsTruthful ==
  ASSUME IInv, NEW c \in Clients, Reply(c)
  PROVE  /\ told'[c] \in Answer /\ Truthful(Wants[c], named[c], told'[c])
         /\ told' = [told EXCEPT ![c] = told'[c]]
  <1>1. /\ pc[c] = "reply" /\ asked[c] \in Asked /\ OutcomeAt(c)
        /\ Wants[c] = [path |-> asked[c].path, held |-> Confirms(asked[c])]
    BY DEF Reply, Refuse, Revalidate, Serve, Answered, At, IInv, Core, Placed, PlacedAt,
       OutcomesAreTrue, Wants
  <1>2. told' = [told EXCEPT ![c] = told'[c]]
    BY DEF Reply, Refuse, Revalidate, Serve, Answered, IInv, Core, TypeOK
  <1>3. CASE Refuse(c)
    BY <1>1, <1>2, <1>3 DEF Refuse, Answered, OutcomeAt, Refused, Answer, IInv, Core, TypeOK
  <1>4. CASE Revalidate(c)
    <2>1. /\ told'[c] = Same /\ NotModified(c, resolved[c])
          /\ named[c] \in Pointer /\ named[c].id \notin Large /\ resolved[c].latest = named[c]
      BY <1>1, <1>4 DEF Revalidate, Answered, OutcomeAt, IInv, Core, TypeOK
    <2>2. asked[c].path \in Cacheable /\ named[c].id \in Snapshots
      BY <2>1 DEF NotModified, Pointer
    <2>3. named[c].id \in Confirms(asked[c])
      <3>1. CASE asked[c].by = "tag"
        BY <2>1, <2>2, <3>1 DEF NotModified, Confirms
      <3>2. CASE asked[c].by = "date"
        BY <2>1, <2>2, <3>2 DEF NotModified, Confirms
      <3>3. QED
        BY <2>1, <3>1, <3>2 DEF NotModified
    <2>4. QED
      BY <1>1, <1>2, <2>1, <2>2, <2>3 DEF Truthful, Same, Answer
  <1>5. CASE Serve(c)
    <2>1. /\ told'[c] = Full(DocumentOf(asked[c].path, resolved[c]))
          /\ named[c] \in Pointer /\ named[c].id \notin Large
          /\ resolved[c].latest = named[c] /\ resolved[c].body = named[c].id
          /\ resolved[c] \in CachedSnapshot
      BY <1>1, <1>5 DEF Serve, Answered, OutcomeAt, Verified, IInv, Core, TypeOK
    <2>2. DocumentOf(asked[c].path, resolved[c]) = Whole(asked[c].path, named[c])
      BY <2>1 DEF DocumentOf, Whole
    <2>3. told'[c] \in Answer
      BY <1>1, <2>1, DocumentTypes DEF Asked
    <2>4. QED
      BY <1>1, <1>2, <2>1, <2>2, <2>3 DEF Truthful
  <1>6. QED
    BY <1>3, <1>4, <1>5 DEF Reply

LEMMA ReplyPromised ==
  ASSUME IInv, NEW c \in Clients, Reply(c)
  PROVE  Promised!Tell(c)
  <1>1. /\ pc[c] # "idle" /\ pc'[c] = "idle" /\ UNCHANGED <<current, named>>
    BY DEF Reply, Refuse, Revalidate, Serve, Answered, At, Goto, IInv, Core, TypeOK
  <1>2. Wants[c] # None
    BY <1>1, WantsAreRequests
  <1>3. \A d \in Clients \ {c} : Wants'[d] = Wants[d]
    BY OthersStay, WantsStay DEF Acts, Untouched, IInv
  <1>4. Wants' = [Wants EXCEPT ![c] = None]
    BY <1>1, <1>3 DEF Wants
  <1> DEFINE a == told'[c]
  <1>5. Truthful(Wants[c], named[c], a) /\ told' = [told EXCEPT ![c] = a]
    BY ReplyIsTruthful
  <1>6. Promised!Truthful(Wants[c], named[c], a)
    BY <1>5
    DEF Promised!Truthful, Promised!Refused, Promised!Full, Promised!Whole, Promised!Same,
        Promised!Pointer, Promised!Cacheable, Truthful, Refused, Full, Whole, Same, Pointer,
        Cacheable
  <1>7. a \in Promised!Replies(Wants[c], named[c])
    BY <1>6
    DEF Promised!Replies, Promised!Truthful, Promised!Codes, Promised!Refused, Promised!Full,
        Promised!Same, Promised!Pointer
  <1>8. QED
    BY <1>1, <1>2, <1>4, <1>5, <1>6, <1>7 DEF Promised!Tell

LEMMA ReplacePromised ==
  ASSUME IInv, NEW i \in Instances, Replace(i)
  PROVE  \E gone \in SUBSET Clients : Promised!Lose(gone)
  <1> DEFINE gone == {c \in Clients : at[c] = i}
  <1>1. \A c \in gone : pc[c] # "idle" /\ Wants[c] # None
    BY Kinds, WantsAreRequests DEF IInv, Core, Placed, PlacedAt
  <1>2. UNCHANGED <<current, named, told>>
    BY DEF Replace
  <1>3. \A c \in Clients : Wants'[c] = IF c \in gone THEN None ELSE Wants[c]
    <2>1. ASSUME NEW c \in Clients, c \in gone PROVE Wants'[c] = None
      BY <2>1, ReplaceChanges DEF Wants, IInv
    <2>2. ASSUME NEW c \in Clients, c \notin gone PROVE Wants'[c] = Wants[c]
      BY <2>2, ReplaceChanges, WantsStay DEF Untouched, IInv
    <2>3. QED
      BY <2>1, <2>2
  <1>4. Wants' = [c \in Clients |-> IF c \in gone THEN None ELSE Wants[c]]
    BY <1>3 DEF Wants
  <1>5. QED
    BY <1>1, <1>2, <1>4 DEF Promised!Lose

LEMMA ElsewherePromised ==
  ASSUME IInv, TypeOK', Elsewhere
  PROVE  Promised!Move \/ UNCHANGED <<current, Wants, named, told>>
  <1>1. UNCHANGED <<pc, asked, named, told>> /\ current' \in Pointer \cup NoPointer
    BY ElsewhereChanges DEF TypeOK
  <1>2. UNCHANGED Wants
    <2>1. \A c \in Clients : Wants'[c] = Wants[c]
      BY <1>1, WantsStay
    <2>2. QED
      BY <2>1 DEF Wants
  <1>3. QED
    BY <1>1, <1>2 DEF Promised!Move, Promised!Pointer, Promised!NoPointer, Pointer, NoPointer

LEMMA StepPromised ==
  ASSUME IInv, TypeOK', Placed', [Next]_vars
  PROVE  [Promised!Next]_<<current, Wants, named, told>>
  <1>1. ASSUME NEW c \in Clients, EndContext(c) \/ Lock(c)
        PROVE  UNCHANGED <<current, Wants, named, told>>
    <2>1. /\ UNCHANGED <<current, asked, named, told>>
          /\ pc[c] # "idle" /\ pc'[c] # "idle"
      BY <1>1 DEF EndContext, Lock, At, Goto, IInv, Core, TypeOK
    <2>2. \A d \in Clients : Wants'[d] = Wants[d]
      BY <1>1, <2>1, OthersStay, WantsStay DEF Acts, Untouched, IInv
    <2>3. Wants' = Wants
      BY <2>2 DEF Wants
    <2>4. QED
      BY <2>1, <2>3
  <1>2. ASSUME NEW c \in Clients, Acts(c) PROVE [Promised!Next]_<<current, Wants, named, told>>
    BY <1>1, <1>2, AskPromised, ResolvePromised, ReplyPromised DEF Acts, Promised!Next
  <1>3. ASSUME NEW i \in Instances, Replace(i)
        PROVE  [Promised!Next]_<<current, Wants, named, told>>
    BY <1>3, ReplacePromised DEF Promised!Next
  <1>4. CASE Elsewhere
    BY <1>4, ElsewherePromised DEF Promised!Next
  <1>5. QED
    BY <1>2, <1>3, <1>4, NextSplits

LEMMA InitPromised ==
  ASSUME Init
  PROVE  Promised!Init
  BY DEF Init, Promised!Init, Wants, Nothing

-----------------------------------------------------------------------------
(* The theorems                                                            *)

LEMMA InitIsIInv ==
  ASSUME Init
  PROVE  IInv
  <1>1. TypeOK /\ IsFiniteSet(written)
    BY FS_EmptySet DEF Init, TypeOK, Nothing, NoPointer, Steps
  <1>2. Placed /\ MutexIsHeld /\ FetchesAreMisses /\ EntriesAreVerified
    BY DEF Init, Nothing, Placed, PlacedAt, MutexIsHeld, FetchesAreMisses, EntriesAreVerified
  <1>3. OutcomesAreTrue /\ CopiesAreWhole
    BY DEF Init, Nothing, OutcomesAreTrue, OutcomeAt, CopiesAreWhole, CopyAt
  <1>4. ConfirmedCopiesAreCurrent
    BY Kinds DEF Init, Nothing, ConfirmedCopiesAreCurrent, Same, Answer
  <1>5. MutexIsReleased /\ RepliesAreDue
    BY DEF Init, MutexIsReleased, RepliesAreDue
  <1>6. QED
    BY <1>1, <1>2, <1>3, <1>4, <1>5 DEF IInv, Core

LEMMA NextKeepsIInv ==
  ASSUME IInv, [Next]_vars
  PROVE  IInv'
  <1>1. TypeOK' /\ IsFiniteSet(written')
    BY NextTypes DEF IInv
  <1>2. Placed'
    BY <1>1, NextPlaced DEF IInv
  <1>3. MutexIsHeld' /\ FetchesAreMisses' /\ EntriesAreVerified'
    BY NextMutex, NextMisses DEF IInv
  <1>4. OutcomesAreTrue' /\ CopiesAreWhole' /\ ConfirmedCopiesAreCurrent'
    BY NextOutcomes, NextCopies DEF IInv
  <1>5. MutexIsReleased' /\ RepliesAreDue'
    BY NextReleased, NextDue DEF IInv
  <1>6. QED
    BY <1>1, <1>2, <1>3, <1>4, <1>5 DEF IInv, Core

LEMMA Invariance == Safety => []IInv
  BY InitIsIInv, NextKeepsIInv, PTL DEF Safety

\* The table, the processes and the requests keep their types: no entry is kept,
\* and none returned, that does not verify.
THEOREM TypeCorrect == Safety => []TypeOK
  <1>1. IInv => TypeOK
    BY DEF IInv, Core
  <1>2. QED
    BY <1>1, Invariance, PTL

\* Of the requests an instance serves at once one fetches the chunks, and only
\* while they are not what it keeps.  It rests on who may let the mutex go.
\* (resolve)
THEOREM BurstsCostOneRead == Safety => []BurstCostsOneRead
  <1>1. IInv => BurstCostsOneRead
    BY DEF IInv, MutexIsHeld, FetchesAreMisses, BurstCostsOneRead
  <1>2. QED
    BY <1>1, Invariance, PTL

\* "Not modified" for an entity tag is said of the very document a full answer
\* would carry.  (writeCached, entityTag)
THEOREM ConfirmedAreCurrent == Safety => []ConfirmedCopiesAreCurrent
  BY Invariance, PTL DEF IInv

\* An alarm is raised only for what the table held.  (classifyStoreError)
THEOREM AlarmsReal == Safety => AlarmsAreReal
  <1> DEFINE Real ==
        \A c \in Clients :
          /\ failure[c] = None
          => /\ failure'[c] = "chunks_missing" => chunks[named[c].id] = None
             /\ failure'[c] = "no_snapshot" => current = None
  <1>1. ASSUME IInv, [Next]_vars PROVE Real
    BY <1>1, StepAlarms
  <1>2. [][Real]_vars <=> AlarmsAreReal
    BY DEF AlarmsAreReal
  <1> HIDE DEF Real
  <1>3. IInv /\ [Next]_vars => [Real]_vars
    BY <1>1
  <1>4. QED
    BY <1>2, <1>3, Invariance, PTL DEF Safety

\* What a request waits for at each step: that its instance's mutex is free, that
\* the read of the store returns, that resolve has returned something.
CanMove(c) ==
  \/ pc[c] = "lock" /\ holder[at[c]] = None
  \/ pc[c] = "pointer" /\ (current \in Pointer \/ ReadErrors(c, current) # {})
  \/ pc[c] = "chunks" /\ (chunks[named[c].id] # None \/ ReadErrors(c, None) # {})
  \/ pc[c] = "reply" /\ (resolved[c] # None \/ failure[c] # None)

\* A request goes on, or the one that holds the mutex it queues for does.
NobodyIsStuck ==
  \A c \in Clients : pc[c] # "idle" =>
    \/ CanMove(c)
    \/ \E d \in Clients : holder[at[c]] = d /\ at[d] = at[c] /\ pc[d] # "lock" /\ CanMove(d)

\* No mutex is left behind, by a failure, an early return, a context that ends or
\* a replaced process: a request that cannot take it waits for one that is reading
\* the store and can go on.  The rest of RequestsAreAnswered is a matter of
\* scheduling.  (resolve: mu.Lock, defer mu.Unlock)
THEOREM QueuesMove == Safety => []NobodyIsStuck
  <1>1. IInv => NobodyIsStuck
    <2> SUFFICES ASSUME IInv, NEW c \in Clients, pc[c] # "idle"
                 PROVE  \/ CanMove(c)
                        \/ \E d \in Clients : /\ holder[at[c]] = d /\ at[d] = at[c]
                                              /\ pc[d] # "lock" /\ CanMove(d)
      BY DEF NobodyIsStuck
    <2>1. ASSUME NEW d \in Clients, pc[d] \in {"pointer", "chunks"} PROVE CanMove(d)
      <3>1. CASE pc[d] = "pointer"
        <4>1. current \in Pointer \/ current \in {None, Broken}
          BY DEF IInv, Core, TypeOK, NoPointer
        <4>2. current = None => "notFound" \in ReadErrors(d, current)
          BY DEF ReadErrors
        <4>3. current = Broken => "failed" \in ReadErrors(d, current)
          BY DEF ReadErrors
        <4>4. QED
          BY <3>1, <4>1, <4>2, <4>3 DEF CanMove
      <3>2. CASE pc[d] = "chunks"
        <4>1. "notFound" \in ReadErrors(d, None)
          BY DEF ReadErrors
        <4>2. QED
          BY <3>2, <4>1 DEF CanMove
      <3>3. QED
        BY <2>1, <3>1, <3>2
    <2>2. CASE pc[c] = "lock"
      <3>1. at[c] \in Instances
        BY <2>2 DEF IInv, Core, Placed, PlacedAt
      <3>2. CASE holder[at[c]] = None
        BY <2>2, <3>2 DEF CanMove
      <3>3. CASE holder[at[c]] # None
        <4>1. /\ holder[at[c]] \in Clients /\ at[holder[at[c]]] = at[c]
              /\ pc[holder[at[c]]] \in {"pointer", "chunks"}
          BY <3>1, <3>3 DEF IInv, MutexIsReleased
        <4>2. QED
          BY <2>1, <4>1
      <3>4. QED
        BY <3>2, <3>3
    <2>3. CASE pc[c] = "reply"
      BY <2>3 DEF IInv, RepliesAreDue, CanMove
    <2>4. pc[c] \in {"lock", "pointer", "chunks", "reply"}
      BY DEF IInv, Core, TypeOK, Steps
    <2>5. QED
      BY <2>1, <2>2, <2>3, <2>4
  <1>2. QED
    BY <1>1, Invariance, PTL

\* The read API implements its promise: whichever instance serves a request, and
\* whatever that instance keeps, the answer is true of the pointer at one instant
\* while the request was served.  (resolve, writeCached, serveHealth)
THEOREM PromiseKept == Safety => ReadersAreServed
  <1>1. Init => Promised!Init
    BY InitPromised
  <1>2. IInv /\ [Next]_vars => [Promised!Next]_<<current, Wants, named, told>>
    <2>1. SUFFICES ASSUME IInv, [Next]_vars
                   PROVE  [Promised!Next]_<<current, Wants, named, told>>
      OBVIOUS
    <2>2. TypeOK' /\ Placed'
      BY <2>1, NextKeepsIInv DEF IInv, Core
    <2>3. QED
      BY <2>1, <2>2, StepPromised
  <1>3. QED
    BY <1>1, <1>2, Invariance, PTL DEF Safety, ReadersAreServed, Promised!Spec

=============================================================================
