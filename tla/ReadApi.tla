------------------------------- MODULE ReadApi -------------------------------
(***************************************************************************)
(* The read half of internal/api: resolve on every instance of the         *)
(* function, with the one verified snapshot an instance keeps, and the     *)
(* conditional replies its clients revalidate their copies with.  An       *)
(* action is one step another request, a publication or a fault can come   *)
(* between: taking the lock, each read of the store, the reply.  The table *)
(* is seen from here only: a snapshot is published, its pointer is put     *)
(* back by an operator or damaged, its chunks expire or are lost.  HEAD,   *)
(* CORS and routing change no state and are left out.                      *)
(***************************************************************************)
EXTENDS ReadContract, FiniteSets

CONSTANTS
  Clients,      \* the clients, each with one request at a time
  Instances,    \* the processes of the function
  MaxRequests,  \* bound: the requests that arrive
  MaxFaults,    \* bound: what goes wrong, reads that fail apart
  Faults        \* what may go wrong in this instance

\* store: a read of the table fails.  chunks: a stored set is lost or damaged.
\* pointer: it is damaged or lost.  rollback: an operator puts an earlier one
\* back.  context: a request's context ends.  replace: a process is replaced.
FaultKinds == {"store", "chunks", "pointer", "rollback", "context", "replace"}

ASSUME ApiAssumption ==
  /\ {MaxRequests, MaxFaults} \subseteq Nat
  /\ Faults \subseteq FaultKinds
  /\ None \notin Clients \cup Instances

\* A copy a client keeps, and how it has it validated: not at all, by its entity
\* tag, or by its date.
Copy == [path : Cacheable, doc : Document]
Asked == [path : Paths, by : {"nothing", "tag", "date"}, copy : Document \cup {None}]

\* cachedSnapshot: the pointer it was verified against and the encoded bytes.
CachedSnapshot == [latest : Pointer, body : Snapshots]

\* An instance that holds nothing holds no entry.
ASSUME ApiSentinels == None \notin CachedSnapshot

VARIABLES
  current, chunks, written, \* the pointer, what each set reads as, its writes
  cached, holder,           \* each instance's snapshot, and who has its mutex
  pc, at, asked,            \* what each request does next, where, what it asks
  ended,                    \* whose context has ended
  named,                    \* the pointer it read
  resolved, failure,        \* what resolve returned: an entry, or a code
  told, copy,               \* the last answer of each client, and its copy
  arrived, faults           \* how many requests, and how much has gone wrong

table   == <<current, chunks, written>>
process == <<cached, holder>>
request == <<at, asked, ended>>
outcome == <<named, resolved, failure, told, copy>>
counts  == <<arrived, faults>>
vars    == <<table, process, pc, request, outcome, counts>>

Nothing == [c \in Clients |-> None]

Init ==
  /\ current = None /\ chunks = [s \in Snapshots |-> None] /\ written = {}
  /\ cached = [i \in Instances |-> None] /\ holder = [i \in Instances |-> None]
  /\ pc = [c \in Clients |-> "idle"]
  /\ at = Nothing /\ asked = Nothing /\ ended = [c \in Clients |-> FALSE]
  /\ named = [c \in Clients |-> Unread]
  /\ resolved = Nothing /\ failure = Nothing /\ told = Nothing /\ copy = Nothing
  /\ arrived = 0 /\ faults = 0

-----------------------------------------------------------------------------
(* The table and its operators                                             *)

Fault(kind) == kind \in Faults /\ faults < MaxFaults /\ faults' = faults + 1

\* The chunks are put before the pointer; no reader looks for those that no
\* pointer names yet.  A scan moves the pointer forward, and replaces whatever it
\* scanned when there is none or none that reads.
Publish(s) ==
  /\ current \in NoPointer \cup {p \in Pointer : ScannedAt[p.id] < ScannedAt[s]}
  /\ Cardinality(written) < MaxWrites
  /\ current' = [id |-> s, published |-> Cardinality(written) + 1]
  /\ written' = written \cup {current'}
  /\ chunks' = [chunks EXCEPT ![s] = s]
  /\ UNCHANGED <<process, pc, request, outcome, counts>>

Rollback(p) ==
  /\ Fault("rollback") /\ p \in written /\ p # current
  /\ current' = p
  /\ UNCHANGED <<chunks, written, process, pc, request, outcome, arrived>>

Damage ==
  /\ Fault("pointer")
  /\ current' \in NoPointer \ {current}
  /\ UNCHANGED <<chunks, written, process, pc, request, outcome, arrived>>

LoseChunks(s) ==
  /\ Fault("chunks") /\ chunks[s] = s
  /\ \E lost \in {None, Broken} : chunks' = [chunks EXCEPT ![s] = lost]
  /\ UNCHANGED <<current, written, process, pc, request, outcome, arrived>>

-----------------------------------------------------------------------------
(* Replies                                                                 *)

At(c, step) == pc[c] = step
Goto(c, step) == pc' = [pc EXCEPT ![c] = step]

\* Mutation: the summary says when it was published.
DocumentDated(path, entry) ==
  [id |-> entry.latest.id,
   body |-> IF path = "snapshot" THEN entry.body ELSE None,
   published |-> IF path \in {"meta", "health"} THEN entry.latest.published ELSE None]

\* The body and the summary are fixed by the snapshot, health by the pointer.
DocumentOf(path, entry) ==
  [id |-> entry.latest.id,
   body |-> IF path = "snapshot" THEN entry.body ELSE None,
   published |-> IF path = "health" THEN entry.latest.published ELSE None]

\* The entity tag decides whenever the client sends one.
NotModified(c, entry) ==
  /\ asked[c].path \in Cacheable
  /\ \/ asked[c].by = "tag" /\ asked[c].copy.id = entry.latest.id
     \/ asked[c].by = "date" /\ ScannedAt[entry.latest.id] <= ScannedAt[asked[c].copy.id]

\* Mutation: the error is read before the request.
ClassifiedByError(c, error, notFound) ==
  IF error # "notFound" THEN "unavailable" ELSE notFound

\* classifyStoreError: a request whose context has ended says nothing of the
\* store, whatever its read returned.
Classified(c, error, notFound) ==
  IF ended[c] \/ error # "notFound" THEN "unavailable" ELSE notFound

\* What a read may fail with: that nothing is stored, when nothing is or when the
\* read was abandoned, or anything else.
ReadErrors(c, stored) ==
  {e \in {"notFound", "failed"} :
     CASE e = "notFound" -> stored = None \/ ended[c]
       [] e = "failed" -> stored = Broken \/ ended[c] \/ "store" \in Faults}

-----------------------------------------------------------------------------
(* A request                                                               *)

\* A client revalidates the copy it holds of the document it asks for.
Ask(c, i, path, by) ==
  /\ At(c, "idle") /\ arrived < MaxRequests
  /\ by # "nothing" => copy[c] # None /\ copy[c].path = path
  /\ Goto(c, "lock")
  /\ at' = [at EXCEPT ![c] = i]
  /\ asked' = [asked EXCEPT ![c] =
       [path |-> path, by |-> by, copy |-> IF by = "nothing" THEN None ELSE copy[c].doc]]
  /\ named' = [named EXCEPT ![c] = Unread] /\ told' = [told EXCEPT ![c] = None]
  /\ arrived' = arrived + 1
  /\ UNCHANGED <<table, process, ended, resolved, failure, copy, faults>>

\* The client hangs up, or the deadline passes; the mutex does not notice.
EndContext(c) ==
  /\ Fault("context") /\ pc[c] \in {"lock", "pointer", "chunks"} /\ ~ended[c]
  /\ ended' = [ended EXCEPT ![c] = TRUE]
  /\ UNCHANGED <<table, process, pc, at, asked, outcome, arrived>>

Lock(c) ==
  /\ At(c, "lock") /\ holder[at[c]] = None
  /\ holder' = [holder EXCEPT ![at[c]] = c]
  /\ Goto(c, "pointer")
  /\ UNCHANGED <<table, cached, request, outcome, counts>>

\* resolve returns, with an entry or with a failure.
Resolved(c, entry) ==
  /\ resolved' = [resolved EXCEPT ![c] = entry] /\ UNCHANGED failure
  /\ Goto(c, "reply")

Failed(c, code) ==
  /\ failure' = [failure EXCEPT ![c] = code] /\ UNCHANGED resolved
  /\ Goto(c, "reply")

\* The deferred unlock.
Unlock(c) == holder' = [holder EXCEPT ![at[c]] = None]

\* What is kept is not served without a pointer, and stays kept.  That there is
\* no pointer has been seen only where the read was not ended.
PointerFails(c) ==
  /\ At(c, "pointer")
  /\ \E e \in ReadErrors(c, current) :
       /\ Failed(c, Classified(c, e, "no_snapshot"))
       /\ named' = [named EXCEPT ![c] = IF e = "notFound" /\ ~ended[c] THEN None ELSE Unread]
  /\ Unlock(c)
  /\ UNCHANGED <<table, cached, request, told, copy, counts>>

PointerRead(c) ==
  /\ At(c, "pointer") /\ current \in Pointer
  /\ named' = [named EXCEPT ![c] = current]

\* Mutation: the early return forgets the lock.
TooLargeLocked(c) ==
  /\ PointerRead(c) /\ current.id \in Large
  /\ Failed(c, "too_large")
  /\ UNCHANGED <<table, process, request, told, copy, counts>>

\* The declared size is refused before a chunk is fetched.
TooLarge(c) ==
  /\ PointerRead(c) /\ current.id \in Large
  /\ Failed(c, "too_large") /\ Unlock(c)
  /\ UNCHANGED <<table, cached, request, told, copy, counts>>

\* Mutation: an entry answers for its snapshot, whatever else the pointer says.
IsCachedByID(i, p) == cached[i] # None /\ cached[i].latest.id = p.id

\* reflect.DeepEqual on the whole pointer.
IsCached(i, p) == cached[i] # None /\ cached[i].latest = p

Hit(c) ==
  /\ PointerRead(c) /\ current.id \notin Large /\ IsCached(at[c], current)
  /\ Resolved(c, cached[at[c]]) /\ Unlock(c)
  /\ UNCHANGED <<table, cached, request, told, copy, counts>>

\* Mutation: the lock is not held while the chunks are fetched.
MissUnlocked(c) ==
  /\ PointerRead(c) /\ current.id \notin Large /\ ~IsCached(at[c], current)
  /\ Goto(c, "chunks") /\ Unlock(c)
  /\ UNCHANGED <<table, cached, request, resolved, failure, told, copy, counts>>

Miss(c) ==
  /\ PointerRead(c) /\ current.id \notin Large /\ ~IsCached(at[c], current)
  /\ Goto(c, "chunks")
  /\ UNCHANGED <<table, process, request, resolved, failure, told, copy, counts>>

\* The pointer may have moved since, and the chunks it named may have gone.
ChunksFail(c) ==
  /\ At(c, "chunks")
  /\ \E e \in ReadErrors(c, chunks[named[c].id]) :
       Failed(c, Classified(c, e, "chunks_missing"))
  /\ Unlock(c)
  /\ UNCHANGED <<table, cached, request, named, told, copy, counts>>

\* Mutation: bytes that are there are good.
VerifiesAnything(c) == chunks[named[c].id] # None

\* Verify is the only judge of the bytes.
Verifies(c) == chunks[named[c].id] = named[c].id

Unreadable(c) ==
  /\ At(c, "chunks") /\ chunks[named[c].id] # None /\ ~Verifies(c)
  /\ Failed(c, "unreadable") /\ Unlock(c)
  /\ UNCHANGED <<table, cached, request, named, told, copy, counts>>

Load(c) ==
  LET entry == [latest |-> named[c], body |-> chunks[named[c].id]] IN
  /\ At(c, "chunks") /\ Verifies(c)
  /\ cached' = [cached EXCEPT ![at[c]] = entry]
  /\ Resolved(c, entry) /\ Unlock(c)
  /\ UNCHANGED <<table, request, named, told, copy, counts>>

\* Outside the lock, and from what resolve returned alone.
Answered(c, answer) ==
  /\ At(c, "reply")
  /\ told' = [told EXCEPT ![c] = answer]
  /\ Goto(c, "idle")
  /\ at' = [at EXCEPT ![c] = None] /\ ended' = [ended EXCEPT ![c] = FALSE]
  /\ resolved' = [resolved EXCEPT ![c] = None] /\ failure' = [failure EXCEPT ![c] = None]
  /\ UNCHANGED <<table, process, asked, named, counts>>

\* writeFailure
Refuse(c) ==
  /\ failure[c] # None /\ Answered(c, Refused(failure[c])) /\ UNCHANGED copy

\* writeCached: a copy that is validated stays as it is.
Revalidate(c) ==
  /\ resolved[c] # None /\ NotModified(c, resolved[c])
  /\ Answered(c, Same) /\ UNCHANGED copy

\* writeCached and serveHealth; what may be kept, the client keeps.
Serve(c) ==
  LET path == asked[c].path  doc == DocumentOf(path, resolved[c]) IN
  /\ resolved[c] # None /\ ~NotModified(c, resolved[c])
  /\ Answered(c, Full(doc))
  /\ copy' = IF path \in Cacheable THEN [copy EXCEPT ![c] = [path |-> path, doc |-> doc]]
             ELSE copy

\* A new process holds nothing; what the old one served is over.
Replace(i) ==
  LET mine == {c \in Clients : at[c] = i}
      Drop(held, nothing) == [c \in Clients |-> IF c \in mine THEN nothing ELSE held[c]] IN
  /\ Fault("replace")
  /\ mine # {} \/ cached[i] # None
  /\ cached' = [cached EXCEPT ![i] = None] /\ holder' = [holder EXCEPT ![i] = None]
  /\ pc' = Drop(pc, "idle") /\ at' = Drop(at, None) /\ ended' = Drop(ended, FALSE)
  /\ resolved' = Drop(resolved, None) /\ failure' = Drop(failure, None)
  /\ UNCHANGED <<table, asked, named, told, copy, arrived>>

-----------------------------------------------------------------------------
Resolve(c) ==
  \/ PointerFails(c) \/ TooLarge(c) \/ Hit(c) \/ Miss(c)
  \/ ChunksFail(c) \/ Unreadable(c) \/ Load(c)

Reply(c) == Refuse(c) \/ Revalidate(c) \/ Serve(c)

Environment ==
  \/ \E s \in Snapshots : Publish(s) \/ LoseChunks(s)
  \/ \E p \in written : Rollback(p)
  \/ Damage
  \/ \E i \in Instances : Replace(i)

Next ==
  \/ \E c \in Clients, i \in Instances, path \in Paths, by \in {"nothing", "tag", "date"} :
       Ask(c, i, path, by)
  \/ \E c \in Clients : EndContext(c) \/ Lock(c) \/ Resolve(c) \/ Reply(c)
  \/ Environment

Safety == Init /\ [][Next]_vars

\* A request that is running runs on, and a mutex that is released again and
\* again goes to each of those that wait for it in the end.
Fairness == \A c \in Clients : WF_vars(Resolve(c) \/ Reply(c)) /\ SF_vars(Lock(c))

Spec == Safety /\ Fairness

-----------------------------------------------------------------------------
(* Properties                                                              *)

Steps == {"idle", "lock", "pointer", "chunks", "reply"}

\* What the table, each process and each request hold.
TypeOK ==
  /\ current \in Pointer \cup NoPointer /\ written \subseteq Pointer
  /\ chunks \in [Snapshots -> Snapshots \cup {None, Broken}]
  /\ cached \in [Instances -> CachedSnapshot \cup {None}]
  /\ holder \in [Instances -> Clients \cup {None}]
  /\ pc \in [Clients -> Steps]
  /\ at \in [Clients -> Instances \cup {None}]
  /\ asked \in [Clients -> Asked \cup {None}]
  /\ ended \in [Clients -> BOOLEAN]
  /\ named \in [Clients -> Pointer \cup {None, Unread}]
  /\ resolved \in [Clients -> CachedSnapshot \cup {None}]
  /\ failure \in [Clients -> Codes \cup {None}]
  /\ told \in [Clients -> Answer \cup {None}]
  /\ copy \in [Clients -> Copy \cup {None}]
  /\ arrived \in Nat

\* The snapshots for which "not modified" is true of the copy a client validates.
\* A date says only that the copy is no older.
Confirms(a) ==
  CASE a.by = "nothing" -> {}
    [] a.by = "tag" -> {a.copy.id}
    [] a.by = "date" -> {s \in Snapshots : ScannedAt[s] <= ScannedAt[a.copy.id]}

Wants == [c \in Clients |->
  IF pc[c] = "idle" THEN None
  ELSE [path |-> asked[c].path, held |-> Confirms(asked[c])]]

Promised == INSTANCE ServedSnapshot WITH wants <- Wants

\* Every answer is about the snapshot the pointer named at one instant while the
\* request was served, on whichever instance and whatever it had cached: never a
\* superseded or a rolled-back one, never bytes that did not verify, never an
\* absence or an excess that was not seen.  (resolve, writeCached, serveHealth)
ReadersAreServed == Promised!Spec

\* A client that is told by its entity tag that nothing changed holds, byte for
\* byte, the document a full answer would have carried.  (writeCached, entityTag)
ConfirmedCopiesAreCurrent ==
  \A c \in Clients :
    /\ pc[c] = "idle" /\ told[c] = Same
    /\ asked[c].by = "tag"
    => copy[c].doc = Whole(asked[c].path, named[c])

\* A burst costs an instance one read of the chunks: one request at a time fetches
\* them, and only while what it needs is not what the instance holds.  (resolve)
BurstCostsOneRead ==
  \A c, d \in Clients :
    /\ pc[c] = "chunks"
    => /\ ~IsCached(at[c], named[c])
       /\ pc[d] = "chunks" /\ at[d] = at[c] => d = c

\* The alarm for a snapshot that vanished, and the answer that nothing has been
\* published, are given only for what the table really held when it was read,
\* and never for a request that went away.  (classifyStoreError)
AlarmsAreReal ==
  [][\A c \in Clients :
       /\ failure[c] = None
       => /\ failure'[c] = "chunks_missing" => chunks[named[c].id] = None
          /\ failure'[c] = "no_snapshot" => current = None]_vars

\* Every request is answered, though it queues behind others for a mutex that no
\* context interrupts, and though those others fail or are abandoned.
RequestsAreAnswered == \A c \in Clients : pc[c] # "idle" ~> pc[c] = "idle"

=============================================================================
