------------------------------ MODULE FreshCheck ------------------------------
(***************************************************************************)
(* The fresh-check path of the read API: runCheck on every instance, and   *)
(* the shared store it charges and caches in.  An action is one step that  *)
(* another request can come between: a charge, a load, a store, the        *)
(* upstream read, and the local copies.  A request whose media type,       *)
(* length or identity is refused touches no state and is left out; what    *)
(* the subgraph says of a set of names is one of a few answers, and the    *)
(* pool that asks it is CheckerPool.                                       *)
(***************************************************************************)
EXTENDS Integers, FiniteSets

CONSTANTS
  Requests,       \* the requests that may be served at once
  Instances,      \* the processes of the function
  Clients,        \* the keyed digests of client addresses
  NameSets,       \* what a request may ask about, normalized
  Cost,           \* the upstream calls each set of names takes
  Answers,        \* what the subgraph may say of a set of names
  ClientLimit,    \* requests an identity may make in a window
  UpstreamLimit,  \* upstream calls all of them may make in a window
  Period,         \* the length of a window
  Lifetime,       \* how long an answer is fresh
  LocalEntries,   \* copies an instance may keep
  Slots,          \* requests of an instance that may be in the upstream
  RequestLimit,   \* how long the platform lets a request run
  MaxTime,        \* bound: the last instant; requests arrive before it
  MaxRequests,    \* bound: the requests that arrive
  Faults,         \* what may go wrong in this instance
  None            \* nothing

\* store: a call to the table fails.  lostReply: it is done and reported failed.
\* upstream: the read of the subgraph fails.  replace: a process is replaced.
FaultKinds == {"store", "lostReply", "upstream", "replace"}

Time == 0 .. MaxTime

\* CheckConfig.Validate: every limit is positive, and a request for the most
\* names fits the whole window.
ASSUME CheckAssumption ==
  /\ {ClientLimit, UpstreamLimit, Period, Lifetime, LocalEntries, Slots} \subseteq Nat \ {0}
  /\ {RequestLimit, MaxTime, MaxRequests} \subseteq Nat
  /\ Cost \in [NameSets -> 1 .. UpstreamLimit]
  /\ IsFiniteSet(Requests) /\ IsFiniteSet(NameSets)
  /\ None \notin Instances \cup Clients \cup NameSets
  /\ Faults \subseteq FaultKinds

\* No request outlives a window.  The defaults see to it (a request may take ten
\* seconds, a window is sixty); a configuration may name a shorter window, and
\* then nothing is claimed here.
ASSUME WindowAssumption == RequestLimit < Period

Document == [names : NameSets, at : Time, answer : Answers, expires : Nat]
CacheEntry == [body : Document, until : Nat]

VARIABLES
  clock,
  charged, budget,   \* the shared counters, by the start of their window
  shared,            \* the shared cache
  local,             \* the copies of each instance
  taken,             \* the slots taken of each gate
  pc,                \* what each request does next
  instance, client, asked, began,  \* where, for whom, about what, since when
  readAt, answer, until,           \* stats.ClassifiedAt, the body, its expiry
  arrived,
  admitted, paid, made, \* history: what was let in, paid for, asked upstream
  obtained, accepted    \* history: documents rendered, and taken by the store

spent   == <<charged, budget, admitted, paid, made>>
cached  == <<shared, local, obtained, accepted>>
request == <<instance, client, asked, began>>
answers == <<readAt, answer, until>>
vars    == <<clock, spent, cached, taken, pc, request, answers, arrived>>

NoCharges == [t \in Time |-> 0]

Init ==
  /\ clock = 0
  /\ charged = [c \in Clients |-> NoCharges] /\ budget = NoCharges
  /\ shared = [n \in NameSets |-> None]
  /\ local = [i \in Instances |-> [n \in NameSets |-> None]]
  /\ taken = [i \in Instances |-> 0]
  /\ pc = [r \in Requests |-> "idle"]
  /\ instance = [r \in Requests |-> None] /\ client = [r \in Requests |-> None]
  /\ asked = [r \in Requests |-> None] /\ began = [r \in Requests |-> 0]
  /\ readAt = [r \in Requests |-> 0] /\ answer = [r \in Requests |-> None]
  /\ until = [r \in Requests |-> 0]
  /\ arrived = 0
  /\ admitted = [c \in Clients |-> NoCharges] /\ paid = NoCharges /\ made = NoCharges
  /\ obtained = {} /\ accepted = {}

-----------------------------------------------------------------------------
(* Windows, and the layer of copies                                        *)

\* Window.Start: fixed windows, aligned alike on every instance.
WindowStart(t) == t - (t % Period)

\* The condition of a charge: the stored total leaves room for the whole cost.
Fits(total, cost, limit) == total <= limit - cost

\* An entry counts until its expiry, and not at it.
Fresh(entry, t) == entry # None /\ t < entry.until

Held(copies) == {n \in NameSets : copies[n] # None}

Swept(copies, t) == [n \in NameSets |-> IF Fresh(copies[n], t) THEN copies[n] ELSE None]

\* evictOldest, as often as there is no room for one more: once, because the
\* layer never holds more than its bound.
Evicted(copies) ==
  IF Cardinality(Held(copies)) < LocalEntries THEN {copies}
  ELSE {[copies EXCEPT ![n] = None] :
          n \in {m \in Held(copies) :
                   \A k \in Held(copies) : copies[m].until <= copies[k].until}}

\* Mutation: room is never made.
PutWithoutRoom(copies, n, entry, t) ==
  IF Fresh(entry, t) THEN {[copies EXCEPT ![n] = entry]} ELSE {copies}

\* Room is made only for a key that is not held: what has expired goes first.
Put(copies, n, entry, t) ==
  IF ~Fresh(entry, t) THEN {copies}
  ELSE {[room EXCEPT ![n] = entry] :
          room \in IF copies[n] # None \/ Cardinality(Held(copies)) < LocalEntries
                     THEN {copies} ELSE Evicted(Swept(copies, t))}

-----------------------------------------------------------------------------
(* Moving between steps                                                    *)

At(r, step) == pc[r] = step
Goto(r, step) == pc' = [pc EXCEPT ![r] = step]
Serving(r) == pc[r] \notin {"idle", "done"}

\* The handler returns: what it held for the request is gone with it.
Finish(r) ==
  /\ Goto(r, "done")
  /\ instance' = [instance EXCEPT ![r] = None]
  /\ client' = [client EXCEPT ![r] = None]
  /\ readAt' = [readAt EXCEPT ![r] = 0]
  /\ until' = [until EXCEPT ![r] = 0]
  /\ UNCHANGED began

Refuse(r) == Finish(r) /\ answer' = [answer EXCEPT ![r] = None] /\ UNCHANGED asked

Reply(r, body) == Finish(r) /\ answer' = [answer EXCEPT ![r] = body]

\* gate.release, deferred from the acquisition on.
Release(r) == taken' = [taken EXCEPT ![instance[r]] = IF @ = 0 THEN 0 ELSE @ - 1]

-----------------------------------------------------------------------------
(* A request                                                               *)

\* One instant is sampled for every window and every expiry of the request.
Arrive(r, i, c) ==
  /\ ~Serving(r) /\ arrived < MaxRequests /\ clock < MaxTime
  /\ Goto(r, "charge")
  /\ instance' = [instance EXCEPT ![r] = i]
  /\ client' = [client EXCEPT ![r] = c]
  /\ asked' = [asked EXCEPT ![r] = None]
  /\ began' = [began EXCEPT ![r] = clock]
  /\ answer' = [answer EXCEPT ![r] = None]
  /\ arrived' = arrived + 1
  /\ UNCHANGED <<clock, spent, cached, taken, readAt, until>>

\* The identity's allowance is charged before the body is read.
ChargeClient(r) ==
  LET c == client[r]  w == WindowStart(began[r]) IN
  /\ At(r, "charge") /\ Fits(charged[c][w], 1, ClientLimit)
  /\ charged' = [charged EXCEPT ![c][w] = @ + 1]
  /\ admitted' = [admitted EXCEPT ![c][w] = @ + 1]
  /\ Goto(r, "read")
  /\ UNCHANGED <<clock, budget, paid, made, cached, taken, request, answers, arrived>>

\* A refused charge changed nothing, and one that failed admits nobody.
ClientRefused(r) ==
  LET c == client[r]  w == WindowStart(began[r]) IN
  /\ At(r, "charge")
  /\ \/ /\ ~Fits(charged[c][w], 1, ClientLimit) \/ "store" \in Faults
        /\ UNCHANGED charged
     \/ /\ Fits(charged[c][w], 1, ClientLimit) /\ "lostReply" \in Faults
        /\ charged' = [charged EXCEPT ![c][w] = @ + 1]
  /\ Refuse(r)
  /\ UNCHANGED <<clock, budget, admitted, paid, made, cached, taken, arrived>>

\* The body is read and normalized, and the instance's own copies are asked
\* first; a copy that has expired by the request's instant is dropped.
LocalHit(r, n) ==
  LET held == local[instance[r]][n] IN
  /\ At(r, "read") /\ Fresh(held, began[r])
  /\ asked' = [asked EXCEPT ![r] = n]
  /\ Reply(r, held.body)
  /\ UNCHANGED <<clock, spent, cached, taken, arrived>>

LocalMiss(r, n) ==
  LET i == instance[r] IN
  /\ At(r, "read") /\ ~Fresh(local[i][n], began[r])
  /\ asked' = [asked EXCEPT ![r] = n]
  /\ local' = [local EXCEPT ![i][n] = None]
  /\ Goto(r, "load")
  /\ UNCHANGED <<clock, spent, shared, obtained, accepted, taken, instance, client,
                 began, answers, arrived>>

NamesRefused(r) ==
  /\ At(r, "read") /\ Refuse(r)
  /\ UNCHANGED <<clock, spent, cached, taken, arrived>>

\* Mutation: a copy taken late lives a full lifetime.
LoadHitAnew(r) ==
  LET stored == shared[asked[r]] IN
  /\ At(r, "load") /\ Fresh(stored, began[r])
  /\ answer' = [answer EXCEPT ![r] = stored.body]
  /\ until' = [until EXCEPT ![r] = began[r] + Lifetime]
  /\ Goto(r, "copyHit")
  /\ UNCHANGED <<clock, spent, cached, taken, request, readAt, arrived>>

\* A shared entry that has not expired by the request's instant is a hit, and
\* the copy will expire when it does.
LoadHit(r) ==
  LET stored == shared[asked[r]] IN
  /\ At(r, "load") /\ Fresh(stored, began[r])
  /\ answer' = [answer EXCEPT ![r] = stored.body]
  /\ until' = [until EXCEPT ![r] = stored.until]
  /\ Goto(r, "copyHit")
  /\ UNCHANGED <<clock, spent, cached, taken, request, readAt, arrived>>

LoadMiss(r) ==
  /\ At(r, "load") /\ ~Fresh(shared[asked[r]], began[r])
  /\ Goto(r, "gate")
  /\ UNCHANGED <<clock, spent, cached, taken, request, answers, arrived>>

LoadFails(r) ==
  /\ At(r, "load") /\ Faults \cap {"store", "lostReply"} # {}
  /\ Refuse(r)
  /\ UNCHANGED <<clock, spent, cached, taken, arrived>>

\* The instance keeps a copy of what the request holds.
KeepCopy(r) ==
  LET i == instance[r]  entry == [body |-> answer[r], until |-> until[r]] IN
  /\ \E copies \in Put(local[i], asked[r], entry, began[r]) :
       local' = [local EXCEPT ![i] = copies]
  /\ UNCHANGED <<shared, obtained, accepted>>

\* Another request may come between the load and the copy of what it returned.
CopyHit(r) ==
  /\ At(r, "copyHit") /\ KeepCopy(r)
  /\ Reply(r, answer[r])
  /\ UNCHANGED <<clock, spent, taken, asked, arrived>>

\* Mutation: the gate never refuses.
AcquireUnbounded(r) ==
  /\ At(r, "gate")
  /\ taken' = [taken EXCEPT ![instance[r]] = @ + 1]
  /\ Goto(r, "budget")
  /\ UNCHANGED <<clock, spent, cached, request, answers, arrived>>

\* A miss takes a slot of its instance, or is refused at once when there is none.
Acquire(r) ==
  LET i == instance[r] IN
  /\ At(r, "gate") /\ taken[i] < Slots
  /\ taken' = [taken EXCEPT ![i] = @ + 1]
  /\ Goto(r, "budget")
  /\ UNCHANGED <<clock, spent, cached, request, answers, arrived>>

UpstreamBusy(r) ==
  /\ At(r, "gate") /\ taken[instance[r]] >= Slots
  /\ Refuse(r)
  /\ UNCHANGED <<clock, spent, cached, taken, arrived>>

\* Mutation: a request is charged as one call.
ChargeBudgetOnce(r) ==
  LET w == WindowStart(began[r])  cost == Cost[asked[r]] IN
  /\ At(r, "budget") /\ Fits(budget[w], 1, UpstreamLimit)
  /\ budget' = [budget EXCEPT ![w] = @ + 1]
  /\ paid' = [paid EXCEPT ![w] = @ + cost]
  /\ Goto(r, "ask")
  /\ UNCHANGED <<clock, charged, admitted, made, cached, taken, request, answers, arrived>>

\* The budget is charged for every call before the first is made, against the
\* window the request began in.
ChargeBudget(r) ==
  LET w == WindowStart(began[r])  cost == Cost[asked[r]] IN
  /\ At(r, "budget") /\ Fits(budget[w], cost, UpstreamLimit)
  /\ budget' = [budget EXCEPT ![w] = @ + cost]
  /\ paid' = [paid EXCEPT ![w] = @ + cost]
  /\ Goto(r, "ask")
  /\ UNCHANGED <<clock, charged, admitted, made, cached, taken, request, answers, arrived>>

\* checker.Run samples an instant of its own before the first call.
Ask(r) ==
  /\ At(r, "ask")
  /\ readAt' = [readAt EXCEPT ![r] = clock]
  /\ made' = [made EXCEPT ![WindowStart(clock)] = @ + Cost[asked[r]]]
  /\ Goto(r, "upstream")
  /\ UNCHANGED <<clock, charged, budget, admitted, paid, cached, taken, request, answer,
                 until, arrived>>

\* Mutation: a refusal keeps the slot.
BudgetRefusedHolding(r) ==
  /\ At(r, "budget") /\ ~Fits(budget[WindowStart(began[r])], Cost[asked[r]], UpstreamLimit)
  /\ Refuse(r)
  /\ UNCHANGED <<clock, spent, cached, taken, arrived>>

BudgetRefused(r) ==
  LET w == WindowStart(began[r])  cost == Cost[asked[r]] IN
  /\ At(r, "budget")
  /\ \/ /\ ~Fits(budget[w], cost, UpstreamLimit) \/ "store" \in Faults
        /\ UNCHANGED budget
     \/ /\ Fits(budget[w], cost, UpstreamLimit) /\ "lostReply" \in Faults
        /\ budget' = [budget EXCEPT ![w] = @ + cost]
  /\ Refuse(r) /\ Release(r)
  /\ UNCHANGED <<clock, charged, admitted, paid, made, cached, arrived>>

\* A complete answer is rendered with the instant of the read and its expiry.
Answered(r) ==
  /\ At(r, "upstream")
  /\ \E a \in Answers :
       LET document == [names |-> asked[r], at |-> readAt[r], answer |-> a,
                        expires |-> readAt[r] + Lifetime] IN
       /\ obtained' = obtained \cup {document}
       /\ answer' = [answer EXCEPT ![r] = document]
       /\ until' = [until EXCEPT ![r] = document.expires]
  /\ Goto(r, "store")
  /\ UNCHANGED <<clock, spent, shared, local, accepted, taken, request, readAt, arrived>>

\* The read failed, or an answer about other names was refused whole.
UpstreamFails(r) ==
  /\ At(r, "upstream") /\ "upstream" \in Faults
  /\ Refuse(r) /\ Release(r)
  /\ UNCHANGED <<clock, spent, cached, arrived>>

\* The shared entry is overwritten, whatever it holds.
Accept(r) ==
  /\ shared' = [shared EXCEPT ![asked[r]] = [body |-> answer[r], until |-> until[r]]]
  /\ accepted' = accepted \cup {answer[r]}

StoreAnswer(r) ==
  /\ At(r, "store") /\ Accept(r)
  /\ Goto(r, "copy")
  /\ UNCHANGED <<clock, spent, local, obtained, taken, request, answers, arrived>>

\* Mutation: an answer the store did not take is copied all the same.
StoreFailsCopying(r) ==
  /\ At(r, "store") /\ "store" \in Faults
  /\ Goto(r, "copy")
  /\ UNCHANGED <<clock, spent, cached, taken, request, answers, arrived>>

\* A write that failed costs the cache and not the reply, and is not copied.
StoreFails(r) ==
  /\ At(r, "store")
  /\ \/ "store" \in Faults /\ UNCHANGED <<shared, accepted>>
     \/ "lostReply" \in Faults /\ Accept(r)
  /\ Reply(r, answer[r]) /\ Release(r)
  /\ UNCHANGED <<clock, spent, local, obtained, asked, arrived>>

Copy(r) ==
  /\ At(r, "copy") /\ KeepCopy(r)
  /\ Reply(r, answer[r]) /\ Release(r)
  /\ UNCHANGED <<clock, spent, asked, arrived>>

-----------------------------------------------------------------------------
(* The clock, the table's deletions and the platform                       *)

Tick ==
  /\ clock < MaxTime
  /\ \A r \in Requests : Serving(r) => clock < began[r] + RequestLimit
  /\ clock' = clock + 1
  /\ UNCHANGED <<spent, cached, taken, pc, request, answers, arrived>>

\* Mutation: a counter is kept for its own window only.
CounterEndsWithWindow(w) == w + Period <= clock

\* A counter outlives its own window by one period.
CounterExpired(w) == w + 2 * Period <= clock

DeleteCounters(w) ==
  /\ CounterExpired(w)
  /\ \/ \E c \in Clients : /\ charged[c][w] # 0
                           /\ charged' = [charged EXCEPT ![c][w] = 0]
                           /\ UNCHANGED budget
     \/ budget[w] # 0 /\ budget' = [budget EXCEPT ![w] = 0] /\ UNCHANGED charged
  /\ UNCHANGED <<clock, admitted, paid, made, cached, taken, pc, request, answers,
                 arrived>>

DeleteEntry(n) ==
  /\ shared[n] # None /\ shared[n].until <= clock
  /\ shared' = [shared EXCEPT ![n] = None]
  /\ UNCHANGED <<clock, spent, local, obtained, accepted, taken, pc, request, answers,
                 arrived>>

\* A new process starts with no copies and a whole gate; what the old one served
\* is over.
Replace(i) ==
  LET mine == {r \in Requests : instance[r] = i}
      Drop(held, nothing) == [r \in Requests |-> IF r \in mine THEN nothing ELSE held[r]] IN
  /\ "replace" \in Faults
  /\ mine # {} \/ Held(local[i]) # {}
  /\ local' = [local EXCEPT ![i] = [n \in NameSets |-> None]]
  /\ taken' = [taken EXCEPT ![i] = 0]
  /\ pc' = Drop(pc, "done") /\ answer' = Drop(answer, None)
  /\ instance' = Drop(instance, None) /\ client' = Drop(client, None)
  /\ readAt' = Drop(readAt, 0) /\ until' = Drop(until, 0)
  /\ UNCHANGED <<clock, spent, shared, obtained, accepted, asked, began, arrived>>

-----------------------------------------------------------------------------
Cached(r) ==
  \/ \E n \in NameSets : LocalHit(r, n) \/ LocalMiss(r, n)
  \/ NamesRefused(r) \/ LoadHit(r) \/ CopyHit(r) \/ LoadMiss(r) \/ LoadFails(r)

Upstream(r) ==
  \/ Acquire(r) \/ UpstreamBusy(r) \/ ChargeBudget(r) \/ BudgetRefused(r) \/ Ask(r)
  \/ Answered(r) \/ UpstreamFails(r)
  \/ StoreAnswer(r) \/ StoreFails(r) \/ Copy(r)

Step(r) == ChargeClient(r) \/ ClientRefused(r) \/ Cached(r) \/ Upstream(r)

Environment ==
  \/ Tick
  \/ \E w \in Time : DeleteCounters(w)
  \/ \E n \in NameSets : DeleteEntry(n)
  \/ \E i \in Instances : Replace(i)

Next ==
  \/ \E r \in Requests, i \in Instances, c \in Clients : Arrive(r, i, c)
  \/ \E r \in Requests : Step(r)
  \/ Environment

Spec == Init /\ [][Next]_vars

-----------------------------------------------------------------------------
(* Properties                                                              *)

Holding == {"budget", "ask", "upstream", "store", "copy"}
Steps == {"idle", "charge", "read", "load", "copyHit", "gate", "done"} \cup Holding

\* What the counters, the caches and each request hold.
TypeOK ==
  /\ clock \in Time
  /\ charged \in [Clients -> [Time -> Nat]] /\ budget \in [Time -> Nat]
  /\ shared \in [NameSets -> CacheEntry \cup {None}]
  /\ local \in [Instances -> [NameSets -> CacheEntry \cup {None}]]
  /\ taken \in [Instances -> 0 .. Slots]
  /\ pc \in [Requests -> Steps]
  /\ instance \in [Requests -> Instances \cup {None}]
  /\ client \in [Requests -> Clients \cup {None}]
  /\ asked \in [Requests -> NameSets \cup {None}]
  /\ began \in [Requests -> Time] /\ readAt \in [Requests -> Time]
  /\ answer \in [Requests -> Document \cup {None}]
  /\ until \in [Requests -> Nat]
  /\ arrived \in Nat
  /\ admitted \in [Clients -> [Time -> Nat]]
  /\ paid \in [Time -> Nat] /\ made \in [Time -> Nat]
  /\ obtained \in SUBSET Document /\ accepted \in SUBSET Document

\* No window is overspent, by whichever instances and however late its charges
\* arrive, and although the table forgets counters: what was admitted and what was
\* paid for keep to the limits.  (CheckStore.Charge)
AllowancesHold ==
  /\ \A c \in Clients, w \in Time : admitted[c][w] <= ClientLimit
  /\ \A w \in Time : paid[w] <= UpstreamLimit

\* The subgraph is never asked more than twice the limit in one window of the
\* clock: a window's own calls, and those of requests that began before it.
LoadIsBounded == \A w \in Time : made[w] <= 2 * UpstreamLimit

\* A document a client is given was read from the index for the names it asked
\* about, and had not expired when it asked, through however many caches it came.
\* (localCache.get and put; Load; Store)
RepliesAreFresh ==
  \A r \in Requests :
    At(r, "done") /\ answer[r] # None =>
      /\ answer[r].names = asked[r] /\ answer[r] \in obtained
      /\ began[r] < answer[r].expires

\* Every copy is of a document the shared cache has held, and is dropped when
\* the document says: a copy is never an answer of its own.
CopiesAreCopies ==
  \A i \in Instances, n \in NameSets :
    local[i][n] # None =>
      /\ local[i][n].body \in accepted
      /\ local[i][n].until = local[i][n].body.expires

\* A slot is taken exactly while a request that needs it is served, on every way
\* out of the handler, so the gate neither leaks nor lets in more than it has.
SlotsAreHeld ==
  \A i \in Instances :
    taken[i] = Cardinality({r \in Requests : instance[r] = i /\ pc[r] \in Holding})

\* The layer of copies keeps to its bound.
CopiesAreBounded == \A i \in Instances : Cardinality(Held(local[i])) <= LocalEntries

=============================================================================
