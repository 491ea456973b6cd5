--------------------------- MODULE FreshCheckProofs ---------------------------
(***************************************************************************)
(* The fresh-check path, for any requests, instances, clients and limits:  *)
(* types, the allowances, the slots, the copies, what a reply rests on,    *)
(* and how much the subgraph is asked.                                     *)
(***************************************************************************)
EXTENDS FreshCheck, FiniteSetTheorems, TLAPS

USE DEF vars, spent, cached, request, answers

-----------------------------------------------------------------------------
(* The inductive invariant                                                 *)

\* What a request knows at each step.
PlacedAt(r) ==
  /\ Serving(r) => instance[r] \in Instances /\ client[r] \in Clients
  /\ ~Serving(r) => instance[r] = None
  /\ pc[r] \in {"load", "copyHit", "gate"} \cup Holding => asked[r] \in NameSets
  /\ pc[r] \in {"upstream", "store", "copy"} => began[r] <= readAt[r]

Placed == \A r \in Requests : PlacedAt(r)

\* What is held before a reply is a document obtained for the names asked about,
\* and it outlives the request's instant.
AnswerIsFresh(r) ==
  /\ answer[r] \in obtained /\ answer[r].names = asked[r]
  /\ until[r] = answer[r].expires /\ began[r] < until[r]

FreshAt(r) ==
  /\ pc[r] \in {"copyHit", "store", "copy"} => AnswerIsFresh(r)
  /\ pc[r] \in {"copyHit", "copy"} => answer[r] \in accepted
  /\ At(r, "done") /\ answer[r] # None =>
       /\ answer[r].names = asked[r] /\ answer[r] \in obtained
       /\ began[r] < answer[r].expires

AnswersAreFresh == \A r \in Requests : FreshAt(r)

IsCopyFor(entry, n) ==
  entry.body \in accepted /\ entry.body.names = n /\ entry.until = entry.body.expires

CopiesAreHonest ==
  /\ accepted \subseteq obtained
  /\ \A n \in NameSets : shared[n] # None => IsCopyFor(shared[n], n)
  /\ \A i \in Instances, n \in NameSets : local[i][n] # None => IsCopyFor(local[i][n], n)

\* No request outlives its window by a whole one.
RequestsAreShort ==
  \A r \in Requests :
    Serving(r) => began[r] <= clock /\ clock <= began[r] + RequestLimit

\* A counter that still counts has every charge that was let in.
CountersCount ==
  /\ \A c \in Clients, w \in Time :
       /\ charged[c][w] <= ClientLimit
       /\ ~CounterExpired(w) => admitted[c][w] <= charged[c][w]
  /\ \A w \in Time :
       /\ budget[w] <= UpstreamLimit
       /\ ~CounterExpired(w) => paid[w] <= budget[w]

\* What the requests rely on.
Core == TypeOK /\ Placed

-----------------------------------------------------------------------------
(* Constants and windows                                                   *)

LEMMA Constants ==
  /\ ClientLimit \in Nat /\ UpstreamLimit \in Nat /\ Period \in Nat /\ Period > 0
  /\ Lifetime \in Nat /\ Lifetime > 0 /\ LocalEntries \in Nat /\ LocalEntries > 0
  /\ Slots \in Nat /\ Slots > 0
  /\ RequestLimit \in Nat /\ MaxTime \in Nat
  /\ \A n \in NameSets : Cost[n] \in Nat /\ Cost[n] > 0
  /\ \A t \in Time : t \in Nat /\ t \in Int
  /\ 0 \in Time
  <1>1. \A n \in NameSets : Cost[n] \in 1 .. UpstreamLimit
    BY CheckAssumption
  <1>2. UpstreamLimit \in Nat
    BY CheckAssumption
  <1>3. \A n \in NameSets : Cost[n] \in Nat /\ Cost[n] > 0
    BY <1>1, <1>2
  <1>4. QED
    BY <1>3, CheckAssumption DEF Time

LEMMA WindowStarts ==
  ASSUME NEW t \in Time
  PROVE  /\ WindowStart(t) \in Time
         /\ t - Period < WindowStart(t) /\ WindowStart(t) <= t
  <1>1. t \in Nat /\ Period \in Nat /\ Period > 0 /\ t <= MaxTime /\ MaxTime \in Nat
    BY Constants DEF Time
  <1>2. t % Period \in 0 .. (Period - 1)
    BY <1>1
  <1>3. t % Period <= t
    BY <1>1
  <1>4. QED
    BY <1>1, <1>2, <1>3 DEF WindowStart, Time

\* A request's own window has not been forgotten.
LEMMA WindowIsKept ==
  ASSUME TypeOK, RequestsAreShort, NEW r \in Requests, Serving(r)
  PROVE  /\ WindowStart(began[r]) \in Time /\ ~CounterExpired(WindowStart(began[r]))
  <1>1. began[r] \in Time /\ clock \in Time
    BY DEF TypeOK
  <1>2. clock <= began[r] + RequestLimit
    BY DEF RequestsAreShort
  <1>3. QED
    BY <1>1, <1>2, WindowStarts, WindowAssumption, Constants DEF CounterExpired

-----------------------------------------------------------------------------
(* Types                                                                   *)

LEMMA Steps1 ==
  /\ {"idle", "charge", "read", "load", "copyHit", "gate", "done"} \subseteq Steps
  /\ {"budget", "ask", "upstream", "store", "copy"} \subseteq Steps
  BY DEF Steps, Holding

\* What a request that is served has been given.
LEMMA ServedFields ==
  ASSUME Core, NEW r \in Requests, pc[r] \notin {"idle", "done"}
  PROVE  /\ instance[r] \in Instances /\ client[r] \in Clients
         /\ instance[r] # None
         /\ began[r] \in Time /\ WindowStart(began[r]) \in Time
         /\ until[r] \in Nat /\ readAt[r] \in Time
         /\ pc[r] \notin {"charge", "read"} => asked[r] \in NameSets /\ Cost[asked[r]] \in Nat
  <1>1. instance[r] \in Instances /\ client[r] \in Clients
    BY DEF Core, Placed, PlacedAt, Serving
  <1>2. began[r] \in Time /\ until[r] \in Nat /\ readAt[r] \in Time
    BY DEF Core, TypeOK
  <1>3. pc[r] \in Steps
    BY DEF Core, TypeOK
  <1>4. pc[r] \notin {"charge", "read"} => asked[r] \in NameSets
    BY <1>3 DEF Core, Placed, PlacedAt, Steps
  <1>5. QED
    BY <1>1, <1>2, <1>4, WindowStarts, Constants, CheckAssumption

\* A handler that returns lets go of what it held.
LEMMA FinishTypes ==
  ASSUME Core, NEW r \in Requests, Finish(r)
  PROVE  /\ pc' \in [Requests -> Steps] /\ instance' \in [Requests -> Instances \cup {None}]
         /\ client' \in [Requests -> Clients \cup {None}]
         /\ readAt' \in [Requests -> Time] /\ until' \in [Requests -> Nat]
         /\ began' \in [Requests -> Time]
  BY Steps1, Constants DEF Core, TypeOK, Finish, Goto

\* What it keeps is one of the copies the layer may hold.
LEMMA PutTypes ==
  ASSUME NEW copies \in [NameSets -> CacheEntry \cup {None}], NEW n \in NameSets,
         NEW entry \in CacheEntry, NEW t, NEW held \in Put(copies, n, entry, t)
  PROVE  held \in [NameSets -> CacheEntry \cup {None}]
  <1>1. Swept(copies, t) \in [NameSets -> CacheEntry \cup {None}]
    BY DEF Swept
  <1>2. ASSUME NEW c \in [NameSets -> CacheEntry \cup {None}], NEW e \in Evicted(c)
        PROVE  e \in [NameSets -> CacheEntry \cup {None}]
    BY DEF Evicted
  <1>3. QED
    BY <1>1, <1>2 DEF Put

LEMMA KeepCopyTypes ==
  ASSUME Core, NEW r \in Requests, pc[r] \in {"copyHit", "copy"}, answer[r] \in Document,
         KeepCopy(r)
  PROVE  local' \in [Instances -> [NameSets -> CacheEntry \cup {None}]]
  <1> DEFINE i == instance[r]
             entry == [body |-> answer[r], until |-> until[r]]
  <1>1. i \in Instances /\ asked[r] \in NameSets /\ until[r] \in Nat
    BY ServedFields
  <1>2. entry \in CacheEntry
    BY <1>1 DEF CacheEntry
  <1>3. local[i] \in [NameSets -> CacheEntry \cup {None}]
    BY <1>1 DEF Core, TypeOK
  <1>4. PICK copies \in Put(local[i], asked[r], entry, began[r]) :
          local' = [local EXCEPT ![i] = copies]
    BY DEF KeepCopy
  <1>5. copies \in [NameSets -> CacheEntry \cup {None}]
    BY <1>1, <1>2, <1>3, <1>4, PutTypes
  <1>6. QED
    BY <1>1, <1>4, <1>5 DEF Core, TypeOK

LEMMA ReleaseTypes ==
  ASSUME Core, NEW r \in Requests, instance[r] \in Instances, Release(r)
  PROVE  taken' \in [Instances -> 0 .. Slots]
  <1>1. taken[instance[r]] \in 0 .. Slots
    BY DEF Core, TypeOK
  <1>2. (IF taken[instance[r]] = 0 THEN 0 ELSE taken[instance[r]] - 1) \in 0 .. Slots
    BY <1>1, Constants
  <1>3. QED
    BY <1>2 DEF Core, TypeOK, Release

\* A counter that is charged stays a counter.
LEMMA ChargedTypes ==
  ASSUME NEW f \in [Time -> Nat], NEW w \in Time, NEW k \in Nat
  PROVE  [f EXCEPT ![w] = @ + k] \in [Time -> Nat]
  OBVIOUS

LEMMA ClearedTypes ==
  ASSUME NEW f \in [Clients -> [Time -> Nat]], NEW c \in Clients, NEW w \in Time
  PROVE  [f EXCEPT ![c][w] = 0] \in [Clients -> [Time -> Nat]]
  OBVIOUS

LEMMA ArriveTypes ==
  ASSUME Core, NEW r \in Requests, NEW i \in Instances, NEW c \in Clients, Arrive(r, i, c)
  PROVE  TypeOK'
  BY Steps1 DEF Core, TypeOK, Arrive, Goto

LEMMA ChargeTypes ==
  ASSUME Core, NEW r \in Requests, ChargeClient(r) \/ ClientRefused(r)
  PROVE  TypeOK'
  <1> DEFINE c == client[r]
             w == WindowStart(began[r])
  <1>1. At(r, "charge") /\ c \in Clients /\ w \in Time
    BY ServedFields DEF ChargeClient, ClientRefused, At
  <1> HIDE DEF c, w
  <1>2. ASSUME NEW f \in [Clients -> [Time -> Nat]]
        PROVE  [f EXCEPT ![c][w] = @ + 1] \in [Clients -> [Time -> Nat]]
    BY <1>1
  <1>3. [charged EXCEPT ![c][w] = @ + 1] \in [Clients -> [Time -> Nat]]
        /\ [admitted EXCEPT ![c][w] = @ + 1] \in [Clients -> [Time -> Nat]]
    BY <1>2 DEF Core, TypeOK
  <1>4. CASE ChargeClient(r)
    <2>1. charged' \in [Clients -> [Time -> Nat]] /\ admitted' \in [Clients -> [Time -> Nat]]
      BY <1>3, <1>4 DEF ChargeClient, c, w
    <2>2. pc' \in [Requests -> Steps]
      BY <1>4, Steps1 DEF ChargeClient, Goto, Core, TypeOK
    <2>3. QED
      BY <1>4, <2>1, <2>2 DEF ChargeClient, Core, TypeOK
  <1>5. CASE ClientRefused(r)
    <2>1. charged' \in [Clients -> [Time -> Nat]]
      BY <1>3, <1>5 DEF ClientRefused, Core, TypeOK, c, w
    <2>2. Finish(r) /\ answer' \in [Requests -> Document \cup {None}] /\ asked' = asked
      BY <1>5 DEF ClientRefused, Refuse, Core, TypeOK
    <2>3. QED
      BY <1>5, <2>1, <2>2, FinishTypes DEF ClientRefused, Core, TypeOK
  <1>6. QED
    BY <1>4, <1>5

LEMMA LocalHitTypes ==
  ASSUME Core, NEW r \in Requests, NEW n \in NameSets, LocalHit(r, n)
  PROVE  TypeOK'
  <1>1. At(r, "read") /\ instance[r] \in Instances
    BY ServedFields DEF LocalHit, At
  <1>2. local[instance[r]][n] \in CacheEntry
    BY <1>1 DEF LocalHit, Fresh, Core, TypeOK
  <1>3. local[instance[r]][n].body \in Document
    BY <1>2 DEF CacheEntry
  <1>4. Finish(r) /\ answer' \in [Requests -> Document \cup {None}]
    BY <1>3 DEF LocalHit, Reply, Core, TypeOK
  <1>5. asked' \in [Requests -> NameSets \cup {None}]
    BY DEF LocalHit, Core, TypeOK
  <1>6. QED
    BY <1>4, <1>5, FinishTypes DEF LocalHit, Core, TypeOK

LEMMA LocalMissTypes ==
  ASSUME Core, NEW r \in Requests, NEW n \in NameSets, LocalMiss(r, n)
  PROVE  TypeOK'
  <1>1. At(r, "read") /\ instance[r] \in Instances
    BY ServedFields DEF LocalMiss, At
  <1>2. local' \in [Instances -> [NameSets -> CacheEntry \cup {None}]]
    BY <1>1 DEF LocalMiss, Core, TypeOK
  <1>3. asked' \in [Requests -> NameSets \cup {None}] /\ pc' \in [Requests -> Steps]
    BY Steps1 DEF LocalMiss, Core, TypeOK, Goto
  <1>4. QED
    BY <1>2, <1>3 DEF LocalMiss, Core, TypeOK

LEMMA RefusedTypes ==
  ASSUME Core, NEW r \in Requests, NamesRefused(r) \/ UpstreamBusy(r) \/ LoadFails(r)
  PROVE  TypeOK'
  <1>1. Finish(r) /\ answer' \in [Requests -> Document \cup {None}] /\ asked' = asked
    BY DEF NamesRefused, UpstreamBusy, LoadFails, Refuse, Core, TypeOK
  <1>2. QED
    BY <1>1, FinishTypes DEF NamesRefused, UpstreamBusy, LoadFails, Core, TypeOK

LEMMA LoadHitTypes ==
  ASSUME Core, NEW r \in Requests, LoadHit(r)
  PROVE  TypeOK'
  <1>1. At(r, "load") /\ asked[r] \in NameSets
    BY ServedFields DEF LoadHit, At
  <1>2. shared[asked[r]] \in CacheEntry
    BY <1>1 DEF LoadHit, Fresh, Core, TypeOK
  <1>3. shared[asked[r]].body \in Document /\ shared[asked[r]].until \in Nat
    BY <1>2 DEF CacheEntry
  <1>4. answer' \in [Requests -> Document \cup {None}] /\ until' \in [Requests -> Nat]
    BY <1>3 DEF LoadHit, Core, TypeOK
  <1>5. pc' \in [Requests -> Steps]
    BY Steps1 DEF LoadHit, Goto, Core, TypeOK
  <1>6. QED
    BY <1>4, <1>5 DEF LoadHit, Core, TypeOK

LEMMA LoadMissTypes ==
  ASSUME Core, NEW r \in Requests, LoadMiss(r)
  PROVE  TypeOK'
  <1>1. pc' \in [Requests -> Steps]
    BY Steps1 DEF LoadMiss, Goto, Core, TypeOK
  <1>2. QED
    BY <1>1 DEF LoadMiss, Core, TypeOK

LEMMA AcquireTypes ==
  ASSUME Core, NEW r \in Requests, Acquire(r)
  PROVE  TypeOK'
  <1>1. instance[r] \in Instances
    BY ServedFields DEF Acquire, At
  <1>2. taken' \in [Instances -> 0 .. Slots]
    BY <1>1, Constants DEF Acquire, Core, TypeOK
  <1>3. pc' \in [Requests -> Steps]
    BY Steps1 DEF Acquire, Goto, Core, TypeOK
  <1>4. QED
    BY <1>2, <1>3 DEF Acquire, Core, TypeOK

LEMMA CopyHitTypes ==
  ASSUME Core, AnswersAreFresh, NEW r \in Requests, CopyHit(r)
  PROVE  TypeOK'
  <1>1. At(r, "copyHit") /\ answer[r] \in Document
    BY DEF CopyHit, At, AnswersAreFresh, FreshAt, AnswerIsFresh, Core, TypeOK
  <1>2. local' \in [Instances -> [NameSets -> CacheEntry \cup {None}]]
    BY <1>1, KeepCopyTypes DEF CopyHit, At
  <1>3. Finish(r) /\ answer' \in [Requests -> Document \cup {None}]
    BY <1>1 DEF CopyHit, Reply, Core, TypeOK
  <1>4. QED
    BY <1>2, <1>3, FinishTypes DEF CopyHit, KeepCopy, Core, TypeOK

LEMMA BudgetTypes ==
  ASSUME Core, NEW r \in Requests, ChargeBudget(r) \/ BudgetRefused(r)
  PROVE  TypeOK'
  <1> DEFINE w == WindowStart(began[r])
             cost == Cost[asked[r]]
  <1>1. At(r, "budget") /\ w \in Time /\ cost \in Nat /\ instance[r] \in Instances
    BY ServedFields DEF ChargeBudget, BudgetRefused, At
  <1> HIDE DEF cost, w
  <1>2. /\ [budget EXCEPT ![w] = @ + cost] \in [Time -> Nat]
        /\ [paid EXCEPT ![w] = @ + cost] \in [Time -> Nat]
    BY <1>1, ChargedTypes DEF Core, TypeOK
  <1>3. CASE ChargeBudget(r)
    <2>1. budget' \in [Time -> Nat] /\ paid' \in [Time -> Nat]
      BY <1>2, <1>3 DEF ChargeBudget, w, cost
    <2>2. pc' \in [Requests -> Steps]
      BY <1>3, Steps1 DEF ChargeBudget, Goto, Core, TypeOK
    <2>3. QED
      BY <1>3, <2>1, <2>2 DEF ChargeBudget, Core, TypeOK
  <1>4. CASE BudgetRefused(r)
    <2>1. budget' \in [Time -> Nat]
      BY <1>2, <1>4 DEF BudgetRefused, Core, TypeOK, w, cost
    <2>2. taken' \in [Instances -> 0 .. Slots]
      BY <1>1, <1>4, ReleaseTypes DEF BudgetRefused
    <2>3. Finish(r) /\ answer' \in [Requests -> Document \cup {None}] /\ asked' = asked
      BY <1>4 DEF BudgetRefused, Refuse, Core, TypeOK
    <2>4. QED
      BY <1>4, <2>1, <2>2, <2>3, FinishTypes DEF BudgetRefused, Core, TypeOK
  <1>5. QED
    BY <1>3, <1>4

LEMMA AskTypes ==
  ASSUME Core, NEW r \in Requests, Ask(r)
  PROVE  TypeOK'
  <1> DEFINE cost == Cost[asked[r]]
  <1>1. At(r, "ask") /\ cost \in Nat
    BY ServedFields DEF Ask, At
  <1>2. clock \in Time /\ WindowStart(clock) \in Time
    BY WindowStarts DEF Core, TypeOK
  <1> HIDE DEF cost
  <1>3. [made EXCEPT ![WindowStart(clock)] = @ + cost] \in [Time -> Nat]
    BY <1>1, <1>2, ChargedTypes DEF Core, TypeOK
  <1>4. made' \in [Time -> Nat]
    BY <1>3 DEF Ask, cost
  <1>5. readAt' \in [Requests -> Time] /\ pc' \in [Requests -> Steps]
    BY <1>2, Steps1 DEF Ask, Goto, Core, TypeOK
  <1>6. QED
    BY <1>4, <1>5 DEF Ask, Core, TypeOK

\* What a complete answer is rendered as.
Rendered(r, a) ==
  [names |-> asked[r], at |-> readAt[r], answer |-> a, expires |-> readAt[r] + Lifetime]

LEMMA RenderedFields ==
  ASSUME Core, NEW r \in Requests, At(r, "upstream"), NEW a \in Answers
  PROVE  /\ Rendered(r, a) \in Document
         /\ Rendered(r, a).names = asked[r]
         /\ Rendered(r, a).expires = readAt[r] + Lifetime
         /\ Rendered(r, a).expires \in Nat
  <1>1. asked[r] \in NameSets /\ readAt[r] \in Time
    BY ServedFields DEF At
  <1>2. readAt[r] + Lifetime \in Nat
    BY <1>1, Constants
  <1>3. QED
    BY <1>1, <1>2 DEF Document, Rendered

LEMMA AnsweredTypes ==
  ASSUME Core, NEW r \in Requests, Answered(r)
  PROVE  TypeOK'
  <1>1. PICK a \in Answers :
          /\ obtained' = obtained \cup {Rendered(r, a)}
          /\ answer' = [answer EXCEPT ![r] = Rendered(r, a)]
          /\ until' = [until EXCEPT ![r] = Rendered(r, a).expires]
    BY DEF Answered, Rendered
  <1>2. Rendered(r, a) \in Document /\ Rendered(r, a).expires \in Nat
    BY RenderedFields DEF Answered
  <1>3. /\ obtained' \in SUBSET Document /\ answer' \in [Requests -> Document \cup {None}]
        /\ until' \in [Requests -> Nat]
    BY <1>1, <1>2 DEF Core, TypeOK
  <1>4. pc' \in [Requests -> Steps]
    BY Steps1 DEF Answered, Goto, Core, TypeOK
  <1>5. QED
    BY <1>3, <1>4 DEF Answered, Core, TypeOK

LEMMA UpstreamFailsTypes ==
  ASSUME Core, NEW r \in Requests, UpstreamFails(r)
  PROVE  TypeOK'
  <1>1. taken' \in [Instances -> 0 .. Slots]
    BY ServedFields, ReleaseTypes DEF UpstreamFails, At
  <1>2. Finish(r) /\ answer' \in [Requests -> Document \cup {None}] /\ asked' = asked
    BY DEF UpstreamFails, Refuse, Core, TypeOK
  <1>3. QED
    BY <1>1, <1>2, FinishTypes DEF UpstreamFails, Core, TypeOK

\* The store takes a document that was obtained.
LEMMA AcceptTypes ==
  ASSUME Core, AnswersAreFresh, NEW r \in Requests, At(r, "store"), Accept(r)
  PROVE  /\ shared' \in [NameSets -> CacheEntry \cup {None}]
         /\ accepted' \in SUBSET Document
  <1>1. answer[r] \in Document /\ asked[r] \in NameSets /\ until[r] \in Nat
    BY ServedFields DEF At, AnswersAreFresh, FreshAt, AnswerIsFresh, Core, TypeOK
  <1>2. [body |-> answer[r], until |-> until[r]] \in CacheEntry
    BY <1>1 DEF CacheEntry
  <1>3. QED
    BY <1>1, <1>2 DEF Accept, Core, TypeOK

LEMMA StoreTypes ==
  ASSUME Core, AnswersAreFresh, NEW r \in Requests, StoreAnswer(r) \/ StoreFails(r)
  PROVE  TypeOK'
  <1>1. CASE StoreAnswer(r)
    <2>1. pc' \in [Requests -> Steps]
      BY <1>1, Steps1 DEF StoreAnswer, Goto, Core, TypeOK
    <2>2. QED
      BY <1>1, <2>1, AcceptTypes DEF StoreAnswer, Core, TypeOK
  <1>2. CASE StoreFails(r)
    <2>1. At(r, "store") /\ answer[r] \in Document /\ instance[r] \in Instances
      BY <1>2, ServedFields DEF StoreFails, At, AnswersAreFresh, FreshAt, AnswerIsFresh, Core, TypeOK
    <2>2. shared' \in [NameSets -> CacheEntry \cup {None}] /\ accepted' \in SUBSET Document
      BY <1>2, AcceptTypes DEF StoreFails, Core, TypeOK
    <2>3. taken' \in [Instances -> 0 .. Slots]
      BY <1>2, <2>1, ReleaseTypes DEF StoreFails
    <2>4. Finish(r) /\ answer' \in [Requests -> Document \cup {None}]
      BY <1>2, <2>1 DEF StoreFails, Reply, Core, TypeOK
    <2>5. QED
      BY <1>2, <2>2, <2>3, <2>4, FinishTypes DEF StoreFails, Core, TypeOK
  <1>3. QED
    BY <1>1, <1>2

LEMMA CopyTypes ==
  ASSUME Core, AnswersAreFresh, NEW r \in Requests, Copy(r)
  PROVE  TypeOK'
  <1>1. At(r, "copy") /\ answer[r] \in Document /\ instance[r] \in Instances
    BY ServedFields DEF Copy, At, AnswersAreFresh, FreshAt, AnswerIsFresh, Core, TypeOK
  <1>2. local' \in [Instances -> [NameSets -> CacheEntry \cup {None}]]
    BY <1>1, KeepCopyTypes DEF Copy, At
  <1>3. taken' \in [Instances -> 0 .. Slots]
    BY <1>1, ReleaseTypes DEF Copy
  <1>4. Finish(r) /\ answer' \in [Requests -> Document \cup {None}]
    BY <1>1 DEF Copy, Reply, Core, TypeOK
  <1>5. QED
    BY <1>2, <1>3, <1>4, FinishTypes DEF Copy, KeepCopy, Core, TypeOK

LEMMA EnvironmentTypes ==
  ASSUME Core, Environment \/ UNCHANGED vars
  PROVE  TypeOK'
  <1>1. CASE Tick
    <2>1. clock' \in Time
      BY <1>1, Constants DEF Tick, Core, TypeOK, Time
    <2>2. QED
      BY <1>1, <2>1 DEF Tick, Core, TypeOK
  <1>2. ASSUME NEW w \in Time, DeleteCounters(w) PROVE TypeOK'
    <2>1. \A c \in Clients : [charged EXCEPT ![c][w] = 0] \in [Clients -> [Time -> Nat]]
      BY <1>2, ClearedTypes DEF Core, TypeOK
    <2>2. \/ charged' = charged
          \/ \E c \in Clients : charged' = [charged EXCEPT ![c][w] = 0]
      BY <1>2 DEF DeleteCounters
    <2>3. charged' \in [Clients -> [Time -> Nat]]
      <3>1. charged \in [Clients -> [Time -> Nat]]
        BY DEF Core, TypeOK
      <3>2. QED
        BY <2>1, <2>2, <3>1
    <2>4. budget' = budget \/ budget' = [budget EXCEPT ![w] = 0]
      BY <1>2 DEF DeleteCounters
    <2>5. budget' \in [Time -> Nat]
      BY <2>4 DEF Core, TypeOK
    <2>6. QED
      BY <1>2, <2>3, <2>5 DEF DeleteCounters, Core, TypeOK
  <1>3. ASSUME NEW n \in NameSets, DeleteEntry(n) PROVE TypeOK'
    BY <1>3 DEF DeleteEntry, Core, TypeOK
  <1>4. ASSUME NEW i \in Instances, Replace(i) PROVE TypeOK'
    <2>1. /\ local' \in [Instances -> [NameSets -> CacheEntry \cup {None}]]
          /\ taken' \in [Instances -> 0 .. Slots]
      BY <1>4, Constants DEF Replace, Core, TypeOK
    <2>2. /\ pc' \in [Requests -> Steps] /\ answer' \in [Requests -> Document \cup {None}]
          /\ instance' \in [Requests -> Instances \cup {None}]
          /\ client' \in [Requests -> Clients \cup {None}]
      BY <1>4, Steps1 DEF Replace, Core, TypeOK
    <2>3. readAt' \in [Requests -> Time] /\ until' \in [Requests -> Nat]
      BY <1>4, Constants DEF Replace, Core, TypeOK
    <2>4. QED
      BY <1>4, <2>1, <2>2, <2>3 DEF Replace, Core, TypeOK
  <1>5. CASE UNCHANGED vars
    BY <1>5 DEF Core, TypeOK
  <1>6. QED
    BY <1>1, <1>2, <1>3, <1>4, <1>5 DEF Environment

LEMMA NextTypes ==
  ASSUME Core, AnswersAreFresh, [Next]_vars
  PROVE  TypeOK'
  BY ArriveTypes, ChargeTypes, LocalHitTypes, LocalMissTypes, RefusedTypes, LoadHitTypes,
     LoadMissTypes, AcquireTypes, CopyHitTypes, BudgetTypes, AskTypes, AnsweredTypes, UpstreamFailsTypes,
     StoreTypes, CopyTypes, EnvironmentTypes
  DEF Next, Step, Cached, Upstream

-----------------------------------------------------------------------------
(* Where each request is, and what it holds                                *)

\* No other request moves, and no document is forgotten.
OthersWait(r) ==
  /\ \A q \in Requests \ {r} :
       /\ pc'[q] = pc[q] /\ instance'[q] = instance[q] /\ client'[q] = client[q]
       /\ asked'[q] = asked[q] /\ began'[q] = began[q] /\ readAt'[q] = readAt[q]
       /\ answer'[q] = answer[q] /\ until'[q] = until[q]
  /\ obtained \subseteq obtained' /\ accepted \subseteq accepted'

LEMMA OthersStay ==
  ASSUME Placed, AnswersAreFresh, NEW r \in Requests, OthersWait(r),
         PlacedAt(r)', FreshAt(r)'
  PROVE  Placed' /\ AnswersAreFresh'
  <1>1. ASSUME NEW q \in Requests \ {r} PROVE PlacedAt(q)' /\ FreshAt(q)'
    <2>1. PlacedAt(q) /\ FreshAt(q)
      BY DEF Placed, AnswersAreFresh
    <2>2. PlacedAt(q)'
      BY <2>1 DEF OthersWait, PlacedAt, Serving
    <2>3. FreshAt(q)'
      BY <2>1 DEF OthersWait, FreshAt, AnswerIsFresh, At
    <2>4. QED
      BY <2>2, <2>3
  <1>2. QED
    BY <1>1 DEF Placed, AnswersAreFresh

LEMMA FinishOthers ==
  ASSUME Core, NEW r \in Requests, Finish(r)
  PROVE  /\ \A q \in Requests \ {r} :
              /\ pc'[q] = pc[q] /\ instance'[q] = instance[q] /\ client'[q] = client[q]
              /\ began'[q] = began[q] /\ readAt'[q] = readAt[q] /\ until'[q] = until[q]
         /\ pc'[r] = "done" /\ instance'[r] = None /\ began' = began
         /\ PlacedAt(r)'
  <1>1. /\ pc'[r] = "done" /\ instance'[r] = None
        /\ \A q \in Requests \ {r} :
             /\ pc'[q] = pc[q] /\ instance'[q] = instance[q] /\ client'[q] = client[q]
             /\ readAt'[q] = readAt[q] /\ until'[q] = until[q]
    BY DEF Finish, Goto, Core, TypeOK
  <1>2. PlacedAt(r)'
    BY <1>1 DEF PlacedAt, Serving, Holding
  <1>3. QED
    BY <1>1, <1>2 DEF Finish

\* A refusal says nothing.
LEMMA RefuseKeeps ==
  ASSUME Core, AnswersAreFresh, NEW r \in Requests, Refuse(r),
         obtained \subseteq obtained', accepted \subseteq accepted'
  PROVE  Placed' /\ AnswersAreFresh'
  <1>1. Finish(r) /\ answer' = [answer EXCEPT ![r] = None] /\ asked' = asked
    BY DEF Refuse
  <1>2. pc'[r] = "done" /\ answer'[r] = None
    BY <1>1, FinishOthers DEF Core, TypeOK
  <1>3. FreshAt(r)'
    BY <1>2 DEF FreshAt, At
  <1>4. OthersWait(r)
    BY <1>1, FinishOthers DEF OthersWait, Core, TypeOK
  <1>5. QED
    BY <1>1, <1>3, <1>4, FinishOthers, OthersStay DEF Core

\* A reply that is fresh when it is given stays so.
LEMMA ReplyKeeps ==
  ASSUME Core, AnswersAreFresh, NEW r \in Requests, NEW d, Reply(r, d),
         asked' \in [Requests -> NameSets \cup {None}],
         \A q \in Requests \ {r} : asked'[q] = asked[q],
         d \in obtained, d.names = asked'[r], began[r] < d.expires,
         obtained \subseteq obtained', accepted \subseteq accepted'
  PROVE  Placed' /\ AnswersAreFresh'
  <1>1. Finish(r) /\ answer' = [answer EXCEPT ![r] = d]
    BY DEF Reply
  <1>2. pc'[r] = "done" /\ answer'[r] = d /\ began'[r] = began[r]
    BY <1>1, FinishOthers DEF Core, TypeOK
  <1>3. FreshAt(r)'
    BY <1>2 DEF FreshAt, At
  <1>4. OthersWait(r)
    BY <1>1, FinishOthers DEF OthersWait, Core, TypeOK
  <1>5. QED
    BY <1>1, <1>3, <1>4, FinishOthers, OthersStay DEF Core

\* A request that goes on from a step where it holds no answer to another one.
LEMMA GotoKeeps ==
  ASSUME Core, AnswersAreFresh, NEW r \in Requests, NEW step,
         Goto(r, step), OthersWait(r), PlacedAt(r)',
         step \in {"charge", "read", "load", "gate", "budget", "ask", "upstream"}
  PROVE  Placed' /\ AnswersAreFresh'
  <1>1. pc'[r] = step
    BY DEF Goto, Core, TypeOK
  <1>2. FreshAt(r)'
    BY <1>1 DEF FreshAt, At
  <1>3. QED
    BY <1>2, OthersStay DEF Core

LEMMA ArriveKeeps ==
  ASSUME Core, AnswersAreFresh, NEW r \in Requests, NEW i \in Instances, NEW c \in Clients,
         Arrive(r, i, c)
  PROVE  Placed' /\ AnswersAreFresh'
  <1>1. OthersWait(r)
    BY DEF Arrive, Goto, OthersWait, Core, TypeOK
  <1>2. pc'[r] = "charge" /\ instance'[r] = i /\ client'[r] = c
    BY DEF Arrive, Goto, Core, TypeOK
  <1>3. PlacedAt(r)'
    BY <1>2 DEF PlacedAt, Serving, Holding
  <1>4. QED
    BY <1>1, <1>3, GotoKeeps DEF Arrive

LEMMA ChargeKeeps ==
  ASSUME Core, AnswersAreFresh, NEW r \in Requests, ChargeClient(r) \/ ClientRefused(r)
  PROVE  Placed' /\ AnswersAreFresh'
  <1>1. CASE ChargeClient(r)
    <2>1. OthersWait(r) /\ pc'[r] = "read"
      BY <1>1 DEF ChargeClient, Goto, OthersWait, Core, TypeOK
    <2>2. instance[r] \in Instances /\ client[r] \in Clients
      BY <1>1, ServedFields DEF ChargeClient, At
    <2>3. PlacedAt(r)'
      BY <1>1, <2>1, <2>2 DEF ChargeClient, PlacedAt, Serving, Holding
    <2>4. QED
      BY <1>1, <2>1, <2>3, GotoKeeps DEF ChargeClient
  <1>2. CASE ClientRefused(r)
    BY <1>2, RefuseKeeps DEF ClientRefused
  <1>3. QED
    BY <1>1, <1>2

LEMMA LocalHitKeeps ==
  ASSUME Core, AnswersAreFresh, CopiesAreHonest, NEW r \in Requests, NEW n \in NameSets,
         LocalHit(r, n)
  PROVE  Placed' /\ AnswersAreFresh'
  <1> DEFINE held == local[instance[r]][n]
  <1>1. instance[r] \in Instances
    BY ServedFields DEF LocalHit, At
  <1>2. IsCopyFor(held, n) /\ began[r] < held.until
    BY <1>1 DEF LocalHit, Fresh, CopiesAreHonest
  <1>3. /\ held.body \in obtained /\ held.body.names = n /\ began[r] < held.body.expires
    BY <1>2 DEF IsCopyFor, CopiesAreHonest
  <1>4. /\ asked' \in [Requests -> NameSets \cup {None}]
        /\ \A q \in Requests \ {r} : asked'[q] = asked[q]
        /\ asked'[r] = n
    BY DEF LocalHit, Core, TypeOK
  <1>5. Reply(r, held.body) /\ obtained' = obtained /\ accepted' = accepted
    BY DEF LocalHit
  <1> HIDE DEF held
  <1>6. QED
    BY <1>3, <1>4, <1>5, ReplyKeeps

LEMMA LocalMissKeeps ==
  ASSUME Core, AnswersAreFresh, NEW r \in Requests, NEW n \in NameSets, LocalMiss(r, n)
  PROVE  Placed' /\ AnswersAreFresh'
  <1>1. OthersWait(r) /\ pc'[r] = "load" /\ asked'[r] = n
    BY DEF LocalMiss, Goto, OthersWait, Core, TypeOK
  <1>2. instance[r] \in Instances /\ client[r] \in Clients
    BY ServedFields DEF LocalMiss, At
  <1>3. PlacedAt(r)'
    BY <1>1, <1>2 DEF LocalMiss, PlacedAt, Serving, Holding
  <1>4. QED
    BY <1>1, <1>3, GotoKeeps DEF LocalMiss

LEMMA LoadHitKeeps ==
  ASSUME Core, AnswersAreFresh, CopiesAreHonest, NEW r \in Requests, LoadHit(r)
  PROVE  Placed' /\ AnswersAreFresh'
  <1> DEFINE stored == shared[asked[r]]
  <1>1. /\ asked[r] \in NameSets /\ instance[r] \in Instances /\ client[r] \in Clients
    BY ServedFields DEF LoadHit, At
  <1>2. IsCopyFor(stored, asked[r]) /\ began[r] < stored.until
    BY <1>1 DEF LoadHit, Fresh, CopiesAreHonest
  <1>3. /\ stored.body \in obtained /\ stored.body \in accepted
        /\ stored.body.names = asked[r] /\ stored.until = stored.body.expires
    BY <1>2 DEF IsCopyFor, CopiesAreHonest
  <1>4. OthersWait(r) /\ pc'[r] = "copyHit"
    BY DEF LoadHit, Goto, OthersWait, Core, TypeOK
  <1>5. answer'[r] = stored.body /\ until'[r] = stored.until
    BY DEF LoadHit, Core, TypeOK
  <1>6. UNCHANGED <<asked, began, obtained, accepted, instance, client>>
    BY DEF LoadHit
  <1> HIDE DEF stored
  <1>7. PlacedAt(r)'
    BY <1>1, <1>4, <1>6 DEF PlacedAt, Serving, Holding
  <1>8. FreshAt(r)'
    BY <1>2, <1>3, <1>4, <1>5, <1>6 DEF FreshAt, AnswerIsFresh, At
  <1>9. QED
    BY <1>4, <1>7, <1>8, OthersStay DEF Core

LEMMA LoadMissKeeps ==
  ASSUME Core, AnswersAreFresh, NEW r \in Requests, LoadMiss(r) \/ Acquire(r) \/ ChargeBudget(r)
  PROVE  Placed' /\ AnswersAreFresh'
  <1>1. OthersWait(r)
    BY DEF LoadMiss, Acquire, ChargeBudget, Goto, OthersWait, Core, TypeOK
  <1>2. PICK step \in {"gate", "budget", "ask"} : Goto(r, step) /\ pc'[r] = step
    BY DEF LoadMiss, Acquire, ChargeBudget, Goto, Core, TypeOK
  <1>3. instance[r] \in Instances /\ client[r] \in Clients /\ asked[r] \in NameSets
    BY ServedFields DEF LoadMiss, Acquire, ChargeBudget, At
  <1>4. PlacedAt(r)'
    BY <1>2, <1>3 DEF LoadMiss, Acquire, ChargeBudget, PlacedAt, Serving
  <1>5. QED
    BY <1>1, <1>2, <1>4, GotoKeeps

LEMMA AskKeeps ==
  ASSUME Core, AnswersAreFresh, RequestsAreShort, NEW r \in Requests, Ask(r)
  PROVE  Placed' /\ AnswersAreFresh'
  <1>1. OthersWait(r) /\ pc'[r] = "upstream" /\ readAt'[r] = clock
    BY DEF Ask, Goto, OthersWait, Core, TypeOK
  <1>2. instance[r] \in Instances /\ client[r] \in Clients /\ asked[r] \in NameSets
    BY ServedFields DEF Ask, At
  <1>3. began[r] <= clock
    BY DEF Ask, At, RequestsAreShort, Serving
  <1>4. PlacedAt(r)'
    BY <1>1, <1>2, <1>3 DEF Ask, PlacedAt, Serving
  <1>5. QED
    BY <1>1, <1>4, GotoKeeps DEF Ask

LEMMA AnsweredKeeps ==
  ASSUME Core, AnswersAreFresh, NEW r \in Requests, Answered(r)
  PROVE  Placed' /\ AnswersAreFresh'
  <1>1. PICK a \in Answers :
          /\ obtained' = obtained \cup {Rendered(r, a)}
          /\ answer' = [answer EXCEPT ![r] = Rendered(r, a)]
          /\ until' = [until EXCEPT ![r] = Rendered(r, a).expires]
    BY DEF Answered, Rendered
  <1>2. /\ instance[r] \in Instances /\ client[r] \in Clients /\ asked[r] \in NameSets
        /\ readAt[r] \in Nat /\ began[r] \in Nat
    BY ServedFields, Constants DEF Answered, At
  <1>3. began[r] <= readAt[r]
    BY DEF Answered, At, Core, Placed, PlacedAt
  <1>4. /\ Rendered(r, a).names = asked[r]
        /\ Rendered(r, a).expires = readAt[r] + Lifetime
    BY RenderedFields DEF Answered
  <1>5. began[r] < Rendered(r, a).expires
    BY <1>2, <1>3, <1>4, Constants
  <1>6. OthersWait(r) /\ pc'[r] = "store"
    BY <1>1 DEF Answered, Goto, OthersWait, Core, TypeOK
  <1>7. answer'[r] = Rendered(r, a) /\ until'[r] = Rendered(r, a).expires
    BY <1>1 DEF Core, TypeOK
  <1>8. UNCHANGED <<asked, began, readAt, instance, client>>
    BY DEF Answered
  <1>9. PlacedAt(r)'
    BY <1>2, <1>3, <1>6, <1>8 DEF PlacedAt, Serving
  <1>10. FreshAt(r)'
    BY <1>1, <1>4, <1>5, <1>6, <1>7, <1>8 DEF FreshAt, AnswerIsFresh, At
  <1>11. QED
    BY <1>6, <1>9, <1>10, OthersStay DEF Core

\* What a request holds when it replies.
LEMMA HeldAnswer ==
  ASSUME Core, AnswersAreFresh, NEW r \in Requests, pc[r] \in {"copyHit", "store", "copy"}
  PROVE  /\ answer[r] \in obtained /\ answer[r].names = asked[r]
         /\ until[r] = answer[r].expires /\ began[r] < answer[r].expires
         /\ pc[r] # "store" => answer[r] \in accepted
  BY DEF AnswersAreFresh, FreshAt, AnswerIsFresh

LEMMA CopyKeeps ==
  ASSUME Core, AnswersAreFresh, NEW r \in Requests,
         CopyHit(r) \/ Copy(r) \/ StoreFails(r)
  PROVE  Placed' /\ AnswersAreFresh'
  <1>1. pc[r] \in {"copyHit", "store", "copy"}
    BY DEF CopyHit, Copy, StoreFails, At
  <1>2. Reply(r, answer[r]) /\ asked' = asked /\ obtained' = obtained
    BY DEF CopyHit, Copy, StoreFails, KeepCopy
  <1>3. accepted \subseteq accepted'
    BY DEF CopyHit, Copy, StoreFails, KeepCopy, Accept
  <1>4. asked' \in [Requests -> NameSets \cup {None}]
    BY <1>2 DEF Core, TypeOK
  <1>5. QED
    BY <1>1, <1>2, <1>3, <1>4, HeldAnswer, ReplyKeeps

LEMMA StoreKeeps ==
  ASSUME Core, AnswersAreFresh, NEW r \in Requests, StoreAnswer(r)
  PROVE  Placed' /\ AnswersAreFresh'
  <1>1. OthersWait(r) /\ pc'[r] = "copy"
    BY DEF StoreAnswer, Accept, Goto, OthersWait, Core, TypeOK
  <1>2. pc[r] = "store" /\ answer[r] \in accepted'
    BY DEF StoreAnswer, Accept, At
  <1>3. UNCHANGED <<asked, began, readAt, instance, client, answer, until, obtained>>
    BY DEF StoreAnswer
  <1>4. PlacedAt(r) /\ FreshAt(r)
    BY DEF Core, Placed, AnswersAreFresh
  <1>5. PlacedAt(r)'
    BY <1>1, <1>2, <1>3, <1>4 DEF PlacedAt, Serving, Holding
  <1>6. FreshAt(r)'
    BY <1>1, <1>2, <1>3, <1>4 DEF FreshAt, AnswerIsFresh, At
  <1>7. QED
    BY <1>1, <1>5, <1>6, OthersStay DEF Core

LEMMA RefusedKeeps ==
  ASSUME Core, AnswersAreFresh, NEW r \in Requests,
         NamesRefused(r) \/ UpstreamBusy(r) \/ LoadFails(r) \/ BudgetRefused(r)
           \/ UpstreamFails(r)
  PROVE  Placed' /\ AnswersAreFresh'
  <1>1. Refuse(r) /\ UNCHANGED <<obtained, accepted>>
    BY DEF NamesRefused, UpstreamBusy, LoadFails, BudgetRefused, UpstreamFails
  <1>2. QED
    BY <1>1, RefuseKeeps

LEMMA EnvironmentKeeps ==
  ASSUME Core, AnswersAreFresh, Environment \/ UNCHANGED vars
  PROVE  Placed' /\ AnswersAreFresh'
  <1>1. CASE UNCHANGED <<pc, request, answers, obtained, accepted>>
    BY <1>1 DEF Core, Placed, PlacedAt, AnswersAreFresh, FreshAt, AnswerIsFresh, At, Serving
  <1>2. ASSUME NEW i \in Instances, Replace(i) PROVE Placed' /\ AnswersAreFresh'
    <2>1. ASSUME NEW r \in Requests, instance[r] = i PROVE PlacedAt(r)' /\ FreshAt(r)'
      <3>1. pc'[r] = "done" /\ instance'[r] = None /\ answer'[r] = None
        BY <1>2, <2>1 DEF Replace
      <3>2. QED
        BY <3>1 DEF PlacedAt, FreshAt, At, Serving, Holding
    <2>2. ASSUME NEW r \in Requests, instance[r] # i PROVE PlacedAt(r)' /\ FreshAt(r)'
      <3>1. /\ pc'[r] = pc[r] /\ instance'[r] = instance[r] /\ client'[r] = client[r]
            /\ answer'[r] = answer[r] /\ readAt'[r] = readAt[r] /\ until'[r] = until[r]
            /\ UNCHANGED <<asked, began, obtained, accepted>>
        BY <1>2, <2>2 DEF Replace
      <3>2. PlacedAt(r) /\ FreshAt(r)
        BY DEF Core, Placed, AnswersAreFresh
      <3>3. QED
        BY <3>1, <3>2 DEF PlacedAt, FreshAt, AnswerIsFresh, At, Serving
    <2>3. QED
      BY <2>1, <2>2 DEF Placed, AnswersAreFresh
  <1>3. QED
    BY <1>1, <1>2 DEF Environment, Tick, DeleteCounters, DeleteEntry

LEMMA NextKeeps ==
  ASSUME Core, AnswersAreFresh, CopiesAreHonest, RequestsAreShort, [Next]_vars
  PROVE  Placed' /\ AnswersAreFresh'
  BY ArriveKeeps, ChargeKeeps, LocalHitKeeps, LocalMissKeeps, LoadHitKeeps, LoadMissKeeps,
     AskKeeps, AnsweredKeeps, CopyKeeps, StoreKeeps, RefusedKeeps, EnvironmentKeeps
  DEF Next, Step, Cached, Upstream

-----------------------------------------------------------------------------
(* The caches                                                              *)

\* Putting an entry leaves every other as it was, or drops it.
LEMMA PutEntries ==
  ASSUME NEW copies \in [NameSets -> CacheEntry \cup {None}], NEW n \in NameSets,
         NEW entry, NEW t, NEW held \in Put(copies, n, entry, t), NEW m \in NameSets
  PROVE  held[m] = copies[m] \/ held[m] = None \/ (m = n /\ held[m] = entry)
  <1>1. \A k \in NameSets : Swept(copies, t)[k] \in {copies[k], None}
    BY DEF Swept
  <1>2. Swept(copies, t) \in [NameSets -> CacheEntry \cup {None}]
    BY DEF Swept
  <1>3. ASSUME NEW c \in [NameSets -> CacheEntry \cup {None}], NEW e \in Evicted(c)
        PROVE  e \in [NameSets -> CacheEntry \cup {None}]
               /\ \A k \in NameSets : e[k] \in {c[k], None}
    BY DEF Evicted
  <1>4. CASE held = copies
    BY <1>4
  <1>5. CASE held # copies
    <2>1. PICK room \in [NameSets -> CacheEntry \cup {None}] :
            /\ held = [room EXCEPT ![n] = entry]
            /\ \A k \in NameSets : room[k] \in {copies[k], None}
      <3>1. PICK room \in IF copies[n] # None \/ Cardinality(Held(copies)) < LocalEntries
                            THEN {copies} ELSE Evicted(Swept(copies, t)) :
              held = [room EXCEPT ![n] = entry]
        BY <1>5 DEF Put
      <3>2. CASE room = copies
        BY <3>1, <3>2
      <3>3. CASE room \in Evicted(Swept(copies, t))
        <4>1. room \in [NameSets -> CacheEntry \cup {None}]
              /\ \A k \in NameSets : room[k] \in {Swept(copies, t)[k], None}
          BY <1>2, <1>3, <3>3
        <4>2. QED
          BY <1>1, <3>1, <4>1
      <3>4. QED
        BY <3>1, <3>2, <3>3
    <2>2. QED
      BY <2>1
  <1>6. QED
    BY <1>4, <1>5

\* The copy an instance keeps is one of what its request holds.
LEMMA KeepCopyHonest ==
  ASSUME Core, AnswersAreFresh, CopiesAreHonest, NEW r \in Requests,
         pc[r] \in {"copyHit", "copy"}, KeepCopy(r)
  PROVE  CopiesAreHonest'
  <1> DEFINE i == instance[r]
             entry == [body |-> answer[r], until |-> until[r]]
  <1>1. i \in Instances /\ asked[r] \in NameSets
    BY ServedFields
  <1>2. IsCopyFor(entry, asked[r])
    BY HeldAnswer DEF IsCopyFor
  <1>3. PICK copies \in Put(local[i], asked[r], entry, began[r]) :
          local' = [local EXCEPT ![i] = copies]
    BY DEF KeepCopy
  <1>4. UNCHANGED <<shared, obtained, accepted>>
    BY DEF KeepCopy
  <1>5. local[i] \in [NameSets -> CacheEntry \cup {None}]
    BY <1>1 DEF Core, TypeOK
  <1> HIDE DEF entry
  <1>6. \A m \in NameSets :
          copies[m] = local[i][m] \/ copies[m] = None
            \/ (m = asked[r] /\ copies[m] = entry)
    BY <1>1, <1>3, <1>5, PutEntries
  <1>7. \A m \in NameSets : copies[m] # None => IsCopyFor(copies[m], m)
    BY <1>1, <1>2, <1>6 DEF CopiesAreHonest
  <1>8. \A j \in Instances : local'[j] = IF j = i THEN copies ELSE local[j]
    BY <1>1, <1>3 DEF Core, TypeOK
  <1>9. \A j \in Instances, m \in NameSets :
          local'[j][m] # None => IsCopyFor(local'[j][m], m)
    BY <1>7, <1>8 DEF CopiesAreHonest
  <1>10. QED
    BY <1>4, <1>9 DEF CopiesAreHonest, IsCopyFor

LEMMA AcceptHonest ==
  ASSUME Core, AnswersAreFresh, CopiesAreHonest, NEW r \in Requests, At(r, "store"),
         Accept(r), UNCHANGED <<local, obtained>>
  PROVE  CopiesAreHonest'
  <1>1. asked[r] \in NameSets
    BY ServedFields DEF At
  <1>2. /\ answer[r] \in obtained /\ answer[r].names = asked[r]
        /\ until[r] = answer[r].expires
    BY HeldAnswer DEF At
  <1>3. accepted' = accepted \cup {answer[r]}
    BY DEF Accept
  <1>4. \A n \in NameSets :
          shared'[n] = IF n = asked[r] THEN [body |-> answer[r], until |-> until[r]]
                       ELSE shared[n]
    BY <1>1 DEF Accept, Core, TypeOK
  <1>5. \A n \in NameSets :
          shared'[n] # None =>
            /\ shared'[n].body \in accepted' /\ shared'[n].body.names = n
            /\ shared'[n].until = shared'[n].body.expires
    <2>1. SUFFICES ASSUME NEW n \in NameSets, shared'[n] # None
                   PROVE  /\ shared'[n].body \in accepted' /\ shared'[n].body.names = n
                          /\ shared'[n].until = shared'[n].body.expires
      OBVIOUS
    <2>2. CASE n = asked[r]
      BY <1>2, <1>3, <1>4, <2>2
    <2>3. CASE n # asked[r]
      BY <1>3, <1>4, <2>1, <2>3 DEF CopiesAreHonest, IsCopyFor
    <2>4. QED
      BY <2>2, <2>3
  <1>6. QED
    BY <1>2, <1>3, <1>5 DEF CopiesAreHonest, IsCopyFor

LEMMA NextHonest ==
  ASSUME Core, AnswersAreFresh, CopiesAreHonest, [Next]_vars
  PROVE  CopiesAreHonest'
  <1>1. CASE UNCHANGED <<shared, local, accepted>> /\ obtained \subseteq obtained'
    BY <1>1 DEF CopiesAreHonest, IsCopyFor
  <1>2. ASSUME NEW r \in Requests, NEW n \in NameSets, LocalMiss(r, n)
        PROVE  CopiesAreHonest'
    <2>1. \A j \in Instances, m \in NameSets : local'[j][m] \in {local[j][m], None}
      BY <1>2 DEF LocalMiss, Core, TypeOK
    <2>2. QED
      BY <1>2, <2>1 DEF LocalMiss, CopiesAreHonest, IsCopyFor
  <1>3. ASSUME NEW r \in Requests, CopyHit(r) \/ Copy(r) PROVE CopiesAreHonest'
    BY <1>3, KeepCopyHonest DEF CopyHit, Copy, At
  <1>4. ASSUME NEW r \in Requests, StoreAnswer(r) \/ StoreFails(r) PROVE CopiesAreHonest'
    <2>1. CASE Accept(r)
      BY <1>4, <2>1, AcceptHonest DEF StoreAnswer, StoreFails
    <2>2. CASE ~Accept(r)
      BY <1>1, <1>4, <2>2 DEF StoreAnswer, StoreFails
    <2>3. QED
      BY <2>1, <2>2
  <1>5. ASSUME NEW n \in NameSets, DeleteEntry(n) PROVE CopiesAreHonest'
    <2>1. \A m \in NameSets : shared'[m] \in {shared[m], None}
      BY <1>5 DEF DeleteEntry, Core, TypeOK
    <2>2. QED
      BY <1>5, <2>1 DEF DeleteEntry, CopiesAreHonest, IsCopyFor
  <1>6. ASSUME NEW i \in Instances, Replace(i) PROVE CopiesAreHonest'
    <2>1. \A j \in Instances, m \in NameSets : local'[j][m] \in {local[j][m], None}
      BY <1>6 DEF Replace, Core, TypeOK
    <2>2. QED
      BY <1>6, <2>1 DEF Replace, CopiesAreHonest, IsCopyFor
  <1>7. QED
    BY <1>1, <1>2, <1>3, <1>4, <1>5, <1>6, ZenonT(30)
    DEF Next, Step, Cached, Upstream, Environment, Arrive, ChargeClient, ClientRefused,
        LocalHit, NamesRefused, LoadHit, LoadFails, LoadMiss, Acquire, UpstreamBusy, ChargeBudget,
        BudgetRefused, Ask, Answered, UpstreamFails, Tick, DeleteCounters

\* One element more makes a set larger by one at most.
LEMMA OneMore ==
  ASSUME NEW S, IsFiniteSet(S), NEW x, NEW T \in SUBSET (S \cup {x})
  PROVE  Cardinality(T) <= Cardinality(S) + 1 /\ Cardinality(T) \in Nat
  <1>1. /\ IsFiniteSet(S \cup {x}) /\ Cardinality(S) \in Nat
        /\ Cardinality(S \cup {x}) = Cardinality(S) \/ Cardinality(S \cup {x}) = Cardinality(S) + 1
    BY FS_AddElement, FS_CardinalityType
  <1>2. /\ IsFiniteSet(T) /\ Cardinality(T) <= Cardinality(S \cup {x})
    BY <1>1, FS_Subset
  <1>3. Cardinality(T) \in Nat
    BY <1>2, FS_CardinalityType
  <1>4. QED
    BY <1>1, <1>2, <1>3

\* The layer's bound, of one instance's copies.
LEMMA PutBound ==
  ASSUME NEW copies \in [NameSets -> CacheEntry \cup {None}], NEW n \in NameSets,
         NEW entry, NEW t, NEW held \in Put(copies, n, entry, t),
         Cardinality(Held(copies)) <= LocalEntries
  PROVE  Cardinality(Held(held)) <= LocalEntries
  <1>1. IsFiniteSet(NameSets) /\ LocalEntries \in Nat /\ LocalEntries > 0
    BY CheckAssumption, Constants
  <1>2. ASSUME NEW c \in [NameSets -> CacheEntry \cup {None}]
        PROVE  IsFiniteSet(Held(c)) /\ Cardinality(Held(c)) \in Nat /\ Held(c) \subseteq NameSets
    BY <1>1, FS_Subset, FS_CardinalityType DEF Held
  <1>3. ASSUME NEW c \in [NameSets -> CacheEntry \cup {None}],
               Cardinality(Held(c)) < LocalEntries
        PROVE  Cardinality(Held([c EXCEPT ![n] = entry])) <= LocalEntries
    <2>1. Held([c EXCEPT ![n] = entry]) \subseteq Held(c) \cup {n}
      BY DEF Held
    <2>2. /\ Cardinality(Held([c EXCEPT ![n] = entry])) <= Cardinality(Held(c)) + 1
          /\ Cardinality(Held([c EXCEPT ![n] = entry])) \in Nat
      BY <1>2, <2>1, OneMore
    <2>3. QED
      BY <1>1, <1>2, <1>3, <2>2
  <1>4. CASE held = copies
    BY <1>4
  <1>5. ASSUME copies[n] # None, held = [copies EXCEPT ![n] = entry]
        PROVE  Cardinality(Held(held)) <= LocalEntries
    <2>1. Held(held) \subseteq Held(copies)
      BY <1>5 DEF Held
    <2>2. Cardinality(Held(held)) <= Cardinality(Held(copies))
          /\ Cardinality(Held(held)) \in Nat
      BY <1>2, <2>1, FS_Subset, FS_CardinalityType
    <2>3. QED
      BY <1>1, <1>2, <2>2
  <1>6. ASSUME NEW room \in Evicted(Swept(copies, t))
        PROVE  room \in [NameSets -> CacheEntry \cup {None}]
               /\ Cardinality(Held(room)) < LocalEntries
    <2> DEFINE swept == Swept(copies, t)
    <2>1. swept \in [NameSets -> CacheEntry \cup {None}] /\ Held(swept) \subseteq Held(copies)
      BY DEF Swept, Held
    <2>2. Cardinality(Held(swept)) <= LocalEntries /\ Cardinality(Held(swept)) \in Nat
      BY <1>1, <1>2, <2>1, FS_Subset
    <2>3. CASE Cardinality(Held(swept)) < LocalEntries
      BY <1>6, <2>1, <2>3 DEF Evicted
    <2>4. CASE ~(Cardinality(Held(swept)) < LocalEntries)
      <3>1. PICK m \in Held(swept) : room = [swept EXCEPT ![m] = None]
        BY <1>6, <2>4 DEF Evicted
      <3>2. room \in [NameSets -> CacheEntry \cup {None}] /\ m \in NameSets
        BY <2>1, <3>1 DEF Held
      <3>3. Held(room) = Held(swept) \ {m}
        BY <2>1, <3>1, <3>2 DEF Held
      <3>4. Cardinality(Held(room)) = Cardinality(Held(swept)) - 1
        <4>1. IsFiniteSet(Held(swept)) /\ m \in Held(swept)
          BY <1>2, <2>1, <3>1
        <4> HIDE DEF swept
        <4>2. QED
          BY <3>3, <4>1, FS_RemoveElement
      <3>5. QED
        BY <1>1, <2>2, <3>2, <3>4
    <2>5. QED
      BY <2>3, <2>4
  <1>7. QED
    BY <1>3, <1>4, <1>5, <1>6 DEF Put

LEMMA KeepCopyBound ==
  ASSUME Core, CopiesAreBounded, NEW r \in Requests, pc[r] \in {"copyHit", "copy"},
         KeepCopy(r)
  PROVE  CopiesAreBounded'
  <1> DEFINE i == instance[r]
  <1>1. i \in Instances /\ asked[r] \in NameSets
    BY ServedFields
  <1>2. PICK copies \in Put(local[i], asked[r],
                            [body |-> answer[r], until |-> until[r]], began[r]) :
          local' = [local EXCEPT ![i] = copies]
    BY DEF KeepCopy
  <1>3. local[i] \in [NameSets -> CacheEntry \cup {None}]
        /\ Cardinality(Held(local[i])) <= LocalEntries
    BY <1>1 DEF Core, TypeOK, CopiesAreBounded
  <1>4. Cardinality(Held(copies)) <= LocalEntries
    BY <1>1, <1>2, <1>3, PutBound
  <1>5. \A j \in Instances : local'[j] = IF j = i THEN copies ELSE local[j]
    BY <1>1, <1>2 DEF Core, TypeOK
  <1>6. QED
    BY <1>4, <1>5 DEF CopiesAreBounded

\* A copy that is dropped makes room.
LEMMA DroppedBound ==
  ASSUME Core, CopiesAreBounded,
         \A j \in Instances : /\ local'[j] \in [NameSets -> CacheEntry \cup {None}]
                              /\ Held(local'[j]) \subseteq Held(local[j])
  PROVE  CopiesAreBounded'
  <1>1. SUFFICES ASSUME NEW j \in Instances
                 PROVE  Cardinality(Held(local'[j])) <= LocalEntries
    BY DEF CopiesAreBounded
  <1>2. IsFiniteSet(Held(local[j])) /\ Held(local'[j]) \subseteq Held(local[j])
    BY CheckAssumption, FS_Subset DEF Held
  <1>3. Cardinality(Held(local'[j])) <= Cardinality(Held(local[j]))
        /\ Cardinality(Held(local'[j])) \in Nat /\ Cardinality(Held(local[j])) \in Nat
    BY <1>2, FS_Subset, FS_CardinalityType
  <1>4. Cardinality(Held(local[j])) <= LocalEntries
    BY DEF CopiesAreBounded
  <1>5. QED
    BY <1>3, <1>4, Constants

LEMMA NextBound ==
  ASSUME Core, CopiesAreBounded, TypeOK', [Next]_vars
  PROVE  CopiesAreBounded'
  <1>1. CASE UNCHANGED local
    BY <1>1 DEF CopiesAreBounded, Held
  <1>2. ASSUME NEW r \in Requests, CopyHit(r) \/ Copy(r) PROVE CopiesAreBounded'
    BY <1>2, KeepCopyBound DEF CopyHit, Copy, At
  <1>3. \A j \in Instances : local'[j] \in [NameSets -> CacheEntry \cup {None}]
    BY DEF TypeOK
  <1>4. ASSUME NEW r \in Requests, NEW n \in NameSets, LocalMiss(r, n)
        PROVE  CopiesAreBounded'
    <2>1. \A j \in Instances : Held(local'[j]) \subseteq Held(local[j])
      BY <1>4 DEF LocalMiss, Held, Core, TypeOK
    <2>2. QED
      BY <1>3, <2>1, DroppedBound
  <1>5. ASSUME NEW i \in Instances, Replace(i) PROVE CopiesAreBounded'
    <2>1. \A j \in Instances : Held(local'[j]) \subseteq Held(local[j])
      BY <1>5 DEF Replace, Held, Core, TypeOK
    <2>2. QED
      BY <1>3, <2>1, DroppedBound
  <1>6. QED
    BY <1>1, <1>2, <1>4, <1>5, ZenonT(30)
    DEF Next, Step, Cached, Upstream, Environment, Arrive, ChargeClient, ClientRefused,
        LocalHit, NamesRefused, LoadHit, LoadFails, LoadMiss, Acquire, UpstreamBusy, ChargeBudget,
        BudgetRefused, Ask, Answered, UpstreamFails, StoreAnswer, StoreFails, Tick,
        DeleteCounters, DeleteEntry

-----------------------------------------------------------------------------
(* The counters                                                            *)

\* Only an arrival begins a request, and the clock waits for those that are due.
LEMMA NextShort ==
  ASSUME Core, RequestsAreShort, [Next]_vars
  PROVE  RequestsAreShort'
  <1>1. /\ clock \in Nat /\ RequestLimit \in Nat
        /\ \A q \in Requests : began[q] \in Nat
    BY Constants DEF Core, TypeOK
  <1>2. ASSUME NEW r \in Requests, NEW i \in Instances, NEW c \in Clients, Arrive(r, i, c)
        PROVE  RequestsAreShort'
    <2>1. /\ clock' = clock /\ began'[r] = clock
          /\ \A q \in Requests \ {r} : began'[q] = began[q] /\ pc'[q] = pc[q]
      BY <1>2 DEF Arrive, Goto, Core, TypeOK
    <2>2. QED
      BY <1>1, <2>1 DEF RequestsAreShort, Serving
  <1>3. CASE Tick
    <2>1. clock' = clock + 1 /\ UNCHANGED <<pc, began>>
      BY <1>3 DEF Tick
    <2>2. \A q \in Requests : Serving(q) => clock < began[q] + RequestLimit
      BY <1>3 DEF Tick
    <2>3. QED
      BY <1>1, <2>1, <2>2 DEF RequestsAreShort, Serving
  <1>4. CASE /\ UNCHANGED <<clock, began>>
             /\ \A q \in Requests : Serving(q)' => Serving(q)
    BY <1>4 DEF RequestsAreShort
  <1>5. ASSUME NEW r \in Requests, Step(r) PROVE RequestsAreShort'
    <2>1. Serving(r) /\ UNCHANGED <<clock, began>>
      BY <1>5 DEF Step, Cached, Upstream, ChargeClient, ClientRefused, LocalHit, LocalMiss,
         NamesRefused, LoadHit, CopyHit, LoadFails, LoadMiss, Acquire, UpstreamBusy, ChargeBudget,
         BudgetRefused, Ask, Answered, UpstreamFails, StoreAnswer, StoreFails, Copy,
         Refuse, Reply, Finish, At, Serving
    <2>2. \A q \in Requests \ {r} : pc'[q] = pc[q]
      BY <1>5 DEF Step, Cached, Upstream, ChargeClient, ClientRefused, LocalHit, LocalMiss,
         NamesRefused, LoadHit, CopyHit, LoadFails, LoadMiss, Acquire, UpstreamBusy, ChargeBudget,
         BudgetRefused, Ask, Answered, UpstreamFails, StoreAnswer, StoreFails, Copy,
         Refuse, Reply, Finish, Goto, Core, TypeOK
    <2>3. QED
      BY <1>4, <2>1, <2>2 DEF Serving
  <1>6. ASSUME NEW i \in Instances, Replace(i) PROVE RequestsAreShort'
    <2>1. \A q \in Requests : pc'[q] = "done" \/ pc'[q] = pc[q]
      BY <1>6 DEF Replace
    <2>2. QED
      BY <1>4, <1>6, <2>1 DEF Replace, Serving
  <1>7. CASE UNCHANGED <<clock, pc, began>>
    BY <1>7 DEF RequestsAreShort, Serving
  <1>8. QED
    BY <1>2, <1>3, <1>5, <1>6, <1>7 DEF Next, Environment, DeleteCounters, DeleteEntry

\* A charge that fits leaves a counter within its limit.
LEMMA FittingCharge ==
  ASSUME NEW total \in Nat, NEW cost \in Nat, NEW limit \in Nat, Fits(total, cost, limit)
  PROVE  total + cost <= limit
  BY DEF Fits

\* An identity's counter is charged for what is let in, and before it is.
LEMMA ChargeCounts ==
  ASSUME Core, RequestsAreShort, CountersCount, NEW r \in Requests,
         ChargeClient(r) \/ ClientRefused(r)
  PROVE  CountersCount'
  <1> DEFINE d == client[r]
             v == WindowStart(began[r])
  <1>1. At(r, "charge") /\ d \in Clients /\ v \in Time
    BY ServedFields DEF ChargeClient, ClientRefused, At
  <1>2. ~CounterExpired(v)
    BY <1>1, WindowIsKept DEF Core, At, Serving
  <1>3. /\ charged[d][v] \in Nat /\ admitted[d][v] \in Nat
        /\ admitted[d][v] <= charged[d][v]
    BY <1>1, <1>2 DEF Core, TypeOK, CountersCount
  <1>4. UNCHANGED <<clock, budget, paid>>
    BY DEF ChargeClient, ClientRefused
  <1> HIDE DEF d, v
  <1>5. /\ charged' = charged \/ charged' = [charged EXCEPT ![d][v] = @ + 1]
        /\ charged' # charged => Fits(charged[d][v], 1, ClientLimit)
    BY DEF ChargeClient, ClientRefused, d, v
  <1>6. \/ UNCHANGED <<charged, admitted>>
        \/ charged' = [charged EXCEPT ![d][v] = @ + 1] /\ admitted' = admitted
        \/ /\ charged' = [charged EXCEPT ![d][v] = @ + 1]
           /\ admitted' = [admitted EXCEPT ![d][v] = @ + 1]
    BY DEF ChargeClient, ClientRefused, d, v
  <1>7. ASSUME NEW c \in Clients, NEW w \in Time
        PROVE  /\ charged'[c][w] <= ClientLimit
               /\ ~CounterExpired(w) => admitted'[c][w] <= charged'[c][w]
    <2>1. /\ charged[c][w] <= ClientLimit
          /\ ~CounterExpired(w) => admitted[c][w] <= charged[c][w]
          /\ charged[c][w] \in Nat /\ admitted[c][w] \in Nat
      BY DEF CountersCount, Core, TypeOK
    <2>2. CASE c = d /\ w = v
      <3>1. charged'[c][w] = charged[d][v] \/ charged'[c][w] = charged[d][v] + 1
        BY <1>1, <1>5, <2>2 DEF Core, TypeOK
      <3>2. charged'[c][w] # charged[d][v] => charged[d][v] + 1 <= ClientLimit
        BY <1>3, <1>5, <2>2, FittingCharge, Constants
      <3>3. charged'[c][w] <= ClientLimit
        BY <2>1, <2>2, <3>1, <3>2
      <3>4. CASE admitted' = admitted
        BY <1>3, <2>2, <3>1, <3>3, <3>4
      <3>5. CASE /\ charged' = [charged EXCEPT ![d][v] = @ + 1]
                 /\ admitted' = [admitted EXCEPT ![d][v] = @ + 1]
        <4>1. charged'[c][w] = charged[d][v] + 1 /\ admitted'[c][w] = admitted[d][v] + 1
          BY <1>1, <2>2, <3>5 DEF Core, TypeOK
        <4>2. QED
          BY <1>3, <3>3, <4>1
      <3>6. QED
        BY <1>6, <3>4, <3>5
    <2>3. CASE ~(c = d /\ w = v)
      <3>1. charged'[c][w] = charged[c][w] /\ admitted'[c][w] = admitted[c][w]
        BY <1>1, <1>6, <2>3 DEF Core, TypeOK
      <3>2. QED
        BY <2>1, <3>1
    <2>4. QED
      BY <2>2, <2>3
  <1>8. QED
    BY <1>4, <1>7 DEF CountersCount, CounterExpired

\* The same of the budget.
LEMMA BudgetCounts ==
  ASSUME Core, RequestsAreShort, CountersCount, NEW r \in Requests,
         ChargeBudget(r) \/ BudgetRefused(r)
  PROVE  CountersCount'
  <1> DEFINE v == WindowStart(began[r])
             cost == Cost[asked[r]]
  <1>1. At(r, "budget") /\ v \in Time /\ cost \in Nat
    BY ServedFields DEF ChargeBudget, BudgetRefused, At
  <1>2. ~CounterExpired(v)
    BY <1>1, WindowIsKept DEF Core, At, Serving
  <1>3. budget[v] \in Nat /\ paid[v] \in Nat /\ paid[v] <= budget[v]
    BY <1>1, <1>2 DEF Core, TypeOK, CountersCount
  <1>4. UNCHANGED <<clock, charged, admitted>>
    BY DEF ChargeBudget, BudgetRefused
  <1> HIDE DEF cost, v
  <1>5. /\ \/ UNCHANGED <<budget, paid>>
           \/ /\ budget' = [budget EXCEPT ![v] = @ + cost]
              /\ paid' = paid \/ paid' = [paid EXCEPT ![v] = @ + cost]
              /\ Fits(budget[v], cost, UpstreamLimit)
    BY DEF ChargeBudget, BudgetRefused, v, cost
  <1>6. ASSUME NEW w \in Time
        PROVE  /\ budget'[w] <= UpstreamLimit
               /\ ~CounterExpired(w) => paid'[w] <= budget'[w]
    <2>1. /\ budget[w] <= UpstreamLimit
          /\ ~CounterExpired(w) => paid[w] <= budget[w]
          /\ budget[w] \in Nat /\ paid[w] \in Nat
      BY DEF CountersCount, Core, TypeOK
    <2>2. CASE UNCHANGED <<budget, paid>>
      BY <2>1, <2>2
    <2>3. CASE ~UNCHANGED <<budget, paid>>
      <3>1. /\ budget' = [budget EXCEPT ![v] = @ + cost]
            /\ paid' = paid \/ paid' = [paid EXCEPT ![v] = @ + cost]
            /\ budget[v] + cost <= UpstreamLimit
        BY <1>1, <1>3, <1>5, <2>3, FittingCharge, Constants
      <3>2. CASE w = v
        <4>1. budget'[w] = budget[v] + cost
          BY <1>1, <3>1, <3>2 DEF Core, TypeOK
        <4>2. paid'[w] = paid[v] \/ paid'[w] = paid[v] + cost
          BY <1>1, <3>1, <3>2 DEF Core, TypeOK
        <4>3. QED
          BY <1>1, <1>3, <3>1, <4>1, <4>2
      <3>3. CASE w # v
        <4>1. budget'[w] = budget[w] /\ paid'[w] = paid[w]
          BY <1>1, <3>1, <3>3 DEF Core, TypeOK
        <4>2. QED
          BY <2>1, <4>1
      <3>4. QED
        BY <3>2, <3>3
    <2>4. QED
      BY <2>2, <2>3
  <1>7. QED
    BY <1>4, <1>6 DEF CountersCount, CounterExpired

\* A counter is forgotten when nothing more can be charged to it.
LEMMA DeleteCounts ==
  ASSUME Core, CountersCount, NEW w \in Time, DeleteCounters(w)
  PROVE  CountersCount'
  <1>1. CounterExpired(w) /\ UNCHANGED <<clock, admitted, paid>>
    BY DEF DeleteCounters
  <1>2. ASSUME NEW c \in Clients, NEW v \in Time
        PROVE  charged'[c][v] = charged[c][v] \/ (v = w /\ charged'[c][v] = 0)
    <2>1. CASE UNCHANGED charged
      BY <2>1
    <2>2. CASE ~UNCHANGED charged
      <3>1. PICK k \in Clients : charged' = [charged EXCEPT ![k][w] = 0]
        BY <2>2 DEF DeleteCounters
      <3>2. charged'[c] = IF c = k THEN [charged[k] EXCEPT ![w] = 0] ELSE charged[c]
        BY <3>1 DEF Core, TypeOK
      <3>3. charged[c] \in [Time -> Nat]
        BY DEF Core, TypeOK
      <3>4. QED
        BY <3>2, <3>3
    <2>3. QED
      BY <2>1, <2>2
  <1>3. \A v \in Time : budget'[v] = budget[v] \/ (v = w /\ budget'[v] = 0)
    BY DEF DeleteCounters, Core, TypeOK
  <1>4. ASSUME NEW c \in Clients, NEW v \in Time
        PROVE  /\ charged'[c][v] <= ClientLimit
               /\ ~CounterExpired(v) => admitted'[c][v] <= charged'[c][v]
    BY <1>1, <1>2, Constants DEF CountersCount
  <1>5. ASSUME NEW v \in Time
        PROVE  /\ budget'[v] <= UpstreamLimit
               /\ ~CounterExpired(v) => paid'[v] <= budget'[v]
    BY <1>1, <1>3, Constants DEF CountersCount
  <1>6. QED
    BY <1>1, <1>4, <1>5 DEF CountersCount, CounterExpired

LEMMA NextCounts ==
  ASSUME Core, RequestsAreShort, CountersCount, [Next]_vars
  PROVE  CountersCount'
  <1>1. CASE Tick
    <2>1. clock' = clock + 1 /\ UNCHANGED <<charged, budget, admitted, paid>>
      BY <1>1 DEF Tick
    <2>2. \A w \in Time : ~CounterExpired(w)' => ~CounterExpired(w)
      <3>1. clock \in Nat /\ Period \in Nat /\ \A w \in Time : w \in Nat
        BY Constants DEF Core, TypeOK
      <3>2. QED
        BY <2>1, <3>1 DEF CounterExpired
    <2>3. QED
      BY <2>1, <2>2 DEF CountersCount
  <1>2. CASE UNCHANGED <<clock, charged, budget, admitted, paid>>
    BY <1>2 DEF CountersCount, CounterExpired
  <1>3. QED
    BY <1>1, <1>2, ChargeCounts, BudgetCounts, DeleteCounts
    DEF Next, Step, Cached, Upstream, Environment, Arrive, LocalHit, LocalMiss,
        NamesRefused, LoadHit, CopyHit, LoadFails, LoadMiss, Acquire, UpstreamBusy, Ask, Answered,
        UpstreamFails, StoreAnswer, StoreFails, Copy, DeleteEntry, Replace

\* What was let in keeps to the limits when the counters do, and is not let in
\* again once they are forgotten.
LEMMA NextAllowed ==
  ASSUME Core, RequestsAreShort, CountersCount, AllowancesHold, TypeOK', CountersCount',
         [Next]_vars
  PROVE  AllowancesHold'
  <1>1. CASE UNCHANGED <<admitted, paid>>
    BY <1>1 DEF AllowancesHold
  <1>2. ASSUME NEW r \in Requests, ChargeClient(r) PROVE AllowancesHold'
    <2> DEFINE d == client[r]
               v == WindowStart(began[r])
    <2>1. At(r, "charge") /\ d \in Clients /\ v \in Time /\ UNCHANGED <<clock, paid>>
      <3>1. At(r, "charge") /\ UNCHANGED <<clock, paid>>
        BY <1>2 DEF ChargeClient
      <3>2. QED
        BY <3>1, ServedFields DEF At
    <2>2. ~CounterExpired(v)
      BY <2>1, WindowIsKept DEF Core, At, Serving
    <2>3. admitted'[d][v] <= charged'[d][v] /\ charged'[d][v] <= ClientLimit
      <3> HIDE DEF d, v
      <3>1. v + 2 * Period <= clock' <=> v + 2 * Period <= clock
        BY <2>1
      <3>2. QED
        BY <2>1, <2>2, <3>1 DEF CountersCount, CounterExpired
    <2>4. admitted'[d][v] \in Nat /\ charged'[d][v] \in Nat
      BY <2>1 DEF TypeOK
    <2>5. admitted'[d][v] <= ClientLimit
      BY <2>3, <2>4, Constants
    <2>6. admitted' = [admitted EXCEPT ![d][v] = @ + 1]
      BY <1>2 DEF ChargeClient
    <2> HIDE DEF d, v
    <2>7. ASSUME NEW c \in Clients, NEW w \in Time PROVE admitted'[c][w] <= ClientLimit
      <3>1. CASE c = d /\ w = v
        BY <2>5, <3>1
      <3>2. CASE ~(c = d /\ w = v)
        <4>1. admitted'[c][w] = admitted[c][w]
          BY <2>1, <2>6, <3>2 DEF Core, TypeOK
        <4>2. QED
          BY <4>1 DEF AllowancesHold
      <3>3. QED
        BY <3>1, <3>2
    <2>8. QED
      BY <2>1, <2>7 DEF AllowancesHold
  <1>3. ASSUME NEW r \in Requests, ChargeBudget(r) PROVE AllowancesHold'
    <2> DEFINE v == WindowStart(began[r])
    <2>1. At(r, "budget") /\ v \in Time /\ UNCHANGED <<clock, admitted>>
      <3>1. At(r, "budget") /\ UNCHANGED <<clock, admitted>>
        BY <1>3 DEF ChargeBudget
      <3>2. QED
        BY <3>1, ServedFields DEF At
    <2>2. ~CounterExpired(v)
      BY <2>1, WindowIsKept DEF Core, At, Serving
    <2>3. paid'[v] <= budget'[v] /\ budget'[v] <= UpstreamLimit
      <3> HIDE DEF v
      <3>1. v + 2 * Period <= clock' <=> v + 2 * Period <= clock
        BY <2>1
      <3>2. QED
        BY <2>1, <2>2, <3>1 DEF CountersCount, CounterExpired
    <2>4. paid'[v] \in Nat /\ budget'[v] \in Nat
      BY <2>1 DEF TypeOK
    <2>5. paid'[v] <= UpstreamLimit
      BY <2>3, <2>4, Constants
    <2>6. \A w \in Time \ {v} : paid'[w] = paid[w]
      BY <1>3, <2>1 DEF ChargeBudget, Core, TypeOK
    <2>7. QED
      BY <2>1, <2>5, <2>6 DEF AllowancesHold
  <1>4. QED
    BY <1>1, <1>2, <1>3, ZenonT(30)
    DEF Next, Step, Cached, Upstream, Environment, Arrive, ClientRefused, LocalHit,
        LocalMiss, NamesRefused, LoadHit, CopyHit, LoadFails, LoadMiss, Acquire, UpstreamBusy,
        BudgetRefused, Ask, Answered, UpstreamFails, StoreAnswer, StoreFails, Copy, Tick,
        DeleteCounters, DeleteEntry, Replace

-----------------------------------------------------------------------------
(* The slots                                                               *)

Users(i) == {q \in Requests : instance[q] = i /\ pc[q] \in Holding}

LEMMA UsersAreFinite == \A i \in Instances : IsFiniteSet(Users(i))
  BY CheckAssumption, FS_Subset DEF Users

\* A slot is taken by a request that held none.
LEMMA AcquireSlots ==
  ASSUME Core, SlotsAreHeld, NEW r \in Requests, Acquire(r)
  PROVE  SlotsAreHeld'
  <1> DEFINE i == instance[r]
  <1>1. /\ i \in Instances /\ At(r, "gate") /\ UNCHANGED instance
        /\ taken' = [taken EXCEPT ![i] = @ + 1] /\ pc' = [pc EXCEPT ![r] = "budget"]
    <2>1. At(r, "gate")
      BY DEF Acquire
    <2>2. QED
      BY <2>1, ServedFields DEF Acquire, At, Goto
  <1>2. /\ \A q \in Requests \ {r} : pc'[q] = pc[q]
        /\ pc'[r] = "budget" /\ pc[r] = "gate"
    BY <1>1 DEF Core, TypeOK, At
  <1>3. ASSUME NEW j \in Instances
        PROVE  Users(j)' = IF j = i THEN Users(j) \cup {r} ELSE Users(j)
    BY <1>1, <1>2 DEF Users, Holding
  <1>4. r \notin Users(i)
    BY <1>2 DEF Users, Holding
  <1>5. Cardinality(Users(i) \cup {r}) = Cardinality(Users(i)) + 1
    BY <1>1, <1>4, UsersAreFinite, FS_AddElement
  <1>6. \A j \in Instances :
          /\ taken[j] = Cardinality(Users(j))
          /\ taken'[j] = IF j = i THEN taken[j] + 1 ELSE taken[j]
    BY <1>1 DEF SlotsAreHeld, Users, Core, TypeOK
  <1>7. \A j \in Instances : taken'[j] = Cardinality(Users(j)')
    BY <1>3, <1>5, <1>6
  <1>8. QED
    BY <1>7 DEF SlotsAreHeld, Users

\* A request that returns gives back the slot it held, and no other.
LEMMA ReleasedSlots ==
  ASSUME Core, SlotsAreHeld, NEW r \in Requests, pc[r] \in Holding, Finish(r), Release(r)
  PROVE  SlotsAreHeld'
  <1> DEFINE i == instance[r]
  <1>1. pc[r] \notin {"idle", "done"}
    BY DEF Holding
  <1>2. i \in Instances /\ None \notin Instances
    BY <1>1, ServedFields, CheckAssumption
  <1>3. /\ \A q \in Requests \ {r} : pc'[q] = pc[q] /\ instance'[q] = instance[q]
        /\ pc'[r] = "done" /\ instance'[r] = None
    BY DEF Finish, Goto, Core, TypeOK
  <1>4. ASSUME NEW j \in Instances
        PROVE  Users(j)' = IF j = i THEN Users(j) \ {r} ELSE Users(j)
    BY <1>2, <1>3 DEF Users
  <1>5. r \in Users(i)
    BY DEF Users
  <1>6. /\ Cardinality(Users(i) \ {r}) = Cardinality(Users(i)) - 1
        /\ Cardinality(Users(i)) \in Nat /\ Cardinality(Users(i) \ {r}) \in Nat
    <2>1. IsFiniteSet(Users(i)) /\ IsFiniteSet(Users(i) \ {r})
      BY <1>2, UsersAreFinite, FS_Subset
    <2>2. QED
      BY <1>5, <2>1, FS_RemoveElement, FS_CardinalityType
  <1>7. \A j \in Instances : taken[j] = Cardinality(Users(j))
    BY DEF SlotsAreHeld, Users
  <1>8. taken[i] # 0
    BY <1>2, <1>6, <1>7
  <1>9. \A j \in Instances : taken'[j] = IF j = i THEN taken[j] - 1 ELSE taken[j]
    BY <1>2, <1>8 DEF Release, Core, TypeOK
  <1>10. \A j \in Instances : taken'[j] = Cardinality(Users(j)')
    BY <1>4, <1>6, <1>7, <1>9
  <1>11. QED
    BY <1>10 DEF SlotsAreHeld, Users

\* What a step does that takes no slot and gives none back.
LEMMA SameSlots ==
  ASSUME SlotsAreHeld, UNCHANGED taken,
         \A q \in Requests : \/ pc'[q] = pc[q] /\ instance'[q] = instance[q]
                             \/ pc[q] \in Holding /\ pc'[q] \in Holding
                                /\ instance'[q] = instance[q]
                             \/ pc[q] \notin Holding /\ pc'[q] \notin Holding
  PROVE  SlotsAreHeld'
  <1>1. \A j \in Instances : Users(j)' = Users(j)
    BY DEF Users
  <1>2. \A j \in Instances : taken'[j] = Cardinality(Users(j)')
    BY <1>1 DEF SlotsAreHeld, Users
  <1>3. QED
    BY <1>2 DEF SlotsAreHeld, Users

LEMMA ReplaceSlots ==
  ASSUME Core, SlotsAreHeld, NEW i \in Instances, Replace(i)
  PROVE  SlotsAreHeld'
  <1>1. \A q \in Requests :
          IF instance[q] = i THEN instance'[q] = None /\ pc'[q] = "done"
          ELSE instance'[q] = instance[q] /\ pc'[q] = pc[q]
    BY DEF Replace
  <1>2. None # i
    BY CheckAssumption
  <1>3. \A j \in Instances : Users(j)' = IF j = i THEN {} ELSE Users(j)
    BY <1>1, <1>2, CheckAssumption DEF Users
  <1>4. \A j \in Instances : /\ taken[j] = Cardinality(Users(j))
                             /\ taken'[j] = IF j = i THEN 0 ELSE taken[j]
    BY DEF SlotsAreHeld, Users, Replace, Core, TypeOK
  <1>5. \A j \in Instances : taken'[j] = Cardinality(Users(j)')
    BY <1>3, <1>4, FS_EmptySet
  <1>6. QED
    BY <1>5 DEF SlotsAreHeld, Users

\* A step of a request changes no other's slot.
LEMMA StepSlots ==
  ASSUME Core, SlotsAreHeld, NEW r \in Requests, Step(r)
  PROVE  SlotsAreHeld'
  <1>1. \A q \in Requests \ {r} : pc'[q] = pc[q] /\ instance'[q] = instance[q]
    BY DEF Step, Cached, Upstream, ChargeClient, ClientRefused, LocalHit, LocalMiss,
       NamesRefused, LoadHit, CopyHit, LoadFails, LoadMiss, Acquire, UpstreamBusy, ChargeBudget,
       BudgetRefused, Ask, Answered, UpstreamFails, StoreAnswer, StoreFails, Copy,
       Refuse, Reply, Finish, Goto, Core, TypeOK
  <1>2. ASSUME ChargeClient(r) \/ ClientRefused(r) \/ Cached(r) \/ UpstreamBusy(r)
        PROVE  pc[r] \notin Holding /\ pc'[r] \notin Holding /\ UNCHANGED taken
    BY <1>2 DEF Cached, ChargeClient, ClientRefused, LocalHit, LocalMiss, NamesRefused,
       LoadHit, CopyHit, LoadMiss, LoadFails, UpstreamBusy, Refuse, Reply, Finish, Goto, At,
       Holding, Core, TypeOK
  <1>3. ASSUME ChargeBudget(r) \/ Ask(r) \/ Answered(r) \/ StoreAnswer(r)
        PROVE  /\ pc[r] \in Holding /\ pc'[r] \in Holding
               /\ UNCHANGED <<taken, instance>>
    BY <1>3 DEF ChargeBudget, Ask, Answered, StoreAnswer, Goto, At, Holding, Core, TypeOK
  <1>4. CASE ChargeClient(r) \/ ClientRefused(r) \/ Cached(r) \/ UpstreamBusy(r)
    BY <1>1, <1>2, <1>4, SameSlots
  <1>5. CASE ChargeBudget(r) \/ Ask(r) \/ Answered(r) \/ StoreAnswer(r)
    BY <1>1, <1>3, <1>5, SameSlots
  <1>6. CASE Acquire(r)
    BY <1>6, AcquireSlots
  <1>7. CASE BudgetRefused(r) \/ UpstreamFails(r) \/ StoreFails(r) \/ Copy(r)
    BY <1>7, ReleasedSlots
    DEF BudgetRefused, UpstreamFails, StoreFails, Copy, Refuse, Reply, At, Holding
  <1>8. QED
    BY <1>4, <1>5, <1>6, <1>7 DEF Step, Upstream

LEMMA NextSlots ==
  ASSUME Core, SlotsAreHeld, [Next]_vars
  PROVE  SlotsAreHeld'
  <1>1. ASSUME NEW r \in Requests, NEW i \in Instances, NEW c \in Clients, Arrive(r, i, c)
        PROVE  SlotsAreHeld'
    <2>1. /\ \A q \in Requests \ {r} : pc'[q] = pc[q] /\ instance'[q] = instance[q]
          /\ pc[r] \in {"idle", "done"} /\ pc'[r] = "charge" /\ UNCHANGED taken
      BY <1>1 DEF Arrive, Goto, Serving, Core, TypeOK
    <2>2. QED
      BY <2>1, SameSlots DEF Holding
  <1>2. CASE UNCHANGED <<taken, pc, instance>>
    BY <1>2, SameSlots
  <1>3. QED
    BY <1>1, <1>2, StepSlots, ReplaceSlots
    DEF Next, Environment, Tick, DeleteCounters, DeleteEntry

-----------------------------------------------------------------------------
(* The load on the subgraph                                                *)

\* The calls paid for and not made yet, of the requests that may make them in the
\* window w: those that began in it, and those that began in the one before.
Asking(w) == {r \in Requests : At(r, "ask") /\ WindowStart(began[r]) \in {w, w - Period}}
Unmade(w) ==
  {call \in Requests \X (1 .. UpstreamLimit) :
     call[1] \in Asking(w) /\ call[2] <= Cost[asked[call[1]]]}

\* What those requests' windows have paid for.
PaidFor(w) == paid[w] + (IF w - Period \in Time THEN paid[w - Period] ELSE 0)

\* A window of the clock has the calls made in it, and those that may still be,
\* paid for.
CallsArePaid == \A w \in Time : made[w] + Cardinality(Unmade(w)) <= PaidFor(w)

LEMMA UnmadeIsFinite ==
  ASSUME NEW w
  PROVE  IsFiniteSet(Unmade(w)) /\ Cardinality(Unmade(w)) \in Nat
  <1>1. IsFiniteSet(Requests \X (1 .. UpstreamLimit))
    <2>1. IsFiniteSet(Requests) /\ IsFiniteSet(1 .. UpstreamLimit)
      BY CheckAssumption, Constants, FS_Interval
    <2>2. QED
      BY <2>1, FS_Product
  <1>2. IsFiniteSet(Unmade(w))
    BY <1>1, FS_Subset DEF Unmade
  <1>3. QED
    BY <1>2, FS_CardinalityType

\* The calls one request makes.
LEMMA CallsOfARequest ==
  ASSUME NEW r, NEW k \in Nat
  PROVE  IsFiniteSet({r} \X (1 .. k)) /\ Cardinality({r} \X (1 .. k)) = k
  <1>1. IsFiniteSet(1 .. k) /\ Cardinality(1 .. k) = k
    BY FS_Interval
  <1>2. IsFiniteSet({r}) /\ Cardinality({r}) = 1
    BY FS_Singleton
  <1>3. QED
    BY <1>1, <1>2, FS_Product

\* Two instants less than a window apart are of one window or of two that follow
\* each other.
LEMMA NextWindow ==
  ASSUME NEW t \in Time, NEW u \in Time, t <= u, u < t + Period
  PROVE  WindowStart(t) \in {WindowStart(u), WindowStart(u) - Period}
  <1> DEFINE a == t \div Period
             b == u \div Period
             x == t % Period
             y == u % Period
  <1>1. t \in Nat /\ u \in Nat /\ Period \in Nat /\ Period > 0
    BY Constants
  <1>2. /\ a \in Int /\ b \in Int /\ t = Period * a + x /\ u = Period * b + y
        /\ x \in 0 .. (Period - 1) /\ y \in 0 .. (Period - 1)
    BY <1>1
  <1> HIDE DEF a, b, x, y
  <1>3. Period * (b - a) = Period * b - Period * a
    BY <1>1, <1>2
  <1>4. b - a >= 0
    <2>1. SUFFICES ASSUME b - a <= -1 PROVE FALSE
      BY <1>2
    <2>2. Period * (b - a) <= -Period
      BY <1>1, <1>2, <2>1
    <2>3. QED
      BY <1>1, <1>2, <1>3, <2>2
  <1>5. b - a <= 1
    <2>1. SUFFICES ASSUME b - a >= 2 PROVE FALSE
      BY <1>2
    <2>2. Period * (b - a) >= 2 * Period
      BY <1>1, <1>2, <2>1
    <2>3. QED
      BY <1>1, <1>2, <1>3, <2>2
  <1>6. b = a \/ b = a + 1
    BY <1>2, <1>4, <1>5
  <1>7. WindowStart(t) = Period * a /\ WindowStart(u) = Period * b
    BY <1>1, <1>2 DEF WindowStart, x, y
  <1>8. QED
    BY <1>1, <1>2, <1>6, <1>7

\* A step that neither pays nor asks leaves no more calls to be made.
LEMMA NoNewCalls ==
  ASSUME Core, CallsArePaid, UNCHANGED <<paid, made>>,
         \A r \in Requests :
           At(r, "ask")' => At(r, "ask") /\ began'[r] = began[r] /\ asked'[r] = asked[r]
  PROVE  CallsArePaid'
  <1> SUFFICES ASSUME NEW w \in Time
               PROVE  made'[w] + Cardinality(Unmade(w)') <= PaidFor(w)'
    BY DEF CallsArePaid
  <1>1. Unmade(w)' \subseteq Unmade(w)
    BY DEF Unmade, Asking
  <1>2. /\ Cardinality(Unmade(w)') <= Cardinality(Unmade(w))
        /\ Cardinality(Unmade(w)') \in Nat /\ Cardinality(Unmade(w)) \in Nat
    <2>1. IsFiniteSet(Unmade(w)') /\ Cardinality(Unmade(w)') <= Cardinality(Unmade(w))
      BY <1>1, UnmadeIsFinite, FS_Subset
    <2>2. QED
      BY <2>1, UnmadeIsFinite, FS_CardinalityType
  <1>3. PaidFor(w)' = PaidFor(w) /\ made'[w] = made[w]
    BY DEF PaidFor
  <1>4. PaidFor(w) \in Nat /\ made[w] \in Nat
    BY DEF PaidFor, Core, TypeOK
  <1>5. made[w] + Cardinality(Unmade(w)) <= PaidFor(w)
    BY DEF CallsArePaid
  <1>6. QED
    BY <1>2, <1>3, <1>4, <1>5

\* A charge adds the calls it pays for to the two windows they may be made in.
LEMMA ChargePays ==
  ASSUME Core, CallsArePaid, NEW r \in Requests, ChargeBudget(r)
  PROVE  CallsArePaid'
  <1> DEFINE v == WindowStart(began[r])
             cost == Cost[asked[r]]
             calls == {r} \X (1 .. cost)
  <1>1. /\ At(r, "budget") /\ v \in Time /\ v \in Int
        /\ asked[r] \in NameSets /\ cost \in 1 .. UpstreamLimit /\ cost \in Nat
    <2>1. At(r, "budget")
      BY DEF ChargeBudget
    <2>2. v \in Time /\ asked[r] \in NameSets
      BY <2>1, ServedFields DEF At
    <2>3. cost \in 1 .. UpstreamLimit /\ cost \in Nat
      BY <2>2, CheckAssumption, Constants
    <2>4. QED
      BY <2>1, <2>2, <2>3, Constants
  <1>2. /\ paid' = [paid EXCEPT ![v] = @ + cost]
        /\ pc'[r] = "ask" /\ \A q \in Requests \ {r} : pc'[q] = pc[q]
        /\ UNCHANGED <<made, began, asked>>
    BY DEF ChargeBudget, Goto, Core, TypeOK
  <1>3. IsFiniteSet(calls) /\ Cardinality(calls) = cost
    BY <1>1, CallsOfARequest
  <1> SUFFICES ASSUME NEW w \in Time
               PROVE  made'[w] + Cardinality(Unmade(w)') <= PaidFor(w)'
    BY DEF CallsArePaid
  <1>4. /\ made[w] + Cardinality(Unmade(w)) <= PaidFor(w)
        /\ Cardinality(Unmade(w)) \in Nat /\ made[w] \in Nat
        /\ PaidFor(w) \in Nat
    BY UnmadeIsFinite DEF CallsArePaid, PaidFor, Core, TypeOK
  <1>5. w \in Int /\ Period \in Int /\ w # w - Period
    BY Constants
  <1>6. CASE v \in {w, w - Period}
    <2>1. Unmade(w)' = Unmade(w) \cup calls
      <3>1. Asking(w)' = Asking(w) \cup {r}
        BY <1>1, <1>2, <1>6 DEF Asking, At
      <3>2. \A call \in Requests \X (1 .. UpstreamLimit) :
              call \in calls <=> call[1] = r /\ call[2] <= cost
        BY <1>1, Constants
      <3>3. calls \subseteq Requests \X (1 .. UpstreamLimit)
        BY <1>1, Constants
      <3>4. \A call \in Requests \X (1 .. UpstreamLimit) :
              call \in Unmade(w)' <=> call \in Unmade(w) \/ call \in calls
        BY <1>1, <1>2, <3>1, <3>2 DEF Unmade
      <3> HIDE DEF calls, cost
      <3>5. QED
        BY <3>3, <3>4 DEF Unmade
    <2>2. Unmade(w) \cap calls = {}
      BY <1>1 DEF Unmade, Asking, At
    <2>3. Cardinality(Unmade(w)') = Cardinality(Unmade(w)) + cost
      <3>1. Cardinality({}) = 0
        BY FS_EmptySet
      <3> HIDE DEF calls, cost
      <3>2. Cardinality(Unmade(w) \cup calls)
              = Cardinality(Unmade(w)) + Cardinality(calls) - Cardinality(Unmade(w) \cap calls)
        BY <1>3, UnmadeIsFinite, FS_Union
      <3>3. Cardinality(Unmade(w)) \in Nat /\ cost \in Nat
        BY <1>1, <1>4
      <3>4. Cardinality(Unmade(w) \cap calls) = 0
        BY <2>2, <3>1
      <3>5. Cardinality(Unmade(w) \cup calls)
              = Cardinality(Unmade(w)) + cost - Cardinality(Unmade(w) \cap calls)
        BY <1>3, <3>2
      <3>6. Cardinality(Unmade(w) \cup calls) = Cardinality(Unmade(w)) + cost
        BY <3>3, <3>4, <3>5
      <3>7. QED
        BY <2>1, <3>6
    <2>4. PaidFor(w)' = PaidFor(w) + cost
      <3>1. paid[w] \in Nat /\ (w - Period \in Time => paid[w - Period] \in Nat)
        BY DEF Core, TypeOK
      <3>2. \A u \in Time : paid'[u] = IF u = v THEN paid[u] + cost ELSE paid[u]
        BY <1>2 DEF Core, TypeOK
      <3> HIDE DEF v, cost
      <3>3. CASE v = w
        BY <1>1, <1>5, <3>1, <3>2, <3>3 DEF PaidFor
      <3>4. CASE v = w - Period
        BY <1>1, <1>5, <3>1, <3>2, <3>4 DEF PaidFor
      <3>5. QED
        BY <1>6, <3>3, <3>4
    <2> HIDE DEF cost
    <2>5. QED
      BY <1>1, <1>2, <1>4, <2>3, <2>4
  <1>7. CASE v \notin {w, w - Period}
    <2>1. Unmade(w)' = Unmade(w)
      <3>1. Asking(w)' = Asking(w)
        BY <1>1, <1>2, <1>7 DEF Asking, At
      <3>2. QED
        BY <1>2, <3>1 DEF Unmade
    <2>2. PaidFor(w)' = PaidFor(w)
      <3>1. \A u \in Time : u # v => paid'[u] = paid[u]
        BY <1>2 DEF Core, TypeOK
      <3>2. QED
        BY <1>7, <3>1 DEF PaidFor
    <2>3. QED
      BY <1>2, <1>4, <2>1, <2>2
  <1>8. QED
    BY <1>6, <1>7

\* A request asks in a window that has its calls paid for, however late it is.
LEMMA AskSpends ==
  ASSUME Core, RequestsAreShort, CallsArePaid, NEW r \in Requests, Ask(r)
  PROVE  CallsArePaid'
  <1> DEFINE v == WindowStart(began[r])
             now == WindowStart(clock)
             cost == Cost[asked[r]]
             calls == {r} \X (1 .. cost)
  <1>1. At(r, "ask") /\ Serving(r)
    BY DEF Ask, At, Serving
  <1>2. /\ began[r] \in Time /\ clock \in Time /\ v \in Time /\ now \in Time
        /\ asked[r] \in NameSets /\ cost \in 1 .. UpstreamLimit /\ cost \in Nat
    <2>1. began[r] \in Time /\ clock \in Time /\ asked[r] \in NameSets
      BY <1>1, ServedFields DEF At, Core, TypeOK
    <2>2. QED
      BY <2>1, WindowStarts, CheckAssumption, Constants
  <1>3. v \in {now, now - Period}
    <2>1. began[r] <= clock /\ clock < began[r] + Period
      BY <1>1, <1>2, WindowAssumption, Constants DEF RequestsAreShort
    <2>2. QED
      BY <1>2, <2>1, NextWindow
  <1>4. /\ made' = [made EXCEPT ![now] = @ + cost]
        /\ pc'[r] = "upstream" /\ \A q \in Requests \ {r} : pc'[q] = pc[q]
        /\ UNCHANGED <<paid, began, asked>>
    BY DEF Ask, Goto, Core, TypeOK
  <1>5. IsFiniteSet(calls) /\ Cardinality(calls) = cost
    BY <1>2, CallsOfARequest
  <1> SUFFICES ASSUME NEW w \in Time
               PROVE  made'[w] + Cardinality(Unmade(w)') <= PaidFor(w)'
    BY DEF CallsArePaid
  <1>6. /\ made[w] + Cardinality(Unmade(w)) <= PaidFor(w)
        /\ Cardinality(Unmade(w)) \in Nat /\ made[w] \in Nat
        /\ PaidFor(w) \in Nat /\ PaidFor(w)' = PaidFor(w)
    BY <1>4, UnmadeIsFinite DEF CallsArePaid, PaidFor, Core, TypeOK
  <1>7. Asking(w)' = Asking(w) \ {r}
    BY <1>4 DEF Asking, At
  <1>8. CASE w = now
    <2>1. Unmade(w)' = Unmade(w) \ calls
      BY <1>2, <1>4, <1>7 DEF Unmade
    <2>2. r \in Asking(w)
      BY <1>1, <1>3, <1>8 DEF Asking
    <2>3. calls \subseteq Unmade(w)
      BY <1>2, <2>2, Constants DEF Unmade
    <2>4. Unmade(w) \cap calls = calls
      BY <2>3
    <2> HIDE DEF calls, cost
    <2>5. Cardinality(Unmade(w)') = Cardinality(Unmade(w)) - cost
      <3>1. Cardinality(Unmade(w) \ calls)
              = Cardinality(Unmade(w)) - Cardinality(Unmade(w) \cap calls)
        BY UnmadeIsFinite, FS_Difference
      <3>2. QED
        BY <1>5, <2>1, <2>4, <3>1
    <2>6. made'[w] = made[w] + cost
      BY <1>2, <1>4, <1>8 DEF Core, TypeOK
    <2>7. QED
      BY <1>2, <1>6, <2>5, <2>6
  <1>9. CASE w # now
    <2>1. Unmade(w)' \subseteq Unmade(w)
      BY <1>4, <1>7 DEF Unmade
    <2>2. Cardinality(Unmade(w)') <= Cardinality(Unmade(w)) /\ Cardinality(Unmade(w)') \in Nat
      BY <2>1, UnmadeIsFinite, FS_Subset, FS_CardinalityType
    <2>3. made'[w] = made[w]
      BY <1>2, <1>4, <1>9 DEF Core, TypeOK
    <2>4. QED
      BY <1>6, <2>2, <2>3
  <1>10. QED
    BY <1>8, <1>9

LEMMA NextPaid ==
  ASSUME Core, RequestsAreShort, CallsArePaid, [Next]_vars
  PROVE  CallsArePaid'
  <1>1. ASSUME NEW r \in Requests, NEW i \in Instances, NEW c \in Clients, Arrive(r, i, c)
        PROVE  CallsArePaid'
    BY <1>1, NoNewCalls DEF Arrive, Goto, At, Serving, Core, TypeOK
  <1>2. ASSUME NEW r \in Requests, Step(r), ~ChargeBudget(r), ~Ask(r)
        PROVE  CallsArePaid'
    <2>1. UNCHANGED <<paid, made>>
      BY <1>2 DEF Step, Cached, Upstream, ChargeClient, ClientRefused, LocalHit, LocalMiss,
         NamesRefused, LoadHit, CopyHit, LoadFails, LoadMiss, Acquire, UpstreamBusy, BudgetRefused,
         Answered, UpstreamFails, StoreAnswer, StoreFails, Copy
    <2>2. pc'[r] # "ask"
      BY <1>2 DEF Step, Cached, Upstream, ChargeClient, ClientRefused, LocalHit, LocalMiss,
         NamesRefused, LoadHit, CopyHit, LoadFails, LoadMiss, Acquire, UpstreamBusy, BudgetRefused,
         Answered, UpstreamFails, StoreAnswer, StoreFails, Copy,
         Refuse, Reply, Finish, Goto, Core, TypeOK
    <2>3. \A q \in Requests \ {r} :
            pc'[q] = pc[q] /\ began'[q] = began[q] /\ asked'[q] = asked[q]
      BY <1>2 DEF Step, Cached, Upstream, ChargeClient, ClientRefused, LocalHit, LocalMiss,
         NamesRefused, LoadHit, CopyHit, LoadFails, LoadMiss, Acquire, UpstreamBusy, BudgetRefused,
         Answered, UpstreamFails, StoreAnswer, StoreFails, Copy,
         Refuse, Reply, Finish, Goto, Core, TypeOK
    <2>4. QED
      BY <2>1, <2>2, <2>3, NoNewCalls DEF At
  <1>3. ASSUME NEW i \in Instances, Replace(i)
        PROVE  CallsArePaid'
    <2>1. \A q \in Requests : pc'[q] = "done" \/ pc'[q] = pc[q]
      BY <1>3 DEF Replace
    <2>2. QED
      BY <1>3, <2>1, NoNewCalls DEF Replace, At
  <1>4. CASE UNCHANGED <<paid, made, pc, began, asked>>
    BY <1>4, NoNewCalls DEF At
  <1>5. QED
    BY <1>1, <1>2, <1>3, <1>4, ChargePays, AskSpends
    DEF Next, Environment, Tick, DeleteCounters, DeleteEntry

-----------------------------------------------------------------------------
(* The theorems                                                            *)

\* What every reachable state satisfies: what the properties say, and what they
\* need said besides to follow from one state to the next.
IInv ==
  /\ TypeOK /\ Placed /\ AnswersAreFresh /\ CopiesAreHonest
  /\ RequestsAreShort /\ CountersCount /\ AllowancesHold
  /\ CopiesAreBounded /\ SlotsAreHeld /\ CallsArePaid

LEMMA InitIsIInv ==
  ASSUME Init
  PROVE  IInv
  <1>1. TypeOK
    BY Constants, Steps1 DEF Init, TypeOK, NoCharges, Steps
  <1>2. Placed /\ AnswersAreFresh /\ CopiesAreHonest /\ RequestsAreShort
    BY DEF Init, Placed, PlacedAt, Serving, Holding, AnswersAreFresh, FreshAt, At,
       CopiesAreHonest, RequestsAreShort
  <1>3. CountersCount /\ AllowancesHold
    BY Constants DEF Init, NoCharges, CountersCount, AllowancesHold
  <1>4. CopiesAreBounded
    <2>1. \A i \in Instances : Held(local[i]) = {}
      BY DEF Init, Held
    <2>2. QED
      BY <2>1, FS_EmptySet, Constants DEF CopiesAreBounded
  <1>5. SlotsAreHeld
    <2>1. \A i \in Instances : Users(i) = {} /\ taken[i] = 0
      BY DEF Init, Users, Holding
    <2>2. QED
      BY <2>1, FS_EmptySet DEF SlotsAreHeld, Users
  <1>6. CallsArePaid
    <2>1. \A w \in Time : Unmade(w) = {} /\ made[w] = 0 /\ paid[w] = 0
      BY DEF Init, NoCharges, Unmade, Asking, At
    <2>2. \A w \in Time : PaidFor(w) = 0
      BY <2>1 DEF PaidFor
    <2>3. QED
      BY <2>1, <2>2, FS_EmptySet DEF CallsArePaid
  <1>7. QED
    BY <1>1, <1>2, <1>3, <1>4, <1>5, <1>6 DEF IInv

LEMMA NextKeepsIInv ==
  ASSUME IInv, [Next]_vars
  PROVE  IInv'
  <1>1. Core
    BY DEF IInv, Core
  <1>2. TypeOK'
    BY <1>1, NextTypes DEF IInv
  <1>3. Placed' /\ AnswersAreFresh'
    BY <1>1, <1>2, NextKeeps DEF IInv
  <1>4. CopiesAreHonest'
    BY <1>1, <1>2, NextHonest DEF IInv
  <1>5. RequestsAreShort' /\ CountersCount'
    BY <1>1, NextShort, NextCounts DEF IInv
  <1>6. AllowancesHold'
    BY <1>1, <1>2, <1>5, NextAllowed DEF IInv
  <1>7. CopiesAreBounded' /\ SlotsAreHeld'
    BY <1>1, <1>2, NextBound, NextSlots DEF IInv
  <1>8. CallsArePaid'
    BY <1>1, NextPaid DEF IInv
  <1>9. QED
    BY <1>2, <1>3, <1>4, <1>5, <1>6, <1>7, <1>8 DEF IInv

LEMMA Invariance == Spec => []IInv
  BY InitIsIInv, NextKeepsIInv, PTL DEF Spec

\* The counters, the caches and the requests keep their types: no gate passes its
\* slots and no request holds what is not a document.
THEOREM TypeCorrect == Spec => []TypeOK
  BY Invariance, PTL DEF IInv

\* No window is overspent, by however many instances, requests and clients, and
\* although the table forgets counters: it follows because a counter is kept for
\* longer than a request of its window can run.  (CheckStore.Charge, checkExpiry)
THEOREM AllowancesKept == Spec => []AllowancesHold
  BY Invariance, PTL DEF IInv

\* The subgraph is asked at most twice the limit in a window of the clock, although
\* the budget counts a request against the window it began in: a call that is late
\* is late by one window, and that window paid for it.
\* (runCheck; checkstore.Window)
THEOREM LoadBounded == Spec => []LoadIsBounded
  <1>1. IInv => LoadIsBounded
    <2> SUFFICES ASSUME IInv, NEW w \in Time
                 PROVE  made[w] <= 2 * UpstreamLimit
      BY DEF LoadIsBounded
    <2>1. made[w] + Cardinality(Unmade(w)) <= PaidFor(w)
      BY DEF IInv, CallsArePaid
    <2>2. \A v \in Time : paid[v] \in Nat /\ paid[v] <= UpstreamLimit
      BY DEF IInv, TypeOK, AllowancesHold
    <2>3. PaidFor(w) \in Nat /\ PaidFor(w) <= 2 * UpstreamLimit
      BY <2>2, Constants DEF PaidFor
    <2>4. made[w] \in Nat /\ Cardinality(Unmade(w)) \in Nat
      BY UnmadeIsFinite DEF IInv, TypeOK
    <2>5. QED
      BY <2>1, <2>3, <2>4, Constants
  <1>2. QED
    BY <1>1, Invariance, PTL

\* A reply was read from the index for the names it answers and had not expired
\* when they were asked about, through any number of caches.  (localCache, Store)
THEOREM RepliesFresh == Spec => []RepliesAreFresh
  <1>1. IInv => RepliesAreFresh
    BY DEF IInv, AnswersAreFresh, FreshAt, RepliesAreFresh
  <1>2. QED
    BY <1>1, Invariance, PTL

\* A copy is of a document the shared cache has held and expires with it.
\* (localCache.put)
THEOREM CopiesCopied == Spec => []CopiesAreCopies
  <1>1. IInv => CopiesAreCopies
    BY DEF IInv, CopiesAreHonest, IsCopyFor, CopiesAreCopies
  <1>2. QED
    BY <1>1, Invariance, PTL

\* The layer of copies keeps to its bound, whatever the eviction picks among the
\* oldest.  (localCache.put, evictOldest)
THEOREM CopiesBounded == Spec => []CopiesAreBounded
  BY Invariance, PTL DEF IInv

\* The slots taken are those of the requests that hold one, on every way out of the
\* handler and across a replaced process.  (gate.acquire, gate.release)
THEOREM SlotsHeld == Spec => []SlotsAreHeld
  BY Invariance, PTL DEF IInv

=============================================================================
