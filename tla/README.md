# ens-scout in TLA+

ens-scout scans lists of short words against the ENS subgraph on a schedule,
publishes what it found as one snapshot in a DynamoDB table, and serves that
snapshot, together with an on-demand "check these names now" endpoint, to a web
application. This directory models the parts of it whose correctness depends on
the order in which several actors act, checks them with TLC on small instances,
and proves some of the results with TLAPS for all instances.

Paths below are relative to the repository root, with `internal/` in front of a
Go package where it is left out.

## The system

| Component | Code | State it keeps | Operations | Model |
|---|---|---|---|---|
| Scheduled publisher | `internal/scanner` | one invocation's memory: ID, payload, replaced pointer, backlog | scan, read previous, merge, stage, publish, unstage, expire, restage, reclaim | `Publisher` |
| Storage contract | `internal/snapshot` | none | the two write rules, verification, staleness, carrying forward | `SnapshotContract`, `PublishedSnapshot` |
| DynamoDB snapshot store | `internal/dynamo/store.go` | pointer, chunk items, staging markers, quarantined pointers | compare-and-swap of the pointer, chunk writes, expiries, markers | `Publisher` |
| Checker pool | `internal/checker`, `internal/ens` | two channels, two contexts, per-worker state | feed, look up, retry, emit, collect, close, return | `CheckerPool` |
| Fresh-check endpoint | `api/check.go`, `api/limit.go` | per process: gate and copies of answers | charge, load, ask, store, copy | `FreshCheck` |
| Check store | `internal/checkstore`, `dynamo/check.go` | window counters and cached answers in the table | Charge, Load, Store, TTL deletion | `FreshCheck` |
| Read API | `api/resolve.go`, `api/respond.go`, `api/document.go` | per process: a mutex and the last verified snapshot | resolve, conditional GET, health | `ReadApi` |
| Web: the snapshot | `web/src/state/useSnapshot.ts`, `web/src/data` | per tab: a view and the load in flight; per origin: one stored copy | load, revalidate, retry, store | `WebSnapshot` |
| Web: fresh checks | `web/src/state/useFreshCheck.ts`, `web/src/verify` | per page: selection, pending check, verifications | select, check, replace, receive, link out | `WebCheck` |
| Name classification | `ens/model.go`, `snapshot/carry.go` | none | `Classify` by expiry and instant, `CarryForward` | `Lifecycle` |
| Item encoding, other stores, CLI, Lambda wiring, logging, presentation, infrastructure, word lists | see PROJECT.json | none with a protocol | | not modelled |

How they interact. Two EventBridge schedules start the publisher (every three
hours for the three- and four-letter lists, daily for the five-letter list); at
most two invocations run at once (reserved concurrency). Every invocation runs
the checker pool and then makes a sequence of calls to the table. The table is
the only state invocations share, it has no transactions across these calls, and
it deletes items on its own some time after their TTL. The read API resolves the
pointer and then fetches the chunks it names; each of its processes keeps the one
snapshot it verified last, and its clients keep copies that they revalidate. The
fresh-check endpoint shares nothing with snapshots but the subgraph; its instances
share counters and cached answers through the table and keep their own copies. The
tabs of the web application load the snapshot from the read API and share one
stored copy of it; a page links a name out only after a fresh check.

What is hard about it:

* publications overlap, and only one compare-and-swap orders them;
* a run can be killed between any two calls, a call can fail, and the reply of a
  call that took effect can be lost;
* expiry and reclaim delete chunk sets that another run, or a reader, may be using;
* TTL deletion removes items at unpredictable times, one by one;
* the pool has two channels and two contexts, and every goroutine may block on
  another;
* allowances and caches are shared between processes by single conditional
  writes, and every request judges everything by one instant it sampled early;
* a process serves what it verified earlier while the pointer moves, is rolled back
  or is damaged, and a request may be abandoned at any read;
* a page's loads and checks replace one another while their answers are on the way,
  and two tabs write the same stored copy.

What makes each component correct:

* publisher and store: the pointer always names a whole, verified snapshot that
  nothing will delete; it only moves to later scans; a reader who resolved it keeps
  the chunks; no chunk set is forgotten; carried lists are never given an instant
  at which nobody scanned them; a damaged pointer is kept as evidence; runs end, and
  a finished scan reaches readers;
* pool: a result is complete or it is an error that names its cause; nothing
  outlives the run; nothing deadlocks;
* fresh check: no allowance is exceeded, the load on the subgraph is bounded, no
  reply is stale or about other names, copies are copies, slots come back;
* read API: an answer is about the snapshot the pointer named at one instant of the
  request, whole and verified, or claims no more than was seen; "not modified" is
  true of the copy; a burst costs one read; no request waits for ever;
* web application: a page says "current" only of what was; a superseded load or check
  changes nothing; the offline copy survives failures; a link rests on an answer
  within its lifetime;
* classification: a row is what a scan at that instant would have given, however
  often it has been carried forward.

## Modules

| Module | What it is |
|---|---|
| `SnapshotContract` | values and pure rules: IDs, pointers, `PlanChunkWrite`, `PlanLatestWrite`, `Verifies`, `StaleAfter` |
| `PublishedSnapshot` | abstract specification: what a reader is promised |
| `Publisher` | the publisher and the table it publishes into; EXTENDS the contract and refines `PublishedSnapshot` |
| `PublisherSafety` | proofs of type correctness, order, attribution, merging and evidence, under all faults |
| `PublisherRetention` | EXTENDS it: proofs that chunk sets are tracked and the registry keeps them |
| `PublisherServing` | EXTENDS that: proofs that readers keep what they resolved, and that `Publisher` implements `PublishedSnapshot` |
| `CheckerPool` | `checker.Run` and the client it calls |
| `CheckerPoolProofs` | proofs of the pool's safety, that its runs are bounded and that it never blocks itself |
| `FreshCheck` | the fresh-check endpoint on several instances and the check store |
| `FreshCheckProofs` | proofs of its seven invariants |
| `ReadContract` | values of the read path: pointers, documents, answers, and which answers are true |
| `ServedSnapshot` | abstract specification: what the read API promises a request |
| `ReadApi` | `resolve`, the replies and their clients on several instances; refines `ServedSnapshot` |
| `ReadApiProofs` | proofs of its safety, that no queue is stuck, and of the refinement |
| `WebSnapshot` | `useSnapshot` in several tabs and the copy they share; what it asks is `ServedSnapshot`'s promise |
| `WebSnapshotProofs` | proofs of its safety, and that a page that waits has a load |
| `Lifecycle` | `Classify` and `CarryForward` as operators |
| `WebCheck` | one page: the rows of the published snapshot, scanned or carried, and `useFreshCheck`; EXTENDS `Lifecycle`, and what it asks is `FreshCheck`'s promise |
| `WebCheckProofs` | proofs of what `Lifecycle` computes and of `WebCheck`'s four invariants |
| `MCPublisher`, `MCCheckerPool`, `MCFreshCheck`, `MCReadApi`, `MCWebSnapshot`, `MCWebCheck` | the values TLC needs |

A definition whose comment begins with "Mutation:" is not part of any
specification. It is a plausible mistake in the code it stands beside (a dropped
guard, a missing reset, a swapped order), kept so that each property can be shown
to fail under a change of the code; PROJECT.json lists which.

### Publisher and the code

One action of an invocation is one call to the store together with everything
`Run` decides from the answer up to the next call, so every point at which another
invocation, a kill or the clock can come between is a state. `pc[r]` names the
next call.

| Code | Actions |
|---|---|
| `Run`: the scan, `snapshotID` | `Start`, `Scan`, `ScanFails` |
| `readPrevious`, `CarryForward` | `ReadPointer`, `ReadChunks`, `ReadFails` |
| `StageSnapshot` | `Stage`, `StageFails` |
| `snapshot.Publish`: `PutChunks`, read-back | `PlanChunks`, `WriteChunks`, `VerifyChunks` |
| `PutLatest`, `quarantinePointer`, `pointerGuard` | `ReadLatest`, `Quarantine`, `Swap`, `SwapRefused`, `SwapUnanswered`, `SwapEchoed`, `PublishCallFails` |
| `unstage` | `Unstage` |
| `expireSuperseded`, `restageSuperseded`, `ExpireChunks` | `ExpireCheck`, `Expire`, `ExpireFails`, `Restage` |
| `reclaimAbandoned` | `Survey`, `ListMarkers`, `SurveyFails`, `SweepMarker`, `SweepCheck`, `SweepExpire`, `SweepExpireFails`, `SweepUnstage`, `SweepDone` |
| the platform and the table | `Kill`, `Tick`, `Corrupt`, `DeleteChunk`, `DeleteMarker` |

State: `pointer`, `chunks`, `staged` and `quarantined` are the four kinds of item
in the table. A snapshot's payload is a function from groups to the scan the
payload holds of that group (an instant and an answer); checksums, counts,
compression and chunk boundaries are functions of it and are not modelled apart.
`lost` is history: it records where the code, as written, lets go of a chunk set,
so that `EverySetIsTracked` can say that there are no other places.

Abstractions a reader should know of:

* Two invocations of one group in the same second get the same snapshot ID. Only a
  repeated event does that (fault `duplicate`). Their chunk writes then mix, and
  servability is not claimed for them; order and attribution are.
* An unusable pointer item is told apart by its document only: what `Form` says it holds
  there, which is a string, a value of another type, or nothing. `pointerGuard` compares a
  string by its value and anything else by its type or absence, and so does `Guard`. Its
  last branch, for a type the SDK does not know (`attribute_exists`), is excluded by
  `FormAssumption`: `attributeTypeCode` has a case for every type DynamoDB has.
* The pointer read and the key query of `ExpireChunks` are one action; the updates
  that follow are another. What matters is that the pointer may move between the
  check and the updates, and it may.
* The order of the staging registry is left open, so a budgeted pass may take any
  of the markers it would act on.
* The residual race the comment on `reclaimAbandoned` acknowledges, a publisher
  still alive after `abandonedAfter`, is excluded by `RetentionAssumption`, as the
  deployment excludes it (a timeout of 13 minutes against two hours).

### CheckerPool and the code

The feeder, each worker, the closer and the collecting caller of `checker.Run` are
the actors. `Feed` is a rendezvous on the unbuffered `jobs`; `outputs` has one
place per worker; `Emit` and `Drop` are the two cases of the worker's select.
`Answer`, `Refuse`, `Retry` and `Interrupt` are the ways `ens.Client.Lookup` can
go on. `cancelled` is the run's own context, `callerGone` the caller's. A batch
stands for the names in it; which status a name gets is data.

### FreshCheck and the code

`Arrive` samples the one instant (`now`) by which every window and expiry of the
request is judged; then come the charge of the client's allowance, the local copy,
the shared entry (`LoadHit`, `LoadMiss`), the gate (`Acquire`, `UpstreamBusy`), the charge of
the upstream budget, the read, the shared write and the local copy, each a step between
which other requests, process replacement, the clock and TTL deletion may come. `admitted`, `paid`,
`made`, `obtained` and `accepted` are history.

Left out: requests refused before the first charge touch no state; the instance
checked has one client identity (the counters of several are independent). The
branch for an answer already expired when it was read (`check.go:286`) needs a
clock that runs backwards and cannot be taken here. The upstream budget is counted
as the code counts it, per batch: the client may repeat each batch up to its
configured retries, so the subgraph sees a multiple of the budget in requests.

### ReadApi and the code

| Code | Actions |
|---|---|
| `ServeHTTP`, the client's conditional headers | `Ask` |
| `resolve`: the mutex | `Lock`, `Unlock` |
| `resolve`: `GetLatest` and what is decided from it | `PointerFails`, `TooLarge`, `Hit`, `Miss` |
| `resolve`: `GetChunks`, `Verify`, the new entry | `ChunksFail`, `Unreadable`, `Load` |
| `writeFailure`, `writeCached`, `serveHealth` | `Refuse`, `Revalidate`, `Serve` |
| the context, the platform, the table, an operator | `EndContext`, `Replace`, `Publish`, `LoseChunks`, `Damage`, `Rollback` |

`cached[i]` is what an instance keeps: the whole pointer it verified against, and the
bytes. Of a document the model keeps which snapshot it is of, whether it carries the
bytes, and whether it says when they were published, since `PublishedAt` is the one
field a republication changes while the snapshot's ID stays. `ended[c]` is the
request's context: the mutex does not notice it, and a read may, but need not, fail
because of it. `copy` is what a client keeps between requests. `named` is the
instant of the refinement: what the pointer was found to be for the request.

The table is seen as a reader sees it, and may do more than `Publisher` lets it: it is
damaged, loses chunks, and is put back by an operator. `Publish` writes chunks and
pointer together, because no request looks for the chunks of a pointer that has not
been written. Left out: HEAD, CORS and routing, which change no state; the advisory
headers; an `If-None-Match` of `*` and lists of tags, which no client of the
repository sends.

### WebSnapshot and the code

A load runs from await to await, and within that from one call of the storage to the
next, since the tabs share `localStorage` without a lock.

| Code | Actions |
|---|---|
| the effect, `retry`, the cleanup; `readCachedView` up to `getItem` | `Begin` with `Retried` and `Supersede` |
| `clearCache` for an entry that does not parse or resolve | `Clear` |
| the snapshot's answer | `NotModified`, `NothingToConfirm`, `Served` |
| the pointer's answer, `toSnapshot` | `PointerDisagrees`, `Refused` |
| `writeCache`, then the page | `Accept` when the entry is stored; `StoreRefused`, then `Drop` for the final `clearCache` |
| either request fails | `Unreachable` |
| the read API, and damage from outside | `Publish`, `Spoil` |

`stored` is the entry under the current key, `storer` (history) the tab that stored it
last. Each action makes at most one call of the storage: what one tab has read another
may replace before the first removes it. Within its tab a load is not interrupted there,
because it does not await (`Busy`); for the same reason `Accept` resolves, stores and
shows in one step. The two attempts of `writeCache` are one: no call between them touches
this entry. That calls of the storage take effect one by one, in an order all tabs
see, is assumed of the browser. A load's `cached` is the copy it read when it began,
never what is stored later. Entries of older wire formats, which are swept, are never
read and are left out; the read API's pointer only advances here (a rollback would be
another publication to a page).

### Lifecycle, WebCheck and the code

`Lifecycle` translates `Classify` and `lookupFromResult` over whole seconds, the unit to
which `canonicalTime` truncates every instant that is published. `WebCheck` runs them:
`Publish(scanned)` is what a publisher's run makes of the rows (fresh ones classified,
the others carried), with the index changing under it. The page's half is
`useFreshCheck`: `Toggle`, `ClearSelection`, `DismissFailure`, `Begin` (`check`),
`Receive`, `Fail` with `Over` as its `finally`. The endpoint's half, `Serve`, allows what
`RepliesAreFresh` and `CopiesAreCopies` allow of `FreshCheck`: a read now, or a copy
for exactly this set of names that had not expired at the request's instant; and an
intermediary that answers about other names. An aborted check goes on at the endpoint.
`now` is the instant the page was last rendered at (`useNow`), which lags behind the
clock; the visitor's clock is otherwise the endpoint's: skew between the two, and the
simulated clock of the demonstration, are left out.

## Runs

| Run | Question | Instance |
|---|---|---|
| `publisher_faults` | What do killed runs, failing calls and lost replies do to the live snapshot, to readers and to the registry? | 2 invocations, 1 group, 2 chunks, clock to 4 |
| `publisher_overlap` | What do three publications, two at a time, with reclaims in between do to each other, and is the reader's promise kept? | 3 invocations in 2 slots, 1 chunk, kills, clock to 5 |
| `publisher_damage` | Is order, attribution and evidence kept when the pointer is damaged and events arrive twice? | 2 groups, 2 answers, 4 unusable documents (2 strings, 2 of one other type), clock to 2 |
| `publisher_progress` | Do runs end and scans reach readers? | 3 invocations of 2 groups in 2 slots, fairness, no faults |
| `checker_pool` | Is a result complete, an error explained, and does everything end? | 2 workers, 4 batches, 1 retry, a caller that may stop |
| `fresh_check` | Are allowances, freshness, copies and slots kept across instances? | 3 requests, 2 at a time, 2 instances, 2 sets of names, clock to 4 |
| `read_api` | Is every answer true of one instant of its request, whatever an instance holds? | 2 clients, 2 instances, 3 snapshots of which 1 is too large, 2 publications, 3 requests, 1 fault of any of 6 kinds |
| `read_api_progress` | Does every request end? | 2 clients queueing for 1 instance, the same faults, fairness |
| `web_snapshot` | What does a page confirm, what becomes of the stored copy, does every load end? | 2 tabs, 3 loads, 3 publications of which 1 cannot be resolved, 4 kinds of fault |
| `web_check` | Are rows, pending checks and links honest? | 2 names with 3 timelines, 2 checks, 2 publications, clock to 2 |
| `lost_update`, `older_answer` | Statements of the repository that the code does not keep; see Findings | the smallest instance that shows each |

Properties of the passing runs and what they show:

* `LiveIsServable`: what the pointer names can be read whole and no expiry reaches
  it. Depends on the marker's age keeping a reclaim away from a running publisher
  (`Reclaimable`), and on `ExpireChunks` reading the pointer first.
* `ReadersKeepTheirChunks`: a reader who resolved the pointer just before it moved
  still finds every chunk. Depends on both recovery windows.
* `EverySetIsTracked`: an unbounded chunk set is live, registered, or owed by the
  run that replaced it, except after one of six named steps at which the code lets
  go of it.
* `RegistryKeepsTheUnbounded`: a marker goes only after its set is bounded, live or
  owed, with the same named exceptions.
* `ReadersArePromised`: refinement. Through the pointer and the chunks it names a
  reader sees `PublishedSnapshot`: nothing, or one whole snapshot replaced only by
  later ones, each attributed to scans that took place.
* `PointerOnlyAdvances`, `SourcesAreScans`, `EvidenceIsKept`: order, attribution and
  quarantine, also with a damaged pointer and repeated events. An unusable document that
  is a string is preserved as it was when it was replaced; of any other form, it or one of
  that form which was there before it (see Findings).
* `NothingLostWithoutARace`: a publication loses a list, or makes it older, only
  when it replaces another snapshot than the one it merged from.
* `RunsEnd`, `ScansReachReaders`: every invocation ends; every scan that finished is
  published, or a snapshot at least as new is.
* `ResultsAreComplete`, `ErrorsNameTheirCause`, `NothingOutlivesTheRun`,
  `EverythingEnds`: the pool. The first is what keeps a partial scan from being
  published as a whole one.
* `AllowancesHold`, `LoadIsBounded`: admissions and paid calls keep to the limit of
  each window, although requests charge late and counters are deleted; calls that
  reach the subgraph in one window of the clock keep to twice the limit, the
  second half being those of requests that began in the window before.
* `RepliesAreFresh`, `CopiesAreCopies`, `CopiesAreBounded`: an answer is about the
  names asked, was read from the subgraph and had not expired when asked for,
  through however many caches it came.
* `SlotsAreHeld`: the gate neither leaks nor over-admits on any way out.

* `ReadersAreServed`: refinement. Through `ReadApi` a request sees `ServedSnapshot`:
  answered about what the pointer named at one instant while it was served, never
  about a superseded or rolled-back snapshot an instance still held. Depends on the
  comparison of the whole pointer (`IsCached`): by the ID alone, health would
  report an earlier publication.
* `ConfirmedCopiesAreCurrent`: an entity tag that matches stands for the whole
  document. Depends on `metaDocument` leaving `PublishedAt` out.
* `BurstCostsOneRead`: the mutex bounds chunk fetches to one per instance, and none
  for what is held.
* `AlarmsAreReal`: `chunks_missing` and `no_snapshot` are given for what the table
  held, not for a read its client abandoned.
* `RequestsAreAnswered`: every way out of `resolve` gives the mutex back.
* `ConfirmedWasCurrent`, `OwnWritesAdvance`, `LoadsSettle`: the page and its stored copy,
  see the comments in `WebSnapshot`. Two tabs may put an older copy over a newer one; one
  tab may not.
* `CopiesAreKept`: no failed request, and no answer that does not resolve, costs a copy
  that could be shown offline. A snapshot the storage refuses does, and so does another
  tab that removes a bad entry it read before the copy was stored (see Findings); without
  the second exception TLC finds the property violated.
* `PageFollowsItsCheck`, `LinksAreVerified`: a replaced check says nothing on the page,
  and a link is offered only within the lifetime of an answer, counted from the
  index's instant, not from its arrival.
* `RowsAreHonest`: any chain of scans and carries gives each row what `Classify` gives
  for the answer last scanned at the instant published.

The mutant `CounterEndsWithWindow` is instructive: `dynamo/check.go:140` says of
the extra period a counter is kept that nothing depends on it for correctness.
`AllowancesHold` does, because a request charges the window it began in.

### Bounds, and why they are enough

* `Runs` is 2: the function's reserved concurrency, not a bound of the model.
* `MaxRuns` (2 or 3) bounds invocations in a behaviour. Two show every pairwise race
  and a reclaim of a dead run's set; the third is needed for a set that is
  superseded, restaged and reclaimed while a further publication is in flight, and
  for a compare-and-swap lost twice.
* One tick is the function timeout (`RunLimit` = 1). `AbandonedAfter` and
  `AbandonedRetention` are 2, the least that satisfies `RetentionAssumption`;
  the deployment's ratios (13 minutes against 2 and 24 hours) are larger, so every
  order the deployment can show, the instance can. `ReadLimit` is 0: a reader takes
  seconds, less than a tick.
* `MaxTime` is the least that lets the events in question happen: 4 for a set to be
  staged, abandoned and reclaimed; 5 for its window to pass as well;
  `StagingRetention` is 4 so that markers do expire in `publisher_overlap`.
* `Parts` is 2 where partial writes matter (`publisher_faults`) and 1 elsewhere.
* `PointerAttempts`, `ExpireAttempts`, `PreviousReads`, `ReclaimsPerRun` and
  `QuarantineKeys` are scaled down (4, 3, 3, 8 and 100 in the code) to 1 or 2, so
  that exhausting them happens within the bounds. `ScansReachReaders` needs one
  attempt more than the other slots can win, which 2 provides for two slots and 4
  for the deployment's.
* `checker_pool`: four batches for two workers, so that the channel fills, workers
  go round twice, and the feeder blocks.
* `fresh_check`: limits, periods and lifetimes of 2, costs of 1 and 2, one slot and
  one copy, so that every limit is met; `MaxTime` 4 reaches the deletion of a
  counter. Requests arrive before `MaxTime` only, so that each can run to its end.
* `read_api`: two snapshots and two publications give a move, a republication of the
  same snapshot and a rollback; three requests let a client take a copy and revalidate it
  while the other's request fills another instance. One fault is enough for each kind
  alone; reads that fail are not counted. `read_api_progress` has one instance, so that
  both clients queue for one mutex.
* `web_snapshot`: three loads in two tabs give a load superseded by its own tab while the
  other tab stores, and a tab that removes a bad entry after the other has stored over it;
  the second of three publications does not resolve, so a good copy is on both sides of it.
* `web_check`: one tick is a lifetime, a grace period, a premium period and the soon
  window, so that two ticks pass every boundary of `Phase` and of a lifetime. The three
  timelines are a name that lapses, a name somebody takes, and one whose expiry cannot
  be read. `older_answer` needs a lifetime of two ticks and a third check.
* `publisher_damage` has two unusable documents that are strings and two that are not, so
  that one is put in the place of another of its form and of another form; in the other
  runs of the publisher nothing is damaged.
* Symmetry is used only in runs of safety properties, over invocations, answers,
  chunks, unusable documents of one form, requests, instances, clients and names, none of
  which a property tells apart by name.
* Deadlock is not checked: every instance stops at its bounds.
  `EverythingEnds` is the pool's deadlock freedom, `RunsEnd` the publisher's.

### Fairness

* `Publisher!FairSpec`: weak fairness of each running invocation's next call. Every
  call has a deadline, so it answers. Nothing is assumed of schedules, of the TTL
  process or of the clock.
* `CheckerPool!FairSpec`: weak fairness of the feeder, the closer, the caller and each
  worker: goroutines are scheduled and every HTTP request has a timeout. The choice
  among a select's ready cases is left open.
* `ReadApi!Spec`: weak fairness of a request that runs, since every store call has a
  deadline; strong fairness of `Lock`, since Go's `sync.Mutex` hands itself to a waiter
  that has waited a millisecond. Weak fairness would not do: the mutex is taken and
  released again and again while a request waits.
* `WebSnapshot!Spec`: weak fairness of each load: a browser answers or fails every
  request in the end. Nothing is assumed of other tabs or of publications.
* `FreshCheck` and `WebCheck` state no liveness: a request is bounded by the platform, and
  a check by its visitor.

## Findings

1. `lost_update`. The snapshot that is carried forward is read before the pointer
   is, and never again. A publication of the other group in between is superseded
   by a payload with the older data of its list. The comment at `scanner.go:533`
   reads the previous snapshot late for exactly this reason and narrows the window
   from the length of a scan to the length of a publication; `docs/read-api.md:206`
   says "A source instant advances only when that source is scanned." The schedules
   are offset by ninety minutes, so it takes a manual, delayed or repeated
   invocation; the next scan of the list repairs it. `NothingLostWithoutARace` is
   what does hold.
2. `older_answer`. A page that holds a verification of a name writes an older one over
   it when a check of a larger set is answered from the endpoint's cache:
   `setVerified` does not compare instants. `useFreshCheck.ts:23` says "It never drops
   a verification it already has." The link is then refused earlier than it had to
   be; it is never offered without a current answer (`LinksAreVerified`).

Met while modelling, and without a run of their own. The first two are among the steps
`EverySetIsTracked` names, which holds of everything else:

* A run killed between its pointer write (`scanner.go:609`) and its expiry of the
  replaced set (`scanner.go:656`) leaves that set with neither TTL nor marker, since only
  that run knew what it had replaced (`docs/website-plan.md:286` promises the recovery
  window "and no longer"). Cause `kill` of `lost`.
* `unstage` (`scanner.go:1109`) removes the marker of the run's own ID whoever wrote it
  last, and so can remove the one another run has just put back for the set it could not
  expire (`restageSuperseded`). Cause `lateUnstage` of `lost`.
* A pointer write whose reply is lost is reported as a failed publication
  (`dynamo/store.go:528`) while readers see the new snapshot; `docs/website-plan.md:131`
  says the pointer is then unchanged. Action `SwapUnanswered`.
* A repeated pointer write fails its own condition and is decided again. If meanwhile
  another run superseded the snapshot and bounded it, and then the pointer was damaged, the
  set is published again although it has a TTL, which the comment of `ExpireChunks`
  (`dynamo/store.go:283`) excludes. It is why the theorems about serving exclude damage.
* Two instances that miss at once keep different answers for the same names, one local
  and one shared, both fresh and honest; `api/limit.go:48` calls them "the same answer".
* The comment of `pointerGuard` says that "any change to the item in between makes the
  write fail" (`dynamo/store.go:589`). A document that is not a string may change to another
  of its type between the copy and the write, and is then replaced without a copy of its
  own. The code makes no such change itself (the comment at `store.go:626` says why), so it
  takes somebody outside it. `EvidenceIsKept` says it with this qualification.
* A tab that reads an entry it cannot use removes it in a later call (`cache.ts:149`, then
  `cache.ts:182`; `useSnapshot.ts:147`), as does one whose write was refused
  (`cache.ts:223`). In between another tab may have stored a good copy, which is
  lost with it; the next load stores one again. `CopiesAreKept` names both.
* A publication between the page's two requests ends its load with "malformed"
  (`PointerDisagrees`); `useSnapshot.ts:103` says of that kind that reloading will not
  fix it, and here it does. It takes a deployment that serves `/api/latest`, which the
  client asks for; the Go API does not (`api/api.go:51`), and the client accepts the 404.
* A retry that fails and finds no stored copy replaces the snapshot on screen by the
  failure (`Fail`); `useSnapshot.ts:281` calls discarding readable data because the network
  failed "the worse answer".

Except for the fourth, none of them lets a reader see a broken snapshot:
`LiveStaysServable` and `ReadersGetThePromise` are proved of every behaviour without
damage and repeated events, those of the others about the publisher included.

## Theorems

All are proved for every value of the constants that satisfies the named
assumptions; TLC evaluates those assumptions in every run.

| Module | Theorem | Statement |
|---|---|---|
| `PublisherSafety` | `TypeCorrect` | `Spec => []TypeOK` |
| `PublisherSafety` | `PointerAdvances` | `Spec => PointerOnlyAdvances` |
| `PublisherSafety` | `SourcesStayScans` | `Spec => []SourcesAreScans` |
| `PublisherSafety` | `NothingIsLost` | `Spec => NothingLostWithoutARace` |
| `PublisherSafety` | `EvidenceKept` | `Spec => EvidenceIsKept` |
| `PublisherRetention` | `EverySetTracked` | `ASSUME Unrepeated PROVE Spec => []EverySetIsTracked` |
| `PublisherRetention` | `UnboundedStayRegistered` | `ASSUME Unrepeated PROVE Spec => RegistryKeepsTheUnbounded` |
| `PublisherServing` | `LiveStaysServable` | `ASSUME Sound PROVE Spec => []LiveIsServable` |
| `PublisherServing` | `ReadersKeepChunks` | `ASSUME Sound PROVE Spec => []ReadersKeepTheirChunks` |
| `PublisherServing` | `ReadersGetThePromise` | `ASSUME Sound PROVE Spec => ReadersArePromised` |
| `CheckerPoolProofs` | `PoolTypes` | `Spec => []TypeOK` |
| `CheckerPoolProofs` | `ResultsComplete` | `Spec => []ResultsAreComplete` |
| `CheckerPoolProofs` | `ErrorsHaveCauses` | `Spec => []ErrorsNameTheirCause` |
| `CheckerPoolProofs` | `NothingOutlives` | `Spec => []NothingOutlivesTheRun` |
| `CheckerPoolProofs` | `RunsAreBounded` | `Spec => [][Remaining' < Remaining /\ Remaining \in Nat]_vars` |
| `CheckerPoolProofs` | `PoolGoesOn` | `Spec => [](~Over => CanGoOn)` |
| `FreshCheckProofs` | `TypeCorrect` | `Spec => []TypeOK` |
| `FreshCheckProofs` | `AllowancesKept` | `Spec => []AllowancesHold` |
| `FreshCheckProofs` | `LoadBounded` | `Spec => []LoadIsBounded` |
| `FreshCheckProofs` | `RepliesFresh` | `Spec => []RepliesAreFresh` |
| `FreshCheckProofs` | `CopiesCopied`, `CopiesBounded` | `Spec => []CopiesAreCopies`, `Spec => []CopiesAreBounded` |
| `FreshCheckProofs` | `SlotsHeld` | `Spec => []SlotsAreHeld` |
| `ReadApiProofs` | `TypeCorrect` | `Safety => []TypeOK` |
| `ReadApiProofs` | `BurstsCostOneRead` | `Safety => []BurstCostsOneRead` |
| `ReadApiProofs` | `ConfirmedAreCurrent` | `Safety => []ConfirmedCopiesAreCurrent` |
| `ReadApiProofs` | `AlarmsReal` | `Safety => AlarmsAreReal` |
| `ReadApiProofs` | `QueuesMove` | `Safety => []NobodyIsStuck` |
| `ReadApiProofs` | `PromiseKept` | `Safety => ReadersAreServed` |
| `WebSnapshotProofs` | `WebTypes` | `Spec => []TypeOK` |
| `WebSnapshotProofs` | `ConfirmedIsTrue` | `Spec => []ConfirmedWasCurrent` |
| `WebSnapshotProofs` | `TabsAdvance` | `Spec => OwnWritesAdvance` |
| `WebSnapshotProofs` | `CopiesStay` | `Spec => CopiesAreKept` |
| `WebSnapshotProofs` | `WaitsHaveLoads` | `Spec => []Awaited` |
| `WebCheckProofs` | `LookupIsRecovered` | what was classified gives back the lookup it was classified from |
| `WebCheckProofs` | `CarryIsClassify` | carrying forward, once or twice, is classifying that lookup now |
| `WebCheckProofs` | `StatusAdvances` | the status of one registration never goes back |
| `WebCheckProofs` | `TypeCorrect` | `Spec => []TypeOK` |
| `WebCheckProofs` | `PageFollows` | `Spec => []PageFollowsItsCheck` |
| `WebCheckProofs` | `LinksVerified` | `Spec => []LinksAreVerified` |
| `WebCheckProofs` | `RowsHonest` | `Spec => []RowsAreHonest` |

Every invariant and action property that a passing run checks is the subject of one of
these. `Remaining`, `CanGoOn`, `NobodyIsStuck` and `Awaited` are defined in the proof
modules, next to their theorems.

Assumptions. `ContractAssumption`: there are groups, answers and chunks, cadences are
positive, and any set of groups has a slowest one. `SentinelAssumption` and
`EntryAssumption`: the sentinels are told apart from the values. `PublisherAssumption`:
the bounds are numbers and the attempts positive. `FormAssumption`: an unusable item
holds nothing, or a value of one of DynamoDB's ten types, where its document should be. `RetentionAssumption`: each retention
outlives an invocation and a read begun before it. `PoolAssumption`: the pool is
finite, not empty, and no larger than the number of batches. `CheckAssumption`: what
`CheckConfig.validate` requires, every limit positive and a request within the whole
budget; `WindowAssumption`: no request outlives a window. `ReadAssumption`,
`ApiAssumption`, `WebCheckAssumption`, `LifecycleAssumption`: the bounds and periods are
numbers, instants and timelines are what they stand for. `ReadSentinels`, `ApiSentinels`,
`WebSentinels`: what stands for absence or for damage is none of the values.

Two theorem modules exclude faults. `Unrepeated`: no event is delivered twice within a
second; everything else, damage included, is allowed. Without it both statements of
`PublisherRetention` are false: TLC finds a run that bounds the chunks of a set, and one
that then lets its marker go, while a second run of the same ID still writes into it
(three invocations, the smallest limits). `Sound`:
`Unrepeated`, and the pointer item is not damaged from outside; kills, failing calls and
lost replies are all allowed. Damage cannot be allowed together with lost replies, which
can bound the live snapshot (Findings, the fourth without a run).

Arguments.

* `TypeCorrect`: `TypeOK` is inductive because its part `PhaseOK` ties every variable
  of an invocation to the call it is about to make, so that `replaced[r].id` or
  `seen[r].body` is only evaluated where there is one. One lemma per action.
* `PointerAdvances`: a run about to write (`pc = "swap"`) has read a pointer that is
  absent, unusable or older (`PlannedSwap`); the condition of the write (`Guard`) says
  that it is still that one, or one as unusable. No fault enters the argument, so the theorem holds with
  all of them.
* `SourcesStayScans`: the property alone is not inductive, since a run may publish what it
  read long ago. `Attribution` extends it from the pointer to every payload a run holds
  and every pointer it remembers; scans are never forgotten (`ScansGrow`), and a merge
  takes lists only from a snapshot scanned no later.
* `NothingIsLost`: a run that is about to write has merged forward all that the snapshot
  it read held (`Merged`); if that is the one its write replaces, nothing goes.
  `EvidenceKept`: between the copy and the write the run remembers what it copied
  (`Copied`), and the condition of the write says that it is still that document, or, if
  it is not a string, one of its form (`GuardFinds`).
* `EverySetTracked`: the property is inductive only if nobody adds a chunk to a set that
  somebody has bounded. The key query of `ExpireChunks` is taken some calls before its last
  update, so what the query listed must still be all there is. Of a replaced set it is,
  because its own run has read its chunks back long since (`NotYetNamed`); of an
  abandoned one, because a marker that old belongs to a run that is over (`Timed`,
  `Backlogged`, `AbandonedAfter > RunLimit`). So a run has bounded every chunk of the set
  by the time it takes the debt for settled (`Settled`) or removes the marker
  (`Reclaimed`), and a run that writes has a marker, or a named cause why not
  (`Claimed`). `UnboundedStayRegistered` follows from the same invariant.
* `LiveStaysServable`: the property says nothing of the sets a run is still writing, so
  it needs an invariant about IDs. An ID is `Dead` when the pointer has passed it, or when
  it is not live and no run holds it; it never comes back to life, because the
  pointer only advances and an ID is minted once (`DeadStays`). Only dead IDs are given a
  TTL (`Doomed`): what a run replaced is dead by its own write, and an abandoned
  marker is older than any running invocation (`Backlogged`, `Timed`, and
  `AbandonedAfter > RunLimit`, the only place where that assumption is needed). A run that
  may still move the pointer and whose ID is not dead has a verified set without a TTL
  (`Written`), and one that finds the pointer it planned against has an ID that is not
  dead (`PlannedSwap`). TLC checked the whole invariant before it was proved.
* `ReadersKeepChunks`: a TTL is counted from the instant a run stamped itself, which is no
  earlier than its ID (`Stamped`), and is longer than an invocation and a read
  (`RetentionAssumption`); a run that bounds a set is still within its invocation
  (`Timed`), so the TTL ends later than any read of what the pointer named (`Windows`).
* `ReadersGetThePromise`: given `LiveIsServable`, what a reader resolves is what the
  pointer names (`ServedIsNamed`). A step that moves the pointer is a `Publish` of the
  abstract specification (newer by `PlannedSwap`, attributed by `Attribution`, named after
  its own scan by `NamedByScan`), a completed scan is a `Scan`, and every other step a
  stutter.
* The pool: `ResultsAreComplete` needs where every batch is (`Placed`: answered, held, in
  the channel, or the run is cancelled), that it is in one place (`Once`), why a worker
  may end (`Ending`), in which order the channels close (`Closing`), and why the run can
  be cancelled (`Cancellation`, `OutcomesCaused`). At the return the outputs are closed and
  empty, so every worker has ended; nothing failed, so each ended because `jobs` was
  closed, and `jobs` was closed because every batch was handed over; none is held or in
  the channel, so each is answered. TLC checked the whole invariant before it was proved.
* The pool's liveness, as far as it is safety. `RunsAreBounded`: `Remaining` adds up what
  each worker still owes (a retry uses up one, a batch brings `Retries + 4`), what is in
  the channel, the batches not fed and the closes not made; every action lowers it.
  `PoolGoesOn`: if nobody could go on, every worker would be done or emitting into a full
  channel; but then the caller has something to take, or the closer to close. What is left
  of `EverythingEnds` is that a goroutine that can go on is scheduled, and that
  `CanGoOn` is what enables a step, which TLC checks.
* `FreshCheckProofs`: `AllowancesHold` needs that a counter that has been deleted will
  not be charged again: it is kept a period longer than its window, and no request
  outlives a window (`WindowAssumption`), so a request that charges the window it began in
  still meets its counter (`RequestsAreShort`, `CountersCount`). `RepliesAreFresh` and `CopiesAreCopies` follow
  documents from where they are rendered through the store and the copies.
  `SlotsAreHeld` is a count over the requests of an instance, moved by one lemma for a
  request that begins to hold and one for a request that stops. `LoadBounded` counts calls
  where the budget counts requests: a call charged to one window may be made in the next.
  `CallsArePaid` says of a window that the calls made in it, and those that requests of it
  and of the window before may still make, were paid for by these two; since no request
  outlives a window nobody else can (`NextWindow` is where the clock moves on). Neither
  the property nor the allowances alone are inductive.
* `ReadApiProofs`: `MutexIsHeld` (whoever is between `Lock` and `Unlock` is the holder) gives
  `BurstsCostOneRead`. What is kept is its pointer's own snapshot, and what `resolve` returned
  is of the pointer the request read; so every answer is `Truthful` of `named`, and
  each step is one of `ServedSnapshot` or a stutter. `QueuesMove` is the converse of
  `MutexIsHeld`: a mutex that is taken is held by a request of that instance that reads the
  store (`MutexIsReleased`), and a request that is past it has something to reply
  (`RepliesAreDue`). It says of every error path and early return that it unlocks.
* `WebSnapshotProofs`: a tab has one load at a time (`Owned`), and its history has been kept
  since that load began (`Watched`); a tag names the snapshot it came with wherever it is
  kept (`Tagged`), so "not modified" confirms a copy that is the one being served; what a load
  waits to compare with the pointer was current since it began and is no older than what
  its tab stored (`Fetched`). That is what makes `OwnWritesAdvance` a property of one tab
  and not of two. `CopiesStay` needs that a load which is about to remove an entry has
  resolved what it could not store, or is of a tab that has stored nothing since it read
  (`Removing`).
* `WebCheckProofs`: `RowsHonest` is `CarryIsClassify` applied to the row's last scan. For
  `LinksVerified`, every answer the endpoint gave or kept is a reading of the index
  between its instant and now (`DocumentsAreEvidence`), and a verification is taken from such an
  answer (`BodiesAreObtained`, `VerifiedIsEvidence`).

Model-checked only: the five liveness properties, `RunsEnd`, `ScansReachReaders`,
`EverythingEnds`, `RequestsAreAnswered` and `LoadsSettle`, which rest on fairness and on
`ENABLED`. Of the last three the safety half is proved (`RunsAreBounded` and `PoolGoesOn`,
`QueuesMove`, `WaitsHaveLoads`). No theorem rests on induction over data: `Lifecycle`,
whose chains of carries would need it, is proved for one and two carries and, through the
invariant of `WebCheck`, for every chain a behaviour can make. The
defaults satisfy `WindowAssumption` (ten
seconds against sixty); `CheckConfig` would accept a window of one second and a timeout
of sixty, and nothing is claimed of such a configuration.

## Plan

Done: the publisher with `PublishedSnapshot`, the checker pool, the fresh-check endpoint
and its store, the read API with `ServedSnapshot`, the web application's loads and checks,
classification with carrying forward, and the proofs of all their invariants and action
properties. What is left, in the order of importance:

1. The safety halves of `RunsEnd` and `ScansReachReaders`: that an invocation takes a
   bounded number of calls, and can always make the next one.
2. How far `Sound` can be weakened: damage without lost replies, and what a repeated event
   leaves intact.
3. `ReadApi` composed with `Publisher` step by step, instead of with a table that may do
   more than the publisher lets it.
4. A backlog of markers drains when schedules keep firing: needs a model of the schedule
   that is not bounded by `MaxRuns`.
5. A visitor's clock that is not the endpoint's: what a skew does to links.

## Not modelled, and why

* Attribute encoding, compression, canonical JSON, parsing, logging and redaction: pure
  conversions, one value at a time, with tests of their own.
* `DeleteChunks`, and the in-memory and file stores: no production caller, or stand-ins
  for the table in tests and the preview.
* Pagination, the 25-item limit and the wait between batches: how many calls one call
  takes. A batch write that stores some items and returns the rest is modelled.
* The CLI: one sequential pass around the checker pool.
* Refusals of the fresh-check endpoint before its first charge, and the parsing of its
  configuration: no state. What the configuration guarantees is `CheckAssumption`.
* A counter's update that the AWS client repeats after a lost reply: the charge is then
  counted twice, which refuses a request too many and admits none too many.
* A backlog of markers that refuse to be expired and spend the budget of every pass:
  `RunsEnd` says that each pass ends, not that the backlog drains (Plan, 4).
* The requests one upstream call may cost: the client repeats a batch up to its configured
  retries (`ens/client.go:158`), so the subgraph sees a multiple of the budget, which the
  code counts per batch, as `LoadIsBounded` does.
* Fixtures, the simulated clock, presentation and animation in the web application, and the
  infrastructure code, whose values (schedules, timeout, concurrency) are the constants
  here.
