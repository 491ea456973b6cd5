--------------------------- MODULE CheckerPoolProofs ---------------------------
(***************************************************************************)
(* The checker pool, for any number of workers, batches and retries: what  *)
(* a run returns is complete, names its cause, and leaves nothing running. *)
(* Completeness needs to know where every batch is (Placed), that it is in *)
(* one place (Once), and why the run was cancelled (Cancellation).  Of its *)
(* liveness the two safe halves are proved: a run takes a bounded number   *)
(* of steps, and its goroutines never all wait for one another.            *)
(***************************************************************************)
EXTENDS CheckerPool, FiniteSetTheorems, TLAPS

-----------------------------------------------------------------------------
(* The inductive invariant                                                 *)

\* The run is cancelled by its caller, by the first error, or by its own return.
Cancellation ==
  /\ cancelled => callerGone \/ firstErr # None \/ result # "running"
  /\ callerGone \/ firstErr # None => cancelled
  /\ firstErr = "canceled" => callerGone
  /\ firstErr = "refused" => refusals
  /\ result = "failed" => firstErr # None \/ callerGone

\* The order of the closes.
Closing ==
  /\ jobsClosed => fed = Batches \/ cancelled
  /\ outputsClosed => \A w \in Workers : state[w] = "done"
  /\ result # "running" => outputsClosed /\ outputs = <<>>

\* An error a worker holds or has emitted has a cause.
Caused(what) ==
  /\ what = "canceled" => cancelled
  /\ what = "refused" => refusals

OutcomesCaused ==
  /\ \A w \in Workers : Caused(outcome[w])
  /\ \A k \in 1 .. Len(outputs) : Caused(outputs[k].what)

\* A worker ends because there is no more work, or because something failed.
Ending ==
  \A w \in Workers :
    state[w] = "done" =>
      \/ jobsClosed \/ cancelled
      \/ \E k \in 1 .. Len(outputs) : outputs[k].what # "answered"

\* A batch handed over is answered, held or emitted, unless the run is cancelled.
Placed ==
  \A b \in 1 .. fed :
    \/ cancelled \/ answered[b] = 1
    \/ \E w \in Workers : held[w] = b
    \/ \E k \in 1 .. Len(outputs) : outputs[k].batch = b

\* A batch is in one place.
Once ==
  /\ \A b \in Batch : answered[b] \in {0, 1} /\ (b > fed => answered[b] = 0)
  /\ \A w \in Workers : held[w] # None => held[w] <= fed /\ answered[held[w]] = 0
  /\ \A v, w \in Workers : held[v] # None /\ held[v] = held[w] => v = w
  /\ \A k \in 1 .. Len(outputs) :
       /\ outputs[k].batch <= fed /\ answered[outputs[k].batch] = 0
       /\ \A w \in Workers : held[w] # outputs[k].batch
  /\ \A j, k \in 1 .. Len(outputs) : outputs[j].batch = outputs[k].batch => j = k

IInv ==
  /\ TypeOK /\ Cancellation /\ Closing /\ OutcomesCaused
  /\ Ending /\ Placed /\ Once /\ ResultsAreComplete

-----------------------------------------------------------------------------
(* Channels and the pool                                                   *)

USE DEF vars, feeder, pool, caller

\* What appending does to the channel.
LEMMA Appended ==
  ASSUME NEW s \in Seq(Outputs), NEW e \in Outputs
  PROVE  /\ Append(s, e) \in Seq(Outputs)
         /\ Len(Append(s, e)) = Len(s) + 1
         /\ \A k \in 1 .. Len(s) : Append(s, e)[k] = s[k]
         /\ Append(s, e)[Len(s) + 1] = e
OBVIOUS

\* What receiving does to the channel.
LEMMA Received ==
  ASSUME NEW s \in Seq(Outputs), s # <<>>
  PROVE  /\ Tail(s) \in Seq(Outputs)
         /\ Len(Tail(s)) = Len(s) - 1
         /\ \A k \in 1 .. Len(Tail(s)) : Tail(s)[k] = s[k + 1]
         /\ Head(s) = s[1] /\ Head(s) \in Outputs /\ 1 \in 1 .. Len(s)
OBVIOUS

\* The capacity of the channel is a number.
LEMMA Capacity == Cardinality(Workers) \in Nat
BY FS_CardinalityType, PoolAssumption

-----------------------------------------------------------------------------
(* Type correctness                                                        *)

LEMMA TypeInit == ASSUME Init PROVE TypeOK
<1>1. /\ fed \in 0 .. Batches /\ tries \in [Workers -> 0 .. Retries]
      /\ answered \in [Batch -> Nat]
  BY PoolAssumption DEF Init
<1>2. outputs \in Seq(Outputs) /\ Len(outputs) <= Cardinality(Workers)
  BY Capacity DEF Init
<1>3. /\ state \in [Workers -> {"waiting", "asking", "emitting", "done"}]
      /\ held \in [Workers -> Batch \cup {None}]
      /\ outcome \in [Workers -> {"answered", "refused", "canceled", None}]
      /\ \A w \in Workers : state[w] = "waiting" /\ held[w] = None /\ outcome[w] = None
  BY DEF Init
<1> QED BY <1>1, <1>2, <1>3 DEF Init, TypeOK

\* The feeder hands a batch to a worker that waits.
LEMMA FeedType == ASSUME TypeOK, NEW w \in Workers, Feed(w) PROVE TypeOK'
<1>1. fed + 1 \in Batch /\ fed + 1 # None
  BY PoolAssumption DEF TypeOK, Feed, Batch
<1> QED BY <1>1, PoolAssumption DEF TypeOK, Feed, Batch

\* A lookup that returns, repeats or is interrupted.
LEMMA LookupType == ASSUME TypeOK, NEW w \in Workers, Lookup(w) PROVE TypeOK'
<1>1. ASSUME NEW what \in {"answered", "refused", "canceled"},
             state[w] = "asking", Returns(w, what),
             cancelled' \in BOOLEAN, refusals' \in BOOLEAN
      PROVE  TypeOK'
  BY <1>1, PoolAssumption DEF TypeOK, Returns
<1>2. CASE Answer(w) BY <1>1, <1>2 DEF Answer, TypeOK
<1>3. CASE Refuse(w) BY <1>1, <1>3 DEF Refuse, TypeOK
<1>4. CASE Retry(w)  BY <1>4, PoolAssumption DEF Retry, TypeOK
<1>5. CASE Interrupt(w) BY <1>1, <1>5 DEF Interrupt, TypeOK
<1> QED BY <1>2, <1>3, <1>4, <1>5 DEF Lookup

\* What a worker emits is a batch and what its lookup said of it.
LEMMA EmitsOutput ==
  ASSUME TypeOK, NEW w \in Workers, state[w] = "emitting"
  PROVE  [batch |-> held[w], what |-> outcome[w]] \in Outputs
BY PoolAssumption DEF TypeOK, Outputs

\* A worker emits, drops or leaves.
LEMMA EndType ==
  ASSUME TypeOK, NEW w \in Workers, Emit(w) \/ Drop(w) \/ Leave(w) PROVE TypeOK'
<1>1. CASE Emit(w)
  <2>1. /\ outputs' \in Seq(Outputs) /\ Len(outputs') = Len(outputs) + 1
    BY <1>1, EmitsOutput, Appended DEF Emit, TypeOK
  <2>2. Len(outputs') <= Cardinality(Workers) BY <1>1, <2>1, Capacity DEF Emit, TypeOK
  <2> QED BY <1>1, <2>1, <2>2 DEF Emit, TypeOK
<1>2. CASE Drop(w) BY <1>2 DEF Drop, TypeOK
<1>3. CASE Leave(w) BY <1>3 DEF Leave, TypeOK
<1> QED BY <1>1, <1>2, <1>3

\* The caller receives an output.
LEMMA CollectType == ASSUME TypeOK, Collect PROVE TypeOK'
<1>1. outputs' \in Seq(Outputs) /\ Len(outputs') <= Cardinality(Workers)
  BY Received, Capacity DEF Collect, TypeOK
<1>2. Head(outputs).batch \in Batch
      /\ Head(outputs).what \in {"answered", "refused", "canceled"}
  BY Received DEF Collect, TypeOK, Outputs
<1>3. answered' \in [Batch -> Nat] BY <1>2 DEF Collect, TypeOK
<1>4. firstErr' \in {"refused", "canceled", None} /\ cancelled' \in BOOLEAN
  BY <1>2 DEF Collect, TypeOK
<1> QED BY <1>1, <1>3, <1>4 DEF Collect, TypeOK

LEMMA TypeStep == ASSUME TypeOK, [Next]_vars PROVE TypeOK'
<1>1. CASE Next
  <2>1. CASE \E w \in Workers : Feed(w) BY <2>1, FeedType
  <2>2. CASE CloseJobs BY <2>2 DEF CloseJobs, TypeOK
  <2>3. CASE CloseOutputs BY <2>3 DEF CloseOutputs, TypeOK
  <2>4. CASE Collect BY <2>4, CollectType
  <2>5. CASE Return BY <2>5 DEF Return, TypeOK
  <2>6. CASE \E w \in Workers : Worker(w) BY <2>6, LookupType, EndType DEF Worker
  <2>7. CASE CallerStops BY <2>7 DEF CallerStops, TypeOK
  <2> QED BY <1>1, <2>1, <2>2, <2>3, <2>4, <2>5, <2>6, <2>7 DEF Next, Feeder, Caller
<1>2. CASE UNCHANGED vars BY <1>2 DEF TypeOK
<1> QED BY <1>1, <1>2

\* Every variable keeps its type, and the channel its capacity.
THEOREM PoolTypes == Spec => []TypeOK
<1>1. Init => TypeOK BY TypeInit
<1>2. TypeOK /\ [Next]_vars => TypeOK' BY TypeStep
<1> QED BY <1>1, <1>2, PTL DEF Spec

-----------------------------------------------------------------------------
(* Why the run is cancelled, and what its closes promise                   *)

\* What a worker emits ends up behind everything emitted before.
LEMMA Emitted ==
  ASSUME TypeOK, NEW w \in Workers, Emit(w)
  PROVE  /\ Len(outputs) \in Nat /\ Len(outputs') = Len(outputs) + 1
         /\ \A k \in 1 .. Len(outputs) : k \in 1 .. Len(outputs') /\ outputs'[k] = outputs[k]
         /\ Len(outputs) + 1 \in 1 .. Len(outputs')
         /\ outputs'[Len(outputs) + 1].batch = held[w]
         /\ outputs'[Len(outputs) + 1].what = outcome[w]
<1>1. /\ Len(outputs) \in Nat /\ Len(outputs') = Len(outputs) + 1
      /\ \A k \in 1 .. Len(outputs) : outputs'[k] = outputs[k]
      /\ outputs'[Len(outputs) + 1] = [batch |-> held[w], what |-> outcome[w]]
  BY EmitsOutput, Appended DEF Emit, TypeOK
<1> QED BY <1>1

\* What the caller leaves in the channel moves up by one.
LEMMA Collected ==
  ASSUME TypeOK, Collect
  PROVE  /\ Len(outputs) \in Nat /\ Len(outputs') = Len(outputs) - 1
         /\ \A k \in 1 .. Len(outputs') :
              k + 1 \in 1 .. Len(outputs) /\ outputs'[k] = outputs[k + 1]
         /\ \A k \in 2 .. Len(outputs) :
              k - 1 \in 1 .. Len(outputs') /\ outputs'[k - 1] = outputs[k]
         /\ Head(outputs) = outputs[1] /\ 1 \in 1 .. Len(outputs)
         /\ Head(outputs) \in Outputs
<1>1. /\ Len(outputs) \in Nat /\ Len(outputs') = Len(outputs) - 1
      /\ \A k \in 1 .. Len(outputs') : outputs'[k] = outputs[k + 1]
      /\ Head(outputs) = outputs[1] /\ 1 \in 1 .. Len(outputs)
      /\ Head(outputs) \in Outputs
  BY Received DEF Collect, TypeOK
<1>2. ASSUME NEW k \in 2 .. Len(outputs)
      PROVE  k - 1 \in 1 .. Len(outputs') /\ outputs'[k - 1] = outputs[k]
  <2>1. k - 1 \in 1 .. Len(outputs') /\ (k - 1) + 1 = k BY <1>1, <1>2
  <2>2. outputs'[k - 1] = outputs[(k - 1) + 1] BY <1>1, <2>1
  <2> QED BY <2>1, <2>2
<1> QED BY <1>1, <1>2

\* The output the caller receives has a cause.
LEMMA HeadCaused ==
  ASSUME TypeOK, OutcomesCaused, outputs # <<>>
  PROVE  /\ Head(outputs).what \in {"answered", "refused", "canceled"}
         /\ Caused(Head(outputs).what)
BY Received DEF TypeOK, OutcomesCaused, Outputs

\* The caller's first error gets its cause when it is collected: a lookup the
\* run cancelled for an earlier error cannot be the first.
LEMMA CancellationStep == ASSUME IInv, Next PROVE Cancellation'
<1> USE DEF IInv, Cancellation
<1>1. CASE \E w \in Workers : Feed(w) BY <1>1 DEF Feed
<1>2. CASE CloseJobs BY <1>2 DEF CloseJobs
<1>3. CASE CloseOutputs BY <1>3 DEF CloseOutputs
<1>4. CASE Collect
  <2>1. /\ Head(outputs).what \in {"answered", "refused", "canceled"}
        /\ Caused(Head(outputs).what)
    BY <1>4, HeadCaused DEF Collect
  <2>2. Head(outputs).what # None BY <2>1, PoolAssumption
  <2> QED BY <1>4, <2>1, <2>2, PoolAssumption DEF Collect, Caused
<1>5. CASE Return BY <1>5 DEF Return
<1>6. ASSUME NEW w \in Workers, Worker(w) PROVE Cancellation'
  BY <1>6 DEF Worker, Lookup, Answer, Refuse, Retry, Interrupt, Returns, Emit, Drop, Leave
<1>7. CASE CallerStops BY <1>7 DEF CallerStops
<1> QED BY <1>1, <1>2, <1>3, <1>4, <1>5, <1>6, <1>7 DEF Next, Feeder, Caller

\* After the close of outputs no worker has a step left.
LEMMA ClosingStep == ASSUME IInv, Next PROVE Closing'
<1> USE DEF IInv, Closing
<1>1. CASE \E w \in Workers : Feed(w)
  <2>1. ~outputsClosed BY <1>1 DEF Feed
  <2> QED BY <1>1, <2>1 DEF Feed
<1>2. CASE CloseJobs BY <1>2 DEF CloseJobs
<1>3. CASE CloseOutputs BY <1>3 DEF CloseOutputs
<1>4. CASE Collect BY <1>4 DEF Collect
<1>5. CASE Return BY <1>5 DEF Return
<1>6. ASSUME NEW w \in Workers, Worker(w) PROVE Closing'
  <2>1. ~outputsClosed
    BY <1>6 DEF Worker, Lookup, Answer, Refuse, Retry, Interrupt, Emit, Drop, Leave
  <2> QED BY <1>6, <2>1 DEF Worker, Lookup, Answer, Refuse, Retry, Interrupt, Returns,
                              Emit, Drop, Leave
<1>7. CASE CallerStops BY <1>7 DEF CallerStops
<1> QED BY <1>1, <1>2, <1>3, <1>4, <1>5, <1>6, <1>7 DEF Next, Feeder, Caller

-----------------------------------------------------------------------------
(* Where an error comes from                                               *)

\* An emitted error keeps the cause it had while the worker held it.
LEMMA EmitCaused ==
  ASSUME TypeOK, OutcomesCaused, NEW w \in Workers, Emit(w) PROVE OutcomesCaused'
<1>1. \A k \in 1 .. Len(outputs') :
        \/ k \in 1 .. Len(outputs) /\ outputs'[k] = outputs[k]
        \/ outputs'[k].what = outcome[w]
  BY Emitted
<1>2. \A k \in 1 .. Len(outputs') : Caused(outputs'[k].what)
  BY <1>1 DEF OutcomesCaused
<1>3. Caused(None) BY PoolAssumption DEF Caused
<1>4. \A v \in Workers : Caused(outcome'[v])
  BY <1>3 DEF Emit, OutcomesCaused, TypeOK
<1> QED BY <1>2, <1>4 DEF OutcomesCaused, Caused, Emit

LEMMA OutcomesStep == ASSUME IInv, Next PROVE OutcomesCaused'
<1> USE DEF IInv
<1>1. CASE \E w \in Workers : Feed(w) BY <1>1 DEF Feed, OutcomesCaused, Caused
<1>2. CASE CloseJobs BY <1>2 DEF CloseJobs, OutcomesCaused, Caused
<1>3. CASE CloseOutputs BY <1>3 DEF CloseOutputs, OutcomesCaused, Caused
<1>4. CASE Collect
  <2>1. \A k \in 1 .. Len(outputs') : Caused(outputs'[k].what)
    BY <1>4, Collected DEF OutcomesCaused
  <2>2. outcome' = outcome /\ refusals' = refusals /\ (cancelled => cancelled')
    BY <1>4 DEF Collect
  <2> QED BY <2>1, <2>2 DEF OutcomesCaused, Caused
<1>5. CASE Return BY <1>5 DEF Return, OutcomesCaused, Caused
<1>6. ASSUME NEW w \in Workers, Lookup(w) PROVE OutcomesCaused'
  BY <1>6 DEF Lookup, Answer, Refuse, Retry, Interrupt, Returns, OutcomesCaused, Caused,
              TypeOK
<1>7. ASSUME NEW w \in Workers, Drop(w) \/ Leave(w) PROVE OutcomesCaused'
  BY <1>7, PoolAssumption DEF Drop, Leave, OutcomesCaused, Caused, TypeOK
<1>8. CASE CallerStops BY <1>8 DEF CallerStops, OutcomesCaused, Caused
<1> QED BY <1>1, <1>2, <1>3, <1>4, <1>5, <1>6, <1>7, <1>8, EmitCaused
        DEF Next, Feeder, Caller, Worker

-----------------------------------------------------------------------------
(* Why a worker ends                                                       *)

LEMMA EndingStep == ASSUME IInv, Next PROVE Ending'
<1> USE DEF IInv
<1>1. ASSUME NEW w \in Workers, Feed(w) PROVE Ending'
  <2>1. \A v \in Workers : state'[v] = "done" => state[v] = "done" BY <1>1 DEF Feed, TypeOK
  <2> QED BY <1>1, <2>1 DEF Feed, Ending
<1>2. CASE CloseJobs BY <1>2 DEF CloseJobs, Ending
<1>3. CASE CloseOutputs BY <1>3 DEF CloseOutputs, Ending
<1>4. CASE Collect
  <2>1. CASE Head(outputs).what # "answered" BY <1>4, <2>1 DEF Collect, Ending
  <2>2. CASE Head(outputs).what = "answered"
    <3>1. ASSUME NEW k \in 1 .. Len(outputs), outputs[k].what # "answered"
          PROVE  \E j \in 1 .. Len(outputs') : outputs'[j].what # "answered"
      <4>1. k \in 2 .. Len(outputs) BY <1>4, <2>2, <3>1, Collected
      <4> QED BY <1>4, <3>1, <4>1, Collected
    <3> QED BY <1>4, <2>2, <3>1 DEF Collect, Ending
  <2> QED BY <2>1, <2>2
<1>5. CASE Return BY <1>5 DEF Return, Ending
<1>6. ASSUME NEW w \in Workers, Lookup(w) PROVE Ending'
  BY <1>6 DEF Lookup, Answer, Refuse, Retry, Interrupt, Returns, Ending, TypeOK
<1>7. ASSUME NEW w \in Workers, Drop(w) \/ Leave(w) PROVE Ending'
  BY <1>7 DEF Drop, Leave, Ending, TypeOK
<1>8. ASSUME NEW w \in Workers, Emit(w) PROVE Ending'
  <2>1. ASSUME NEW v \in Workers, state'[v] = "done"
        PROVE  \/ jobsClosed' \/ cancelled'
               \/ \E k \in 1 .. Len(outputs') : outputs'[k].what # "answered"
    <3>1. CASE v = w BY <1>8, <2>1, <3>1, Emitted DEF Emit, TypeOK
    <3>2. CASE v # w BY <1>8, <2>1, <3>2, Emitted DEF Emit, TypeOK, Ending
    <3> QED BY <3>1, <3>2
  <2> QED BY <2>1 DEF Ending
<1>9. CASE CallerStops BY <1>9 DEF CallerStops, Ending
<1> QED BY <1>1, <1>2, <1>3, <1>4, <1>5, <1>6, <1>7, <1>8, <1>9
        DEF Next, Feeder, Caller, Worker

-----------------------------------------------------------------------------
(* Where a batch is                                                        *)

LEMMA PlacedStep == ASSUME IInv, Next PROVE Placed'
<1> USE DEF IInv
<1>1. ASSUME NEW w \in Workers, Feed(w) PROVE Placed'
  <2>1. /\ fed \in Nat /\ fed' = fed + 1 /\ held'[w] = fed + 1 /\ held[w] = None
        /\ \A v \in Workers \ {w} : held'[v] = held[v]
    <3>1. fed \in Nat /\ held \in [Workers -> Batch \cup {None}]
      BY PoolAssumption DEF TypeOK
    <3>2. state[w] = "waiting" /\ fed' = fed + 1 /\ held' = [held EXCEPT ![w] = fed + 1]
      BY <1>1 DEF Feed
    <3>3. held[w] = None BY <3>2 DEF TypeOK
    <3> QED BY <3>1, <3>2, <3>3
  <2>2. ASSUME NEW b \in 1 .. fed, NEW v \in Workers, held[v] = b PROVE held'[v] = b
    BY <2>1, <2>2, PoolAssumption
  <2>3. ASSUME NEW b \in 1 .. fed'
        PROVE  \/ cancelled' \/ answered'[b] = 1
               \/ \E v \in Workers : held'[v] = b
               \/ \E k \in 1 .. Len(outputs') : outputs'[k].batch = b
    <3>1. CASE b = fed + 1 BY <2>1, <3>1
    <3>2. CASE b \in 1 .. fed BY <1>1, <2>2, <3>2 DEF Feed, Placed
    <3> QED BY <2>1, <2>3, <3>1, <3>2
  <2> QED BY <2>3 DEF Placed
<1>2. CASE CloseJobs BY <1>2 DEF CloseJobs, Placed
<1>3. CASE CloseOutputs BY <1>3 DEF CloseOutputs, Placed
<1>4. CASE Collect
  <2>1. CASE Head(outputs).what # "answered" BY <1>4, <2>1 DEF Collect, Placed
  <2>2. CASE Head(outputs).what = "answered"
    <3>1. /\ answered' = [answered EXCEPT ![outputs[1].batch] = @ + 1]
          /\ outputs[1].batch \in Batch /\ 1 \in 1 .. Len(outputs)
      BY <1>4, <2>2, Collected DEF Collect, Outputs
    <3>2. answered'[outputs[1].batch] = 1 BY <3>1 DEF Once, TypeOK
    <3>3. \A b \in Batch : answered[b] = 1 => answered'[b] = 1
      BY <3>1 DEF Once, TypeOK
    <3>4. ASSUME NEW b \in 1 .. fed, NEW k \in 1 .. Len(outputs), outputs[k].batch = b
          PROVE  answered'[b] = 1 \/ \E j \in 1 .. Len(outputs') : outputs'[j].batch = b
      <4>1. k = 1 \/ k \in 2 .. Len(outputs) BY <3>4
      <4> QED BY <1>4, <3>2, <3>4, <4>1, Collected
    <3>5. 1 .. fed \subseteq Batch BY PoolAssumption DEF TypeOK, Batch
    <3> QED BY <1>4, <2>2, <3>3, <3>4, <3>5 DEF Collect, Placed
  <2> QED BY <2>1, <2>2
<1>5. CASE Return BY <1>5 DEF Return, Placed
<1>6. ASSUME NEW w \in Workers, Lookup(w) PROVE Placed'
  BY <1>6 DEF Lookup, Answer, Refuse, Retry, Interrupt, Returns, Placed
<1>7. ASSUME NEW w \in Workers, Drop(w) \/ Leave(w) PROVE Placed'
  BY <1>7 DEF Drop, Leave, Placed
<1>8. ASSUME NEW w \in Workers, Emit(w) PROVE Placed'
  <2>1. ASSUME NEW b \in 1 .. fed, NEW v \in Workers, held[v] = b
        PROVE  held'[v] = b \/ \E k \in 1 .. Len(outputs') : outputs'[k].batch = b
    BY <1>8, <2>1, Emitted DEF Emit, TypeOK
  <2>2. ASSUME NEW b \in 1 .. fed, NEW k \in 1 .. Len(outputs), outputs[k].batch = b
        PROVE  \E j \in 1 .. Len(outputs') : outputs'[j].batch = b
    BY <1>8, <2>2, Emitted
  <2> QED BY <1>8, <2>1, <2>2 DEF Emit, Placed
<1>9. CASE CallerStops BY <1>9 DEF CallerStops, Placed
<1> QED BY <1>1, <1>2, <1>3, <1>4, <1>5, <1>6, <1>7, <1>8, <1>9
        DEF Next, Feeder, Caller, Worker

-----------------------------------------------------------------------------
(* A batch is in one place                                                 *)

\* What is emitted is a batch.
LEMMA Queued ==
  ASSUME TypeOK, NEW k \in 1 .. Len(outputs)
  PROVE  /\ outputs[k].batch \in Batch /\ outputs[k].batch \in Nat
         /\ outputs[k].batch # None
<1>1. outputs[k] \in Outputs BY DEF TypeOK
<1> QED BY <1>1, PoolAssumption DEF Outputs, Batch

\* A batch handed over is one nobody has seen.
LEMMA FeedOnce == ASSUME IInv, NEW w \in Workers, Feed(w) PROVE Once'
<1> USE DEF IInv, Once
<1>1. /\ fed \in Nat /\ fed' = fed + 1 /\ held'[w] = fed + 1 /\ fed + 1 \in Batch
      /\ \A v \in Workers \ {w} : held'[v] = held[v]
      /\ answered' = answered /\ outputs' = outputs
  BY PoolAssumption DEF Feed, TypeOK, Batch
<1>2. answered[fed + 1] = 0 BY <1>1
<1>3. \A v \in Workers : held[v] # fed + 1
  <2> SUFFICES ASSUME NEW v \in Workers, held[v] = fed + 1 PROVE FALSE OBVIOUS
  <2>1. fed + 1 # None BY <1>1, PoolAssumption
  <2> QED BY <1>1, <2>1
<1>4. \A k \in 1 .. Len(outputs) : outputs[k].batch <= fed /\ outputs[k].batch # fed + 1
  BY <1>1
<1>5. \A k \in 1 .. Len(outputs) : outputs[k].batch \in Nat BY Queued
<1>6. \A v \in Workers : held[v] # None => held[v] \in Nat
  BY PoolAssumption DEF TypeOK, Batch
<1>7. /\ \A b \in Batch : answered'[b] \in {0, 1} /\ (b > fed' => answered'[b] = 0)
      /\ \A v \in Workers : held'[v] # None => held'[v] <= fed' /\ answered'[held'[v]] = 0
  BY <1>1, <1>2, <1>6 DEF Batch
<1>8. \A u, v \in Workers : held'[u] # None /\ held'[u] = held'[v] => u = v
  BY <1>1, <1>3
<1>9. \A k \in 1 .. Len(outputs') :
        /\ outputs'[k].batch <= fed' /\ answered'[outputs'[k].batch] = 0
        /\ \A v \in Workers : held'[v] # outputs'[k].batch
  BY <1>1, <1>4, <1>5
<1> QED BY <1>1, <1>7, <1>8, <1>9

\* What a worker held is then in the channel only.
LEMMA EmitOnce == ASSUME IInv, NEW w \in Workers, Emit(w) PROVE Once'
<1> USE DEF IInv, Once
<1>1. /\ held'[w] = None /\ \A v \in Workers \ {w} : held'[v] = held[v]
      /\ answered' = answered /\ fed' = fed
      /\ held[w] \in Batch /\ held[w] # None
  BY PoolAssumption DEF Emit, TypeOK
<1>2. \A k \in 1 .. Len(outputs') :
        \/ k \in 1 .. Len(outputs) /\ outputs'[k] = outputs[k]
        \/ k = Len(outputs) + 1 /\ outputs'[k].batch = held[w]
  BY Emitted
<1>3. \A k \in 1 .. Len(outputs) : outputs[k].batch # held[w] /\ outputs[k].batch # None
  BY Queued
<1>4. \A v \in Workers : held'[v] # None => held'[v] <= fed' /\ answered'[held'[v]] = 0
  BY <1>1
<1>5. \A u, v \in Workers : held'[u] # None /\ held'[u] = held'[v] => u = v
  BY <1>1
<1>6. \A k \in 1 .. Len(outputs') :
        /\ outputs'[k].batch <= fed' /\ answered'[outputs'[k].batch] = 0
        /\ \A v \in Workers : held'[v] # outputs'[k].batch
  BY <1>1, <1>2, <1>3
<1>7. \A j, k \in 1 .. Len(outputs') : outputs'[j].batch = outputs'[k].batch => j = k
  BY <1>2, <1>3
<1> QED BY <1>1, <1>4, <1>5, <1>6, <1>7

\* What the caller received is then answered, and in no worker or channel.
LEMMA CollectOnce == ASSUME IInv, Collect PROVE Once'
<1> USE DEF IInv, Once
<1>1. /\ outputs[1].batch \in Batch /\ 1 \in 1 .. Len(outputs)
      /\ held' = held /\ fed' = fed
  BY Collected DEF Collect, Outputs
<1>2. /\ \A b \in Batch : b # outputs[1].batch => answered'[b] = answered[b]
      /\ answered'[outputs[1].batch] \in {0, 1}
  BY <1>1, Collected DEF Collect, TypeOK
<1>3. /\ outputs[1].batch <= fed /\ \A v \in Workers : held[v] # outputs[1].batch
  BY <1>1
<1>4. \A k \in 1 .. Len(outputs') :
        \E j \in 2 .. Len(outputs) : outputs'[k] = outputs[j] /\ j = k + 1
  BY Collected
<1>5. \A j \in 2 .. Len(outputs) : outputs[j].batch # outputs[1].batch
  BY <1>1
<1>6. \A j \in 1 .. Len(outputs) : outputs[j].batch \in Batch BY Queued
<1>7. \A v \in Workers : held[v] # None => held[v] \in Batch BY DEF TypeOK
<1>8. /\ fed \in Nat /\ \A b \in Batch : b \in Nat
  BY PoolAssumption DEF TypeOK, Batch
<1>9. \A b \in Batch : answered'[b] \in {0, 1} /\ (b > fed' => answered'[b] = 0)
  BY <1>1, <1>2, <1>3, <1>8
<1>10. \A v \in Workers : held'[v] # None => held'[v] <= fed' /\ answered'[held'[v]] = 0
  BY <1>1, <1>2, <1>3, <1>7
<1>11. \A k \in 1 .. Len(outputs') :
        /\ outputs'[k].batch <= fed' /\ answered'[outputs'[k].batch] = 0
        /\ \A v \in Workers : held'[v] # outputs'[k].batch
  BY <1>1, <1>2, <1>4, <1>5, <1>6
<1>12. \A j, k \in 1 .. Len(outputs') : outputs'[j].batch = outputs'[k].batch => j = k
  <2> SUFFICES ASSUME NEW j \in 1 .. Len(outputs'), NEW k \in 1 .. Len(outputs'),
                      outputs'[j].batch = outputs'[k].batch
               PROVE  j = k
    OBVIOUS
  <2>1. /\ j + 1 \in 1 .. Len(outputs) /\ k + 1 \in 1 .. Len(outputs)
        /\ outputs'[j] = outputs[j + 1] /\ outputs'[k] = outputs[k + 1]
    BY Collected
  <2>2. j + 1 = k + 1 BY <2>1
  <2> QED BY <2>2
<1> QED BY <1>1, <1>9, <1>10, <1>11, <1>12

LEMMA OnceStep == ASSUME IInv, Next PROVE Once'
<1> USE DEF IInv
<1>1. CASE CloseJobs BY <1>1 DEF CloseJobs, Once
<1>2. CASE CloseOutputs BY <1>2 DEF CloseOutputs, Once
<1>3. CASE Return BY <1>3 DEF Return, Once
<1>4. CASE CallerStops BY <1>4 DEF CallerStops, Once
<1>5. ASSUME NEW w \in Workers, Lookup(w) PROVE Once'
  BY <1>5 DEF Lookup, Answer, Refuse, Retry, Interrupt, Returns, Once
<1>6. ASSUME NEW w \in Workers, Drop(w) \/ Leave(w) PROVE Once'
  <2>1. /\ \A v \in Workers : held'[v] = held[v] \/ held'[v] = None
        /\ fed' = fed /\ answered' = answered /\ outputs' = outputs
    BY <1>6 DEF Drop, Leave, TypeOK
  <2>2. \A k \in 1 .. Len(outputs) : outputs[k].batch # None BY Queued
  <2> QED BY <2>1, <2>2 DEF Once
<1> QED BY <1>1, <1>2, <1>3, <1>4, <1>5, <1>6, FeedOnce, EmitOnce, CollectOnce
        DEF Next, Feeder, Caller, Worker

-----------------------------------------------------------------------------
(* What the run returns                                                    *)

\* Outputs are closed and empty, nothing failed and the caller waits: every
\* worker ended because jobs was closed, jobs was closed because every batch was
\* handed over, and a batch handed over is nowhere but among the answers.
LEMMA ReturnComplete == ASSUME IInv, Return PROVE ResultsAreComplete'
<1> USE DEF IInv
<1>1. SUFFICES ASSUME firstErr = None, ~callerGone
               PROVE  \A b \in Batch : answered[b] = 1
  BY DEF Return, ResultsAreComplete
<1>2. ~cancelled BY <1>1 DEF Return, Cancellation, TypeOK
<1>3. \A w \in Workers : state[w] = "done" BY DEF Return, Closing
<1>4. 1 .. Len(outputs) = {} BY DEF Return
<1>5. jobsClosed BY <1>2, <1>3, <1>4, PoolAssumption DEF Ending
<1>6. fed = Batches BY <1>2, <1>5 DEF Closing
<1>7. \A w \in Workers : held[w] = None BY <1>3 DEF TypeOK
<1>8. \A b \in Batch : b # None BY PoolAssumption DEF Batch
<1> QED BY <1>2, <1>4, <1>6, <1>7, <1>8 DEF Placed, Batch

LEMMA ResultsStep == ASSUME IInv, Next PROVE ResultsAreComplete'
<1>1. CASE Return BY <1>1, ReturnComplete
<1>2. CASE ~Return
  <2>1. result' = result /\ (result # "running" => answered' = answered)
    BY <1>2 DEF Next, Feeder, Caller, Worker, Lookup, Feed, CloseJobs, CloseOutputs,
                Collect, Answer, Refuse, Retry, Interrupt, Returns, Emit, Drop, Leave,
                CallerStops
  <2> QED BY <2>1 DEF IInv, ResultsAreComplete
<1> QED BY <1>1, <1>2

-----------------------------------------------------------------------------
(* The theorems                                                            *)

LEMMA InvInit == ASSUME Init PROVE IInv
<1>1. /\ fed = 0 /\ ~jobsClosed /\ ~outputsClosed /\ ~cancelled /\ ~callerGone
      /\ firstErr = None /\ result = "running" /\ 1 .. Len(outputs) = {} /\ 1 .. fed = {}
      /\ \A w \in Workers : state[w] = "waiting" /\ held[w] = None /\ outcome[w] = None
      /\ \A b \in Batch : answered[b] = 0
  BY DEF Init
<1>2. Cancellation /\ OutcomesCaused
  BY <1>1, PoolAssumption DEF Cancellation, OutcomesCaused, Caused
<1>3. Closing /\ Ending /\ Placed /\ Once /\ ResultsAreComplete
  BY <1>1 DEF Closing, Ending, Placed, Once, ResultsAreComplete
<1> QED BY <1>2, <1>3, TypeInit DEF IInv

LEMMA InvStep == ASSUME IInv, [Next]_vars PROVE IInv'
<1>1. CASE Next
  <2>1. TypeOK' BY <1>1, TypeStep DEF IInv
  <2> QED BY <1>1, <2>1, CancellationStep, ClosingStep, OutcomesStep, EndingStep,
             PlacedStep, OnceStep, ResultsStep DEF IInv
<1>2. CASE UNCHANGED vars
  BY <1>2 DEF IInv, TypeOK, Cancellation, Closing, OutcomesCaused, Caused, Ending, Placed,
              Once, ResultsAreComplete
<1> QED BY <1>1, <1>2

LEMMA PoolInvariant == Spec => []IInv
<1>1. Init => IInv BY InvInit
<1>2. IInv /\ [Next]_vars => IInv' BY InvStep
<1> QED BY <1>1, <1>2, PTL DEF Spec

\* Results are complete: Run returns results only after it collected one answer
\* for every batch, whatever was refused, dropped, retried or cancelled.
THEOREM ResultsComplete == Spec => []ResultsAreComplete
<1>1. IInv => ResultsAreComplete BY DEF IInv
<1> QED BY <1>1, PoolInvariant, PTL

\* Run fails for a failure of the subgraph or because its caller stopped, and
\* never reports its own cancellation as the cause.
THEOREM ErrorsHaveCauses == Spec => []ErrorsNameTheirCause
<1>1. IInv => ErrorsNameTheirCause
  BY DEF IInv, TypeOK, Cancellation, ErrorsNameTheirCause
<1> QED BY <1>1, PoolInvariant, PTL

\* When Run has returned, every worker has ended and nothing is asking.
THEOREM NothingOutlives == Spec => []NothingOutlivesTheRun
<1>1. IInv => NothingOutlivesTheRun BY DEF IInv, Closing, NothingOutlivesTheRun
<1> QED BY <1>1, PoolInvariant, PTL

-----------------------------------------------------------------------------
(* The end of a run: no step leaves as much to do as there was, and until  *)
(* everything has ended there is a step that the code can take.            *)

\* The steps a worker can take before its next batch.
Owes(w) ==
  CASE state[w] = "asking" -> 4 + Retries - tries[w]
    [] state[w] = "emitting" -> 3
    [] state[w] = "waiting" -> 1
    [] OTHER -> 0

Owed == {step \in Workers \X (1 .. Retries + 4) : step[2] <= Owes(step[1])}

\* The batches not handed over yet, each with all that a worker may do with it.
Unfed == (Retries + 5) * (Batches - fed)

\* The closes, the return and the caller's stopping, each once.
Ends ==
  (IF jobsClosed THEN 0 ELSE 1) + (IF outputsClosed THEN 0 ELSE 1)
    + (IF result = "running" THEN 1 ELSE 0) + (IF callerGone THEN 0 ELSE 1)

\* A bound of the steps that are left.
Remaining == Cardinality(Owed) + Len(outputs) + Unfed + Ends

LEMMA OwesBound ==
  ASSUME TypeOK, NEW w \in Workers
  PROVE  Owes(w) \in 0 .. Retries + 4
<1>1. tries[w] \in 0 .. Retries /\ Retries \in Nat
  BY PoolAssumption DEF TypeOK
<1> QED BY <1>1 DEF Owes

LEMMA OwedIsFinite ==
  ASSUME NEW S \in SUBSET (Workers \X (1 .. Retries + 4))
  PROVE  IsFiniteSet(S) /\ Cardinality(S) \in Nat
<1>1. IsFiniteSet(Workers) /\ IsFiniteSet(1 .. Retries + 4)
  BY PoolAssumption, FS_Interval
<1>2. IsFiniteSet(Workers \X (1 .. Retries + 4)) BY <1>1, FS_Product
<1>3. IsFiniteSet(S) BY <1>2, FS_Subset
<1> QED BY <1>3, FS_CardinalityType

LEMMA Column ==
  ASSUME NEW w, NEW k \in Nat
  PROVE  IsFiniteSet({w} \X (1 .. k)) /\ Cardinality({w} \X (1 .. k)) = k
<1>1. IsFiniteSet(1 .. k) /\ Cardinality(1 .. k) = k BY FS_Interval
<1>2. IsFiniteSet({w}) /\ Cardinality({w}) = 1 BY FS_Singleton
<1> QED BY <1>1, <1>2, FS_Product

\* When one worker moves, what all owe changes by what that one owes.
LEMMA OneMoves ==
  ASSUME TypeOK, TypeOK', NEW w \in Workers,
         \A v \in Workers \ {w} : state'[v] = state[v] /\ tries'[v] = tries[v]
  PROVE  Cardinality(Owed') = Cardinality(Owed) - Owes(w) + Owes(w)'
<1> DEFINE rest == {step \in Owed : step[1] # w}
<1>1. Owes(w) \in 0 .. Retries + 4 /\ Retries \in Nat
  BY OwesBound, PoolAssumption
<1>2. Owes(w)' \in 0 .. Retries + 4
  <2>1. tries'[w] \in 0 .. Retries /\ Retries \in Nat
    BY PoolAssumption DEF TypeOK
  <2> QED BY <2>1 DEF Owes
<1>3. \A v \in Workers \ {w} : Owes(v)' = Owes(v)
  BY DEF Owes
<1>4. Owed = rest \cup ({w} \X (1 .. Owes(w)))
  <2>1. \A step \in {w} \X (1 .. Owes(w)) : step \in Owed
    BY <1>1 DEF Owed
  <2>2. \A step \in Owed : step[1] = w => step \in {w} \X (1 .. Owes(w))
    BY <1>1 DEF Owed
  <2> HIDE DEF Owed
  <2> QED BY <2>1, <2>2
<1>5. Owed' = rest \cup ({w} \X (1 .. Owes(w)'))
  <2>1. \A step \in {w} \X (1 .. Owes(w)') : step \in Owed'
    BY <1>1, <1>2 DEF Owed
  <2>2. \A step \in Owed' : step[1] = w => step \in {w} \X (1 .. Owes(w)')
    BY <1>1, <1>2 DEF Owed
  <2>3. \A step \in Workers \X (1 .. Retries + 4) :
          step[1] # w => (step \in Owed' <=> step \in Owed)
    BY <1>3 DEF Owed
  <2>4. Owed \subseteq Workers \X (1 .. Retries + 4)
        /\ Owed' \subseteq Workers \X (1 .. Retries + 4)
    BY DEF Owed
  <2> QED BY <2>1, <2>2, <2>3, <2>4
<1>6. /\ rest \cap ({w} \X (1 .. Owes(w))) = {}
      /\ rest \cap ({w} \X (1 .. Owes(w)')) = {}
  OBVIOUS
<1>7. IsFiniteSet(rest) /\ Cardinality(rest) \in Nat
  <2>1. rest \in SUBSET (Workers \X (1 .. Retries + 4)) BY DEF Owed
  <2> QED BY <2>1, OwedIsFinite
<1> HIDE DEF rest
<1>8. ASSUME NEW k \in 0 .. Retries + 4, rest \cap ({w} \X (1 .. k)) = {}
      PROVE  Cardinality(rest \cup ({w} \X (1 .. k))) = Cardinality(rest) + k
  <2>1. k \in Nat BY <1>1
  <2> DEFINE column == {w} \X (1 .. k)
  <2>2. IsFiniteSet(column) /\ Cardinality(column) = k BY <2>1, Column
  <2> HIDE DEF column
  <2>3. Cardinality(rest \cup column)
          = Cardinality(rest) + Cardinality(column) - Cardinality(rest \cap column)
    BY <1>7, <2>2, FS_Union
  <2>4. Cardinality(rest \cap column) = 0 BY <1>8, FS_EmptySet DEF column
  <2>5. Cardinality(rest \cup column) = Cardinality(rest) + k
    BY <1>7, <2>1, <2>2, <2>3, <2>4
  <2> QED BY <2>5 DEF column
<1>9. /\ Cardinality(Owed) = Cardinality(rest) + Owes(w)
      /\ Cardinality(Owed') = Cardinality(rest) + Owes(w)'
  BY <1>1, <1>2, <1>4, <1>5, <1>6, <1>8
<1> HIDE DEF Owed, Owes
<1> QED BY <1>1, <1>2, <1>7, <1>9

\* What is left is never negative.
LEMMA RemainingType ==
  ASSUME TypeOK
  PROVE  /\ Remaining \in Nat /\ Cardinality(Owed) \in Nat /\ Len(outputs) \in Nat
         /\ Unfed \in Nat /\ Ends \in Nat
<1>1. Retries \in Nat /\ Batches - fed \in Nat /\ Len(outputs) \in Nat
  BY PoolAssumption DEF TypeOK
<1>2. Unfed \in Nat
  <2>1. ASSUME NEW m \in Nat, NEW n \in Nat PROVE m * n \in Nat OBVIOUS
  <2> QED BY <1>1, <2>1 DEF Unfed
<1>3. Ends \in Nat BY DEF Ends
<1>4. Cardinality(Owed) \in Nat BY OwedIsFinite DEF Owed
<1> QED BY <1>1, <1>2, <1>3, <1>4 DEF Remaining

LEMMA FeedSpends ==
  ASSUME TypeOK, TypeOK', NEW w \in Workers, Feed(w)
  PROVE  Remaining' < Remaining
<1>1. /\ fed' = fed + 1 /\ Owes(w) = 1 /\ Owes(w)' = Retries + 4
      /\ outputs' = outputs /\ Ends' = Ends
  <2>1. state[w] = "waiting" /\ state'[w] = "asking" /\ tries'[w] = 0
    BY DEF Feed, TypeOK
  <2> QED BY <2>1, PoolAssumption DEF Feed, caller, Owes, Ends
<1>2. Cardinality(Owed') = Cardinality(Owed) - 1 + (Retries + 4)
  <2>1. \A v \in Workers \ {w} : state'[v] = state[v] /\ tries'[v] = tries[v]
    BY DEF Feed, TypeOK
  <2> QED BY <1>1, <2>1, OneMoves
<1>3. Unfed' = Unfed - (Retries + 5)
  <2>1. Retries \in Int /\ Batches \in Int /\ fed \in Int
    BY PoolAssumption DEF TypeOK
  <2> QED BY <1>1, <2>1 DEF Unfed
<1>4. Retries \in Nat BY PoolAssumption
<1>5. /\ Remaining' = Cardinality(Owed') + Len(outputs) + Unfed' + Ends
      /\ Remaining = Cardinality(Owed) + Len(outputs) + Unfed + Ends
  BY <1>1 DEF Remaining
<1>6. Cardinality(Owed) \in Nat /\ Len(outputs) \in Nat /\ Unfed \in Nat /\ Ends \in Nat
  BY RemainingType
<1> QED BY <1>2, <1>3, <1>4, <1>5, <1>6

\* A worker that moves without a new batch owes less, also for what it emits.
LEMMA WorkerSpends ==
  ASSUME TypeOK, TypeOK', NEW w \in Workers, Worker(w)
  PROVE  Remaining' < Remaining
<1>1. /\ \A v \in Workers \ {w} : state'[v] = state[v] /\ tries'[v] = tries[v]
      /\ UNCHANGED <<fed, jobsClosed, outputsClosed, result, callerGone>>
  BY DEF Worker, Lookup, Answer, Refuse, Interrupt, Returns, Retry, Emit, Drop, Leave,
         feeder, caller, TypeOK
<1>2. Owes(w)' + Len(outputs') < Owes(w) + Len(outputs)
  <2>1. tries[w] \in 0 .. Retries /\ Retries \in Nat /\ Len(outputs) \in Nat
    BY PoolAssumption DEF TypeOK
  <2>2. CASE Answer(w) \/ Refuse(w) \/ Interrupt(w)
    <3>1. state[w] = "asking" /\ state'[w] = "emitting" /\ outputs' = outputs
      BY <2>2 DEF Answer, Refuse, Interrupt, Returns, TypeOK
    <3> QED BY <2>1, <3>1 DEF Owes
  <2>3. CASE Retry(w)
    <3>1. /\ state[w] = "asking" /\ state'[w] = "asking" /\ outputs' = outputs
          /\ tries'[w] = tries[w] + 1
      BY <2>3 DEF Retry, TypeOK
    <3> QED BY <2>1, <3>1 DEF Owes
  <2>4. CASE Emit(w)
    <3>1. /\ state[w] = "emitting" /\ state'[w] \in {"waiting", "done"}
          /\ Len(outputs') = Len(outputs) + 1
      BY <2>4 DEF Emit, TypeOK
    <3> QED BY <2>1, <3>1 DEF Owes
  <2>5. CASE Drop(w) \/ Leave(w)
    <3>1. /\ state[w] \in {"emitting", "waiting"} /\ state'[w] = "done"
          /\ outputs' = outputs
      BY <2>5 DEF Drop, Leave, TypeOK
    <3> QED BY <2>1, <3>1 DEF Owes
  <2> QED BY <2>2, <2>3, <2>4, <2>5 DEF Worker, Lookup
<1>3. Cardinality(Owed') = Cardinality(Owed) - Owes(w) + Owes(w)'
  BY <1>1, OneMoves
<1>4. Owes(w) \in Nat /\ Owes(w)' \in Nat /\ Len(outputs') \in Nat
  <2>1. Owes(w) \in Nat BY OwesBound, PoolAssumption
  <2>2. tries'[w] \in 0 .. Retries /\ Retries \in Nat BY PoolAssumption DEF TypeOK
  <2>3. Owes(w)' \in Nat BY <2>2 DEF Owes
  <2> QED BY <2>1, <2>3 DEF TypeOK
<1>5. Unfed' = Unfed /\ Ends' = Ends BY <1>1 DEF Unfed, Ends
<1> QED BY <1>2, <1>3, <1>4, <1>5, RemainingType DEF Remaining

\* The closes, the collection of an output, the return, a caller that stops.
LEMMA OthersSpend ==
  ASSUME TypeOK, CloseJobs \/ CloseOutputs \/ Collect \/ Return \/ CallerStops
  PROVE  Remaining' < Remaining
<1>1. UNCHANGED <<state, tries, fed>>
  BY DEF CloseJobs, CloseOutputs, Collect, Return, CallerStops, pool, feeder
<1>2. Owed' = Owed /\ Unfed' = Unfed
  BY <1>1 DEF Owed, Owes, Unfed
<1>3. CASE Collect
  <2>1. Len(outputs') = Len(outputs) - 1 BY <1>3 DEF Collect, TypeOK
  <2>2. Ends' = Ends BY <1>3 DEF Collect, Ends, feeder
  <2> QED BY <1>2, <2>1, <2>2, RemainingType DEF Remaining
<1>4. CASE CloseJobs \/ CloseOutputs \/ Return \/ CallerStops
  <2>1. outputs' = outputs /\ Ends' < Ends
    BY <1>4 DEF CloseJobs, CloseOutputs, Return, CallerStops, Ends, feeder, caller, TypeOK
  <2> QED BY <1>2, <2>1, RemainingType DEF Remaining, Ends
<1> QED BY <1>3, <1>4

\* A run is over when it has returned and every goroutine has ended.
Over ==
  result # "running" /\ jobsClosed /\ outputsClosed /\ \A w \in Workers : state[w] = "done"

\* Some goroutine has what it waits for at its channel operation, or a lookup under
\* way, which its deadline ends if nothing else does.
CanGoOn ==
  \/ ~jobsClosed /\ (fed = Batches \/ cancelled)
  \/ \E w \in Workers : state[w] = "waiting" /\ (jobsClosed \/ fed < Batches)
  \/ \E w \in Workers : state[w] = "asking"
  \/ \E w \in Workers : state[w] = "emitting" /\ Len(outputs) < Cardinality(Workers)
  \/ ~outputsClosed /\ \A w \in Workers : state[w] = "done"
  \/ result = "running" /\ (outputs # <<>> \/ outputsClosed)

\* Every step of a run uses up something that no step gives back, whatever is
\* retried, refused or cancelled: a run takes a bounded number of steps, at most
\* as many as Remaining says when it begins.  (Run; fetchBatch, its retries)
THEOREM RunsAreBounded == Spec => [][Remaining' < Remaining /\ Remaining \in Nat]_vars
<1>1. ASSUME IInv, Next PROVE Remaining \in Nat /\ Remaining' < Remaining
  <2>1. TypeOK /\ TypeOK' BY <1>1, TypeStep DEF IInv
  <2> QED BY <1>1, <2>1, RemainingType, FeedSpends, WorkerSpends, OthersSpend
          DEF Next, Feeder, Caller
<1> QED BY <1>1, PoolInvariant, PTL DEF Spec

\* The goroutines never all wait for one another: as long as the run is not over,
\* one of them can go on, although outputs has no more room than there are workers
\* and a worker that failed takes no more batches.  With RunsAreBounded, a run
\* whose goroutines are scheduled is over in the end.  (Run: jobs, outputs)
THEOREM PoolGoesOn == Spec => [](~Over => CanGoOn)
<1>1. ASSUME IInv, ~Over, ~CanGoOn PROVE FALSE
  <2>1. TypeOK /\ Closing /\ Ending BY <1>1 DEF IInv
  <2>2. Cardinality(Workers) \in Nat /\ Workers # {} /\ Cardinality(Workers) > 0
    BY Capacity, PoolAssumption, FS_EmptySet
  <2>3. fed < Batches \/ fed = Batches BY <2>1, PoolAssumption DEF TypeOK
  <2>4. outputs = <<>>
    BY <1>1, <2>1 DEF CanGoOn, Closing, TypeOK
  <2>5. Len(outputs) = 0 BY <2>4
  <2>6. \A w \in Workers : state[w] = "done"
    <3> SUFFICES ASSUME NEW w \in Workers, state[w] # "done" PROVE FALSE OBVIOUS
    <3>1. state[w] \in {"waiting", "asking", "emitting"} BY <2>1 DEF TypeOK
    <3> QED BY <1>1, <2>2, <2>3, <2>5, <3>1 DEF CanGoOn
  <2>7. outputsClosed /\ result # "running" BY <1>1, <2>6 DEF CanGoOn
  <2>8. jobsClosed
    BY <1>1, <2>1, <2>2, <2>5, <2>6 DEF Ending, CanGoOn
  <2> QED BY <1>1, <2>6, <2>7, <2>8 DEF Over
<1>2. IInv => (~Over => CanGoOn) BY <1>1
<1> QED BY <1>2, PoolInvariant, PTL

=============================================================================
