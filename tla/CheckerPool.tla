----------------------------- MODULE CheckerPool -----------------------------
(***************************************************************************)
(* checker.Run: one goroutine feeds batches of names, a pool of workers    *)
(* asks the subgraph about them, and the caller collects the answers.      *)
(* Both channels, both contexts and the order of the closes are modelled;  *)
(* a batch stands for the names in it, and a lookup that answers says      *)
(* something of every one of them.                                         *)
(***************************************************************************)
EXTENDS Integers, Sequences, FiniteSets

CONSTANTS
  Workers,   \* the goroutines of the pool
  Batches,   \* how many batches the names make
  Retries,   \* attempts the client may repeat after a transient failure
  Faults,    \* what may go wrong in this instance
  None       \* nothing: no batch held, no outcome, no error

\* upstream: the subgraph refuses, throttles or drops a request.
\* caller: the caller's own context ends, by its deadline or its cancellation.
FaultKinds == {"upstream", "caller"}

\* The pool never holds more workers than there are batches.
ASSUME PoolAssumption ==
  /\ IsFiniteSet(Workers) /\ Workers # {} /\ Batches \in Nat
  /\ Cardinality(Workers) <= Batches
  /\ Retries \in Nat /\ Faults \subseteq FaultKinds
  /\ None \notin Workers \cup Nat \cup {"answered", "refused", "canceled"}

Batch == 1 .. Batches

-----------------------------------------------------------------------------
VARIABLES
  fed,         \* batches handed to a worker
  jobsClosed,  \* the feeder has ended and closed jobs
  state,       \* what each worker does
  held,        \* the batch it works on
  outcome,     \* what its lookup returned
  tries,       \* attempts its lookup has made
  outputs,     \* the buffered channel
  outputsClosed,
  answered,    \* how often each batch has been collected
  firstErr,    \* the first error collected
  cancelled,   \* runContext is done
  callerGone,  \* the caller's context is done
  result,      \* what Run has returned
  refusals     \* history: a lookup has failed for a reason of its own

feeder == <<fed, jobsClosed>>
pool   == <<state, held, outcome, tries>>
caller == <<answered, firstErr, result>>
vars   == <<feeder, pool, outputs, outputsClosed, caller, cancelled, callerGone, refusals>>

Init ==
  /\ fed = 0 /\ jobsClosed = FALSE
  /\ state = [w \in Workers |-> "waiting"]
  /\ held = [w \in Workers |-> None]
  /\ outcome = [w \in Workers |-> None]
  /\ tries = [w \in Workers |-> 0]
  /\ outputs = <<>> /\ outputsClosed = FALSE
  /\ answered = [b \in Batch |-> 0]
  /\ firstErr = None
  /\ cancelled = FALSE /\ callerGone = FALSE
  /\ result = "running"
  /\ refusals = FALSE

-----------------------------------------------------------------------------
(* The feeder                                                              *)

\* jobs has no buffer: a batch is handed to a worker that waits for one.
Feed(w) ==
  /\ ~jobsClosed /\ fed < Batches /\ state[w] = "waiting"
  /\ fed' = fed + 1
  /\ state' = [state EXCEPT ![w] = "asking"]
  /\ held' = [held EXCEPT ![w] = fed + 1]
  /\ tries' = [tries EXCEPT ![w] = 0]
  /\ UNCHANGED <<jobsClosed, outcome, outputs, outputsClosed, caller, cancelled,
                 callerGone, refusals>>

\* Mutation: the feeder does not watch the context.
FeedUntilDone ==
  /\ ~jobsClosed /\ fed = Batches
  /\ jobsClosed' = TRUE
  /\ UNCHANGED <<fed, pool, outputs, outputsClosed, caller, cancelled, callerGone,
                 refusals>>

\* jobs is closed when every batch is handed over or the run is cancelled.
CloseJobs ==
  /\ ~jobsClosed /\ (fed = Batches \/ cancelled)
  /\ jobsClosed' = TRUE
  /\ UNCHANGED <<fed, pool, outputs, outputsClosed, caller, cancelled, callerGone,
                 refusals>>

-----------------------------------------------------------------------------
(* A worker, and the lookup it makes                                       *)

\* The lookup returns: an answer for every name, or an error.
Returns(w, what) ==
  /\ outcome' = [outcome EXCEPT ![w] = what]
  /\ state' = [state EXCEPT ![w] = "emitting"]
  /\ UNCHANGED <<feeder, held, tries, outputs, outputsClosed, caller, callerGone>>

\* An answer may arrive after the run was cancelled.
Answer(w) ==
  /\ state[w] = "asking"
  /\ Returns(w, "answered")
  /\ UNCHANGED <<cancelled, refusals>>

\* Mutation: the worker itself cancels the run its lookup failed in.
RefuseAndCancel(w) ==
  /\ state[w] = "asking" /\ "upstream" \in Faults
  /\ Returns(w, "refused")
  /\ refusals' = TRUE /\ cancelled' = TRUE

\* A refusal that is not transient, or the last attempt's.
Refuse(w) ==
  /\ state[w] = "asking" /\ "upstream" \in Faults
  /\ Returns(w, "refused")
  /\ refusals' = TRUE
  /\ UNCHANGED cancelled

Retry(w) ==
  /\ state[w] = "asking" /\ "upstream" \in Faults
  /\ ~cancelled /\ tries[w] < Retries
  /\ tries' = [tries EXCEPT ![w] = @ + 1]
  /\ UNCHANGED <<feeder, state, held, outcome, outputs, outputsClosed, caller,
                 cancelled, callerGone, refusals>>

\* The request, or the wait before the next one, ends with the run's context.
Interrupt(w) ==
  /\ state[w] = "asking" /\ cancelled
  /\ Returns(w, "canceled")
  /\ UNCHANGED <<cancelled, refusals>>

\* Mutation: the channel has no bound.
EmitUnbounded(w) ==
  /\ state[w] = "emitting"
  /\ outputs' = Append(outputs, [batch |-> held[w], what |-> outcome[w]])
  /\ state' = [state EXCEPT ![w] = IF outcome[w] = "answered" THEN "waiting" ELSE "done"]
  /\ held' = [held EXCEPT ![w] = None]
  /\ outcome' = [outcome EXCEPT ![w] = None]
  /\ UNCHANGED <<feeder, tries, outputsClosed, caller, cancelled, callerGone, refusals>>

\* outputs holds one output per worker; a worker that failed ends.
Emit(w) ==
  /\ state[w] = "emitting" /\ Len(outputs) < Cardinality(Workers)
  /\ outputs' = Append(outputs, [batch |-> held[w], what |-> outcome[w]])
  /\ state' = [state EXCEPT ![w] = IF outcome[w] = "answered" THEN "waiting" ELSE "done"]
  /\ held' = [held EXCEPT ![w] = None]
  /\ outcome' = [outcome EXCEPT ![w] = None]
  /\ UNCHANGED <<feeder, tries, outputsClosed, caller, cancelled, callerGone, refusals>>

\* The other case of the select: the output is dropped.
Drop(w) ==
  /\ state[w] = "emitting" /\ cancelled
  /\ state' = [state EXCEPT ![w] = "done"]
  /\ held' = [held EXCEPT ![w] = None]
  /\ outcome' = [outcome EXCEPT ![w] = None]
  /\ UNCHANGED <<feeder, tries, outputs, outputsClosed, caller, cancelled, callerGone,
                 refusals>>

\* jobs is closed and empty.
Leave(w) ==
  /\ state[w] = "waiting" /\ jobsClosed
  /\ state' = [state EXCEPT ![w] = "done"]
  /\ UNCHANGED <<feeder, held, outcome, tries, outputs, outputsClosed, caller,
                 cancelled, callerGone, refusals>>

-----------------------------------------------------------------------------
(* The closer and the caller                                               *)

CloseOutputs ==
  /\ ~outputsClosed /\ \A w \in Workers : state[w] = "done"
  /\ outputsClosed' = TRUE
  /\ UNCHANGED <<feeder, pool, outputs, caller, cancelled, callerGone, refusals>>

\* Mutation: the first error ends the run where it is collected.
CollectOrReturn ==
  /\ result = "running" /\ outputs # <<>>
  /\ outputs' = Tail(outputs)
  /\ IF Head(outputs).what = "answered"
       THEN /\ answered' = [answered EXCEPT ![Head(outputs).batch] = @ + 1]
            /\ UNCHANGED <<firstErr, cancelled, result>>
       ELSE /\ firstErr' = Head(outputs).what
            /\ cancelled' = TRUE /\ result' = "failed"
            /\ UNCHANGED answered
  /\ UNCHANGED <<feeder, pool, outputsClosed, callerGone, refusals>>

\* The first error cancels the run; the loop goes on until the close.
Collect ==
  /\ result = "running" /\ outputs # <<>>
  /\ outputs' = Tail(outputs)
  /\ IF Head(outputs).what = "answered"
       THEN /\ answered' = [answered EXCEPT ![Head(outputs).batch] = @ + 1]
            /\ UNCHANGED <<firstErr, cancelled>>
       ELSE /\ firstErr' = IF firstErr = None THEN Head(outputs).what ELSE firstErr
            /\ cancelled' = TRUE
            /\ UNCHANGED answered
  /\ UNCHANGED <<feeder, pool, outputsClosed, result, callerGone, refusals>>

\* Mutation: the caller's context is not asked.
ReturnUnlessFailed ==
  /\ result = "running" /\ outputsClosed /\ outputs = <<>>
  /\ result' = IF firstErr # None THEN "failed" ELSE "ok"
  /\ cancelled' = TRUE
  /\ UNCHANGED <<feeder, pool, outputs, outputsClosed, answered, firstErr, callerGone,
                 refusals>>

\* Results are returned only when no lookup failed and the caller still waits.
Return ==
  /\ result = "running" /\ outputsClosed /\ outputs = <<>>
  /\ result' = IF firstErr # None \/ callerGone THEN "failed" ELSE "ok"
  /\ cancelled' = TRUE
  /\ UNCHANGED <<feeder, pool, outputs, outputsClosed, answered, firstErr, callerGone,
                 refusals>>

\* The scan budget, the request's deadline, or a caller that hangs up.
CallerStops ==
  /\ "caller" \in Faults /\ ~callerGone /\ result = "running"
  /\ callerGone' = TRUE /\ cancelled' = TRUE
  /\ UNCHANGED <<feeder, pool, outputs, outputsClosed, caller, refusals>>

-----------------------------------------------------------------------------
Lookup(w) == Answer(w) \/ Refuse(w) \/ Retry(w) \/ Interrupt(w)

Worker(w) == Lookup(w) \/ Emit(w) \/ Drop(w) \/ Leave(w)

Feeder == CloseJobs \/ \E w \in Workers : Feed(w)

Caller == Collect \/ Return

Next ==
  \/ Feeder \/ CloseOutputs \/ Caller
  \/ \E w \in Workers : Worker(w)
  \/ CallerStops

Spec == Init /\ [][Next]_vars

\* Every goroutine is scheduled, and every request has a deadline, so a lookup
\* returns.
FairSpec ==
  /\ Spec
  /\ WF_vars(Feeder) /\ WF_vars(CloseOutputs) /\ WF_vars(Caller)
  /\ \A w \in Workers : WF_vars(Worker(w))

-----------------------------------------------------------------------------
(* Properties                                                              *)

Outputs == [batch : Batch, what : {"answered", "refused", "canceled"}]

\* What each variable holds, what a worker holds in each of its states, and that
\* the channel keeps to its capacity.
TypeOK ==
  /\ fed \in 0 .. Batches /\ jobsClosed \in BOOLEAN
  /\ state \in [Workers -> {"waiting", "asking", "emitting", "done"}]
  /\ held \in [Workers -> Batch \cup {None}]
  /\ outcome \in [Workers -> {"answered", "refused", "canceled", None}]
  /\ tries \in [Workers -> 0 .. Retries]
  /\ outputs \in Seq(Outputs) /\ Len(outputs) <= Cardinality(Workers)
  /\ outputsClosed \in BOOLEAN
  /\ answered \in [Batch -> Nat]
  /\ firstErr \in {"refused", "canceled", None}
  /\ cancelled \in BOOLEAN /\ callerGone \in BOOLEAN
  /\ result \in {"running", "ok", "failed"} /\ refusals \in BOOLEAN
  /\ \A w \in Workers :
       /\ held[w] # None <=> state[w] \in {"asking", "emitting"}
       /\ outcome[w] # None <=> state[w] = "emitting"

\* Results are complete: a run that returns them collected an answer for every
\* batch, once, whatever was cancelled, dropped or refused on the way.
\* (Run: firstErr, then ctx.Err)
ResultsAreComplete ==
  result = "ok" => \A b \in Batch : answered[b] = 1

\* The error a run returns is the failure that caused it: a cancellation is
\* reported only to a caller that stopped waiting, never for the cancellation the
\* run ordered itself because of another error.
ErrorsNameTheirCause ==
  /\ firstErr = "canceled" => callerGone
  /\ result = "failed" => refusals \/ callerGone

\* Nothing asks the subgraph once the run has returned, so a caller that bounds
\* its runs bounds the requests in flight.  (workers.Wait; close(outputs))
NothingOutlivesTheRun ==
  result # "running" => \A w \in Workers : state[w] = "done"

\* The run returns and every goroutine it started ends.
EverythingEnds ==
  <>[](result # "running" /\ jobsClosed /\ \A w \in Workers : state[w] = "done")

=============================================================================
