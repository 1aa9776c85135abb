------------------------------- MODULE Batch --------------------------------
(***************************************************************************)
(* The batch processor (internal/service/saga/batch_processor.go) over an  *)
(* orchestrator behind the circuit breaker (CircuitBreakerOrchestrator in  *)
(* retry.go).  One worker per kind of operation collects a batch from its  *)
(* channel and runs it with at most maxParallelOps goroutines at a time.   *)
(* The circuit breaker is shared with operations that may fail and are     *)
(* repeated by executeWithRetry (retry.go); the operations of the          *)
(* orchestrator return no error.                                           *)
(***************************************************************************)
EXTENDS Breaker, Sequences

CONSTANTS
  Op,              \* operations callers ask for
  Kind,            \* start, cancel, refund
  KindOf,          \* the kind of an operation
  Other,           \* operations repeated by executeWithRetry
  MaxAttempts,     \* of RetryConfig
  channelSize,     \* capacity of startCh, cancelCh, refundCh
  batchSize,
  maxParallelOps

ASSUME BatchAssumption ==
  /\ KindOf \in [Op -> Kind] /\ IsFiniteSet(Op)
  /\ channelSize \in Nat \ {0} /\ batchSize \in Nat \ {0} /\ maxParallelOps \in Nat \ {0}
  /\ MaxAttempts \in Nat \ {0}

VARIABLES
  op,        \* where each operation is
  channel,   \* the channels
  batch,     \* startBatch, cancelBatch, refundBatch
  worker,    \* the workers: what they flush, and whether they end afterwards
  stopping,  \* Stop was called or the context canceled
  other      \* the repeated operations

batchVars == <<op, channel, batch, worker, stopping, other>>

vars == <<breakerVars, batchVars>>

\* sync: a caller runs the operation itself.
OpState == {"new", "queued", "batched", "spawned", "running", "sync", "syncrunning", "ran", "blocked"}

NoFlush == [pc |-> "select", todo |-> <<>>, limit |-> 0, running |-> {}, last |-> FALSE]

TypeOK ==
  /\ BreakerTypeOK
  /\ op \in [Op -> OpState]
  /\ \A k \in Kind : Len(channel[k]) <= channelSize /\ Len(batch[k]) < batchSize
  /\ \A k \in Kind : /\ worker[k].pc \in {"select", "flush", "stopped"}
                     /\ worker[k].running \subseteq Op
  /\ stopping \in BOOLEAN
  /\ other \in [Other -> [pc : {"call", "running", "done"}, attempt : 1 .. MaxAttempts]]

Init ==
  /\ BreakerInit
  /\ op = [o \in Op |-> "new"]
  /\ channel = [k \in Kind |-> <<>>] /\ batch = [k \in Kind |-> <<>>]
  /\ worker = [k \in Kind |-> NoFlush]
  /\ stopping = FALSE
  /\ other = [x \in Other |-> [pc |-> "call", attempt |-> 1]]

-----------------------------------------------------------------------------

Move(o, place) == op' = [op EXCEPT ![o] = place]

\* StartOrder, CancelOrder, RefundOrder: into the channel, or at once if it is
\* full.  Nothing tells the caller that the workers have stopped.
Submit(o) ==
  /\ op[o] = "new"
  /\ IF Len(channel[KindOf[o]]) < channelSize
     THEN /\ channel' = [channel EXCEPT ![KindOf[o]] = Append(@, o)]
          /\ Move(o, "queued")
     ELSE Move(o, "sync") /\ UNCHANGED channel
  /\ UNCHANGED <<breakerVars, batch, worker, stopping, other>>

\* processInParallel of a batch; last: the worker returns afterwards.
Flush(ops, last) ==
  IF ops = <<>> THEN [NoFlush EXCEPT !.pc = IF last THEN "stopped" ELSE "select"]
  ELSE [pc |-> "flush", todo |-> ops, running |-> {}, last |-> last,
        limit |-> IF maxParallelOps > Len(ops) THEN Len(ops) ELSE maxParallelOps]

\* A worker takes an operation from its channel, and flushes a full batch.
Receive(k) ==
  /\ worker[k].pc = "select" /\ channel[k] # <<>>
  /\ LET o == Head(channel[k])
         full == Len(batch[k]) + 1 >= batchSize
     IN  /\ channel' = [channel EXCEPT ![k] = Tail(@)]
         /\ batch' = [batch EXCEPT ![k] = IF full THEN <<>> ELSE Append(@, o)]
         /\ worker' = IF full THEN [worker EXCEPT ![k] = Flush(Append(batch[k], o), FALSE)] ELSE worker
         /\ Move(o, "batched")
  /\ UNCHANGED <<breakerVars, stopping, other>>

\* Variant: the batch is kept when it is flushed.
TickKeepsBatch(k) ==
  /\ worker[k].pc = "select" /\ batch[k] # <<>>
  /\ worker' = [worker EXCEPT ![k] = Flush(batch[k], FALSE)]
  /\ UNCHANGED <<breakerVars, op, channel, batch, stopping, other>>

\* The ticker flushes what there is.
Tick(k) ==
  /\ worker[k].pc = "select" /\ batch[k] # <<>>
  /\ worker' = [worker EXCEPT ![k] = Flush(batch[k], FALSE)]
  /\ batch' = [batch EXCEPT ![k] = <<>>]
  /\ UNCHANGED <<breakerVars, op, channel, stopping, other>>

\* Variant: the worker ends without its last flush.
SeeStopNoFlush(k) ==
  /\ worker[k].pc = "select" /\ stopping
  /\ worker' = [worker EXCEPT ![k].pc = "stopped"]
  /\ UNCHANGED <<breakerVars, op, channel, batch, stopping, other>>

\* stopCh is closed or the context is done: flush the batch and return.  What
\* is in the channel stays there.
SeeStop(k) ==
  /\ worker[k].pc = "select" /\ stopping
  /\ worker' = [worker EXCEPT ![k] = Flush(batch[k], TRUE)]
  /\ batch' = [batch EXCEPT ![k] = <<>>]
  /\ UNCHANGED <<breakerVars, op, channel, stopping, other>>

\* A place in the semaphore.
MaySpawn(w) == Cardinality(w.running) < w.limit

Spawn(k) ==
  /\ worker[k].pc = "flush" /\ worker[k].todo # <<>> /\ MaySpawn(worker[k])
  /\ LET o == Head(worker[k].todo)
     IN  /\ worker' = [worker EXCEPT ![k].todo = Tail(@), ![k].running = @ \cup {o}]
         /\ Move(o, "spawned")
  /\ UNCHANGED <<breakerVars, channel, batch, stopping, other>>

\* wg.Wait returns.
FlushDone(k) ==
  /\ worker[k].pc = "flush" /\ worker[k].todo = <<>> /\ worker[k].running = {}
  /\ worker' = [worker EXCEPT ![k] = Flush(<<>>, worker[k].last)]
  /\ UNCHANGED <<breakerVars, op, channel, batch, stopping, other>>

-----------------------------------------------------------------------------
(* CircuitBreakerOrchestrator.                                             *)

\* The goroutine of an operation gives its place in the semaphore back.
Left(o) == [worker EXCEPT ![KindOf[o]].running = @ \ {o}]

\* The operation is only logged.
Blocked(o) ==
  /\ op[o] \in {"spawned", "sync"} /\ Refuses
  /\ Move(o, "blocked")
  /\ worker' = Left(o)
  /\ UNCHANGED <<breakerVars, channel, batch, stopping, other>>

Begin(o) ==
  /\ op[o] \in {"spawned", "sync"} /\ Admit
  /\ Move(o, IF op[o] = "sync" THEN "syncrunning" ELSE "running")
  /\ UNCHANGED <<channel, batch, worker, stopping, other>>

\* Start, Cancel or Refund of the orchestrator returns: no error.
Return(o) ==
  /\ op[o] \in {"running", "syncrunning"}
  /\ OperationSucceeds
  /\ Move(o, "ran")
  /\ worker' = Left(o)
  /\ UNCHANGED <<channel, batch, stopping, other>>

-----------------------------------------------------------------------------
(* executeWithRetry of an operation behind the circuit breaker.            *)

RetryBegins(x) ==
  /\ other[x].pc = "call" /\ Admit
  /\ other' = [other EXCEPT ![x].pc = "running"]
  /\ UNCHANGED <<op, channel, batch, worker, stopping>>

RetryEnds(x) == other' = [other EXCEPT ![x] = [pc |-> "done", attempt |-> 1]]

\* Variant: attempts are not counted.
AgainAlways(x) == other' = [other EXCEPT ![x].pc = "call"]

\* Pause and call again, unless this was the last attempt.
Again(x) ==
  IF other[x].attempt < MaxAttempts
  THEN other' = [other EXCEPT ![x] = [pc |-> "call", attempt |-> other[x].attempt + 1]]
  ELSE RetryEnds(x)

\* An open circuit is an error like any other unknown one.
RetryRefused(x) ==
  /\ other[x].pc = "call" /\ Refuses
  /\ Again(x)
  /\ UNCHANGED <<breakerVars, op, channel, batch, worker, stopping>>

\* The operation succeeds, fails for good, or fails with an error that
\* shouldRetry.
RetryReturns(x) ==
  /\ other[x].pc = "running"
  /\ \/ OperationSucceeds /\ RetryEnds(x)
     \/ OperationFails /\ RetryEnds(x)
     \/ OperationFails /\ Again(x)
  /\ UNCHANGED <<op, channel, batch, worker, stopping>>

Stop ==
  /\ ~stopping
  /\ stopping' = TRUE
  /\ UNCHANGED <<breakerVars, op, channel, batch, worker, other>>

WorkerStep(k) == Receive(k) \/ Tick(k) \/ SeeStop(k) \/ Spawn(k) \/ FlushDone(k)

OpStep(o) == Blocked(o) \/ Begin(o) \/ Return(o)

RetryStep(x) == RetryBegins(x) \/ RetryRefused(x) \/ RetryReturns(x)

Next ==
  \/ \E o \in Op : Submit(o) \/ OpStep(o)
  \/ \E k \in Kind : WorkerStep(k)
  \/ \E x \in Other : RetryStep(x)
  \/ ResetTimeout /\ UNCHANGED batchVars
  \/ Stop

Spec == Init /\ [][Next]_vars

\* Workers and goroutines run, tickers fire, every operation returns.  The
\* select of a worker may take any case that is ready.
FairSpec ==
  /\ Spec
  /\ \A k \in Kind : WF_vars(WorkerStep(k))
  /\ \A o \in Op : WF_vars(OpStep(o))
  /\ \A x \in Other : WF_vars(RetryStep(x))

-----------------------------------------------------------------------------
(* Properties.                                                             *)

\* How often an operation is in each of the lists of its kind.
Places(o) ==
  LET k == KindOf[o]
      times(seq) == Cardinality({i \in DOMAIN seq : seq[i] = o})
  IN  [channel |-> times(channel[k]), batch |-> times(batch[k]) + times(worker[k].todo),
       running |-> IF o \in worker[k].running THEN 1 ELSE 0]

\* No operation is lost or duplicated between the channel, the batch and the
\* goroutines of a flush, whether its batch was full, flushed by the ticker or
\* by Stop.
OpsConserved ==
  \A o \in Op :
    Places(o) = [channel |-> IF op[o] = "queued" THEN 1 ELSE 0,
                 batch |-> IF op[o] = "batched" THEN 1 ELSE 0,
                 running |-> IF op[o] \in {"spawned", "running"} THEN 1 ELSE 0]

\* When Stop has returned, an operation is done, new, run by its caller or was
\* left in a channel: none is in a batch or in a goroutine of a worker.
StopFlushes ==
  (\A k \in Kind : worker[k].pc = "stopped") =>
    \A o \in Op : op[o] \notin {"batched", "spawned", "running"}

\* Every operation the processor takes runs or is blocked by the circuit
\* breaker in the end, only what is in a channel at Stop is not; and
\* executeWithRetry returns.
Processed ==
  []<>(/\ \A o \in Op : op[o] \in {"new", "ran", "blocked"} \/ (stopping /\ op[o] = "queued")
       /\ \A x \in Other : other[x].pc = "done")

=============================================================================
