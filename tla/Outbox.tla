------------------------------- MODULE Outbox -------------------------------
(***************************************************************************)
(* The outbox table (internal/storage/{memory,postgres}/outbox_repository) *)
(* and the workers that publish it (internal/service/outbox/worker.go),    *)
(* one per replica of the service.  A worker claims a batch under a lease, *)
(* publishes the messages one by one with retries, gives up into the dead  *)
(* letter topic and marks the row; rows whose lease ran out are claimed    *)
(* again.  Between two calls to the table or the broker any other worker   *)
(* may run, the lease may run out, and the process may die.                *)
(*                                                                         *)
(* A message is the number of its place in (created_at, id) order, the     *)
(* order PullPending returns rows in, so a batch is a set of messages.     *)
(***************************************************************************)
EXTENDS Integers, Sequences, FiniteSets

CONSTANTS
  Worker,       \* replicas of the service, each with one worker
  MaxMsg,       \* bound: messages enqueued
  BatchSize,    \* WithBatchSize
  MaxAttempts,  \* WithMaxAttempts
  MaxFaults,    \* bound: failing calls to the broker and the table
  MaxOverruns,  \* bound: leases that run out under a worker that still runs
  MaxStops      \* bound: crashes and shutdowns of a worker's process

ASSUME OutboxAssumption ==
  /\ MaxMsg \in Nat /\ BatchSize \in Nat \ {0} /\ MaxAttempts \in Nat \ {0}
  /\ MaxFaults \in Nat /\ MaxOverruns \in Nat /\ MaxStops \in Nat

Msg == 1 .. MaxMsg

RowStatus == {"none", "pending", "processing", "sent", "failed"}

Label == {"poll", "publish", "backoff", "deadletter", "fail", "sent", "stopped"}

VARIABLES
  status,    \* the rows; "none": not enqueued yet
  expired,   \* rows whose updated_at is older than the lease
  topic,     \* messages in the event topic, oldest first
  dlq,       \* messages in the dead letter topic
  dropped,   \* messages the dead letter topic did not take (auxiliary)
  worker,    \* where each worker is, its batch and its attempt
  overrun,   \* messages whose lease ran out under a running worker (auxiliary)
  faults,    \* calls that failed so far
  overruns,  \* leases that ran out under a running worker so far
  stops      \* crashes and shutdowns so far

vars == <<status, expired, topic, dlq, dropped, worker, overrun, faults, overruns, stops>>

table == <<status, expired>>

broker == <<topic, dlq, dropped>>

leases == <<overrun, overruns>>

WorkerState ==
  [pc : Label, batch : SUBSET Msg, attempt : 1 .. MaxAttempts, canceled : BOOLEAN]

TypeOK ==
  /\ status \in [Msg -> RowStatus]
  /\ expired \in SUBSET Msg
  /\ topic \in Seq(Msg)
  /\ dlq \in SUBSET Msg /\ dropped \in SUBSET Msg
  /\ worker \in [Worker -> WorkerState]
  /\ overrun \in SUBSET Msg
  /\ faults \in Nat /\ overruns \in Nat /\ stops \in Nat

Polling == [pc |-> "poll", batch |-> {}, attempt |-> 1, canceled |-> FALSE]

Init ==
  /\ status = [m \in Msg |-> "none"]
  /\ expired = {}
  /\ topic = <<>>
  /\ dlq = {} /\ dropped = {}
  /\ worker = [w \in Worker |-> Polling]
  /\ overrun = {}
  /\ faults = 0 /\ overruns = 0 /\ stops = 0

-----------------------------------------------------------------------------

At(w, label) == worker[w].pc = label

Become(w, s) == worker' = [worker EXCEPT ![w] = s]

Fault == faults < MaxFaults /\ faults' = faults + 1

\* The message a worker is on: the oldest one left in its batch.
Current(s) == CHOOSE m \in s.batch : \A n \in s.batch : m <= n

Published == {topic[i] : i \in DOMAIN topic}

\* The worker is done with its message and turns to the next one.
Advance(s) ==
  LET rest == s.batch \ {Current(s)}
  IN  [s EXCEPT !.batch = rest, !.attempt = 1, !.pc = IF rest = {} THEN "poll" ELSE "publish"]

Held == UNION {worker[w].batch : w \in Worker}

-----------------------------------------------------------------------------
(* The table.                                                              *)

\* Rows become visible in any order: created_at is taken before the insert.
Enqueue(m) ==
  /\ status[m] = "none"
  /\ status' = [status EXCEPT ![m] = "pending"]
  /\ UNCHANGED <<expired, broker, worker, leases, faults, stops>>

\* Variant: a claimed row may be claimed at once.
ClaimableAtOnce == {m \in Msg : status[m] \in {"pending", "processing"}}

\* Variant: a claimed row is never claimed again.
ClaimableOnce == {m \in Msg : status[m] = "pending"}

Claimable == {m \in Msg : status[m] = "pending" \/ (status[m] = "processing" /\ m \in expired)}

\* The oldest BatchSize rows that may be claimed.
Batch ==
  {m \in Claimable : Cardinality({n \in Claimable : n < m}) < BatchSize}

\* Variant: the rows are read and not marked.
ClaimNothing(batch) == UNCHANGED <<status, expired>>

Claim(batch) ==
  /\ status' = [m \in Msg |-> IF m \in batch THEN "processing" ELSE status[m]]
  /\ expired' = expired \ batch

\* Two minutes pass without the row being marked.  A worker that is still
\* busy with the row is not told.
LeaseExpires(m) ==
  /\ status[m] = "processing"
  /\ m \notin expired
  /\ expired' = expired \cup {m}
  /\ IF m \in Held
     THEN /\ overruns < MaxOverruns
          /\ overruns' = overruns + 1
          /\ overrun' = overrun \cup {m}
     ELSE UNCHANGED leases
  /\ UNCHANGED <<status, broker, worker, faults, stops>>

Mark(m, newStatus) ==
  /\ status' = [status EXCEPT ![m] = newStatus]
  /\ expired' = expired \ {m}

-----------------------------------------------------------------------------
(* The worker.                                                             *)

\* ProcessOnce checks the context, claims a batch and starts on it; an empty
\* answer is a stutter.
PullPending(w) ==
  /\ At(w, "poll")
  /\ ~worker[w].canceled
  /\ Batch # {}
  /\ Claim(Batch)
  /\ Become(w, [worker[w] EXCEPT !.pc = "publish", !.batch = Batch])
  /\ UNCHANGED <<broker, leases, faults, stops>>

\* The claim is committed and its answer is lost: ProcessOnce returns.
PullLost(w) ==
  /\ At(w, "poll")
  /\ ~worker[w].canceled
  /\ Batch # {}
  /\ Fault
  /\ Claim(Batch)
  /\ UNCHANGED <<broker, worker, leases, stops>>

\* The context is checked before the first attempt of a message only.
MayPublish(s) == s.attempt > 1 \/ ~s.canceled

\* Variant: the last error is dropped.
AfterErrorIgnored(s) == [s EXCEPT !.pc = IF s.attempt >= MaxAttempts THEN "sent" ELSE "backoff"]

AfterError(s) == [s EXCEPT !.pc = IF s.attempt >= MaxAttempts THEN "deadletter" ELSE "backoff"]

Publish(w) ==
  /\ At(w, "publish")
  /\ MayPublish(worker[w])
  /\ topic' = Append(topic, Current(worker[w]))
  /\ Become(w, [worker[w] EXCEPT !.pc = "sent"])
  /\ UNCHANGED <<table, dlq, dropped, leases, faults, stops>>

\* The broker answers with an error, or does not answer; it may have taken
\* the message all the same.
PublishFails(w) ==
  /\ At(w, "publish")
  /\ MayPublish(worker[w])
  /\ Fault
  /\ topic' \in {topic, Append(topic, Current(worker[w]))}
  /\ Become(w, AfterError(worker[w]))
  /\ UNCHANGED <<table, dlq, dropped, leases, stops>>

Backoff(w) ==
  /\ At(w, "backoff")
  /\ Become(w, [worker[w] EXCEPT !.pc = "publish", !.attempt = @ + 1])
  /\ UNCHANGED <<table, broker, leases, faults, stops>>

\* The context ends during the pause: publishWithRetry returns its error, and
\* the message goes the way of one that used up its attempts.
BackoffCanceled(w) ==
  /\ At(w, "backoff")
  /\ worker[w].canceled
  /\ Become(w, [worker[w] EXCEPT !.pc = "deadletter"])
  /\ UNCHANGED <<table, broker, leases, faults, stops>>

PublishToDLQ(w) ==
  /\ At(w, "deadletter")
  /\ dlq' = dlq \cup {Current(worker[w])}
  /\ Become(w, [worker[w] EXCEPT !.pc = "fail"])
  /\ UNCHANGED <<table, topic, dropped, leases, faults, stops>>

\* The error is logged; the row is marked failed anyway.
PublishToDLQFails(w) ==
  /\ At(w, "deadletter")
  /\ Fault
  /\ dropped' = dropped \cup {Current(worker[w])}
  /\ Become(w, [worker[w] EXCEPT !.pc = "fail"])
  /\ UNCHANGED <<table, topic, dlq, leases, stops>>

\* Neither mark looks at the row's present status or owner.
MarkFailed(w) ==
  /\ At(w, "fail")
  /\ Mark(Current(worker[w]), "failed")
  /\ Become(w, Advance(worker[w]))
  /\ UNCHANGED <<broker, leases, faults, stops>>

MarkSent(w) ==
  /\ At(w, "sent")
  /\ Mark(Current(worker[w]), "sent")
  /\ Become(w, Advance(worker[w]))
  /\ UNCHANGED <<broker, leases, faults, stops>>

\* The error is logged and the loop goes on; the row stays claimed.
MarkFails(w) ==
  /\ worker[w].pc \in {"sent", "fail"}
  /\ Fault
  /\ Become(w, Advance(worker[w]))
  /\ UNCHANGED <<table, broker, leases, stops>>

-----------------------------------------------------------------------------
(* The process around the worker.                                          *)

\* shutdownOutboxWorker cancels the worker's context.
Shutdown(w) ==
  /\ ~At(w, "stopped")
  /\ ~worker[w].canceled
  /\ stops < MaxStops
  /\ stops' = stops + 1
  /\ Become(w, [worker[w] EXCEPT !.canceled = TRUE])
  /\ UNCHANGED <<table, broker, leases, faults>>

Down == [Polling EXCEPT !.pc = "stopped"]

\* Run sees the canceled context between two messages and returns; the rest
\* of the batch stays claimed.
Stop(w) ==
  /\ worker[w].canceled
  /\ At(w, "poll") \/ (At(w, "publish") /\ worker[w].attempt = 1)
  /\ Become(w, Down)
  /\ UNCHANGED <<table, broker, leases, faults, stops>>

\* The process dies, also when shutdownOutboxWorker stops waiting.
Crash(w) ==
  /\ ~At(w, "stopped")
  /\ stops < MaxStops
  /\ stops' = stops + 1
  /\ Become(w, Down)
  /\ UNCHANGED <<table, broker, leases, faults>>

Restart(w) ==
  /\ At(w, "stopped")
  /\ Become(w, Polling)
  /\ UNCHANGED <<table, broker, leases, faults, stops>>

-----------------------------------------------------------------------------

WorkerStep(w) ==
  \/ PullPending(w) \/ Publish(w) \/ Backoff(w) \/ BackoffCanceled(w)
  \/ PublishToDLQ(w) \/ MarkFailed(w) \/ MarkSent(w) \/ Stop(w) \/ Restart(w)

WorkerFault(w) ==
  \/ PullLost(w) \/ PublishFails(w) \/ PublishToDLQFails(w) \/ MarkFails(w)
  \/ Shutdown(w) \/ Crash(w)

Next ==
  \/ \E m \in Msg : Enqueue(m) \/ LeaseExpires(m)
  \/ \E w \in Worker : WorkerStep(w) \/ WorkerFault(w)

Spec == Init /\ [][Next]_vars

\* The Go scheduler runs every worker, its ticker and its pauses fire, the
\* clock reaches the end of a lease, and a stopped replica is started again.
FairSpec ==
  /\ Spec
  /\ \A w \in Worker : WF_vars(WorkerStep(w))
  /\ \A m \in Msg : WF_vars(LeaseExpires(m))

-----------------------------------------------------------------------------
(* Properties.                                                             *)

\* A row marked sent is in the event topic, whichever worker marked it, also
\* when two workers hold the row after a lease ran out and one of them gave
\* it up (worker.go: MarkSent follows the Publish that succeeded, but does not
\* check who owns the row).
SentIsPublished == \A m \in Msg : status[m] = "sent" => m \in Published

\* Two workers have the same message in hand only if its lease ran out while
\* the first one was still busy with it (PullPending: FOR UPDATE SKIP LOCKED
\* and the status processing).
ClaimsAreExclusive ==
  \A v, w \in Worker : v # w => worker[v].batch \cap worker[w].batch \subseteq overrun

\* While no call failed, no lease ran out under a running worker and no
\* process stopped, the event topic holds every message at most once: the
\* duplicates the consumers must tolerate come from those causes only.
DuplicatesHaveACause ==
  (faults = 0 /\ overruns = 0 /\ stops = 0) => Len(topic) = Cardinality(Published)

\* Delivery, with the rows as accepted and closed events and the two topics
\* together as the outside.  A message the dead letter topic did not take is not
\* out: ProcessOnce logs the error and marks the row failed.
Promise ==
  INSTANCE Delivery WITH
    accepted <- {m \in Msg : status[m] # "none"},
    out <- Published \cup dlq,
    refused <- dropped,
    closed <- {m \in Msg : status[m] \in {"sent", "failed"}}

\* Every step of the outbox and its workers is one Delivery allows: a row is
\* closed only when its message is in a topic, or the dead letter topic refused
\* it; a closed row is never opened again, and nothing is published that was not
\* enqueued.
ImplementsDelivery == Promise!Spec

\* The same, and the row of every enqueued message is closed in the end, in
\* spite of failing calls, crashes, shutdowns and overrun leases.
DeliversEventually == ImplementsDelivery /\ Promise!Served

-----------------------------------------------------------------------------
(* The inductive invariant of the proofs.                                  *)

\* A worker that is busy has a message, and one that pauses has an attempt
\* left.
BusyHasMessage ==
  \A w \in Worker :
    /\ worker[w].batch = {} <=> worker[w].pc \in {"poll", "stopped"}
    /\ At(w, "backoff") => worker[w].attempt < MaxAttempts

\* What a worker is about to mark has gone where the mark says.
MarkIsTrue ==
  \A w \in Worker :
    /\ At(w, "sent") => Current(worker[w]) \in Published
    /\ At(w, "fail") => Current(worker[w]) \in dlq \cup dropped

\* A message in hand is claimed under a running lease, unless its lease was
\* overrun; it was enqueued in any case.
HeldIsClaimed ==
  \A w \in Worker : \A m \in worker[w].batch :
    /\ status[m] # "none"
    /\ m \in overrun \/ (status[m] = "processing" /\ m \notin expired)

\* Closed rows are out, and a row that does not exist has no lease.
RowsAreTrue ==
  \A m \in Msg :
    /\ status[m] = "sent" => m \in Published
    /\ status[m] = "failed" => m \in dlq \cup dropped
    /\ m \in Published \cup dlq \cup dropped => status[m] # "none"

OutboxInv ==
  TypeOK /\ BusyHasMessage /\ MarkIsTrue /\ HeldIsClaimed /\ RowsAreTrue /\ ClaimsAreExclusive

=============================================================================
