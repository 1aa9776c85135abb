-------------------------------- MODULE Saga --------------------------------
(***************************************************************************)
(* The saga orchestrator of the order service                              *)
(* (internal/service/saga/orchestrator.go) over one order: any number of   *)
(* goroutines, each running Start, Cancel or Refund, share the versioned   *)
(* order row, the outbox and the timeline, and call the inventory and      *)
(* payment services.  Every call that leaves the goroutine (a repository   *)
(* operation, an external request) is one step; between two such steps any *)
(* other goroutine may run.                                                *)
(*                                                                         *)
(* Sagas of different orders share no row and no reservation, so one order *)
(* is modelled.  Each member of Call is one goroutine, used once.          *)
(*                                                                         *)
(* Left out: publishSagaEvent, which sends a copy of each step to a Kafka  *)
(* topic nothing in the service reads and ignores the answer; metrics; the *)
(* timeline entry CreateOrder makes before any saga runs; and the branches *)
(* of the handlers for a service built without an orchestrator.            *)
(***************************************************************************)
EXTENDS Integers, Sequences, FiniteSets

CONSTANTS
  Call,          \* goroutines that runSagaAsync may start
  Amount,        \* order.AmountMinor, what Pay charges
  RefundAmounts, \* amounts a client may put into RefundOrder (0: none given)
  ReserveResult, \* answers the inventory service may give to Reserve
  PayResult,     \* answers the payment service may give to Pay
  RefundResult,  \* answers the payment service may give to Refund
  MaxInFlight,   \* bound: sagas of this order running at the same time
  MaxFaults,     \* bound: failing repository operations and releases
  MaxCrashes     \* bound: crashes of the service process

ASSUME AmountAssumption == Amount \in Nat

ASSUME EnvironmentAssumption ==
  /\ RefundAmounts \subseteq Nat
  /\ ReserveResult \subseteq {"ok", "rejected", "timeout"}
  /\ PayResult \subseteq {"ok", "declined", "timeout", "unexpected"}
  /\ RefundResult \subseteq {"refunded", "rejected", "timeout", "unexpected"}

ASSUME BoundAssumption == MaxInFlight \in Nat /\ MaxFaults \in Nat /\ MaxCrashes \in Nat

Status == {"pending", "reserved", "paid", "confirmed", "canceled", "refunded"}

Terminal == {"canceled", "refunded"}

\* Statuses an order only has once it was paid for.
Charged == {"paid", "confirmed", "refunded"}

Kind == {"Start", "Cancel", "Refund"}

EventType == {"OrderStatusChanged", "OrderSagaFailed", "OrderCanceled", "OrderRefunded"}

PC == {"idle", "get", "reserve", "pay", "confirm", "release", "refund",
       "save", "enqueue", "append", "done"}

MaxRetries == 3

VARIABLES
  order,     \* the row: status and version
  history,   \* statuses committed to the row, oldest first (auxiliary)
  held,      \* inventory service: stock is reserved for the order
  captured,  \* payment service: money charged so far
  refunded,  \* payment service: money returned so far
  outbox,    \* events enqueued, oldest first
  timeline,  \* events the sagas appended to the timeline
  saga,      \* the goroutines: where they are, what they run, their copy of the row
  faults,    \* repository operations and releases that failed so far
  crashes    \* crashes so far

vars == <<order, history, held, captured, refunded, outbox, timeline, saga, faults, crashes>>

row == <<order, history>>

services == <<held, captured, refunded>>

events == <<outbox, timeline>>

budget == <<faults, crashes>>

-----------------------------------------------------------------------------

\* The status after v commits of h: CreateOrder stores "pending" as version 0.
Past(h, v) == IF v = 0 THEN "pending" ELSE h[v]

StatusAt(v) == Past(history, v)

InFlight == {c \in Call : saga[c].pc \notin {"idle", "done"}}

Event == [type : EventType, version : Nat, status : Status]

\* A goroutine: its place, its arguments, its copy of the row (status, version)
\* and, inside updateStatus and emitEvent, what it is about to write or emit.
SagaState ==
  [pc : PC, kind : Kind, amount : Nat, status : Status, version : Nat,
   target : Status, attempt : 0 .. MaxRetries - 1, event : EventType]

TypeOK ==
  /\ order \in [status : Status, version : Nat]
  /\ history \in Seq(Status)
  /\ held \in BOOLEAN
  /\ captured \in Nat
  /\ refunded \in Nat
  /\ outbox \in Seq(Event)
  /\ timeline \in SUBSET Event
  /\ saga \in [Call -> SagaState]
  /\ faults \in Nat
  /\ crashes \in Nat

Init ==
  /\ order = [status |-> "pending", version |-> 0]
  /\ history = <<>>
  /\ held = FALSE
  /\ captured = 0
  /\ refunded = 0
  /\ outbox = <<>>
  /\ timeline = {}
  /\ saga = [c \in Call |->
               [pc |-> "idle", kind |-> "Start", amount |-> 0, status |-> "pending", version |-> 0,
                target |-> "pending", attempt |-> 0, event |-> "OrderStatusChanged"]]
  /\ faults = 0
  /\ crashes = 0

-----------------------------------------------------------------------------
(* The control flow inside a goroutine, as functions of its record.        *)

Goto(s, label) == [s EXCEPT !.pc = label]

\* The event emitted after the status event of a saga's last transition.
ClosingEvent(s) ==
  CASE s.kind = "Start"  -> "OrderSagaFailed"
    [] s.kind = "Cancel" -> "OrderCanceled"
    [] s.kind = "Refund" -> "OrderRefunded"

\* Variant: the payment step is skipped.
AfterUpdateSkipsPay(s) ==
  CASE s.target \in {"reserved", "paid"} -> Goto(s, "confirm")
    [] s.target = "confirmed" -> Goto(s, "done")
    [] OTHER                  -> [s EXCEPT !.pc = "enqueue", !.event = ClosingEvent(s)]

\* Where a saga continues when updateStatus(order, target) returned nil.
AfterUpdate(s) ==
  CASE s.target = "reserved"  -> Goto(s, "pay")
    [] s.target = "paid"      -> Goto(s, "confirm")
    [] s.target = "confirmed" -> Goto(s, "done")
    [] OTHER                  -> [s EXCEPT !.pc = "enqueue", !.event = ClosingEvent(s)]

\* Entry of updateStatus: nothing to do if the copy already has the status.
BeginUpdate(s, newStatus) ==
  LET t == [s EXCEPT !.target = newStatus, !.attempt = 0]
  IN  IF s.status = newStatus THEN AfterUpdate(t) ELSE Goto(t, "save")

\* The switch of Start.
StartFrom(s) ==
  CASE s.status = "pending"  -> Goto(s, "reserve")
    [] s.status = "reserved" -> Goto(s, "pay")
    [] s.status = "paid"     -> Goto(s, "confirm")
    [] OTHER                 -> Goto(s, "done")

\* Cancel does nothing to a closed order and compensates what was done.
CancelFrom(s) ==
  CASE s.status \in Terminal -> Goto(s, "done")
    [] s.status = "pending"  -> BeginUpdate(s, "canceled")
    [] OTHER                 -> Goto(s, "release")

\* Refund is for orders that were paid.
RefundFrom(s) == Goto(s, IF s.status \in {"paid", "confirmed"} THEN "refund" ELSE "done")

AfterGet(s) ==
  CASE s.kind = "Start"  -> StartFrom(s)
    [] s.kind = "Cancel" -> CancelFrom(s)
    [] s.kind = "Refund" -> RefundFrom(s)

\* Variant: a declined payment releases the stock but does not fail the order.
AfterReleaseKeepsOrder(s) ==
  CASE s.kind = "Refund" -> BeginUpdate(s, "refunded")
    [] s.kind = "Cancel" /\ s.status \in {"paid", "confirmed"} -> Goto(s, "refund")
    [] s.kind = "Cancel" -> BeginUpdate(s, "canceled")
    [] OTHER -> Goto(s, "done")

\* Variant: Cancel does not refund a confirmed order.
AfterReleaseKeepsMoney(s) ==
  CASE s.kind = "Refund" -> BeginUpdate(s, "refunded")
    [] s.kind = "Cancel" /\ s.status = "paid" -> Goto(s, "refund")
    [] OTHER -> BeginUpdate(s, "canceled")

\* releaseInventory is followed by failOrder, by the refund of a paid order or
\* by the final transition.
AfterRelease(s) ==
  CASE s.kind = "Refund" -> BeginUpdate(s, "refunded")
    [] s.kind = "Cancel" /\ s.status \in {"paid", "confirmed"} -> Goto(s, "refund")
    [] OTHER -> BeginUpdate(s, "canceled")

\* Cancel looks only at the error of payments.Refund, Refund also at the status.
AfterRefund(s, result) ==
  CASE s.kind = "Cancel" /\ result \notin {"rejected", "timeout"} -> BeginUpdate(s, "canceled")
    [] s.kind = "Refund" /\ result = "refunded" -> Goto(s, "release")
    [] OTHER -> Goto(s, "done")

\* The end of emitEvent.
AfterEmit(s) == IF s.event = "OrderStatusChanged" THEN AfterUpdate(s) ELSE Goto(s, "done")

\* Variant: the requested amount is not compared with the order's.
RefundAmountUnchecked(s) == IF s.kind = "Cancel" \/ s.amount <= 0 THEN Amount ELSE s.amount

\* Cancel returns the whole amount; Refund what was asked for, if it is in range.
RefundAmount(s) ==
  IF s.kind = "Cancel" \/ s.amount <= 0 \/ s.amount > Amount THEN Amount ELSE s.amount

EventOf(s) == [type |-> s.event, version |-> s.version, status |-> s.status]

-----------------------------------------------------------------------------
(* The gRPC handlers that start a saga.                                    *)

\* runSagaAsync.  A handler loads the order again in the goroutine, so its own
\* load and the dispatch are one step.  During shutdown the dispatch is skipped
\* and nothing happens.
Dispatch(c, kind, amount) ==
  /\ saga[c].pc = "idle"
  /\ Cardinality(InFlight) < MaxInFlight
  /\ saga' = [saga EXCEPT ![c].pc = "get", ![c].kind = kind, ![c].amount = amount]
  /\ UNCHANGED <<row, services, events, budget>>

PayOrder(c) == order.status = "pending" /\ Dispatch(c, "Start", 0)

CancelOrder(c) == Dispatch(c, "Cancel", 0)

RefundOrder(c) ==
  /\ order.status \in {"paid", "confirmed"}
  /\ \E amount \in RefundAmounts : Dispatch(c, "Refund", amount)

-----------------------------------------------------------------------------
(* The steps of a running saga.                                            *)

At(c, label) == saga[c].pc = label

Become(c, s) == saga' = [saga EXCEPT ![c] = s]

Get(c) ==
  /\ At(c, "get")
  /\ Become(c, AfterGet([saga[c] EXCEPT !.status = order.status, !.version = order.version]))
  /\ UNCHANGED <<row, services, events, budget>>

Reserve(c) ==
  /\ At(c, "reserve")
  /\ \E result \in ReserveResult :
       /\ held' = (held \/ result \in {"ok", "timeout"})
       /\ Become(c, BeginUpdate(saga[c], IF result = "ok" THEN "reserved" ELSE "canceled"))
  /\ UNCHANGED <<row, captured, refunded, events, budget>>

Pay(c) ==
  /\ At(c, "pay")
  /\ \E result \in PayResult :
       /\ captured' = IF result \in {"ok", "timeout"} THEN captured + Amount ELSE captured
       /\ Become(c, IF result = "ok" THEN BeginUpdate(saga[c], "paid")
                                     ELSE Goto(saga[c], "release"))
  /\ UNCHANGED <<row, held, refunded, events, budget>>

Confirm(c) ==
  /\ At(c, "confirm")
  /\ Become(c, BeginUpdate(saga[c], "confirmed"))
  /\ UNCHANGED <<row, services, events, budget>>

Release(c) ==
  /\ At(c, "release")
  /\ held' = FALSE
  /\ Become(c, AfterRelease(saga[c]))
  /\ UNCHANGED <<row, captured, refunded, events, budget>>

Refund(c) ==
  /\ At(c, "refund")
  /\ \E result \in RefundResult :
       /\ refunded' = IF result \in {"refunded", "timeout"}
                      THEN refunded + RefundAmount(saga[c]) ELSE refunded
       /\ Become(c, AfterRefund(saga[c], result))
  /\ UNCHANGED <<row, held, captured, events, budget>>

-----------------------------------------------------------------------------
(* updateStatus: optimistic locking with at most MaxRetries attempts.      *)

\* Variant: the status is not checked again after a reload.
RefusedNever(s) == FALSE

\* The loop refuses to leave a terminal status (errSagaTerminated).
Refused(s) == s.status \in Terminal /\ s.target # s.status

\* After a successful write the copy is the new version; its status event is next.
Committed(s) ==
  [s EXCEPT !.status = s.target, !.version = s.version + 1,
            !.pc = "enqueue", !.event = "OrderStatusChanged"]

Write(c) ==
  /\ order' = [status |-> saga[c].target, version |-> order.version + 1]
  /\ history' = Append(history, saga[c].target)

Terminated(c) ==
  /\ At(c, "save")
  /\ Refused(saga[c])
  /\ Become(c, Goto(saga[c], "done"))
  /\ UNCHANGED <<row, services, events, budget>>

\* Variant: the copy keeps its old version after a successful write.
SaveKeepsVersion(c) ==
  /\ At(c, "save")
  /\ ~Refused(saga[c])
  /\ order.version = saga[c].version
  /\ Write(c)
  /\ Become(c, [saga[c] EXCEPT !.status = saga[c].target,
                               !.pc = "enqueue", !.event = "OrderStatusChanged"])
  /\ UNCHANGED <<services, events, budget>>

\* Variant: the row is written without comparing versions.
SaveUnchecked(c) ==
  /\ At(c, "save")
  /\ ~Refused(saga[c])
  /\ Write(c)
  /\ Become(c, Committed(saga[c]))
  /\ UNCHANGED <<services, events, budget>>

\* Variant: a write that needed a retry emits no status event.
SaveSilentRetry(c) ==
  /\ At(c, "save")
  /\ ~Refused(saga[c])
  /\ order.version = saga[c].version
  /\ Write(c)
  /\ LET s == Committed(saga[c])
     IN  Become(c, IF saga[c].attempt > 0 THEN AfterUpdate(s) ELSE s)
  /\ UNCHANGED <<services, events, budget>>

Save(c) ==
  /\ At(c, "save")
  /\ ~Refused(saga[c])
  /\ order.version = saga[c].version
  /\ Write(c)
  /\ Become(c, Committed(saga[c]))
  /\ UNCHANGED <<services, events, budget>>

\* Variant: a conflict retries with the same stale copy, without counting.
SaveConflictSpins(c) ==
  /\ At(c, "save")
  /\ ~Refused(saga[c])
  /\ order.version # saga[c].version
  /\ Become(c, saga[c])
  /\ UNCHANGED <<row, services, events, budget>>

\* A conflict reloads the row.  Versions only grow, so the conflict still
\* stands when the reload runs and both are one step.
SaveConflict(c) ==
  /\ At(c, "save")
  /\ ~Refused(saga[c])
  /\ order.version # saga[c].version
  /\ Become(c, IF saga[c].attempt < MaxRetries - 1
               THEN [saga[c] EXCEPT !.status = order.status, !.version = order.version,
                                    !.attempt = saga[c].attempt + 1]
               ELSE Goto(saga[c], "done"))
  /\ UNCHANGED <<row, services, events, budget>>

-----------------------------------------------------------------------------
(* emitEvent: the outbox, then the timeline; errors are only logged.       *)

\* Variant: the event reports the row as it is now, not the transition made.
EnqueueCurrent(c) ==
  /\ At(c, "enqueue")
  /\ outbox' = Append(outbox, [EventOf(saga[c]) EXCEPT !.status = order.status])
  /\ Become(c, Goto(saga[c], "append"))
  /\ UNCHANGED <<row, services, timeline, budget>>

Enqueue(c) ==
  /\ At(c, "enqueue")
  /\ outbox' = Append(outbox, EventOf(saga[c]))
  /\ Become(c, Goto(saga[c], "append"))
  /\ UNCHANGED <<row, services, timeline, budget>>

AppendTimeline(c) ==
  /\ At(c, "append")
  /\ timeline' = timeline \cup {EventOf(saga[c])}
  /\ Become(c, AfterEmit(saga[c]))
  /\ UNCHANGED <<row, services, outbox, budget>>

-----------------------------------------------------------------------------
(* Failures.                                                               *)

Fault == faults < MaxFaults /\ faults' = faults + 1 /\ UNCHANGED crashes

\* Get, or the reload after a conflict, or Save fails before it took effect.
StorageFails(c) ==
  /\ saga[c].pc \in {"get", "save"}
  /\ Fault
  /\ Become(c, Goto(saga[c], "done"))
  /\ UNCHANGED <<row, services, events>>

\* Save commits but the acknowledgement is lost: the saga sees an error.
SaveLost(c) ==
  /\ At(c, "save")
  /\ ~Refused(saga[c])
  /\ order.version = saga[c].version
  /\ Fault
  /\ Write(c)
  /\ Become(c, Goto(saga[c], "done"))
  /\ UNCHANGED <<services, events>>

ReleaseFails(c) ==
  /\ At(c, "release")
  /\ Fault
  /\ Become(c, AfterRelease(saga[c]))
  /\ UNCHANGED <<row, services, events>>

EnqueueFails(c) ==
  /\ At(c, "enqueue")
  /\ Fault
  /\ Become(c, Goto(saga[c], "append"))
  /\ UNCHANGED <<row, services, events>>

AppendFails(c) ==
  /\ At(c, "append")
  /\ Fault
  /\ Become(c, AfterEmit(saga[c]))
  /\ UNCHANGED <<row, services, events>>

\* The process dies with its goroutines.  Nothing resumes them after a restart.
Crash ==
  /\ crashes < MaxCrashes
  /\ InFlight # {}
  /\ crashes' = crashes + 1
  /\ saga' = [c \in Call |-> IF c \in InFlight THEN Goto(saga[c], "done") ELSE saga[c]]
  /\ UNCHANGED <<row, services, events, faults>>

-----------------------------------------------------------------------------

Request(c) == PayOrder(c) \/ CancelOrder(c) \/ RefundOrder(c)

Step(c) ==
  \/ Get(c) \/ Reserve(c) \/ Pay(c) \/ Confirm(c) \/ Release(c) \/ Refund(c)
  \/ Terminated(c) \/ Save(c) \/ SaveConflict(c)
  \/ Enqueue(c) \/ AppendTimeline(c)

Failure(c) ==
  \/ StorageFails(c) \/ SaveLost(c) \/ ReleaseFails(c) \/ EnqueueFails(c) \/ AppendFails(c)

Next == (\E c \in Call : Request(c) \/ Step(c) \/ Failure(c)) \/ Crash

Spec == Init /\ [][Next]_vars

\* A dispatched goroutine is scheduled by the Go runtime until it returns, and
\* every repository operation and external call it makes returns.
Fairness == \A c \in Call : WF_vars(Step(c))

FairSpec == Spec /\ Fairness

-----------------------------------------------------------------------------
(* What the orchestrator guarantees whatever the interleaving.             *)

Quiet == InFlight = {}

Emitted == {outbox[i] : i \in DOMAIN outbox}

Loaded(c) == saga[c].pc \notin {"idle", "get"}

\* The copy of the row a saga works on is a version the row really had, so a
\* Save that passes the version check of the repository acts on the current status.
CopiesAreVersions ==
  \A c \in Call : Loaded(c) =>
    /\ saga[c].version <= order.version
    /\ saga[c].status = StatusAt(saga[c].version)

\* A canceled or refunded order never gets another status, however long a
\* Start, Cancel or Refund has been working on an older copy (updateStatus
\* checks the status again after each reload).
TerminalIsFinal == [][order.status \in Terminal => order'.status = order.status]_vars

\* No order is paid, confirmed or refunded unless Pay charged it, and no money
\* goes back for an order that was never charged.
NeverUncharged ==
  /\ order.status \in Charged => captured >= Amount
  /\ refunded > 0 => captured >= Amount

TrueEvent(e, h) ==
  /\ e.version \in 1 .. Len(h)
  /\ e.status = h[e.version]
  /\ e.type \in {"OrderCanceled", "OrderSagaFailed"} => e.status = "canceled"
  /\ e.type = "OrderRefunded" => e.status = "refunded"

\* Every event in the outbox or the timeline tells the truth: it names a status
\* the row really had at that version, and a closing event names its own kind of end.
EventsAreTrue == \A e \in Emitted \cup timeline : TrueEvent(e, history)

\* One committed transition puts no event twice into the outbox, whatever is
\* retried: the version check lets one saga own each version.
EventsAreUnique == \A i, j \in DOMAIN outbox : i # j => outbox[i] # outbox[j]

\* Without storage faults and crashes, every committed transition has reached
\* the outbox and the timeline when the sagas have returned.
EventsAreComplete ==
  Quiet /\ faults = 0 /\ crashes = 0 =>
    \A v \in 1 .. order.version :
      [type |-> "OrderStatusChanged", version |-> v, status |-> StatusAt(v)] \in Emitted \cap timeline

\* Every dispatched saga returns, whatever fails: the retry loop of
\* updateStatus is bounded.
CallsReturn == []<>Quiet

Settled == order.status \in {"confirmed", "canceled", "refunded"}

\* A started order is settled, confirmed or compensated and closed, unless the
\* storage fails or the process dies.
StartSettles ==
  (\E c \in Call : saga[c].kind = "Start" /\ saga[c].pc # "idle")
    ~> Settled \/ faults > 0 \/ crashes > 0

-----------------------------------------------------------------------------
(* What holds when the sagas of an order do not overlap.                   *)

\* The transitions of the state machine in docs/architecture/saga.md.
Documented ==
  {<<"pending", "reserved">>, <<"reserved", "paid">>, <<"paid", "confirmed">>,
   <<"pending", "canceled">>, <<"reserved", "canceled">>, <<"paid", "canceled">>,
   <<"confirmed", "canceled">>, <<"paid", "refunded">>, <<"confirmed", "refunded">>}

\* updateStatus moves the order along the documented state machine.
FollowsStateMachine ==
  [][order'.status # order.status => <<order.status, order'.status>> \in Documented]_vars

\* When no saga runs, a closed order holds no stock, and a canceled one no money.
Compensated ==
  Quiet => /\ order.status \in Terminal => ~held
           /\ order.status = "canceled" => captured = refunded

\* The customer is charged at most once and never gets back more than was charged.
MoneyBalanced == refunded <= captured /\ captured <= Amount

-----------------------------------------------------------------------------
(* The inductive invariant behind the properties above.                    *)

\* The row is the last commit.
RowIsLastCommit == order.version = Len(history) /\ order.status = StatusAt(order.version)

\* The copy of a saga is a version of the row: version 0 before it is loaded.
CopyIsVersion(s, h) == s.version \in 0 .. Len(h) /\ s.status = Past(h, s.version)

\* The statuses of its copy a saga of this kind has at this step.
StepFits(label, kind, status) ==
  /\ label = "reserve" => kind = "Start" /\ status = "pending"
  /\ label = "pay" => kind = "Start" /\ status = "reserved"
  /\ label = "confirm" => kind = "Start" /\ status = "paid"
  /\ label = "release" => \/ kind = "Start" /\ status = "reserved"
                          \/ kind = "Cancel" /\ status \in {"reserved", "paid", "confirmed"}
                          \/ kind = "Refund" /\ status \in {"paid", "confirmed"}
  /\ label = "refund" => kind \in {"Cancel", "Refund"} /\ status \in {"paid", "confirmed"}

\* The statuses a saga of this kind writes.
Writes(kind, status) ==
  \/ kind = "Start" /\ status \in {"reserved", "paid", "confirmed", "canceled"}
  \/ kind = "Cancel" /\ status = "canceled"
  \/ kind = "Refund" /\ status = "refunded"

\* The status a saga writes is one its kind writes, and the event it emits is
\* about the status it has just written.
WriteFitsKind(s) ==
  /\ s.pc \in {"save", "enqueue", "append"} => Writes(s.kind, s.target)
  /\ s.pc \in {"enqueue", "append"} =>
       /\ s.status = s.target
       /\ s.event # "OrderStatusChanged" => s.event = ClosingEvent(s) /\ s.target \in Terminal

\* A saga that is about to write a status of a charged order, or to refund it,
\* knows of a successful Pay.
NeedsCharge(s) ==
  \/ s.pc \in {"confirm", "refund"}
  \/ s.pc \in {"save", "enqueue", "append"} /\ s.target \in Charged
  \/ s.pc = "release" /\ s.kind = "Refund"

Good(s, h, paid) ==
  /\ CopyIsVersion(s, h)
  /\ StepFits(s.pc, s.kind, s.status)
  /\ WriteFitsKind(s)
  /\ NeedsCharge(s) => paid

\* Statuses of a charged order are committed, and money is returned, only after Pay.
ChargeComesFirst ==
  /\ \A v \in DOMAIN history : history[v] \in Charged => captured >= Amount
  /\ refunded > 0 => captured >= Amount

Emitting(c) == saga[c].pc \in {"enqueue", "append"}

\* Each version is announced by the one saga that committed it.
OneOwner ==
  \A c, d \in Call : c # d /\ Emitting(c) /\ Emitting(d) => saga[c].version # saga[d].version

\* What a saga is about to emit is not in the outbox yet, nor is the closing
\* event that may follow a status event.
NotYetSent ==
  \A c \in Call, e \in Emitted :
    Emitting(c) /\ e.version = saga[c].version =>
      /\ saga[c].pc = "enqueue" => e.type # saga[c].event
      /\ saga[c].event = "OrderStatusChanged" => e.type = "OrderStatusChanged"

\* The conjunction that every step of the orchestrator preserves.
SagaInv ==
  /\ TypeOK
  /\ RowIsLastCommit
  /\ ChargeComesFirst
  /\ \A c \in Call : Good(saga[c], history, captured >= Amount)
  /\ EventsAreTrue
  /\ EventsAreUnique
  /\ OneOwner
  /\ NotYetSent

=============================================================================
