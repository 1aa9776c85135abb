---------------------------- MODULE OrderService ----------------------------
(***************************************************************************)
(* The gRPC order service (internal/service/grpc/order_service.go) with    *)
(* the idempotency repository and its cleanup worker, inside a process     *)
(* that is shut down, crashes and is started again (internal/app/app.go).  *)
(*                                                                         *)
(* Every member of Rpc is one call of CreateOrder, PayOrder, CancelOrder   *)
(* or RefundOrder.  A client that retries makes a new call with the same   *)
(* key.  Each repository operation of a call is one step.  A background    *)
(* saga is reduced to what the handlers can see of it: the statuses it     *)
(* writes, and whether it returned (module Saga has its steps).            *)
(*                                                                         *)
(* Left out: GetOrder and ListOrders, which only read; timeline entries;   *)
(* the branches for a service without an orchestrator or without an        *)
(* idempotency repository, which app.go never builds.                      *)
(***************************************************************************)
EXTENDS Integers, Sequences, FiniteSets, OrderAmount

CONSTANTS
  MaxRpc,       \* bound: calls
  Key,          \* idempotency keys
  NoKey,        \* the metadata holds no key
  Order,        \* orders that exist from the start
  Payload,      \* request messages
  BatchSize,    \* WithBatchSize of the cleanup worker
  MaxTroubles   \* bound: failing repository operations, crashes, signals and failures of
                \* the listener, all together

ASSUME OrderServiceAssumption ==
  /\ MaxRpc \in Nat /\ BatchSize \in Nat \ {0}
  /\ MaxTroubles \in Nat
  /\ NoKey \notin Key
  /\ Payload # {}
  /\ \A p \in Payload : p.method \in {"CreateOrder", "PayOrder", "CancelOrder", "RefundOrder"}

Rpc == 1 .. MaxRpc

Status == {"pending", "reserved", "paid", "confirmed", "canceled", "refunded"}

Backend == {"memory", "postgres"}

Phase == {"serving", "draining", "stopped", "closing", "waited", "expired", "down"}

PC == {"idle", "begin", "getkey", "handle", "dispatch", "reload", "mark", "answered", "killed"}

\* What became of the background saga of a call.
SagaEnd == {"none", "running", "returned", "skipped", "killed"}

grpcCodeToInt32 ==
  [OK |-> 0, Canceled |-> 1, Unknown |-> 2, InvalidArgument |-> 3, DeadlineExceeded |-> 4,
   NotFound |-> 5, AlreadyExists |-> 6, PermissionDenied |-> 7, ResourceExhausted |-> 8,
   FailedPrecondition |-> 9, Aborted |-> 10, OutOfRange |-> 11, Unimplemented |-> 12,
   Internal |-> 13, Unavailable |-> 14, DataLoss |-> 15, Unauthenticated |-> 16]

Code == DOMAIN grpcCodeToInt32

\* grpcCodeFromInt64: the code of a number, Internal if there is none.
grpcCodeFromInt64(n) ==
  IF \E c \in Code : grpcCodeToInt32[c] = n
  THEN CHOOSE c \in Code : grpcCodeToInt32[c] = n ELSE "Internal"

VARIABLES
  backend,   \* storage driver of this deployment
  record,    \* idempotency_keys: None or a record
  life,      \* how many records of the key were deleted (auxiliary)
  row,       \* statuses of the orders
  created,   \* orders made by CreateOrder
  rpc,       \* the calls
  saga,      \* the background sagas of the calls
  phase,     \* of the process
  open,      \* the server takes calls
  abrupt,    \* a stop that did not wait for running calls or sagas (auxiliary)
  overrun,   \* keys whose record was deleted under a running call (auxiliary)
  faults,    \* repository operations that failed so far
  stops      \* crashes, signals and failures of the listener so far

vars == <<backend, record, life, row, created, rpc, saga, phase, open, abrupt,
          overrun, faults, stops>>

keys == <<record, life, overrun>>

orders == <<row, created>>

process == <<backend, phase, open, abrupt, stops>>

None == [status |-> "none"]

NoAnswer == [code |-> "none", order |-> 0, status |-> "none"]

Error(code) == [NoAnswer EXCEPT !.code = code]

Answer == [code : Code \cup {"none"}, order : 0 .. MaxRpc, status : Status \cup {"none"}]

Record ==
  [status : {"processing", "done", "failed"}, hash : Payload, body : Answer,
   httpStatus : {grpcCodeToInt32[c] : c \in Code}, expired : BOOLEAN]

RpcState ==
  [pc : PC, key : Key \cup {NoKey}, payload : Payload, loaded : Status \cup {"none"},
   answer : Answer, ran : BOOLEAN, final : BOOLEAN, life : Nat, cut : BOOLEAN]

TypeOK ==
  /\ backend \in Backend
  /\ record \in [Key -> Record \cup {None}]
  /\ life \in [Key -> Nat]
  /\ row \in [Order -> Status]
  /\ \A o \in created : o.by \in Rpc
  /\ rpc \in [Rpc -> RpcState]
  /\ saga \in [Rpc -> SagaEnd]
  /\ phase \in Phase /\ open \in BOOLEAN /\ abrupt \in BOOLEAN
  /\ overrun \in SUBSET Key
  /\ faults \in Nat /\ stops \in Nat

Idle ==
  [pc |-> "idle", key |-> NoKey, payload |-> CHOOSE p \in Payload : TRUE, loaded |-> "none",
   answer |-> NoAnswer, ran |-> FALSE, final |-> FALSE, life |-> 0, cut |-> FALSE]

Init ==
  /\ backend \in Backend
  /\ record = [k \in Key |-> None]
  /\ life = [k \in Key |-> 0]
  /\ row = [o \in Order |-> "pending"]
  /\ created = {}
  /\ rpc = [r \in Rpc |-> Idle]
  /\ saga = [r \in Rpc |-> "none"]
  /\ phase = "serving" /\ open = TRUE /\ abrupt = FALSE
  /\ overrun = {}
  /\ faults = 0 /\ stops = 0

-----------------------------------------------------------------------------

At(r, label) == rpc[r].pc = label

Become(r, s) == rpc' = [rpc EXCEPT ![r] = s]

Fault == faults + stops < MaxTroubles /\ faults' = faults + 1

InFlight == {r \in Rpc : rpc[r].pc \notin {"idle", "answered", "killed"}}

Running == {r \in Rpc : saga[r] = "running"}

\* The client gets no answer to the call.
Killed(s) ==
  [s EXCEPT !.pc = "killed", !.answer = NoAnswer, !.loaded = "none", !.final = FALSE, !.cut = FALSE]

\* The call returns a to its client, if the connection still stands.
Return(s, a) == IF s.cut THEN Killed(s) ELSE [s EXCEPT !.pc = "answered", !.answer = a]

\* The handler is done: withIdempotency stores a before it returns it.
Finish(s, a) == [s EXCEPT !.pc = "mark", !.answer = a, !.final = TRUE, !.loaded = "none"]

\* A client makes a call.  A call without an order id or without a key is
\* refused before anything is stored.
Call(r) ==
  /\ open
  /\ At(r, "idle") /\ \A q \in Rpc : q < r => ~At(q, "idle")
  /\ \E k \in Key \cup {NoKey}, p \in Payload :
       Become(r, IF k = NoKey \/ (p.method # "CreateOrder" /\ p.order = "")
                 THEN Return(Idle, Error("InvalidArgument"))
                 ELSE [Idle EXCEPT !.pc = "begin", !.key = k, !.payload = p])
  /\ UNCHANGED <<keys, orders, saga, process, faults>>

-----------------------------------------------------------------------------
(* withIdempotency.                                                        *)

Processing(s) ==
  [status |-> "processing", hash |-> s.payload, body |-> NoAnswer,
   httpStatus |-> 0, expired |-> FALSE]

\* The call has the key to itself and runs the handler.
Own(s) == [s EXCEPT !.pc = "handle", !.ran = TRUE, !.life = life[s.key]]

\* decodeIdempotencyFailure: a failure is never answered with OK.
decodeIdempotencyFailure(rec) ==
  LET code == grpcCodeFromInt64(rec.httpStatus)
  IN  Error(IF code = "OK" THEN "Internal" ELSE code)

\* The answer a record holds.
Stored(rec) == IF rec.status = "done" THEN rec.body ELSE decodeIdempotencyFailure(rec)

\* Variant: the request is not compared with the one the key was first used for.
replayAnyHash(s, rec) ==
  IF rec.status = "processing" THEN Return(s, Error("Aborted"))
  ELSE Return([s EXCEPT !.final = TRUE, !.life = life[s.key]], Stored(rec))

\* replayIdempotency for a record that was found.
replayIdempotency(s, rec) ==
  CASE rec.hash # s.payload -> Return(s, Error("AlreadyExists"))
    [] rec.hash = s.payload /\ rec.status = "processing" -> Return(s, Error("Aborted"))
    [] OTHER -> Return([s EXCEPT !.final = TRUE, !.life = life[s.key]], Stored(rec))

\* Variant: a key whose request failed may be used again.
CreateProcessingAfterFailure(r) ==
  /\ At(r, "begin")
  /\ record[rpc[r].key].status \in {"none", "failed"}
  /\ record' = [record EXCEPT ![rpc[r].key] = Processing(rpc[r])]
  /\ Become(r, Own(rpc[r]))
  /\ UNCHANGED <<life, overrun, orders, saga, process, faults>>

\* CreateProcessing: the key is new.
CreateProcessing(r) ==
  /\ At(r, "begin")
  /\ record[rpc[r].key] = None
  /\ record' = [record EXCEPT ![rpc[r].key] = Processing(rpc[r])]
  /\ Become(r, Own(rpc[r]))
  /\ UNCHANGED <<life, overrun, orders, saga, process, faults>>

\* CreateProcessing of the memory repository returns the record it found.
FindKey(r) ==
  /\ At(r, "begin") /\ backend = "memory"
  /\ record[rpc[r].key] # None
  /\ Become(r, replayIdempotency(rpc[r], record[rpc[r].key]))
  /\ UNCHANGED <<keys, orders, saga, process, faults>>

\* In PostgreSQL the INSERT fails first, and the record is read afterwards.
KeyExists(r) ==
  /\ At(r, "begin") /\ backend = "postgres"
  /\ record[rpc[r].key] # None
  /\ Become(r, [rpc[r] EXCEPT !.pc = "getkey"])
  /\ UNCHANGED <<keys, orders, saga, process, faults>>

\* The record may be gone by then: an empty record has no known status.
GetKey(r) ==
  /\ At(r, "getkey")
  /\ LET rec == record[rpc[r].key]
     IN  Become(r, IF rec = None THEN Return(rpc[r], Error("Internal"))
                                 ELSE replayIdempotency(rpc[r], rec))
  /\ UNCHANGED <<keys, orders, saga, process, faults>>

\* CreateProcessing or Get returns an error; an INSERT may have been committed
\* all the same.
KeyFails(r) ==
  /\ At(r, "begin") \/ At(r, "getkey")
  /\ Fault
  /\ record' \in {record} \cup
       IF At(r, "begin") /\ record[rpc[r].key] = None
       THEN {[record EXCEPT ![rpc[r].key] = Processing(rpc[r])]} ELSE {}
  /\ Become(r, Return(rpc[r], Error("Internal")))
  /\ UNCHANGED <<life, overrun, orders, saga, process>>

\* Variant: a failure is stored without its code.
MarkedNoCode(rec, a) ==
  IF a.code = "OK" THEN [rec EXCEPT !.status = "done", !.body = a]
  ELSE [rec EXCEPT !.status = "failed"]

\* MarkDone stores the response, MarkFailed the code.
Marked(rec, a) ==
  IF a.code = "OK" THEN [rec EXCEPT !.status = "done", !.body = a, !.httpStatus = 0]
  ELSE [rec EXCEPT !.status = "failed", !.body = NoAnswer, !.httpStatus = grpcCodeToInt32[a.code]]

\* cacheIdempotencySuccess or cacheIdempotencyFailure.  The record is found by
\* its key, whoever made it; if it is gone the error is only logged.
Mark(r) ==
  /\ At(r, "mark")
  /\ LET s == rpc[r]
     IN  /\ record' = IF record[s.key] = None THEN record
                      ELSE [record EXCEPT ![s.key] = Marked(@, s.answer)]
         /\ Become(r, Return(s, s.answer))
  /\ UNCHANGED <<life, overrun, orders, saga, process, faults>>

\* The error is only logged: the record stays in processing.
MarkFails(r) ==
  /\ At(r, "mark")
  /\ Fault
  /\ Become(r, Return(rpc[r], rpc[r].answer))
  /\ UNCHANGED <<keys, orders, saga, process>>

-----------------------------------------------------------------------------
(* The handlers.                                                           *)

\* The order createOrderInternal makes of the request.
NewOrder(r) ==
  LET items == rpc[r].payload.items IN [by |-> r, items |-> items, amount |-> AmountSum(items)]

Acceptable(r) == ItemsAccepted(rpc[r].payload.items) /\ ValidateInvariants(NewOrder(r))

\* createOrderInternal: check the request, store the order.
CreateOrder(r) ==
  /\ At(r, "handle") /\ rpc[r].payload.method = "CreateOrder"
  /\ LET order == NewOrder(r)
     IN  IF Acceptable(r)
         THEN /\ created' = created \cup {order}
              /\ Become(r, Finish(rpc[r], [code |-> "OK", order |-> r, status |-> "pending"]))
         ELSE /\ Become(r, Finish(rpc[r], Error("InvalidArgument")))
              /\ UNCHANGED created
  /\ UNCHANGED <<keys, row, saga, process, faults>>

\* What the handler makes of the order it loaded: the error it answers with.
Refusal(p, status) ==
  CASE p.method = "PayOrder" /\ status # "pending" -> "FailedPrecondition"
    [] p.method = "RefundOrder" /\ p.amount < 0 -> "InvalidArgument"
    [] p.method = "RefundOrder" /\ p.amount >= 0 /\ status \notin {"paid", "confirmed"}
         -> "FailedPrecondition"
    [] OTHER -> "OK"

\* loadOrder and the checks of payOrderInternal, cancelOrderInternal and
\* refundOrderInternal.
LoadOrder(r) ==
  /\ At(r, "handle") /\ rpc[r].payload.method # "CreateOrder"
  /\ LET p == rpc[r].payload
     IN  Become(r,
           IF p.order \notin Order THEN Finish(rpc[r], Error("NotFound"))
           ELSE IF Refusal(p, row[p.order]) # "OK"
           THEN Finish(rpc[r], Error(Refusal(p, row[p.order])))
           ELSE [rpc[r] EXCEPT !.pc = "dispatch", !.loaded = row[p.order]])
  /\ UNCHANGED <<keys, orders, saga, process, faults>>

\* Variant: the saga is skipped as soon as the process was told to stop.
DispatchClosesEarly == phase \notin {"serving"}

\* Variant: Shutdown waits without closing the dispatch.
DispatchStaysOpen == FALSE

\* sagaClosed, from the begin of Shutdown to the end of the process.
DispatchClosed == phase \in {"closing", "waited", "expired"}

\* runSagaAsync.  Pay answers with the status it loaded.
Dispatch(r) ==
  /\ At(r, "dispatch")
  /\ saga' = [saga EXCEPT ![r] = IF DispatchClosed THEN "skipped" ELSE "running"]
  /\ Become(r, IF rpc[r].payload.method = "PayOrder"
               THEN Finish(rpc[r], [code |-> "OK", order |-> 0, status |-> rpc[r].loaded])
               ELSE [rpc[r] EXCEPT !.pc = "reload"])
  /\ UNCHANGED <<keys, orders, process, faults>>

\* Cancel and Refund load the order again for the answer.
ReloadOrder(r) ==
  /\ At(r, "reload")
  /\ Become(r, Finish(rpc[r], [code |-> "OK", order |-> 0, status |-> row[rpc[r].payload.order]]))
  /\ UNCHANGED <<keys, orders, saga, process, faults>>

\* The order repository returns an error; an order may have been stored all
\* the same.
OrderFails(r) ==
  /\ At(r, "handle") \/ At(r, "reload")
  /\ Fault
  /\ \/ rpc[r].payload.method # "CreateOrder" /\ UNCHANGED created
     \/ /\ rpc[r].payload.method = "CreateOrder" /\ Acceptable(r)
        /\ created' \in {created, created \cup {NewOrder(r)}}
  /\ Become(r, Finish(rpc[r], Error("Internal")))
  /\ UNCHANGED <<keys, row, saga, process>>

\* The statuses a saga writes.
SagaWrites(method) ==
  CASE method = "PayOrder"    -> {"reserved", "paid", "confirmed", "canceled"}
    [] method = "CancelOrder" -> {"canceled"}
    [] method = "RefundOrder" -> {"refunded"}

\* A saga returns: it wrote nothing, or left its order in one of its statuses;
\* it never moves an order out of a terminal one.
SagaReturns(r) ==
  /\ r \in Running
  /\ saga' = [saga EXCEPT ![r] = "returned"]
  /\ \/ UNCHANGED row
     \/ /\ row[rpc[r].payload.order] \notin {"canceled", "refunded"}
        /\ \E status \in SagaWrites(rpc[r].payload.method) :
             row' = [row EXCEPT ![rpc[r].payload.order] = status]
  /\ UNCHANGED <<keys, created, rpc, process, faults>>

-----------------------------------------------------------------------------
(* The cleanup worker.                                                     *)

Expired == {k \in Key : record[k] # None /\ record[k].expired}

\* 24 hours pass since the record was made.
Expire(k) ==
  /\ record[k] # None /\ ~record[k].expired
  /\ record' = [record EXCEPT ![k].expired = TRUE]
  /\ UNCHANGED <<life, overrun, orders, rpc, saga, process, faults>>

\* Variant: records of running calls are kept.
DeletableDone == {k \in Expired : record[k].status # "processing"}

\* The records DeleteExpired may delete: whatever their status.
Deletable == Expired

\* One batch of DeleteExpired.  The worker goes on while batches are full, and
\* again at the next tick; so batches may follow each other at any time.
DeleteExpired ==
  /\ phase # "down"
  /\ \E batch \in SUBSET Deletable :
       /\ batch # {}
       /\ Cardinality(batch) =
            IF Cardinality(Deletable) < BatchSize THEN Cardinality(Deletable) ELSE BatchSize
       /\ record' = [k \in Key |-> IF k \in batch THEN None ELSE record[k]]
       /\ life' = [k \in Key |-> IF k \in batch THEN life[k] + 1 ELSE life[k]]
       /\ overrun' = overrun \cup
            {k \in batch : \E r \in InFlight : rpc[r].key = k /\ rpc[r].ran}
  /\ UNCHANGED <<orders, rpc, saga, process, faults>>

-----------------------------------------------------------------------------
(* The process.                                                            *)

Stopping == faults + stops < MaxTroubles /\ stops' = stops + 1

kept == <<keys, orders, rpc, saga, backend, faults>>

\* SIGTERM: GracefulStop takes no new calls and waits for the running ones.
Signal ==
  /\ phase = "serving" /\ Stopping
  /\ phase' = "draining" /\ open' = FALSE
  /\ UNCHANGED <<kept, abrupt>>

GracefulStop ==
  /\ phase = "draining" /\ InFlight = {}
  /\ phase' = "stopped"
  /\ UNCHANGED <<kept, open, abrupt, stops>>

\* gracefulShutdownTimeout: the connections are closed, the handlers run on.
StopServer ==
  /\ phase = "draining" /\ InFlight # {}
  /\ phase' = "stopped" /\ abrupt' = TRUE
  /\ rpc' = [r \in Rpc |-> [rpc[r] EXCEPT !.cut = @ \/ r \in InFlight]]
  /\ UNCHANGED <<keys, orders, saga, backend, faults, open, stops>>

\* The listener fails: Serve returns, and nothing stops the connections there are.
ServeFails ==
  /\ phase = "serving" /\ Stopping
  /\ phase' = "stopped" /\ abrupt' = TRUE
  /\ UNCHANGED <<kept, open>>

\* OrderService.Shutdown closes the dispatch and waits for the sagas.
ShutdownSagas ==
  /\ phase = "stopped"
  /\ phase' = "closing"
  /\ UNCHANGED <<kept, open, abrupt, stops>>

\* What is left of the calls, the sagas and the store when the process ends.
Ended ==
  /\ phase' = "down" /\ open' = FALSE
  /\ rpc' = [r \in Rpc |-> IF r \in InFlight THEN Killed(rpc[r]) ELSE rpc[r]]
  /\ saga' = [r \in Rpc |-> IF r \in Running THEN "killed" ELSE saga[r]]
  /\ record' = IF backend = "memory" THEN [k \in Key |-> None] ELSE record
  /\ UNCHANGED <<life, overrun, orders, backend, faults>>

\* The wait group is empty: Shutdown returns.  Handlers that outlived the server
\* may still reach the dispatch.
SagasReturned ==
  /\ phase = "closing" /\ Running = {}
  /\ phase' = "waited"
  /\ UNCHANGED <<kept, open, abrupt, stops>>

\* The context of Shutdown expires while sagas run; they run on.
WaitTimeout ==
  /\ phase = "closing" /\ Running # {}
  /\ phase' = "expired" /\ abrupt' = TRUE
  /\ UNCHANGED <<kept, open, stops>>

\* The workers are stopped, the producer is closed and Run returns.
Exit ==
  /\ phase \in {"waited", "expired"}
  /\ Ended
  /\ UNCHANGED <<abrupt, stops>>

Crash ==
  /\ phase # "down" /\ Stopping
  /\ abrupt' = TRUE
  /\ Ended

\* The process is started again.  The memory backend starts empty, which is
\* another behaviour of this module.
Restart ==
  /\ phase = "down" /\ backend = "postgres"
  /\ phase' = "serving" /\ open' = TRUE
  /\ UNCHANGED <<kept, abrupt, stops>>

-----------------------------------------------------------------------------

RpcStep(r) ==
  \/ CreateProcessing(r) \/ FindKey(r) \/ KeyExists(r) \/ GetKey(r) \/ Mark(r)
  \/ CreateOrder(r) \/ LoadOrder(r) \/ Dispatch(r) \/ ReloadOrder(r)

RpcFault(r) == KeyFails(r) \/ MarkFails(r) \/ OrderFails(r)

Shutdown ==
  \/ GracefulStop \/ StopServer \/ ShutdownSagas \/ SagasReturned \/ WaitTimeout
  \/ Exit \/ Restart

Next ==
  \/ \E r \in Rpc : Call(r) \/ RpcStep(r) \/ RpcFault(r) \/ SagaReturns(r)
  \/ \E k \in Key : Expire(k)
  \/ DeleteExpired \/ Shutdown \/ Signal \/ ServeFails \/ Crash

Spec == Init /\ [][Next]_vars

\* The Go runtime runs every handler, time passes, the cleanup ticker fires, the
\* timeouts of the shutdown fire and a stopped process is started again.  Sagas
\* need not return.
FairSpec ==
  /\ Spec
  /\ \A r \in Rpc : WF_vars(RpcStep(r))
  /\ \A k \in Key : WF_vars(Expire(k))
  /\ WF_vars(DeleteExpired) /\ WF_vars(Shutdown)

-----------------------------------------------------------------------------
(* Properties.                                                             *)

\* However often a client repeats a request with a key, at the same time or
\* after a crash, the handler runs once for each record of the key
\* (CreateProcessing lets one call in, and only a deletion lets the next one in).
OncePerKey ==
  \A q, r \in Rpc :
    q # r /\ rpc[q].ran /\ rpc[r].ran /\ rpc[q].key = rpc[r].key => rpc[q].life # rpc[r].life

\* A repeated request gets the answer of the first one, success or failure,
\* across restarts (docs/architecture/idempotency.md:10), as long as the record
\* did not expire under the running call.  An order it names was stored.
SameAnswer ==
  /\ \A q, r \in Rpc :
       /\ At(q, "answered") /\ At(r, "answered")
       /\ rpc[q].final /\ rpc[r].final
       /\ rpc[q].key = rpc[r].key /\ rpc[q].life = rpc[r].life
       /\ rpc[q].key \notin overrun
       => rpc[q].answer = rpc[r].answer
  /\ \A r \in Rpc : rpc[r].answer.order # 0 => \E o \in created : o.by = rpc[r].answer.order

\* A key answers only the request it was first used for.
OneRequestPerKey ==
  \A q, r \in Rpc :
    rpc[q].final /\ rpc[r].final /\ rpc[q].key = rpc[r].key /\ rpc[q].life = rpc[r].life
    => rpc[q].payload = rpc[r].payload

\* Some call with the key of r started its saga.
Started(r) ==
  \E q \in Rpc : rpc[q].key = rpc[r].key /\ rpc[q].payload = rpc[r].payload
                 /\ saga[q] \notin {"none", "skipped"}

\* A client that was told OK by PayOrder, CancelOrder or RefundOrder, at once or
\* after a retry, has a saga that was started (runSagaAsync answers nothing when
\* the dispatch is closed), while no shutdown was cut short and the record did
\* not expire under a running call.
OrderlyAcceptedIsStarted ==
  ~abrupt => \A r \in Rpc :
    /\ At(r, "answered") /\ rpc[r].answer.code = "OK"
    /\ rpc[r].payload.method # "CreateOrder" /\ rpc[r].key \notin overrun
    => Started(r)

\* Once Shutdown has waited for the sagas, none runs until the process ends, so
\* its exit kills none.  This is so also when handlers outlived GracefulStop or
\* the listener failed and the old connections bring new calls: runSagaAsync
\* joins the wait group and reads sagaClosed under one lock.
WaitedForSagas == phase = "waited" => Running = {}

\* A key does not stay in processing for ever, whatever died while it was
\* processed: it is answered or deleted.
KeysSettle == \A k \in Key : record[k].status = "processing" ~> record[k].status # "processing"

=============================================================================
