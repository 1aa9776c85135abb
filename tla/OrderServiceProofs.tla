------------------------- MODULE OrderServiceProofs -------------------------
(***************************************************************************)
(* Proofs about OrderService: whatever the number of calls, keys, orders   *)
(* and faults, a handler runs once for each record of a key, a key answers *)
(* one request only and always with the same answer, an orderly shutdown   *)
(* kills no saga, and an accepted request has its saga.                    *)
(*                                                                         *)
(* The argument follows the records.  A call that ran its handler or was   *)
(* answered from a record remembers which record of its key that was, the  *)
(* rpc[r].life-th.  As long as this is the current one, the record is      *)
(* there and holds the hash of the call's request (Ledger), so that        *)
(* CreateProcessing lets no second call in.  The memory repository loses   *)
(* its records when the process ends, but then no call runs (Down).        *)
(*                                                                         *)
(* The answers follow from the owner of a record: while the handler runs   *)
(* the record is in processing and nobody has a final answer (Mine); from  *)
(* then on the record holds the answer that was given (Settled).  Sagas    *)
(* are started because an orderly stop closes the dispatch only when no    *)
(* call is left (Drained).                                                 *)
(***************************************************************************)
EXTENDS OrderService, TLAPS

\* What the proof needs of TypeOK.
Types ==
  /\ backend \in Backend /\ phase \in Phase /\ open \in BOOLEAN
  /\ record \in [Key -> Record \cup {None}]
  /\ life \in [Key -> Nat]
  /\ row \in [Order -> Status]
  /\ rpc \in [Rpc -> RpcState]
  /\ saga \in [Rpc -> SagaEnd]

\* The records are gone with the memory of the process.
Lost == phase = "down" /\ backend = "memory"

\* The call ran its handler or was answered from a record.
Holds(r) == rpc[r].ran \/ rpc[r].final

\* The record a call holds is the current one, with the call's request, or an
\* older one.
Ledger ==
  \A r \in Rpc : Holds(r) =>
    /\ rpc[r].key \in Key
    /\ rpc[r].life <= life[rpc[r].key]
    /\ rpc[r].life = life[rpc[r].key] /\ ~Lost =>
         record[rpc[r].key] # None /\ record[rpc[r].key].hash = rpc[r].payload

\* Calls that hold the same record made the same request.
SameRequest ==
  \A q, r \in Rpc :
    Holds(q) /\ Holds(r) /\ rpc[q].key = rpc[r].key /\ rpc[q].life = rpc[r].life
    => rpc[q].payload = rpc[r].payload

\* Where a call is says what it has done.
Flow ==
  \A r \in Rpc :
    /\ r \in InFlight => rpc[r].key \in Key
    /\ rpc[r].pc \in {"begin", "getkey"} => ~Holds(r)
    /\ rpc[r].pc \in {"handle", "dispatch", "reload", "mark"} => rpc[r].ran
    /\ rpc[r].pc = "mark" => rpc[r].answer.code \in Code
    /\ rpc[r].pc \in {"dispatch", "reload"} =>
         rpc[r].payload.order \in Order /\ rpc[r].payload.method # "CreateOrder"
    /\ saga[r] = "running" => rpc[r].payload.method # "CreateOrder" /\ rpc[r].pc # "idle"

\* No call runs in a process that has ended.
Down == phase = "down" => ~open /\ InFlight = {}

Inv == Types /\ Ledger /\ OncePerKey /\ SameRequest /\ Flow /\ Down

-----------------------------------------------------------------------------

\* The answers the service makes up are answers.
LEMMA AnswerTypes ==
  /\ NoAnswer \in Answer
  /\ \A c \in Code : Error(c) \in Answer /\ Error(c).code = c
  /\ {"OK", "InvalidArgument", "NotFound", "AlreadyExists", "FailedPrecondition",
      "Aborted", "Internal"} \subseteq Code
BY OrderServiceAssumption DEF NoAnswer, Answer, Error, Code, grpcCodeToInt32

\* Killed leaves a call without an answer.
LEMMA KilledFact ==
  ASSUME NEW s \in RpcState
  PROVE  /\ Killed(s) \in RpcState
         /\ Killed(s).key = s.key /\ Killed(s).payload = s.payload
         /\ Killed(s).ran = s.ran /\ Killed(s).life = s.life
         /\ Killed(s).final = FALSE /\ Killed(s).pc = "killed"
BY AnswerTypes, Zenon DEF Killed, RpcState, PC

\* Return answers the call, or drops it if its connection is gone.
LEMMA ReturnFact ==
  ASSUME NEW s \in RpcState, NEW a \in Answer
  PROVE  /\ Return(s, a) \in RpcState
         /\ Return(s, a).key = s.key /\ Return(s, a).payload = s.payload
         /\ Return(s, a).ran = s.ran /\ Return(s, a).life = s.life
         /\ Return(s, a).final => s.final
         /\ Return(s, a).pc \in {"killed", "answered"}
BY KilledFact, Zenon, Zenon DEF Return, RpcState, PC

\* Finish leaves a call with a final answer to store.
LEMMA FinishFact ==
  ASSUME NEW s \in RpcState, NEW a \in Answer
  PROVE  /\ Finish(s, a) \in RpcState
         /\ Finish(s, a).key = s.key /\ Finish(s, a).payload = s.payload
         /\ Finish(s, a).ran = s.ran /\ Finish(s, a).life = s.life
         /\ Finish(s, a).pc = "mark" /\ Finish(s, a).final = TRUE /\ Finish(s, a).answer = a
BY Zenon DEF Finish, RpcState, PC

-----------------------------------------------------------------------------

\* The call holds what it held before.
Keeps(s, t) ==
  /\ t.key = s.key /\ t.payload = s.payload /\ t.ran = s.ran /\ t.life = s.life
  /\ t.final => s.final \/ s.ran

\* A step in which calls keep what they hold and records keep their hash.
LEMMA KeepsLedger ==
  ASSUME Inv, Types', life' = life, Lost => Lost',
         \A q \in Rpc : Keeps(rpc[q], rpc'[q]),
         \A k \in Key : record[k] # None /\ ~Lost' =>
                          record'[k] # None /\ record'[k].hash = record[k].hash
  PROVE  Ledger' /\ OncePerKey' /\ SameRequest'
BY DEF Holds, Keeps, Ledger, Inv, OncePerKey, SameRequest

\* No call holds a record at the start.
LEMMA Initially == Init => Inv
<1> SUFFICES ASSUME Init PROVE Inv
  BY Zenon
<1>1. Idle.ran = FALSE /\ Idle.final = FALSE /\ Idle.pc = "idle"
  BY Zenon DEF Idle
<1>2. Ledger /\ OncePerKey /\ SameRequest /\ Flow /\ Down
  BY <1>1, Zenon DEF Ledger, OncePerKey, SameRequest, Flow, Down, Holds, InFlight, Init
<1>3. Idle \in RpcState
  BY AnswerTypes, OrderServiceAssumption, Zenon DEF Idle, RpcState, PC
<1> QED  BY <1>2, <1>3, Zenon DEF Inv, Types, Init, Backend, Phase, Status, SagaEnd

-----------------------------------------------------------------------------

\* A step of one running call, which becomes t.
LEMMA OneCall ==
  ASSUME Inv, NEW r \in Rpc, NEW t \in RpcState,
         r \in InFlight, rpc' = [rpc EXCEPT ![r] = t], Keeps(rpc[r], t),
         UNCHANGED <<life, backend, phase, open>>,
         row' \in [Order -> Status], saga' \in [Rpc -> SagaEnd],
         record' \in [Key -> Record \cup {None}],
         \A k \in Key : record[k] # None => record'[k] # None /\ record'[k].hash = record[k].hash,
         t.pc # "idle", t.pc \in {"begin", "getkey"} => ~t.ran /\ ~t.final,
         t.pc \in {"handle", "dispatch", "reload", "mark"} => t.ran,
         t.pc = "mark" => t.answer.code \in Code,
         t.pc \in {"dispatch", "reload"} =>
           t.payload.order \in Order /\ t.payload.method # "CreateOrder",
         \A q \in Rpc : saga'[q] = "running" =>
           saga[q] = "running" \/ (q = r /\ t.payload.method # "CreateOrder")
  PROVE  Inv'
<1>1. Flow'
  BY DEF Flow, Inv, Keeps, Holds, InFlight, Types
<1> QED  BY <1>1, KeepsLedger, Zenon DEF Inv, Types, Lost, Keeps, Down

\* A step that leaves the calls alone.
LEMMA NoCall ==
  ASSUME Inv, UNCHANGED <<rpc, life, backend, phase, open>>,
         row' \in [Order -> Status], saga' \in [Rpc -> SagaEnd],
         record' \in [Key -> Record \cup {None}],
         \A k \in Key : record[k] # None => record'[k] # None /\ record'[k].hash = record[k].hash,
         \A q \in Rpc : saga'[q] = "running" => saga[q] = "running"
  PROVE  Inv'
BY KeepsLedger, Zenon DEF Inv, Types, Keeps, Lost, Flow, Down, InFlight, Holds

\* A call is answered from the record of its key.
LEMMA Replays ==
  ASSUME Inv, NEW r \in Rpc, r \in InFlight, record[rpc[r].key] # None,
         rpc[r].pc \in {"begin", "getkey"},
         rpc' = [rpc EXCEPT ![r] = replayIdempotency(rpc[r], record[rpc[r].key])],
         UNCHANGED <<life, backend, phase, open, record, row, saga>>
  PROVE  Inv'
<1> DEFINE s == rpc[r]
           rec == record[s.key]
           t == replayIdempotency(s, rec)
<1>1. s \in RpcState /\ rec \in Record /\ s.key \in Key
  BY Zenon DEF Inv, Types, Flow
<1>2. CASE rec.hash # s.payload \/ rec.status = "processing"
  <2>1. PICK c \in Code : t = Return(s, Error(c))
    BY <1>2, AnswerTypes, Zenon DEF replayIdempotency
  <2> HIDE DEF t
  <2>2. t \in RpcState /\ Keeps(s, t) /\ t.pc \in {"killed", "answered"}
    <3> QED  BY <1>1, <2>1, AnswerTypes, ReturnFact, Zenon DEF Keeps
  <2> QED  BY <2>2, OneCall, Zenon DEF Inv, Types, t
<1>3. CASE rec.hash = s.payload /\ rec.status # "processing"
  <2> DEFINE u == [s EXCEPT !.final = TRUE, !.life = life[s.key]]
  <2>1. t = Return(u, Stored(rec))
    BY <1>3, Zenon DEF replayIdempotency
  <2>2. u \in RpcState /\ u.key = s.key /\ u.payload = s.payload /\ u.ran = s.ran
        /\ u.life = life[s.key] /\ u.final = TRUE
    BY <1>1, Zenon DEF RpcState, Inv, Types
  <2>3. Stored(rec) \in Answer
    BY <1>1, AnswerTypes, Zenon DEF Stored, decodeIdempotencyFailure, grpcCodeFromInt64,
       Record
  <2> HIDE DEF u
  <2>4. t \in RpcState /\ t.key = s.key /\ t.payload = s.payload /\ t.ran = s.ran
        /\ t.life = life[s.key] /\ t.pc \in {"killed", "answered"}
    BY <2>1, <2>2, <2>3, ReturnFact
  <2> HIDE DEF t
  <2>5. rpc'[r] = t /\ \A q \in Rpc \ {r} : rpc'[q] = rpc[q]
    BY Zenon DEF Inv, Types, t
  <2>6. Ledger'
    <3> SUFFICES ASSUME NEW q \in Rpc, Holds(q)'
                 PROVE  /\ rpc'[q].key \in Key
                        /\ rpc'[q].life <= life[rpc'[q].key]
                        /\ rpc'[q].life = life[rpc'[q].key] /\ ~Lost' =>
                             /\ record[rpc'[q].key] # None
                             /\ record[rpc'[q].key].hash = rpc'[q].payload
      BY Zenon DEF Ledger, Holds
    <3>1. CASE q = r
      BY <1>1, <1>3, <2>4, <2>5, <3>1 DEF Inv, Types
    <3>2. CASE q # r
      BY <2>5, <3>2, Zenon DEF Inv, Ledger, Holds, Lost
    <3> QED  BY <3>1, <3>2, Zenon
  <2>7. ~s.ran
    BY Zenon DEF Inv, Flow, Holds
  <2>8. OncePerKey'
    BY <2>4, <2>5, <2>7 DEF Inv, OncePerKey
  <2>9. SameRequest'
    <3> SUFFICES ASSUME NEW q \in Rpc, Holds(q)', q # r, rpc'[q].key = t.key, rpc'[q].life = t.life
                 PROVE  rpc'[q].payload = t.payload
      BY <2>5 DEF Inv, SameRequest, Holds
    <3> QED  BY <1>3, <2>4, <2>5 DEF Inv, Ledger, Down, Lost, Holds
  <2>10. Flow'
    <3> SUFFICES ASSUME NEW q \in Rpc
                 PROVE  /\ (q \in InFlight)' => rpc'[q].key \in Key
                        /\ rpc'[q].pc \in {"begin", "getkey"} => ~Holds(q)'
                        /\ rpc'[q].pc \in {"handle", "dispatch", "reload", "mark"} => rpc'[q].ran
                        /\ rpc'[q].pc = "mark" => rpc'[q].answer.code \in Code
                        /\ rpc'[q].pc \in {"dispatch", "reload"} =>
                             rpc'[q].payload.order \in Order /\
                               rpc'[q].payload.method # "CreateOrder"
                        /\ saga[q] = "running" =>
                             rpc'[q].payload.method # "CreateOrder" /\ rpc'[q].pc # "idle"
      BY Zenon DEF Flow
    <3>1. CASE q = r
      BY <2>4, <2>5, <3>1 DEF Inv, Flow, InFlight
    <3>2. CASE q # r
      BY <2>5, <3>2, Zenon DEF Inv, Flow, InFlight, Holds
    <3> QED  BY <3>1, <3>2, Zenon
  <2> QED  BY <2>4, <2>5, <2>6, <2>8, <2>9, <2>10, Zenon DEF Inv, Types, t, Down
<1> QED  BY <1>2, <1>3, Zenon

-----------------------------------------------------------------------------
(* The steps that change what calls hold.                                  *)

\* A new call holds nothing.
LEMMA CallStep ==
  ASSUME Inv, NEW r \in Rpc, Call(r)
  PROVE  Inv'
<1>1. PICK k \in Key \cup {NoKey}, p \in Payload :
        rpc' = [rpc EXCEPT ![r] = IF k = NoKey \/ (p.method # "CreateOrder" /\ p.order = "")
                                  THEN Return(Idle, Error("InvalidArgument"))
                                  ELSE [Idle EXCEPT !.pc = "begin", !.key = k, !.payload = p]]
  BY Zenon DEF Call, Become
<1> DEFINE t == IF k = NoKey \/ (p.method # "CreateOrder" /\ p.order = "")
                THEN Return(Idle, Error("InvalidArgument"))
                ELSE [Idle EXCEPT !.pc = "begin", !.key = k, !.payload = p]
<1>2. Idle \in RpcState /\ Idle.ran = FALSE /\ Idle.final = FALSE
  BY AnswerTypes, OrderServiceAssumption, Zenon DEF Idle, RpcState, PC
<1>3. /\ t \in RpcState /\ ~t.ran /\ ~t.final
      /\ t.pc \in {"begin", "killed", "answered"}
      /\ t.pc = "begin" => t.key \in Key
  <2>1. CASE k = NoKey \/ (p.method # "CreateOrder" /\ p.order = "")
    BY <1>2, <2>1, AnswerTypes, ReturnFact, Zenon
  <2>2. CASE ~(k = NoKey \/ (p.method # "CreateOrder" /\ p.order = ""))
    BY <1>2, <2>2, Zenon DEF RpcState, PC
  <2> QED  BY <2>1, <2>2, Zenon
<1> HIDE DEF t
<1>4. rpc' = [rpc EXCEPT ![r] = t]
  BY <1>1, Zenon DEF t
<1>5. rpc'[r] = t /\ \A q \in Rpc \ {r} : rpc'[q] = rpc[q]
  BY <1>4, Zenon DEF Inv, Types
<1>6. UNCHANGED <<record, life, row, saga, backend, phase, open>> /\ open /\ rpc[r].pc = "idle"
  BY Zenon DEF Call, keys, orders, process, At
<1>7. Types'
  BY <1>3, <1>4, <1>6, Zenon DEF Inv, Types
<1>8. Ledger'
  BY <1>3, <1>5, <1>6 DEF Inv, Ledger, Holds, Lost
<1>9. OncePerKey' /\ SameRequest'
  BY <1>3, <1>5 DEF Inv, OncePerKey, SameRequest, Holds
<1>10. saga[r] # "running"
  BY <1>6, Zenon DEF Inv, Flow
<1>11. Flow'
  BY <1>3, <1>5, <1>6, <1>10, Zenon DEF Inv, Flow, InFlight, Holds
<1>12. Down'
  BY <1>6, Zenon DEF Inv, Down
<1> QED  BY <1>7, <1>8, <1>9, <1>11, <1>12, Zenon DEF Inv

\* CreateProcessing makes a record that no other call holds.
LEMMA CreateProcessingStep ==
  ASSUME Inv, NEW r \in Rpc, CreateProcessing(r)
  PROVE  Inv'
<1> DEFINE s == rpc[r]
           k == s.key
           t == Own(s)
<1>1. s \in RpcState /\ s.pc = "begin" /\ r \in InFlight /\ k \in Key /\ record[k] = None
  BY Zenon DEF Inv, Types, Flow, InFlight, CreateProcessing, At
<1>2. /\ t \in RpcState /\ t.key = k /\ t.payload = s.payload /\ t.life = life[k]
      /\ t.ran /\ t.pc = "handle"
  BY <1>1, Zenon DEF Own, RpcState, PC, Inv, Types
<1>3. /\ rpc'[r] = t /\ \A q \in Rpc \ {r} : rpc'[q] = rpc[q]
      /\ rpc' \in [Rpc -> RpcState]
  BY <1>1, <1>2, Zenon DEF CreateProcessing, Become, Inv, Types
<1>4. /\ record' = [record EXCEPT ![k] = Processing(s)]
      /\ UNCHANGED <<life, row, saga, backend, phase, open>>
  BY Zenon DEF CreateProcessing, keys, orders, process
<1> HIDE DEF t
<1>5. Processing(s) \in Record /\ Processing(s).hash = s.payload /\ Processing(s) # None
  BY <1>1, AnswerTypes, Zenon DEF Processing, Record, RpcState, Code, grpcCodeToInt32, None
<1>6. Types'
  BY <1>3, <1>4, <1>5, Zenon DEF Inv, Types
\* No other call holds the record that is made.
<1>7. \A q \in Rpc \ {r} : Holds(q) /\ rpc[q].key = k => rpc[q].life < life[k]
  <2> SUFFICES ASSUME NEW q \in Rpc \ {r}, Holds(q), rpc[q].key = k
               PROVE  rpc[q].life < life[k]
    BY Zenon
  <2>1. rpc[q].life \in Nat /\ life[k] \in Nat
    BY <1>1, Zenon DEF Inv, Types, RpcState
  <2> QED  BY <1>1, <1>4, <2>1 DEF Inv, Ledger, Down, Lost
<1>8. Ledger'
  BY <1>1, <1>2, <1>3, <1>4, <1>5, <1>7 DEF Ledger, Holds, Inv, Types, RpcState, Down, Lost
<1>9. OncePerKey'
  <2>1. \A q \in Rpc \ {r} : rpc'[q].ran /\ rpc'[q].key = t.key => rpc'[q].life # t.life
    BY <1>1, <1>2, <1>3, <1>7 DEF Holds, Inv, Types, RpcState
  <2> QED  BY <1>3, <2>1 DEF Inv, OncePerKey
<1>10. SameRequest'
  BY <1>1, <1>2, <1>3, <1>7 DEF Holds, Inv, Types, RpcState, SameRequest
<1>11. Flow'
  BY <1>1, <1>2, <1>3, <1>4 DEF Inv, Flow, Holds, InFlight
<1> QED  BY <1>1, <1>4, <1>6, <1>8, <1>9, <1>10, <1>11, Zenon DEF Inv, Down

\* DeleteExpired makes the records of its batch past ones.
LEMMA DeleteExpiredStep ==
  ASSUME Inv, DeleteExpired
  PROVE  Inv'
<1>1. PICK batch \in SUBSET Key :
        /\ record' = [k \in Key |-> IF k \in batch THEN None ELSE record[k]]
        /\ life' = [k \in Key |-> IF k \in batch THEN life[k] + 1 ELSE life[k]]
  BY Zenon DEF DeleteExpired, Deletable, Expired
<1>2. UNCHANGED <<row, rpc, saga, backend, phase, open>>
  BY Zenon DEF DeleteExpired, orders, process
<1>3. OncePerKey' /\ SameRequest' /\ Flow' /\ Down'
  BY <1>2 DEF Inv, OncePerKey, SameRequest, Flow, Down, Holds, InFlight
<1> QED  BY <1>1, <1>2, <1>3 DEF Inv, Types, Ledger, Holds, RpcState, Lost

\* When the process ends its calls keep what they hold, and nothing runs.
LEMMA EndedStep ==
  ASSUME Inv, Ended
  PROVE  Inv'
<1>1. /\ phase' = "down" /\ open' = FALSE /\ UNCHANGED <<life, row, backend>>
      /\ rpc' = [r \in Rpc |-> IF r \in InFlight THEN Killed(rpc[r]) ELSE rpc[r]]
      /\ saga' = [r \in Rpc |-> IF r \in Running THEN "killed" ELSE saga[r]]
      /\ record' = IF backend = "memory" THEN [k \in Key |-> None] ELSE record
  BY Zenon DEF Ended, orders
<1>2. \A r \in Rpc : /\ rpc'[r] \in RpcState /\ Keeps(rpc[r], rpc'[r])
                     /\ rpc'[r].pc \in {"idle", "answered", "killed"}
  BY <1>1, KilledFact, Zenon DEF Keeps, Inv, Types, InFlight
<1>3. Down'
  BY <1>1, <1>2, Zenon DEF Down, InFlight
<1> QED
  BY <1>1, <1>2, <1>3, KeepsLedger, Zenon DEF Inv, Types, SagaEnd, Phase, Lost, Flow,
     Running, InFlight

-----------------------------------------------------------------------------

\* One step of the calls that keep what they hold.
LEMMA RpcStepKeeps ==
  ASSUME Inv, NEW r \in Rpc, RpcStep(r) \/ RpcFault(r)
  PROVE  Inv'
<1>1. rpc \in [Rpc -> RpcState] /\ rpc[r] \in RpcState
  BY Zenon DEF Inv, Types
<1>2. row \in [Order -> Status] /\ saga \in [Rpc -> SagaEnd] /\
        record \in [Key -> Record \cup {None}]
  BY Zenon DEF Inv, Types
<1>3. ASSUME r \in InFlight, NEW a \in Answer, rpc' = [rpc EXCEPT ![r] = Finish(rpc[r], a)],
             rpc[r].ran, a.code \in Code,
             UNCHANGED <<record, life, row, saga, backend, phase, open>>
      PROVE  Inv'
  BY <1>1, <1>2, <1>3, FinishFact, OneCall, Zenon DEF Keeps
<1>4. ASSUME r \in InFlight, NEW a \in Answer, rpc' = [rpc EXCEPT ![r] = Return(rpc[r], a)],
             UNCHANGED <<life, row, saga, backend, phase, open>>,
             record' \in [Key -> Record \cup {None}],
             \A k \in Key : record[k] # None =>
               record'[k] # None /\ record'[k].hash = record[k].hash
      PROVE  Inv'
  BY <1>1, <1>2, <1>4, OneCall, ReturnFact, Zenon DEF Keeps
<1>5. CASE CreateProcessing(r)
  BY <1>5, CreateProcessingStep, Zenon
<1>6. CASE FindKey(r)
  BY <1>6, Replays, Zenon DEF FindKey, At, InFlight, Become, keys, orders, process
<1>7. CASE KeyExists(r)
  <2> DEFINE t == [rpc[r] EXCEPT !.pc = "getkey"]
  <2>1. /\ r \in InFlight /\ ~rpc[r].ran /\ ~rpc[r].final
        /\ rpc' = [rpc EXCEPT ![r] = t]
        /\ UNCHANGED <<record, life, row, saga, backend, phase, open>>
    BY <1>7, Zenon DEF KeyExists, At, InFlight, Become, keys, orders, process, Inv, Flow,
       Holds
  <2>2. t \in RpcState /\ Keeps(rpc[r], t) /\ t.pc = "getkey" /\ ~t.ran /\ ~t.final
    BY <1>1, <2>1, Zenon DEF RpcState, PC, Keeps
  <2> HIDE DEF t
  <2> QED  BY <1>2, <2>1, <2>2, OneCall, Zenon
<1>8. CASE GetKey(r)
  BY <1>2, <1>4, <1>8, AnswerTypes, Replays, Zenon DEF GetKey, At, InFlight, keys, orders,
     process, Become
<1>9. CASE KeyFails(r)
  <2>1. Processing(rpc[r]) \in Record
    BY <1>1, AnswerTypes, Zenon DEF Processing, Record, RpcState, Code, grpcCodeToInt32
  <2>2. record' \in [Key -> Record \cup {None}]
    BY <1>2, <1>9, <2>1, Zenon DEF KeyFails
  <2> QED
    BY <1>2, <1>4, <1>9, <2>2, AnswerTypes, Zenon DEF KeyFails, At, InFlight, Become,
       orders, process
<1>10. CASE Mark(r)
  <2>1. /\ r \in InFlight /\ UNCHANGED <<life, row, saga, backend, phase, open>>
        /\ rpc' = [rpc EXCEPT ![r] = Return(rpc[r], rpc[r].answer)]
        /\ record' = IF record[rpc[r].key] = None THEN record
                     ELSE [record EXCEPT ![rpc[r].key] = Marked(@, rpc[r].answer)]
    BY <1>10, Zenon DEF Mark, At, InFlight, Become, orders, process
  <2>2. rpc[r].answer \in Answer /\ rpc[r].answer.code \in Code
    BY <1>1, <1>10, Zenon DEF Mark, At, RpcState, Inv, Flow
  <2>3. CASE record[rpc[r].key] = None
    BY <1>2, <1>4, <2>1, <2>2, <2>3, Zenon
  <2>4. CASE record[rpc[r].key] # None
    <3> DEFINE m == Marked(record[rpc[r].key], rpc[r].answer)
    <3>1. rpc[r].key \in Key /\ record[rpc[r].key] \in Record
      BY <1>2, <2>1, <2>4, Zenon DEF Inv, Flow
    <3>2. m \in Record /\ m.hash = record[rpc[r].key].hash
      <4>1. 0 = grpcCodeToInt32["OK"] /\ "OK" \in Code
        BY Zenon DEF Code, grpcCodeToInt32
      <4> QED  BY <2>2, <3>1, <4>1, AnswerTypes, Zenon DEF Marked, Record
    <3> HIDE DEF m
    <3>3. record' = [record EXCEPT ![rpc[r].key] = m]
      BY <2>1, <2>4, Zenon DEF m
    <3>4. record' \in [Key -> Record \cup {None}]
          /\ \A k \in Key : record[k] # None =>
               record'[k] # None /\ record'[k].hash = record[k].hash
      BY <1>2, <3>1, <3>2, <3>3 DEF None, Record
    <3> QED  BY <1>4, <2>1, <2>2, <3>4, Zenon
  <2> QED  BY <2>3, <2>4, Zenon
<1>11. CASE MarkFails(r)
  BY <1>1, <1>2, <1>4, <1>11, Zenon DEF RpcState, MarkFails, At, InFlight, Become, keys,
     orders, process
<1>12. CASE CreateOrder(r)
  <2>1. \E a \in Answer : a.code \in Code /\ rpc' = [rpc EXCEPT ![r] = Finish(rpc[r], a)]
    BY <1>12, AnswerTypes, OrderServiceAssumption DEF CreateOrder, Become, Answer, Status,
       Rpc
  <2> QED  BY <1>3, <1>12, <2>1, Zenon DEF CreateOrder, At, InFlight, keys, process, Inv, Flow
<1>13. CASE LoadOrder(r)
  <2> DEFINE p == rpc[r].payload
             t == [rpc[r] EXCEPT !.pc = "dispatch", !.loaded = row[p.order]]
  <2>1. /\ r \in InFlight /\ rpc[r].ran /\ p.method # "CreateOrder"
        /\ UNCHANGED <<record, life, row, saga, backend, phase, open>>
    BY <1>13, Zenon DEF LoadOrder, At, InFlight, keys, orders, process, Inv, Flow
  <2>2. CASE \E a \in Answer : a.code \in Code /\ rpc' = [rpc EXCEPT ![r] = Finish(rpc[r], a)]
    BY <1>3, <2>1, <2>2, Zenon
  <2>3. CASE p.order \in Order /\ rpc' = [rpc EXCEPT ![r] = t]
    <3>1. /\ t \in RpcState /\ Keeps(rpc[r], t) /\ t.pc = "dispatch" /\ t.ran
          /\ t.payload.order \in Order /\ t.payload.method # "CreateOrder"
      BY <1>1, <1>2, <2>1, <2>3, Zenon DEF RpcState, PC, Keeps
    <3> HIDE DEF t
    <3> QED  BY <1>2, <2>1, <2>3, <3>1, OneCall, Zenon
  <2> QED  BY <1>13, <2>2, <2>3, AnswerTypes, Zenon DEF LoadOrder, Become, Refusal
<1>14. CASE Dispatch(r)
  <2> DEFINE a == [code |-> "OK", order |-> 0, status |-> rpc[r].loaded]
             t == IF rpc[r].payload.method = "PayOrder" THEN Finish(rpc[r], a)
                  ELSE [rpc[r] EXCEPT !.pc = "reload"]
  <2>1. /\ r \in InFlight /\ rpc[r].ran /\ rpc[r].pc = "dispatch"
        /\ rpc[r].payload.method # "CreateOrder" /\ rpc[r].payload.order \in Order
        /\ UNCHANGED <<record, life, row, backend, phase, open>>
    BY <1>14, Zenon DEF Dispatch, At, InFlight, keys, orders, process, Inv, Flow
  <2>2. a \in Answer
    BY <1>1, AnswerTypes, OrderServiceAssumption DEF Answer, RpcState
  <2>3. /\ t \in RpcState /\ Keeps(rpc[r], t) /\ t.ran /\ t.pc \in {"mark", "reload"}
        /\ t.payload = rpc[r].payload /\ (t.pc = "mark" => t.answer.code \in Code)
    <3>1. CASE rpc[r].payload.method = "PayOrder"
      <4>1. a.code \in Code
        BY AnswerTypes, Zenon
      <4> HIDE DEF a
      <4> QED  BY <1>1, <2>1, <2>2, <3>1, <4>1, FinishFact, Zenon DEF Keeps
    <3>2. CASE rpc[r].payload.method # "PayOrder"
      BY <1>1, <2>1, <3>2, Zenon DEF RpcState, PC, Keeps
    <3> QED  BY <3>1, <3>2, Zenon
  <2>4. saga' \in [Rpc -> SagaEnd] /\ \A q \in Rpc \ {r} : saga'[q] = saga[q]
    BY <1>2, <1>14, Zenon DEF Dispatch, SagaEnd
  <2>5. rpc' = [rpc EXCEPT ![r] = t]
    BY <1>14, Zenon DEF Dispatch, Become
  <2> HIDE DEF t
  <2>6. \A q \in Rpc : saga'[q] = "running" =>
          saga[q] = "running" \/ (q = r /\ t.payload.method # "CreateOrder")
    BY <2>1, <2>3, <2>4, Zenon
  <2> QED  BY <1>2, <2>1, <2>3, <2>4, <2>5, <2>6, OneCall, Zenon
<1>15. CASE ReloadOrder(r)
  <2> DEFINE a == [code |-> "OK", order |-> 0, status |-> row[rpc[r].payload.order]]
  <2>1. /\ r \in InFlight /\ rpc[r].ran /\ rpc[r].payload.order \in Order
        /\ UNCHANGED <<record, life, row, saga, backend, phase, open>>
    BY <1>15, Zenon DEF ReloadOrder, At, InFlight, keys, orders, process, Inv, Flow
  <2>2. a \in Answer /\ a.code \in Code
    BY <1>2, <2>1, AnswerTypes, OrderServiceAssumption DEF Answer
  <2>3. rpc' = [rpc EXCEPT ![r] = Finish(rpc[r], a)]
    BY <1>15, Zenon DEF ReloadOrder, Become
  <2> HIDE DEF a
  <2> QED  BY <1>3, <2>1, <2>2, <2>3, Zenon
<1>16. CASE OrderFails(r)
  BY <1>3, <1>16, AnswerTypes, Zenon DEF OrderFails, At, InFlight, Become, keys, process,
     Inv, Flow
<1> QED
  BY <1>5, <1>6, <1>7, <1>8, <1>9, <1>10, <1>11, <1>12, <1>13, <1>14, <1>15, <1>16, Zenon
     DEF RpcStep, RpcFault

-----------------------------------------------------------------------------

\* Every step keeps the invariant.
LEMMA Inductive == Inv /\ [Next]_vars => Inv'
<1> SUFFICES ASSUME Inv, [Next]_vars PROVE Inv'
  BY Zenon
<1>1. row \in [Order -> Status] /\ saga \in [Rpc -> SagaEnd] /\
        record \in [Key -> Record \cup {None}]
  BY Zenon DEF Inv, Types
<1>2. ASSUME NEW r \in Rpc, Call(r) PROVE Inv'
  BY <1>2, CallStep, Zenon
<1>3. ASSUME NEW r \in Rpc, RpcStep(r) \/ RpcFault(r) PROVE Inv'
  BY <1>3, RpcStepKeeps, Zenon
<1>4. ASSUME NEW r \in Rpc, SagaReturns(r) PROVE Inv'
  <2>1. row' \in [Order -> Status]
    BY <1>1, <1>4, OrderServiceAssumption, Zenon DEF SagaReturns, Running, Inv, Types,
       RpcState, Flow, SagaWrites, Status
  <2> QED  BY <1>1, <1>4, <2>1, NoCall, Zenon DEF SagaReturns, SagaEnd, keys, process
<1>5. ASSUME NEW k \in Key, Expire(k) PROVE Inv'
  BY <1>1, <1>5, NoCall, Zenon DEF Expire, Record, None, orders, process
<1>6. CASE DeleteExpired
  BY <1>6, DeleteExpiredStep, Zenon
<1>7. ASSUME UNCHANGED <<record, life, row, saga, backend>>, phase # "down" \/ backend = "postgres",
             phase' # "down", phase' \in Phase, open' \in BOOLEAN,
             \A r \in Rpc : rpc'[r] \in RpcState /\ Keeps(rpc[r], rpc'[r]) /\ rpc'[r].pc = rpc[r].pc
                           /\ rpc'[r].answer = rpc[r].answer /\ rpc'[r].final = rpc[r].final,
             rpc' \in [Rpc -> RpcState]
      PROVE  Inv'
  <2>1. Down'
    BY <1>7, Zenon DEF Down
  <2> QED
    BY <1>7, <2>1, KeepsLedger, AnswerTypes DEF Inv, Types, Lost, Backend, Flow, Holds,
       Keeps, InFlight
<1>8. CASE Signal \/ GracefulStop \/ ServeFails \/ ShutdownSagas \/ SagasReturned
           \/ WaitTimeout \/ Restart
  <2>1. /\ UNCHANGED <<record, life, row, saga, backend, rpc>>
        /\ phase # "down" \/ backend = "postgres"
        /\ phase' # "down" /\ phase' \in Phase /\ open' \in BOOLEAN
    BY <1>8, Zenon DEF Signal, GracefulStop, ServeFails, ShutdownSagas, SagasReturned,
       WaitTimeout, Restart, kept, keys, orders, Phase, Inv, Types
  <2> QED  BY <1>7, <2>1, Zenon DEF Inv, Types, Keeps
<1>9. CASE StopServer
  <2>1. ASSUME NEW r \in Rpc
        PROVE  rpc'[r] \in RpcState /\ Keeps(rpc[r], rpc'[r]) /\ rpc'[r].pc = rpc[r].pc
               /\ rpc'[r].answer = rpc[r].answer /\ rpc'[r].final = rpc[r].final
    <3>1. rpc[r] \in RpcState /\ rpc'[r] = [rpc[r] EXCEPT !.cut = @ \/ r \in InFlight]
      BY <1>9, Zenon DEF Inv, Types, StopServer, keys, orders
    <3> QED  BY <3>1, Zenon DEF RpcState, Keeps
  <2> QED  BY <1>7, <1>9, <2>1, Zenon DEF Phase, Inv, Types, StopServer, keys, orders
<1>10. CASE Exit \/ Crash
  BY <1>10, EndedStep, Zenon DEF Exit, Crash
<1>11. CASE UNCHANGED vars
  BY <1>1, <1>11, NoCall, Zenon DEF vars
<1> QED  BY <1>2, <1>3, <1>4, <1>5, <1>6, <1>8, <1>9, <1>10, <1>11, Zenon DEF Next, Shutdown

\* However many calls repeat a request, and whatever fails, crashes and is
\* restarted between them, the handler runs once for each record of a key
\* (withIdempotency).
THEOREM HandlersRunOnce == Spec => []OncePerKey
<1>1. Inv => OncePerKey
  BY Zenon DEF Inv
<1> QED  BY <1>1, Initially, Inductive, PTL DEF Spec

\* A record answers only calls that made the request it was made for
\* (replayIdempotency compares the hashes).
THEOREM KeysAnswerOneRequest == Spec => []OneRequestPerKey
<1>1. Inv => OneRequestPerKey
  BY Zenon DEF Inv, SameRequest, Holds, OneRequestPerKey
<1> QED  BY <1>1, Initially, Inductive, PTL DEF Spec

-----------------------------------------------------------------------------

\* From the end of the wait of OrderService.Shutdown to the end of the process no
\* saga runs, whatever handlers are still about: the wait ends when none runs,
\* and by then runSagaAsync starts none.
THEOREM NoSagaOutlivesTheWait == Spec => []WaitedForSagas
<1> DEFINE I == Inv /\ WaitedForSagas
<1>1. Init => I
  BY Initially, Zenon DEF Init, WaitedForSagas
<1>2. I /\ [Next]_vars => I'
  <2> SUFFICES ASSUME I, [Next]_vars PROVE WaitedForSagas'
    BY Inductive, Zenon
  <2>1. ASSUME UNCHANGED <<saga, phase>> PROVE WaitedForSagas'
    BY <2>1, Zenon DEF WaitedForSagas, Running
  <2>2. ASSUME NEW r \in Rpc, Call(r) \/ RpcStep(r) \/ RpcFault(r) \/ SagaReturns(r)
        PROVE  WaitedForSagas'
    <3>1. CASE Dispatch(r)
      <4>1. phase' = phase
        BY <3>1, Zenon DEF Dispatch, process
      <4>2. phase = "waited" => Running' \subseteq Running
        BY <3>1, Zenon DEF Dispatch, DispatchClosed, Running, Inv, Types
      <4> QED  BY <4>1, <4>2, Zenon DEF WaitedForSagas
    <3>2. CASE SagaReturns(r)
      <4>1. phase' = phase /\ r \in Running
        BY <3>2, Zenon DEF SagaReturns, process
      <4> QED  BY <4>1, Zenon DEF WaitedForSagas
    <3>3. CASE Call(r) \/ RpcFault(r) \/ (RpcStep(r) /\ ~Dispatch(r))
      BY <2>1, <3>3, Zenon DEF Call, RpcStep, RpcFault, CreateProcessing, FindKey,
         KeyExists, GetKey, Mark, CreateOrder, LoadOrder, ReloadOrder, KeyFails, MarkFails,
         OrderFails, process
    <3> QED  BY <2>2, <3>1, <3>2, <3>3, Zenon
  <2>3. CASE DeleteExpired \/ (\E k \in Key : Expire(k)) \/ UNCHANGED vars
    BY <2>1, <2>3, Zenon DEF DeleteExpired, Expire, process, vars
  <2>4. CASE SagasReturned
    BY <2>4, Zenon DEF SagasReturned, kept, Running, WaitedForSagas
  <2>5. CASE Signal \/ GracefulStop \/ StopServer \/ ServeFails \/ ShutdownSagas \/ WaitTimeout
             \/ Restart \/ Exit \/ Crash
    BY <2>5, Zenon DEF Signal, GracefulStop, StopServer, ServeFails, ShutdownSagas, WaitTimeout,
       Restart, Exit, Crash, Ended, WaitedForSagas
  <2> QED  BY <2>2, <2>3, <2>4, <2>5, Zenon DEF Next, Shutdown
<1> QED  BY <1>1, <1>2, PTL DEF Spec

-----------------------------------------------------------------------------
(* What the answers are worth: the invariants.                             *)

\* The call runs the handler of its key, or told its client the final answer.
Live(r) == r \in InFlight /\ rpc[r].ran

Told(r) == At(r, "answered") /\ rpc[r].final

\* While its record was not deleted under it, a running handler has the current
\* record of its key, which is in processing: no other call is to mark it.
Mine ==
  \A r \in Rpc : Live(r) /\ rpc[r].key \notin overrun =>
    rpc[r].life = life[rpc[r].key] /\ record[rpc[r].key].status = "processing"

\* A final answer is the one in the record, unless it could not be stored; then
\* only the call that ran the handler has it.
Settled ==
  \A r \in Rpc :
    Told(r) /\ rpc[r].key \notin overrun /\ rpc[r].life = life[rpc[r].key] /\ ~Lost =>
      IF record[rpc[r].key].status = "processing" THEN rpc[r].ran
      ELSE rpc[r].answer = Stored(record[rpc[r].key])

\* Final answers from the same record are the same.
Agreed ==
  \A q, r \in Rpc :
    /\ Told(q) /\ Told(r) /\ rpc[q].key = rpc[r].key /\ rpc[q].life = rpc[r].life
    /\ rpc[q].key \notin overrun
    => rpc[q].answer = rpc[r].answer

\* An answer that is stored has a code and, if this is an error, nothing else.
Storable(a) == a.code \in Code /\ (a.code # "OK" => a = Error(a.code))

Marking == \A r \in Rpc : At(r, "mark") => Storable(rpc[r].answer)

Answers == Mine /\ Settled /\ Agreed /\ Marking

\* An answer names no order, or one that was stored.
Known(a) == a.order = 0 \/ \E o \in created : o.by = a.order

\* The same after the step.
KnownNext(a) == a.order = 0 \/ \E o \in created' : o.by = a.order

Named ==
  /\ \A r \in Rpc : Known(rpc[r].answer)
  /\ \A k \in Key : record[k] # None => Known(record[k].body)

\* The saga of a call was started.
Begun(r) == saga[r] \notin {"none", "skipped"}

\* A server that stops in order takes no calls and has none when it closes the
\* dispatch, so every call it accepted found the dispatch open.
Drained ==
  /\ phase = "draining" => ~open
  /\ ~abrupt /\ phase \in {"stopped", "closing", "waited", "expired"} => ~open /\ InFlight = {}

\* The call is about to answer OK, or has done so, to a request that needs a saga.
Owes(r) ==
  \/ At(r, "reload")
  \/ At(r, "mark") /\ rpc[r].answer.code = "OK" /\ rpc[r].payload.method # "CreateOrder"

Accepts(r) ==
  /\ At(r, "answered") /\ rpc[r].answer.code = "OK"
  /\ rpc[r].payload.method # "CreateOrder" /\ rpc[r].key \notin overrun

\* A saga was started for the request p with the key k; the same after the step.
BegunFor(k, p) == \E q \in Rpc : rpc[q].key = k /\ rpc[q].payload = p /\ Begun(q)

BegunForNext(k, p) == \E q \in Rpc : rpc'[q].key = k /\ rpc'[q].payload = p /\ Begun(q)'

\* A call that was not made has no saga.
Fresh == \A r \in Rpc : At(r, "idle") => ~Begun(r)

\* A call about to answer OK started its saga.
Dispatched == ~abrupt => \A r \in Rpc : Owes(r) => Begun(r)

\* A record that answers OK is that of a call which started its saga.
Recorded ==
  ~abrupt => \A k \in Key \ overrun :
    record[k].status = "done" /\ record[k].hash.method # "CreateOrder" =>
      BegunFor(k, record[k].hash)

Accepted == Drained /\ Fresh /\ Dispatched /\ Recorded /\ OrderlyAcceptedIsStarted

-----------------------------------------------------------------------------
(* What a step of a running call does, by the place of the call.           *)

\* The running call r becomes t.
Moves(r, t) ==
  /\ r \in InFlight /\ rpc' = [rpc EXCEPT ![r] = t]
  /\ t.key = rpc[r].key /\ t.payload = rpc[r].payload
  /\ UNCHANGED <<life, overrun, backend, phase, open, abrupt>>
  /\ created \subseteq created'
  /\ ~DispatchClosed => \A q \in Rpc : Begun(q) => Begun(q)'

\* The call gets the key.
Begins(r, t) ==
  /\ record[rpc[r].key] = None
  /\ record' = [record EXCEPT ![rpc[r].key] = Processing(rpc[r])]
  /\ t.pc = "handle" /\ t.ran /\ t.life = life[rpc[r].key] /\ t.answer = rpc[r].answer

\* The call goes on, with an answer if its handler is done.
Advances(r, t) ==
  /\ record' = record
  /\ t.ran = rpc[r].ran /\ t.life = rpc[r].life
  /\ t.pc \in {"getkey", "dispatch", "reload", "mark"}
  /\ t.pc = "mark" => Storable(t.answer)
  /\ t.answer = rpc[r].answer \/ KnownNext(t.answer)
  /\ \/ t.pc = "reload"
     \/ t.pc = "mark" /\ t.answer.code = "OK" /\ t.payload.method # "CreateOrder"
     => At(r, "reload") \/ DispatchClosed \/ Begun(r)'

\* The call ends without the answer of a handler; its key may be left in processing.
Refuses(r, t) ==
  /\ \/ record' = record
     \/ /\ record[rpc[r].key] = None
        /\ record' = [record EXCEPT ![rpc[r].key] = Processing(rpc[r])]
  /\ ~t.ran /\ ~t.final /\ t.pc \in {"answered", "killed"}
  /\ t.answer.code # "OK" /\ t.answer.order = 0

\* The call is answered from the record of its key, if its client still listens.
Repeats(r, t) ==
  /\ record' = record /\ record[rpc[r].key] \in Record
  /\ record[rpc[r].key].hash = rpc[r].payload /\ record[rpc[r].key].status # "processing"
  /\ ~t.ran
  /\ \/ /\ t.pc = "answered" /\ t.life = life[rpc[r].key]
        /\ t.answer = Stored(record[rpc[r].key])
     \/ t.pc = "killed" /\ t.answer = NoAnswer

\* The call stores the answer of its handler, or fails to, and returns it.
Ends(r, t) ==
  /\ At(r, "mark") /\ t.ran /\ t.life = rpc[r].life
  /\ \/ record' = record
     \/ /\ record[rpc[r].key] # None
        /\ record' = [record EXCEPT ![rpc[r].key] = Marked(@, rpc[r].answer)]
  /\ \/ t.pc = "answered" /\ t.answer = rpc[r].answer
     \/ t.pc = "killed" /\ t.answer = NoAnswer

\* A step of a running call is one of these.
LEMMA CallEffects ==
  ASSUME Inv, NEW r \in Rpc, RpcStep(r) \/ RpcFault(r)
  PROVE  \E t \in RpcState :
           /\ Moves(r, t)
           /\ (Begins(r, t) \/ Advances(r, t) \/ Refuses(r, t) \/ Repeats(r, t) \/ Ends(r, t))
<1> DEFINE s == rpc[r]
           Shape(t) == t \in RpcState /\ t.key = s.key /\ t.payload = s.payload
           Frame == UNCHANGED <<life, overrun, backend, phase, open, abrupt>>
<1>1. s \in RpcState /\ saga \in [Rpc -> SagaEnd]
  BY Zenon DEF Inv, Types
<1>2. /\ r \in InFlight /\ created \subseteq created' /\ Frame
      /\ ~DispatchClosed => \A q \in Rpc : Begun(q) => Begun(q)'
  <2>1. CASE Dispatch(r)
    BY <1>1, <2>1, Zenon DEF Dispatch, DispatchClosed, Begun, At, InFlight, keys, orders,
       process
  <2>2. CASE ~Dispatch(r)
    BY <2>2, Zenon DEF RpcStep, RpcFault, CreateProcessing, FindKey, KeyExists, GetKey,
       Mark, CreateOrder, LoadOrder, ReloadOrder, KeyFails, MarkFails, OrderFails, Begun, At,
       InFlight, keys, orders, process
  <2> QED  BY <2>1, <2>2, Zenon
<1>3. ASSUME NEW t, rpc' = [rpc EXCEPT ![r] = t], Shape(t),
             Begins(r, t) \/ Advances(r, t) \/ Refuses(r, t) \/ Repeats(r, t) \/ Ends(r, t)
      PROVE  \E u \in RpcState :
               /\ Moves(r, u)
               /\ (Begins(r, u) \/ Advances(r, u) \/ Refuses(r, u) \/ Repeats(r, u) \/ Ends(r, u))
  BY <1>2, <1>3, Zenon DEF Moves
\* The outcomes of the handlers and of the repository calls.
<1>4. ASSUME NEW a, a \in Answer, rpc' = [rpc EXCEPT ![r] = Finish(s, a)], Storable(a),
             record' = record,
             KnownNext(a), a.code = "OK" /\ s.payload.method # "CreateOrder" =>
                          At(r, "reload") \/ DispatchClosed \/ Begun(r)'
      PROVE  \E t : rpc' = [rpc EXCEPT ![r] = t] /\ Shape(t) /\ Advances(r, t)
  <2>1. Advances(r, Finish(s, a))
    BY <1>1, <1>4, FinishFact, Zenon DEF Advances
  <2> QED  BY <1>1, <1>4, <2>1, FinishFact, Zenon
<1>5. ASSUME NEW c \in Code, c # "OK", rpc' = [rpc EXCEPT ![r] = Return(s, Error(c))],
             ~s.ran, ~s.final,
             \/ record' = record
             \/ /\ record[s.key] = None
                /\ record' = [record EXCEPT ![s.key] = Processing(s)]
      PROVE  \E t : rpc' = [rpc EXCEPT ![r] = t] /\ Shape(t) /\ Refuses(r, t)
  <2> DEFINE t == Return(s, Error(c))
  <2>1. Shape(t) /\ ~t.ran /\ ~t.final /\ t.pc \in {"killed", "answered"}
    BY <1>1, <1>5, AnswerTypes, ReturnFact DEF Error, NoAnswer
  <2>2. t.answer = Error(c) \/ t.answer = NoAnswer
    BY <1>1, Zenon DEF Return, Killed, RpcState
  <2> HIDE DEF t
  <2>3. Refuses(r, t)
    BY <1>5, <2>1, <2>2, AnswerTypes DEF Refuses, Error, NoAnswer
  <2> QED  BY <1>5, <2>1, <2>3, Zenon DEF t
<1>6. ASSUME NEW rec, rec = record[s.key], s.pc \in {"begin", "getkey"}, rec # None,
             rpc' = [rpc EXCEPT ![r] = replayIdempotency(s, rec)], record' = record
      PROVE  \E t : rpc' = [rpc EXCEPT ![r] = t] /\ Shape(t) /\ (Refuses(r, t) \/ Repeats(r, t))
  <2>1. ~s.ran /\ ~s.final /\ s.key \in Key /\ rec \in Record
    BY <1>2, <1>6, Zenon DEF Inv, Types, Flow, Holds
  <2>2. CASE rec.hash # s.payload \/ rec.status = "processing"
    BY <1>5, <1>6, <2>1, <2>2, AnswerTypes, Zenon DEF replayIdempotency
  <2>3. CASE rec.hash = s.payload /\ rec.status # "processing"
    <3> DEFINE u == [s EXCEPT !.final = TRUE, !.life = life[s.key]]
               t == Return(u, Stored(rec))
    <3>1. replayIdempotency(s, rec) = t
      BY <2>3, Zenon DEF replayIdempotency
    <3>2. u \in RpcState /\ u.key = s.key /\ u.payload = s.payload /\ ~u.ran /\ u.life = life[s.key]
      BY <1>1, <2>1, Zenon DEF RpcState, Inv, Types
    <3>3. Stored(rec) \in Answer
      BY <2>1, AnswerTypes, Zenon DEF Stored, decodeIdempotencyFailure, grpcCodeFromInt64,
         Record
    <3> HIDE DEF u
    <3>4. Shape(t) /\ ~t.ran /\ t.life = life[s.key]
      BY <3>2, <3>3, ReturnFact, Zenon
    <3>5. \/ t.pc = "answered" /\ t.answer = Stored(rec)
          \/ t.pc = "killed" /\ t.answer = NoAnswer
      BY <3>2, Zenon DEF Return, Killed, RpcState
    <3> HIDE DEF t
    <3> QED  BY <1>6, <2>1, <2>3, <3>1, <3>4, <3>5, Zenon DEF Repeats
  <2> QED  BY <2>2, <2>3, Zenon
<1>7. CASE CreateProcessing(r)
  <2>1. Shape(Own(s)) /\ Begins(r, Own(s))
    BY <1>1, <1>7, Zenon DEF CreateProcessing, At, Begins, Own, RpcState, PC, Inv, Types,
       Flow, InFlight
  <2> QED  BY <1>3, <1>7, <2>1, Zenon DEF CreateProcessing, Become
<1>8. CASE FindKey(r)
  BY <1>3, <1>6, <1>8, Zenon DEF FindKey, At, Become, keys
<1>9. CASE KeyExists(r)
  BY <1>1, <1>3, <1>9, Zenon DEF RpcState, PC, KeyExists, Become, keys, Advances
<1>10. CASE GetKey(r)
  BY <1>3, <1>5, <1>6, <1>10, AnswerTypes, Zenon DEF GetKey, At, keys, Inv, Flow, Holds,
     Become
<1>11. CASE KeyFails(r)
  BY <1>3, <1>5, <1>11, AnswerTypes, Zenon DEF KeyFails, At, Become, Inv, Flow, Holds
<1>12. CASE Mark(r) \/ MarkFails(r)
  <2> DEFINE t == Return(s, s.answer)
  <2>1. s.answer \in Answer /\ s.ran /\ At(r, "mark") /\ rpc' = [rpc EXCEPT ![r] = t]
    BY <1>1, <1>12, Zenon DEF Mark, MarkFails, At, RpcState, Become, Inv, Flow
  <2>2. Shape(t) /\ t.ran /\ t.life = s.life
    BY <1>1, <2>1, ReturnFact, Zenon
  <2>3. \/ t.pc = "answered" /\ t.answer = s.answer
        \/ t.pc = "killed" /\ t.answer = NoAnswer
    BY <1>1, Zenon DEF Return, Killed, RpcState
  <2> HIDE DEF t
  <2> QED  BY <1>3, <1>12, <2>1, <2>2, <2>3, Zenon DEF Ends, Mark, MarkFails, keys
<1>13. ASSUME NEW c \in Code, c # "OK", record' = record,
              rpc' = [rpc EXCEPT ![r] = Finish(s, Error(c))]
       PROVE  \E t : rpc' = [rpc EXCEPT ![r] = t] /\ Shape(t) /\ Advances(r, t)
  BY <1>4, <1>13, AnswerTypes, Zenon DEF Storable, KnownNext, Error, NoAnswer
<1>14. CASE CreateOrder(r)
  <2>1. CASE Acceptable(r)
    <3> DEFINE a == [code |-> "OK", order |-> r, status |-> "pending"]
    <3>1. /\ NewOrder(r) \in created' /\ NewOrder(r).by = r /\ s.payload.method = "CreateOrder"
          /\ rpc' = [rpc EXCEPT ![r] = Finish(s, a)]
      BY <1>14, <2>1, Zenon DEF CreateOrder, NewOrder, Become
    <3>2. a \in Answer /\ a.code = "OK" /\ a.order = r /\ Storable(a)
      BY AnswerTypes, OrderServiceAssumption DEF Answer, Status, Rpc, Storable
    <3> HIDE DEF a
    <3> QED  BY <1>3, <1>4, <1>14, <3>1, <3>2, Zenon DEF CreateOrder, keys, KnownNext
  <2>2. CASE ~Acceptable(r)
    BY <1>3, <1>13, <1>14, <2>2, AnswerTypes, Zenon DEF CreateOrder, Become, keys
  <2> QED  BY <2>1, <2>2, Zenon
<1>15. CASE LoadOrder(r)
  <2> DEFINE p == s.payload
             t == [s EXCEPT !.pc = "dispatch", !.loaded = row[p.order]]
  <2>1. record' = record
    BY <1>15, Zenon DEF LoadOrder, keys
  <2>2. CASE p.order \notin Order
    BY <1>3, <1>13, <1>15, <2>1, <2>2, AnswerTypes, Zenon DEF LoadOrder, Become
  <2>3. CASE p.order \in Order /\ Refusal(p, row[p.order]) # "OK"
    BY <1>3, <1>13, <1>15, <2>1, <2>3, AnswerTypes, Zenon DEF LoadOrder, Become, Refusal
  <2>4. CASE p.order \in Order /\ Refusal(p, row[p.order]) = "OK"
    BY <1>1, <1>3, <1>15, <2>1, <2>4, Zenon DEF LoadOrder, Become, RpcState, PC, Inv, Types,
       Advances
  <2> QED  BY <2>2, <2>3, <2>4, Zenon
<1>16. CASE Dispatch(r)
  <2> DEFINE a == [code |-> "OK", order |-> 0, status |-> s.loaded]
             t == [s EXCEPT !.pc = "reload"]
  <2>1. CASE s.payload.method = "PayOrder"
    <3>1. rpc' = [rpc EXCEPT ![r] = Finish(s, a)]
      BY <1>16, <2>1, Zenon DEF Dispatch, Become
    <3>2. a \in Answer /\ Storable(a) /\ KnownNext(a)
      BY <1>1, AnswerTypes, OrderServiceAssumption DEF Answer, RpcState, Storable, KnownNext
    <3> HIDE DEF a
    <3> QED
      BY <1>1, <1>3, <1>4, <1>16, <3>1, <3>2, Zenon DEF Dispatch, DispatchClosed, Begun,
         keys
  <2>2. CASE s.payload.method # "PayOrder"
    BY <1>1, <1>3, <1>16, <2>2, Zenon DEF Dispatch, Become, RpcState, PC, Advances,
       DispatchClosed, Begun, keys
  <2> QED  BY <2>1, <2>2, Zenon
<1>17. CASE ReloadOrder(r)
  <2> DEFINE a == [code |-> "OK", order |-> 0, status |-> row[s.payload.order]]
  <2>1. /\ record' = record /\ At(r, "reload") /\ s.payload.order \in Order
        /\ rpc' = [rpc EXCEPT ![r] = Finish(s, a)]
    BY <1>17, Zenon DEF ReloadOrder, At, keys, Become, Inv, Flow
  <2>2. a \in Answer /\ Storable(a) /\ KnownNext(a)
    BY <2>1, AnswerTypes, OrderServiceAssumption DEF Answer, Storable, KnownNext, Inv, Types
  <2> HIDE DEF a
  <2> QED  BY <1>3, <1>4, <2>1, <2>2, Zenon
<1>18. CASE OrderFails(r)
  BY <1>3, <1>13, <1>18, AnswerTypes, Zenon DEF OrderFails, Become, keys
<1> QED
  BY <1>7, <1>8, <1>9, <1>10, <1>11, <1>12, <1>14, <1>15, <1>16, <1>17, <1>18, Zenon DEF
     RpcStep, RpcFault
     ----------------------------------------------------------------------------- (* The same
     answers. *)

\* The codes and their numbers correspond, so that a stored answer is read back
\* as it was (grpcCodeToInt32, grpcCodeFromInt64).
LEMMA StoredMarked ==
  ASSUME NEW rec \in Record, NEW a, Storable(a)
  PROVE  Stored(Marked(rec, a)) = a /\ Marked(rec, a).status # "processing"
BY DEF Stored, Marked, Record, Code, grpcCodeToInt32, grpcCodeFromInt64, Storable,
   decodeIdempotencyFailure

\* A step that neither gives a final answer nor starts a handler.
LEMMA KeepsAnswers ==
  ASSUME Inv, Inv', Answers, UNCHANGED <<life, overrun>>, Lost => Lost',
         \A k \in Key : record[k] # None /\ ~Lost' =>
           record'[k].status = record[k].status /\ Stored(record'[k]) = Stored(record[k]),
         \A q \in Rpc :
           /\ Live(q)' => Live(q) /\ rpc'[q].key = rpc[q].key /\ rpc'[q].life = rpc[q].life
           /\ Told(q)' => /\ Told(q) /\ rpc'[q].key = rpc[q].key /\ rpc'[q].life = rpc[q].life
                          /\ rpc'[q].ran = rpc[q].ran /\ rpc'[q].answer = rpc[q].answer
           /\ rpc'[q].pc = "mark" => Storable(rpc'[q].answer)
  PROVE  Answers'
<1>1. Mine'
  <2> SUFFICES ASSUME NEW q \in Rpc, Live(q)', rpc'[q].key \notin overrun'
               PROVE  /\ rpc'[q].life = life'[rpc'[q].key]
                      /\ record'[rpc'[q].key].status = "processing"
    BY Zenon DEF Mine, Live, InFlight
  <2>1. Live(q) /\ rpc'[q].key = rpc[q].key /\ rpc'[q].life = rpc[q].life
    BY Zenon
  <2>2. ~Lost' /\ rpc[q].key \in Key
    BY <2>1, Zenon DEF Inv, Down, Lost, Live, Flow
  <2>3. rpc[q].life = life[rpc[q].key] /\ record[rpc[q].key].status = "processing"
    BY <2>1, Zenon DEF Answers, Mine
  <2>4. record[rpc[q].key] # None
    BY <2>3 DEF None
  <2> QED  BY <2>1, <2>2, <2>3, <2>4, Zenon
<1>2. Settled'
  <2> SUFFICES ASSUME NEW q \in Rpc, Told(q)', rpc'[q].key \notin overrun',
                      rpc'[q].life = life'[rpc'[q].key], ~Lost'
               PROVE  IF record'[rpc'[q].key].status = "processing" THEN rpc'[q].ran
                      ELSE rpc'[q].answer = Stored(record'[rpc'[q].key])
    BY Zenon DEF Settled, Told, At, Lost
  <2>1. /\ Told(q) /\ rpc'[q].key = rpc[q].key /\ rpc'[q].life = rpc[q].life
        /\ rpc'[q].ran = rpc[q].ran /\ rpc'[q].answer = rpc[q].answer
    BY Zenon
  <2>2. rpc[q].key \in Key /\ record[rpc[q].key] # None
    BY <2>1, Zenon DEF Inv, Ledger, Holds, Told
  <2>3. IF record[rpc[q].key].status = "processing" THEN rpc[q].ran
        ELSE rpc[q].answer = Stored(record[rpc[q].key])
    BY <2>1, Zenon DEF Answers, Settled
  <2> QED  BY <2>1, <2>2, <2>3, Zenon
<1>3. Agreed'
  <2> SUFFICES ASSUME NEW q \in Rpc, NEW r \in Rpc, Told(q)', Told(r)',
                      rpc'[q].key = rpc'[r].key, rpc'[q].life = rpc'[r].life,
                      rpc'[q].key \notin overrun'
               PROVE  rpc'[q].answer = rpc'[r].answer
    BY Zenon DEF Agreed, Told, At
  <2> QED  BY DEF Answers, Agreed
<1>4. Marking'
  BY Zenon DEF Marking, At
<1> QED  BY <1>1, <1>2, <1>3, <1>4, Zenon DEF Answers

\* What one call does leaves the others as they were.
LEMMA OthersStay ==
  ASSUME Inv, NEW r \in Rpc, NEW t, rpc' = [rpc EXCEPT ![r] = t], NEW q \in Rpc, q # r
  PROVE  /\ rpc'[q] = rpc[q] /\ rpc'[r] = t
         /\ Live(q)' <=> Live(q)
         /\ Told(q)' <=> Told(q)
BY Zenon DEF Inv, Types, Live, Told, InFlight, At

\* A call that gets the key is its only owner, and nobody was told anything yet.
LEMMA BeginsAnswers ==
  ASSUME Inv, Inv', Answers, NEW r \in Rpc, NEW t \in RpcState, Moves(r, t), Begins(r, t)
  PROVE  Answers'
<1> DEFINE k == rpc[r].key
<1>1. /\ k \in Key /\ ~Lost /\ ~Lost' /\ UNCHANGED <<life, overrun>> /\ rpc' = [rpc EXCEPT ![r] = t]
      /\ rpc'[r] = t /\ t.key = k
  BY Zenon DEF Moves, Inv, Types, Flow, Down, Lost, InFlight
<1>2. record[k] = None /\ record'[k].status = "processing" /\
        \A i \in Key \ {k} : record'[i] = record[i]
  BY <1>1, Zenon DEF Begins, Processing, Inv, Types
<1>3. \A q \in Rpc \ {r} : rpc'[q] = rpc[q] /\ (Live(q)' <=> Live(q)) /\ (Told(q)' <=> Told(q))
  BY <1>1, OthersStay, Zenon
\* No other call holds the new record.
<1>4. ASSUME NEW q \in Rpc \ {r}, Holds(q) PROVE rpc[q].key = k => rpc[q].life # life[k]
  BY <1>1, <1>2, <1>4 DEF Inv, Ledger
<1>5. Mine'
  <2> SUFFICES ASSUME NEW q \in Rpc, Live(q)', rpc'[q].key \notin overrun'
               PROVE  /\ rpc'[q].life = life'[rpc'[q].key]
                      /\ record'[rpc'[q].key].status = "processing"
    BY Zenon DEF Mine, Live, InFlight
  <2>1. CASE q = r
    BY <1>1, <1>2, <2>1 DEF Begins
  <2>2. CASE q # r
    <3>1. Live(q) /\ rpc'[q] = rpc[q] /\ UNCHANGED <<life, overrun>>
      BY <1>1, <1>3, <2>2, Zenon
    <3>2. rpc[q].life = life[rpc[q].key] /\ record[rpc[q].key].status = "processing"
      BY <3>1, Zenon DEF Answers, Mine
    <3>3. rpc[q].key \in Key
      BY <3>1, Zenon DEF Live, Inv, Flow
    <3>4. record'[rpc[q].key].status = "processing"
      BY <1>2, <3>2, <3>3, Zenon
    <3> QED  BY <3>1, <3>2, <3>4, Zenon
  <2> QED  BY <2>1, <2>2, Zenon
<1>6. ~Told(r)' /\ rpc'[r].pc # "mark"
  BY <1>1, Zenon DEF Begins, Told, At
<1>7. Settled'
  <2> SUFFICES ASSUME NEW q \in Rpc, Told(q)', rpc'[q].key \notin overrun',
                      rpc'[q].life = life'[rpc'[q].key], ~Lost'
               PROVE  IF record'[rpc'[q].key].status = "processing" THEN rpc'[q].ran
                      ELSE rpc'[q].answer = Stored(record'[rpc'[q].key])
    BY Zenon DEF Settled, Told, At, Lost
  <2>1. q # r /\ Told(q) /\ rpc'[q] = rpc[q]
    BY <1>3, <1>6, Zenon
  <2>2. Holds(q) /\ rpc[q].key \in Key /\ rpc[q].life = life[rpc[q].key]
    BY <1>1, <2>1, Zenon DEF Told, Holds, Inv, Ledger
  <2>3. rpc[q].key # k
    BY <1>4, <2>1, <2>2, Zenon
  <2>4. record'[rpc'[q].key] = record[rpc[q].key]
    BY <1>2, <2>1, <2>2, <2>3, Zenon
  <2>5. IF record[rpc[q].key].status = "processing" THEN rpc[q].ran
        ELSE rpc[q].answer = Stored(record[rpc[q].key])
    <3>1. rpc[q].key \notin overrun /\ ~Lost
      BY <1>1, <2>1
    <3> QED  BY <2>1, <2>2, <3>1, Zenon DEF Answers, Settled
  <2> QED  BY <2>1, <2>4, <2>5, Zenon
<1>8. Agreed'
  <2> SUFFICES ASSUME NEW p \in Rpc, NEW q \in Rpc, Told(p)', Told(q)',
                      rpc'[p].key = rpc'[q].key, rpc'[p].life = rpc'[q].life,
                      rpc'[p].key \notin overrun'
               PROVE  rpc'[p].answer = rpc'[q].answer
    BY Zenon DEF Agreed, Told, At
  <2>1. p # r /\ q # r
    BY <1>6, Zenon
  <2> QED  BY <1>1, <1>3, <2>1 DEF Answers, Agreed
<1>9. Marking'
  BY <1>3, <1>6, Zenon DEF Answers, Marking, At
<1> QED  BY <1>5, <1>7, <1>8, <1>9, Zenon DEF Answers

\* An answer from a record is the answer of every call that holds the record.
LEMMA RepeatsAnswers ==
  ASSUME Inv, Inv', Answers, NEW r \in Rpc, NEW t \in RpcState, Moves(r, t), Repeats(r, t)
  PROVE  Answers'
<1> DEFINE k == rpc[r].key
<1>1. /\ k \in Key /\ ~Lost /\ UNCHANGED <<life, overrun, record>> /\ rpc' = [rpc EXCEPT ![r] = t]
      /\ rpc'[r] = t /\ t.key = k
  BY Zenon DEF Moves, Repeats, Inv, Types, Flow, Down, Lost, InFlight
<1>2. \A q \in Rpc \ {r} : rpc'[q] = rpc[q] /\ (Live(q)' <=> Live(q)) /\ (Told(q)' <=> Told(q))
  BY <1>1, OthersStay, Zenon
<1>3. /\ ~Live(r)' /\ t.pc # "mark"
      /\ Told(r)' =>
           t.life = life[k] /\ t.answer = Stored(record[k]) /\ record[k].status # "processing"
  BY <1>1, Zenon DEF Repeats, Live, Told, At, InFlight
<1>4. Mine /\ Settled /\ Agreed /\ Marking
  BY Zenon DEF Answers
<1>5. Mine'
  BY <1>1, <1>2, <1>3, <1>4 DEF Mine
<1>6. Settled'
  <2> SUFFICES ASSUME NEW q \in Rpc, Told(q)', rpc'[q].key \notin overrun',
                      rpc'[q].life = life'[rpc'[q].key]
               PROVE  IF record[rpc'[q].key].status = "processing" THEN rpc'[q].ran
                      ELSE rpc'[q].answer = Stored(record[rpc'[q].key])
    BY <1>1, Zenon DEF Settled, Told, At
  <2>1. CASE q = r
    BY <1>1, <1>3, <2>1, Zenon
  <2>2. CASE q # r
    <3>1. Told(q) /\ rpc'[q] = rpc[q] /\ UNCHANGED <<life, overrun>> /\ ~Lost
      BY <1>1, <1>2, <2>2, Zenon
    <3> QED  BY <1>4, <3>1, Zenon DEF Settled
  <2> QED  BY <2>1, <2>2, Zenon
\* A call with the record that r was answered from.
<1>7. ASSUME NEW q \in Rpc \ {r}, Told(q), Told(r)', rpc[q].key = k, rpc[q].life = t.life,
             k \notin overrun
      PROVE  rpc[q].answer = t.answer
  BY <1>1, <1>3, <1>4, <1>7, Zenon DEF Settled
<1>8. Agreed'
  <2> SUFFICES ASSUME NEW p \in Rpc, NEW q \in Rpc, Told(p)', Told(q)',
                      rpc'[p].key = rpc'[q].key, rpc'[p].life = rpc'[q].life,
                      rpc'[p].key \notin overrun
               PROVE  rpc'[p].answer = rpc'[q].answer
    BY <1>1, Zenon DEF Agreed, Told, At
  <2>1. CASE p # r /\ q # r
    <3>1. Told(p) /\ Told(q) /\ rpc'[p] = rpc[p] /\ rpc'[q] = rpc[q]
      BY <1>2, <2>1, Zenon
    <3> QED  BY <1>4, <3>1, Zenon DEF Agreed
  <2>2. CASE p = r /\ q # r
    <3>1. Told(q) /\ rpc'[q] = rpc[q] /\ rpc'[p] = t /\ t.key = k
      BY <1>1, <1>2, <2>2, Zenon
    <3> QED  BY <1>7, <2>2, <3>1, Zenon
  <2>3. CASE p # r /\ q = r
    <3>1. Told(p) /\ rpc'[p] = rpc[p] /\ rpc'[q] = t /\ t.key = k
      BY <1>1, <1>2, <2>3, Zenon
    <3> QED  BY <1>7, <2>3, <3>1, Zenon
  <2> QED  BY <2>1, <2>2, <2>3, Zenon
<1>9. Marking'
  BY <1>1, <1>2, <1>3, <1>4, Zenon DEF Marking, At
<1> QED  BY <1>5, <1>6, <1>8, <1>9, Zenon DEF Answers

\* The call that ran the handler is the first to give a final answer, and the
\* one it leaves in the record is the one it gives.
LEMMA EndsAnswers ==
  ASSUME Inv, Inv', Answers, NEW r \in Rpc, NEW t \in RpcState, Moves(r, t), Ends(r, t)
  PROVE  Answers'
<1> DEFINE k == rpc[r].key
<1>1. /\ k \in Key /\ ~Lost /\ ~Lost' /\ UNCHANGED <<life, overrun>> /\ rpc' = [rpc EXCEPT ![r] = t]
      /\ rpc'[r] = t /\ t.key = k /\ t.life = rpc[r].life
  BY Zenon DEF Moves, Ends, Inv, Types, Flow, Down, Lost, InFlight
<1>2. \A q \in Rpc \ {r} : rpc'[q] = rpc[q] /\ (Live(q)' <=> Live(q)) /\ (Told(q)' <=> Told(q))
  BY <1>1, OthersStay, Zenon
<1>3. ~Live(r)' /\ rpc'[r].pc # "mark"
  BY <1>1, Zenon DEF Ends, Live, InFlight
<1>4. rpc[r].ran /\ Live(r) /\ Storable(rpc[r].answer)
  BY Zenon DEF Ends, Moves, Live, At, Inv, Flow, Answers, Marking
<1>5. k \notin overrun =>
        rpc[r].life = life[k] /\ record[k].status = "processing" /\ record[k] \in Record
  <2> SUFFICES ASSUME k \notin overrun
               PROVE  rpc[r].life = life[k] /\ record[k].status = "processing" /\
                        record[k] \in Record
    BY Zenon
  <2>1. rpc[r].life = life[k] /\ record[k].status = "processing"
    BY <1>4, Zenon DEF Answers, Mine
  <2>2. record[k] # None
    BY <2>1 DEF None
  <2> QED  BY <1>1, <2>1, <2>2, Zenon DEF Inv, Types
\* No other call with the current record of the key ran or was told anything.
<1>6. ASSUME NEW q \in Rpc \ {r}, Told(q) \/ Live(q), rpc[q].key = k, k \notin overrun
      PROVE  rpc[q].life # life[k]
  <2> SUFFICES ASSUME rpc[q].life = life[k] PROVE rpc[q].ran
    BY <1>4, <1>5, <1>6, Zenon DEF Inv, OncePerKey
  <2> QED  BY <1>1, <1>5, <1>6, Zenon DEF Answers, Settled, Live
<1>7. \A i \in Key \ {k} : record'[i] = record[i]
  BY <1>1, Zenon DEF Ends, Inv, Types
<1>8. k \notin overrun => IF record'[k].status = "processing" THEN record' = record
                          ELSE Stored(record'[k]) = rpc[r].answer
  <2> SUFFICES ASSUME k \notin overrun
               PROVE  IF record'[k].status = "processing" THEN record' = record
                      ELSE Stored(record'[k]) = rpc[r].answer
    BY Zenon
  <2>1. CASE record' = record
    BY <1>5, <2>1, Zenon
  <2>2. CASE record' = [record EXCEPT ![k] = Marked(@, rpc[r].answer)]
    <3>1. record'[k] = Marked(record[k], rpc[r].answer)
      BY <1>1, <2>2, Zenon DEF Inv, Types
    <3> QED  BY <1>4, <1>5, <3>1, StoredMarked, Zenon
  <2> QED  BY <2>1, <2>2, Zenon DEF Ends
<1>9. Mine'
  <2> SUFFICES ASSUME NEW q \in Rpc, Live(q)', rpc'[q].key \notin overrun'
               PROVE  /\ rpc'[q].life = life'[rpc'[q].key]
                      /\ record'[rpc'[q].key].status = "processing"
    BY Zenon DEF Mine, Live, InFlight
  <2>1. q # r /\ Live(q) /\ rpc'[q] = rpc[q]
    BY <1>2, <1>3, Zenon
  <2>2. /\ rpc[q].key \in Key /\ rpc[q].life = life[rpc[q].key]
        /\ record[rpc[q].key].status = "processing"
    <3>1. rpc[q].key \notin overrun
      BY <1>1, <2>1
    <3> QED  BY <2>1, <3>1, Zenon DEF Answers, Mine, Live, Inv, Flow
  <2>3. rpc[q].key # k
    BY <1>1, <1>6, <2>1, <2>2
  <2> QED  BY <1>1, <1>7, <2>1, <2>2, <2>3, Zenon
<1>10. Told(r)' => t.answer = rpc[r].answer /\ t.ran
  BY <1>1, Zenon DEF Ends, Told, At
<1>11. Settled'
  <2> SUFFICES ASSUME NEW q \in Rpc, Told(q)', rpc'[q].key \notin overrun',
                      rpc'[q].life = life'[rpc'[q].key], ~Lost'
               PROVE  IF record'[rpc'[q].key].status = "processing" THEN rpc'[q].ran
                      ELSE rpc'[q].answer = Stored(record'[rpc'[q].key])
    BY Zenon DEF Settled, Told, At, Lost
  <2>1. CASE q = r
    BY <1>1, <1>8, <1>10, <2>1
  <2>2. CASE q # r
    <3>1. Told(q) /\ rpc'[q] = rpc[q]
      BY <1>2, <2>2, Zenon
    <3>2. rpc[q].key \notin overrun /\ rpc[q].life = life[rpc[q].key] /\ ~Lost
      BY <1>1, <3>1
    <3>3. rpc[q].key \in Key /\ rpc[q].key # k
      BY <1>6, <2>2, <3>1, <3>2, Zenon DEF Told, Inv, Ledger, Holds
    <3>4. record'[rpc'[q].key] = record[rpc[q].key]
      BY <1>7, <3>1, <3>3, Zenon
    <3>5. IF record[rpc[q].key].status = "processing" THEN rpc[q].ran
          ELSE rpc[q].answer = Stored(record[rpc[q].key])
      BY <3>1, <3>2, Zenon DEF Answers, Settled
    <3> QED  BY <3>1, <3>4, <3>5, Zenon
  <2> QED  BY <2>1, <2>2, Zenon
<1>12. Agreed'
  <2> SUFFICES ASSUME NEW p \in Rpc, NEW q \in Rpc, Told(p)', Told(q)',
                      rpc'[p].key = rpc'[q].key, rpc'[p].life = rpc'[q].life,
                      rpc'[p].key \notin overrun'
               PROVE  rpc'[p].answer = rpc'[q].answer
    BY Zenon DEF Agreed, Told, At
  <2>1. CASE p # r /\ q # r
    BY <1>1, <1>2, <2>1 DEF Answers, Agreed
  <2>2. CASE p = r \/ q = r
    BY <1>1, <1>2, <1>5, <1>6, <2>2
  <2> QED  BY <2>1, <2>2, Zenon
<1>13. Marking'
  BY <1>2, <1>3, Zenon DEF Answers, Marking, At
<1> QED  BY <1>9, <1>11, <1>12, <1>13, Zenon DEF Answers

\* The key of a call whose record is deleted under it is overrun; answers from
\* the deleted records are past.
LEMMA DeleteExpiredAnswers ==
  ASSUME Inv, Inv', Answers, DeleteExpired
  PROVE  Answers'
<1>1. PICK batch \in SUBSET Key :
        /\ record' = [k \in Key |-> IF k \in batch THEN None ELSE record[k]]
        /\ life' = [k \in Key |-> IF k \in batch THEN life[k] + 1 ELSE life[k]]
        /\ overrun' = overrun \cup {k \in batch : \E r \in InFlight : rpc[r].key = k /\ rpc[r].ran}
  BY Zenon DEF DeleteExpired, Deletable, Expired
<1>2. UNCHANGED <<rpc, phase, backend>>
  BY Zenon DEF DeleteExpired, process
<1>3. \A q \in Rpc : (Live(q)' <=> Live(q)) /\ (Told(q)' <=> Told(q)) /\ (Lost' <=> Lost)
  BY <1>2, Zenon DEF Live, Told, At, InFlight, Lost
<1>4. Settled'
  BY <1>1, <1>2, <1>3, Zenon DEF Settled, Told, Inv, Ledger, Holds, Types, RpcState, Answers
<1> QED
  BY <1>1, <1>2, <1>3, <1>4, Zenon DEF Answers, Mine, Live, Inv, Flow, Agreed, Marking, At

\* A new call, before it has asked for its key.
LEMMA NewCall ==
  ASSUME Inv, NEW r \in Rpc, Call(r)
  PROVE  \E t \in RpcState :
           /\ rpc' = [rpc EXCEPT ![r] = t] /\ rpc[r].pc = "idle" /\ open
           /\ ~t.ran /\ ~t.final /\ t.pc \in {"begin", "answered", "killed"}
           /\ t.answer.code # "OK" /\ t.answer.order = 0
           /\ UNCHANGED <<record, life, overrun, created, saga, backend, phase, open, abrupt>>
<1>1. PICK k \in Key \cup {NoKey}, p \in Payload :
        rpc' = [rpc EXCEPT ![r] = IF k = NoKey \/ (p.method # "CreateOrder" /\ p.order = "")
                                  THEN Return(Idle, Error("InvalidArgument"))
                                  ELSE [Idle EXCEPT !.pc = "begin", !.key = k, !.payload = p]]
  BY Zenon DEF Call, Become
<1> DEFINE t == IF k = NoKey \/ (p.method # "CreateOrder" /\ p.order = "")
                THEN Return(Idle, Error("InvalidArgument"))
                ELSE [Idle EXCEPT !.pc = "begin", !.key = k, !.payload = p]
<1>2. /\ Idle \in RpcState /\ ~Idle.ran /\ ~Idle.final /\ Idle.answer = NoAnswer /\ ~Idle.cut
      /\ NoAnswer.code # "OK" /\ NoAnswer.order = 0
  BY AnswerTypes, OrderServiceAssumption, Zenon DEF Idle, RpcState, PC, NoAnswer
<1>3. /\ t \in RpcState /\ ~t.ran /\ ~t.final /\ t.pc \in {"begin", "answered", "killed"}
      /\ t.answer \in {NoAnswer, Error("InvalidArgument")}
  <2>1. CASE k = NoKey \/ (p.method # "CreateOrder" /\ p.order = "")
    BY <1>2, <2>1, AnswerTypes, ReturnFact, Zenon DEF Return, RpcState
  <2>2. CASE ~(k = NoKey \/ (p.method # "CreateOrder" /\ p.order = ""))
    BY <1>2, <2>2, Zenon DEF RpcState, PC
  <2> QED  BY <2>1, <2>2, Zenon
<1> HIDE DEF t
<1>4. rpc' = [rpc EXCEPT ![r] = t]
  BY <1>1, Zenon DEF t
<1> QED  BY <1>2, <1>3, <1>4, Zenon DEF Error, NoAnswer, Call, At, keys, orders, process

\* The process goes on to another phase; its calls and sagas stay.
PhaseStep ==
  \/ Signal \/ GracefulStop \/ StopServer \/ ServeFails \/ ShutdownSagas \/ SagasReturned
  \/ WaitTimeout \/ Restart

\* A step of the process that lets its calls run on.
LEMMA ProcessStep ==
  ASSUME Inv, PhaseStep
  PROVE  /\ UNCHANGED <<record, life, overrun, created, saga, backend>> /\ ~Lost'
         /\ ~Lost /\ InFlight' = InFlight
         /\ \A q \in Rpc : /\ rpc'[q].pc = rpc[q].pc /\ rpc'[q].key = rpc[q].key
                           /\ rpc'[q].payload = rpc[q].payload /\ rpc'[q].answer = rpc[q].answer
                           /\ rpc'[q].ran = rpc[q].ran /\ rpc'[q].final = rpc[q].final
                           /\ rpc'[q].life = rpc[q].life
<1>1. UNCHANGED <<record, life, overrun, created, saga, backend>> /\ ~Lost' /\ ~Lost
  BY Zenon DEF PhaseStep, Signal, GracefulStop, StopServer, ServeFails, ShutdownSagas,
     SagasReturned, WaitTimeout, Restart, kept, keys, orders, Lost
<1>2. ASSUME NEW q \in Rpc
      PROVE  /\ rpc'[q].pc = rpc[q].pc /\ rpc'[q].key = rpc[q].key
             /\ rpc'[q].payload = rpc[q].payload /\ rpc'[q].answer = rpc[q].answer
             /\ rpc'[q].ran = rpc[q].ran /\ rpc'[q].final = rpc[q].final
             /\ rpc'[q].life = rpc[q].life
  <2>1. CASE StopServer
    BY <2>1, Zenon DEF StopServer, Inv, Types, RpcState
  <2>2. CASE ~StopServer
    BY <2>2, Zenon DEF PhaseStep, Signal, GracefulStop, ServeFails, ShutdownSagas,
       SagasReturned, WaitTimeout, Restart, kept
  <2> QED  BY <2>1, <2>2, Zenon
<1> QED  BY <1>1, <1>2, Zenon DEF InFlight

\* The process ends.
LEMMA EndedFact ==
  ASSUME Inv, Ended
  PROVE  /\ UNCHANGED <<life, overrun, created, backend>> /\ phase' = "down" /\ ~open'
         /\ InFlight' = {}
         /\ record' = IF backend = "memory" THEN [k \in Key |-> None] ELSE record
         /\ \A q \in Rpc :
              /\ rpc'[q].key = rpc[q].key /\ rpc'[q].payload = rpc[q].payload
              /\ rpc'[q] = rpc[q] \/ (rpc'[q].pc = "killed" /\ rpc'[q].answer = NoAnswer)
              /\ Begun(q) => Begun(q)'
<1>1. ASSUME NEW q \in Rpc
      PROVE  /\ rpc'[q].key = rpc[q].key /\ rpc'[q].payload = rpc[q].payload
             /\ rpc'[q] = rpc[q] \/ (rpc'[q].pc = "killed" /\ rpc'[q].answer = NoAnswer)
             /\ rpc'[q].pc \in {"idle", "answered", "killed"}
  <2>1. CASE q \in InFlight
    BY <2>1, Zenon DEF Killed, RpcState, Ended, Inv, Types
  <2>2. CASE q \notin InFlight
    BY <2>2, Zenon DEF InFlight, Ended, Inv, Types
  <2> QED  BY <2>1, <2>2, Zenon
<1> QED  BY <1>1, Zenon DEF Ended, orders, Begun, Running, InFlight

\* Every step keeps the answers.
LEMMA AnswersInductive == Inv /\ Answers /\ [Next]_vars => Answers'
<1> SUFFICES ASSUME Inv, Answers, [Next]_vars PROVE Answers'
  BY Zenon
<1>1. Inv'
  BY Inductive, Zenon
<1>2. ASSUME NEW r \in Rpc, NEW t \in RpcState, rpc' = [rpc EXCEPT ![r] = t],
             UNCHANGED <<life, overrun>>, Lost => Lost',
             \A k \in Key : record[k] # None /\ ~Lost' =>
               record'[k].status = record[k].status /\ Stored(record'[k]) = Stored(record[k]),
             ~Told(r)', t.pc = "mark" => Storable(t.answer),
             Live(r)' => Live(r) /\ t.key = rpc[r].key /\ t.life = rpc[r].life
      PROVE  Answers'
  <2>1. rpc'[r] = t /\ \A q \in Rpc \ {r} : rpc'[q] = rpc[q] /\ (Live(q)' <=> Live(q)) /\
          (Told(q)' <=> Told(q))
    BY <1>2, OthersStay, Zenon DEF Inv, Types
  <2>2. \A q \in Rpc :
           /\ Live(q)' => Live(q) /\ rpc'[q].key = rpc[q].key /\ rpc'[q].life = rpc[q].life
           /\ Told(q)' => /\ Told(q) /\ rpc'[q].key = rpc[q].key /\ rpc'[q].life = rpc[q].life
                          /\ rpc'[q].ran = rpc[q].ran /\ rpc'[q].answer = rpc[q].answer
           /\ rpc'[q].pc = "mark" => Storable(rpc'[q].answer)
    BY <1>2, <2>1, Zenon DEF Answers, Marking, At
  <2> QED  BY <1>1, <1>2, <2>2, KeepsAnswers, Zenon
<1>3. ASSUME NEW r \in Rpc, Call(r) PROVE Answers'
  <2>1. PICK t \in RpcState :
           /\ rpc' = [rpc EXCEPT ![r] = t] /\ ~t.ran /\ ~t.final /\
                t.pc \in {"begin", "answered", "killed"}
           /\ UNCHANGED <<record, life, overrun, backend, phase>>
    BY <1>3, NewCall, Zenon
  <2>2. ~Told(r)' /\ ~Live(r)' /\ t.pc # "mark" /\ (Lost => Lost')
    BY <2>1, Zenon DEF Told, Live, Lost, Inv, Types
  <2> QED  BY <1>2, <2>1, <2>2, Zenon
<1>4. ASSUME NEW r \in Rpc, RpcStep(r) \/ RpcFault(r) PROVE Answers'
  <2>1. PICK t \in RpcState :
          /\ Moves(r, t)
          /\ (Begins(r, t) \/ Advances(r, t) \/ Refuses(r, t) \/ Repeats(r, t) \/ Ends(r, t))
    BY <1>4, CallEffects, Zenon
  <2>2. /\ rpc' = [rpc EXCEPT ![r] = t] /\ UNCHANGED <<life, overrun>> /\ (Lost => Lost')
        /\ rpc'[r] = t /\ t.key = rpc[r].key /\ rpc[r].key \in Key
    BY <2>1, Zenon DEF Moves, Lost, Inv, Types, Flow
  <2>3. CASE Begins(r, t) \/ Repeats(r, t) \/ Ends(r, t)
    BY <1>1, <2>1, <2>3, BeginsAnswers, RepeatsAnswers, EndsAnswers, Zenon
  <2>4. CASE Advances(r, t)
    <3>1. ~Told(r)' /\ (Live(r)' => Live(r)) /\ t.life = rpc[r].life
      BY <2>1, <2>2, <2>4, Zenon DEF Advances, Moves, Told, At, Live
    <3> QED  BY <1>2, <2>2, <2>4, <3>1, Zenon DEF Advances
  <2>5. CASE Refuses(r, t)
    <3>1. ~Told(r)' /\ ~Live(r)' /\ t.pc # "mark"
      BY <2>2, <2>5, Zenon DEF Refuses, Told, Live
    <3>2. \A k \in Key : record[k] # None => record'[k] = record[k]
      BY <2>2, <2>5, Zenon DEF Refuses, Inv, Types
    <3> QED  BY <1>2, <2>2, <3>1, <3>2, Zenon
  <2> QED  BY <2>1, <2>3, <2>4, <2>5, Zenon
<1>5. ASSUME UNCHANGED <<life, overrun, rpc>>, Lost => Lost',
             \A k \in Key : record[k] # None /\ ~Lost' =>
               record'[k].status = record[k].status /\ Stored(record'[k]) = Stored(record[k])
      PROVE  Answers'
  <2>1. \A q \in Rpc : /\ (Live(q)' <=> Live(q)) /\ (Told(q)' <=> Told(q))
                       /\ rpc'[q].pc = "mark" => Storable(rpc'[q].answer)
    BY <1>5, Zenon DEF Live, Told, At, InFlight, Answers, Marking
  <2> QED  BY <1>1, <1>5, <2>1, KeepsAnswers, Zenon
<1>6. ASSUME NEW r \in Rpc, SagaReturns(r) PROVE Answers'
  BY <1>5, <1>6, Zenon DEF SagaReturns, keys, process, Lost
<1>7. ASSUME NEW i \in Key, Expire(i) PROVE Answers'
  <2>1. /\ record' = [record EXCEPT ![i].expired = TRUE] /\ record[i] # None
        /\ UNCHANGED <<life, overrun, rpc, backend, phase>>
    BY <1>7, Zenon DEF Expire, process
  <2>2. ASSUME NEW k \in Key, record[k] # None
        PROVE  record'[k].status = record[k].status /\ Stored(record'[k]) = Stored(record[k])
    <3>1. record[k] \in Record
      BY <2>2, Zenon DEF Inv, Types
    <3>2. record'[k] = record[k] \/ record'[k] = [record[k] EXCEPT !.expired = TRUE]
      BY <2>1, Zenon DEF Inv, Types
    <3> QED  BY <3>1, <3>2, Zenon DEF Stored, decodeIdempotencyFailure, Record
  <2> QED  BY <1>5, <2>1, <2>2, Zenon DEF Lost
<1>8. CASE DeleteExpired
  BY <1>1, <1>8, DeleteExpiredAnswers, Zenon
<1>9. CASE PhaseStep
  <2>1. /\ UNCHANGED <<record, life, overrun>> /\ ~Lost /\ InFlight' = InFlight
        /\ \A q \in Rpc : /\ rpc'[q].pc = rpc[q].pc /\ rpc'[q].key = rpc[q].key
                          /\ rpc'[q].answer = rpc[q].answer /\ rpc'[q].life = rpc[q].life
                          /\ rpc'[q].ran = rpc[q].ran /\ rpc'[q].final = rpc[q].final
    BY <1>9, ProcessStep, Zenon
  <2>2. \A q \in Rpc : /\ (Live(q)' <=> Live(q)) /\ (Told(q)' <=> Told(q))
                       /\ rpc'[q].pc = "mark" => Storable(rpc'[q].answer)
    BY <2>1, Zenon DEF Live, Told, At, Answers, Marking
  <2> QED  BY <1>1, <2>1, <2>2, KeepsAnswers, Zenon
<1>10. CASE Exit \/ Crash
  <2>1. Ended
    BY <1>10, Zenon DEF Exit, Crash
  <2>2. /\ UNCHANGED <<life, overrun, backend>> /\ phase' = "down" /\ InFlight' = {}
        /\ record' = IF backend = "memory" THEN [k \in Key |-> None] ELSE record
        /\ \A q \in Rpc : rpc'[q] = rpc[q] \/ rpc'[q].pc = "killed"
    BY <2>1, EndedFact, Zenon
  <2>3. /\ Lost => Lost'
        /\ ~Lost' => record' = record
    BY <2>2, Zenon DEF Lost, Inv, Types, Backend
  <2>4. \A q \in Rpc : /\ ~Live(q)' /\ rpc'[q].pc # "mark"
                       /\ Told(q)' => Told(q) /\ rpc'[q] = rpc[q]
    <3> SUFFICES ASSUME NEW q \in Rpc
                 PROVE  /\ ~Live(q)' /\ rpc'[q].pc # "mark" /\ (Told(q)' =>
                             Told(q) /\ rpc'[q] = rpc[q])
      BY Zenon
    <3>1. ~Live(q)' /\ q \notin InFlight'
      BY <2>2, Zenon DEF Live
    <3> QED  BY <2>2, <3>1, Zenon DEF Told, At, InFlight
  <2> QED  BY <1>1, <2>2, <2>3, <2>4, KeepsAnswers, Zenon
<1>11. CASE UNCHANGED vars
  BY <1>5, <1>11, Zenon DEF vars, Lost
<1> QED  BY <1>3, <1>4, <1>6, <1>7, <1>8, <1>9, <1>10, <1>11, Zenon DEF Next, Shutdown, PhaseStep

-----------------------------------------------------------------------------
(* The orders that answers name.                                           *)

\* Every order an answer or a record names was stored: createOrderInternal stores
\* it before the answer is made, and orders are never removed.
LEMMA NamedInductive == Inv /\ Named /\ [Next]_vars => Named'
<1> SUFFICES ASSUME Inv, Named, [Next]_vars PROVE Named'
  BY Zenon
<1>1. ASSUME created \subseteq created',
             \A q \in Rpc : KnownNext(rpc'[q].answer) \/ rpc'[q].answer = rpc[q].answer,
             \A k \in Key : record'[k] # None =>
               KnownNext(record'[k].body) \/ (record[k] # None /\ record'[k].body = record[k].body)
      PROVE  Named'
  BY <1>1, Zenon DEF Named, Known, KnownNext
<1>2. KnownNext(NoAnswer)
  BY Zenon DEF KnownNext, NoAnswer
<1>3. ASSUME NEW r \in Rpc, Call(r) PROVE Named'
  BY <1>1, <1>3, NewCall, Zenon DEF KnownNext, Inv, Types
<1>4. ASSUME NEW r \in Rpc, RpcStep(r) \/ RpcFault(r) PROVE Named'
  <2> DEFINE k == rpc[r].key
  <2>1. PICK t \in RpcState :
          /\ Moves(r, t)
          /\ (Begins(r, t) \/ Advances(r, t) \/ Refuses(r, t) \/ Repeats(r, t) \/ Ends(r, t))
    BY <1>4, CallEffects, Zenon
  <2>2. /\ rpc' = [rpc EXCEPT ![r] = t] /\ rpc'[r] = t /\ created \subseteq created' /\ k \in Key
        /\ \A q \in Rpc \ {r} : rpc'[q] = rpc[q]
    BY <2>1, Zenon DEF Moves, Inv, Types, Flow
  <2>3. KnownNext(t.answer) \/ t.answer = rpc[r].answer
    <3>1. CASE Repeats(r, t)
      <4>1. CASE t.answer = Stored(record[k])
        <5>1. Known(record[k].body)
          BY <2>2, <3>1 DEF Named, Repeats, Record, None
        <5> QED
          BY <2>2, <4>1, <5>1, Zenon DEF Stored, Known, KnownNext, decodeIdempotencyFailure,
             Error, NoAnswer
      <4> QED  BY <1>2, <3>1, <4>1, Zenon DEF Repeats
    <3>2. CASE ~Repeats(r, t)
      BY <1>2, <2>1, <3>2, Zenon DEF Begins, Advances, Refuses, Ends, KnownNext
    <3> QED  BY <3>1, <3>2, Zenon
  <2>4. ASSUME NEW i \in Key, record'[i] # None
        PROVE  KnownNext(record'[i].body) \/ (record[i] # None /\ record'[i].body = record[i].body)
    <3>1. CASE record'[i] = record[i]
      BY <2>4, <3>1, Zenon
    <3>2. CASE i = k /\ record' = [record EXCEPT ![k] = Processing(rpc[r])]
      BY <1>2, <2>2, <3>2, Zenon DEF Processing, Inv, Types
    <3>3. CASE /\ i = k /\ record[k] # None
               /\ record' = [record EXCEPT ![k] = Marked(@, rpc[r].answer)]
      BY <1>2, <2>2, <3>3 DEF Inv, Types, Marked, Record, Named, Known, KnownNext
    <3> QED
      BY <2>1, <2>2, <3>1, <3>2, <3>3, Zenon DEF Begins, Advances, Refuses, Repeats, Ends,
         Inv, Types
  <2> QED  BY <1>1, <2>2, <2>3, <2>4, Zenon
<1>5. ASSUME NEW r \in Rpc, SagaReturns(r) PROVE Named'
  BY <1>1, <1>5, Zenon DEF SagaReturns, keys
<1>6. ASSUME NEW i \in Key, Expire(i) PROVE Named'
  BY <1>1, <1>6, Zenon DEF Expire, orders, Record, Inv, Types
<1>7. CASE DeleteExpired
  BY <1>1, <1>7 DEF DeleteExpired, orders
<1>8. CASE PhaseStep
  BY <1>1, <1>8, ProcessStep, Zenon
<1>9. CASE Exit \/ Crash
  BY <1>1, <1>2, <1>9, EndedFact, Zenon DEF Exit, Crash
<1>10. CASE UNCHANGED vars
  BY <1>1, <1>10, Zenon DEF vars
<1> QED  BY <1>3, <1>4, <1>5, <1>6, <1>7, <1>8, <1>9, <1>10, Zenon DEF Next, Shutdown, PhaseStep

\* A repeated request gets the answer of the first one, across failures,
\* crashes and restarts, unless its record expired under the running call; and
\* an order that an answer names was stored (withIdempotency, replayIdempotency,
\* createOrderInternal).
THEOREM RepeatsGetTheSameAnswer == Spec => []SameAnswer
<1> DEFINE I == Inv /\ Answers /\ Named
<1>1. Init => I
  <2> SUFFICES ASSUME Init PROVE Answers /\ Named
    BY Initially, Zenon
  <2>1. \A r \in Rpc : rpc[r].pc = "idle" /\ rpc[r].answer.order = 0
    BY Zenon DEF Init, Idle, NoAnswer
  <2>2. \A k \in Key : record[k] = None
    BY Zenon DEF Init
  <2> QED
    BY <2>1, <2>2, Zenon DEF Answers, Mine, Settled, Agreed, Marking, Live, Told, At,
       InFlight, Named, Known
<1>2. I /\ [Next]_vars => I'
  BY Inductive, AnswersInductive, NamedInductive, Zenon
<1>3. I => SameAnswer
  BY Zenon DEF Answers, Agreed, Told, Named, Known, SameAnswer
<1> QED  BY <1>1, <1>2, <1>3, PTL DEF Spec

-----------------------------------------------------------------------------
(* Accepted requests have their sagas.                                     *)

\* Only an abrupt stop leaves calls running when the dispatch is closed.
LEMMA DrainedInductive == Inv /\ Drained /\ [Next]_vars => Drained'
<1> SUFFICES ASSUME Inv, Drained, [Next]_vars PROVE Drained'
  BY Zenon
<1>1. ASSUME UNCHANGED <<phase, open, abrupt>>, InFlight' \subseteq InFlight PROVE Drained'
  BY <1>1, Zenon DEF Drained
<1>2. ASSUME NEW r \in Rpc, Call(r) PROVE Drained'
  BY <1>2, Zenon DEF Call, process, Drained
<1>3. ASSUME NEW r \in Rpc, RpcStep(r) \/ RpcFault(r) PROVE Drained'
  BY <1>3, CallEffects, Zenon DEF Moves, Drained
<1>4. CASE \/ DeleteExpired \/ UNCHANGED vars
           \/ \E r \in Rpc : SagaReturns(r)
           \/ \E k \in Key : Expire(k)
  BY <1>1, <1>4, Zenon DEF DeleteExpired, SagaReturns, Expire, process, vars, InFlight
<1>5. CASE PhaseStep
  <2>1. InFlight' = InFlight
    BY <1>5, ProcessStep, Zenon
  <2> QED
    BY <1>5, <2>1 DEF PhaseStep, Signal, GracefulStop, StopServer, ServeFails,
       ShutdownSagas, SagasReturned, WaitTimeout, Restart, kept, Drained
<1>6. CASE Exit \/ Crash
  BY <1>6, EndedFact, Zenon DEF Exit, Crash, Drained
<1> QED  BY <1>2, <1>3, <1>4, <1>5, <1>6, Zenon DEF Next, Shutdown, PhaseStep

\* A step that owes or accepts no request whose saga was not started.
LEMMA KeepsAccepted ==
  ASSUME Accepted, Drained', abrupt => abrupt', overrun \subseteq overrun',
         \A q \in Rpc : rpc'[q].pc = "idle" => rpc[q].pc = "idle" /\ (Begun(q)' => Begun(q)),
         ~abrupt' => \A q \in Rpc :
           /\ Begun(q) => Begun(q)' /\ rpc'[q].key = rpc[q].key /\ rpc'[q].payload = rpc[q].payload
           /\ Owes(q)' => Begun(q)' \/ Owes(q)
           /\ Accepts(q)' =>
                \/ BegunForNext(rpc'[q].key, rpc'[q].payload)
                \/ Accepts(q) /\ rpc'[q].key = rpc[q].key /\ rpc'[q].payload = rpc[q].payload,
         ~abrupt' => \A k \in Key \ overrun' :
           record'[k].status = "done" /\ record'[k].hash.method # "CreateOrder" =>
             \/ BegunForNext(k, record'[k].hash)
             \/ record[k].status = "done" /\ record'[k].hash = record[k].hash
  PROVE  Accepted'
<1>1. Fresh'
  BY Zenon DEF Accepted, Fresh, At
<1>2. ASSUME ~abrupt', NEW k, NEW p, BegunFor(k, p) PROVE BegunForNext(k, p)
  BY <1>2, Zenon DEF BegunFor, BegunForNext
<1>3. Dispatched'
  <2> SUFFICES ASSUME ~abrupt', NEW r \in Rpc, Owes(r)' PROVE Begun(r)'
    BY Zenon DEF Dispatched, Owes, At
  <2> QED  BY Zenon DEF Accepted, Dispatched
<1>4. Recorded'
  <2> SUFFICES ASSUME ~abrupt', NEW k \in Key \ overrun', record'[k].status = "done",
                      record'[k].hash.method # "CreateOrder"
               PROVE  BegunForNext(k, record'[k].hash)
    BY Zenon DEF Recorded, BegunFor, BegunForNext, Begun
  <2> QED  BY <1>2, Zenon DEF Accepted, Recorded
<1>5. OrderlyAcceptedIsStarted'
  <2> SUFFICES ASSUME ~abrupt', NEW r \in Rpc, Accepts(r)'
               PROVE  BegunForNext(rpc'[r].key, rpc'[r].payload)
    BY Zenon DEF OrderlyAcceptedIsStarted, Accepts, At, BegunForNext, Begun, Started
  <2>1. Accepts(r) => BegunFor(rpc[r].key, rpc[r].payload)
    BY Zenon DEF Accepted, OrderlyAcceptedIsStarted, Accepts, BegunFor, Begun, Started
  <2> QED  BY <1>2, <2>1, Zenon
<1> QED  BY <1>1, <1>3, <1>4, <1>5, Zenon DEF Accepted

\* The steps of one call.
LEMMA CallAccepted ==
  ASSUME Inv, Answers, Accepted, Drained', NEW r \in Rpc, RpcStep(r) \/ RpcFault(r)
  PROVE  Accepted'
<1> DEFINE k == rpc[r].key
<1>1. PICK t \in RpcState :
        /\ Moves(r, t)
        /\ (Begins(r, t) \/ Advances(r, t) \/ Refuses(r, t) \/ Repeats(r, t) \/ Ends(r, t))
  BY CallEffects, Zenon
<1>2. /\ rpc'[r] = t /\ t.key = k /\ t.payload = rpc[r].payload /\ k \in Key
      /\ \A q \in Rpc \ {r} : rpc'[q] = rpc[q]
      /\ UNCHANGED <<overrun, abrupt>> /\ r \in InFlight
  BY <1>1, Zenon DEF Moves, Inv, Types, Flow
\* The dispatch is open while there are calls, unless the stop was abrupt.
<1>3. ~abrupt => ~DispatchClosed
  BY <1>2, Zenon DEF Accepted, Drained, DispatchClosed
<1>4. ~abrupt => \A q \in Rpc : Begun(q) => Begun(q)'
  BY <1>1, <1>3, Zenon DEF Moves
<1>5. \A q \in Rpc \ {r} : (Owes(q)' <=> Owes(q)) /\ (Accepts(q)' <=> Accepts(q))
  BY <1>2, Zenon DEF Owes, Accepts, At
<1>6. \A q \in Rpc : rpc'[q].pc = "idle" => rpc[q].pc = "idle" /\ (Begun(q)' => Begun(q))
  <2>1. t.pc # "idle"
    BY <1>1, Zenon DEF Begins, Advances, Refuses, Repeats, Ends
  <2>2. \A q \in Rpc \ {r} : Begun(q)' => Begun(q)
    <3>1. CASE Dispatch(r)
      BY <3>1, Zenon DEF Dispatch, Begun, Inv, Types
    <3>2. CASE ~Dispatch(r)
      BY <3>2, Zenon DEF RpcStep, RpcFault, CreateProcessing, FindKey, KeyExists, GetKey,
         Mark, CreateOrder, LoadOrder, ReloadOrder, KeyFails, MarkFails, OrderFails, Begun
    <3> QED  BY <3>1, <3>2, Zenon
  <2> QED  BY <1>2, <2>1, <2>2, Zenon
<1>7. ASSUME ~abrupt, Owes(r)' PROVE Begun(r)'
  <2>1. t.pc = "reload" \/ (t.pc = "mark" /\ t.answer.code = "OK" /\
          t.payload.method # "CreateOrder")
    BY <1>2, <1>7, Zenon DEF Owes, At
  <2>2. Advances(r, t)
    BY <1>1, <2>1, Zenon DEF Begins, Refuses, Repeats, Ends
  <2>3. At(r, "reload") \/ Begun(r)'
    BY <1>3, <1>7, <2>1, <2>2, Zenon DEF Advances
  <2>4. At(r, "reload") => Begun(r)
    BY <1>7, Zenon DEF Accepted, Dispatched, Owes
  <2> QED  BY <1>4, <1>7, <2>3, <2>4, Zenon
\* A call that ends with OK owed its saga.
<1>8. ASSUME ~abrupt, At(r, "mark"), rpc[r].answer.code = "OK",
             rpc[r].payload.method # "CreateOrder"
      PROVE  BegunForNext(k, rpc[r].payload)
  <2>1. Begun(r)'
    BY <1>4, <1>8, Zenon DEF Accepted, Dispatched, Owes
  <2> QED  BY <1>2, <2>1, Zenon DEF BegunForNext
<1>9. ASSUME NEW p, BegunFor(k, p), ~abrupt PROVE BegunForNext(k, p)
  BY <1>2, <1>4, <1>9, Zenon DEF BegunFor, BegunForNext
<1>10. ASSUME ~abrupt, Accepts(r)' PROVE BegunForNext(k, rpc[r].payload)
  <2>1. /\ t.pc = "answered" /\ t.answer.code = "OK" /\ k \notin overrun
        /\ rpc[r].payload.method # "CreateOrder"
    BY <1>2, <1>10, Zenon DEF Accepts, At
  <2>2. CASE Ends(r, t)
    BY <1>8, <1>10, <2>1, <2>2, Zenon DEF Ends
  <2>3. CASE Repeats(r, t)
    <3>1. record[k].status = "done"
      BY <2>1, <2>3, Zenon DEF Repeats, Stored, decodeIdempotencyFailure, Error, NoAnswer
    <3>2. record[k].hash = rpc[r].payload
      BY <2>3, Zenon DEF Repeats
    <3>3. BegunFor(k, record[k].hash)
      BY <1>2, <1>10, <2>1, <3>1, <3>2, Zenon DEF Accepted, Recorded
    <3> QED  BY <1>9, <1>10, <3>2, <3>3, Zenon
  <2>4. ~Begins(r, t) /\ ~Advances(r, t) /\ ~Refuses(r, t)
    BY <2>1, Zenon DEF Begins, Advances, Refuses
  <2> QED  BY <1>1, <2>2, <2>3, <2>4, Zenon
<1>11. ASSUME ~abrupt, NEW i \in Key \ overrun, record'[i].status = "done",
              record'[i].hash.method # "CreateOrder"
       PROVE  \/ BegunForNext(i, record'[i].hash)
              \/ record[i].status = "done" /\ record'[i].hash = record[i].hash
  <2>1. CASE record'[i] = record[i]
    BY <1>11, <2>1, Zenon
  <2>2. CASE i = k /\ record' = [record EXCEPT ![k] = Processing(rpc[r])]
    BY <1>2, <1>11, <2>2, Zenon DEF Processing, Inv, Types
  <2>3. CASE /\ i = k /\ Ends(r, t) /\ record[k] # None
             /\ record' = [record EXCEPT ![k] = Marked(@, rpc[r].answer)]
    <3>1. record'[k] = Marked(record[k], rpc[r].answer) /\ record[k] \in Record
      BY <1>2, <2>3, Zenon DEF Inv, Types
    <3>2. rpc[r].answer.code = "OK" /\ record'[k].hash = record[k].hash
      <4> DEFINE m == Marked(record[k], rpc[r].answer)
      <4>1. /\ m.hash = record[k].hash
            /\ m.status = IF rpc[r].answer.code = "OK" THEN "done" ELSE "failed"
        BY <3>1, Zenon DEF Marked, Record
      <4>2. m.status = "done"
        BY <1>11, <2>3, <3>1, Zenon
      <4> QED  BY <3>1, <4>1, <4>2, Zenon
    <3>3. At(r, "mark") /\ rpc[r].ran /\ Live(r)
      BY <1>2, <2>3, Zenon DEF Ends, At, Inv, Flow, Live
    <3>4. rpc[r].life = life[k] /\ ~Lost
      BY <1>2, <1>11, <2>3, <3>3, Zenon DEF Answers, Mine, Lost, Inv, Down
    <3>5. record[k].hash = rpc[r].payload
      BY <3>3, <3>4, Zenon DEF Inv, Ledger, Holds
    <3> QED  BY <1>8, <1>11, <2>3, <3>2, <3>3, <3>5, Zenon
  <2>4. \/ record'[i] = record[i]
        \/ i = k /\ record' = [record EXCEPT ![k] = Processing(rpc[r])]
        \/ /\ i = k /\ Ends(r, t) /\ record[k] # None
           /\ record' = [record EXCEPT ![k] = Marked(@, rpc[r].answer)]
    BY <1>1, <1>2, Zenon DEF Begins, Advances, Refuses, Repeats, Ends, Inv, Types
  <2> QED  BY <2>1, <2>2, <2>3, <2>4, Zenon
<1>12. ASSUME ~abrupt', NEW q \in Rpc
       PROVE  /\ Begun(q) =>
                   Begun(q)' /\ rpc'[q].key = rpc[q].key /\ rpc'[q].payload = rpc[q].payload
              /\ Owes(q)' => Begun(q)' \/ Owes(q)
              /\ Accepts(q)' =>
                   \/ BegunForNext(rpc'[q].key, rpc'[q].payload)
                   \/ Accepts(q) /\ rpc'[q].key = rpc[q].key /\ rpc'[q].payload = rpc[q].payload
  <2>1. CASE q = r
    BY <1>2, <1>4, <1>7, <1>10, <1>12, <2>1, Zenon
  <2>2. CASE q # r
    BY <1>2, <1>4, <1>5, <1>12, <2>2, Zenon
  <2> QED  BY <2>1, <2>2, Zenon
<1> QED  BY <1>2, <1>6, <1>11, <1>12, KeepsAccepted, Zenon

\* Every step keeps that accepted requests have their sagas.
LEMMA AcceptedInductive == Inv /\ Answers /\ Accepted /\ [Next]_vars => Accepted'
<1> SUFFICES ASSUME Inv, Answers, Accepted, [Next]_vars PROVE Accepted'
  BY Zenon
<1>1. Drained'
  BY DrainedInductive, Zenon DEF Accepted
<1>2. ASSUME NEW r \in Rpc, Call(r) PROVE Accepted'
  <2>1. PICK t \in RpcState :
           /\ rpc' = [rpc EXCEPT ![r] = t] /\ rpc[r].pc = "idle" /\
                t.pc \in {"begin", "answered", "killed"}
           /\ t.answer.code # "OK" /\ UNCHANGED <<record, overrun, saga, abrupt>>
    BY <1>2, NewCall, Zenon
  <2>2. rpc'[r] = t /\ \A q \in Rpc \ {r} : rpc'[q] = rpc[q]
    BY <2>1, Zenon DEF Inv, Types
  <2>3. ~Begun(r) /\ ~Owes(r)' /\ ~Accepts(r)'
    BY <2>1, <2>2, Zenon DEF Accepted, Fresh, At, Owes, Accepts
  <2>4. \A q \in Rpc : Begun(q)' <=> Begun(q)
    BY <2>1, Zenon DEF Begun
  <2>5. \A q \in Rpc \ {r} : (Owes(q)' <=> Owes(q)) /\ (Accepts(q)' <=> Accepts(q))
    BY <2>1, <2>2 DEF Owes, Accepts, At
  <2> QED  BY <1>1, <2>1, <2>2, <2>3, <2>4, <2>5, KeepsAccepted, Zenon
<1>3. ASSUME NEW r \in Rpc, RpcStep(r) \/ RpcFault(r) PROVE Accepted'
  BY <1>1, <1>3, CallAccepted, Zenon
\* The other steps leave the answers and what was started as they are.
<1>4. ASSUME abrupt => abrupt', overrun \subseteq overrun',
             \A q \in Rpc : /\ rpc'[q].key = rpc[q].key /\ rpc'[q].payload = rpc[q].payload
                            /\ \/ rpc'[q].pc = rpc[q].pc /\ rpc'[q].answer = rpc[q].answer
                               \/ rpc'[q].pc = "killed"
                            /\ Begun(q)' <=> Begun(q),
             \A k \in Key : record'[k].status = "done" =>
                              record[k].status = "done" /\ record'[k].hash = record[k].hash
      PROVE  Accepted'
  <2>1. \A q \in Rpc : (Owes(q)' => Owes(q)) /\ (Accepts(q)' => Accepts(q))
    BY <1>4, Zenon DEF Owes, Accepts, At
  <2>2. \A q \in Rpc : rpc'[q].pc = "idle" => rpc[q].pc = "idle"
    BY <1>4, Zenon
  <2> QED  BY <1>1, <1>4, <2>1, <2>2, KeepsAccepted, Zenon
<1>5. ASSUME NEW r \in Rpc, SagaReturns(r) PROVE Accepted'
  BY <1>4, <1>5, Zenon DEF SagaReturns, Running, Begun, keys, process, Inv, Types
<1>6. ASSUME NEW i \in Key, Expire(i) PROVE Accepted'
  <2>1. /\ record' = [record EXCEPT ![i].expired = TRUE] /\ record[i] # None
        /\ UNCHANGED <<overrun, rpc, saga, abrupt>>
    BY <1>6, Zenon DEF Expire, process
  <2>2. ASSUME NEW k \in Key
        PROVE  record'[k].status = "done" =>
                 record[k].status = "done" /\ record'[k].hash = record[k].hash
    <3>1. CASE k = i
      BY <2>1, <3>1, Zenon DEF Record, Inv, Types
    <3>2. CASE k # i
      BY <2>1, <3>2, Zenon DEF Inv, Types
    <3> QED  BY <3>1, <3>2, Zenon
  <2> QED  BY <1>4, <2>1, <2>2, Zenon DEF Begun
<1>7. CASE DeleteExpired
  BY <1>4, <1>7 DEF DeleteExpired, process, None, Begun
<1>8. CASE PhaseStep
  <2>1. /\ UNCHANGED <<record, overrun, saga>>
        /\ \A q \in Rpc : /\ rpc'[q].pc = rpc[q].pc /\ rpc'[q].key = rpc[q].key
                          /\ rpc'[q].payload = rpc[q].payload /\ rpc'[q].answer = rpc[q].answer
    BY <1>8, ProcessStep, Zenon
  <2>2. abrupt => abrupt'
    BY <1>8, Zenon DEF PhaseStep, Signal, GracefulStop, StopServer, ServeFails,
       ShutdownSagas, SagasReturned, WaitTimeout, Restart
  <2> QED  BY <1>4, <2>1, <2>2, Zenon DEF Begun
<1>9. CASE Exit \/ Crash
  <2>1. Ended /\ (abrupt => abrupt')
    BY <1>9 DEF Exit, Crash
  <2>2. /\ UNCHANGED overrun
        /\ record' = IF backend = "memory" THEN [k \in Key |-> None] ELSE record
        /\ \A q \in Rpc : /\ rpc'[q].key = rpc[q].key /\ rpc'[q].payload = rpc[q].payload
                          /\ rpc'[q] = rpc[q] \/ rpc'[q].pc = "killed"
    BY <2>1, EndedFact, Zenon
  <2>3. \A q \in Rpc : Begun(q)' <=> Begun(q)
    BY <2>1, Zenon DEF Ended, Begun, Running
  <2>4. \A k \in Key : record'[k].status = "done" =>
                         record[k].status = "done" /\ record'[k].hash = record[k].hash
    BY <2>2, Zenon DEF None
  <2> QED  BY <1>4, <2>1, <2>2, <2>3, <2>4, Zenon
<1>10. CASE UNCHANGED vars
  BY <1>4, <1>10, Zenon DEF vars, Begun
<1> QED  BY <1>2, <1>3, <1>5, <1>6, <1>7, <1>8, <1>9, <1>10, Zenon DEF Next, Shutdown, PhaseStep

\* A client that was told OK by PayOrder, CancelOrder or RefundOrder, at once or
\* from the record, has a saga that was started, as long as every stop waited
\* for the running calls (runSagaAsync, OrderService.Shutdown, app.go).
THEOREM AcceptedRequestsAreStarted == Spec => []OrderlyAcceptedIsStarted
<1> DEFINE I == Inv /\ Answers /\ Accepted
<1>1. Init => I
  <2> SUFFICES ASSUME Init PROVE Answers /\ Accepted
    BY Initially, Zenon
  <2>1. \A r \in Rpc : rpc[r].pc = "idle" /\ ~Begun(r)
    BY Zenon DEF Init, Idle, Begun
  <2>2. \A k \in Key : record[k].status = "none"
    BY Zenon DEF Init, None
  <2>3. Answers
    BY <2>1, Zenon DEF Answers, Mine, Settled, Agreed, Marking, Live, Told, At, InFlight
  <2>4. Drained /\ Fresh /\ Dispatched /\ Recorded /\ OrderlyAcceptedIsStarted
    BY <2>1, <2>2, Zenon DEF Init, Drained, Fresh, Dispatched, Recorded,
       OrderlyAcceptedIsStarted, Owes, At
  <2> QED  BY <2>3, <2>4, Zenon DEF Accepted
<1>2. I /\ [Next]_vars => I'
  BY Inductive, AnswersInductive, AcceptedInductive, Zenon
<1>3. I => OrderlyAcceptedIsStarted
  BY Zenon DEF Accepted
<1> QED  BY <1>1, <1>2, <1>3, PTL DEF Spec

=============================================================================
