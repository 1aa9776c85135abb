-------------------------- MODULE OrderStoreProofs --------------------------
(***************************************************************************)
(* A proof that the PostgreSQL order repository implements what the memory *)
(* repository promises, for any number of orders, calls and connections.   *)
(* A Create or Save takes effect when it commits, so what its statement    *)
(* found must still be true then: that is the inductive invariant, and the *)
(* row lock of the statement is what keeps it.                             *)
(***************************************************************************)
EXTENDS OrderStore, TLAPS

Answer == {"ok", "conflict"} \cup Int \cup [Id -> Int]

\* A call that has not taken effect, and one that has.
Pending == [pc : {"wait", "run", "wrote"}, conns : Int, req : Repo!Request]

Applied ==
  [pc : {"load", "items", "reply"}, conns : Int, req : Repo!Request, answer : Answer, todo : SUBSET Id]

Ended == [pc : {"idle", "returned", "failed"}, conns : Int]

Types == table \in [Id -> Int] /\ call \in [Call -> Ended \cup Pending \cup Applied]

\* An open transaction has the only row of its order, and the order is still
\* as its statement found it.
Locks ==
  \A c \in Call : call[c].pc = "wrote" =>
    /\ call[c].req.op \in {"create", "save"}
    /\ table[call[c].req.id] = IF call[c].req.op = "create" THEN None ELSE call[c].req.version
    /\ \A d \in Call \ {c} : call[d].pc = "wrote" => call[d].req.id # call[c].req.id

Inv == Types /\ Locks

\* The calls as the memory repository sees them.
Seen == [c \in Call |-> Phase(call[c])]

-----------------------------------------------------------------------------

\* What a request of the repository interface is made of.
LEMMA RequestFact ==
  ASSUME NEW q \in Repo!Request
  PROVE  /\ q.op \in {"create", "get", "save", "list"}
         /\ q.op # "list" => q.id \in Id
         /\ q.op = "save" => q.version \in Nat
BY OrderStoreAssumption DEF Repo!Request, Repo!Version

\* What a call of the detailed module is in the abstract one, by its place.
LEMMA PhaseFact ==
  /\ \A k \in Ended : Phase(k) = [phase |-> k.pc]
  /\ \A k \in Pending : Phase(k) = [phase |-> "pending", req |-> k.req]
  /\ \A k \in Applied : Phase(k) = [phase |-> "applied", req |-> k.req, answer |-> k.answer]
BY DEF Phase, Ended, Pending, Applied

\* Where a call is tells its record.
LEMMA KindFact ==
  ASSUME Types, NEW c \in Call
  PROVE  /\ call[c].pc \in {"idle", "returned", "failed"} => call[c] \in Ended
         /\ call[c].pc \in {"wait", "run", "wrote"} => call[c] \in Pending
         /\ call[c].pc \in {"load", "items", "reply"} => call[c] \in Applied
         /\ call[c].pc \in {"idle", "returned", "failed", "wait", "run", "wrote", "load", "items", "reply"}
BY DEF Types, Ended, Pending, Applied

\* A step of one call.
LEMMA OneCall ==
  ASSUME Types, NEW c \in Call, NEW k \in Ended \cup Pending \cup Applied,
         call' = [call EXCEPT ![c] = k]
  PROVE  /\ call' \in [Call -> Ended \cup Pending \cup Applied]
         /\ call'[c] = k /\ \A d \in Call \ {c} : call'[d] = call[d]
         /\ Seen' = [Seen EXCEPT ![c] = Phase(k)]
         /\ Seen[c] = Phase(call[c])
<1>1. /\ call' \in [Call -> Ended \cup Pending \cup Applied]
      /\ call'[c] = k /\ \A d \in Call \ {c} : call'[d] = call[d]
  BY DEF Types
<1>2. Seen' = [d \in Call |-> IF d = c THEN Phase(k) ELSE Phase(call[d])]
  BY <1>1 DEF Seen
<1>3. [Seen EXCEPT ![c] = Phase(k)] = [d \in Call |-> IF d = c THEN Phase(k) ELSE Phase(call[d])]
  BY DEF Seen
<1> QED BY <1>1, <1>2, <1>3 DEF Seen

\* A call that has no row leaves the others with theirs.
LEMMA KeepsLocks ==
  ASSUME Inv, NEW c \in Call, UNCHANGED table,
         \A d \in Call \ {c} : call'[d] = call[d], call'[c].pc # "wrote"
  PROVE  Locks'
BY DEF Inv, Locks

-----------------------------------------------------------------------------

\* Every step keeps the invariant and is a step of the memory repository, or
\* changes nothing it can see.
LEMMA StepRefines ==
  ASSUME Inv, Next PROVE Inv' /\ [Repo!Next]_(Repo!repoVars)
<1>a. Types /\ Locks
  BY DEF Inv
<1>b. PICK c \in Call : (\E req \in Repo!Request : Ask(c, req)) \/ Statement(c) \/ Timeout(c)
  BY DEF Next
<1>c. ASSUME Seen' = Seen, UNCHANGED table PROVE [Repo!Next]_(Repo!repoVars)
  BY <1>c DEF Repo!repoVars, Seen
<1>d. ASSUME \/ \E req \in Repo!Request : Repo!Ask(c, req)
             \/ Repo!Apply(c) \/ Repo!Return(c) \/ Repo!Fail(c)
      PROVE  [Repo!Next]_(Repo!repoVars)
  BY <1>d DEF Repo!Next
\* A call gets its connection, its row, or the items of an order: nothing is
\* seen of it.
<1>e. ASSUME NEW k \in Ended \cup Pending \cup Applied, call' = [call EXCEPT ![c] = k],
             Phase(k) = Phase(call[c]), UNCHANGED table
      PROVE  [Repo!Next]_(Repo!repoVars)
  <2>1. Seen' = [Seen EXCEPT ![c] = Phase(call[c])] /\ Seen[c] = Phase(call[c])
    BY <1>a, <1>e, OneCall
  <2>2. Seen' = Seen
    BY <2>1 DEF Seen
  <2> QED BY <1>c, <1>e, <2>2
\* A call that takes effect, returns or fails, and holds no row afterwards.
<1>f. ASSUME NEW k \in Ended \cup Pending \cup Applied, call' = [call EXCEPT ![c] = k],
             k.pc # "wrote", UNCHANGED table
      PROVE  Inv'
  <2>1. /\ call' \in [Call -> Ended \cup Pending \cup Applied]
        /\ call'[c] = k /\ \A d \in Call \ {c} : call'[d] = call[d]
    BY <1>a, <1>f, OneCall
  <2>2. Locks'
    BY <1>f, <2>1, KeepsLocks
  <2> QED BY <1>a, <1>f, <2>1, <2>2 DEF Inv, Types
<1>g. \A x : {"ok", "conflict"} \subseteq Answer /\ (x \in Int => x \in Answer) /\ table \in Answer
  BY <1>a DEF Answer, Types
\* The answer of a call that runs.
<1>h. ASSUME call[c].pc \in {"run", "wrote"}, NEW answer \in Answer, NEW pc \in {"load", "items", "reply"},
             NEW n \in Int, NEW todo \in SUBSET Id, Knows(c, answer, pc, n, todo)
      PROVE  /\ Seen' = [Seen EXCEPT ![c] = [phase |-> "applied", req |-> Seen[c].req, answer |-> answer]]
             /\ Seen[c].phase = "pending" /\ Seen[c].req = call[c].req
             /\ call' \in [Call -> Ended \cup Pending \cup Applied]
             /\ call'[c].pc = pc /\ \A d \in Call \ {c} : call'[d] = call[d]
  <2> DEFINE k == [pc |-> pc, conns |-> n, req |-> call[c].req, answer |-> answer, todo |-> todo]
  <2>1. call[c] \in Pending
    BY <1>a, <1>h, KindFact
  <2>2. k \in Applied /\ k.pc = pc /\ k.req = call[c].req /\ k.answer = answer
    BY <2>1 DEF Pending, Applied
  <2>3. Phase(k) = [phase |-> "applied", req |-> call[c].req, answer |-> answer]
    BY <2>2, PhaseFact
  <2>4. Phase(call[c]) = [phase |-> "pending", req |-> call[c].req]
    BY <2>1, PhaseFact
  <2>5. call' = [call EXCEPT ![c] = k]
    BY <1>h DEF Knows
  <2> HIDE DEF k
  <2>6. /\ call' \in [Call -> Ended \cup Pending \cup Applied]
        /\ call'[c] = k /\ \A d \in Call \ {c} : call'[d] = call[d]
        /\ Seen' = [Seen EXCEPT ![c] = Phase(k)] /\ Seen[c] = Phase(call[c])
    BY <1>a, <2>2, <2>5, OneCall
  <2> QED BY <2>2, <2>3, <2>4, <2>6
<1>i. ASSUME call[c].pc = "run" PROVE call[c] \in Pending /\ call[c].req \in Repo!Request
  <2>1. call[c] \in Pending
    BY <1>a, <1>i, KindFact
  <2> QED BY <2>1 DEF Pending
<1>1. ASSUME NEW req \in Repo!Request, Ask(c, req) PROVE Inv' /\ [Repo!Next]_(Repo!repoVars)
  <2> DEFINE k == [pc |-> "wait", conns |-> 0, req |-> req]
  <2>1. k \in Pending /\ k.pc = "wait" /\ k.req = req
    BY DEF Pending
  <2>2. /\ call' = [call EXCEPT ![c] = k] /\ UNCHANGED table
        /\ call[c] = Idle /\ Repo!MayAsk(req, table)
    BY <1>1 DEF Ask
  <2> HIDE DEF k
  <2>3. Phase(k) = [phase |-> "pending", req |-> req]
    BY <2>1, PhaseFact
  <2>4. Phase(call[c]) = [phase |-> "idle"]
    <3>1. Idle \in Ended /\ Idle.pc = "idle"
      BY DEF Idle, Ended
    <3> QED BY <2>2, <3>1, PhaseFact
  <2>5. Seen' = [Seen EXCEPT ![c] = [phase |-> "pending", req |-> req]] /\ Seen[c] = [phase |-> "idle"]
    BY <1>a, <2>1, <2>2, <2>3, <2>4, OneCall
  <2>6. Repo!Ask(c, req)
    BY <2>2, <2>5 DEF Repo!Ask, Repo!Idle, Seen
  <2> QED BY <1>1, <1>d, <1>f, <2>1, <2>2, <2>6
<1>2. CASE Connect(c)
  <2>1. call[c] \in Pending
    BY <1>2, <1>a, KindFact DEF Connect
  <2>2. PICK one \in Int : one = 1
    OBVIOUS
  <2> DEFINE k == [call[c] EXCEPT !.pc = "run", !.conns = one]
  <2>3. k \in Pending /\ k.pc = "run" /\ k.req = call[c].req
    BY <2>1 DEF Pending
  <2>4. call' = [call EXCEPT ![c] = k] /\ UNCHANGED table
    BY <1>2, <2>2 DEF Connect
  <2> HIDE DEF k
  <2>5. Phase(k) = Phase(call[c])
    BY <2>1, <2>3, PhaseFact
  <2> QED BY <1>e, <1>f, <2>3, <2>4, <2>5
\* Insert and Update: a conflict is seen, a row that was written is not.
<1>3. ASSUME call[c].pc = "run", call[c].req.op \in {"create", "save"}, RowFree(c), UNCHANGED table,
             NEW want, want = IF call[c].req.op = "create" THEN None ELSE call[c].req.version,
             IF table[call[c].req.id] # want THEN Knows(c, "conflict", "reply", 1, {})
             ELSE call' = [call EXCEPT ![c].pc = "wrote"]
      PROVE  Inv' /\ [Repo!Next]_(Repo!repoVars)
  <2>1. CASE table[call[c].req.id] # want
    <3>1. Knows(c, "conflict", "reply", 1, {})
      BY <1>3, <2>1
    <3>2. /\ Seen' = [Seen EXCEPT ![c] = [phase |-> "applied", req |-> Seen[c].req, answer |-> "conflict"]]
          /\ Seen[c].phase = "pending" /\ Seen[c].req = call[c].req
          /\ call' \in [Call -> Ended \cup Pending \cup Applied]
          /\ call'[c].pc = "reply" /\ \A d \in Call \ {c} : call'[d] = call[d]
      BY <1>3, <1>g, <1>h, <3>1
    <3>3. Repo!Apply(c)
      <4>1. CASE call[c].req.op = "create"
        BY <1>3, <2>1, <3>2, <4>1 DEF Repo!Apply, Repo!Create, Repo!Applied, Repo!None, None, Seen
      <4>2. CASE call[c].req.op = "save"
        BY <1>3, <2>1, <3>2, <4>2 DEF Repo!Apply, Repo!Save, Repo!Applied, Seen
      <4> QED BY <1>3, <4>1, <4>2
    <3>4. Inv'
      BY <1>3, <1>a, <3>2, KeepsLocks DEF Inv, Types
    <3> QED BY <1>d, <3>3, <3>4
  <2>2. CASE table[call[c].req.id] = want
    <3> DEFINE k == [call[c] EXCEPT !.pc = "wrote"]
    <3>1. call' = [call EXCEPT ![c] = k]
      BY <1>3, <2>2
    <3>2. k \in Pending /\ k.pc = "wrote" /\ k.req = call[c].req /\ call[c] \in Pending
      BY <1>3, <1>i DEF Pending
    <3> HIDE DEF k
    <3>3. Phase(k) = Phase(call[c])
      BY <3>2, PhaseFact
    <3>4. /\ call' \in [Call -> Ended \cup Pending \cup Applied]
          /\ call'[c] = k /\ \A d \in Call \ {c} : call'[d] = call[d]
      BY <1>a, <3>1, <3>2, OneCall
    <3>5. Locks'
      BY <1>3, <1>a, <2>2, <3>2, <3>4 DEF Locks, RowFree
    <3> QED BY <1>3, <1>a, <1>e, <3>1, <3>2, <3>3, <3>4, <3>5 DEF Inv, Types
  <2> QED BY <2>1, <2>2
<1>4. CASE Insert(c)
  <2>1. call[c].pc = "run" /\ call[c].req.op = "create" /\ RowFree(c) /\ UNCHANGED table
        /\ IF table[call[c].req.id] # None THEN Knows(c, "conflict", "reply", 1, {})
           ELSE call' = [call EXCEPT ![c].pc = "wrote"]
    BY <1>4 DEF Insert, Running
  <2> QED BY <1>3, <2>1
<1>5. CASE Update(c)
  <2>1. call[c].pc = "run" /\ call[c].req.op = "save" /\ RowFree(c) /\ UNCHANGED table
        /\ IF table[call[c].req.id] # call[c].req.version THEN Knows(c, "conflict", "reply", 1, {})
           ELSE call' = [call EXCEPT ![c].pc = "wrote"]
    BY <1>5 DEF Update, Running
  <2> QED BY <1>3, <2>1
<1>6. CASE Commit(c)
  <2> DEFINE i == call[c].req.id
  <2>1. call[c].pc = "wrote" /\ Knows(c, "ok", "reply", 0, {})
        /\ table' = [table EXCEPT ![i] = IF call[c].req.op = "save" THEN @ + 1 ELSE 0]
    BY <1>6 DEF Commit
  <2>2. call[c] \in Pending
    BY <1>a, <2>1, KindFact
  <2>3. call[c].req \in Repo!Request
    BY <2>2 DEF Pending
  <2>4. /\ call[c].req.op \in {"create", "save"} /\ i \in Id
        /\ table[i] = IF call[c].req.op = "create" THEN None ELSE call[c].req.version
        /\ \A d \in Call \ {c} : call[d].pc = "wrote" => call[d].req.id # i
        /\ call[c].req.op = "save" => call[c].req.version \in Nat
    BY <1>a, <2>1, <2>3, RequestFact DEF Locks
  <2>5. /\ Seen' = [Seen EXCEPT ![c] = [phase |-> "applied", req |-> Seen[c].req, answer |-> "ok"]]
        /\ Seen[c].phase = "pending" /\ Seen[c].req = call[c].req
        /\ call' \in [Call -> Ended \cup Pending \cup Applied]
        /\ call'[c].pc = "reply" /\ \A d \in Call \ {c} : call'[d] = call[d]
    BY <1>g, <1>h, <2>1
  <2> HIDE DEF i
  <2>6. PICK n \in Int : /\ n = IF call[c].req.op = "save" THEN table[i] + 1 ELSE 0
                         /\ table' = [table EXCEPT ![i] = n]
    <3> DEFINE n == IF call[c].req.op = "save" THEN table[i] + 1 ELSE 0
    <3>1. table[i] \in Int
      BY <1>a, <2>4 DEF Types
    <3>2. n \in Int
      BY <3>1
    <3>3. table' = [table EXCEPT ![i] = n]
      BY <2>1
    <3> QED BY <3>2, <3>3
  <2>7. table' \in [Id -> Int] /\ \A j \in Id : j # i => table'[j] = table[j]
    BY <1>a, <2>4, <2>6 DEF Types
  <2>8. Locks'
    <3> SUFFICES ASSUME NEW d \in Call, call'[d].pc = "wrote"
        PROVE  /\ call'[d].req.op \in {"create", "save"}
               /\ table'[call'[d].req.id] = IF call'[d].req.op = "create" THEN None ELSE call'[d].req.version
               /\ \A e \in Call \ {d} : call'[e].pc = "wrote" => call'[e].req.id # call'[d].req.id
      BY DEF Locks
    <3>1. d # c /\ call'[d] = call[d] /\ call[d].req.id # i
      BY <2>4, <2>5
    <3>2. call[d] \in Pending /\ call[d].req.op \in {"create", "save"}
      BY <1>a, <3>1, KindFact DEF Locks
    <3>3. call[d].req \in Repo!Request
      BY <3>2 DEF Pending
    <3>4. call[d].req.id \in Id
      BY <3>2, <3>3, RequestFact
    <3> QED BY <1>a, <2>5, <2>7, <3>1, <3>4 DEF Locks
  <2>9. Repo!Apply(c)
    <3>1. CASE call[c].req.op = "create"
      BY <2>4, <2>5, <2>6, <3>1 DEF Repo!Apply, Repo!Create, Repo!Applied, Repo!None, None, Seen, i
    <3>2. CASE call[c].req.op = "save"
      <4>1. table[i] = call[c].req.version /\ n = call[c].req.version + 1
        BY <2>4, <2>6, <3>2
      <4> QED
        BY <2>5, <2>6, <3>2, <4>1 DEF Repo!Apply, Repo!Save, Repo!Applied, Seen, i
    <3> QED BY <2>4, <3>1, <3>2
  <2> QED BY <1>d, <2>5, <2>7, <2>8, <2>9 DEF Inv, Types
\* SelectOrder and SelectOrders: what they find is their answer.
<1>7. CASE SelectOrder(c)
  <2> DEFINE v == table[call[c].req.id]
  <2>1. /\ call[c].pc = "run" /\ call[c].req.op = "get" /\ UNCHANGED table
        /\ Knows(c, v, IF v = None THEN "reply" ELSE "load", 0, IF v = None THEN {} ELSE {call[c].req.id})
    BY <1>7 DEF SelectOrder, Running
  <2>2. call[c].req.id \in Id
    BY <1>i, <2>1, RequestFact
  <2>3. v \in Answer
    BY <1>a, <1>g, <2>2 DEF Types
  <2>4. PICK pc \in {"reply", "load"}, todo \in SUBSET Id : Knows(c, v, pc, 0, todo)
    BY <2>1, <2>2
  <2> HIDE DEF v
  <2>5. /\ Seen' = [Seen EXCEPT ![c] = [phase |-> "applied", req |-> Seen[c].req, answer |-> v]]
        /\ Seen[c].phase = "pending" /\ Seen[c].req = call[c].req
        /\ call' \in [Call -> Ended \cup Pending \cup Applied]
        /\ call'[c].pc = pc /\ \A d \in Call \ {c} : call'[d] = call[d]
    BY <1>h, <2>1, <2>3, <2>4
  <2>6. Repo!Apply(c)
    BY <2>1, <2>5 DEF Repo!Apply, Repo!Get, Repo!Applied, Seen, v
  <2>7. Inv'
    BY <1>a, <2>1, <2>5, KeepsLocks DEF Inv, Types
  <2> QED BY <1>d, <2>6, <2>7
<1>8. CASE SelectOrders(c)
  <2>1. /\ call[c].pc = "run" /\ call[c].req.op = "list" /\ UNCHANGED table
        /\ \E pc \in {"reply", "load"}, todo \in SUBSET Id : Knows(c, table, pc, 1, todo)
    BY <1>8 DEF SelectOrders, Running
  <2>2. PICK pc \in {"reply", "load"}, todo \in SUBSET Id : Knows(c, table, pc, 1, todo)
    BY <2>1
  <2>3. /\ Seen' = [Seen EXCEPT ![c] = [phase |-> "applied", req |-> Seen[c].req, answer |-> table]]
        /\ Seen[c].phase = "pending" /\ Seen[c].req = call[c].req
        /\ call' \in [Call -> Ended \cup Pending \cup Applied]
        /\ call'[c].pc = pc /\ \A d \in Call \ {c} : call'[d] = call[d]
    BY <1>g, <1>h, <2>1, <2>2
  <2>4. Repo!Apply(c)
    BY <2>1, <2>3 DEF Repo!Apply, Repo!ListByCustomer, Repo!Applied, Seen
  <2>5. Inv'
    BY <1>a, <2>1, <2>3, KeepsLocks DEF Inv, Types
  <2> QED BY <1>d, <2>4, <2>5
<1>9. CASE ConnectForItems(c) \/ LoadItems(c)
  <2>1. call[c] \in Applied
    BY <1>9, <1>a, KindFact DEF ConnectForItems, LoadItems
  <2>2. PICK k \in Applied : call' = [call EXCEPT ![c] = k] /\ k.req = call[c].req /\ k.answer = call[c].answer
    <3>1. CASE ConnectForItems(c)
      <4>1. PICK n \in Int : n = call[c].conns + 1
        BY <2>1 DEF Applied
      <4> DEFINE k == [call[c] EXCEPT !.pc = "items", !.conns = n]
      <4>2. k \in Applied
        BY <2>1 DEF Applied
      <4>3. k.req = call[c].req /\ k.answer = call[c].answer
        BY <2>1 DEF Applied
      <4>4. call' = [call EXCEPT ![c] = k]
        BY <3>1, <4>1 DEF ConnectForItems
      <4> QED BY <4>2, <4>3, <4>4
    <3>2. CASE LoadItems(c)
      <4>1. PICK i \in call[c].todo :
              LET left == call[c].todo \ {i}
              IN  Knows(c, call[c].answer, IF left = {} THEN "reply" ELSE "load", call[c].conns - 1, left)
        BY <3>2 DEF LoadItems
      <4>2. PICK left \in SUBSET Id, n \in Int : left = call[c].todo \ {i} /\ n = call[c].conns - 1
        <5>1. call[c].todo \in SUBSET Id /\ call[c].conns \in Int
          BY <2>1 DEF Applied
        <5>2. call[c].todo \ {i} \in SUBSET Id /\ call[c].conns - 1 \in Int
          BY <5>1
        <5> QED BY <5>2
      <4>3. PICK pc \in {"reply", "load"} : Knows(c, call[c].answer, pc, n, left)
        BY <4>1, <4>2
      <4> DEFINE k == [pc |-> pc, conns |-> n, req |-> call[c].req, answer |-> call[c].answer, todo |-> left]
      <4>4. k \in Applied
        BY <2>1 DEF Applied
      <4>5. call' = [call EXCEPT ![c] = k]
        BY <4>3 DEF Knows
      <4> QED BY <4>4, <4>5
    <3> QED BY <1>9, <3>1, <3>2
  <2>3. Phase(k) = Phase(call[c]) /\ k.pc # "wrote"
    BY <2>1, <2>2, PhaseFact DEF Applied
  <2> QED BY <1>9, <1>e, <1>f, <2>2, <2>3 DEF ConnectForItems, LoadItems
<1>10. CASE Reply(c) \/ Timeout(c)
  <2>1. PICK pc \in {"returned", "failed"} :
          /\ call' = [call EXCEPT ![c] = [Idle EXCEPT !.pc = pc]] /\ UNCHANGED table
          /\ pc = "returned" => call[c].pc = "reply"
          /\ pc = "failed" => call[c].pc \notin {"idle", "returned", "failed"}
    BY <1>10 DEF Reply, Timeout
  <2> DEFINE k == [Idle EXCEPT !.pc = pc]
  <2>2. k \in Ended /\ k.pc = pc
    BY DEF Idle, Ended
  <2>3. call' = [call EXCEPT ![c] = k]
    BY <2>1
  <2> HIDE DEF k
  <2>4. Seen' = [Seen EXCEPT ![c] = [phase |-> pc]] /\ Seen[c] = Phase(call[c])
    <3>1. Seen' = [Seen EXCEPT ![c] = Phase(k)] /\ Seen[c] = Phase(call[c])
      BY <1>a, <2>2, <2>3, OneCall
    <3>2. Phase(k) = [phase |-> pc]
      BY <2>2, PhaseFact
    <3> QED BY <3>1, <3>2
  <2>5. /\ pc = "returned" => Phase(call[c]).phase = "applied"
        /\ pc = "failed" => Phase(call[c]).phase \in {"pending", "applied"}
    BY <1>a, <2>1, KindFact, PhaseFact
  <2>6. Repo!Return(c) \/ Repo!Fail(c)
    BY <2>1, <2>4, <2>5 DEF Repo!Return, Repo!Fail, Seen
  <2> QED BY <1>d, <1>f, <2>1, <2>2, <2>3, <2>6
<1> QED
  BY <1>b, <1>1, <1>2, <1>4, <1>5, <1>6, <1>7, <1>8, <1>9, <1>10 DEF Statement

\* The PostgreSQL repository implements the memory repository: calls take
\* effect one at a time, of two saves of a version one wins, and whatever a
\* call returns is what the orders were at one moment of the call.
THEOREM StoreImplementsMemory == Spec => ImplementsMemory
<1>1. Init => Inv
  <2> SUFFICES ASSUME Init PROVE Inv
    OBVIOUS
  <2>1. Idle \in Ended /\ Idle.pc = "idle"
    BY DEF Idle, Ended
  <2> QED BY <2>1 DEF Init, Inv, Types, Locks, None
<1>2. Init => Repo!Init
  <2>1. Phase(Idle) = [phase |-> "idle"]
    BY DEF Idle, Phase
  <2> QED BY <2>1 DEF Init, Repo!Init, Repo!Idle, Repo!None, None
<1>3. Inv /\ [Next]_vars => Inv' /\ [Repo!Next]_(Repo!repoVars)
  <2>1. ASSUME Inv, UNCHANGED vars PROVE Inv' /\ UNCHANGED Repo!repoVars
    BY <2>1 DEF vars, Inv, Types, Locks, Repo!repoVars
  <2> QED BY <2>1, StepRefines
<1> QED BY <1>1, <1>2, <1>3, PTL DEF Spec, ImplementsMemory, Repo!Spec

=============================================================================
