----------------------------- MODULE OrderStore -----------------------------
(***************************************************************************)
(* The PostgreSQL implementation of OrderRepository                        *)
(* (internal/storage/postgres/order_repository.go) over the connection     *)
(* pool of store.go.  A call is a series of statements, each on a          *)
(* connection; it has opTimeout for all of them together.  Create and Save *)
(* are transactions at READ COMMITTED, Get and ListByCustomer are not.     *)
(* ListByCustomer keeps the connection of its open rows while it asks the  *)
(* pool for another one to load the items of each row.                     *)
(***************************************************************************)
EXTENDS Integers, FiniteSets, FiniteSetsExt

CONSTANTS Id, MaxCalls, MaxVersion,
          maxOpenConns  \* of the pool

ASSUME OrderStoreAssumption ==
  MaxCalls \in Nat /\ MaxVersion \in Nat /\ maxOpenConns \in Nat \ {0}

Call == 1 .. MaxCalls

VARIABLES
  table,  \* the committed orders: version, or None
  call    \* what each call does

vars == <<table, call>>

\* A call has taken effect once it knows its answer.
Phase(k) ==
  IF k.pc \in {"idle", "returned", "failed"} THEN [phase |-> k.pc]
  ELSE IF k.pc \in {"wait", "run", "wrote"} THEN [phase |-> "pending", req |-> k.req]
  ELSE [phase |-> "applied", req |-> k.req, answer |-> k.answer]

Repo == INSTANCE OrderRepo WITH items <- table, call <- [c \in Call |-> Phase(call[c])]

None == -1

\* conns: the connections a call holds.
Idle == [pc |-> "idle", conns |-> 0]

Init == table = [i \in Id |-> None] /\ call = [c \in Call |-> Idle]

-----------------------------------------------------------------------------
(* The pool.                                                               *)

Free == MapThenSumSet(LAMBDA c : call[c].conns, Call) < maxOpenConns

\* A call asks for its first connection.  Calls are numbered as they come.
Ask(c, req) ==
  /\ call[c] = Idle /\ Repo!MayAsk(req, table)
  /\ \A d \in Call : d < c => call[d] # Idle
  /\ call' = [call EXCEPT ![c] = [pc |-> "wait", conns |-> 0, req |-> req]]
  /\ UNCHANGED table

Connect(c) ==
  /\ call[c].pc = "wait" /\ Free
  /\ call' = [call EXCEPT ![c].pc = "run", ![c].conns = 1]
  /\ UNCHANGED table

\* The call knows its answer, and which orders' items it still has to load
\* (todo).
Knows(c, answer, pc, conns, todo) ==
  call' = [call EXCEPT ![c] =
             [pc |-> pc, conns |-> conns, req |-> call[c].req, answer |-> answer, todo |-> todo]]

-----------------------------------------------------------------------------
(* Create and Save.                                                        *)

\* Variant: a row written by an open transaction is not locked.
RowFreeAlways(c) == TRUE

\* No other transaction has written the row and is still open.
RowFree(c) ==
  \A d \in Call \ {c} : call[d].pc = "wrote" => call[d].req.id # call[c].req.id

Running(c, op) == call[c].pc = "run" /\ call[c].req.op = op

Insert(c) ==
  /\ Running(c, "create") /\ RowFree(c)
  /\ IF table[call[c].req.id] # None
     THEN Knows(c, "conflict", "reply", 1, {})
     ELSE call' = [call EXCEPT ![c].pc = "wrote"]
  /\ UNCHANGED table

\* UPDATE ... WHERE version = $7.  An order that was read exists, so
\* orderExistsTx finds it and Save returns ErrOrderVersionConflict.
Update(c) ==
  /\ Running(c, "save") /\ RowFree(c)
  /\ IF table[call[c].req.id] # call[c].req.version
     THEN Knows(c, "conflict", "reply", 1, {})
     ELSE call' = [call EXCEPT ![c].pc = "wrote"]
  /\ UNCHANGED table

Commit(c) ==
  /\ call[c].pc = "wrote"
  /\ table' = [table EXCEPT ![call[c].req.id] = IF call[c].req.op = "save" THEN @ + 1 ELSE 0]
  /\ Knows(c, "ok", "reply", 0, {})

-----------------------------------------------------------------------------
(* Get and ListByCustomer.                                                 *)

\* Scan gives the connection of the row back before the items are loaded.
SelectOrder(c) ==
  LET v == table[call[c].req.id]
  IN  /\ Running(c, "get")
      /\ Knows(c, v, IF v = None THEN "reply" ELSE "load", 0,
               IF v = None THEN {} ELSE {call[c].req.id})
      /\ UNCHANGED table

\* The rows stay open, and so does their connection.
SelectOrders(c) ==
  LET found == {i \in Id : table[i] # None}
  IN  /\ Running(c, "list")
      /\ Knows(c, table, IF found = {} THEN "reply" ELSE "load", 1, found)
      /\ UNCHANGED table

\* loadItems takes another connection,
ConnectForItems(c) ==
  /\ call[c].pc = "load" /\ Free
  /\ call' = [call EXCEPT ![c].pc = "items", ![c].conns = @ + 1]
  /\ UNCHANGED table

\* reads the items of an order and gives it back.
LoadItems(c) ==
  /\ call[c].pc = "items"
  /\ \E i \in call[c].todo :
       LET left == call[c].todo \ {i}
       IN  Knows(c, call[c].answer, IF left = {} THEN "reply" ELSE "load", call[c].conns - 1, left)
  /\ UNCHANGED table

-----------------------------------------------------------------------------

\* The call returns; rows are closed and an open transaction is rolled back
\* (by Rollback, or in Save after a conflict by the cancel of its context).
Reply(c) ==
  /\ call[c].pc = "reply"
  /\ call' = [call EXCEPT ![c] = [Idle EXCEPT !.pc = "returned"]]
  /\ UNCHANGED table

\* Variant: waiting for a connection has no timeout.
TimeoutWhenConnected(c) ==
  /\ call[c].pc \in {"run", "wrote", "items", "reply"}
  /\ call' = [call EXCEPT ![c] = [Idle EXCEPT !.pc = "failed"]]
  /\ UNCHANGED table

\* opTimeout, wherever the call is; a lost connection ends it the same way.
\* A commit whose answer is lost has been made.
Timeout(c) ==
  /\ call[c].pc \notin {"idle", "returned", "failed"}
  /\ call' = [call EXCEPT ![c] = [Idle EXCEPT !.pc = "failed"]]
  /\ UNCHANGED table

Statement(c) ==
  \/ Connect(c) \/ Insert(c) \/ Update(c) \/ Commit(c)
  \/ SelectOrder(c) \/ SelectOrders(c) \/ ConnectForItems(c) \/ LoadItems(c) \/ Reply(c)

Next ==
  \E c \in Call : (\E req \in Repo!Request : Ask(c, req)) \/ Statement(c) \/ Timeout(c)

Spec == Init /\ [][Next]_vars

\* A call that can go on, or whose context expires, does not stay where it is.
FairSpec == Spec /\ \A c \in Call : WF_vars(Statement(c) \/ Timeout(c))

-----------------------------------------------------------------------------
(* Properties.                                                             *)

TypeOK ==
  /\ table \in [Id -> None .. MaxVersion + 1]
  /\ \A c \in Call : call[c].conns \in 0 .. 2

\* PostgreSQL keeps the promise of the memory repository: calls take effect at
\* one moment each, of two saves of a version one wins, and an answer is what
\* the orders were at that moment.
ImplementsMemory == Repo!Spec

\* Every call returns and gives its connections back, also when every
\* connection is held by a list that waits for a second one.
CallsReturn ==
  []<>(\A c \in Call : call[c].pc \in {"idle", "returned", "failed"} /\ call[c].conns = 0)

=============================================================================
