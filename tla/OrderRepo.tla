----------------------------- MODULE OrderRepo ------------------------------
(***************************************************************************)
(* What OrderRepository promises, read off the memory implementation       *)
(* (internal/storage/memory/order_repository.go): every call takes effect  *)
(* at one moment, under the mutex, and returns what it saw then.           *)
(* A storage that can fail may return an error instead, whether the call   *)
(* took effect or not.                                                     *)
(***************************************************************************)
EXTENDS Integers

CONSTANTS
  Id,          \* orders (all of one customer)
  Call,        \* calls of the repository
  MaxVersion   \* bound on versions

VARIABLES
  items,  \* the version of each order, or None
  call    \* what is known of each call

repoVars == <<items, call>>

None == -1

Version == 0 .. MaxVersion

Request ==
  [op : {"create", "get"}, id : Id, version : {0}]
    \cup [op : {"save"}, id : Id, version : Version]
    \cup {[op |-> "list", version |-> 0]}

\* No request and no answer yet.
Idle == [phase |-> "idle"]

Init == items = [i \in Id |-> None] /\ call = [c \in Call |-> Idle]

\* An order is saved by one who has read it (updateStatus and saveOrder have no
\* other source for the version), and no order is deleted, so that Save meets no
\* missing order.  The drivers differ outside of this condition: in PostgreSQL
\* the UPDATE and orderExistsTx are two statements, and an order created between
\* them is a version conflict for one who saves its first version.
MayAsk(req, known) == req.op = "save" => known[req.id] >= req.version

Ask(c, req) ==
  /\ call[c] = Idle /\ MayAsk(req, items)
  /\ call' = [call EXCEPT ![c] = [phase |-> "pending", req |-> req]]
  /\ UNCHANGED items

Applied(c, answer) ==
  call' = [call EXCEPT ![c] = [phase |-> "applied", req |-> call[c].req, answer |-> answer]]

\* The four operations.
Create(c) ==
  LET i == call[c].req.id
  IN  /\ call[c].req.op = "create"
      /\ IF items[i] # None THEN Applied(c, "conflict") /\ UNCHANGED items
         ELSE Applied(c, "ok") /\ items' = [items EXCEPT ![i] = 0]

Get(c) ==
  /\ call[c].req.op = "get"
  /\ Applied(c, items[call[c].req.id])
  /\ UNCHANGED items

ListByCustomer(c) ==
  /\ call[c].req.op = "list"
  /\ Applied(c, items)
  /\ UNCHANGED items

Save(c) ==
  LET i == call[c].req.id
      v == call[c].req.version
  IN  /\ call[c].req.op = "save"
      /\ IF items[i] # v THEN Applied(c, "conflict") /\ UNCHANGED items
         ELSE Applied(c, "ok") /\ items' = [items EXCEPT ![i] = v + 1]

Apply(c) ==
  /\ call[c].phase = "pending"
  /\ Create(c) \/ Get(c) \/ ListByCustomer(c) \/ Save(c)

Return(c) ==
  /\ call[c].phase = "applied"
  /\ call' = [call EXCEPT ![c] = [phase |-> "returned"]]
  /\ UNCHANGED items

Fail(c) ==
  /\ call[c].phase \in {"pending", "applied"}
  /\ call' = [call EXCEPT ![c] = [phase |-> "failed"]]
  /\ UNCHANGED items

Next == \E c \in Call : (\E req \in Request : Ask(c, req)) \/ Apply(c) \/ Return(c) \/ Fail(c)

Spec == Init /\ [][Next]_repoVars

=============================================================================
