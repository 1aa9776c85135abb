--------------------------- MODULE MCOrderService ---------------------------
(* Instances of OrderService for TLC.                                      *)
EXTENDS OrderService

\* Requests: an order, an order whose amount wraps around to a negative one, and
\* the three calls that start a saga.
MCPayload ==
  {[method |-> "CreateOrder", items |-> <<[qty |-> 2, price |-> 3]>>],
   [method |-> "CreateOrder", items |-> <<[qty |-> 3, price |-> 3]>>],
   [method |-> "PayOrder", order |-> "o1"],
   [method |-> "CancelOrder", order |-> "o1"],
   [method |-> "RefundOrder", order |-> "o1", amount |-> 1]}

=============================================================================
