---------------------------- MODULE OrderAmount -----------------------------
(***************************************************************************)
(* The amount of an order: what CreateOrder computes from the items of the *)
(* request (internal/service/grpc/order_service.go) and what               *)
(* ValidateInvariants (internal/domain/order.go) compares it with.  Both   *)
(* work in int64, which wraps around; IntLimit stands for 2^63.            *)
(***************************************************************************)
EXTENDS Integers, Sequences

CONSTANT IntLimit  \* int64 holds -IntLimit .. IntLimit - 1

ASSUME IntLimitAssumption == IntLimit \in Nat \ {0}

Int64(n) == ((n + IntLimit) % (2 * IntLimit)) - IntLimit

\* amountSum += int64(item.Qty) * item.Price.AmountMinor, item after item.
AmountSum(items) ==
  LET sum[n \in 0 .. Len(items)] ==
        IF n = 0 THEN 0 ELSE Int64(sum[n - 1] + Int64(items[n].qty * items[n].price))
  IN  sum[Len(items)]

\* The request's items pass the checks of the loop.
ItemsAccepted(items) ==
  /\ items # <<>>
  /\ \A i \in DOMAIN items : items[i].qty > 0 /\ items[i].price >= 0

ValidateInvariants(order) ==
  /\ order.items # <<>>
  /\ order.amount >= 0
  /\ \A i \in DOMAIN order.items : order.items[i].qty > 0 /\ order.items[i].price >= 0
  /\ AmountSum(order.items) = order.amount

=============================================================================
