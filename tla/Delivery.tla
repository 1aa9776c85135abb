------------------------------ MODULE Delivery ------------------------------
(***************************************************************************)
(* What the transactional outbox keeps to (docs/architecture/outbox.md):   *)
(* an accepted event is handed to the broker, to the event topic or to the *)
(* dead letter topic, at least once, and the outbox forgets it only then.  *)
(* There is one exception, which the document does not name: an event that *)
(* the dead letter topic refuses is forgotten too.                         *)
(***************************************************************************)
CONSTANT Msg

VARIABLES
  accepted,  \* events the outbox has taken
  out,       \* events that reached a topic of the broker
  refused,   \* events the dead letter topic refused
  closed     \* events the outbox does not try to publish any more

vars == <<accepted, out, refused, closed>>

Init == accepted = {} /\ out = {} /\ refused = {} /\ closed = {}

Accept(m) ==
  /\ m \notin accepted
  /\ accepted' = accepted \cup {m}
  /\ UNCHANGED <<out, refused, closed>>

HandOver(m) ==
  /\ m \in accepted
  /\ out' = out \cup {m}
  /\ UNCHANGED <<accepted, refused, closed>>

Refuse(m) ==
  /\ m \in accepted
  /\ refused' = refused \cup {m}
  /\ UNCHANGED <<accepted, out, closed>>

Close(m) ==
  /\ m \in out \cup refused
  /\ closed' = closed \cup {m}
  /\ UNCHANGED <<accepted, out, refused>>

Next == \E m \in Msg : Accept(m) \/ HandOver(m) \/ Refuse(m) \/ Close(m)

Spec == Init /\ [][Next]_vars

\* No accepted event is left lying.
Served == \A m \in Msg : m \in accepted ~> m \in closed

=============================================================================
