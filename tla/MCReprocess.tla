---------------------------- MODULE MCReprocess -----------------------------
(* An instance of Reprocess for TLC. *)
EXTENDS Reprocess

\* Two partitions of the dead letter topic, and an event with an empty value.
MCPartitionOf == [e \in Event |-> IF e = "order" THEN 1 ELSE 0]

\* Counts that leave three tries and none; a replayed message has a count of 0.
MCRetryCount == {-1, 2}

=============================================================================
