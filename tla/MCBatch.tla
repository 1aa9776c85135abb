------------------------------ MODULE MCBatch -------------------------------
(* An instance of Batch for TLC.                                           *)
EXTENDS Batch

MCKindOf == [o \in Op |-> IF o = "c1" THEN "cancel" ELSE "start"]

=============================================================================
