------------------------------- MODULE MCSaga -------------------------------
(* Instances of Saga for TLC.                                              *)
EXTENDS Saga

CONSTANTS c1, c2, c3, c4

=============================================================================
