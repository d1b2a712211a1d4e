----------------------------- MODULE MCOverlaps ------------------------------
(***************************************************************************)
(* The small instances of MCBoibritto, with the overtaken goroutines       *)
(* recorded.                                                               *)
(***************************************************************************)
EXTENDS Overlaps, MCBoibritto

=============================================================================
