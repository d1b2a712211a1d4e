--------------------------- MODULE MCTransactions ---------------------------
(***************************************************************************)
(* Small instances of Transactions, with the students of MCBoibritto.      *)
(***************************************************************************)
EXTENDS Transactions, MCBoibritto

=============================================================================
