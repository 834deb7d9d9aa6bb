------------------------- MODULE MCExpenseLedger --------------------------
(* Small instances of ExpenseLedger for TLC. *)
EXTENDS ExpenseLedger
=============================================================================
