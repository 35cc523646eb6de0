--------------------------- MODULE MCTransactions ---------------------------
(***************************************************************************)
(* One key and four connections for Transactions.                         *)
(***************************************************************************)
EXTENDS Transactions

CONSTANTS k1, b1, b2, b3, b4
=============================================================================
