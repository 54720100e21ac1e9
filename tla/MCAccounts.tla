------------------------------- MODULE MCAccounts -------------------------------
(***************************************************************************)
(* A small instance of Accounts: two names and two passwords.              *)
(***************************************************************************)
EXTENDS Accounts

CONSTANTS n1, n2, p1, p2
=============================================================================
