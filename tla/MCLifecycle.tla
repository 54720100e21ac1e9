------------------------------ MODULE MCLifecycle ------------------------------
(***************************************************************************)
(* A small instance of Lifecycle: two users, and seven numbers, one less   *)
(* than there may be descriptors at a time.                                *)
(***************************************************************************)
EXTENDS Lifecycle

CONSTANTS u1, u2
=============================================================================
