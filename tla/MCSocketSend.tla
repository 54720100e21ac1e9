------------------------------ MODULE MCSocketSend ------------------------------
(***************************************************************************)
(* Three messages of one or three bytes, pieces of two, and a kernel that  *)
(* keeps three bytes: a message is sent in two calls, the last piece may   *)
(* be taken in part, and a message may find the kernel's buffer full.      *)
(***************************************************************************)
EXTENDS SocketSend
=============================================================================
