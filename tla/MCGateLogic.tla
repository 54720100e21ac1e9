------------------------------ MODULE MCGateLogic ------------------------------
(***************************************************************************)
(* A small instance of GateLogic: a Logic and two connections, the second  *)
(* of which may log in as the user of the first.                           *)
(***************************************************************************)
EXTENDS GateLogic, TLC

CONSTANTS l1, u1, u2

Verify == [kind |-> "verify", uid |-> 0]
Login(u) == [kind |-> "login", uid |-> u]
Act(u) == [kind |-> "dosth", uid |-> u]

Clients == (l1 :> {Verify}) @@ (u1 :> {Login(1), Act(1)})
           @@ (u2 :> {Login(1), Login(2)})
(* The instance is one the theorems of GateProofs are about.               *)
ASSUME Premises == KnownFrames /\ OneLogic /\ UsersSay

Sends == (l1 :> 1) @@ (u1 :> 2) @@ (u2 :> 1)
=============================================================================
