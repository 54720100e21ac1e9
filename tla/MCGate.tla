-------------------------------- MODULE MCGate --------------------------------
(***************************************************************************)
(* Small instances of Gate: Logic connections l1 and l2, user connections  *)
(* u1 and u2, and who sends what.                                          *)
(***************************************************************************)
EXTENDS Gate, TLC

CONSTANTS l1, l2, u1, u2

Verify == [kind |-> "verify", uid |-> 0]
Register == [kind |-> "register", uid |-> 0]
Login(u) == [kind |-> "login", uid |-> u]
Act(u) == [kind |-> "dosth", uid |-> u]
ActRsp(u) == [kind |-> "dosthrsp", uid |-> u]
Unknown == [kind |-> "unknown", uid |-> 0]

(* A Logic that answers user 1, user 1, and user 2 behind it.              *)
TwoUsers == (l1 :> {Verify, ActRsp(1)}) @@ (u1 :> {Login(1), Act(1)})
            @@ (u2 :> {Login(2)})

(* A Logic and two users that need no answers; one logs in or sends a      *)
(* frame of an id the protocol does not know.                              *)
OneWay == (l1 :> {Verify}) @@ (u1 :> {Login(1), Act(1)}) @@ (u2 :> {Login(2), Unknown})

(* A second Logic takes the place of the first.                            *)
TwoLogics == (l1 :> {Verify}) @@ (l2 :> {Verify}) 
             @@ (u1 :> {Login(1), Register, Act(1)})

(* How many frames each may send: as many as there are kinds of them, or   *)
(* of u2's kinds one.                                                      *)
Once == [c \in Conns |-> Cardinality(ClientFrames[c])]
OnceOrOther == [Once EXCEPT ![u2] = 1]
=============================================================================
