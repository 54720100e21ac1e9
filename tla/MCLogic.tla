-------------------------------- MODULE MCLogic -------------------------------
(***************************************************************************)
(* A small instance of LogicServer: one user, whose answers are told apart *)
(* by what it asked for.                                                   *)
(***************************************************************************)
EXTENDS LogicServer

VerifyRsp == [kind |-> "verifyrsp", uid |-> 0, sth |-> "a"]
Online(u) == [kind |-> "online", uid |-> u, sth |-> "a"]
Offline(u) == [kind |-> "offline", uid |-> u, sth |-> "a"]
Dosth(u, s) == [kind |-> "dosth", uid |-> u, sth |-> s]
Other(u) == [kind |-> "other", uid |-> u, sth |-> "a"]

(* What a user's connection can make the Gate forward, also before it is   *)
(* online and after, and the Gate's own answer.                            *)
OneUser == {VerifyRsp, Online(1), Offline(1), Dosth(1, "a"), Dosth(1, "b"),
            Other(1)}
=============================================================================
