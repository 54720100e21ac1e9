------------------------------- MODULE MCFraming -------------------------------
(***************************************************************************)
(* A small instance of Framing: buffers of eight bytes, and messages that  *)
(* meet every case: whole, cut by a zero byte, as long as the LineBuffer,  *)
(* too short, too long, unknown, longer than the one before it.            *)
(***************************************************************************)
EXTENDS Framing

CONSTANTS c1, c2

Msg(id, uid, fields) == [id |-> id, uid |-> uid, fields |-> fields]
a == 97
Verify == Msg(3, 0, <<<<a, a>>>>)
Offline == Msg(8, 300, <<300>>)
DoSth == Msg(9, 300, <<7, <<10, 1, a>>>>)   \* reads like a field inside
Fills == Msg(9, 7, <<7, <<a, a, a, a>>>>)
Zero == Msg(9, 7, <<0, <<a>>>>)
EmptyName == Msg(2, 0, <<<<>>, <<a>>>>)
CutName == Msg(1, 0, <<<<a, 0, a>>, <<a>>>>)
Refused == Msg(4, 0, <<FALSE, -1>>)
Unset == Msg(9, 7, <<>>)
TooLong == Msg(3, 0, <<[i \in 1 .. 15 |-> a]>>)
Unknown == Msg(12, 0, <<a, a>>)

(* One connection gets two messages, each kind in front of another and     *)
(* behind another, and may end behind them; another connection may get a   *)
(* message meanwhile.                                                      *)
Peer(s1, s2, e) ==
  [sent |-> (c1 :> s1) @@ (c2 :> s2), ended |-> (c1 :> e) @@ (c2 :> FALSE)]
Kinds == {DoSth, Fills, Zero, EmptyName, CutName, Refused, Unset, TooLong, Unknown}
MCPeers ==
  {Peer(<<m, Verify>>, <<>>, FALSE) : m \in Kinds}
  \cup {Peer(<<DoSth, m>>, <<>>, TRUE) : m \in {Fills, Unset}}
  \cup {Peer(<<DoSth, Verify>>, <<Offline>>, e) : e \in BOOLEAN}
MCJunk == {<<>>, <<8, 5>>, <<33>>}
=============================================================================
