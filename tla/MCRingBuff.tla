------------------------------ MODULE MCRingBuff ------------------------------
(* Small instance of RingBuff: a buffer that starts at two bytes, doubles   *)
(* to four and then grows by two, under strings of one to three bytes.      *)
EXTENDS RingBuff

MCByte == 0 .. 2
MCData == {<<1>>, <<2, 1>>, <<1, 2, 2>>}
MCSizes == {0, 1, 2}
=============================================================================
