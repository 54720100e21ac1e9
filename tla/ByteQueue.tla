------------------------------ MODULE ByteQueue ------------------------------
(***************************************************************************)
(* What util/RingBuff promises its users (SocketNode's _rd_buff and        *)
(* _wt_buff, MsgCenter::parse_package): an unbounded FIFO queue of bytes.  *)
(* Every operation is one step here; ret is what the last one returned.    *)
(***************************************************************************)
EXTENDS Integers, Sequences

CONSTANTS
  Data,   (* the non-empty byte strings add_data is called with           *)
  Sizes   (* the lengths (naturals) the reading operations ask for        *)

VARIABLES
  q,      (* the bytes added and not yet deleted, oldest first            *)
  ret     (* [op, ok, out]: the last operation, its result, bytes copied  *)

vars == <<q, ret>>

(* The reading operations ask for a prefix; the rest stays queued.         *)
Prefix(n) == SubSeq(q, 1, n)
Rest(n)   == SubSeq(q, n + 1, Len(q))

Returns(op, ok, out) == ret' = [op |-> op, ok |-> ok, out |-> out]

Init ==
  /\ q = <<>>
  /\ ret = [op |-> "new", ok |-> TRUE, out |-> <<>>]

Add(d) ==
  /\ q' = q \o d
  /\ Returns("add_data", TRUE, <<>>)

ReadBegin(n) ==
  /\ q' = q
  /\ IF n <= Len(q) THEN Returns("read_begin", TRUE, Prefix(n))
                    ELSE Returns("read_begin", FALSE, <<>>)

(* Deleting nothing is reported as a failure, and so is reading nothing    *)
(* with a deletion after it.                                               *)
ReadDelBegin(n) ==
  IF n <= Len(q)
    THEN q' = Rest(n) /\ Returns("read_del_begin", n # 0, Prefix(n))
    ELSE q' = q /\ Returns("read_del_begin", FALSE, <<>>)

DelData(n) ==
  IF n <= Len(q)
    THEN q' = Rest(n) /\ Returns("del_data", n # 0, <<>>)
    ELSE q' = q /\ Returns("del_data", FALSE, <<>>)

(* step() drops what a successful read_begin has just returned.            *)
Step ==
  /\ ret.op = "read_begin"
  /\ ret.ok
  /\ q' = Rest(Len(ret.out))
  /\ Returns("step", TRUE, <<>>)

Next ==
  \/ \E d \in Data : Add(d)
  \/ \E n \in Sizes : ReadBegin(n) \/ ReadDelBegin(n) \/ DelData(n)
  \/ Step

Spec == Init /\ [][Next]_vars
=============================================================================
