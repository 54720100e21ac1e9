------------------------------- MODULE RingBuff -------------------------------
(***************************************************************************)
(* util/RingBuff: the growable circular byte buffer under every socket.    *)
(* _buff, _len, _head and _tail are the class's members.  A call of        *)
(* add_data is split at its loop: AddBegin enters it, AppendSize is one    *)
(* turn of the loop, AddCopy the copy after it.  The other operations are  *)
(* one step each: a buffer belongs to one thread.                          *)
(***************************************************************************)
EXTENDS Integers, Sequences

CONSTANTS
  Byte,               (* the values a byte may take                       *)
  Zero,               (* the byte bzero and fill_n write                  *)
  Data,               (* the byte strings add_data is called with         *)
  Sizes,              (* the lengths the reading operations ask for       *)
  DEFAULT_BUFF_SIZE,  (* RingBuff.hpp: 4                                  *)
  GROW_LIMIT,         (* append_size doubles up to this length: 1024      *)
  MaxData             (* bound: no add_data beyond this many stored bytes *)

ASSUME RingBuffAssumption ==
  /\ Zero \in Byte
  /\ Data \subseteq Seq(Byte) \ {<<>>}
  /\ Sizes \subseteq Nat
  /\ DEFAULT_BUFF_SIZE \in Nat /\ DEFAULT_BUFF_SIZE >= 2
  /\ GROW_LIMIT \in Nat
  /\ MaxData \in Nat

VARIABLES
  buff,     (* _buff[0 .. _len - 1]                                       *)
  len,      (* _len                                                       *)
  head,     (* _head: where the next byte goes                            *)
  tail,     (* _tail: the oldest byte                                     *)
  data,     (* the argument of the add_data in progress, else <<>>        *)
  ret       (* [op, ok, out]: the last call, its result, what it copied   *)

vars == <<buff, len, head, tail, data, ret>>

Slots == 0 .. len - 1

left_size == IF tail <= head THEN len - (head - tail) ELSE tail - head
data_size == len - left_size

Returns(op, ok, out) == ret' = [op |-> op, ok |-> ok, out |-> out]
-----------------------------------------------------------------------------
(* The stdcopy and fill_n calls of an operation, as the spans of _buff     *)
(* they touch, in order: <<first slot, number of slots>>.                  *)
OneSpan(at, n)    == <<<<at, n>>>>
TwoSpans(at, k, n) == <<<<at, k>>, <<0, n - k>>>>

ReadSpans(n) ==
  IF head >= tail \/ len - tail >= n THEN OneSpan(tail, n)
                                     ELSE TwoSpans(tail, len - tail, n)

(* mutant: the room before the end of the buffer is one too large          *)
AddSpansPastEnd(n) ==
  IF head < tail \/ len - head + 1 >= n THEN OneSpan(head, n)
                                        ELSE TwoSpans(head, len - head, n)

AddSpans(n) ==
  IF head < tail \/ len - head >= n THEN OneSpan(head, n)
                                    ELSE TwoSpans(head, len - head, n)

(* Slot i of span s; the offset of that slot in the caller's bytes.        *)
InSpan(s, i) == s[1] <= i /\ i < s[1] + s[2]
Covered(spans, i) == \E k \in 1 .. Len(spans) : InSpan(spans[k], i)
Offset(spans, i) ==
  IF InSpan(spans[1], i) THEN i - spans[1][1] ELSE spans[1][2] + i

CopyIn(spans, d) ==
  [i \in Slots |-> IF Covered(spans, i) THEN d[Offset(spans, i) + 1]
                                        ELSE buff[i]]
Fill(spans) == [i \in Slots |-> IF Covered(spans, i) THEN Zero ELSE buff[i]]

CopyOut(spans, n) ==
  [j \in 1 .. n |-> IF j <= spans[1][2] THEN buff[spans[1][1] + j - 1]
                                        ELSE buff[j - spans[1][2] - 1]]
-----------------------------------------------------------------------------
Init ==
  /\ len = DEFAULT_BUFF_SIZE
  /\ buff = [i \in 0 .. DEFAULT_BUFF_SIZE - 1 |-> Zero]
  /\ head = 0
  /\ tail = 0
  /\ data = <<>>
  /\ ret = [op |-> "new", ok |-> TRUE, out |-> <<>>]

(* add_data's loop test                                                    *)
MoreRoomNeeded == left_size <= Len(data) + 1

AddBegin(d) ==
  /\ data = <<>>
  /\ data_size + Len(d) <= MaxData
  /\ data' = d
  /\ UNCHANGED <<buff, len, head, tail, ret>>

(* mutant: above the limit the length stays what it is                     *)
NewLenStuck == IF len > GROW_LIMIT THEN len ELSE 2 * len

(* append_size: the unread bytes move to the front of a longer buffer.     *)
NewLen == IF len > GROW_LIMIT THEN len + DEFAULT_BUFF_SIZE ELSE 2 * len

(* mutant: the part that wrapped around is forgotten                       *)
LinearizedUnwrapped(n) ==
  [i \in 0 .. n - 1 |->
     IF i < len - tail /\ i < data_size THEN buff[tail + i] ELSE Zero]

Linearized(n) ==
  [i \in 0 .. n - 1 |->
     IF tail <= head
       THEN IF i < head - tail THEN buff[tail + i] ELSE Zero
       ELSE IF i < len - tail THEN buff[tail + i]
            ELSE IF i < len - tail + head THEN buff[i - (len - tail)]
            ELSE Zero]

AppendSize ==
  /\ data # <<>>
  /\ MoreRoomNeeded
  /\ len' = NewLen
  /\ buff' = Linearized(NewLen)
  /\ head' = data_size
  /\ tail' = 0
  /\ UNCHANGED <<data, ret>>

AddCopy ==
  /\ data # <<>>
  /\ ~MoreRoomNeeded
  /\ buff' = CopyIn(AddSpans(Len(data)), data)
  /\ head' = (head + Len(data)) % len
  /\ data' = <<>>
  /\ Returns("add_data", TRUE, <<>>)
  /\ UNCHANGED <<len, tail>>

ReadBegin(n) ==
  /\ data = <<>>
  /\ IF data_size < n
       THEN Returns("read_begin", FALSE, <<>>)
       ELSE Returns("read_begin", TRUE, CopyOut(ReadSpans(n), n))
  /\ UNCHANGED <<buff, len, head, tail, data>>

(* del_data's effect; it refuses to delete nothing or more than there is.  *)
Deletable(n) == n <= data_size /\ n # 0

Delete(n) ==
  IF Deletable(n)
    THEN buff' = Fill(ReadSpans(n)) /\ tail' = (tail + n) % len
    ELSE UNCHANGED <<buff, tail>>

DelData(n) ==
  /\ data = <<>>
  /\ Delete(n)
  /\ Returns("del_data", Deletable(n), <<>>)
  /\ UNCHANGED <<len, head, data>>

ReadDelBegin(n) ==
  /\ data = <<>>
  /\ Delete(n)
  /\ Returns("read_del_begin", Deletable(n),
             IF n <= data_size THEN CopyOut(ReadSpans(n), n) ELSE <<>>)
  /\ UNCHANGED <<len, head, data>>

(* mutant: _tail runs past the end of the buffer                           *)
StepUnwrapped ==
  /\ data = <<>>
  /\ ret.op = "read_begin"
  /\ ret.ok
  /\ tail' = tail + Len(ret.out)
  /\ Returns("step", TRUE, <<>>)
  /\ UNCHANGED <<buff, len, head, data>>

(* step() checks nothing: its callers pass what read_begin just returned.  *)
Step ==
  /\ data = <<>>
  /\ ret.op = "read_begin"
  /\ ret.ok
  /\ tail' = (tail + Len(ret.out)) % len
  /\ Returns("step", TRUE, <<>>)
  /\ UNCHANGED <<buff, len, head, data>>

Add == \/ \E d \in Data : AddBegin(d)
       \/ AppendSize
       \/ AddCopy

Next ==
  \/ Add
  \/ \E n \in Sizes : ReadBegin(n) \/ DelData(n) \/ ReadDelBegin(n)
  \/ Step

(* A call that was entered runs on: its thread does nothing else before.   *)
Fairness == WF_vars(AppendSize) /\ WF_vars(AddCopy)

Spec == Init /\ [][Next]_vars /\ Fairness
-----------------------------------------------------------------------------
(* The bytes stored, oldest first: the abstract queue.                     *)
Contents == [i \in 1 .. data_size |-> buff[(tail + i - 1) % len]]

Queue == INSTANCE ByteQueue WITH q <- Contents

(* Type invariant: the indices stay inside the buffer.                     *)
TypeOK ==
  /\ len \in Nat
  /\ head \in Slots
  /\ tail \in Slots
  /\ buff \in [Slots -> Byte]
  /\ data \in Data \cup {<<>>}
  /\ ret \in [op : {"new", "add_data", "read_begin", "read_del_begin",
                    "del_data", "step"},
              ok : BOOLEAN, out : Seq(Byte)]

(* The copies and fills the next call will do stay inside _buff, and the   *)
(* copy that ends add_data writes no slot that holds an unread byte: the   *)
(* three cases of add_data rely on the room its loop has made.             *)
SpanInside(s) == s[1] >= 0 /\ s[2] >= 0 /\ s[1] + s[2] <= len

Unread(i) == \E k \in 1 .. data_size : i = (tail + k - 1) % len

SpansInside ==
  /\ \A n \in Sizes : n <= data_size =>
       \A k \in 1 .. Len(ReadSpans(n)) : SpanInside(ReadSpans(n)[k])
  /\ data # <<>> /\ ~MoreRoomNeeded =>
       /\ \A k \in 1 .. Len(AddSpans(Len(data))) :
            SpanInside(AddSpans(Len(data))[k])
       /\ \A i \in Slots : Covered(AddSpans(Len(data)), i) => ~Unread(i)

(* RingBuff is a FIFO queue of bytes: growth, wrap-around and zero-filling *)
(* are invisible to whoever reads and writes it.                           *)
ImplementsByteQueue == Queue!Spec

(* add_data's loop ends: growing makes room for any argument, whether the  *)
(* length doubles or grows by DEFAULT_BUFF_SIZE.                           *)
AddTerminates == data # <<>> ~> data = <<>>
=============================================================================
