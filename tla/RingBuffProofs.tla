---------------------------- MODULE RingBuffProofs ----------------------------
(***************************************************************************)
(* RingBuff keeps its indices inside its buffer and implements ByteQueue,  *)
(* for every byte set, every argument and every buffer size.               *)
(***************************************************************************)
EXTENDS RingBuff, TLAPS

-----------------------------------------------------------------------------
(* Wrapping an index at most once: the only use the class makes of %.      *)
LEMMA WrapOnce ==
  ASSUME NEW l \in Nat, l > 0, NEW x \in 0 .. 2 * l - 1
  PROVE  x % l = IF x < l THEN x ELSE x - l
<1>1. CASE x < l
  BY <1>1
<1>2. CASE x >= l
  BY <1>2
<1> QED BY <1>1, <1>2

(* What a buffer must satisfy between any two steps.  The last conjunct is *)
(* what makes the unchecked step() safe after read_begin.                  *)
PeekedIsThere ==
  ret.op = "read_begin" /\ ret.ok => Len(ret.out) <= data_size

IInv == TypeOK /\ PeekedIsThere

(* Less than len bytes are stored: head = tail means empty, never full.    *)
LEMMA DataSize ==
  ASSUME TypeOK
  PROVE  /\ len > 0
         /\ data_size \in 0 .. len - 1
         /\ data_size = IF tail <= head THEN head - tail
                                        ELSE len - tail + head
         /\ left_size = len - data_size
BY DEF TypeOK, data_size, left_size, Slots

(* Contents is a byte string, and its i-th byte, without %.                *)
ContentsAsSlots ==
  /\ Contents \in Seq(Byte)
  /\ Len(Contents) = data_size
  /\ \A i \in 1 .. data_size :
       Contents[i] = IF tail + i - 1 < len THEN buff[tail + i - 1]
                                           ELSE buff[tail + i - 1 - len]

LEMMA ContentsAt == TypeOK => ContentsAsSlots
<1> SUFFICES ASSUME TypeOK PROVE ContentsAsSlots
  OBVIOUS
<1>1. /\ len \in Nat /\ len > 0
      /\ data_size \in 0 .. len - 1
      /\ tail \in 0 .. len - 1
      /\ buff \in [0 .. len - 1 -> Byte]
  BY DataSize DEF TypeOK, Slots
<1>2. ASSUME NEW i \in 1 .. data_size
      PROVE  /\ (tail + i - 1) % len = IF tail + i - 1 < len
                                         THEN tail + i - 1
                                         ELSE tail + i - 1 - len
             /\ (tail + i - 1) % len \in 0 .. len - 1
  <2>1. tail + i - 1 \in 0 .. 2 * len - 1
    BY <1>1
  <2> QED BY <1>1, <2>1, WrapOnce
<1>3. Contents \in [1 .. data_size -> Byte]
  BY <1>1, <1>2 DEF Contents
<1>4. Contents \in Seq(Byte) /\ Len(Contents) = data_size
  BY <1>1, <1>3
<1>5. \A i \in 1 .. data_size :
        Contents[i] = IF tail + i - 1 < len THEN buff[tail + i - 1]
                                            ELSE buff[tail + i - 1 - len]
  BY <1>2 DEF Contents
<1> QED BY <1>4, <1>5 DEF ContentsAsSlots

(* A reading operation copies out a prefix of the contents.                *)
LEMMA CopyOutIsPrefix ==
  ASSUME TypeOK, NEW n \in Nat, n <= data_size
  PROVE  /\ CopyOut(ReadSpans(n), n) = SubSeq(Contents, 1, n)
         /\ CopyOut(ReadSpans(n), n) \in Seq(Byte)
         /\ Len(CopyOut(ReadSpans(n), n)) = n
<1> DEFINE c == CopyOut(ReadSpans(n), n)
           p == SubSeq(Contents, 1, n)
<1>1. /\ len \in Nat /\ len > 0 /\ head \in 0 .. len - 1
      /\ tail \in 0 .. len - 1 /\ data_size \in 0 .. len - 1
      /\ data_size = IF tail <= head THEN head - tail ELSE len - tail + head
  BY DataSize DEF TypeOK, Slots
<1>2. ASSUME NEW j \in 1 .. n
      PROVE  c[j] = IF tail + j - 1 < len THEN buff[tail + j - 1]
                                          ELSE buff[tail + j - 1 - len]
  <2>1. CASE head >= tail \/ len - tail >= n
    <3>1. ReadSpans(n) = <<<<tail, n>>>>
      BY <2>1 DEF ReadSpans, OneSpan
    <3>2. c[j] = buff[tail + j - 1]
      BY <3>1 DEF CopyOut
    <3> QED BY <1>1, <2>1, <3>2
  <2>2. CASE ~(head >= tail \/ len - tail >= n)
    <3>1. ReadSpans(n) = <<<<tail, len - tail>>, <<0, n - (len - tail)>>>>
      BY <2>2 DEF ReadSpans, TwoSpans
    <3>2. c[j] = IF j <= len - tail THEN buff[tail + j - 1]
                                    ELSE buff[j - (len - tail) - 1]
      BY <3>1 DEF CopyOut
    <3>3. j - (len - tail) - 1 = tail + j - 1 - len
      BY <1>1
    <3>4. j <= len - tail <=> tail + j - 1 < len
      BY <1>1
    <3> QED BY <3>2, <3>3, <3>4
  <2> QED BY <2>1, <2>2
<1>3. /\ p \in Seq(Byte) /\ Len(p) = n
      /\ \A j \in 1 .. n : p[j] = Contents[j]
  BY <1>1, ContentsAt DEF ContentsAsSlots
<1>4. \A j \in 1 .. n : c[j] = p[j]
  BY <1>1, <1>2, <1>3, ContentsAt DEF ContentsAsSlots
<1>5. c = [j \in 1 .. n |-> c[j]]
  BY DEF CopyOut
<1>6. p = [j \in 1 .. n |-> p[j]]
  BY <1>3
<1>7. c = p
  BY <1>4, <1>5, <1>6
<1> QED BY <1>3, <1>7

(* Advancing _tail by n drops the n oldest bytes, whatever is written to   *)
(* the slots they leave.                                                   *)
LEMMA TailAdvance ==
  ASSUME TypeOK, TypeOK', NEW n \in Nat, n <= data_size,
         tail' = (tail + n) % len, len' = len, head' = head,
         \A i \in Slots : buff'[i] = buff[i] \/ Covered(ReadSpans(n), i)
  PROVE  /\ Contents' = SubSeq(Contents, n + 1, Len(Contents))
         /\ data_size' = data_size - n
<1> DEFINE r == SubSeq(Contents, n + 1, Len(Contents))
<1>1. /\ len \in Nat /\ len > 0 /\ head \in 0 .. len - 1
      /\ tail \in 0 .. len - 1 /\ data_size \in 0 .. len - 1
      /\ data_size = IF tail <= head THEN head - tail ELSE len - tail + head
  BY DataSize DEF TypeOK, Slots
<1>2. /\ tail' = IF tail + n < len THEN tail + n ELSE tail + n - len
      /\ tail' \in 0 .. len - 1
  <2>1. tail + n \in 0 .. 2 * len - 1
    BY <1>1
  <2> QED BY <1>1, <2>1, WrapOnce
<1>3. data_size' = IF tail' <= head THEN head - tail'
                                    ELSE len - tail' + head
  BY <1>1, <1>2 DEF data_size, left_size
<1>4. data_size' = data_size - n
  BY <1>1, <1>2, <1>3
<1>5. ASSUME NEW i \in 0 .. len - 1, Covered(ReadSpans(n), i)
      PROVE  \/ tail <= i /\ i < tail + n
             \/ i < tail + n - len
  <2>1. CASE head >= tail \/ len - tail >= n
    <3>1. ReadSpans(n) = <<<<tail, n>>>>
      BY <2>1 DEF ReadSpans, OneSpan
    <3> QED BY <1>1, <1>5, <3>1 DEF Covered, InSpan
  <2>2. CASE ~(head >= tail \/ len - tail >= n)
    <3>1. ReadSpans(n) = <<<<tail, len - tail>>, <<0, n - (len - tail)>>>>
      BY <2>2 DEF ReadSpans, TwoSpans
    <3>2. InSpan(<<tail, len - tail>>, i) \/ InSpan(<<0, n - (len - tail)>>, i)
      BY <1>5, <3>1 DEF Covered
    <3> QED BY <1>1, <2>2, <3>2 DEF InSpan
  <2> QED BY <2>1, <2>2
<1>60. ContentsAsSlots'
  BY ContentsAt, PTL
<1>6. /\ Len(Contents') = data_size'
      /\ Contents' \in Seq(Byte)
      /\ \A j \in 1 .. data_size' :
           Contents'[j] = IF tail' + j - 1 < len' THEN buff'[tail' + j - 1]
                                         ELSE buff'[tail' + j - 1 - len']
  BY <1>60 DEF ContentsAsSlots
<1>7. ASSUME NEW j \in 1 .. data_size - n
      PROVE  Contents'[j] = Contents[n + j]
  <2> DEFINE s == IF tail + n + j - 1 < len THEN tail + n + j - 1
                                            ELSE tail + n + j - 1 - len
  <2>1. Contents[n + j] = buff[s]
    <3>1. n + j \in 1 .. data_size /\ tail + (n + j) - 1 = tail + n + j - 1
      BY <1>1
    <3>2. \A i \in 1 .. data_size :
            Contents[i] = IF tail + i - 1 < len
                            THEN buff[tail + i - 1]
                            ELSE buff[tail + i - 1 - len]
      BY ContentsAt DEF ContentsAsSlots
    <3>3. Contents[n + j] = IF tail + (n + j) - 1 < len
                              THEN buff[tail + (n + j) - 1]
                              ELSE buff[tail + (n + j) - 1 - len]
      BY <3>1, <3>2
    <3> QED BY <1>1, <3>1, <3>3
  <2>2. s \in 0 .. len - 1
    BY <1>1
  <2>3. Contents'[j] = buff'[s]
    <3>1. Contents'[j] = IF tail' + j - 1 < len THEN buff'[tail' + j - 1]
                                           ELSE buff'[tail' + j - 1 - len]
      BY <1>4, <1>6
    <3>2. CASE tail + n < len
      BY <1>1, <1>2, <3>1, <3>2
    <3>3. CASE tail + n >= len
      <4>1. tail' = tail + n - len
        BY <1>1, <1>2, <3>3
      <4>2. tail' + j - 1 < len /\ s = tail' + j - 1
        BY <1>1, <3>3, <4>1
      <4> QED BY <3>1, <4>2
    <3> QED BY <1>1, <3>2, <3>3
  <2>4. ~Covered(ReadSpans(n), s)
    BY <1>1, <1>5, <2>2
  <2> QED BY <2>1, <2>2, <2>3, <2>4 DEF Slots
<1>8. /\ r \in Seq(Byte) /\ Len(r) = data_size - n
      /\ \A j \in 1 .. data_size - n : r[j] = Contents[n + j]
  BY <1>1, ContentsAt, SMTT(30) DEF ContentsAsSlots
<1>9. Contents' = r
  <2>1. r = [j \in 1 .. data_size - n |-> r[j]]
    BY <1>8
  <2>2. Contents' = [j \in 1 .. data_size - n |-> Contents'[j]]
    BY <1>4, <1>6
  <2> QED BY <1>7, <1>8, <2>1, <2>2
<1> QED BY <1>4, <1>9

(* append_size moves the contents and loses none of them.                  *)
LEMMA AppendKeepsContents ==
  ASSUME TypeOK, TypeOK', AppendSize
  PROVE  Contents' = Contents /\ data_size' = data_size
<1>1. /\ len \in Nat /\ len > 0 /\ head \in 0 .. len - 1
      /\ tail \in 0 .. len - 1 /\ data_size \in 0 .. len - 1
      /\ data_size = IF tail <= head THEN head - tail ELSE len - tail + head
  BY DataSize DEF TypeOK, Slots
<1>2. /\ len' = NewLen /\ NewLen \in Nat /\ NewLen > len
      /\ head' = data_size /\ tail' = 0
      /\ buff' = Linearized(NewLen)
  BY <1>1, RingBuffAssumption DEF AppendSize, NewLen
<1>3. data_size' = data_size
  BY <1>1, <1>2 DEF data_size, left_size
<1>4. ContentsAsSlots /\ ContentsAsSlots'
  BY ContentsAt, PTL
<1>5. ASSUME NEW i \in 1 .. data_size
      PROVE  Contents'[i] = Contents[i]
  <2>1. Contents'[i] = buff'[i - 1]
    <3>1. tail' + i - 1 < len' /\ tail' + i - 1 = i - 1
      BY <1>1, <1>2
    <3> QED BY <1>3, <1>4, <3>1 DEF ContentsAsSlots
  <2>2. i - 1 \in 0 .. NewLen - 1
    BY <1>1, <1>2
  <2>3. Contents[i] = IF tail + i - 1 < len THEN buff[tail + i - 1]
                                            ELSE buff[tail + i - 1 - len]
    BY <1>4 DEF ContentsAsSlots
  <2>4. CASE tail <= head
    <3>1. i - 1 < head - tail /\ tail + i - 1 < len
          /\ tail + (i - 1) = tail + i - 1
      BY <1>1, <2>4
    <3>2. buff'[i - 1] = buff[tail + (i - 1)]
      BY <1>2, <2>2, <2>4, <3>1 DEF Linearized
    <3> QED BY <2>1, <2>3, <3>1, <3>2
  <2>5. CASE tail > head /\ i - 1 < len - tail
    <3>1. tail + i - 1 < len /\ tail + (i - 1) = tail + i - 1
          /\ ~(tail <= head)
      BY <1>1, <2>5
    <3>2. buff'[i - 1] = buff[tail + (i - 1)]
      BY <1>2, <2>2, <2>5, <3>1 DEF Linearized
    <3> QED BY <2>1, <2>3, <3>1, <3>2
  <2>6. CASE tail > head /\ i - 1 >= len - tail
    <3>1. /\ i - 1 < len - tail + head /\ ~(i - 1 < len - tail)
          /\ ~(tail + i - 1 < len) /\ ~(tail <= head)
          /\ (i - 1) - (len - tail) = tail + i - 1 - len
      BY <1>1, <2>6
    <3>2. buff'[i - 1] = buff[(i - 1) - (len - tail)]
      BY <1>2, <2>2, <3>1 DEF Linearized
    <3> QED BY <2>1, <2>3, <3>1, <3>2
  <2> QED BY <1>1, <2>4, <2>5, <2>6
<1>6. Contents' = Contents
  <2>1. Contents = [i \in 1 .. data_size |-> Contents[i]]
    BY <1>4 DEF ContentsAsSlots
  <2>2. Contents' = [i \in 1 .. data_size |-> Contents'[i]]
    BY <1>3, <1>4 DEF ContentsAsSlots
  <2> QED BY <1>5, <2>1, <2>2
<1> QED BY <1>3, <1>6

(* Where add_data's copies put byte k of the argument: the k-th free slot. *)
FreeSlot(k) == IF head + k - 1 < len THEN head + k - 1 ELSE head + k - 1 - len

LEMMA AddSpansAt ==
  ASSUME TypeOK, NEW n \in Nat, n > 0, data_size + n < len,
         NEW i \in Slots
  PROVE  /\ Covered(AddSpans(n), i) => \E k \in 1 .. n : i = FreeSlot(k)
         /\ \A k \in 1 .. n : i = FreeSlot(k) =>
              Covered(AddSpans(n), i) /\ Offset(AddSpans(n), i) + 1 = k
<1>1. /\ len \in Nat /\ len > 0 /\ head \in 0 .. len - 1
      /\ tail \in 0 .. len - 1 /\ data_size \in 0 .. len - 1
      /\ data_size = IF tail <= head THEN head - tail ELSE len - tail + head
      /\ i \in 0 .. len - 1
  BY DataSize DEF TypeOK, Slots
<1>2. CASE head < tail \/ len - head >= n
  <2>1. AddSpans(n) = <<<<head, n>>>>
    BY <1>2 DEF AddSpans, OneSpan
  <2>2. Covered(AddSpans(n), i) <=> head <= i /\ i < head + n
    BY <2>1 DEF Covered, InSpan
  <2>3. head + n <= len
    BY <1>1, <1>2
  <2>4. head <= i /\ i < head + n => Offset(AddSpans(n), i) = i - head
    BY <2>1 DEF Offset, InSpan
  <2>5. \A k \in 1 .. n : head + k - 1 < len
    BY <1>1, <2>3
  <2>6. ASSUME head <= i, i < head + n
        PROVE  \E k \in 1 .. n : i = IF head + k - 1 < len
                                       THEN head + k - 1
                                       ELSE head + k - 1 - len
    <3>1. i - head + 1 \in 1 .. n /\ head + (i - head + 1) - 1 = i /\ i < len
      BY <1>1, <2>6
    <3> QED BY <3>1
  <2>7. ASSUME NEW k \in 1 .. n,
               i = IF head + k - 1 < len THEN head + k - 1
                                         ELSE head + k - 1 - len
        PROVE  /\ head <= i /\ i < head + n
               /\ Offset(AddSpans(n), i) + 1 = k
    <3>1. i = head + k - 1
      BY <2>5, <2>7
    <3> QED BY <1>1, <2>4, <3>1
  <2> QED BY <2>2, <2>6, <2>7 DEF FreeSlot
<1>3. CASE ~(head < tail \/ len - head >= n)
  <2>1. AddSpans(n) = <<<<head, len - head>>, <<0, n - (len - head)>>>>
    BY <1>3 DEF AddSpans, TwoSpans
  <2>2. Covered(AddSpans(n), i) <=> head <= i \/ i < head + n - len
    <3>1. Covered(AddSpans(n), i)
            <=> InSpan(<<head, len - head>>, i)
                \/ InSpan(<<0, n - (len - head)>>, i)
      BY <2>1 DEF Covered
    <3> QED BY <1>1, <1>3, <3>1 DEF InSpan
  <2>3. Offset(AddSpans(n), i) = IF head <= i THEN i - head
                                              ELSE len - head + i
    BY <1>1, <2>1 DEF Offset, InSpan
  <2>4. head <= i => i - head + 1 \in 1 .. n /\ head + (i - head + 1) - 1 = i
    BY <1>1, <1>3
  <2>5. i < head + n - len =>
          /\ i + len - head + 1 \in 1 .. n
          /\ head + (i + len - head + 1) - 1 = i + len
    BY <1>1, <1>3
  <2>6. head + n - len <= tail /\ tail <= head
    BY <1>1, <1>3
  <2>7. Covered(AddSpans(n), i) =>
          \E k \in 1 .. n : i = IF head + k - 1 < len
                                  THEN head + k - 1
                                  ELSE head + k - 1 - len
    <3>1. CASE head <= i
      <4>1. /\ head + (i - head + 1) - 1 < len
            /\ head + (i - head + 1) - 1 = i
        BY <1>1, <2>4, <3>1
      <4> QED BY <2>4, <3>1, <4>1
    <3>2. CASE i < head + n - len
      <4>1. /\ ~(head + (i + len - head + 1) - 1 < len)
            /\ head + (i + len - head + 1) - 1 - len = i
        BY <1>1, <2>5, <3>2
      <4> QED BY <2>5, <3>2, <4>1
    <3> QED BY <2>2, <3>1, <3>2
  <2>8. ASSUME NEW k \in 1 .. n,
               i = IF head + k - 1 < len THEN head + k - 1
                                         ELSE head + k - 1 - len
        PROVE  /\ head <= i \/ i < head + n - len
               /\ Offset(AddSpans(n), i) + 1 = k
    <3>1. CASE head + k - 1 < len
      BY <1>1, <2>3, <2>8, <3>1
    <3>2. CASE head + k - 1 >= len
      BY <1>1, <2>3, <2>6, <2>8, <3>2
    <3> QED BY <1>1, <3>1, <3>2
  <2> QED BY <2>2, <2>7, <2>8 DEF FreeSlot
<1> QED BY <1>2, <1>3

(* add_data's final copy puts the argument after the contents.             *)
LEMMA AddCopyAppends ==
  ASSUME TypeOK, TypeOK', AddCopy
  PROVE  Contents' = Contents \o data
<1> DEFINE n == Len(data)
           w == Contents \o data
<1>1. /\ len \in Nat /\ len > 0 /\ head \in 0 .. len - 1
      /\ tail \in 0 .. len - 1 /\ data_size \in 0 .. len - 1
      /\ data_size = IF tail <= head THEN head - tail ELSE len - tail + head
      /\ left_size = len - data_size
  BY DataSize DEF TypeOK, Slots
<1>2. data \in Seq(Byte) /\ n \in Nat /\ n > 0
  BY RingBuffAssumption DEF TypeOK, AddCopy
<1>3. data_size + n < len
  BY <1>1, <1>2 DEF AddCopy, MoreRoomNeeded
<1>4. /\ len' = len /\ tail' = tail
      /\ buff' = CopyIn(AddSpans(n), data)
      /\ head' = IF head + n < len THEN head + n ELSE head + n - len
  <2>1. head + n \in 0 .. 2 * len - 1
    BY <1>1, <1>2, <1>3
  <2>2. (head + n) % len = IF head + n < len THEN head + n ELSE head + n - len
    BY <1>1, <2>1, WrapOnce
  <2> QED BY <2>2 DEF AddCopy
<1>5. data_size' = data_size + n
  <2>0. head' \in 0 .. len - 1
    BY <1>1, <1>2, <1>3, <1>4
  <2>1. data_size' = IF tail <= head' THEN head' - tail
                                      ELSE len - tail + head'
    <3>1. data_size' = len - (IF tail <= head' THEN len - (head' - tail)
                                               ELSE tail - head')
      BY <1>4 DEF data_size, left_size
    <3> QED BY <1>1, <2>0, <3>1
  <2> QED BY <1>1, <1>2, <1>3, <1>4, <2>1
<1>6. ContentsAsSlots /\ ContentsAsSlots'
  BY ContentsAt, PTL
<1>7. ASSUME NEW j \in 1 .. data_size + n
      PROVE  Contents'[j] = w[j]
  <2> DEFINE s == IF tail + j - 1 < len THEN tail + j - 1
                                        ELSE tail + j - 1 - len
  <2>1. Contents'[j] = buff'[s]
    BY <1>4, <1>5, <1>6 DEF ContentsAsSlots
  <2>2. s \in Slots
    BY <1>1, <1>2, <1>3 DEF Slots
  <2>3. CASE j <= data_size
    <3>1. \A k \in 1 .. n : s # FreeSlot(k)
      BY <1>1, <1>2, <1>3, <2>3 DEF FreeSlot
    <3>2. ~Covered(AddSpans(n), s)
      BY <1>2, <1>3, <2>2, <3>1, AddSpansAt
    <3>3. buff'[s] = buff[s]
      BY <1>4, <2>2, <3>2 DEF CopyIn
    <3>4. Contents[j] = buff[s]
      BY <1>1, <1>6, <2>3 DEF ContentsAsSlots
    <3>5. w[j] = Contents[j]
      BY <1>1, <1>2, <1>6, <2>3 DEF ContentsAsSlots
    <3> QED BY <2>1, <3>3, <3>4, <3>5
  <2>4. CASE j > data_size
    <3> DEFINE k == j - data_size
    <3>1. k \in 1 .. n
      BY <1>1, <1>2, <2>4
    <3>2. s = FreeSlot(k)
      BY <1>1, <1>2, <1>3, <2>4, <3>1 DEF FreeSlot
    <3>3. Covered(AddSpans(n), s) /\ Offset(AddSpans(n), s) + 1 = k
      BY <1>2, <1>3, <2>2, <3>1, <3>2, AddSpansAt
    <3>4. buff'[s] = data[k]
      BY <1>4, <2>2, <3>3 DEF CopyIn
    <3>5. w[j] = data[k]
      BY <1>1, <1>2, <1>6, <2>4, SMTT(30) DEF ContentsAsSlots
    <3> QED BY <2>1, <3>4, <3>5
  <2>5. j <= data_size \/ j > data_size
    BY <1>1, <1>2
  <2> QED BY <2>3, <2>4, <2>5, Zenon
<1> HIDE DEF w
<1>8. Contents' = w
  <2>0. w \in Seq(Byte) /\ Len(w) = data_size + n
    <3>1. Contents \in Seq(Byte) /\ Len(Contents) = data_size
      BY <1>6 DEF ContentsAsSlots
    <3> QED BY <1>2, <3>1 DEF w
  <2>1. w = [j \in 1 .. data_size + n |-> w[j]]
    BY <2>0
  <2>2. Contents' = [j \in 1 .. data_size + n |-> Contents'[j]]
    BY <1>5, <1>6 DEF ContentsAsSlots
  <2> QED BY <1>7, <2>1, <2>2
<1> QED BY <1>8 DEF w

-----------------------------------------------------------------------------
(* The invariant is established by the constructor ...                     *)
LEMMA InitIInv == Init => IInv
<1> SUFFICES ASSUME Init PROVE IInv
  OBVIOUS
<1>1. len \in Nat /\ len >= 2 /\ head = 0 /\ tail = 0
  BY RingBuffAssumption DEF Init
<1>2. TypeOK
  BY <1>1, RingBuffAssumption DEF Init, TypeOK, Slots
<1>3. PeekedIsThere
  BY DEF Init, PeekedIsThere
<1> QED BY <1>2, <1>3 DEF IInv

(* ... and kept by every step, the type part first.                        *)
LEMMA NextTypeOK == TypeOK /\ [Next]_vars => TypeOK'
<1> SUFFICES ASSUME TypeOK, [Next]_vars PROVE TypeOK'
  OBVIOUS
<1>1. /\ len \in Nat /\ len > 0 /\ head \in 0 .. len - 1
      /\ tail \in 0 .. len - 1 /\ data_size \in 0 .. len - 1
      /\ left_size = len - data_size
      /\ buff \in [0 .. len - 1 -> Byte]
      /\ data \in Data \cup {<<>>}
      /\ ret.out \in Seq(Byte)
  BY DataSize DEF TypeOK, Slots
<1>2. ASSUME NEW d \in Data, AddBegin(d) PROVE TypeOK'
  BY <1>2 DEF AddBegin, TypeOK, Slots
<1>3. CASE AppendSize
  <2>1. NewLen \in Nat /\ NewLen > len
    BY <1>1, RingBuffAssumption DEF NewLen
  <2>2. Linearized(NewLen) \in [0 .. NewLen - 1 -> Byte]
    <3> SUFFICES ASSUME NEW i \in 0 .. NewLen - 1
                 PROVE  Linearized(NewLen)[i] \in Byte
      BY DEF Linearized
    <3> QED BY <1>1, <2>1, RingBuffAssumption DEF Linearized
  <2> QED BY <1>1, <1>3, <2>1, <2>2 DEF AppendSize, TypeOK, Slots
<1>4. CASE AddCopy
  <2>1. data \in Seq(Byte) /\ Len(data) \in Nat /\ Len(data) > 0
    BY <1>1, <1>4, RingBuffAssumption DEF AddCopy
  <2>2. data_size + Len(data) < len
    BY <1>1, <1>4, <2>1 DEF AddCopy, MoreRoomNeeded
  <2>3. (head + Len(data)) % len \in 0 .. len - 1
    BY <1>1, <2>1
  <2>4. CopyIn(AddSpans(Len(data)), data) \in [0 .. len - 1 -> Byte]
    <3> SUFFICES ASSUME NEW i \in Slots
                 PROVE  CopyIn(AddSpans(Len(data)), data)[i] \in Byte
      BY DEF CopyIn, Slots
    <3>1. CASE Covered(AddSpans(Len(data)), i)
      <4>1. PICK k \in 1 .. Len(data) : i = FreeSlot(k)
        BY <2>1, <2>2, <3>1, AddSpansAt
      <4>2. Offset(AddSpans(Len(data)), i) + 1 = k
        BY <2>1, <2>2, <4>1, AddSpansAt
      <4> QED BY <2>1, <3>1, <4>1, <4>2 DEF CopyIn
    <3>2. CASE ~Covered(AddSpans(Len(data)), i)
      BY <1>1, <3>2 DEF CopyIn, Slots
    <3> QED BY <3>1, <3>2
  <2> QED BY <1>1, <1>4, <2>3, <2>4 DEF AddCopy, Returns, TypeOK, Slots
<1>5. ASSUME NEW n \in Sizes, ReadBegin(n) PROVE TypeOK'
  <2>1. ret' \in [op : {"read_begin"}, ok : BOOLEAN, out : Seq(Byte)]
    <3>1. n \in Nat
      BY RingBuffAssumption
    <3>2. CASE data_size < n
      <4>1. ret' = [op |-> "read_begin", ok |-> FALSE, out |-> <<>>]
        BY <1>5, <3>2 DEF ReadBegin, Returns
      <4>2. <<>> \in Seq(Byte)
        OBVIOUS
      <4> QED BY <4>1, <4>2
    <3>3. CASE ~(data_size < n)
      <4>1. CopyOut(ReadSpans(n), n) \in Seq(Byte)
        BY <1>1, <3>1, <3>3, CopyOutIsPrefix
      <4>2. ret' = [op |-> "read_begin", ok |-> TRUE,
                    out |-> CopyOut(ReadSpans(n), n)]
        BY <1>5, <3>3 DEF ReadBegin, Returns
      <4> QED BY <4>1, <4>2
    <3> QED BY <3>2, <3>3
  <2> QED BY <1>5, <2>1 DEF ReadBegin, TypeOK, Slots
<1>6. ASSUME NEW n \in Sizes, Delete(n)
      PROVE  tail' \in 0 .. len - 1 /\ buff' \in [0 .. len - 1 -> Byte]
  <2>1. CASE Deletable(n)
    <3>1. (tail + n) % len \in 0 .. len - 1
      BY <1>1, RingBuffAssumption
    <3>2. Fill(ReadSpans(n)) \in [0 .. len - 1 -> Byte]
      BY <1>1, RingBuffAssumption DEF Fill, Slots
    <3> QED BY <1>6, <2>1, <3>1, <3>2 DEF Delete
  <2>2. CASE ~Deletable(n)
    BY <1>1, <1>6, <2>2 DEF Delete
  <2> QED BY <2>1, <2>2
<1>7. ASSUME NEW n \in Sizes, DelData(n) PROVE TypeOK'
  <2>1. ret' \in [op : {"del_data"}, ok : BOOLEAN, out : Seq(Byte)]
    BY <1>7 DEF DelData, Returns, Deletable
  <2>2. tail' \in 0 .. len - 1 /\ buff' \in [0 .. len - 1 -> Byte]
    BY <1>6, <1>7 DEF DelData
  <2> QED BY <1>1, <1>7, <2>1, <2>2 DEF DelData, TypeOK, Slots
<1>8. ASSUME NEW n \in Sizes, ReadDelBegin(n) PROVE TypeOK'
  <2> DEFINE o == IF n <= data_size THEN CopyOut(ReadSpans(n), n) ELSE <<>>
  <2>1. o \in Seq(Byte)
    BY <1>1, RingBuffAssumption, CopyOutIsPrefix
  <2>2. ret' \in [op : {"read_del_begin"}, ok : BOOLEAN, out : Seq(Byte)]
    <3>1. ret' = [op |-> "read_del_begin", ok |-> Deletable(n), out |-> o]
      BY <1>8 DEF ReadDelBegin, Returns
    <3>2. Deletable(n) \in BOOLEAN
      BY DEF Deletable
    <3> QED BY <2>1, <3>1, <3>2
  <2>3. tail' \in 0 .. len - 1 /\ buff' \in [0 .. len - 1 -> Byte]
    BY <1>6, <1>8 DEF ReadDelBegin
  <2> QED BY <1>1, <1>8, <2>2, <2>3 DEF ReadDelBegin, TypeOK, Slots
<1>9. CASE Step
  <2>1. (tail + Len(ret.out)) % len \in 0 .. len - 1
    BY <1>1
  <2> QED BY <1>1, <1>9, <2>1 DEF Step, Returns, TypeOK, Slots
<1>10. CASE UNCHANGED vars
  BY <1>10 DEF vars, TypeOK, Slots
<1> QED BY <1>2, <1>3, <1>4, <1>5, <1>7, <1>8, <1>9, <1>10 DEF Next, Add

(* The slots a deletion zero-fills are among those it steps over.          *)
LEMMA DeleteAdvances ==
  ASSUME TypeOK, TypeOK', NEW n \in Nat, n <= data_size, Delete(n),
         len' = len, head' = head
  PROVE  /\ Contents' = SubSeq(Contents, n + 1, Len(Contents))
         /\ data_size' = data_size - n
<1>1. /\ len \in Nat /\ len > 0 /\ tail \in 0 .. len - 1
      /\ buff \in [0 .. len - 1 -> Byte]
  BY DataSize DEF TypeOK, Slots
<1>2. tail' = (tail + n) % len
  <2>1. CASE n = 0
    <3>1. tail % len = tail
      BY <1>1, WrapOnce
    <3> QED BY <1>1, <2>1, <3>1 DEF Delete, Deletable
  <2>2. CASE n # 0
    BY <2>2 DEF Delete, Deletable
  <2> QED BY <2>1, <2>2
<1>3. \A i \in Slots : buff'[i] = buff[i] \/ Covered(ReadSpans(n), i)
  BY <1>1 DEF Delete, Fill, Slots
<1> QED BY <1>2, <1>3, TailAdvance

LEMMA NextIInv == IInv /\ [Next]_vars => IInv'
<1> SUFFICES ASSUME IInv, [Next]_vars PROVE IInv'
  OBVIOUS
<1> USE DEF IInv
<1>1. TypeOK /\ PeekedIsThere /\ TypeOK'
  BY NextTypeOK
<1>2. ASSUME NEW d \in Data, AddBegin(d) PROVE PeekedIsThere'
  BY <1>1, <1>2 DEF AddBegin, PeekedIsThere, data_size, left_size
<1>3. CASE AppendSize
  <2>1. data_size' = data_size
    BY <1>1, <1>3, AppendKeepsContents
  <2> QED BY <1>1, <1>3, <2>1 DEF AppendSize, PeekedIsThere
<1>4. CASE AddCopy
  BY <1>1, <1>4 DEF AddCopy, Returns, PeekedIsThere
<1>5. ASSUME NEW n \in Sizes, ReadBegin(n) PROVE PeekedIsThere'
  <2>1. data_size' = data_size
    BY <1>5 DEF ReadBegin, data_size, left_size
  <2>2. CASE data_size < n
    BY <1>5, <2>2 DEF ReadBegin, Returns, PeekedIsThere
  <2>3. CASE ~(data_size < n)
    <3>1. n \in Nat /\ data_size \in Nat
      BY <1>1, DataSize, RingBuffAssumption DEF TypeOK
    <3>2. Len(CopyOut(ReadSpans(n), n)) = n
      BY <1>1, <2>3, <3>1, CopyOutIsPrefix
    <3>3. Len(ret'.out) = n
      BY <1>5, <2>3, <3>2 DEF ReadBegin, Returns
    <3> QED BY <2>1, <2>3, <3>1, <3>3 DEF PeekedIsThere
  <2> QED BY <2>2, <2>3
<1>6. ASSUME NEW n \in Sizes, DelData(n) PROVE PeekedIsThere'
  BY <1>6 DEF DelData, Returns, PeekedIsThere
<1>7. ASSUME NEW n \in Sizes, ReadDelBegin(n) PROVE PeekedIsThere'
  BY <1>7 DEF ReadDelBegin, Returns, PeekedIsThere
<1>8. CASE Step
  BY <1>1, <1>8 DEF Step, Returns, PeekedIsThere
<1>9. CASE UNCHANGED vars
  BY <1>1, <1>9 DEF vars, PeekedIsThere, data_size, left_size
<1>10. PeekedIsThere'
  BY <1>2, <1>3, <1>4, <1>5, <1>6, <1>7, <1>8, <1>9 DEF Next, Add
<1> QED BY <1>1, <1>10

LEMMA InvariantIInv == Spec => []IInv
BY InitIInv, NextIInv, PTL DEF Spec

(* _head and _tail stay inside _buff whatever is added, read and deleted.  *)
THEOREM TypeCorrect == Spec => []TypeOK
<1>1. IInv => TypeOK
  BY DEF IInv
<1> QED BY <1>1, InvariantIInv, PTL

-----------------------------------------------------------------------------
(* No stdcopy or fill_n of any operation leaves _buff, and add_data never  *)
(* overwrites a byte that was not read yet.                                *)
LEMMA SpansInsideHolds == TypeOK => SpansInside
<1> SUFFICES ASSUME TypeOK PROVE SpansInside
  OBVIOUS
<1>1. /\ len \in Nat /\ len > 0 /\ head \in 0 .. len - 1
      /\ tail \in 0 .. len - 1 /\ data_size \in 0 .. len - 1
      /\ data_size = IF tail <= head THEN head - tail ELSE len - tail + head
      /\ left_size = len - data_size
  BY DataSize DEF TypeOK, Slots
<1>2. ASSUME NEW n \in Sizes, n <= data_size,
             NEW k \in 1 .. Len(ReadSpans(n))
      PROVE  SpanInside(ReadSpans(n)[k])
  <2>1. n \in Nat
    BY RingBuffAssumption
  <2>2. CASE head >= tail \/ len - tail >= n
    <3>1. ReadSpans(n) = <<<<tail, n>>>>
      BY <2>2 DEF ReadSpans, OneSpan
    <3>2. ReadSpans(n)[k] = <<tail, n>>
      BY <1>2, <3>1
    <3> QED BY <1>1, <1>2, <2>1, <2>2, <3>2 DEF SpanInside
  <2>3. CASE ~(head >= tail \/ len - tail >= n)
    <3>1. ReadSpans(n) = <<<<tail, len - tail>>, <<0, n - (len - tail)>>>>
      BY <2>3 DEF ReadSpans, TwoSpans
    <3>2. ReadSpans(n)[k] \in {<<tail, len - tail>>, <<0, n - (len - tail)>>}
      BY <1>2, <3>1
    <3> QED BY <1>1, <1>2, <2>1, <2>3, <3>2 DEF SpanInside
  <2> QED BY <2>2, <2>3
<1>3. ASSUME data # <<>>, ~MoreRoomNeeded
      PROVE  /\ Len(data) \in Nat /\ Len(data) > 0
             /\ data_size + Len(data) < len
  <2>1. data \in Seq(Byte) /\ Len(data) \in Nat /\ Len(data) > 0
    BY <1>3, RingBuffAssumption DEF TypeOK
  <2> QED BY <1>1, <1>3, <2>1 DEF MoreRoomNeeded
<1>4. ASSUME data # <<>>, ~MoreRoomNeeded,
             NEW k \in 1 .. Len(AddSpans(Len(data)))
      PROVE  SpanInside(AddSpans(Len(data))[k])
  <2> DEFINE n == Len(data)
  <2>1. n \in Nat /\ n > 0 /\ data_size + n < len
    BY <1>3, <1>4
  <2> HIDE DEF n
  <2>2. CASE head < tail \/ len - head >= n
    <3>1. AddSpans(n) = <<<<head, n>>>>
      BY <2>2 DEF AddSpans, OneSpan
    <3>2. AddSpans(n)[k] = <<head, n>>
      BY <1>4, <3>1 DEF n
    <3>3. SpanInside(AddSpans(n)[k])
      BY <1>1, <2>1, <2>2, <3>2 DEF SpanInside
    <3> QED BY <3>3 DEF n
  <2>3. CASE ~(head < tail \/ len - head >= n)
    <3>1. AddSpans(n) = <<<<head, len - head>>, <<0, n - (len - head)>>>>
      BY <2>3 DEF AddSpans, TwoSpans
    <3>2. AddSpans(n)[k] \in {<<head, len - head>>, <<0, n - (len - head)>>}
      BY <1>4, <3>1 DEF n
    <3>3. SpanInside(AddSpans(n)[k])
      BY <1>1, <2>1, <2>3, <3>2 DEF SpanInside
    <3> QED BY <3>3 DEF n
  <2> QED BY <2>2, <2>3
<1>5. ASSUME data # <<>>, ~MoreRoomNeeded, NEW i \in Slots,
             Covered(AddSpans(Len(data)), i)
      PROVE  ~Unread(i)
  <2> DEFINE n == Len(data)
  <2>1. n \in Nat /\ n > 0 /\ data_size + n < len
    BY <1>3, <1>5
  <2>2. PICK k \in 1 .. n : i = FreeSlot(k)
    BY <1>5, <2>1, AddSpansAt
  <2> SUFFICES ASSUME NEW u \in 1 .. data_size, i = (tail + u - 1) % len
               PROVE  FALSE
    BY DEF Unread
  <2> HIDE DEF n
  <2>3. tail + u - 1 \in 0 .. 2 * len - 1
    BY <1>1
  <2>4. i = IF tail + u - 1 < len THEN tail + u - 1 ELSE tail + u - 1 - len
    BY <1>1, <2>3, WrapOnce
  <2> QED BY <1>1, <2>1, <2>2, <2>4 DEF FreeSlot
<1> QED BY <1>2, <1>4, <1>5 DEF SpansInside

(* No copy leaves the array, and add_data's overwrites no unread byte,     *)
(* wherever the spans wrap around.                                         *)
THEOREM CopiesStayInside == Spec => []SpansInside
BY TypeCorrect, SpansInsideHolds, PTL

-----------------------------------------------------------------------------
(* RingBuff implements ByteQueue: each step is the queue's or a stutter.   *)
LEMMA InitRefines == Init => Queue!Init
<1> SUFFICES ASSUME Init PROVE Queue!Init
  OBVIOUS
<1>1. TypeOK /\ data_size = 0
  BY InitIInv, RingBuffAssumption DEF IInv, Init, data_size, left_size
<1>2. Contents = <<>>
  BY <1>1, ContentsAt DEF ContentsAsSlots
<1> QED BY <1>2 DEF Init, Queue!Init

LEMMA NextRefines == IInv /\ IInv' /\ [Next]_vars => [Queue!Next]_(Queue!vars)
<1> SUFFICES ASSUME IInv, IInv', [Next]_vars
             PROVE  [Queue!Next]_(Queue!vars)
  OBVIOUS
<1> USE DEF IInv, Queue!Returns, Returns
<1>1. /\ TypeOK /\ PeekedIsThere /\ TypeOK'
      /\ Contents \in Seq(Byte) /\ Len(Contents) = data_size
      /\ data_size \in Nat
  BY ContentsAt, DataSize DEF ContentsAsSlots, TypeOK
<1>2. ASSUME NEW d \in Data, AddBegin(d) PROVE UNCHANGED Queue!vars
  BY <1>2 DEF AddBegin, Queue!vars, Contents, data_size, left_size
<1>3. CASE AppendSize
  BY <1>1, <1>3, AppendKeepsContents DEF AppendSize, Queue!vars
<1>4. CASE AddCopy
  <2>1. Contents' = Contents \o data
    BY <1>1, <1>4, AddCopyAppends
  <2>2. data \in Data
    BY <1>1, <1>4 DEF AddCopy, TypeOK
  <2>3. Queue!Add(data)
    BY <1>4, <2>1 DEF AddCopy, Queue!Add
  <2> QED BY <2>2, <2>3 DEF Queue!Next
<1>5. ASSUME NEW n \in Sizes, ReadBegin(n) PROVE Queue!ReadBegin(n)
  <2>1. n \in Nat
    BY RingBuffAssumption
  <2>2. Contents' = Contents
    BY <1>5 DEF ReadBegin, Contents, data_size, left_size
  <2>3. CASE n <= data_size
    <3>1. CopyOut(ReadSpans(n), n) = SubSeq(Contents, 1, n)
      BY <1>1, <2>1, <2>3, CopyOutIsPrefix
    <3>2. ~(data_size < n)
      BY <1>1, <2>1, <2>3
    <3> QED BY <1>1, <1>5, <2>2, <2>3, <3>1, <3>2
            DEF ReadBegin, Queue!ReadBegin, Queue!Prefix
  <2>4. CASE ~(n <= data_size)
    <3>1. data_size < n
      BY <1>1, <2>1, <2>4
    <3> QED BY <1>1, <1>5, <2>2, <2>4, <3>1 DEF ReadBegin, Queue!ReadBegin
  <2> QED BY <2>3, <2>4
<1>6. ASSUME NEW n \in Sizes, Delete(n), len' = len, head' = head
      PROVE  Contents' = IF n <= Len(Contents)
                           THEN SubSeq(Contents, n + 1, Len(Contents))
                           ELSE Contents
  <2>1. CASE n <= data_size
    BY <1>1, <1>6, <2>1, RingBuffAssumption, DeleteAdvances
  <2>2. CASE ~(n <= data_size)
    BY <1>1, <1>6, <2>2
       DEF Delete, Deletable, Contents, data_size, left_size
  <2> QED BY <1>1, <2>1, <2>2
<1>7. ASSUME NEW n \in Sizes, DelData(n) PROVE Queue!DelData(n)
  <2>1. Delete(n) /\ len' = len /\ head' = head
    BY <1>7 DEF DelData
  <2>2. Contents' = IF n <= Len(Contents)
                      THEN SubSeq(Contents, n + 1, Len(Contents))
                      ELSE Contents
    BY <1>6, <2>1
  <2> QED BY <1>1, <1>7, <2>2
          DEF DelData, Deletable, Queue!DelData, Queue!Rest
<1>8. ASSUME NEW n \in Sizes, ReadDelBegin(n) PROVE Queue!ReadDelBegin(n)
  <2>1. Delete(n) /\ len' = len /\ head' = head
    BY <1>8 DEF ReadDelBegin
  <2>2. Contents' = IF n <= Len(Contents)
                      THEN SubSeq(Contents, n + 1, Len(Contents))
                      ELSE Contents
    BY <1>6, <2>1
  <2>3. n <= data_size => CopyOut(ReadSpans(n), n) = SubSeq(Contents, 1, n)
    BY <1>1, RingBuffAssumption, CopyOutIsPrefix
  <2> QED BY <1>1, <1>8, <2>2, <2>3
          DEF ReadDelBegin, Deletable, Queue!ReadDelBegin, Queue!Rest,
              Queue!Prefix
<1>9. CASE Step
  <2> DEFINE n == Len(ret.out)
  <2>1. n \in Nat /\ n <= data_size
    BY <1>1, <1>9 DEF Step, PeekedIsThere, TypeOK
  <2>2. Contents' = SubSeq(Contents, n + 1, Len(Contents))
    BY <1>1, <1>9, <2>1, TailAdvance DEF Step, Slots
  <2> QED BY <1>9, <2>2 DEF Step, Queue!Step, Queue!Rest, Queue!Next
<1>10. CASE UNCHANGED vars
  BY <1>10 DEF vars, Queue!vars, Contents, data_size, left_size
<1> QED BY <1>2, <1>3, <1>4, <1>5, <1>7, <1>8, <1>9, <1>10
        DEF Next, Add, Queue!Next

(* Whatever is added, grown, read and deleted, the buffer is a FIFO queue. *)
THEOREM Refinement == Spec => ImplementsByteQueue
BY InvariantIInv, InitRefines, NextRefines, PTL
   DEF Spec, ImplementsByteQueue, Queue!Spec
=============================================================================
