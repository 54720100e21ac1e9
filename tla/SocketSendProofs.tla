---------------------------- MODULE SocketSendProofs ----------------------------
(***************************************************************************)
(* Theorems about SocketSend, for any sizes of pieces and of the kernel's  *)
(* buffer, and any lengths and number of messages.                         *)
(***************************************************************************)
EXTENDS SocketSend, SequenceTheorems, TLAPS

(* Facts about sequences the steps below rest on.  A piece that is cut off *)
(* in front and what is left behind it, or behind more of it.              *)
LEMMA Cut ==
  ASSUME NEW S, NEW d \in Seq(S), NEW m \in Nat, NEW n \in Nat,
         m <= n, n <= Len(d)
  PROVE  LET p == SubSeq(d, 1, m)
             q == SubSeq(d, n + 1, Len(d))
         IN  /\ p \in Seq(S) /\ q \in Seq(S)
             /\ Range(p) \subseteq Range(d) /\ Range(q) \subseteq Range(d)
             /\ m = n => p \o q = d
             /\ IsInjective(d) =>
                  IsInjective(p) /\ IsInjective(q) /\ Range(p) \cap Range(q) = {}
<1> DEFINE p == SubSeq(d, 1, m)
           q == SubSeq(d, n + 1, Len(d))
<1>1. Len(d) \in Nat /\ DOMAIN d = 1 .. Len(d) /\ \A i \in 1 .. Len(d) : d[i] \in S
  BY LenProperties, ElementOfSeq
<1>2. /\ p \in Seq(S) /\ Len(p) = m /\ \A i \in 1 .. m : p[i] = d[i]
  <2>1. \A i \in 1 .. m : d[i] \in S
    BY <1>1
  <2>2. /\ p \in Seq(S) /\ Len(p) = (IF 1 <= m THEN m - 1 + 1 ELSE 0)
        /\ \A i \in 1 .. m - 1 + 1 : p[i] = d[1 + i - 1]
    BY <2>1, SubSeqProperties
  <2> QED BY <2>2
<1>3. /\ q \in Seq(S) /\ Len(q) = Len(d) - n
      /\ \A i \in 1 .. Len(d) - n : q[i] = d[n + i]
  <2>1. \A i \in n + 1 .. Len(d) : d[i] \in S
    BY <1>1
  <2>2. n + 1 \in Int /\ Len(d) \in Int /\ n <= Len(d)
    BY <1>1
  <2>3. /\ q \in Seq(S)
        /\ Len(q) = IF n + 1 <= Len(d) THEN Len(d) - (n + 1) + 1 ELSE 0
        /\ \A i \in 1 .. Len(d) - (n + 1) + 1 : q[i] = d[(n + 1) + i - 1]
    BY <2>1, <2>2, SubSeqProperties
  <2> DEFINE k == Len(d)
  <2>4. k \in Nat /\ n <= k
    BY <1>1
  <2> HIDE DEF q, k
  <2>5. Len(q) = IF n + 1 <= k THEN k - (n + 1) + 1 ELSE 0
    BY <2>3 DEF k
  <2>6. Len(q) = k - n
    BY <2>4, <2>5
  <2>7. \A i \in 1 .. k - n : i \in 1 .. k - (n + 1) + 1 /\ (n + 1) + i - 1 = n + i
    BY <2>4
  <2>8. \A i \in 1 .. k - n : q[i] = d[n + i]
    BY <2>3, <2>7, Zenon DEF k
  <2> QED BY <2>3, <2>6, <2>8 DEF k
<1>4. DOMAIN p = 1 .. m /\ DOMAIN q = 1 .. Len(d) - n
  BY <1>2, <1>3, LenProperties
<1> HIDE DEF p, q
<1>5. \A i \in DOMAIN p : i \in DOMAIN d /\ i <= n /\ p[i] = d[i]
  BY <1>1, <1>2, <1>4
<1>6. \A i \in DOMAIN q : n + i \in DOMAIN d /\ n + i > n /\ i \in Nat /\ q[i] = d[n + i]
  BY <1>1, <1>3, <1>4
<1>7. Range(p) \subseteq Range(d) /\ Range(q) \subseteq Range(d)
  BY <1>5, <1>6, Zenon DEF Range
<1>8. ASSUME m = n PROVE p \o q = d
  <2>1. /\ p \o q \in Seq(S) /\ Len(p \o q) = Len(p) + Len(q)
        /\ \A i \in 1 .. Len(p) + Len(q) :
             (p \o q)[i] = IF i <= Len(p) THEN p[i] ELSE q[i - Len(p)]
    BY <1>2, <1>3, ConcatProperties
  <2>2. Len(p \o q) = Len(d)
    BY <1>1, <1>2, <1>3, <1>8, <2>1
  <2>3. ASSUME NEW i \in 1 .. Len(d) PROVE (p \o q)[i] = d[i]
    <3>1. CASE i <= m
      BY <1>1, <1>2, <1>3, <1>8, <2>1, <2>2, <3>1
    <3>2. CASE ~(i <= m)
      <4>1. i - m \in 1 .. Len(d) - n /\ n + (i - m) = i
        BY <1>1, <1>8, <3>2
      <4>2. q[i - m] = d[i]
        BY <1>3, <4>1
      <4> QED BY <1>2, <2>1, <2>2, <3>2, <4>2
    <3> QED BY <3>1, <3>2
  <2> QED BY <2>1, <2>2, <2>3, SeqEqual
<1>9. ASSUME IsInjective(d)
      PROVE  IsInjective(p) /\ IsInjective(q) /\ Range(p) \cap Range(q) = {}
  <2>1. IsInjective(p)
    BY <1>5, <1>9, Zenon DEF IsInjective
  <2>2. ASSUME NEW i \in DOMAIN q, NEW j \in DOMAIN q, q[i] = q[j] PROVE i = j
    <3>1. n + i = n + j
      BY <1>6, <1>9, <2>2, Zenon DEF IsInjective
    <3> QED BY <1>6, <3>1
  <2>3. ASSUME NEW i \in DOMAIN p, NEW j \in DOMAIN q PROVE p[i] # q[j]
    <3>1. i # n + j
      BY <1>4, <1>5, <1>6
    <3> QED BY <1>5, <1>6, <1>9, <3>1, Zenon DEF IsInjective
  <2>4. Range(p) \cap Range(q) = {}
    BY <2>3, Zenon DEF Range
  <2> QED BY <2>1, <2>2, <2>4, Zenon DEF IsInjective
<1> QED BY <1>2, <1>3, <1>7, <1>8, <1>9 DEF p, q

(* Of a concatenation: nothing is in it twice if nothing is in a part of   *)
(* it twice and the parts share nothing.                                   *)
LEMMA InjectiveConcat ==
  ASSUME NEW S, NEW s \in Seq(S), NEW t \in Seq(S)
  PROVE  IsInjective(s \o t) <=>
           IsInjective(s) /\ IsInjective(t) /\ Range(s) \cap Range(t) = {}
<1> DEFINE u == s \o t
<1>1. /\ Len(s) \in Nat /\ DOMAIN s = 1 .. Len(s)
      /\ Len(t) \in Nat /\ DOMAIN t = 1 .. Len(t)
  BY LenProperties
<1>2. /\ DOMAIN u = 1 .. Len(s) + Len(t)
      /\ \A i \in 1 .. Len(s) + Len(t) :
           u[i] = IF i <= Len(s) THEN s[i] ELSE t[i - Len(s)]
  BY ConcatProperties, LenProperties
<1> HIDE DEF u
<1>3. \A i \in DOMAIN s : i \in DOMAIN u /\ i <= Len(s) /\ u[i] = s[i]
  BY <1>1, <1>2
<1>4. \A i \in DOMAIN t : /\ Len(s) + i \in DOMAIN u /\ Len(s) + i > Len(s)
                          /\ i \in Nat /\ u[Len(s) + i] = t[i]
  <2> SUFFICES ASSUME NEW i \in DOMAIN t
               PROVE  /\ Len(s) + i \in DOMAIN u /\ Len(s) + i > Len(s)
                      /\ i \in Nat /\ u[Len(s) + i] = t[i]
    OBVIOUS
  <2>1. i \in Nat /\ Len(s) + i \in 1 .. Len(s) + Len(t) /\ Len(s) + i > Len(s)
    BY <1>1
  <2>2. (Len(s) + i) - Len(s) = i
    BY <1>1, <2>1
  <2> QED BY <1>1, <1>2, <2>1, <2>2
<1>5. ASSUME IsInjective(u)
      PROVE  IsInjective(s) /\ IsInjective(t) /\ Range(s) \cap Range(t) = {}
  <2>1. IsInjective(s)
    BY <1>3, <1>5, Zenon DEF IsInjective
  <2>2. ASSUME NEW i \in DOMAIN t, NEW j \in DOMAIN t, t[i] = t[j] PROVE i = j
    <3>1. Len(s) + i = Len(s) + j
      BY <1>4, <1>5, <2>2, Zenon DEF IsInjective
    <3> QED BY <1>1, <1>4, <3>1
  <2>3. ASSUME NEW i \in DOMAIN s, NEW j \in DOMAIN t PROVE s[i] # t[j]
    <3>1. i # Len(s) + j
      BY <1>1, <1>3, <1>4
    <3> QED BY <1>3, <1>4, <1>5, <3>1, Zenon DEF IsInjective
  <2>4. Range(s) \cap Range(t) = {}
    BY <2>3, Zenon DEF Range
  <2> QED BY <2>1, <2>2, <2>4, Zenon DEF IsInjective
<1>6. ASSUME IsInjective(s), IsInjective(t), Range(s) \cap Range(t) = {}
      PROVE  IsInjective(u)
  <2>1. \A i \in DOMAIN u :
          \/ i \in DOMAIN s /\ u[i] = s[i]
          \/ i \in Nat /\ i - Len(s) \in DOMAIN t /\ u[i] = t[i - Len(s)]
    BY <1>1, <1>2
  <2>2. \A i \in DOMAIN s, j \in DOMAIN t : s[i] # t[j]
    BY <1>6, Zenon DEF Range
  <2>3. ASSUME NEW i \in DOMAIN u, NEW j \in DOMAIN u, u[i] = u[j] PROVE i = j
    <3>1. CASE i \in DOMAIN s /\ u[i] = s[i] /\ j \in DOMAIN s /\ u[j] = s[j]
      BY <1>6, <2>3, <3>1, Zenon DEF IsInjective
    <3>2. CASE /\ i \in Nat /\ i - Len(s) \in DOMAIN t /\ u[i] = t[i - Len(s)]
               /\ j \in Nat /\ j - Len(s) \in DOMAIN t /\ u[j] = t[j - Len(s)]
      <4>1. i - Len(s) = j - Len(s)
        BY <1>6, <2>3, <3>2, Zenon DEF IsInjective
      <4> QED BY <1>1, <3>2, <4>1
    <3> QED BY <2>1, <2>2, <2>3, <3>1, <3>2
  <2> QED BY <2>3, Zenon DEF IsInjective
<1> QED BY <1>5, <1>6 DEF u

(* The four sequences a byte may be in, as one.                            *)
Joined(a, b, c, d) == (a \o b) \o (c \o d)
Apart(a, b, c, d) ==
  /\ IsInjective(a) /\ IsInjective(b) /\ IsInjective(c) /\ IsInjective(d)
  /\ Range(a) \cap Range(b) = {} /\ Range(c) \cap Range(d) = {}
  /\ (Range(a) \cup Range(b)) \cap (Range(c) \cup Range(d)) = {}
Within(a, b, c, d) == (Range(a) \cup Range(b)) \cup (Range(c) \cup Range(d))

LEMMA JoinedParts ==
  ASSUME NEW S, NEW a \in Seq(S), NEW b \in Seq(S), NEW c \in Seq(S), NEW d \in Seq(S)
  PROVE  /\ Range(Joined(a, b, c, d)) = Within(a, b, c, d)
         /\ IsInjective(Joined(a, b, c, d)) <=> Apart(a, b, c, d)
<1> DEFINE s == a \o b
           t == c \o d
<1>1. /\ s \in Seq(S) /\ Range(s) = Range(a) \cup Range(b)
      /\ IsInjective(s) <=>
           IsInjective(a) /\ IsInjective(b) /\ Range(a) \cap Range(b) = {}
  BY ConcatProperties, RangeConcatenation, InjectiveConcat
<1>2. /\ t \in Seq(S) /\ Range(t) = Range(c) \cup Range(d)
      /\ IsInjective(t) <=>
           IsInjective(c) /\ IsInjective(d) /\ Range(c) \cap Range(d) = {}
  BY ConcatProperties, RangeConcatenation, InjectiveConcat
<1> HIDE DEF s, t
<1>3. /\ Range(s \o t) = Range(s) \cup Range(t)
      /\ IsInjective(s \o t) <=>
           IsInjective(s) /\ IsInjective(t) /\ Range(s) \cap Range(t) = {}
  BY <1>1, <1>2, RangeConcatenation, InjectiveConcat
<1>4. Joined(a, b, c, d) = s \o t
  BY DEF Joined, s, t
<1> QED BY <1>1, <1>2, <1>3, <1>4 DEF Apart, Within

Byte == Nat \X Nat

LEMMA Assoc == \A s, t, u \in Seq(Byte) : (s \o t) \o u = s \o (t \o u)
BY ConcatAssociative

LEMMA Concat ==
  \A s, t \in Seq(Byte) : s \o t \in Seq(Byte) /\ s \o <<>> = s /\ <<>> \o s = s
BY ConcatProperties, ConcatEmptySeq

(* The same for given sequences, which the provers instantiate one by one. *)
LEMMA AssocOf ==
  ASSUME NEW s \in Seq(Byte)
  PROVE  \A t, u \in Seq(Byte) : (s \o t) \o u = s \o (t \o u)
BY Assoc, Zenon

LEMMA FourLeft ==
  ASSUME NEW p \in Seq(Byte), NEW q \in Seq(Byte)
  PROVE  \A r, s \in Seq(Byte) : (p \o q) \o (r \o s) = ((p \o q) \o r) \o s
<1> DEFINE pq == p \o q
<1>1. pq \in Seq(Byte)
  BY Concat, Zenon
<1> HIDE DEF pq
<1>2. \A r, s \in Seq(Byte) : pq \o (r \o s) = (pq \o r) \o s
  BY <1>1, AssocOf, Zenon
<1> QED BY <1>2, Zenon DEF pq

(* What is moved over a boundary between two of the four stays in place.   *)
LEMMA JoinedMoves ==
  \A a, b, c, d, e \in Seq(Byte) :
     /\ Joined(a \o e, b, c, d) = Joined(a, e \o b, c, d)
     /\ Joined(a, b \o e, c, d) = Joined(a, b, e \o c, d)
     /\ Joined(a, b, c, <<>>) = Joined(a, b, <<>>, c)
<1> SUFFICES ASSUME NEW a \in Seq(Byte), NEW b \in Seq(Byte), NEW c \in Seq(Byte),
                    NEW d \in Seq(Byte), NEW e \in Seq(Byte)
             PROVE  /\ Joined(a \o e, b, c, d) = Joined(a, e \o b, c, d)
                    /\ Joined(a, b \o e, c, d) = Joined(a, b, e \o c, d)
                    /\ Joined(a, b, c, <<>>) = Joined(a, b, <<>>, c)
  BY Zenon
<1>1. (a \o e) \o b = a \o (e \o b)
  <2>1. \A u \in Seq(Byte) : (a \o e) \o u = a \o (e \o u)
    BY AssocOf, Zenon
  <2> QED BY <2>1, Zenon
<1>2. (a \o (b \o e)) \o (c \o d) = (a \o b) \o ((e \o c) \o d)
  <2> DEFINE ab == a \o b
             cd == c \o d
  <2>1. ab \in Seq(Byte) /\ cd \in Seq(Byte)
    BY Concat, Zenon
  <2>2. \A u \in Seq(Byte) : (a \o b) \o u = a \o (b \o u)
    BY AssocOf, Zenon
  <2>3. \A u \in Seq(Byte) : (e \o c) \o u = e \o (c \o u)
    BY AssocOf, Zenon
  <2>4. a \o (b \o e) = ab \o e /\ (e \o c) \o d = e \o cd
    BY <2>2, <2>3, Zenon
  <2> HIDE DEF ab, cd
  <2>5. \A u \in Seq(Byte) : (ab \o e) \o u = ab \o (e \o u)
    BY <2>1, AssocOf, Zenon
  <2>6. (ab \o e) \o cd = ab \o (e \o cd)
    BY <2>1, <2>5, Zenon
  <2> QED BY <2>4, <2>6, Zenon DEF ab, cd
<1>3. c \o <<>> = c /\ <<>> \o c = c
  BY Concat, Zenon
<1> QED BY <1>1, <1>2, <1>3, Zenon DEF Joined

LEMMA JoinedGrows ==
  \A a, b, d, e \in Seq(Byte) :
     Joined(a, b, <<>>, d \o e) = Joined(a, b, <<>>, d) \o e
<1> SUFFICES ASSUME NEW a \in Seq(Byte), NEW b \in Seq(Byte),
                    NEW d \in Seq(Byte), NEW e \in Seq(Byte)
             PROVE  Joined(a, b, <<>>, d \o e) = Joined(a, b, <<>>, d) \o e
  BY Zenon
<1>1. d \o e \in Seq(Byte)
  BY Concat, Zenon
<1>2. \A r, s \in Seq(Byte) : (a \o b) \o (r \o s) = ((a \o b) \o r) \o s
  BY FourLeft, Zenon
<1>3. (a \o b) \o (d \o e) = ((a \o b) \o d) \o e
  BY <1>2, Zenon
<1>4. <<>> \o (d \o e) = d \o e /\ <<>> \o d = d
  BY <1>1, Concat, Zenon
<1> QED BY <1>3, <1>4, Zenon DEF Joined

(* The bytes of a message.                                                 *)
LEMMA BytesOfMessage ==
  ASSUME NEW n \in Nat, NEW len \in Nat
  PROVE  /\ Bytes(n, len) \in Seq(Byte)
         /\ IsInjective(Bytes(n, len))
         /\ \A b \in Range(Bytes(n, len)) : b[1] = n
<1>1. Bytes(n, len) \in [1 .. len -> Byte]
  BY DEF Bytes, Byte
<1>2. Bytes(n, len) \in Seq(Byte)
  BY <1>1, SeqDef
<1>3. IsInjective(Bytes(n, len))
  BY DEF Bytes, IsInjective
<1>4. \A b \in Range(Bytes(n, len)) : b[1] = n
  BY DEF Bytes, Range
<1> QED BY <1>2, <1>3, <1>4
-----------------------------------------------------------------------------
(* The inductive invariant: only messages that were written have bytes     *)
(* anywhere, send has data only while it runs, and it runs with a full     *)
(* _wt_buff only if a message has overtaken it.                            *)
SendTypes ==
  /\ written \in Nat
  /\ stream \in Seq(Byte) /\ got \in Seq(Byte) /\ kern \in Seq(Byte)
  /\ data \in Seq(Byte) /\ wt_buff \in Seq(Byte)
  /\ pc \in {"idle", "msg", "out", "in"}

SendOrder ==
  /\ pc = "idle" => data = <<>>
  /\ gone => "gone" \in trouble
  /\ pc # "idle" /\ wt_buff # <<>> => "overtaken" \in trouble

OnlyWritten == \A b \in Range(Kept) : b[1] <= written

IInv == SendTypes /\ SendOrder /\ OnlyWritten /\ NothingTwice /\ KeptInOrder

LEMMA InitIInv == Init => IInv
<1> SUFFICES ASSUME Init PROVE IInv
  OBVIOUS
<1>1. Kept = <<>> /\ stream = <<>>
  BY EmptySeq, ConcatEmptySeq DEF Init, Kept
<1>2. SendTypes /\ SendOrder
  BY EmptySeq DEF Init, SendTypes, SendOrder
<1>3. Range(Kept) = {} /\ IsInjective(Kept)
  BY <1>1 DEF Range, IsInjective
<1> QED BY <1>1, <1>2, <1>3 DEF IInv, OnlyWritten, NothingTwice, KeptInOrder

(* What the invariant says of the four parts.                              *)
LEMMA Parts ==
  ASSUME SendTypes
  PROVE  /\ Kept = Joined(got, kern, data, wt_buff)
         /\ Range(Kept) = Within(got, kern, data, wt_buff)
         /\ NothingTwice <=> Apart(got, kern, data, wt_buff)
<1>1. Kept = Joined(got, kern, data, wt_buff)
  BY DEF Kept, Joined
<1>2. /\ got \in Seq(Byte) /\ kern \in Seq(Byte)
      /\ data \in Seq(Byte) /\ wt_buff \in Seq(Byte)
  BY DEF SendTypes
<1> QED BY <1>1, <1>2, JoinedParts DEF NothingTwice

LEMMA PartsNext ==
  ASSUME SendTypes'
  PROVE  /\ Kept' = Joined(got', kern', data', wt_buff')
         /\ Range(Kept') = Within(got', kern', data', wt_buff')
         /\ NothingTwice' <=> Apart(got', kern', data', wt_buff')
<1>1. Kept' = Joined(got', kern', data', wt_buff')
  BY DEF Kept, Joined
<1>2. /\ got' \in Seq(Byte) /\ kern' \in Seq(Byte)
      /\ data' \in Seq(Byte) /\ wt_buff' \in Seq(Byte)
  BY DEF SendTypes
<1> QED BY <1>1, <1>2, JoinedParts DEF NothingTwice

LEMMA NothingIn == Range(<<>>) = {} /\ IsInjective(<<>>)
BY DEF Range, IsInjective

(* What the kernel takes from one end it has at the other.                 *)
LEMMA PeerReadsKeeps ==
  ASSUME SendTypes, PeerReads
  PROVE  SendTypes' /\ Kept' = Kept
<1>1. /\ kern # <<>> /\ got' = Append(got, Head(kern)) /\ kern' = Tail(kern)
      /\ UNCHANGED <<written, stream, data, wt_buff, pc>>
  BY DEF PeerReads, nodeVars, sendVars
<1>2. /\ Head(kern) \in Byte /\ Tail(kern) \in Seq(Byte)
      /\ got' = got \o <<Head(kern)>> /\ got' \in Seq(Byte)
  BY <1>1, HeadTailProperties, AppendIsConcat, AppendProperties DEF SendTypes
<1>3. <<Head(kern)>> \in Seq(Byte) /\ <<Head(kern)>> \o Tail(kern) = kern
  BY <1>1, <1>2 DEF SendTypes
<1>4. SendTypes'
  BY <1>1, <1>2 DEF SendTypes
<1>5. Kept' = Joined(got \o <<Head(kern)>>, Tail(kern), data, wt_buff)
  BY <1>1, <1>2, <1>4, PartsNext, Zenon
<1>6. Kept = Joined(got, <<Head(kern)>> \o Tail(kern), data, wt_buff)
  BY <1>3, Parts, Zenon
<1> DEFINE h == <<Head(kern)>>
           t == Tail(kern)
<1>7. /\ h \in Seq(Byte) /\ t \in Seq(Byte)
      /\ got \in Seq(Byte) /\ data \in Seq(Byte) /\ wt_buff \in Seq(Byte)
  BY <1>2, <1>3 DEF SendTypes
<1> HIDE DEF h, t
<1>8. Joined(got \o h, t, data, wt_buff) = Joined(got, h \o t, data, wt_buff)
  BY <1>7, JoinedMoves
<1> QED BY <1>4, <1>5, <1>6, <1>8, Zenon DEF h, t

(* A message goes behind all there is, unless it overtakes what is in      *)
(* _wt_buff.                                                               *)
LEMMA WriteIInv ==
  ASSUME IInv, NEW len \in Lens, write_msg(len)
  PROVE  IInv'
<1> DEFINE bytes == Bytes(written + 1, len)
<1>1. /\ bytes \in Seq(Byte) /\ IsInjective(bytes)
      /\ \A b \in Range(bytes) : b[1] = written + 1
  <2>1. written + 1 \in Nat /\ len \in Nat
    BY SendAssumption DEF IInv, SendTypes
  <2> QED BY <2>1, BytesOfMessage
<1>2. /\ pc = "idle" /\ data = <<>>
      /\ written' = written + 1 /\ stream' = stream \o bytes
      /\ UNCHANGED <<kern, got, gone>>
      /\ trouble' = IF wt_buff = <<>> \/ ~can_wt
                      THEN trouble ELSE trouble \cup {"overtaken"}
      /\ IF can_wt THEN pc' = "msg" /\ data' = bytes /\ UNCHANGED wt_buff
                   ELSE wt_buff' = wt_buff \o bytes /\ UNCHANGED <<pc, data>>
  BY DEF write_msg, peerVars, sendVars, IInv, SendOrder
<1> HIDE DEF bytes
<1>3. /\ got \in Seq(Byte) /\ kern \in Seq(Byte) /\ wt_buff \in Seq(Byte)
      /\ stream \in Seq(Byte) /\ written \in Nat /\ <<>> \in Seq(Byte)
  BY EmptySeq DEF IInv, SendTypes
<1>4. Range(stream') = Range(stream) \cup Range(bytes) /\ stream' \in Seq(Byte)
  BY <1>1, <1>2, <1>3, RangeConcatenation, ConcatProperties
<1>5. /\ wt_buff \o bytes \in Seq(Byte)
      /\ Range(wt_buff \o bytes) = Range(wt_buff) \cup Range(bytes)
      /\ IsInjective(wt_buff \o bytes) <=> /\ IsInjective(wt_buff) /\ IsInjective(bytes)
                                         /\ Range(wt_buff) \cap Range(bytes) = {}
  BY <1>1, <1>3, RangeConcatenation, ConcatProperties, InjectiveConcat
<1>6. /\ Kept = Joined(got, kern, <<>>, wt_buff)
      /\ Range(Kept) = Within(got, kern, <<>>, wt_buff)
      /\ Apart(got, kern, <<>>, wt_buff)
  BY <1>2, Parts DEF IInv
<1>7. Range(bytes) \cap Range(Kept) = {}
  BY <1>1, <1>3 DEF IInv, OnlyWritten
<1>8. SendTypes'
  <2>1. /\ written' \in Nat /\ pc' \in {"idle", "msg", "out", "in"}
        /\ stream' \in Seq(Byte) /\ got' \in Seq(Byte) /\ kern' \in Seq(Byte)
    BY <1>2, <1>3, <1>4
  <2>2. data' \in Seq(Byte) /\ wt_buff' \in Seq(Byte)
    BY <1>1, <1>2, <1>3, <1>5, Zenon
  <2> QED BY <2>1, <2>2 DEF SendTypes
<1>9. SendOrder'
  BY <1>2 DEF SendOrder, IInv
<1>10. Range(Kept') = Range(Kept) \cup Range(bytes) /\ NothingTwice'
  <2>1. CASE can_wt
    <3>1. Within(got, kern, bytes, wt_buff) = Range(Kept) \cup Range(bytes)
      BY <1>6, NothingIn DEF Within
    <3>2. Apart(got, kern, bytes, wt_buff)
      BY <1>1, <1>6, <1>7, NothingIn DEF Apart, Within
    <3> QED BY <1>2, <1>8, <2>1, <3>1, <3>2, PartsNext
  <2>2. CASE ~can_wt
    <3>1. Within(got, kern, <<>>, wt_buff \o bytes) = Range(Kept) \cup Range(bytes)
      BY <1>5, <1>6, NothingIn DEF Within
    <3>2. Apart(got, kern, <<>>, wt_buff \o bytes)
      BY <1>1, <1>5, <1>6, <1>7, NothingIn DEF Apart, Within
    <3> QED BY <1>2, <1>8, <2>2, <3>1, <3>2, PartsNext
  <2> QED BY <2>1, <2>2
<1>11. ASSUME trouble' = {} PROVE Kept' = stream'
  <2>1. Kept = stream
    BY <1>2, <1>11 DEF IInv, KeptInOrder
  <2>2. Joined(got, kern, <<>>, wt_buff \o bytes) = Kept \o bytes
    <3>1. \A d, e \in Seq(Byte) :
            Joined(got, kern, <<>>, d \o e) = Joined(got, kern, <<>>, d) \o e
      BY <1>3, JoinedGrows, Zenon
    <3> QED BY <1>1, <1>3, <1>6, <3>1, Zenon
  <2>3. CASE can_wt
    <3>1. wt_buff = <<>> /\ data' = bytes /\ wt_buff' = <<>>
      BY <1>2, <1>11, <2>3
    <3>2. Joined(got, kern, bytes, <<>>) = Joined(got, kern, <<>>, bytes)
      BY <1>1, <1>3, JoinedMoves
    <3>3. <<>> \o bytes = bytes
      BY <1>1, ConcatEmptySeq
    <3> QED BY <1>2, <1>8, <2>1, <2>2, <3>1, <3>2, <3>3, PartsNext, Zenon
  <2>4. CASE ~can_wt
    BY <1>2, <1>8, <2>1, <2>2, <2>4, PartsNext, Zenon
  <2> QED BY <2>3, <2>4
<1>12. KeptInOrder'
  <2>1. {"short", "gone"} \cap trouble' = {} => {"short", "gone"} \cap trouble = {}
    BY <1>2
  <2> QED BY <1>4, <1>10, <1>11, <2>1 DEF KeptInOrder, IInv
<1>13. OnlyWritten'
  <2>1. \A b \in Range(Kept') : b[1] <= written \/ b[1] = written + 1
    BY <1>1, <1>10 DEF OnlyWritten, IInv
  <2>2. Range(Kept) \subseteq Byte /\ \A b \in Byte : b[1] \in Nat
    <3>1. Kept \in Seq(Byte)
      BY <1>3, Concat, Zenon DEF Kept, IInv, SendTypes
    <3> QED BY <3>1, RangeOfSeq DEF Byte
  <2>3. \A b \in Range(Kept') : b[1] <= written + 1
    BY <1>1, <1>3, <1>10, <2>1, <2>2
  <2> QED BY <1>2, <2>3 DEF OnlyWritten
<1> QED BY <1>8, <1>9, <1>10, <1>12, <1>13 DEF IInv

(* event_op moves what is in _wt_buff, as a whole, or moves nothing.       *)
LEMMA EventIInv ==
  ASSUME IInv, event_op
  PROVE  IInv'
<1>1. /\ pc = "idle" /\ data = <<>>
      /\ UNCHANGED <<written, stream, kern, got, gone, trouble>>
      /\ \/ wt_buff # <<>> /\ pc' \in {"out", "in"} /\ data' = wt_buff /\ wt_buff' = <<>>
         \/ UNCHANGED <<wt_buff, pc, data>>
  BY DEF event_op, flush, sendVars, IInv, SendOrder
<1>2. SendTypes' /\ SendOrder'
  BY <1>1, EmptySeq DEF SendTypes, SendOrder, IInv
<1>3. Joined(got, kern, wt_buff, <<>>) = Joined(got, kern, <<>>, wt_buff)
  BY JoinedMoves DEF IInv, SendTypes
<1>4. Kept' = Kept
  <2>1. Kept = Joined(got, kern, data, wt_buff)
    BY Parts DEF IInv
  <2>2. Kept' = Joined(got', kern', data', wt_buff')
    BY <1>2, PartsNext
  <2> QED BY <1>1, <1>3, <2>1, <2>2
<1> QED BY <1>1, <1>2, <1>4 DEF IInv, OnlyWritten, NothingTwice, KeptInOrder

(* The kernel takes a piece or a part of it.                               *)
LEMMA SendIInv ==
  ASSUME IInv, Send
  PROVE  IInv'
<1> DEFINE p == SubSeq(data, 1, Taken)
           q == SubSeq(data, one_len + 1, Len(data))
<1>1. /\ pc # "idle" /\ Taken > 0
      /\ kern' = kern \o p
      /\ UNCHANGED <<written, stream, got, gone, wt_buff>>
      /\ trouble' = IF Taken < one_len THEN trouble \cup {"short"} ELSE trouble
  BY DEF Send, peerVars
<1>2. /\ got \in Seq(Byte) /\ kern \in Seq(Byte)
      /\ data \in Seq(Byte) /\ wt_buff \in Seq(Byte)
  BY DEF IInv, SendTypes
<1>3. /\ Len(data) \in Nat /\ Len(kern) \in Nat
      /\ one_len \in Nat /\ one_len <= Len(data)
  <2>1. Len(data) \in Nat /\ Len(kern) \in Nat
    BY <1>2, LenProperties
  <2> QED BY <2>1, SendAssumption DEF one_len
<1>4. Taken \in Nat /\ Taken <= one_len
  BY <1>1, <1>3, SendAssumption DEF Taken
<1>5. data' = q /\ pc' \in {pc, "idle"} /\ (pc' = "idle" => q = <<>>)
  <2>1. CASE one_len < Len(data)
    BY <1>1, <2>1 DEF Send
  <2>2. CASE ~(one_len < Len(data))
    <3>1. data' = <<>> /\ pc' = "idle"
      BY <2>2 DEF Send, Returned
    <3>2. q = <<>>
      BY <1>3, <2>2, SubSeqEmpty
    <3> QED BY <3>1, <3>2
  <2> QED BY <2>1, <2>2
<1>6. /\ p \in Seq(Byte) /\ q \in Seq(Byte)
      /\ Range(p) \subseteq Range(data) /\ Range(q) \subseteq Range(data)
      /\ Taken = one_len => p \o q = data
      /\ IsInjective(data) =>
           IsInjective(p) /\ IsInjective(q) /\ Range(p) \cap Range(q) = {}
  BY <1>2, <1>3, <1>4, Cut
<1> HIDE DEF p, q
<1>7. /\ kern \o p \in Seq(Byte) /\ Range(kern \o p) = Range(kern) \cup Range(p)
      /\ IsInjective(kern \o p) <=>
           IsInjective(kern) /\ IsInjective(p) /\ Range(kern) \cap Range(p) = {}
  BY <1>2, <1>6, ConcatProperties, RangeConcatenation, InjectiveConcat
<1>8. SendTypes'
  BY <1>1, <1>5, <1>6, <1>7 DEF IInv, SendTypes
<1>9. SendOrder'
  BY <1>1, <1>5 DEF IInv, SendOrder
<1>10. /\ Kept = Joined(got, kern, data, wt_buff)
       /\ Range(Kept) = Within(got, kern, data, wt_buff)
       /\ Apart(got, kern, data, wt_buff)
  BY Parts DEF IInv
<1>11. /\ Kept' = Joined(got, kern \o p, q, wt_buff)
       /\ Range(Kept') = Within(got, kern \o p, q, wt_buff)
       /\ NothingTwice' <=> Apart(got, kern \o p, q, wt_buff)
  BY <1>1, <1>5, <1>8, PartsNext
<1>12. NothingTwice'
  BY <1>6, <1>7, <1>10, <1>11 DEF Apart
<1>13. OnlyWritten'
  <2>1. Range(Kept') \subseteq Range(Kept)
    BY <1>6, <1>7, <1>10, <1>11 DEF Within
  <2> QED BY <1>1, <2>1 DEF IInv, OnlyWritten
<1>14. KeptInOrder'
  <2>1. CASE Taken = one_len
    <3>1. Kept' = Kept
      <4>1. Joined(got, kern \o p, q, wt_buff) = Joined(got, kern, p \o q, wt_buff)
        BY <1>2, <1>6, JoinedMoves
      <4> QED BY <1>6, <1>10, <1>11, <2>1, <4>1, Zenon
    <3>2. UNCHANGED <<stream, trouble>>
      BY <1>1, <1>4, <2>1
    <3> QED BY <3>1, <3>2 DEF IInv, KeptInOrder
  <2>2. CASE Taken # one_len
    <3>1. "short" \in trouble'
      BY <1>1, <1>3, <1>4, <2>2
    <3> QED BY <3>1 DEF KeptInOrder
  <2> QED BY <2>1, <2>2
<1> QED BY <1>8, <1>9, <1>12, <1>13, <1>14 DEF IInv

(* What is refused goes behind what is in _wt_buff.                        *)
LEMMA RefusedIInv ==
  ASSUME IInv, SendRefused
  PROVE  IInv'
<1>1. /\ pc # "idle" /\ pc' = "idle" /\ data' = <<>>
      /\ wt_buff' = wt_buff \o data
      /\ UNCHANGED <<written, stream, kern, got, gone, trouble>>
  BY DEF SendRefused, Returned, peerVars
<1>2. /\ got \in Seq(Byte) /\ kern \in Seq(Byte)
      /\ data \in Seq(Byte) /\ wt_buff \in Seq(Byte) /\ <<>> \in Seq(Byte)
  BY EmptySeq DEF IInv, SendTypes
<1>3. /\ wt_buff \o data \in Seq(Byte)
      /\ Range(wt_buff \o data) = Range(wt_buff) \cup Range(data)
      /\ IsInjective(wt_buff \o data) <=> /\ IsInjective(wt_buff) /\ IsInjective(data)
                                        /\ Range(wt_buff) \cap Range(data) = {}
  BY <1>2, ConcatProperties, RangeConcatenation, InjectiveConcat
<1>4. SendTypes' /\ SendOrder'
  BY <1>1, <1>2, <1>3 DEF IInv, SendTypes, SendOrder
<1>5. /\ Kept = Joined(got, kern, data, wt_buff)
      /\ Range(Kept) = Within(got, kern, data, wt_buff)
      /\ Apart(got, kern, data, wt_buff)
  BY Parts DEF IInv
<1>6. /\ Kept' = Joined(got, kern, <<>>, wt_buff \o data)
      /\ Range(Kept') = Within(got, kern, <<>>, wt_buff \o data)
      /\ NothingTwice' <=> Apart(got, kern, <<>>, wt_buff \o data)
  BY <1>1, <1>4, PartsNext
<1>7. Range(Kept') = Range(Kept)
  BY <1>3, <1>5, <1>6, NothingIn DEF Within
<1>8. NothingTwice'
  BY <1>3, <1>5, <1>6, NothingIn DEF Apart
<1>9. ASSUME trouble = {} PROVE Kept' = Kept
  <2>1. wt_buff = <<>>
    BY <1>1, <1>9 DEF IInv, SendOrder
  <2>2. <<>> \o data = data
    BY <1>2, ConcatEmptySeq
  <2>3. Joined(got, kern, data, <<>>) = Joined(got, kern, <<>>, data)
    BY <1>2, JoinedMoves
  <2> QED BY <1>5, <1>6, <2>1, <2>2, <2>3, Zenon
<1> QED BY <1>1, <1>4, <1>7, <1>8, <1>9 DEF IInv, OnlyWritten, KeptInOrder

(* When the peer has gone the rest is dropped.                             *)
LEMMA FailsIInv ==
  ASSUME IInv, SendFails
  PROVE  IInv'
<1>1. /\ gone /\ pc # "idle" /\ pc' = "idle" /\ data' = <<>>
      /\ UNCHANGED <<written, stream, kern, got, gone, wt_buff, trouble>>
  BY DEF SendFails, Returned, peerVars
<1>2. SendTypes' /\ SendOrder'
  BY <1>1, EmptySeq DEF IInv, SendTypes, SendOrder
<1>3. /\ Range(Kept) = Within(got, kern, data, wt_buff)
      /\ Apart(got, kern, data, wt_buff)
  BY Parts DEF IInv
<1>4. /\ Range(Kept') = Within(got, kern, <<>>, wt_buff)
      /\ NothingTwice' <=> Apart(got, kern, <<>>, wt_buff)
  BY <1>1, <1>2, PartsNext
<1>5. NothingTwice'
  BY <1>3, <1>4, NothingIn DEF Apart
<1>6. OnlyWritten'
  <2>1. Range(Kept') \subseteq Range(Kept)
    BY <1>3, <1>4, NothingIn DEF Within
  <2> QED BY <1>1, <2>1 DEF IInv, OnlyWritten
<1>7. KeptInOrder'
  BY <1>1 DEF IInv, SendOrder, KeptInOrder
<1> QED BY <1>2, <1>5, <1>6, <1>7 DEF IInv

LEMMA StepIInv == IInv /\ [Next]_vars => IInv'
<1> SUFFICES ASSUME IInv, [Next]_vars PROVE IInv'
  OBVIOUS
<1>1. ASSUME NEW len \in Lens, write_msg(len) PROVE IInv'
  BY <1>1, WriteIInv
<1>2. CASE PeerReads
  <2>1. SendTypes' /\ Kept' = Kept
    BY <1>2, PeerReadsKeeps DEF IInv
  <2>2. UNCHANGED <<written, stream, gone, wt_buff, pc, data, trouble>>
    BY <1>2 DEF PeerReads, nodeVars, sendVars
  <2> QED BY <2>1, <2>2 DEF IInv, SendOrder, OnlyWritten, NothingTwice, KeptInOrder
<1>3. CASE PeerSpeaks
  <2>1. UNCHANGED <<written, stream, kern, got, gone, wt_buff, pc, data, trouble>>
    BY <1>3 DEF PeerSpeaks, nodeVars, sendVars
  <2> QED BY <2>1 DEF IInv, SendTypes, SendOrder, OnlyWritten, NothingTwice, KeptInOrder, Kept
<1>4. CASE PeerEnds
  <2>1. /\ UNCHANGED <<written, stream, kern, got, wt_buff, pc, data>>
        /\ trouble' = trouble \cup {"gone"}
    BY <1>4 DEF PeerEnds, nodeVars, sendVars
  <2>2. Kept' = Kept
    BY <2>1 DEF Kept
  <2>3. SendTypes' /\ SendOrder' /\ OnlyWritten' /\ NothingTwice'
    BY <2>1, <2>2 DEF IInv, SendTypes, SendOrder, OnlyWritten, NothingTwice
  <2>4. KeptInOrder'
    BY <2>1 DEF KeptInOrder
  <2> QED BY <2>3, <2>4 DEF IInv
<1>5. CASE UNCHANGED vars
  BY <1>5 DEF vars, peerVars, nodeVars, sendVars,
              IInv, SendTypes, SendOrder, OnlyWritten, NothingTwice, KeptInOrder, Kept
<1> QED BY <1>1, <1>2, <1>3, <1>4, <1>5, EventIInv, SendIInv, RefusedIInv, FailsIInv
        DEF Next, ThreadNext, Closed

(* The invariant holds in every state the sending of messages may reach.   *)
LEMMA AlwaysIInv == Spec => []IInv
BY InitIInv, StepIInv, PTL DEF Spec
-----------------------------------------------------------------------------
(* No byte is written twice, whatever send's pieces are, whatever the      *)
(* kernel takes of them, and whenever it refuses (SocketOp.cpp:136).       *)
THEOREM WrittenOnce == Spec => []NothingTwice
BY AlwaysIInv, PTL DEF IInv

(* What send writes or keeps is all that was to be written, and in its     *)
(* order, but for the short writes, the ends and the overtaking messages   *)
(* that trouble tells of (SocketOp.cpp:101, SocketOp.cpp:136).             *)
THEOREM KeptWholeAndInOrder == Spec => []KeptInOrder
BY AlwaysIInv, PTL DEF IInv
=============================================================================
