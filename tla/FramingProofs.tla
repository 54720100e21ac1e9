------------------------------ MODULE FramingProofs ------------------------------
(***************************************************************************)
(* Theorems about Framing, for any connections, messages and sizes.        *)
(***************************************************************************)
EXTENDS Framing, TLAPS, SequenceTheorems, WellFoundedInduction

-----------------------------------------------------------------------------
(* Induction, for a set instead of a predicate.                            *)
LEMMA Induct ==
  ASSUME NEW S, 0 \in S, \A n \in Nat : n \in S => n + 1 \in S
  PROVE  \A n \in Nat : n \in S
<1> SUFFICES ASSUME Nat \ S # {} PROVE FALSE
  OBVIOUS
<1> DEFINE R == {ss \in Nat \X Nat : ss[1] < ss[2]}
<1>1. IsWellFoundedOn(R, Nat)
  BY NatLessThanWellFounded DEF OpToRel
<1> HIDE DEF R
<1>2. PICK x \in Nat \ S : \A y \in Nat \ S : <<y, x>> \notin R
  BY <1>1, WFMin
<1>3. \A y \in Nat \ S : ~(y < x)
  BY <1>2 DEF R
<1>4. x # 0 /\ x - 1 \in Nat /\ x - 1 < x
  OBVIOUS
<1>5. x - 1 \in S
  BY <1>3, <1>4
<1>6. (x - 1) + 1 \in S
  BY <1>4, <1>5
<1> QED BY <1>6

(* What a concatenation consists of.                                       *)
LEMMA ConcatAt ==
  ASSUME NEW X, NEW s \in Seq(X), NEW t \in Seq(X), NEW u, u = s \o t
  PROVE  /\ u \in Seq(X) /\ Len(s) \in Nat /\ Len(t) \in Nat
         /\ Len(u) = Len(s) + Len(t)
         /\ \A k \in 1 .. Len(s) : k \in 1 .. Len(u) /\ u[k] = s[k]
         /\ \A k \in 1 .. Len(t) : Len(s) + k \in 1 .. Len(u) /\ u[Len(s) + k] = t[k]
BY ConcatProperties, LenProperties

(* Where the parts of a flattened sequence are: the one with number i lies *)
(* behind place off[i - 1].                                                *)
PartsAt(seqs, all, off) ==
  /\ off \in [0 .. Len(seqs) -> Nat] /\ off[0] = 0 /\ off[Len(seqs)] = Len(all)
  /\ \A i \in 1 .. Len(seqs) :
       /\ off[i] = off[i - 1] + Len(seqs[i])
       /\ \A j \in 1 .. Len(seqs[i]) : all[off[i - 1] + j] = seqs[i][j]

Flattened(seqs, flat, n) ==
  [i \in 1 .. n |-> IF i = 1 THEN seqs[i] ELSE flat[i - 1] \o seqs[i]]

LEMMA FlattenedExists ==
  ASSUME NEW seqs
  PROVE  \A n \in Nat : \E flat : flat = Flattened(seqs, flat, n)
<1> DEFINE S == {n \in Nat : \E flat : flat = Flattened(seqs, flat, n)}
<1>1. 0 \in S
  <2>1. [i \in 1 .. 0 |-> i] = Flattened(seqs, [i \in 1 .. 0 |-> i], 0)
    BY DEF Flattened
  <2> QED BY <2>1
<1>2. ASSUME NEW n \in Nat, n \in S
      PROVE  n + 1 \in S
  <2>1. PICK flat : flat = Flattened(seqs, flat, n)
    BY <1>2
  <2> DEFINE more == [i \in 1 .. n + 1 |-> IF i = 1 THEN seqs[i] ELSE flat[i - 1] \o seqs[i]]
  <2>2. \A i \in 1 .. n : flat[i] = IF i = 1 THEN seqs[i] ELSE flat[i - 1] \o seqs[i]
    BY <2>1 DEF Flattened
  <2>3. \A i \in 1 .. n : more[i] = flat[i]
    BY <2>2
  <2>4. \A i \in 1 .. n + 1 : i # 1 => i - 1 \in 1 .. n
    OBVIOUS
  <2>5. more = Flattened(seqs, more, n + 1)
    BY <2>3, <2>4 DEF Flattened
  <2> HIDE DEF more
  <2> QED BY <2>5
<1> HIDE DEF S
<1>3. \A n \in Nat : n \in S
  BY <1>1, <1>2, Induct
<1> QED BY <1>3 DEF S

LEMMA FlattenParts ==
  ASSUME NEW X, NEW seqs \in Seq(Seq(X))
  PROVE  /\ FlattenSeq(seqs) \in Seq(X)
         /\ \E off : PartsAt(seqs, FlattenSeq(seqs), off)
<1> DEFINE n == Len(seqs)
<1>0. n \in Nat /\ \A i \in 1 .. n : seqs[i] \in Seq(X) /\ Len(seqs[i]) \in Nat
  BY LenProperties, ElementOfSeq
<1>1. CASE n = 0
  <2>1. seqs = <<>> /\ FlattenSeq(seqs) = <<>>
    BY <1>1, EmptySeq DEF FlattenSeq
  <2>2. PartsAt(seqs, <<>>, [i \in 0 .. 0 |-> 0])
    BY <1>1, <2>1 DEF PartsAt
  <2> QED BY <2>1, <2>2
<1>2. CASE n # 0
  <2> DEFINE flat == CHOOSE fl : fl = Flattened(seqs, fl, n)
             off == [i \in 0 .. n |-> IF i = 0 THEN 0 ELSE Len(flat[i])]
  <2>1. FlattenSeq(seqs) = flat[n]
    BY <1>2 DEF FlattenSeq, Flattened
  <2>2. flat = Flattened(seqs, flat, n)
    BY <1>0, FlattenedExists
  <2> HIDE DEF flat
  <2>3. \A i \in 1 .. n : flat[i] = IF i = 1 THEN seqs[i] ELSE flat[i - 1] \o seqs[i]
    BY <2>2 DEF Flattened
  <2>2a. flat[1] = seqs[1]
    BY <1>0, <1>2, <2>3
  <2>2b. ASSUME NEW m \in Nat, m # 0, m + 1 \in 1 .. n
         PROVE  m \in 1 .. n /\ flat[m + 1] = flat[m] \o seqs[m + 1]
    <3>1. m + 1 # 1 /\ (m + 1) - 1 = m /\ m \in 1 .. n
      BY <1>0, <2>2b
    <3>2. flat[m + 1] = flat[(m + 1) - 1] \o seqs[m + 1]
      BY <2>3, <2>2b, <3>1, Zenon
    <3> QED BY <3>1, <3>2, Zenon
  <2>4. \A m \in Nat : m \in 1 .. n => flat[m] \in Seq(X)
    <3> DEFINE S == {m \in Nat : m \in 1 .. n => flat[m] \in Seq(X)}
    <3>1. 0 \in S
      OBVIOUS
    <3>2. ASSUME NEW m \in Nat, m \in S
          PROVE  m + 1 \in S
      <4> SUFFICES ASSUME m + 1 \in 1 .. n PROVE flat[m + 1] \in Seq(X)
        OBVIOUS
      <4>1. CASE m = 0
        BY <1>0, <2>2a, <4>1
      <4>2. CASE m # 0
        <5>1. m \in 1 .. n /\ flat[m + 1] = flat[m] \o seqs[m + 1]
          BY <2>2b, <4>2
        <5> QED BY <1>0, <3>2, <5>1, ConcatProperties
      <4> QED BY <4>1, <4>2
    <3> HIDE DEF S
    <3>3. \A m \in Nat : m \in S
      BY <3>1, <3>2, Induct
    <3> QED BY <3>3 DEF S
  <2>5. \A m \in 1 .. n : flat[m] \in Seq(X) /\ Len(flat[m]) \in Nat
    BY <1>0, <2>4, LenProperties
  <2>6. off \in [0 .. n -> Nat] /\ off[0] = 0 /\ \A m \in 1 .. n : off[m] = Len(flat[m])
    BY <1>0, <2>5
  <2> HIDE DEF off
  <2>7. ASSUME NEW m \in 1 .. n
        PROVE  off[m] = off[m - 1] + Len(seqs[m])
    <3>1. CASE m = 1
      BY <1>0, <2>2a, <2>6, <3>1
    <3>2. CASE m # 1
      <4>1. m - 1 \in 1 .. n
        BY <1>0, <3>2
      <4>2. flat[m] = flat[m - 1] \o seqs[m]
        BY <2>3, <3>2, Zenon
      <4>3. Len(flat[m]) = Len(flat[m - 1]) + Len(seqs[m])
        BY <1>0, <2>5, <4>1, <4>2, ConcatProperties
      <4> QED BY <2>6, <4>1, <4>3
    <3> QED BY <3>1, <3>2
  <2> DEFINE There(m) == \A i \in 1 .. m : \A j \in 1 .. Len(seqs[i]) :
               off[i - 1] + j \in 1 .. Len(flat[m]) /\ flat[m][off[i - 1] + j] = seqs[i][j]
             S == {m \in Nat : m \in 1 .. n => There(m)}
  <2>8. 0 \in S
    OBVIOUS
  <2>9. ASSUME NEW m \in Nat, m \in S
        PROVE  m + 1 \in S
    <3> SUFFICES ASSUME m + 1 \in 1 .. n,
                        NEW i \in 1 .. m + 1, NEW j \in 1 .. Len(seqs[i])
                 PROVE  /\ off[i - 1] + j \in 1 .. Len(flat[m + 1])
                        /\ flat[m + 1][off[i - 1] + j] = seqs[i][j]
      OBVIOUS
    <3>1. CASE m = 0
      BY <1>0, <2>2a, <2>6, <3>1
    <3>2. CASE m # 0
      <4>1. m \in 1 .. n /\ flat[m + 1] = flat[m] \o seqs[m + 1] /\ off[m] = Len(flat[m])
        BY <2>2b, <2>6, <3>2
      <4>2. /\ flat[m] \in Seq(X) /\ seqs[m + 1] \in Seq(X)
            /\ Len(flat[m]) \in Nat /\ Len(seqs[m + 1]) \in Nat
        BY <1>0, <2>5, <4>1
      <4>3. /\ \A k \in 1 .. Len(flat[m]) :
                 k \in 1 .. Len(flat[m + 1]) /\ flat[m + 1][k] = flat[m][k]
            /\ \A k \in 1 .. Len(seqs[m + 1]) :
                 /\ Len(flat[m]) + k \in 1 .. Len(flat[m + 1])
                 /\ flat[m + 1][Len(flat[m]) + k] = seqs[m + 1][k]
        <5> HIDE DEF n, There, S
        <5> DEFINE s == flat[m] t == seqs[m + 1] u == flat[m + 1]
        <5>1. s \in Seq(X) /\ t \in Seq(X) /\ u = s \o t
          BY <4>1, <4>2, Zenon
        <5> HIDE DEF s, t, u
        <5>2. /\ \A k \in 1 .. Len(s) : k \in 1 .. Len(u) /\ u[k] = s[k]
              /\ \A k \in 1 .. Len(t) : Len(s) + k \in 1 .. Len(u) /\ u[Len(s) + k] = t[k]
          BY <5>1, ConcatAt
        <5> QED BY <5>2, Zenon DEF s, t, u
      <4> HIDE DEF n, There, S
      <4>4. CASE i = m + 1
        <5>1. i - 1 = m
          BY <4>4
        <5>2. off[i - 1] = Len(flat[m]) /\ seqs[i] = seqs[m + 1] /\ j \in 1 .. Len(seqs[m + 1])
          BY <4>1, <4>4, <5>1, Zenon
        <5> QED BY <4>3, <5>2, Zenon
      <4>5. CASE i \in 1 .. m
        <5>1. /\ off[i - 1] + j \in 1 .. Len(flat[m])
              /\ flat[m][off[i - 1] + j] = seqs[i][j]
          BY <2>9, <4>1, <4>5 DEF S, There
        <5> QED BY <4>3, <5>1, Zenon
      <4> QED BY <4>4, <4>5
    <3> QED BY <3>1, <3>2
  <2> HIDE DEF S
  <2>10. \A m \in Nat : m \in S
    BY <2>8, <2>9, Induct
  <2>11. There(n)
    <3>1. n \in S /\ n \in 1 .. n
      BY <1>0, <1>2, <2>10
    <3> HIDE DEF n, There
    <3> QED BY <3>1 DEF S
  <2>12. FlattenSeq(seqs) \in Seq(X) /\ off[n] = Len(FlattenSeq(seqs))
    BY <1>0, <1>2, <2>1, <2>5, <2>6
  <2>13. PartsAt(seqs, FlattenSeq(seqs), off)
    BY <2>1, <2>6, <2>7, <2>11, <2>12 DEF PartsAt
  <2> QED BY <2>12, <2>13
<1> QED BY <1>1, <1>2
-----------------------------------------------------------------------------
(* Varints.                                                                *)
Shifts(v, shifted, n) ==
  [i \in 1 .. n |-> IF i = 1 THEN v ELSE shifted[i - 1] \div 128]
ShiftedBy7(v) == CHOOSE shifted : shifted = Shifts(v, shifted, 10)

LEMMA ShiftsExist ==
  ASSUME NEW v
  PROVE  \A n \in Nat : \E shifted : shifted = Shifts(v, shifted, n)
<1> DEFINE S == {n \in Nat : \E shifted : shifted = Shifts(v, shifted, n)}
<1>1. 0 \in S
  <2>1. [i \in 1 .. 0 |-> i] = Shifts(v, [i \in 1 .. 0 |-> i], 0)
    BY DEF Shifts
  <2> QED BY <2>1
<1>2. ASSUME NEW n \in Nat, n \in S
      PROVE  n + 1 \in S
  <2>1. PICK shifted : shifted = Shifts(v, shifted, n)
    BY <1>2
  <2> DEFINE more == [i \in 1 .. n + 1 |-> IF i = 1 THEN v ELSE shifted[i - 1] \div 128]
  <2>2. \A i \in 1 .. n : shifted[i] = IF i = 1 THEN v ELSE shifted[i - 1] \div 128
    BY <2>1 DEF Shifts
  <2>3. \A i \in 1 .. n : more[i] = shifted[i]
    BY <2>2
  <2>4. \A i \in 1 .. n + 1 : i # 1 => i - 1 \in 1 .. n
    OBVIOUS
  <2>5. more = Shifts(v, more, n + 1)
    BY <2>3, <2>4 DEF Shifts
  <2> HIDE DEF more
  <2> QED BY <2>5
<1> HIDE DEF S
<1>3. \A n \in Nat : n \in S
  BY <1>1, <1>2, Induct
<1> QED BY <1>3 DEF S

LEMMA Divided ==
  ASSUME NEW x \in Int
  PROVE  x \div 128 \in Int /\ x % 128 \in 0 .. 127 /\ x = 128 * (x \div 128) + (x % 128)
OBVIOUS

LEMMA FiveDigits ==
  ASSUME NEW v \in Int32, NEW v2, NEW v3, NEW v4, NEW v5, v2 = v \div 128,
         v3 = v2 \div 128, v4 = v3 \div 128, v5 = v4 \div 128
  PROVE  /\ v2 \in Int /\ v3 \in Int /\ v4 \in Int /\ v5 \in Int
         /\ v >= 0 => v2 >= 0 /\ v3 >= 0 /\ v4 >= 0 /\ v5 \in 0 .. 7
         /\ v < 0 => v5 \in -8 .. -1
<1>1. v2 \in Int /\ v3 \in Int /\ v4 \in Int /\ v5 \in Int
  BY SMT DEF Int32
<1>2. v >= 0 => v2 >= 0 /\ v3 >= 0 /\ v4 >= 0 /\ v5 >= 0 /\ v5 < 8
  BY SMT DEF Int32
<1>3. v < 0 => v5 < 0 /\ v5 >= -8
  BY SMT DEF Int32
<1> QED BY <1>1, <1>2, <1>3

(* What is left of a value when some digits of seven bits are gone.        *)
LEMMA ShiftsOf ==
  ASSUME NEW v \in Int32, NEW sh, sh = ShiftedBy7(v)
  PROVE  /\ v \in Int /\ sh[1] = v /\ sh[2] = sh[1] \div 128 /\ sh[3] = sh[2] \div 128
         /\ sh[4] = sh[3] \div 128 /\ sh[5] = sh[4] \div 128
         /\ \A i \in 1 .. 10 : sh[i] \in Int
         /\ v >= 0 => sh[2] >= 0 /\ sh[3] >= 0 /\ sh[4] >= 0 /\ sh[5] \in 0 .. 7
         /\ v < 0 => sh[5] \in -8 .. -1
<1>1. sh = Shifts(v, sh, 10)
  BY ShiftsExist DEF ShiftedBy7
<1>2. \A i \in 1 .. 10 : sh[i] = IF i = 1 THEN v ELSE sh[i - 1] \div 128
  BY <1>1 DEF Shifts
<1>3. v \in Int
  BY SMT DEF Int32
<1>4. sh[1] = v
  BY <1>2
<1>5. ASSUME NEW i \in 1 .. 9
      PROVE  sh[i + 1] = sh[i] \div 128
  <2>1. i + 1 \in 1 .. 10 /\ i + 1 # 1 /\ (i + 1) - 1 = i
    OBVIOUS
  <2>2. sh[i + 1] = sh[(i + 1) - 1] \div 128
    BY <1>2, <2>1, Zenon
  <2> QED BY <2>1, <2>2
<1>6. /\ sh[2] = sh[1] \div 128 /\ sh[3] = sh[2] \div 128
      /\ sh[4] = sh[3] \div 128 /\ sh[5] = sh[4] \div 128 /\ sh[6] = sh[5] \div 128
      /\ sh[7] = sh[6] \div 128 /\ sh[8] = sh[7] \div 128 /\ sh[9] = sh[8] \div 128
      /\ sh[10] = sh[9] \div 128
  BY <1>5
<1>7. /\ sh[2] \in Int /\ sh[3] \in Int /\ sh[4] \in Int /\ sh[5] \in Int
      /\ v >= 0 => sh[2] >= 0 /\ sh[3] >= 0 /\ sh[4] >= 0 /\ sh[5] \in 0 .. 7
      /\ v < 0 => sh[5] \in -8 .. -1
  <2> DEFINE v2 == sh[2] v3 == sh[3] v4 == sh[4] v5 == sh[5]
  <2>1. v2 = v \div 128 /\ v3 = v2 \div 128 /\ v4 = v3 \div 128 /\ v5 = v4 \div 128
    BY <1>4, <1>6
  <2> HIDE DEF v2, v3, v4, v5
  <2>2. /\ v2 \in Int /\ v3 \in Int /\ v4 \in Int /\ v5 \in Int
        /\ v >= 0 => v2 >= 0 /\ v3 >= 0 /\ v4 >= 0 /\ v5 \in 0 .. 7
        /\ v < 0 => v5 \in -8 .. -1
    BY <2>1, FiveDigits
  <2> QED BY <2>2 DEF v2, v3, v4, v5
<1>8. \A i \in 1 .. 10 : sh[i] \in Int
  <2>1. sh[6] \in Int
    BY <1>6, <1>7, Divided, Zenon
  <2>2. sh[7] \in Int
    BY <1>6, <2>1, Divided, Zenon
  <2>3. sh[8] \in Int
    BY <1>6, <2>2, Divided, Zenon
  <2>4. sh[9] \in Int
    BY <1>6, <2>3, Divided, Zenon
  <2>5. sh[10] \in Int
    BY <1>6, <2>4, Divided, Zenon
  <2> QED BY <1>3, <1>4, <1>7, <2>1, <2>2, <2>3, <2>4, <2>5
<1> QED BY <1>3, <1>4, <1>6, <1>7, <1>8, Zenon

(* The size of a varint and its digits.                                    *)
VarintLen(v) ==
  IF v < 0 THEN 10
  ELSE CHOOSE i \in 1 .. 5 :
         ShiftedBy7(v)[i] < 128 /\ (i > 1 => ShiftedBy7(v)[i - 1] >= 128)

LEMMA VarintIs ==
  ASSUME NEW v
  PROVE  Varint(v) =
           [i \in 1 .. VarintLen(v) |->
              IF i < VarintLen(v) THEN 128 + (ShiftedBy7(v)[i] % 128)
              ELSE IF i = 10 THEN 1 ELSE ShiftedBy7(v)[i]]
BY DEF Varint, VarintLen, ShiftedBy7, Shifts

LEMMA VarintLenIs ==
  ASSUME NEW v \in Int32, NEW sh, sh = ShiftedBy7(v), NEW n, n = VarintLen(v)
  PROVE  \/ v < 0 /\ n = 10
         \/ v \in Nat /\ \/ n = 1 /\ sh[1] \in 0 .. 127
                         \/ n = 2 /\ sh[2] \in 1 .. 127
                         \/ n = 3 /\ sh[3] \in 1 .. 127
                         \/ n = 4 /\ sh[4] \in 1 .. 127
                         \/ n = 5 /\ sh[5] \in 1 .. 127
<1>1. /\ v \in Int /\ sh[1] = v /\ sh[2] = sh[1] \div 128 /\ sh[3] = sh[2] \div 128
      /\ sh[4] = sh[3] \div 128 /\ sh[5] = sh[4] \div 128
      /\ sh[1] \in Int /\ sh[2] \in Int /\ sh[3] \in Int /\ sh[4] \in Int /\ sh[5] \in Int
      /\ v >= 0 => sh[5] \in 0 .. 7
  BY ShiftsOf
<1>2. CASE v < 0
  BY <1>2 DEF VarintLen
<1>3. CASE v >= 0
  <2> DEFINE fits(i) == sh[i] < 128 /\ (i > 1 => sh[i - 1] >= 128)
  <2>1. n = CHOOSE i \in 1 .. 5 : fits(i)
    BY <1>1, <1>3 DEF VarintLen
  <2>2. \E i \in 1 .. 5 : fits(i)
    <3>1. CASE sh[1] < 128
      BY <3>1
    <3>2. CASE sh[1] >= 128 /\ sh[2] < 128
      BY <3>2
    <3>3. CASE sh[2] >= 128 /\ sh[3] < 128
      BY <3>3
    <3>4. CASE sh[3] >= 128 /\ sh[4] < 128
      BY <3>4
    <3>5. CASE sh[4] >= 128
      BY <1>1, <1>3, <3>5
    <3> QED BY <1>1, <3>1, <3>2, <3>3, <3>4, <3>5
  <2>3. n \in 1 .. 5 /\ fits(n)
    BY <2>1, <2>2
  <2>4. n = 1 \/ n = 2 \/ n = 3 \/ n = 4 \/ n = 5
    BY <2>3
  <2>5. CASE n = 1
    BY <1>1, <1>3, <2>3, <2>5
  <2>6. CASE n = 2
    <3>1. sh[1] >= 128 /\ sh[2] < 128
      BY <2>3, <2>6
    <3> QED BY <1>1, <1>3, <2>6, <3>1
  <2>7. CASE n = 3
    <3>1. sh[2] >= 128 /\ sh[3] < 128
      BY <2>3, <2>7
    <3> QED BY <1>1, <1>3, <2>7, <3>1
  <2>8. CASE n = 4
    <3>1. sh[3] >= 128 /\ sh[4] < 128
      BY <2>3, <2>8
    <3> QED BY <1>1, <1>3, <2>8, <3>1
  <2>9. CASE n = 5
    <3>1. sh[4] >= 128 /\ sh[5] < 128
      BY <2>3, <2>9
    <3> QED BY <1>1, <1>3, <2>9, <3>1
  <2> QED BY <2>4, <2>5, <2>6, <2>7, <2>8, <2>9
<1> QED BY <1>1, <1>2, <1>3

LEMMA VarintFacts ==
  ASSUME NEW v \in Int32, NEW s, s = Varint(v)
  PROVE  /\ s \in Seq(Byte) /\ Len(s) \in 1 .. 10 /\ Len(s) = VarintSize(v)
         /\ v >= 0 => Len(s) <= 5
         /\ \A i \in 1 .. Len(s) : i < Len(s) => s[i] >= 128
         /\ s[Len(s)] < 128
         /\ v = 0 => s = << 0 >>
         /\ v # 0 => \A i \in 1 .. Len(s) : s[i] # 0
<1> DEFINE sh == ShiftedBy7(v) n == VarintLen(v)
<1>1. s = [i \in 1 .. n |-> IF i < n THEN 128 + (sh[i] % 128)
                            ELSE IF i = 10 THEN 1 ELSE sh[i]]
  BY VarintIs
<1>2. /\ v \in Int /\ sh[1] = v /\ sh[2] = sh[1] \div 128 /\ sh[3] = sh[2] \div 128
      /\ sh[4] = sh[3] \div 128 /\ sh[5] = sh[4] \div 128
      /\ \A i \in 1 .. 10 : sh[i] \in Int
  BY ShiftsOf
<1>3. \/ v < 0 /\ n = 10
      \/ v \in Nat /\ \/ n = 1 /\ sh[1] \in 0 .. 127
                      \/ n = 2 /\ sh[2] \in 1 .. 127
                      \/ n = 3 /\ sh[3] \in 1 .. 127
                      \/ n = 4 /\ sh[4] \in 1 .. 127
                      \/ n = 5 /\ sh[5] \in 1 .. 127
  BY VarintLenIs
<1> HIDE DEF sh, n
<1>4. n \in 1 .. 10 /\ (v >= 0 => n <= 5) /\ (n # 10 => sh[n] \in 0 .. 127)
      /\ (v # 0 /\ n # 10 => sh[n] # 0)
  BY <1>2, <1>3
<1>5. \A i \in 1 .. n : i < n => 128 + (sh[i] % 128) \in 128 .. 255
  BY <1>2, <1>4
<1>6. /\ \A i \in 1 .. n : s[i] \in 0 .. 255
      /\ \A i \in 1 .. n : i < n => s[i] >= 128
      /\ s[n] < 128 /\ (v # 0 => s[n] # 0)
  <2>1. \A i \in 1 .. n : i < n => s[i] = 128 + (sh[i] % 128)
    BY <1>1
  <2>2. \A i \in 1 .. n : i < n => s[i] \in 128 .. 255
    BY <1>5, <2>1, Zenon
  <2>3. s[n] \in 0 .. 127 /\ (v # 0 => s[n] # 0)
    <3>1. s[n] = IF n = 10 THEN 1 ELSE sh[n]
      BY <1>1, <1>4
    <3> QED BY <1>4, <3>1
  <2>4. \A i \in 1 .. n : i < n \/ i = n
    BY <1>4
  <2> QED BY <2>2, <2>3, <2>4
<1>7. s = [i \in 1 .. n |-> s[i]]
  BY <1>1
<1>8. s \in Seq(Byte) /\ Len(s) = n
  <2>1. \A i \in 1 .. n : s[i] \in Byte
    BY <1>6 DEF Byte
  <2> QED BY <1>4, <1>7, <2>1
<1>9. n = VarintSize(v)
  <2>1. CASE v < 0
    BY <1>3, <2>1, SMT DEF VarintSize
  <2>2. CASE n = 1 /\ v \in Nat
    <3>1. v >= 0 /\ v < 128
      BY <1>2, <1>3, <2>2
    <3> QED BY <1>2, <2>2, <3>1, SMT DEF VarintSize
  <2>3. CASE n = 2 /\ v \in Nat
    <3>1. v >= 128 /\ v < 16384
      BY <1>2, <1>3, <2>3, SMT
    <3> QED BY <1>2, <2>3, <3>1, SMT DEF VarintSize
  <2>4. CASE n = 3 /\ v \in Nat
    <3>1. v >= 16384 /\ v < 2097152
      BY <1>2, <1>3, <2>4, SMT
    <3> QED BY <1>2, <2>4, <3>1, SMT DEF VarintSize
  <2>5. CASE n = 4 /\ v \in Nat
    <3>1. v >= 2097152 /\ v < 268435456
      BY <1>2, <1>3, <2>5, SMT
    <3> QED BY <1>2, <2>5, <3>1, SMT DEF VarintSize
  <2>6. CASE n = 5 /\ v \in Nat
    <3>1. v >= 268435456
      BY <1>2, <1>3, <2>6, SMT
    <3> QED BY <1>2, <2>6, <3>1, SMT DEF VarintSize
  <2> QED BY <1>3, <2>1, <2>2, <2>3, <2>4, <2>5, <2>6
<1>10. v = 0 => s = << 0 >>
  <2> SUFFICES ASSUME v = 0 PROVE s = << 0 >>
    OBVIOUS
  <2>1. n = 1 /\ sh[1] = 0
    BY <1>2, <1>3
  <2>2. s[1] = 0
    BY <1>1, <2>1
  <2> QED BY <1>7, <2>1, <2>2
<1>11. v # 0 => \A i \in 1 .. n : s[i] # 0
  BY <1>4, <1>6
<1> QED BY <1>4, <1>6, <1>8, <1>9, <1>10, <1>11

(* Where a varint ends, and what it reads as.                              *)
LEMMA VarintEndIs ==
  ASSUME NEW bytes \in Seq(Byte), NEW p \in Nat \ {0}, NEW e \in Nat,
         p <= e, e <= p + 9, e <= Len(bytes),
         \A i \in p .. e : i < e => bytes[i] >= 128, bytes[e] < 128
  PROVE  VarintEnd(bytes, p) = e
<1> DEFINE ends == {x \in p .. (IF p + 9 < Len(bytes) THEN p + 9 ELSE Len(bytes)) :
                      bytes[x] < 128}
<1>1. Len(bytes) \in Nat
  BY LenProperties
<1>2. \A i \in 1 .. Len(bytes) : bytes[i] \in Int
  <2>1. \A i \in 1 .. Len(bytes) : bytes[i] \in Byte
    BY ElementOfSeq
  <2>2. \A b \in Byte : b \in Int
    BY DEF Byte
  <2> QED BY <2>1, <2>2
<1>3. e \in ends
  BY <1>1
<1>4. \A f \in ends : e <= f
  BY <1>1, <1>2
<1>5. \A x \in ends : (\A f \in ends : x <= f) => x = e
  BY <1>1, <1>3, <1>4
<1>6. (CHOOSE x \in ends : \A f \in ends : x <= f) = e
  <2> HIDE DEF ends
  <2> QED BY <1>3, <1>4, <1>5
<1> QED BY <1>3, <1>6 DEF VarintEnd

LEMMA VarintEndNone ==
  ASSUME NEW bytes \in Seq(Byte)
  PROVE  VarintEnd(bytes, Len(bytes) + 1) = 0
<1>1. Len(bytes) \in Nat
  BY LenProperties
<1>2. (Len(bytes) + 1) .. (IF Len(bytes) + 1 + 9 < Len(bytes) THEN Len(bytes) + 1 + 9
                           ELSE Len(bytes)) = {}
  BY <1>1
<1> QED BY <1>2 DEF VarintEnd

(* bytes has the bytes of part from place p on.                            *)
HasAt(bytes, p, part) ==
  p + Len(part) - 1 <= Len(bytes) /\ \A i \in 1 .. Len(part) : bytes[p + i - 1] = part[i]

LEMMA VarintRead ==
  ASSUME NEW bytes \in Seq(Byte), NEW p \in Nat \ {0}, NEW v \in Int32,
         HasAt(bytes, p, Varint(v))
  PROVE  /\ VarintEnd(bytes, p) = p + Len(Varint(v)) - 1
         /\ ReadVarint(bytes, p) = v
<1> DEFINE s == Varint(v) n == VarintLen(v) sh == ShiftedBy7(v)
<1>1. /\ s \in Seq(Byte) /\ Len(s) \in 1 .. 10 /\ (v >= 0 => Len(s) <= 5)
      /\ \A i \in 1 .. Len(s) : i < Len(s) => s[i] >= 128
      /\ s[Len(s)] < 128
  BY VarintFacts
<1>2. s = [i \in 1 .. n |-> IF i < n THEN 128 + (sh[i] % 128)
                            ELSE IF i = 10 THEN 1 ELSE sh[i]]
  BY VarintIs
<1>3. /\ v \in Int /\ sh[1] = v /\ sh[2] = sh[1] \div 128 /\ sh[3] = sh[2] \div 128
      /\ sh[4] = sh[3] \div 128 /\ sh[5] = sh[4] \div 128
      /\ \A i \in 1 .. 10 : sh[i] \in Int
      /\ v < 0 => sh[5] \in -8 .. -1
      /\ v >= 0 => sh[5] \in 0 .. 7
  BY ShiftsOf
<1>4. \/ v < 0 /\ n = 10
      \/ v \in Nat /\ \/ n = 1 /\ sh[1] \in 0 .. 127
                      \/ n = 2 /\ sh[2] \in 1 .. 127
                      \/ n = 3 /\ sh[3] \in 1 .. 127
                      \/ n = 4 /\ sh[4] \in 1 .. 127
                      \/ n = 5 /\ sh[5] \in 1 .. 127
  BY VarintLenIs
<1> HIDE DEF s, n, sh
<1>5. Len(s) = n
  BY <1>2, <1>4
<1>6. \A i \in 1 .. n : bytes[p + i - 1] = s[i]
  BY <1>5 DEF HasAt, s
<1>7. p + n - 1 <= Len(bytes) /\ Len(bytes) \in Nat /\ n \in 1 .. 10
  BY <1>1, <1>5, LenProperties DEF HasAt, s
<1>8. VarintEnd(bytes, p) = p + n - 1
  <2>1. \A i \in p .. p + n - 1 : i < p + n - 1 => bytes[i] >= 128
    <3> SUFFICES ASSUME NEW i \in p .. p + n - 1, i < p + n - 1 PROVE bytes[i] >= 128
      OBVIOUS
    <3>1. i - p + 1 \in 1 .. n /\ i - p + 1 < n /\ p + (i - p + 1) - 1 = i
      BY <1>7
    <3>2. bytes[i] = s[i - p + 1]
      BY <1>6, <3>1
    <3> QED BY <1>1, <1>5, <3>1, <3>2
  <2>2. bytes[p + n - 1] < 128
    BY <1>1, <1>5, <1>6, <1>7
  <2>3. p <= p + n - 1 /\ p + n - 1 <= p + 9 /\ p + n - 1 \in Nat
    BY <1>7
  <2> QED BY <1>7, <2>1, <2>2, <2>3, VarintEndIs
<1> DEFINE bits(i) == IF p + i <= VarintEnd(bytes, p) THEN bytes[p + i] % 128 ELSE 0
<1>9. \A i \in 0 .. 4 : bits(i) = IF i < n THEN s[i + 1] % 128 ELSE 0
  <2> SUFFICES ASSUME NEW i \in 0 .. 4
               PROVE  bits(i) = IF i < n THEN s[i + 1] % 128 ELSE 0
    OBVIOUS
  <2>1. p + i <= p + n - 1 <=> i < n
    BY <1>7
  <2>2. i < n => i + 1 \in 1 .. n /\ p + (i + 1) - 1 = p + i
    BY <1>7
  <2>3. i < n => bytes[p + i] = s[i + 1]
    BY <1>6, <2>2
  <2> QED BY <1>8, <2>1, <2>3
<1> DEFINE top == bits(4) % 16
<1>10. ReadVarint(bytes, p) =
         bits(0) + 128 * bits(1) + 16384 * bits(2) + 2097152 * bits(3)
           + 268435456 * (IF top >= 8 THEN top - 16 ELSE top)
  BY SMT DEF ReadVarint
<1> HIDE DEF bits
<1>11. ASSUME NEW i \in 0 .. 4
       PROVE  bits(i) = IF i < n THEN sh[i + 1] % 128 ELSE 0
  <2>1. CASE i + 1 < n
    <3>1. i + 1 \in 1 .. n /\ i + 1 \in 1 .. 10 /\ i < n
      BY <1>7, <2>1
    <3>2. s[i + 1] = 128 + (sh[i + 1] % 128) /\ sh[i + 1] \in Int
      BY <1>2, <1>3, <2>1, <3>1
    <3>3. (128 + (sh[i + 1] % 128)) % 128 = sh[i + 1] % 128
      BY <3>2
    <3> QED BY <1>9, <3>1, <3>2, <3>3
  <2>2. CASE i + 1 = n
    <3>1. s[i + 1] = sh[i + 1]
      BY <1>2, <1>7, <2>2
    <3> QED BY <1>7, <1>9, <2>2, <3>1
  <2>3. CASE i >= n
    BY <1>7, <1>9, <2>3
  <2> QED BY <1>7, <2>1, <2>2, <2>3
<1>12. /\ bits(0) = sh[1] % 128
       /\ bits(1) = IF 1 < n THEN sh[2] % 128 ELSE 0
       /\ bits(2) = IF 2 < n THEN sh[3] % 128 ELSE 0
       /\ bits(3) = IF 3 < n THEN sh[4] % 128 ELSE 0
       /\ bits(4) = IF 4 < n THEN sh[5] % 128 ELSE 0
  BY <1>7, <1>11
<1>13. ReadVarint(bytes, p) = v
  <2> DEFINE b0 == bits(0) b1 == bits(1) b2 == bits(2) b3 == bits(3) b4 == bits(4)
             v2 == sh[2] v3 == sh[3] v4 == sh[4] v5 == sh[5]
  <2>1. ReadVarint(bytes, p) =
          b0 + 128 * b1 + 16384 * b2 + 2097152 * b3
            + 268435456 * (IF b4 % 16 >= 8 THEN (b4 % 16) - 16 ELSE b4 % 16)
    BY <1>10, SMT
  <2>2. /\ b0 = v % 128 /\ b1 = (IF 1 < n THEN v2 % 128 ELSE 0)
        /\ b2 = (IF 2 < n THEN v3 % 128 ELSE 0)
        /\ b3 = (IF 3 < n THEN v4 % 128 ELSE 0)
        /\ b4 = (IF 4 < n THEN v5 % 128 ELSE 0)
    BY <1>3, <1>12
  <2>3. /\ v2 = v \div 128 /\ v3 = v2 \div 128 /\ v4 = v3 \div 128 /\ v5 = v4 \div 128
        /\ v \in Int /\ v2 \in Int /\ v3 \in Int /\ v4 \in Int /\ v5 \in Int
        /\ (v < 0 => v5 \in -8 .. -1) /\ (v >= 0 => v5 \in 0 .. 7)
    BY <1>3
  <2>4. \/ v < 0 /\ n = 10
        \/ v \in Nat /\ \/ n = 1 /\ v \in 0 .. 127
                        \/ n = 2 /\ v2 \in 1 .. 127
                        \/ n = 3 /\ v3 \in 1 .. 127
                        \/ n = 4 /\ v4 \in 1 .. 127
                        \/ n = 5 /\ v5 \in 1 .. 127
    BY <1>3, <1>4
  <2> HIDE DEF b0, b1, b2, b3, b4, v2, v3, v4, v5
  <2>5. /\ v = 128 * v2 + (v % 128) /\ v2 = 128 * v3 + (v2 % 128)
        /\ v3 = 128 * v4 + (v3 % 128) /\ v4 = 128 * v5 + (v4 % 128)
        /\ v % 128 \in Int /\ v2 % 128 \in Int /\ v3 % 128 \in Int /\ v4 % 128 \in Int
    BY <2>3, Divided
  <2>6. v = (v % 128) + 128 * (v2 % 128) + 16384 * (v3 % 128) + 2097152 * (v4 % 128)
              + 268435456 * v5
    BY <2>3, <2>5, SMT
  <2>7. CASE v < 0
    <3>1. /\ b1 = v2 % 128 /\ b2 = v3 % 128 /\ b3 = v4 % 128
          /\ b4 = v5 % 128 /\ b0 = v % 128
      BY <2>2, <2>4, <2>7
    <3>2. b4 % 16 >= 8 /\ (b4 % 16) - 16 = v5
      BY <2>3, <2>7, <3>1
    <3> QED BY <2>1, <2>6, <3>1, <3>2, SMT
  <2>8. CASE v \in Nat /\ n = 5
    <3>1. ~(b4 % 16 >= 8) /\ b4 % 16 = v5
      BY <2>2, <2>3, <2>8
    <3> QED BY <2>1, <2>2, <2>6, <2>8, <3>1, SMT
  <2>9. CASE v \in Nat /\ n = 4
    <3>1. v5 = 0 /\ b4 = 0 /\ b4 % 16 = 0
      BY <2>2, <2>3, <2>4, <2>9
    <3> QED BY <2>1, <2>2, <2>6, <2>9, <3>1, SMT
  <2>10. CASE v \in Nat /\ n = 3
    <3>1. v4 = 0 /\ v5 = 0 /\ b3 = 0 /\ b4 = 0 /\ b4 % 16 = 0 /\ v4 % 128 = 0
      BY <2>2, <2>3, <2>4, <2>10
    <3> QED BY <2>1, <2>2, <2>6, <2>10, <3>1, SMT
  <2>11. CASE v \in Nat /\ n = 2
    <3>1. v3 = 0 /\ v4 = 0 /\ v5 = 0 /\ b2 = 0 /\ b3 = 0 /\ b4 = 0 /\ b4 % 16 = 0
          /\ v3 % 128 = 0 /\ v4 % 128 = 0
      BY <2>2, <2>3, <2>4, <2>11
    <3> QED BY <2>1, <2>2, <2>6, <2>11, <3>1, SMT
  <2>12. CASE v \in Nat /\ n = 1
    <3>1. v2 = 0 /\ v3 = 0 /\ v4 = 0 /\ v5 = 0 /\ b1 = 0 /\ b2 = 0 /\ b3 = 0 /\ b4 = 0
          /\ b4 % 16 = 0 /\ v2 % 128 = 0 /\ v3 % 128 = 0 /\ v4 % 128 = 0
      BY <2>2, <2>3, <2>4, <2>12
    <3> QED BY <2>1, <2>2, <2>6, <2>12, <3>1, SMT
  <2>13. v < 0 \/ (v \in Nat /\ (n = 1 \/ n = 2 \/ n = 3 \/ n = 4 \/ n = 5))
    BY <2>4
  <2> QED BY <2>7, <2>8, <2>9, <2>10, <2>11, <2>12, <2>13
<1> QED BY <1>5, <1>8, <1>13 DEF s

LEMMA VarintOfOne ==
  ASSUME NEW v \in 0 .. 127
  PROVE  v \in Int32 /\ Varint(v) = <<v>>
<1> DEFINE s == Varint(v) n == VarintLen(v) sh == ShiftedBy7(v)
<1>1. v \in Int32
  BY SMT DEF Int32
<1>2. s = [i \in 1 .. n |-> IF i < n THEN 128 + (sh[i] % 128)
                            ELSE IF i = 10 THEN 1 ELSE sh[i]]
  BY VarintIs
<1>3. /\ sh[1] = v /\ sh[2] = sh[1] \div 128 /\ sh[3] = sh[2] \div 128
      /\ sh[4] = sh[3] \div 128 /\ sh[5] = sh[4] \div 128
  BY <1>1, ShiftsOf
<1>4. \/ v < 0 /\ n = 10
      \/ v \in Nat /\ \/ n = 1 /\ sh[1] \in 0 .. 127
                      \/ n = 2 /\ sh[2] \in 1 .. 127
                      \/ n = 3 /\ sh[3] \in 1 .. 127
                      \/ n = 4 /\ sh[4] \in 1 .. 127
                      \/ n = 5 /\ sh[5] \in 1 .. 127
  BY <1>1, VarintLenIs
<1> HIDE DEF s, n, sh
<1>5. n = 1
  BY <1>3, <1>4
<1>6. s[1] = v /\ s = [i \in 1 .. 1 |-> s[i]]
  BY <1>2, <1>3, <1>5
<1>7. s = <<v>>
  BY <1>6
<1> QED BY <1>1, <1>7 DEF s
-----------------------------------------------------------------------------
(* The classes and the fields of their messages.                           *)
Types == {BOOL, INT32, STRING_}

LEMMA Classes ==
  ASSUME NEW id, Known(id)
  PROVE  LET class == _msg_id_names[id] IN
         /\ id \in Int32 /\ Len(class) \in 1 .. 3 /\ DOMAIN class = 1 .. Len(class)
         /\ \A f \in 1 .. Len(class) : class[f] \in Types
<1>1. id \in 1 .. 11
  BY DEF Known, _msg_id_names
<1>2. id \in Int32
  BY <1>1, SMT DEF Int32
<1>3. id = 1 \/ id = 2 \/ id = 3 \/ id = 4 \/ id = 5 \/ id = 6 \/ id = 7 \/ id = 8
      \/ id = 9 \/ id = 10 \/ id = 11
  BY <1>1
<1>4. CASE id = 1 \/ id = 2
  BY <1>2, <1>4 DEF _msg_id_names, LoginReq, RegisterReq, Types
<1>5. CASE id = 3 \/ id = 6
  BY <1>2, <1>5 DEF _msg_id_names, VerifyReq, VerifyRsp, Types
<1>6. CASE id = 4
  BY <1>2, <1>6 DEF _msg_id_names, LoginRsp, Types
<1>7. CASE id = 5
  BY <1>2, <1>7 DEF _msg_id_names, RegisterRsp, Types
<1>8. CASE id = 7 \/ id = 8 \/ id = 10
  BY <1>2, <1>8 DEF _msg_id_names, UserOnlineReq, UserOfflineReq, KickUserOutReq, Types
<1>9. CASE id = 9 \/ id = 11
  BY <1>2, <1>9 DEF _msg_id_names, DoSthReq, DoSthRsp, Types
<1> QED BY <1>3, <1>4, <1>5, <1>6, <1>7, <1>8, <1>9

LEMMA TypesDiffer ==
  BOOL # INT32 /\ BOOL # STRING_ /\ INT32 # STRING_
BY DEF BOOL, INT32, STRING_

EncodedSize(type, v) ==
  CASE type = BOOL -> 1 [] type = INT32 -> VarintSize(v)
    [] OTHER -> VarintSize(Len(v)) + Len(v)

(* Nothing but a value that is zero or has a zero is encoded with one.     *)
LEMMA EncodedFacts ==
  ASSUME NEW type \in Types, NEW v, IsValue(type, v), NEW e, e = Encoded(type, v)
  PROVE  /\ e \in Seq(Byte) /\ Len(e) \in Nat \ {0} /\ Len(e) = EncodedSize(type, v)
         /\ ZeroFree(type, v) => \A i \in 1 .. Len(e) : e[i] # 0
         /\ ~ZeroFree(type, v) /\ type # STRING_ => e = << 0 >>
         /\ type = STRING_ =>
              /\ v \in Seq(Byte) /\ Len(v) \in Nat /\ Len(v) \in Int32
              /\ Varint(Len(v)) \in Seq(Byte) /\ Len(Varint(Len(v))) \in 1 .. 5
              /\ Len(e) = Len(Varint(Len(v))) + Len(v)
              /\ \A i \in 1 .. Len(Varint(Len(v))) : e[i] = Varint(Len(v))[i]
              /\ \A i \in 1 .. Len(v) : e[Len(Varint(Len(v))) + i] = v[i]
              /\ v # <<>> => \A i \in 1 .. Len(Varint(Len(v))) : e[i] # 0
              /\ v = <<>> => e = << 0 >>
<1>1. CASE type = BOOL
  <2>1. /\ v \in BOOLEAN /\ e = (IF v THEN <<1>> ELSE << 0 >>)
        /\ (ZeroFree(type, v) <=> v) /\ EncodedSize(type, v) = 1 /\ type # STRING_
    BY <1>1, TypesDiffer DEF IsValue, Encoded, ZeroFree, EncodedSize
  <2>2. CASE v
    <3>1. e = <<1>> /\ 1 \in Byte
      BY <2>1, <2>2 DEF Byte
    <3>2. e \in Seq(Byte) /\ Len(e) = 1 /\ e[1] = 1
      BY <3>1
    <3>3. ZeroFree(type, v) /\ EncodedSize(type, v) = 1 /\ type # STRING_
      BY <2>1, <2>2, Zenon
    <3> QED BY <3>2, <3>3
  <2>3. CASE ~v
    <3>1. e = << 0 >> /\ 0 \in Byte
      BY <2>1, <2>3 DEF Byte
    <3>2. e \in Seq(Byte) /\ Len(e) = 1
      BY <3>1
    <3> QED BY <2>1, <2>3, <3>1, <3>2
  <2> QED BY <2>2, <2>3
<1>2. CASE type = INT32
  <2>1. /\ v \in Int32 /\ e = Varint(v) /\ type # STRING_
        /\ (ZeroFree(type, v) <=> v # 0) /\ EncodedSize(type, v) = VarintSize(v)
    BY <1>2, TypesDiffer DEF IsValue, Encoded, ZeroFree, EncodedSize
  <2>2. /\ e \in Seq(Byte) /\ Len(e) \in 1 .. 10 /\ Len(e) = VarintSize(v)
        /\ (v = 0 => e = << 0 >>) /\ (v # 0 => \A i \in 1 .. Len(e) : e[i] # 0)
    BY <2>1, VarintFacts
  <2> QED BY <2>1, <2>2
<1>3. CASE type = STRING_
  <2> DEFINE s == Varint(Len(v))
  <2>1. /\ v \in Seq(Byte) /\ Len(v) \in Int32 /\ e = s \o v
        /\ (ZeroFree(type, v) <=> v # <<>> /\ \A i \in DOMAIN v : v[i] # 0)
        /\ EncodedSize(type, v) = VarintSize(Len(v)) + Len(v)
    BY <1>3, TypesDiffer DEF IsValue, Encoded, ZeroFree, EncodedSize
  <2>2. Len(v) \in Nat /\ DOMAIN v = 1 .. Len(v)
    BY <2>1, LenProperties
  <2>3. /\ s \in Seq(Byte) /\ Len(s) \in 1 .. 5 /\ Len(s) = VarintSize(Len(v))
        /\ (Len(v) = 0 => s = << 0 >>) /\ (Len(v) # 0 => \A i \in 1 .. Len(s) : s[i] # 0)
    <3> DEFINE l == Len(v)
    <3>1. l \in Int32 /\ l \in Nat /\ s = Varint(l)
      BY <2>1, <2>2
    <3> HIDE DEF l, s
    <3>2. /\ s \in Seq(Byte) /\ Len(s) \in 1 .. 10 /\ Len(s) = VarintSize(l)
          /\ (l >= 0 => Len(s) <= 5)
          /\ (l = 0 => s = << 0 >>) /\ (l # 0 => \A i \in 1 .. Len(s) : s[i] # 0)
      BY <3>1, VarintFacts
    <3>3. Len(s) \in 1 .. 5
      BY <3>1, <3>2
    <3> QED BY <3>2, <3>3, Zenon DEF l
  <2> HIDE DEF s
  <2>4. /\ e \in Seq(Byte) /\ Len(e) = Len(s) + Len(v)
        /\ \A k \in 1 .. Len(s) : k \in 1 .. Len(e) /\ e[k] = s[k]
        /\ \A k \in 1 .. Len(v) : Len(s) + k \in 1 .. Len(e) /\ e[Len(s) + k] = v[k]
    BY <2>1, <2>3, ConcatAt
  <2>5. v = <<>> <=> Len(v) = 0
    BY <2>1, EmptySeq
  <2>6. v = <<>> => e = << 0 >>
    <3> SUFFICES ASSUME v = <<>> PROVE e = << 0 >>
      OBVIOUS
    <3>1. s = << 0 >> /\ Len(v) = 0
      BY <2>3, <2>5
    <3>2. Len(e) = 1 /\ e[1] = 0
      BY <2>4, <3>1
    <3> QED BY <2>4, <3>2
  <2>7. v # <<>> => \A i \in 1 .. Len(s) : e[i] # 0
    BY <2>2, <2>3, <2>4, <2>5
  <2>8. ZeroFree(type, v) => \A i \in 1 .. Len(e) : e[i] # 0
    <3> SUFFICES ASSUME v # <<>> /\ \A i \in DOMAIN v : v[i] # 0,
                        NEW i \in 1 .. Len(e)
                 PROVE  e[i] # 0
      BY <2>1
    <3>1. CASE i <= Len(s)
      BY <2>3, <2>7, <3>1
    <3>2. CASE i > Len(s)
      <4>1. i - Len(s) \in 1 .. Len(v) /\ Len(s) + (i - Len(s)) = i
        BY <2>2, <2>3, <2>4, <3>2
      <4>2. e[i] = v[i - Len(s)]
        BY <2>4, <4>1
      <4> QED BY <2>2, <4>1, <4>2
    <3> QED BY <2>3, <3>1, <3>2
  <2>9. Len(e) \in Nat \ {0} /\ Len(e) = EncodedSize(type, v)
    <3>1. Len(s) + Len(v) \in Nat \ {0}
      BY <2>2, <2>3
    <3>2. Len(e) = EncodedSize(type, v)
      BY <2>1, <2>3, <2>4, Zenon
    <3> QED BY <2>4, <3>1, <3>2
  <2> QED BY <1>3, <2>1, <2>2, <2>3, <2>4, <2>6, <2>7, <2>8, <2>9 DEF s
<1> QED BY <1>1, <1>2, <1>3 DEF Types
-----------------------------------------------------------------------------
(* Sums, from the left.                                                    *)
Sums(seq, sum, S) ==
  [s \in SUBSET S |-> IF s = {} THEN 0 ELSE sum[s \ {Max(s)}] + seq[Max(s)]]

LeftSum(seq) == FoldLeft(LAMBDA x, y : x + y, 0, seq)

LEMMA FoldIs ==
  ASSUME NEW seq
  PROVE  LeftSum(seq) = (CHOOSE sum : sum = Sums(seq, sum, DOMAIN seq))[DOMAIN seq]
BY DEF LeftSum, FoldLeft, MapThenFoldSet, Sums

LEMMA MaxOf ==
  ASSUME NEW m \in Nat, NEW s \in SUBSET (1 .. m + 1), m + 1 \in s
  PROVE  Max(s) = m + 1
<1>1. m + 1 \in s /\ \A y \in s : m + 1 >= y
  OBVIOUS
<1>2. \A x \in s : (\A y \in s : x >= y) => x = m + 1
  BY <1>1
<1> QED BY <1>1, <1>2 DEF Max

LEMMA SumsExist ==
  ASSUME NEW seq
  PROVE  \A n \in Nat : \E sum : sum = Sums(seq, sum, 1 .. n)
<1> DEFINE S == {n \in Nat : \E sum : sum = Sums(seq, sum, 1 .. n)}
<1>1. 0 \in S
  <2>1. SUBSET (1 .. 0) = {{}}
    OBVIOUS
  <2>2. [s \in SUBSET (1 .. 0) |-> 0] = Sums(seq, [s \in SUBSET (1 .. 0) |-> 0], 1 .. 0)
    BY <2>1 DEF Sums
  <2> QED BY <2>2
<1>2. ASSUME NEW n \in Nat, n \in S
      PROVE  n + 1 \in S
  <2>1. PICK sum : sum = Sums(seq, sum, 1 .. n)
    BY <1>2
  <2> DEFINE more == [s \in SUBSET (1 .. n + 1) |->
                        IF n + 1 \in s THEN sum[s \ {n + 1}] + seq[n + 1] ELSE sum[s]]
  <2>2. \A s \in SUBSET (1 .. n) :
          sum[s] = IF s = {} THEN 0 ELSE sum[s \ {Max(s)}] + seq[Max(s)]
    BY <2>1 DEF Sums
  <2>3. \A s \in SUBSET (1 .. n) : s \in SUBSET (1 .. n + 1) /\ n + 1 \notin s
    OBVIOUS
  <2>4. \A s \in SUBSET (1 .. n) : more[s] = sum[s]
    BY <2>3
  <2>5. ASSUME NEW s \in SUBSET (1 .. n + 1)
        PROVE  more[s] = IF s = {} THEN 0 ELSE more[s \ {Max(s)}] + seq[Max(s)]
    <3>1. CASE n + 1 \in s
      <4>1. Max(s) = n + 1 /\ s \ {n + 1} \in SUBSET (1 .. n)
        BY <3>1, MaxOf
      <4>2. more[s] = sum[s \ {n + 1}] + seq[n + 1] /\ more[s \ {n + 1}] = sum[s \ {n + 1}]
        BY <2>4, <3>1, <4>1
      <4> QED BY <3>1, <4>1, <4>2
    <3>2. CASE n + 1 \notin s
      <4>1. s \in SUBSET (1 .. n) /\ s \ {Max(s)} \in SUBSET (1 .. n)
        <5>1. \A x \in 1 .. n + 1 : x # n + 1 => x \in 1 .. n
          OBVIOUS
        <5> QED BY <3>2, <5>1, Zenon
      <4>2. more[s] = sum[s] /\ more[s \ {Max(s)}] = sum[s \ {Max(s)}]
        BY <2>4, <4>1
      <4> HIDE DEF more
      <4> QED BY <2>2, <4>1, <4>2, Zenon
    <3> QED BY <3>1, <3>2
  <2>6. more = [s \in SUBSET (1 .. n + 1) |-> more[s]]
    OBVIOUS
  <2> HIDE DEF more
  <2>7. more = Sums(seq, more, 1 .. n + 1)
    BY <2>5, <2>6, Zenon DEF Sums
  <2> QED BY <2>7
<1> HIDE DEF S
<1>3. \A n \in Nat : n \in S
  BY <1>1, <1>2, Induct
<1> QED BY <1>3 DEF S

LEMMA SumIs ==
  ASSUME NEW n \in Nat, NEW seq, DOMAIN seq = 1 .. n,
         NEW off, off[0] = 0, \A i \in 1 .. n : off[i] = off[i - 1] + seq[i]
  PROVE  LeftSum(seq) = off[n]
<1> DEFINE sum == CHOOSE su : su = Sums(seq, su, 1 .. n)
<1>1. LeftSum(seq) = sum[1 .. n]
  BY FoldIs
<1>2. sum = Sums(seq, sum, 1 .. n)
  BY SumsExist
<1> HIDE DEF sum
<1>3. \A s \in SUBSET (1 .. n) :
        sum[s] = IF s = {} THEN 0 ELSE sum[s \ {Max(s)}] + seq[Max(s)]
  BY <1>2 DEF Sums
<1> DEFINE S == {m \in Nat : m <= n => sum[1 .. m] = off[m]}
<1>4. 0 \in S
  <2>1. 1 .. 0 = {} /\ 1 .. 0 \in SUBSET (1 .. n)
    OBVIOUS
  <2>2. sum[1 .. 0] = 0
    BY <1>3, <2>1, Zenon
  <2> QED BY <2>2
<1>5. ASSUME NEW m \in Nat, m \in S
      PROVE  m + 1 \in S
  <2> SUFFICES ASSUME m + 1 <= n PROVE sum[1 .. m + 1] = off[m + 1]
    OBVIOUS
  <2>1. /\ 1 .. m + 1 \in SUBSET (1 .. n) /\ 1 .. m + 1 # {} /\ m + 1 \in 1 .. m + 1
        /\ (1 .. m + 1) \ {m + 1} = 1 .. m /\ m <= n /\ m + 1 \in 1 .. n /\ (m + 1) - 1 = m
    OBVIOUS
  <2>2. Max(1 .. m + 1) = m + 1
    BY <2>1, MaxOf
  <2>3. sum[1 .. m + 1] = sum[(1 .. m + 1) \ {Max(1 .. m + 1)}] + seq[Max(1 .. m + 1)]
    BY <1>3, <2>1, Zenon
  <2>4. sum[1 .. m + 1] = sum[1 .. m] + seq[m + 1]
    BY <2>1, <2>2, <2>3
  <2>5. sum[1 .. m] = off[m]
    BY <1>5, <2>1
  <2>6. off[m + 1] = off[(m + 1) - 1] + seq[m + 1]
    BY <2>1, Zenon
  <2> QED BY <2>1, <2>4, <2>5, <2>6
<1> HIDE DEF S
<1>6. \A m \in Nat : m \in S
  BY <1>4, <1>5, Induct
<1>7. sum[1 .. n] = off[n]
  <2>1. n \in S /\ n <= n
    BY <1>6
  <2> QED BY <2>1 DEF S
<1> QED BY <1>1, <1>7
-----------------------------------------------------------------------------
(* A message's bytes: of every field that is set, its tag and its value.   *)
FieldBytes(class, fields, f) ==
  IF f \in DOMAIN fields
    THEN <<8 * f + WireType(class[f])>> \o Encoded(class[f], fields[f])
    ELSE <<>>
AllFieldBytes(class, fields) == [f \in DOMAIN class |-> FieldBytes(class, fields, f)]

LEMMA SerializeIs ==
  ASSUME NEW id, NEW fields
  PROVE  Serialize(id, fields) = FlattenSeq(AllFieldBytes(_msg_id_names[id], fields))
BY DEF Serialize, AllFieldBytes, FieldBytes

FieldSize(class, fields, f) ==
  IF f \notin DOMAIN fields THEN 0
  ELSE CASE class[f] = BOOL  -> 1 + 1
         [] class[f] = INT32 -> 1 + VarintSize(fields[f])
         [] OTHER -> 1 + VarintSize(Len(fields[f])) + Len(fields[f])

LEMMA ByteSizeIs ==
  ASSUME NEW id, NEW fields
  PROVE  ByteSize(id, fields)
           = LeftSum([f \in DOMAIN _msg_id_names[id] |-> FieldSize(_msg_id_names[id], fields, f)])
BY DEF ByteSize, FieldSize, LeftSum

LEMMA FieldFacts ==
  ASSUME NEW id, Known(id), NEW fields, IsFields(id, fields),
         NEW class, class = _msg_id_names[id],
         NEW f \in DOMAIN class, NEW b, b = FieldBytes(class, fields, f)
  PROVE  /\ b \in Seq(Byte) /\ Len(b) \in Nat /\ Len(b) = FieldSize(class, fields, f)
         /\ f \notin DOMAIN fields => Len(b) = 0
         /\ f \in DOMAIN fields =>
              /\ class[f] \in Types /\ IsValue(class[f], fields[f])
              /\ 8 * f + WireType(class[f]) \in 8 .. 26
              /\ Len(b) = 1 + Len(Encoded(class[f], fields[f]))
              /\ b[1] = 8 * f + WireType(class[f])
              /\ \A i \in 1 .. Len(Encoded(class[f], fields[f])) :
                   b[1 + i] = Encoded(class[f], fields[f])[i]
<1>1. f \in 1 .. 3 /\ class[f] \in Types
  BY Classes
<1>2. CASE f \notin DOMAIN fields
  <2>1. b = <<>>
    BY <1>2 DEF FieldBytes
  <2> QED BY <1>2, <2>1 DEF FieldSize
<1>3. CASE f \in DOMAIN fields
  <2> DEFINE e == Encoded(class[f], fields[f])
             tag == 8 * f + WireType(class[f])
             t == <<tag>>
  <2>1. IsValue(class[f], fields[f])
    BY <1>3 DEF IsFields
  <2>2. tag \in 8 .. 26
    BY <1>1 DEF WireType
  <2>3. /\ e \in Seq(Byte) /\ Len(e) \in Nat \ {0}
        /\ Len(e) = EncodedSize(class[f], fields[f])
    BY <1>1, <2>1, EncodedFacts
  <2>4. b = t \o e
    BY <1>3 DEF FieldBytes
  <2>5. t \in Seq(Byte) /\ Len(t) = 1 /\ t[1] = tag
    BY <2>2 DEF Byte
  <2> HIDE DEF e, t, tag
  <2>6. /\ b \in Seq(Byte) /\ Len(b) = 1 + Len(e)
        /\ \A k \in 1 .. 1 : b[k] = t[k]
        /\ \A k \in 1 .. Len(e) : b[1 + k] = e[k]
    <3>1. /\ b \in Seq(Byte) /\ Len(b) = Len(t) + Len(e)
          /\ \A k \in 1 .. Len(t) : k \in 1 .. Len(b) /\ b[k] = t[k]
          /\ \A k \in 1 .. Len(e) : Len(t) + k \in 1 .. Len(b) /\ b[Len(t) + k] = e[k]
      <4>1. t \in Seq(Byte) /\ e \in Seq(Byte)
        BY <2>3, <2>5
      <4> QED BY <2>4, <4>1, ConcatAt
    <3> QED BY <2>5, <3>1
  <2>7. b[1] = tag
    BY <2>5, <2>6
  <2>8. FieldSize(class, fields, f) = 1 + EncodedSize(class[f], fields[f])
    <3>1. CASE class[f] = BOOL
      BY <1>3, <3>1 DEF FieldSize, EncodedSize
    <3>2. CASE class[f] = INT32
      BY <1>3, <3>2, TypesDiffer DEF FieldSize, EncodedSize
    <3>3. CASE class[f] = STRING_
      <4>1. /\ fields[f] \in Seq(Byte) /\ Len(fields[f]) \in Nat /\ Len(fields[f]) \in Int32
        BY <1>1, <2>1, <3>3, EncodedFacts
      <4>2. VarintSize(Len(fields[f])) \in Nat
        BY <4>1, VarintFacts
      <4>3. FieldSize(class, fields, f) = 1 + VarintSize(Len(fields[f])) + Len(fields[f])
        BY <1>3, <3>3, TypesDiffer DEF FieldSize
      <4>4. EncodedSize(class[f], fields[f]) = VarintSize(Len(fields[f])) + Len(fields[f])
        BY <3>3, TypesDiffer DEF EncodedSize
      <4> QED BY <4>1, <4>2, <4>3, <4>4
    <3> QED BY <1>1, <3>1, <3>2, <3>3 DEF Types
  <2> QED BY <1>1, <1>3, <2>1, <2>2, <2>3, <2>6, <2>7, <2>8 DEF e, tag
<1> QED BY <1>2, <1>3

(* It is as long as ByteSize says, and its fields lie behind each other.   *)
LEMMA SerializeFacts ==
  ASSUME NEW id, Known(id), NEW fields, IsFields(id, fields)
  PROVE  /\ Serialize(id, fields) \in Seq(Byte)
         /\ Len(Serialize(id, fields)) = ByteSize(id, fields)
         /\ \E off : PartsAt(AllFieldBytes(_msg_id_names[id], fields), Serialize(id, fields), off)
<1> DEFINE class == _msg_id_names[id]
           parts == AllFieldBytes(class, fields)
           sizes == [f \in DOMAIN class |-> FieldSize(class, fields, f)]
           n == Len(class)
<1>1. n \in 1 .. 3 /\ DOMAIN class = 1 .. n
  BY Classes
<1>2. \A f \in 1 .. n : parts[f] = FieldBytes(class, fields, f)
  BY <1>1 DEF AllFieldBytes
<1>3. \A f \in 1 .. n : parts[f] \in Seq(Byte) /\ Len(parts[f]) = FieldSize(class, fields, f)
  <2>1. \A f \in 1 .. n : f \in DOMAIN class
    BY <1>1
  <2> HIDE DEF parts, class, n
  <2>2. ASSUME NEW f \in 1 .. n
        PROVE  parts[f] \in Seq(Byte) /\ Len(parts[f]) = FieldSize(class, fields, f)
    <3> DEFINE b == parts[f]
    <3>1. f \in DOMAIN class /\ b = FieldBytes(class, fields, f) /\ class = _msg_id_names[id]
      BY <1>2, <2>1 DEF class
    <3> HIDE DEF b
    <3>2. b \in Seq(Byte) /\ Len(b) = FieldSize(class, fields, f)
      <4>1. class = _msg_id_names[id]
        BY <3>1
      <4>2. f \in DOMAIN class
        BY <3>1
      <4>3. b = FieldBytes(class, fields, f)
        BY <3>1
      <4> QED BY <4>1, <4>2, <4>3, FieldFacts
    <3> QED BY <3>2 DEF b
  <2> QED BY <2>2
<1>4. parts = [f \in 1 .. n |-> parts[f]] /\ Serialize(id, fields) = FlattenSeq(parts)
  BY <1>1, SerializeIs DEF AllFieldBytes
<1>5. ByteSize(id, fields) = LeftSum(sizes)
  BY ByteSizeIs
<1>6. DOMAIN sizes = 1 .. n /\ \A f \in 1 .. n : sizes[f] = FieldSize(class, fields, f)
  BY <1>1
<1> HIDE DEF parts, class, sizes, n
<1>7. parts \in Seq(Seq(Byte)) /\ Len(parts) = n
  BY <1>1, <1>3, <1>4
<1>8. PICK off : FlattenSeq(parts) \in Seq(Byte) /\ PartsAt(parts, FlattenSeq(parts), off)
  BY <1>7, FlattenParts
<1>9. /\ off[0] = 0 /\ off[n] = Len(FlattenSeq(parts))
      /\ \A i \in 1 .. n : off[i] = off[i - 1] + sizes[i]
  BY <1>3, <1>6, <1>7, <1>8 DEF PartsAt
<1>10. LeftSum(sizes) = off[n]
  BY <1>1, <1>6, <1>9, SumIs
<1> QED BY <1>4, <1>5, <1>8, <1>9, <1>10 DEF parts, class
-----------------------------------------------------------------------------
(* What is left of the fields from number f on.                            *)
WholeFrom(f, class, fields) ==
  {g \in DOMAIN fields : f <= g /\ \A h \in DOMAIN fields :
     f <= h /\ h <= g => ZeroFree(class[h], fields[h])}
CutFrom(f, class, fields) ==
  {g \in DOMAIN fields \ WholeFrom(f, class, fields) :
     f <= g /\ class[g] = STRING_
     /\ \A h \in DOMAIN fields : f <= h /\ h < g => h \in WholeFrom(f, class, fields)}
KeptFrom(f, class, fields) ==
  [g \in WholeFrom(f, class, fields) \cup CutFrom(f, class, fields) |->
     IF g \in WholeFrom(f, class, fields) THEN fields[g] ELSE UpTo0(fields[g])]

LEMMA NoFields ==
  ASSUME NEW e(_)
  PROVE  [g \in {} |-> e(g)] = <<>>
OBVIOUS

LEMMA KeptAll ==
  ASSUME NEW m, NEW class, class = _msg_id_names[m.id],
         DOMAIN m.fields \subseteq Nat \ {0}
  PROVE  Left(m) = KeptFrom(1, class, m.fields)
<1> DEFINE whole == {f \in DOMAIN m.fields : \A g \in DOMAIN m.fields :
                       g <= f => ZeroFree(class[g], m.fields[g])}
           cut == {f \in DOMAIN m.fields \ whole :
                     class[f] = STRING_ /\ \A g \in DOMAIN m.fields : g < f => g \in whole}
<1>1. Left(m) = [f \in whole \cup cut |-> IF f \in whole THEN m.fields[f] ELSE UpTo0(m.fields[f])]
  BY DEF Left
<1>2. whole = WholeFrom(1, class, m.fields)
  BY DEF WholeFrom
<1> HIDE DEF whole
<1>3. cut = CutFrom(1, class, m.fields)
  BY <1>2 DEF CutFrom
<1> HIDE DEF cut
<1> QED BY <1>1, <1>2, <1>3 DEF KeptFrom

(* From a field that is not set: as from the next.                         *)
LEMMA KeptUnset ==
  ASSUME NEW fields, NEW class, DOMAIN fields \subseteq Nat, NEW f \in Nat, f \notin DOMAIN fields
  PROVE  KeptFrom(f, class, fields) = KeptFrom(f + 1, class, fields)
<1>1. WholeFrom(f, class, fields) = WholeFrom(f + 1, class, fields)
  BY DEF WholeFrom
<1>2. CutFrom(f, class, fields) = CutFrom(f + 1, class, fields)
  BY <1>1 DEF CutFrom
<1> QED BY <1>1, <1>2, Zenon DEF KeptFrom

(* From a field that has no zero: it, and what is left from the next.      *)
LEMMA KeptWhole ==
  ASSUME NEW fields, NEW class, DOMAIN fields \subseteq Nat, NEW f \in DOMAIN fields,
         ZeroFree(class[f], fields[f])
  PROVE  KeptFrom(f, class, fields) = With(KeptFrom(f + 1, class, fields), f, fields[f])
<1> DEFINE W == WholeFrom(f, class, fields) W1 == WholeFrom(f + 1, class, fields)
           C == CutFrom(f, class, fields) C1 == CutFrom(f + 1, class, fields)
<1>1. W = W1 \cup {f} /\ f \notin W1
  BY DEF WholeFrom
<1>2. W1 \subseteq DOMAIN fields /\ C1 \subseteq DOMAIN fields
      /\ (\A g \in C1 : f + 1 <= g)
  BY DEF WholeFrom, CutFrom
<1>3. C = C1
  <2>1. C \subseteq C1
    BY <1>1 DEF CutFrom
  <2>2. C1 \subseteq C
    BY <1>1 DEF CutFrom
  <2> QED BY <2>1, <2>2
<1> DEFINE k == [g \in W \cup C |-> IF g \in W THEN fields[g] ELSE UpTo0(fields[g])]
           k1 == [g \in W1 \cup C1 |-> IF g \in W1 THEN fields[g] ELSE UpTo0(fields[g])]
<1>4. KeptFrom(f, class, fields) = k /\ KeptFrom(f + 1, class, fields) = k1
  BY DEF KeptFrom
<1>5. f \notin C1
  BY <1>2
<1> HIDE DEF W, W1, C, C1
<1>6. k = With(k1, f, fields[f])
  <2>1. With(k1, f, fields[f]) =
          [x \in (W1 \cup C1) \cup {f} |-> IF x \in W1 \cup C1 THEN k1[x] ELSE fields[f]]
    BY <1>1, <1>5 DEF With
  <2>2. W \cup C = (W1 \cup C1) \cup {f}
    BY <1>1, <1>3
  <2>3. \A x \in W \cup C : k[x] = IF x \in W1 \cup C1 THEN k1[x] ELSE fields[f]
    BY <1>1, <1>3, <1>5
  <2> QED BY <2>1, <2>2, <2>3
<1> QED BY <1>4, <1>6

(* From a field that has one: what is in front of it.                      *)
LEMMA KeptCut ==
  ASSUME NEW fields, NEW class, DOMAIN fields \subseteq Nat, NEW f \in DOMAIN fields,
         ~ZeroFree(class[f], fields[f])
  PROVE  KeptFrom(f, class, fields)
           = IF class[f] = STRING_ THEN With(<<>>, f, UpTo0(fields[f])) ELSE <<>>
<1>1. WholeFrom(f, class, fields) = {}
  BY DEF WholeFrom
<1>2. CutFrom(f, class, fields) = IF class[f] = STRING_ THEN {f} ELSE {}
  BY <1>1 DEF CutFrom
<1>3. CASE class[f] = STRING_
  BY <1>1, <1>2, <1>3 DEF KeptFrom, With
<1>4. CASE class[f] # STRING_
  <2>1. KeptFrom(f, class, fields) = [g \in {} |-> IF g \in {} THEN fields[g] ELSE UpTo0(fields[g])]
    BY <1>1, <1>2, <1>4 DEF KeptFrom
  <2> QED BY <1>4, <2>1
<1> QED BY <1>3, <1>4

(* Behind the last: nothing.                                               *)
LEMMA KeptNone ==
  ASSUME NEW fields, NEW class, NEW n \in Nat, DOMAIN fields \subseteq 1 .. n
  PROVE  KeptFrom(n + 1, class, fields) = <<>>
<1>1. WholeFrom(n + 1, class, fields) = {} /\ CutFrom(n + 1, class, fields) = {}
  BY DEF WholeFrom, CutFrom
<1>2. KeptFrom(n + 1, class, fields) = [g \in {} |-> IF g \in {} THEN fields[g] ELSE UpTo0(fields[g])]
  BY <1>1 DEF KeptFrom
<1> QED BY <1>2

(* A message without zeros is left whole.                                  *)
LEMMA LeftWhole ==
  ASSUME NEW m, NEW class, class = _msg_id_names[m.id],
         m.fields = [f \in DOMAIN m.fields |-> m.fields[f]],
         \A f \in DOMAIN m.fields : ZeroFree(class[f], m.fields[f])
  PROVE  Left(m) = m.fields
<1> DEFINE whole == {f \in DOMAIN m.fields : \A g \in DOMAIN m.fields :
                       g <= f => ZeroFree(class[g], m.fields[g])}
           cut == {f \in DOMAIN m.fields \ whole :
                     class[f] = STRING_ /\ \A g \in DOMAIN m.fields : g < f => g \in whole}
<1>1. Left(m) = [f \in whole \cup cut |-> IF f \in whole THEN m.fields[f] ELSE UpTo0(m.fields[f])]
  BY DEF Left
<1>2. whole = DOMAIN m.fields /\ cut = {}
  OBVIOUS
<1> HIDE DEF whole, cut
<1> QED BY <1>1, <1>2
-----------------------------------------------------------------------------
LEMMA Least ==
  ASSUME NEW S \in SUBSET Nat, S # {}
  PROVE  \E i \in S : \A j \in S : i <= j
<1> DEFINE R == {ss \in Nat \X Nat : ss[1] < ss[2]}
<1>1. IsWellFoundedOn(R, Nat)
  BY NatLessThanWellFounded DEF OpToRel
<1>2. \A x, y \in Nat : <<y, x>> \notin R => x <= y
  OBVIOUS
<1> HIDE DEF R
<1>3. PICK x \in S : \A y \in S : <<y, x>> \notin R
  BY <1>1, WFMin
<1> QED BY <1>2, <1>3

(* A part of a sequence.                                                   *)
LEMMA PartOf ==
  ASSUME NEW X, NEW s \in Seq(X), NEW a \in Nat \ {0}, NEW b \in Nat,
         a <= b + 1, b <= Len(s), NEW t, t = SubSeq(s, a, b)
  PROVE  /\ t \in Seq(X) /\ Len(t) = b + 1 - a
         /\ \A i \in 1 .. b + 1 - a : t[i] = s[a + i - 1]
<1> DEFINE n == Len(s)
<1>1. n \in Nat /\ \A i \in 1 .. n : s[i] \in X
  BY LenProperties, ElementOfSeq
<1>2. b <= n
  OBVIOUS
<1> HIDE DEF n
<1>3. \A i \in a .. b : s[i] \in X
  BY <1>1, <1>2
<1>4. /\ t \in Seq(X) /\ Len(t) = (IF a <= b THEN b - a + 1 ELSE 0)
      /\ \A i \in 1 .. b - a + 1 : t[i] = s[a + i - 1]
  BY <1>3, SubSeqProperties
<1> QED BY <1>4

(* Up to the first zero.                                                   *)
LEMMA UpTo0Facts ==
  ASSUME NEW bytes \in Seq(Byte), NEW n, n = Len(bytes), NEW text, text = UpTo0(bytes)
  PROVE  /\ text \in Seq(Byte) /\ n \in Nat /\ Len(text) \in 0 .. n
         /\ \A i \in 1 .. Len(text) : text[i] = bytes[i] /\ bytes[i] # 0
         /\ Len(text) = n \/ bytes[Len(text) + 1] = 0
         /\ \A k \in 0 .. n :
              (k = n \/ bytes[k + 1] = 0) /\ (\A i \in 1 .. k : bytes[i] # 0)
                => text = SubSeq(bytes, 1, k) /\ k = Len(text)
<1> DEFINE zeros == {i \in 1 .. n : bytes[i] = 0}
<1>1. n \in Nat /\ DOMAIN bytes = 1 .. n /\ bytes = SubSeq(bytes, 1, n)
  BY LenProperties, SubSeqFull
<1>1a. text = IF zeros = {} THEN bytes
              ELSE SubSeq(bytes, 1, (CHOOSE i \in zeros : \A j \in zeros : i <= j) - 1)
  BY <1>1 DEF UpTo0
<1>2. PICK k \in 0 .. n :
        /\ text = SubSeq(bytes, 1, k) /\ (k = n \/ bytes[k + 1] = 0)
        /\ \A i \in 1 .. k : bytes[i] # 0
  <2>1. CASE zeros = {}
    <3>1. text = SubSeq(bytes, 1, n)
      BY <1>1, <1>1a, <2>1
    <3>2. n \in 0 .. n /\ \A i \in 1 .. n : bytes[i] # 0
      BY <1>1, <2>1
    <3> QED BY <3>1, <3>2
  <2>2. CASE zeros # {}
    <3> DEFINE z == CHOOSE i \in zeros : \A j \in zeros : i <= j
    <3>1. text = SubSeq(bytes, 1, z - 1)
      BY <1>1a, <2>2
    <3>2. zeros \in SUBSET Nat
      BY <1>1
    <3>3. z \in zeros /\ \A j \in zeros : z <= j
      <4> HIDE DEF zeros
      <4>1. \E i \in zeros : \A j \in zeros : i <= j
        BY <2>2, <3>2, Least
      <4> QED BY <4>1
    <3> HIDE DEF z
    <3>4. z \in 1 .. n /\ bytes[z] = 0
      BY <3>3
    <3>5. \A i \in 1 .. z - 1 : bytes[i] # 0
      <4> SUFFICES ASSUME NEW i \in 1 .. z - 1, bytes[i] = 0 PROVE FALSE
        OBVIOUS
      <4>1. i \in 1 .. n /\ i < z
        BY <1>1, <3>4
      <4> QED BY <3>3, <3>4, <4>1
    <3>6. z - 1 \in 0 .. n /\ (z - 1) + 1 = z
      BY <1>1, <3>4
    <3> QED BY <3>1, <3>4, <3>5, <3>6
  <2> QED BY <2>1, <2>2
<1>3. /\ text \in Seq(Byte) /\ Len(text) = k
      /\ \A i \in 1 .. k : text[i] = bytes[i]
  <2>1. k \in Nat /\ k <= Len(bytes) /\ 1 <= k + 1 /\ k + 1 - 1 = k /\ 1 \in Nat \ {0}
    BY <1>1
  <2>2. /\ text \in Seq(Byte) /\ Len(text) = k + 1 - 1
        /\ \A i \in 1 .. k + 1 - 1 : text[i] = bytes[1 + i - 1]
    BY <1>2, <2>1, PartOf
  <2>3. \A i \in 1 .. k : 1 + i - 1 = i
    BY <2>1
  <2> QED BY <2>1, <2>2, <2>3
<1>4. ASSUME NEW l \in 0 .. n, l = n \/ bytes[l + 1] = 0,
             \A i \in 1 .. l : bytes[i] # 0
      PROVE  l = k
  <2>1. CASE l < k
    <3>1. l + 1 \in 1 .. k /\ l # n
      BY <1>1, <2>1
    <3> QED BY <1>2, <1>4, <3>1
  <2>2. CASE k < l
    <3>1. k + 1 \in 1 .. l /\ k # n
      BY <1>1, <2>2
    <3> QED BY <1>2, <1>4, <3>1
  <2> QED BY <1>1, <2>1, <2>2
<1> QED BY <1>1, <1>2, <1>3, <1>4
-----------------------------------------------------------------------------
(* The reader: what it reads at place p, when from[r] is what it reads at  *)
(* a place r behind.                                                       *)
ReadOn(bytes, from, q, r) == IF r \in q .. Len(bytes) + 1 THEN from[r] ELSE <<>>

ReadUnknown(wire, bytes, q) ==
  CASE wire = 0 -> IF VarintEnd(bytes, q) = 0 THEN 0 ELSE VarintEnd(bytes, q) + 1
    [] wire = 1 -> q + 8
    [] wire = 2 -> IF VarintEnd(bytes, q) = 0 THEN 0
                   ELSE VarintEnd(bytes, q) + 1 + ReadVarint(bytes, q)
    [] wire = 5 -> q + 4
    [] OTHER -> 0

ReadField(type, f, bytes, from, q) ==
  IF VarintEnd(bytes, q) = 0 THEN IF type = STRING_ THEN With(<<>>, f, <<>>) ELSE <<>>
  ELSE IF type = STRING_
    THEN LET last == VarintEnd(bytes, q) + 1 + ReadVarint(bytes, q) - 1 IN
         With(ReadOn(bytes, from, q, last + 1), f,
              SubSeq(bytes, VarintEnd(bytes, q) + 1,
                IF last < Len(bytes) THEN last ELSE Len(bytes)))
  ELSE With(ReadOn(bytes, from, q, VarintEnd(bytes, q) + 1), f,
            IF type = BOOL THEN ReadVarint(bytes, q) # 0 ELSE ReadVarint(bytes, q))

ReadAt(class, bytes, from, p) ==
  LET tag == ReadVarint(bytes, p)
      f == tag \div 8
      q == VarintEnd(bytes, p) + 1
  IN  IF VarintEnd(bytes, p) = 0 \/ tag = 0 THEN <<>>
      ELSE IF ~(f \in DOMAIN class /\ tag % 8 = WireType(class[f]))
        THEN ReadOn(bytes, from, q, ReadUnknown(tag % 8, bytes, q))
      ELSE ReadField(class[f], f, bytes, from, q)

LEMMA MergeIs ==
  ASSUME NEW id, NEW bytes
  PROVE  Merge(id, bytes)
           = (CHOOSE from :
                from = [p \in 1 .. Len(bytes) + 1 |-> ReadAt(_msg_id_names[id], bytes, from, p)])[1]
BY DEF Merge, ReadAt, ReadField, ReadUnknown, ReadOn

(* It looks at places behind only.                                         *)
LEMMA ReadsBehind ==
  ASSUME NEW class, NEW bytes \in Seq(Byte), NEW p \in 1 .. Len(bytes) + 1,
         NEW from, NEW other, \A r \in p + 1 .. Len(bytes) + 1 : from[r] = other[r]
  PROVE  ReadAt(class, bytes, from, p) = ReadAt(class, bytes, other, p)
<1> DEFINE n == Len(bytes)
           tag == ReadVarint(bytes, p)
           f == tag \div 8
           q == VarintEnd(bytes, p) + 1
<1>1. n \in Nat
  BY LenProperties
<1>2. CASE VarintEnd(bytes, p) = 0 \/ tag = 0
  BY <1>2 DEF ReadAt
<1>3. CASE ~(VarintEnd(bytes, p) = 0 \/ tag = 0)
  <2> DEFINE ends == {e \in p .. (IF p + 9 < n THEN p + 9 ELSE n) : bytes[e] < 128}
  <2>1. VarintEnd(bytes, p) \in Nat /\ p <= VarintEnd(bytes, p)
    <3>1. ends # {} /\ VarintEnd(bytes, p) = CHOOSE e \in ends : \A g \in ends : e <= g
      BY <1>3 DEF VarintEnd
    <3>2. ends \in SUBSET Nat /\ \A e \in ends : p <= e
      BY <1>1
    <3> HIDE DEF ends
    <3>3. \E e \in ends : \A g \in ends : e <= g
      BY <3>1, <3>2, Least
    <3> QED BY <3>1, <3>2, <3>3
  <2>2. ASSUME NEW r
        PROVE  ReadOn(bytes, from, q, r) = ReadOn(bytes, other, q, r)
    <3>1. CASE r \in q .. n + 1
      <4>1. r \in p + 1 .. n + 1
        BY <1>1, <2>1, <3>1
      <4> QED BY <3>1, <4>1 DEF ReadOn
    <3>2. CASE r \notin q .. n + 1
      BY <3>2 DEF ReadOn
    <3> QED BY <3>1, <3>2
  <2>3. CASE ~(f \in DOMAIN class /\ tag % 8 = WireType(class[f]))
    <3> HIDE DEF q, tag, f
    <3>1. ReadAt(class, bytes, from, p) = ReadOn(bytes, from, q, ReadUnknown(tag % 8, bytes, q))
      BY <1>3, <2>3 DEF ReadAt, q, tag, f
    <3>2. ReadAt(class, bytes, other, p) = ReadOn(bytes, other, q, ReadUnknown(tag % 8, bytes, q))
      BY <1>3, <2>3 DEF ReadAt, q, tag, f
    <3> QED BY <2>2, <3>1, <3>2, Zenon
  <2>4. CASE f \in DOMAIN class /\ tag % 8 = WireType(class[f])
    <3> HIDE DEF q, tag, f
    <3>1. ReadAt(class, bytes, from, p) = ReadField(class[f], f, bytes, from, q)
      BY <1>3, <2>4 DEF ReadAt, q, tag, f
    <3>2. ReadAt(class, bytes, other, p) = ReadField(class[f], f, bytes, other, q)
      BY <1>3, <2>4 DEF ReadAt, q, tag, f
    <3>3. ReadField(class[f], f, bytes, from, q) = ReadField(class[f], f, bytes, other, q)
      <4> DEFINE r1 == VarintEnd(bytes, q) + 1 + ReadVarint(bytes, q) - 1 + 1
                 r2 == VarintEnd(bytes, q) + 1
      <4>1. /\ ReadOn(bytes, from, q, r1) = ReadOn(bytes, other, q, r1)
            /\ ReadOn(bytes, from, q, r2) = ReadOn(bytes, other, q, r2)
        BY <2>2, Zenon
      <4> QED BY <4>1, Zenon DEF ReadField
    <3> QED BY <3>1, <3>2, <3>3
  <2> QED BY <2>3, <2>4
<1> QED BY <1>2, <1>3

LEMMA ReadsExist ==
  ASSUME NEW class, NEW bytes \in Seq(Byte)
  PROVE  \A k \in Nat : k <= Len(bytes) + 1 =>
           \E from : from = [p \in Len(bytes) + 2 - k .. Len(bytes) + 1 |->
                               ReadAt(class, bytes, from, p)]
<1> DEFINE n == Len(bytes)
           Below(k) == n + 2 - k .. n + 1
           Is(from, k) == from = [p \in Below(k) |-> ReadAt(class, bytes, from, p)]
           S == {k \in Nat : k <= n + 1 => \E from : Is(from, k)}
<1>0. n \in Nat
  BY LenProperties
<1>1. 0 \in S
  <2>1. \A p : p \notin Below(0)
    BY <1>0
  <2>2. Is([p \in Below(0) |-> 0], 0)
    <3> HIDE DEF Below
    <3> QED BY <2>1
  <2> QED BY <2>2
<1>2. ASSUME NEW k \in Nat, k \in S
      PROVE  k + 1 \in S
  <2> SUFFICES ASSUME k + 1 <= n + 1 PROVE \E from : Is(from, k + 1)
    OBVIOUS
  <2>1. PICK from : Is(from, k)
    BY <1>0, <1>2
  <2> DEFINE p0 == n + 1 - k
             more == [p \in Below(k + 1) |->
                        IF p = p0 THEN ReadAt(class, bytes, from, p0) ELSE from[p]]
  <2>2. /\ p0 \in 1 .. n + 1 /\ p0 \in Below(k + 1) /\ p0 \notin Below(k)
        /\ \A p \in Below(k + 1) : p # p0 => p \in Below(k)
        /\ \A p \in Below(k) : p \in Below(k + 1)
        /\ Below(k) = p0 + 1 .. n + 1
        /\ \A p \in Below(k + 1) : /\ p \in 1 .. n + 1
                                   /\ \A r \in p + 1 .. n + 1 : r \in Below(k)
    BY <1>0
  <2> HIDE DEF p0, Below
  <2>3. \A p \in Below(k) : from[p] = ReadAt(class, bytes, from, p)
    BY <2>1
  <2>4. \A r \in Below(k) : more[r] = from[r]
    BY <2>2
  <2>5. \A p \in Below(k + 1) : more[p] = IF p = p0 THEN ReadAt(class, bytes, from, p0) ELSE from[p]
    OBVIOUS
  <2>6. more = [p \in Below(k + 1) |-> more[p]]
    OBVIOUS
  <2> HIDE DEF more
  <2>7. \A p \in Below(k + 1) : ReadAt(class, bytes, more, p) = ReadAt(class, bytes, from, p)
    <3> SUFFICES ASSUME NEW p \in Below(k + 1)
                 PROVE  ReadAt(class, bytes, more, p) = ReadAt(class, bytes, from, p)
      OBVIOUS
    <3>1. p \in 1 .. n + 1
      BY <2>2
    <3>2. \A r \in p + 1 .. n + 1 : more[r] = from[r]
      BY <2>2, <2>4
    <3> QED BY <3>1, <3>2, ReadsBehind
  <2>8. \A p \in Below(k + 1) : more[p] = ReadAt(class, bytes, more, p)
    BY <2>2, <2>3, <2>5, <2>7
  <2>9. Is(more, k + 1)
    BY <2>6, <2>8
  <2> HIDE DEF Is
  <2> QED BY <2>9
<1> HIDE DEF S
<1>3. \A k \in Nat : k \in S
  BY <1>1, <1>2, Induct
<1> QED BY <1>3 DEF S

LEMMA MergeReads ==
  ASSUME NEW id, NEW bytes \in Seq(Byte)
  PROVE  \E from :
           /\ Merge(id, bytes) = from[1]
           /\ \A p \in 1 .. Len(bytes) + 1 : from[p] = ReadAt(_msg_id_names[id], bytes, from, p)
<1> DEFINE n == Len(bytes)
           Is(fr) == fr = [p \in 1 .. n + 1 |-> ReadAt(_msg_id_names[id], bytes, fr, p)]
           from == CHOOSE fr : Is(fr)
<1>1. n \in Nat
  BY LenProperties
<1>2. n + 1 \in Nat /\ n + 1 <= n + 1 /\ n + 2 - (n + 1) = 1
  BY <1>1
<1>3. \E fr : Is(fr)
  <2> DEFINE class == _msg_id_names[id]
  <2> HIDE DEF class
  <2>1a. \A k \in Nat : k <= n + 1 =>
           \E fr : fr = [p \in n + 2 - k .. n + 1 |-> ReadAt(class, bytes, fr, p)]
    BY ReadsExist
  <2>1. \E fr : fr = [p \in n + 2 - (n + 1) .. n + 1 |-> ReadAt(_msg_id_names[id], bytes, fr, p)]
    BY <1>2, <2>1a DEF class
  <2> QED BY <1>2, <2>1
<1>4. Is(from)
  <2> HIDE DEF Is
  <2> QED BY <1>3
<1>5. Merge(id, bytes) = from[1]
  BY MergeIs
<1> HIDE DEF from
<1> QED BY <1>4, <1>5

LEMMA ReadEnd ==
  ASSUME NEW class, NEW text \in Seq(Byte), NEW from
  PROVE  ReadAt(class, text, from, Len(text) + 1) = <<>>
BY VarintEndNone DEF ReadAt

LEMMA ReadTag ==
  ASSUME NEW class, NEW text \in Seq(Byte), NEW from, NEW f \in 1 .. 3, f \in DOMAIN class,
         class[f] \in Types, NEW p \in Nat \ {0}, p <= Len(text),
         text[p] = 8 * f + WireType(class[f])
  PROVE  ReadAt(class, text, from, p) = ReadField(class[f], f, text, from, p + 1)
<1> DEFINE wire == WireType(class[f])
           tag == 8 * f + wire
           s == Varint(tag)
<1>1. wire \in {0, 2}
  BY DEF WireType
<1> HIDE DEF wire
<1>2. tag \in 0 .. 127 /\ tag # 0 /\ tag \div 8 = f /\ tag % 8 = wire
  BY <1>1
<1>3. text[p] = tag
  BY DEF wire
<1> HIDE DEF tag
<1>4. tag \in Int32 /\ s = <<tag>>
  BY <1>2, VarintOfOne
<1>5. HasAt(text, p, s)
  <2>1. Len(s) = 1 /\ s[1] = tag
    BY <1>4
  <2>2. p + 1 - 1 = p
    OBVIOUS
  <2> HIDE DEF s
  <2> QED BY <1>3, <2>1, <2>2 DEF HasAt
<1>6. VarintEnd(text, p) = p + Len(s) - 1 /\ ReadVarint(text, p) = tag
  BY <1>4, <1>5, VarintRead
<1>7. VarintEnd(text, p) = p
  <2>1. Len(s) = 1
    BY <1>4
  <2> HIDE DEF s
  <2> QED BY <1>6, <2>1
<1> QED BY <1>2, <1>6, <1>7 DEF ReadAt, wire

(* A part that is there is what SubSeq cuts out.                           *)
LEMMA CutOut ==
  ASSUME NEW X, NEW bytes \in Seq(X), NEW v \in Seq(X), NEW a \in Nat \ {0},
         HasAt(bytes, a, v)
  PROVE  SubSeq(bytes, a, a + Len(v) - 1) = v
<1> DEFINE l == Len(v) n == Len(bytes) b == a + l - 1 t == SubSeq(bytes, a, b)
<1>1. l \in Nat /\ n \in Nat /\ b \in Nat /\ b + 1 - a = l /\ a <= b + 1 /\ b <= n
  BY LenProperties DEF HasAt
<1>2. /\ t \in Seq(X) /\ Len(t) = b + 1 - a
      /\ \A i \in 1 .. b + 1 - a : t[i] = bytes[a + i - 1]
  BY <1>1, PartOf
<1>3. \A i \in 1 .. l : bytes[a + i - 1] = v[i]
  BY DEF HasAt
<1> HIDE DEF b, t
<1>4. Len(t) = l /\ \A i \in 1 .. l : t[i] = v[i]
  BY <1>1, <1>2, <1>3
<1>5. t = v
  <2>1. Len(t) = Len(v) /\ \A i \in 1 .. Len(t) : t[i] = v[i]
    BY <1>4
  <2> QED BY <1>2, <2>1, SeqEqual
<1> QED BY <1>5 DEF t, b

(* A field that is there as a whole.                                       *)
LEMMA ReadWhole ==
  ASSUME NEW text \in Seq(Byte), NEW from, NEW f, NEW type \in Types, NEW v, IsValue(type, v),
         NEW q \in Nat \ {0}, HasAt(text, q, Encoded(type, v))
  PROVE  ReadField(type, f, text, from, q) = With(from[q + Len(Encoded(type, v))], f, v)
<1> DEFINE e == Encoded(type, v) n == Len(text)
<1>1. e \in Seq(Byte) /\ Len(e) \in Nat \ {0}
  BY EncodedFacts
<1>2. n \in Nat /\ q + Len(e) - 1 <= n /\ \A i \in 1 .. Len(e) : text[q + i - 1] = e[i]
  BY LenProperties DEF HasAt
<1>3. ReadOn(text, from, q, q + Len(e)) = from[q + Len(e)]
  <2> HIDE DEF e
  <2>1. q + Len(e) \in q .. n + 1
    BY <1>1, <1>2
  <2> QED BY <2>1 DEF ReadOn
<1>4. CASE type = BOOL
  <2> DEFINE b == IF v THEN 1 ELSE 0
  <2>1. v \in BOOLEAN /\ e = (IF v THEN <<1>> ELSE << 0 >>)
    BY <1>4, TypesDiffer DEF IsValue, Encoded
  <2>2. b \in 0 .. 127 /\ e = <<b>> /\ ((b # 0) = v)
    <3>1. CASE v
      <4>1. e = <<1>>
        BY <2>1, <3>1, Zenon
      <4>1a. v = TRUE
        BY <2>1, <3>1, Zenon
      <4>2. b = 1
        BY <3>1, Zenon
      <4>3. (b # 0) = TRUE
        BY <4>2
      <4> HIDE DEF b, e
      <4>4. b \in 0 .. 127 /\ e = <<b>>
        BY <4>1, <4>2
      <4> QED BY <4>1a, <4>3, <4>4, Zenon
    <3>2. CASE ~v
      <4>1. e = << 0 >>
        BY <2>1, <3>2, Zenon
      <4>1a. v = FALSE
        BY <2>1, <3>2, Zenon
      <4>2. b = 0
        BY <3>2, Zenon
      <4>3. (b # 0) = FALSE
        BY <4>2
      <4> HIDE DEF b, e
      <4>4. b \in 0 .. 127 /\ e = <<b>>
        BY <4>1, <4>2
      <4> QED BY <4>1a, <4>3, <4>4, Zenon
    <3> QED BY <3>1, <3>2
  <2> HIDE DEF b, e
  <2>3. b \in Int32 /\ Varint(b) = e /\ Len(e) = 1
    BY <2>2, VarintOfOne
  <2>4. VarintEnd(text, q) = q + Len(Varint(b)) - 1 /\ ReadVarint(text, q) = b
    BY <2>3, VarintRead DEF e
  <2>5. VarintEnd(text, q) = q /\ q # 0
    <3>1. Len(Varint(b)) = 1
      BY <2>3
    <3>2. q + 1 - 1 = q
      OBVIOUS
    <3> QED BY <2>4, <3>1, <3>2
  <2>6. ReadField(type, f, text, from, q) =
          With(ReadOn(text, from, q, VarintEnd(text, q) + 1), f, ReadVarint(text, q) # 0)
    BY <1>4, <2>5, TypesDiffer, Zenon DEF ReadField
  <2>7. (ReadVarint(text, q) # 0) = v
    BY <2>2, <2>4, Zenon
  <2>8. VarintEnd(text, q) + 1 = q + Len(e)
    BY <2>3, <2>5
  <2> QED BY <1>3, <2>6, <2>7, <2>8, Zenon DEF e
<1>5. CASE type = INT32
  <2>1. v \in Int32 /\ e = Varint(v)
    BY <1>5, TypesDiffer DEF IsValue, Encoded
  <2>2. VarintEnd(text, q) = q + Len(e) - 1 /\ ReadVarint(text, q) = v
    BY <2>1, VarintRead
  <2> HIDE DEF e
  <2>3. VarintEnd(text, q) # 0 /\ VarintEnd(text, q) + 1 = q + Len(e)
    BY <1>1, <2>2
  <2>4. ReadField(type, f, text, from, q) =
          With(ReadOn(text, from, q, VarintEnd(text, q) + 1), f, ReadVarint(text, q))
    BY <1>5, <2>3, TypesDiffer, Zenon DEF ReadField
  <2> QED BY <1>3, <2>2, <2>3, <2>4, Zenon DEF e
<1>6. CASE type = STRING_
  <2> DEFINE s == Varint(Len(v)) l == Len(v) a == q + Len(s)
             last == VarintEnd(text, q) + 1 + ReadVarint(text, q) - 1
  <2>1. /\ v \in Seq(Byte) /\ l \in Nat /\ l \in Int32 /\ s \in Seq(Byte)
        /\ Len(s) \in 1 .. 5 /\ Len(e) = Len(s) + l
        /\ \A i \in 1 .. Len(s) : e[i] = s[i]
        /\ \A i \in 1 .. l : e[Len(s) + i] = v[i]
    BY <1>6, EncodedFacts
  <2>2. HasAt(text, q, s)
    <3> HIDE DEF e, s, l
    <3>1. q + Len(s) - 1 <= n
      BY <1>2, <2>1
    <3>2. \A i \in 1 .. Len(s) : text[q + i - 1] = s[i]
      BY <1>1, <1>2, <2>1
    <3> QED BY <3>1, <3>2 DEF HasAt
  <2>3. HasAt(text, a, v)
    <3> HIDE DEF e, s
    <3>1. a + l - 1 <= n
      BY <1>2, <2>1
    <3>2. \A i \in 1 .. l : text[a + i - 1] = v[i]
      <4> SUFFICES ASSUME NEW i \in 1 .. l PROVE text[a + i - 1] = v[i]
        OBVIOUS
      <4> HIDE DEF l
      <4>1. Len(s) + i \in 1 .. Len(e) /\ q + (Len(s) + i) - 1 = a + i - 1
        BY <2>1
      <4>2. text[q + (Len(s) + i) - 1] = e[Len(s) + i]
        BY <1>2, <4>1, Zenon
      <4> QED BY <2>1, <4>1, <4>2
    <3> QED BY <3>1, <3>2 DEF HasAt
  <2>4. VarintEnd(text, q) = q + Len(s) - 1 /\ ReadVarint(text, q) = l
    BY <2>1, <2>2, VarintRead
  <2> HIDE DEF e, s, l, n
  <2>5. /\ a \in Nat \ {0} /\ VarintEnd(text, q) # 0 /\ VarintEnd(text, q) + 1 = a
        /\ last = a + l - 1 /\ last + 1 = q + Len(e)
        /\ (IF last < n THEN last ELSE n) = a + l - 1
    <3> DEFINE ve == VarintEnd(text, q) rv == ReadVarint(text, q) ls == Len(s) le == Len(e)
    <3>1. /\ n \in Nat /\ q + le - 1 <= n /\ l \in Nat /\ ls \in 1 .. 5 /\ le = ls + l
          /\ ve = q + ls - 1 /\ rv = l /\ q \in Nat \ {0}
      BY <1>2, <2>1, <2>4
    <3> HIDE DEF ve, rv, ls, le
    <3>2. /\ q + ls \in Nat \ {0} /\ ve # 0 /\ ve + 1 = q + ls
          /\ ve + 1 + rv - 1 = q + ls + l - 1 /\ ve + 1 + rv - 1 + 1 = q + le
          /\ (IF ve + 1 + rv - 1 < n THEN ve + 1 + rv - 1 ELSE n) = q + ls + l - 1
      BY <3>1
    <3> QED BY <3>2 DEF ve, rv, ls, le
  <2>6. SubSeq(text, a, a + l - 1) = v
    BY <2>1, <2>3, <2>5, CutOut DEF l
  <2>7. ReadField(type, f, text, from, q) =
          With(ReadOn(text, from, q, last + 1), f,
               SubSeq(text, VarintEnd(text, q) + 1, IF last < n THEN last ELSE n))
    BY <1>6, <2>5, Zenon DEF ReadField, n
  <2> HIDE DEF last, a
  <2> QED BY <1>3, <2>5, <2>6, <2>7, Zenon DEF e
<1> QED BY <1>4, <1>5, <1>6 DEF Types

(* A field in front of which, or of whose value, the text ends.            *)
LEMMA ReadNone ==
  ASSUME NEW text \in Seq(Byte), NEW from, NEW f, NEW type \in Types
  PROVE  ReadField(type, f, text, from, Len(text) + 1)
           = IF type = STRING_ THEN With(<<>>, f, <<>>) ELSE <<>>
BY VarintEndNone DEF ReadField

(* A string the text ends in.                                              *)
LEMMA ReadCut ==
  ASSUME NEW text \in Seq(Byte), NEW from, NEW f, NEW v \in Seq(Byte), Len(v) \in Int32,
         NEW q \in Nat \ {0}, HasAt(text, q, Varint(Len(v))),
         NEW k \in Nat, k < Len(v), Len(text) = q + Len(Varint(Len(v))) - 1 + k,
         \A i \in 1 .. k : text[q + Len(Varint(Len(v))) + i - 1] = v[i]
  PROVE  ReadField(STRING_, f, text, from, q) = With(<<>>, f, SubSeq(v, 1, k))
<1> DEFINE s == Varint(Len(v)) l == Len(v) n == Len(text) a == q + Len(s)
           last == VarintEnd(text, q) + 1 + ReadVarint(text, q) - 1
           w == SubSeq(v, 1, k)
<1>1. l \in Nat /\ n \in Nat /\ k < l
  BY LenProperties
<1>2. Len(s) \in 1 .. 10
  BY VarintFacts
<1>3. VarintEnd(text, q) = q + Len(s) - 1 /\ ReadVarint(text, q) = l
  BY VarintRead
<1>4. n = a - 1 + k
  <2>1. n = q + Len(s) - 1 + k
    OBVIOUS
  <2> HIDE DEF s, n
  <2> QED BY <1>2, <2>1
<1>5. \A i \in 1 .. k : text[a + i - 1] = v[i]
  OBVIOUS
<1> HIDE DEF s, l, n
<1>6. /\ a \in Nat \ {0} /\ VarintEnd(text, q) # 0 /\ VarintEnd(text, q) + 1 = a
      /\ last = a + l - 1 /\ ~(last < n) /\ last + 1 \notin q .. n + 1
  <2> DEFINE ve == VarintEnd(text, q) rv == ReadVarint(text, q) ls == Len(s)
  <2>1. /\ n \in Nat /\ l \in Nat /\ ls \in 1 .. 10 /\ k < l /\ n = q + ls - 1 + k
        /\ ve = q + ls - 1 /\ rv = l /\ q \in Nat \ {0}
    BY <1>1, <1>2, <1>3, <1>4
  <2> HIDE DEF ve, rv, ls
  <2>2. /\ q + ls \in Nat \ {0} /\ ve # 0 /\ ve + 1 = q + ls
        /\ ve + 1 + rv - 1 = q + ls + l - 1 /\ ~(ve + 1 + rv - 1 < n)
        /\ ve + 1 + rv - 1 + 1 \notin q .. n + 1
    BY <2>1
  <2> QED BY <2>2 DEF ve, rv, ls
<1>7. ReadField(STRING_, f, text, from, q) =
        With(ReadOn(text, from, q, last + 1), f,
             SubSeq(text, VarintEnd(text, q) + 1, IF last < n THEN last ELSE n))
  BY <1>6, Zenon DEF ReadField, n
<1>8. ReadOn(text, from, q, last + 1) = <<>>
  BY <1>6, Zenon DEF ReadOn, n
<1>9. w \in Seq(Byte) /\ Len(w) = k /\ \A i \in 1 .. k : w[i] = v[i]
  <2>1. k <= Len(v) /\ 1 <= k + 1 /\ 1 \in Nat \ {0} /\ k + 1 - 1 = k
    BY <1>1 DEF l
  <2>2. /\ w \in Seq(Byte) /\ Len(w) = k + 1 - 1
        /\ \A i \in 1 .. k + 1 - 1 : w[i] = v[1 + i - 1]
    BY <2>1, PartOf
  <2>3. \A i \in 1 .. k : 1 + i - 1 = i
    OBVIOUS
  <2> HIDE DEF w
  <2> QED BY <2>1, <2>2, <2>3
<1> HIDE DEF w, last, a
<1>10. HasAt(text, a, w)
  <2>1. a + Len(w) - 1 <= n
    BY <1>4, <1>6, <1>9
  <2>2. \A i \in 1 .. Len(w) : text[a + i - 1] = w[i]
    BY <1>5, <1>9
  <2> QED BY <2>1, <2>2 DEF HasAt, n
<1>11. SubSeq(text, a, a + Len(w) - 1) = w
  BY <1>6, <1>9, <1>10, CutOut
<1>12. a + Len(w) - 1 = n
  BY <1>4, <1>6, <1>9
<1> QED BY <1>6, <1>7, <1>8, <1>11, <1>12, Zenon DEF w

(* The text ends in front of the first zero of the body.                   *)
TextOf(body, B, text, N) ==
  /\ B \in Nat /\ N \in 0 .. B /\ text \in Seq(Byte) /\ N = Len(text)
  /\ \A i \in 1 .. N : text[i] = body[i] /\ body[i] # 0
  /\ N = B \/ body[N + 1] = 0

LEMMA TextEnds ==
  ASSUME NEW body, NEW B, NEW text, NEW N, TextOf(body, B, text, N),
         NEW K \in 0 .. B, \A i \in 1 .. K : body[i] # 0
  PROVE  K <= N /\ (body[K + 1] = 0 => K = N)
<1>1. /\ B \in Nat /\ N \in 0 .. B /\ \A i \in 1 .. N : body[i] # 0
      /\ N = B \/ body[N + 1] = 0
  BY DEF TextOf
<1>2. K <= N
  <2> SUFFICES ASSUME N < K PROVE FALSE
    BY <1>1
  <2>1. N + 1 \in 1 .. K /\ N # B
    BY <1>1
  <2> QED BY <1>1, <2>1
<1>3. body[K + 1] = 0 => ~(K < N)
  <2> SUFFICES ASSUME body[K + 1] = 0, K < N PROVE FALSE
    OBVIOUS
  <2>1. K + 1 \in 1 .. N
    BY <1>1
  <2> QED BY <1>1, <2>1
<1> QED BY <1>1, <1>2, <1>3

(* A field that is set, and its tag and value in a body.                   *)
IsField(class, fields, f, type, v, e, le) ==
  /\ DOMAIN fields \subseteq Nat /\ f \in 1 .. 3 /\ f \in DOMAIN fields /\ f \in DOMAIN class
  /\ type \in Types /\ type = class[f] /\ v = fields[f] /\ IsValue(type, v)
  /\ e = Encoded(type, v) /\ le = Len(e)
LiesAt(body, B, N, o, tag, e, le) ==
  /\ o \in 0 .. N /\ o + 1 + le <= B /\ tag \in 8 .. 26 /\ body[o + 1] = tag
  /\ \A i \in 1 .. le : body[o + 1 + i] = e[i]

LEMMA FieldBegins ==
  ASSUME NEW body, NEW B, NEW text, NEW N, TextOf(body, B, text, N),
         NEW o, NEW tag, NEW e, NEW le \in Nat, LiesAt(body, B, N, o, tag, e, le)
  PROVE  o \in Nat /\ o + 1 <= N /\ text[o + 1] = tag
<1>1. /\ B \in Nat /\ N \in 0 .. B
      /\ \A i \in 1 .. N : text[i] = body[i]
      /\ N = B \/ body[N + 1] = 0
  BY DEF TextOf
<1>2. o \in 0 .. N /\ o + 1 + le <= B /\ tag \in 8 .. 26 /\ body[o + 1] = tag
  BY DEF LiesAt
<1>3. o # N
  <2> SUFFICES ASSUME o = N PROVE FALSE
    OBVIOUS
  <2>1. N # B
    BY <1>1, <1>2
  <2>2. body[o + 1] = 0
    BY <1>1, <2>1
  <2> QED BY <1>2, <2>2
<1>4. o + 1 \in 1 .. N /\ o \in Nat
  BY <1>1, <1>2, <1>3
<1> QED BY <1>1, <1>2, <1>4

LEMMA FieldFits ==
  ASSUME NEW body, NEW B, NEW text, NEW N, TextOf(body, B, text, N),
         NEW o, NEW tag, NEW e \in Seq(Byte), NEW le \in Nat, LiesAt(body, B, N, o, tag, e, le),
         \A i \in 1 .. le : e[i] # 0, le = Len(e)
  PROVE  o + 1 + le <= N /\ HasAt(text, o + 2, e)
<1>1. B \in Nat /\ N \in 0 .. B /\ N = Len(text) /\ \A i \in 1 .. N : text[i] = body[i] /\ body[i] # 0
  BY DEF TextOf
<1>2. o + 1 + le <= B /\ \A i \in 1 .. le : body[o + 1 + i] = e[i]
  BY DEF LiesAt
<1>3. o \in Nat /\ o + 1 <= N
  BY FieldBegins
<1>4. o + 1 + le <= N
  <2>1. o + 1 + le \in 0 .. B
    BY <1>1, <1>2, <1>3
  <2>2. ASSUME NEW i \in 1 .. o + 1 + le
        PROVE  body[i] # 0
    <3>1. CASE i <= o + 1
      BY <1>1, <1>3, <3>1
    <3>2. CASE o + 1 < i
      <4>1. i - (o + 1) \in 1 .. le /\ o + 1 + (i - (o + 1)) = i
        BY <1>3, <3>2
      <4>2. body[o + 1 + (i - (o + 1))] = e[i - (o + 1)] /\ e[i - (o + 1)] # 0
        BY <1>2, <4>1, Zenon
      <4> QED BY <4>1, <4>2, Zenon
    <3> QED BY <1>3, <3>1, <3>2
  <2> QED BY <2>1, <2>2, TextEnds
<1>5. o + 2 + le - 1 <= N
  BY <1>1, <1>3, <1>4
<1>6. ASSUME NEW i \in 1 .. le
      PROVE  text[o + 2 + i - 1] = e[i]
  <2>1. o + 2 + i - 1 = o + 1 + i /\ o + 1 + i \in 1 .. N
    BY <1>1, <1>3, <1>4
  <2> QED BY <1>1, <1>2, <2>1, Zenon
<1> QED BY <1>1, <1>4, <1>5, <1>6, Zenon DEF HasAt

LEMMA FieldCutAt0 ==
  ASSUME NEW body, NEW B, NEW text, NEW N, TextOf(body, B, text, N),
         NEW o, NEW tag, NEW e, NEW le, LiesAt(body, B, N, o, tag, e, le),
         e = << 0 >>, le = Len(e)
  PROVE  N = o + 1
<1>1. B \in Nat /\ N \in 0 .. B /\ \A i \in 1 .. N : body[i] # 0
  BY DEF TextOf
<1>2. le = 1 /\ e[1] = 0
  OBVIOUS
<1>3. o \in Nat /\ o + 1 <= N
  BY <1>2, FieldBegins
<1>4. body[o + 1 + 1] = 0
  BY <1>2 DEF LiesAt
<1>5. ~(o + 1 + 1 <= N)
  <2> SUFFICES ASSUME o + 1 + 1 <= N PROVE FALSE
    OBVIOUS
  <2>1. o + 1 + 1 \in 1 .. N
    BY <1>1, <1>3
  <2> QED BY <1>1, <1>4, <2>1, Zenon
<1> QED BY <1>1, <1>3, <1>5

(* A string that is cut: where the text ends, and what it still has.       *)
StringBytes(e, le, s, ls, v, lv) ==
  /\ ls \in 1 .. 5 /\ ls = Len(s) /\ lv \in Nat /\ le = ls + lv
  /\ \A i \in 1 .. ls : e[i] = s[i] /\ e[i] # 0
  /\ \A i \in 1 .. lv : e[ls + i] = v[i]
ZeroBehind(v, lv, k) ==
  k \in Nat /\ k < lv /\ (\A i \in 1 .. k : v[i] # 0) /\ v[k + 1] = 0

LEMMA StringCut ==
  ASSUME NEW body, NEW B, NEW text, NEW N, TextOf(body, B, text, N),
         NEW o, NEW tag, NEW e, NEW le, LiesAt(body, B, N, o, tag, e, le),
         NEW s, NEW ls, NEW v, NEW lv, StringBytes(e, le, s, ls, v, lv),
         NEW k, ZeroBehind(v, lv, k)
  PROVE  /\ N = o + 2 + ls - 1 + k /\ o + 2 \in Nat \ {0} /\ HasAt(text, o + 2, s)
         /\ \A i \in 1 .. k : text[o + 2 + ls + i - 1] = v[i]
<1>0. /\ ls \in 1 .. 5 /\ ls = Len(s) /\ lv \in Nat /\ le \in Nat /\ le = ls + lv
      /\ \A i \in 1 .. ls : e[i] = s[i] /\ e[i] # 0
      /\ \A i \in 1 .. lv : e[ls + i] = v[i]
  BY DEF StringBytes
<1>0a. k \in Nat /\ k < lv /\ (\A i \in 1 .. k : v[i] # 0) /\ v[k + 1] = 0
  BY DEF ZeroBehind
<1>1. B \in Nat /\ N \in 0 .. B /\ N = Len(text) /\ \A i \in 1 .. N : text[i] = body[i] /\ body[i] # 0
  BY DEF TextOf
<1>2. o + 1 + le <= B /\ \A i \in 1 .. le : body[o + 1 + i] = e[i]
  BY DEF LiesAt
<1>3. o \in Nat /\ o + 1 <= N
  BY <1>0, FieldBegins
<1>4. ASSUME NEW i \in 1 .. ls
      PROVE  body[o + 1 + i] = s[i] /\ s[i] # 0
  <2>1. i \in 1 .. le
    BY <1>0
  <2> QED BY <1>0, <1>2, <2>1
<1>5. ASSUME NEW i \in 1 .. lv
      PROVE  body[o + 1 + ls + i] = v[i]
  <2>1. ls + i \in 1 .. le /\ o + 1 + (ls + i) = o + 1 + ls + i
    BY <1>0, <1>3
  <2>2. body[o + 1 + (ls + i)] = e[ls + i]
    BY <1>2, <2>1, Zenon
  <2> QED BY <1>0, <2>1, <2>2
<1>6. o + 1 + ls + k = N
  <2>1. o + 1 + ls + k \in 0 .. B /\ k + 1 \in 1 .. lv
    BY <1>0, <1>0a, <1>1, <1>2, <1>3
  <2>2. body[o + 1 + ls + k + 1] = 0
    <3>1. body[o + 1 + ls + (k + 1)] = v[k + 1]
      BY <1>5, <2>1, Zenon
    <3>2. o + 1 + ls + (k + 1) = o + 1 + ls + k + 1
      BY <1>0, <1>0a, <1>3
    <3> QED BY <1>0a, <3>1, <3>2
  <2>3. ASSUME NEW i \in 1 .. o + 1 + ls + k
        PROVE  body[i] # 0
    <3>1. CASE i <= o + 1
      BY <1>1, <1>3, <3>1
    <3>2. CASE o + 1 < i /\ i <= o + 1 + ls
      <4>1. i - (o + 1) \in 1 .. ls /\ o + 1 + (i - (o + 1)) = i
        BY <1>0, <1>3, <3>2
      <4>2. body[o + 1 + (i - (o + 1))] = s[i - (o + 1)] /\ s[i - (o + 1)] # 0
        BY <1>4, <4>1, Zenon
      <4> QED BY <4>1, <4>2, Zenon
    <3>3. CASE o + 1 + ls < i
      <4>1. /\ i - (o + 1 + ls) \in 1 .. k /\ i - (o + 1 + ls) \in 1 .. lv
            /\ o + 1 + ls + (i - (o + 1 + ls)) = i
        BY <1>0, <1>0a, <1>3, <3>3
      <4>2. body[o + 1 + ls + (i - (o + 1 + ls))] = v[i - (o + 1 + ls)]
        BY <1>5, <4>1, Zenon
      <4>3. v[i - (o + 1 + ls)] # 0
        BY <1>0a, <4>1, Zenon
      <4> QED BY <4>1, <4>2, <4>3, Zenon
    <3> QED BY <1>0, <1>0a, <1>3, <3>1, <3>2, <3>3
  <2> QED BY <2>1, <2>2, <2>3, TextEnds
<1>7. N = o + 2 + ls - 1 + k /\ o + 2 \in Nat \ {0} /\ o + 2 + ls - 1 <= N
  BY <1>0, <1>0a, <1>3, <1>6
<1>8. ASSUME NEW i \in 1 .. ls
      PROVE  text[o + 2 + i - 1] = s[i]
  <2>1. o + 2 + i - 1 = o + 1 + i /\ o + 1 + i \in 1 .. N
    BY <1>0, <1>0a, <1>3, <1>6
  <2> QED BY <1>1, <1>4, <2>1, Zenon
<1>9. ASSUME NEW i \in 1 .. k
      PROVE  text[o + 2 + ls + i - 1] = v[i]
  <2>1. /\ i \in 1 .. lv /\ o + 2 + ls + i - 1 = o + 1 + ls + i
        /\ o + 1 + ls + i \in 1 .. N
    BY <1>0, <1>0a, <1>3, <1>6
  <2> QED BY <1>1, <1>5, <2>1, Zenon
<1>10. HasAt(text, o + 2, s)
  BY <1>0, <1>1, <1>7, <1>8, Zenon DEF HasAt
<1> QED BY <1>7, <1>9, <1>10, Zenon


(* What is read from the first byte of a field on that is set: the field,  *)
(* what is left of it, or nothing.                                         *)
ReadsFrom(class, fields, f, text, N, from, o, le) ==
  /\ from[o + 1] = ReadAt(class, text, from, o + 1)
  /\ o + 1 + le <= N => from[o + 1 + le + 1] = KeptFrom(f + 1, class, fields)

LEMMA FieldIsRead ==
  ASSUME NEW class, NEW fields, NEW f, NEW type, NEW v, NEW e, NEW le,
         IsField(class, fields, f, type, v, e, le),
         NEW body, NEW B, NEW text, NEW N, TextOf(body, B, text, N),
         NEW o, NEW tag, tag = 8 * f + WireType(type), LiesAt(body, B, N, o, tag, e, le),
         NEW from, ReadsFrom(class, fields, f, text, N, from, o, le)
  PROVE  from[o + 1] = ReadField(type, f, text, from, o + 2)
<1>1. /\ f \in 1 .. 3 /\ f \in DOMAIN class /\ type \in Types /\ type = class[f]
      /\ IsValue(type, v) /\ e = Encoded(type, v) /\ le = Len(e)
  BY DEF IsField
<1>2. le \in Nat
  BY <1>1, EncodedFacts
<1>3. o \in Nat /\ o + 1 <= N /\ text[o + 1] = tag
  BY <1>2, FieldBegins
<1>4. text \in Seq(Byte) /\ o + 1 <= Len(text)
  BY <1>3 DEF TextOf
<1>5. o + 1 \in Nat \ {0} /\ (o + 1) + 1 = o + 2
  BY <1>3
<1>6. from[o + 1] = ReadAt(class, text, from, o + 1)
  BY DEF ReadsFrom
<1>7. class[f] \in Types /\ text[o + 1] = 8 * f + WireType(class[f])
  BY <1>1, <1>3
<1>8. ReadAt(class, text, from, o + 1) = ReadField(class[f], f, text, from, (o + 1) + 1)
  BY <1>1, <1>4, <1>5, <1>7, ReadTag
<1> QED BY <1>1, <1>5, <1>6, <1>8

LEMMA WholeIsRead ==
  ASSUME NEW class, NEW fields, NEW f, NEW type, NEW v, NEW e, NEW le,
         IsField(class, fields, f, type, v, e, le), ZeroFree(type, v),
         NEW body, NEW B, NEW text, NEW N, TextOf(body, B, text, N),
         NEW o, NEW tag, tag = 8 * f + WireType(type), LiesAt(body, B, N, o, tag, e, le),
         NEW from, ReadsFrom(class, fields, f, text, N, from, o, le)
  PROVE  from[o + 1] = KeptFrom(f, class, fields)
<1>1. /\ DOMAIN fields \subseteq Nat /\ f \in DOMAIN fields /\ type \in Types
      /\ type = class[f] /\ v = fields[f] /\ IsValue(type, v)
      /\ e = Encoded(type, v) /\ le = Len(e)
  BY DEF IsField
<1>2. e \in Seq(Byte) /\ le \in Nat /\ \A i \in 1 .. le : e[i] # 0
  BY <1>1, EncodedFacts
<1>3. o + 1 + le <= N /\ HasAt(text, o + 2, e)
  BY <1>1, <1>2, FieldFits
<1>4. text \in Seq(Byte) /\ o + 2 \in Nat \ {0} /\ (o + 2) + le = o + 1 + le + 1
  <2>1. o \in Nat
    BY <1>2, FieldBegins
  <2> QED BY <1>2, <2>1 DEF TextOf
<1>5. HasAt(text, o + 2, Encoded(type, v))
  BY <1>1, <1>3
<1>6. ReadField(type, f, text, from, o + 2) = With(from[(o + 2) + Len(Encoded(type, v))], f, v)
  <2> PICK q : q = o + 2
    OBVIOUS
  <2>1. type \in Types
    BY <1>1
  <2>2. IsValue(type, v)
    BY <1>1
  <2>3. text \in Seq(Byte)
    BY <1>4
  <2>4. q \in Nat \ {0}
    BY <1>4
  <2>5. HasAt(text, q, Encoded(type, v))
    BY <1>5
  <2>6. ReadField(type, f, text, from, q) = With(from[q + Len(Encoded(type, v))], f, v)
    BY ONLY <2>1, <2>2, <2>3, <2>4, <2>5, ReadWhole
  <2> QED BY <2>6
<1>7. from[o + 1 + le + 1] = KeptFrom(f + 1, class, fields)
  BY <1>3 DEF ReadsFrom
<1>8. from[o + 1] = ReadField(type, f, text, from, o + 2)
  BY FieldIsRead
<1>9. KeptFrom(f, class, fields) = With(KeptFrom(f + 1, class, fields), f, fields[f])
  <2>1. ZeroFree(class[f], fields[f])
    BY <1>1
  <2> QED BY <1>1, <2>1, KeptWhole
<1> QED BY <1>1, <1>4, <1>6, <1>7, <1>8, <1>9, Zenon

LEMMA CutIsRead ==
  ASSUME NEW class, NEW fields, NEW f, NEW type, NEW v, NEW e, NEW le,
         IsField(class, fields, f, type, v, e, le), ~ZeroFree(type, v),
         NEW body, NEW B, NEW text, NEW N, TextOf(body, B, text, N),
         NEW o, NEW tag, tag = 8 * f + WireType(type), LiesAt(body, B, N, o, tag, e, le),
         NEW from, ReadsFrom(class, fields, f, text, N, from, o, le)
  PROVE  from[o + 1] = KeptFrom(f, class, fields)
<1>1. /\ DOMAIN fields \subseteq Nat /\ f \in DOMAIN fields /\ type \in Types
      /\ type = class[f] /\ v = fields[f] /\ IsValue(type, v)
      /\ e = Encoded(type, v) /\ le = Len(e)
  BY DEF IsField
<1>2. from[o + 1] = ReadField(type, f, text, from, o + 2)
  BY FieldIsRead
<1>3. text \in Seq(Byte) /\ N = Len(text)
  BY DEF TextOf
<1>4. KeptFrom(f, class, fields)
        = IF type = STRING_ THEN With(<<>>, f, UpTo0(v)) ELSE <<>>
  <2>1. ~ZeroFree(class[f], fields[f])
    BY <1>1
  <2>2. KeptFrom(f, class, fields)
          = IF class[f] = STRING_ THEN With(<<>>, f, UpTo0(fields[f])) ELSE <<>>
    BY <1>1, <2>1, KeptCut
  <2> QED BY <1>1, <2>2, Zenon
<1>5. e = << 0 >> => from[o + 1] = IF type = STRING_ THEN With(<<>>, f, <<>>) ELSE <<>>
  <2> SUFFICES ASSUME e = << 0 >>
               PROVE  from[o + 1] = IF type = STRING_ THEN With(<<>>, f, <<>>) ELSE <<>>
    OBVIOUS
  <2>1. N = o + 1
    BY <1>1, FieldCutAt0
  <2>2. o + 2 = Len(text) + 1
    <3>1. o \in Nat
      <4>1. le \in Nat
        BY <1>1, EncodedFacts
      <4> QED BY <4>1, FieldBegins
    <3> QED BY <1>3, <2>1, <3>1
  <2>3. ReadField(type, f, text, from, Len(text) + 1)
          = IF type = STRING_ THEN With(<<>>, f, <<>>) ELSE <<>>
    BY <1>1, <1>3, ReadNone
  <2> QED BY <1>2, <2>2, <2>3, Zenon
<1>6. CASE type # STRING_
  <2>1. e = << 0 >>
    BY <1>1, <1>6, EncodedFacts
  <2> QED BY <1>4, <1>5, <1>6, <2>1, Zenon
<1>7. CASE type = STRING_
  <2> PICK s : s = Varint(Len(v))
    OBVIOUS
  <2> PICK ls : ls = Len(s)
    OBVIOUS
  <2> PICK lv : lv = Len(v)
    OBVIOUS
  <2> PICK w : w = UpTo0(v)
    OBVIOUS
  <2>1. /\ v \in Seq(Byte) /\ lv \in Nat /\ Len(v) \in Int32
        /\ ls \in 1 .. 5 /\ le = ls + lv
        /\ \A i \in 1 .. ls : e[i] = s[i]
        /\ \A i \in 1 .. lv : e[ls + i] = v[i]
        /\ v # <<>> => \A i \in 1 .. ls : e[i] # 0
        /\ v = <<>> => e = << 0 >>
    <3>1. type \in Types
      BY <1>1
    <3>1a. IsValue(type, v)
      BY <1>1
    <3>1b. e = Encoded(type, v)
      BY <1>1
    <3>2. /\ v \in Seq(Byte) /\ Len(v) \in Nat /\ Len(v) \in Int32
          /\ Varint(Len(v)) \in Seq(Byte) /\ Len(Varint(Len(v))) \in 1 .. 5
          /\ Len(e) = Len(Varint(Len(v))) + Len(v)
          /\ \A i \in 1 .. Len(Varint(Len(v))) : e[i] = Varint(Len(v))[i]
          /\ \A i \in 1 .. Len(v) : e[Len(Varint(Len(v))) + i] = v[i]
          /\ v # <<>> => \A i \in 1 .. Len(Varint(Len(v))) : e[i] # 0
          /\ v = <<>> => e = << 0 >>
      BY ONLY <1>7, <3>1, <3>1a, <3>1b, EncodedFacts
    <3> QED BY <1>1, <3>2, Zenon
  <2>2. PICK k \in 0 .. lv :
          /\ \A i \in 1 .. k : v[i] # 0
          /\ k = lv \/ v[k + 1] = 0
          /\ w = SubSeq(v, 1, k)
    <3>0. v \in Seq(Byte)
      BY <2>1
    <3>0a. lv = Len(v) /\ w = UpTo0(v)
      OBVIOUS
    <3>1. /\ Len(w) \in 0 .. lv
          /\ \A i \in 1 .. Len(w) : v[i] # 0
          /\ Len(w) = lv \/ v[Len(w) + 1] = 0
          /\ \A l \in 0 .. lv :
               (l = lv \/ v[l + 1] = 0) /\ (\A i \in 1 .. l : v[i] # 0)
                 => w = SubSeq(v, 1, l)
      BY ONLY <3>0, <3>0a, UpTo0Facts
    <3> QED BY <3>1
  <2>3. DOMAIN v = 1 .. lv /\ (lv = 0 <=> v = <<>>)
    BY <2>1, EmptySeq, LenProperties
  <2>4. CASE v = <<>>
    <3>1. from[o + 1] = With(<<>>, f, <<>>)
      BY <1>5, <1>7, <2>1, <2>4, Zenon
    <3>2. k = 0
      BY <2>1, <2>3, <2>4
    <3>3. w = <<>>
      <4>1. w = SubSeq(v, 1, 0)
        BY <2>2, <3>2
      <4> QED BY <2>1, <4>1
    <3> QED BY <1>4, <1>7, <3>1, <3>3, Zenon
  <2>5. CASE v # <<>>
    <3>1. ~(\A i \in DOMAIN v : v[i] # 0)
      BY <1>7, <2>5, TypesDiffer DEF ZeroFree
    <3>2. k # lv
      BY <2>2, <2>3, <3>1, Zenon
    <3>3. k \in Nat /\ k < lv /\ v[k + 1] = 0
      BY <2>1, <2>2, <3>2
    <3>4. \A i \in 1 .. ls : e[i] = s[i] /\ e[i] # 0
      BY <2>1, <2>5, Zenon
    <3>5. /\ N = o + 2 + ls - 1 + k /\ o + 2 \in Nat \ {0} /\ HasAt(text, o + 2, s)
          /\ \A i \in 1 .. k : text[o + 2 + ls + i - 1] = v[i]
      <4>1. StringBytes(e, le, s, ls, v, lv)
        BY <2>1, <3>4 DEF StringBytes
      <4>2. ZeroBehind(v, lv, k)
        BY <2>2, <3>3 DEF ZeroBehind
      <4>3. TextOf(body, B, text, N) /\ LiesAt(body, B, N, o, tag, e, le)
        OBVIOUS
      <4> QED BY ONLY <4>1, <4>2, <4>3, StringCut
    <3>6. HasAt(text, o + 2, Varint(Len(v)))
      BY <3>5
    <3>7. k < Len(v)
      BY <3>3
    <3>8. Len(text) = o + 2 + Len(Varint(Len(v))) - 1 + k
      BY <1>3, <3>5
    <3>9. \A i \in 1 .. k : text[o + 2 + Len(Varint(Len(v))) + i - 1] = v[i]
      BY <3>5, Zenon
    <3>10. ReadField(STRING_, f, text, from, o + 2) = With(<<>>, f, SubSeq(v, 1, k))
      <4> PICK q : q = o + 2
        OBVIOUS
      <4>1. v \in Seq(Byte) /\ Len(v) \in Int32
        BY <2>1
      <4>2. q \in Nat \ {0}
        BY <3>5
      <4>3. HasAt(text, q, Varint(Len(v)))
        BY <3>6
      <4>4. Len(text) = q + Len(Varint(Len(v))) - 1 + k
        BY <3>8
      <4>5. \A i \in 1 .. k : text[q + Len(Varint(Len(v))) + i - 1] = v[i]
        BY <3>9
      <4>6. text \in Seq(Byte)
        BY <1>3
      <4>7. ReadField(STRING_, f, text, from, q) = With(<<>>, f, SubSeq(v, 1, k))
        BY ONLY <3>3, <3>7, <4>1, <4>2, <4>3, <4>4, <4>5, <4>6, ReadCut
      <4> QED BY <4>7
    <3> QED BY <1>2, <1>4, <1>7, <2>2, <3>10, Zenon
  <2> QED BY <2>4, <2>5
<1> QED BY <1>6, <1>7


(* The field with number f, set or not.                                    *)
BytesLie(b, lb, body, B, N, o) ==
  /\ lb = Len(b) /\ o \in 0 .. N /\ o + lb <= B
  /\ \A j \in 1 .. lb : body[o + j] = b[j]
AnyField(id, fields, class, f, b) ==
  /\ Known(id) /\ IsFields(id, fields) /\ class = _msg_id_names[id] /\ f \in DOMAIN class
  /\ b = FieldBytes(class, fields, f)
GoesOn(class, fields, f, text, N, from, o, lb) ==
  /\ from[o + 1] = ReadAt(class, text, from, o + 1)
  /\ o + lb <= N => from[o + lb + 1] = KeptFrom(f + 1, class, fields)

LEMMA FieldStep ==
  ASSUME NEW id, NEW fields, NEW class, NEW f, NEW b, AnyField(id, fields, class, f, b),
         NEW body, NEW B, NEW text, NEW N, TextOf(body, B, text, N),
         NEW o, NEW lb, BytesLie(b, lb, body, B, N, o),
         NEW from, GoesOn(class, fields, f, text, N, from, o, lb)
  PROVE  from[o + 1] = KeptFrom(f, class, fields)
<1>0. /\ Known(id) /\ IsFields(id, fields) /\ class = _msg_id_names[id] /\ f \in DOMAIN class
      /\ b = FieldBytes(class, fields, f)
  BY DEF AnyField
<1>1. f \in 1 .. 3 /\ DOMAIN fields \subseteq Nat
  <2>1. Len(class) \in 1 .. 3 /\ DOMAIN class = 1 .. Len(class)
    BY <1>0, Classes
  <2> PICK n : n = Len(class)
    OBVIOUS
  <2>2. n \in 1 .. 3 /\ f \in 1 .. n /\ DOMAIN class = 1 .. n
    BY <1>0, <2>1
  <2>3. DOMAIN fields \subseteq DOMAIN class
    BY <1>0 DEF IsFields
  <2>4. f \in 1 .. 3 /\ 1 .. n \subseteq Nat
    BY ONLY <2>2
  <2> QED BY ONLY <2>2, <2>3, <2>4
<1>2. CASE f \notin DOMAIN fields
  <2>1. Len(b) = 0
    BY <1>0, <1>2, FieldFacts
  <2>2. lb = 0 /\ o \in Nat /\ o <= N
    BY <2>1 DEF BytesLie, TextOf
  <2>3. o + lb <= N /\ o + lb + 1 = o + 1
    BY <2>2
  <2>4. from[o + 1] = KeptFrom(f + 1, class, fields)
    BY <2>3 DEF GoesOn
  <2>5. KeptFrom(f, class, fields) = KeptFrom(f + 1, class, fields)
    BY <1>1, <1>2, KeptUnset
  <2> QED BY <2>4, <2>5
<1>3. CASE f \in DOMAIN fields
  <2> PICK type : type = class[f]
    OBVIOUS
  <2> PICK v : v = fields[f]
    OBVIOUS
  <2> PICK e : e = Encoded(type, v)
    OBVIOUS
  <2> PICK le : le = Len(e)
    OBVIOUS
  <2> PICK tag : tag = 8 * f + WireType(type)
    OBVIOUS
  <2>1. /\ class[f] \in Types /\ IsValue(class[f], fields[f])
        /\ 8 * f + WireType(class[f]) \in 8 .. 26
        /\ Len(b) = 1 + Len(Encoded(class[f], fields[f]))
        /\ b[1] = 8 * f + WireType(class[f])
        /\ \A i \in 1 .. Len(Encoded(class[f], fields[f])) :
             b[1 + i] = Encoded(class[f], fields[f])[i]
    BY <1>0, <1>3, FieldFacts
  <2>2. /\ type \in Types /\ IsValue(type, v) /\ tag \in 8 .. 26
        /\ Len(b) = 1 + le /\ b[1] = tag
        /\ \A i \in 1 .. le : b[1 + i] = e[i]
    BY ONLY <2>1, type = class[f], v = fields[f], e = Encoded(type, v), le = Len(e),
            tag = 8 * f + WireType(type)
  <2>3. IsField(class, fields, f, type, v, e, le)
    BY <1>0, <1>1, <1>3, <2>2 DEF IsField
  <2>4. le \in Nat
    BY <2>2, EncodedFacts
  <2>5. /\ lb = Len(b) /\ o \in 0 .. N /\ o + lb <= B /\ N \in Nat
        /\ \A j \in 1 .. lb : body[o + j] = b[j]
    BY DEF BytesLie, TextOf
  <2>6. LiesAt(body, B, N, o, tag, e, le)
    <3>1. o + 1 + le <= B
      BY <2>2, <2>4, <2>5
    <3>2. body[o + 1] = tag
      <4>1. 1 \in 1 .. lb
        BY <2>2, <2>4, <2>5
      <4> QED BY <2>2, <2>5, <4>1
    <3>3. ASSUME NEW i \in 1 .. le
          PROVE  body[o + 1 + i] = e[i]
      <4>1. 1 + i \in 1 .. lb /\ o + (1 + i) = o + 1 + i
        BY <2>2, <2>4, <2>5
      <4>2. body[o + (1 + i)] = b[1 + i]
        BY <2>5, <4>1, Zenon
      <4> QED BY <2>2, <4>1, <4>2
    <3> QED BY <2>2, <2>5, <3>1, <3>2, <3>3 DEF LiesAt
  <2>7. ReadsFrom(class, fields, f, text, N, from, o, le)
    <3>1. lb = 1 + le /\ o \in Nat
      BY <2>2, <2>5
    <3>2. o + lb = o + 1 + le
      BY <2>4, <3>1
    <3> QED BY <3>2 DEF GoesOn, ReadsFrom
  <2>8. CASE ZeroFree(type, v)
    BY <2>3, <2>6, <2>7, <2>8, WholeIsRead
  <2>9. CASE ~ZeroFree(type, v)
    BY <2>3, <2>6, <2>7, <2>9, CutIsRead
  <2> QED BY <2>8, <2>9
<1> QED BY <1>2, <1>3

(* Parts lie one behind the other.                                         *)
LEMMA PartsOrdered ==
  ASSUME NEW X, NEW seqs \in Seq(Seq(X)), NEW all, NEW off, PartsAt(seqs, all, off)
  PROVE  \A i, j \in 0 .. Len(seqs) : i <= j => off[i] <= off[j]
<1> PICK n : n = Len(seqs)
  OBVIOUS
<1> DEFINE S == {d \in Nat : \A i \in 0 .. n : i + d <= n => off[i] <= off[i + d]}
<1>1. /\ n \in Nat /\ \A i \in 0 .. n : off[i] \in Nat
      /\ \A i \in 1 .. n : off[i - 1] <= off[i]
  <2>1. n \in Nat /\ off \in [0 .. n -> Nat]
    BY DEF PartsAt
  <2>2. ASSUME NEW i \in 1 .. n
        PROVE  off[i - 1] <= off[i]
    <3>1. Len(seqs[i]) \in Nat
      BY <2>1
    <3>2. off[i] = off[i - 1] + Len(seqs[i])
      BY DEF PartsAt
    <3>3. i - 1 \in 0 .. n
      BY <2>1
    <3>4. off[i - 1] \in Nat
      BY <2>1, <3>3
    <3> QED BY <3>1, <3>2, <3>4
  <2> QED BY <2>1, <2>2
<1>2. 0 \in S
  BY <1>1
<1>3. ASSUME NEW d \in Nat, d \in S
      PROVE  d + 1 \in S
  <2> SUFFICES ASSUME NEW i \in 0 .. n, i + (d + 1) <= n
               PROVE  off[i] <= off[i + (d + 1)]
    OBVIOUS
  <2>1. /\ i + d <= n /\ i + d \in 0 .. n /\ i + (d + 1) \in 1 .. n /\ i + (d + 1) \in 0 .. n
        /\ i + (d + 1) - 1 = i + d
    BY <1>1
  <2>2. off[i] <= off[i + d]
    BY <1>3, <2>1
  <2>3. off[i + (d + 1) - 1] <= off[i + (d + 1)]
    BY <1>1, <2>1
  <2>4. off[i + d] <= off[i + (d + 1)]
    BY <2>1, <2>3
  <2>5. off[i] \in Nat /\ off[i + d] \in Nat /\ off[i + (d + 1)] \in Nat
    BY <1>1, <2>1
  <2> QED BY <2>2, <2>4, <2>5
<1>4. \A d \in Nat : d \in S
  <2> HIDE DEF S
  <2> QED BY <1>2, <1>3, Induct
<1>5. ASSUME NEW i \in 0 .. n, NEW j \in 0 .. n, i <= j
      PROVE  off[i] <= off[j]
  <2> PICK d : d = j - i
    OBVIOUS
  <2>1. d \in Nat /\ i + d = j /\ i + d <= n
    BY <1>1, <1>5
  <2>2. d \in S
    BY <1>4, <2>1
  <2>3. off[i] <= off[i + d]
    BY <2>1, <2>2
  <2> QED BY <2>1, <2>3
<1> QED BY <1>5


LEMMA TextOfBody ==
  ASSUME NEW body \in Seq(Byte), NEW B, B = Len(body), NEW text, text = UpTo0(body),
         NEW N, N = Len(text)
  PROVE  TextOf(body, B, text, N)
<1>1. /\ text \in Seq(Byte) /\ B \in Nat /\ Len(text) \in 0 .. B
      /\ \A i \in 1 .. Len(text) : text[i] = body[i] /\ body[i] # 0
      /\ Len(text) = B \/ body[Len(text) + 1] = 0
  BY UpTo0Facts
<1> QED BY <1>1 DEF TextOf

(* ParseFromString of what is left of a serialized message up to its first *)
(* zero byte has what Left says.                                           *)
LEMMA MergeOfBody ==
  ASSUME NEW id, Known(id), NEW fields, IsFields(id, fields),
         NEW class, class = _msg_id_names[id], NEW body, body = Serialize(id, fields)
  PROVE  Merge(id, UpTo0(body)) = KeptFrom(1, class, fields)
<1> PICK parts : parts = AllFieldBytes(class, fields)
  OBVIOUS
<1> PICK n : n = Len(class)
  OBVIOUS
<1> PICK B : B = Len(body)
  OBVIOUS
<1> PICK text : text = UpTo0(body)
  OBVIOUS
<1> PICK N : N = Len(text)
  OBVIOUS
<1>1. n \in 1 .. 3 /\ DOMAIN class = 1 .. n
  BY Classes
<1>2. body \in Seq(Byte) /\ \E off : PartsAt(parts, body, off)
  BY SerializeFacts
<1>3. PICK off : PartsAt(parts, body, off)
  BY <1>2
<1>4. TextOf(body, B, text, N)
  BY <1>2, TextOfBody
<1>5. text \in Seq(Byte) /\ N \in Nat /\ B \in Nat /\ N <= B /\ N = Len(text)
  BY <1>4 DEF TextOf
<1>6. PICK from : /\ Merge(id, text) = from[1]
                  /\ \A p \in 1 .. N + 1 : from[p] = ReadAt(class, text, from, p)
  BY <1>5, MergeReads
<1>7. parts \in Seq(Seq(Byte)) /\ Len(parts) = n
  <2>1. ASSUME NEW f \in DOMAIN class
        PROVE  FieldBytes(class, fields, f) \in Seq(Byte)
    BY FieldFacts
  <2>2. parts = [f \in 1 .. n |-> FieldBytes(class, fields, f)]
    BY <1>1 DEF AllFieldBytes
  <2> QED BY <1>1, <2>1, <2>2
<1>8. /\ off[0] = 0 /\ off[n] = B /\ \A i \in 0 .. n : off[i] \in Nat
      /\ \A i, j \in 0 .. n : i <= j => off[i] <= off[j]
  <2>1. off \in [0 .. n -> Nat] /\ off[0] = 0 /\ off[n] = B
    BY <1>3, <1>7 DEF PartsAt
  <2> QED BY <1>3, <1>7, <2>1, PartsOrdered
<1>9. ASSUME NEW f \in 1 .. n, off[f - 1] <= N,
             off[f] <= N => from[off[f] + 1] = KeptFrom(f + 1, class, fields)
      PROVE  from[off[f - 1] + 1] = KeptFrom(f, class, fields)
  <2> PICK o : o = off[f - 1]
    OBVIOUS
  <2> PICK b : b = FieldBytes(class, fields, f)
    OBVIOUS
  <2> PICK lb : lb = Len(b)
    OBVIOUS
  <2>1. parts[f] = b /\ f \in DOMAIN class
    BY <1>1 DEF AllFieldBytes
  <2>2. /\ off[f] = o + lb
        /\ \A j \in 1 .. lb : body[o + j] = b[j]
    BY <1>3, <1>7, <2>1 DEF PartsAt
  <2>3. f - 1 \in 0 .. n /\ f \in 0 .. n /\ n \in 0 .. n /\ f <= n
    BY <1>1
  <2>4. o \in 0 .. N /\ o + lb <= B
    <3>1. off[f - 1] \in Nat /\ off[f] <= off[n]
      BY <1>8, <2>3
    <3> QED BY <1>5, <1>8, <1>9, <2>2, <3>1
  <2>5. BytesLie(b, lb, body, B, N, o)
    BY <2>2, <2>4 DEF BytesLie
  <2>6. GoesOn(class, fields, f, text, N, from, o, lb)
    <3>1. o + 1 \in 1 .. N + 1
      BY <1>5, <2>4
    <3> QED BY <1>6, <1>9, <2>2, <3>1 DEF GoesOn
  <2>7. from[o + 1] = KeptFrom(f, class, fields)
    <3>1. AnyField(id, fields, class, f, b)
      BY <2>1 DEF AnyField
    <3> QED BY ONLY <1>4, <2>5, <2>6, <3>1, FieldStep
  <2> QED BY <2>7
<1>10. from[B + 1] = KeptFrom(n + 1, class, fields) \/ ~(B <= N)
  <2> SUFFICES ASSUME B <= N PROVE from[B + 1] = KeptFrom(n + 1, class, fields)
    OBVIOUS
  <2>1. B + 1 = N + 1 /\ N + 1 \in 1 .. N + 1
    BY <1>5
  <2>2. from[N + 1] = ReadAt(class, text, from, N + 1)
    BY <1>6, <2>1
  <2>3. ReadAt(class, text, from, N + 1) = <<>>
    BY <1>5, ReadEnd
  <2>4. KeptFrom(n + 1, class, fields) = <<>>
    <3>1. DOMAIN fields \subseteq 1 .. n /\ n \in Nat
      BY <1>1 DEF IsFields
    <3> QED BY <3>1, KeptNone
  <2> QED BY <2>1, <2>2, <2>3, <2>4
<1> DEFINE S == {k \in Nat : k <= n /\ off[n - k] <= N =>
                               from[off[n - k] + 1] = KeptFrom(n - k + 1, class, fields)}
<1>11. 0 \in S
  <2>1. n - 0 = n
    BY <1>1
  <2> QED BY <1>8, <1>10, <2>1
<1>12. ASSUME NEW k \in Nat, k \in S
       PROVE  k + 1 \in S
  <2> SUFFICES ASSUME k + 1 <= n, off[n - (k + 1)] <= N
               PROVE  from[off[n - (k + 1)] + 1] = KeptFrom(n - (k + 1) + 1, class, fields)
    OBVIOUS
  <2> PICK f : f = n - k
    OBVIOUS
  <2>1. f \in 1 .. n /\ n - (k + 1) = f - 1 /\ f - 1 + 1 = f /\ k <= n
    BY <1>1
  <2>2. off[f] <= N => from[off[f] + 1] = KeptFrom(f + 1, class, fields)
    BY <1>12, <2>1
  <2>3. off[f - 1] <= N
    BY <2>1
  <2>4. from[off[f - 1] + 1] = KeptFrom(f, class, fields)
    BY <1>9, <2>1, <2>2, <2>3
  <2> QED BY <2>1, <2>4
<1>13. n \in S
  <2>1. \A k \in Nat : k \in S
    <3> HIDE DEF S
    <3> QED BY <1>11, <1>12, Induct
  <2>2. n \in Nat
    BY <1>1
  <2> HIDE DEF S
  <2> QED BY <2>1, <2>2
<1>14. from[1] = KeptFrom(1, class, fields)
  <2>1. n - n = 0 /\ n <= n /\ 0 <= N /\ 0 + 1 = 1
    BY <1>1, <1>5
  <2> QED BY <1>8, <1>13, <2>1
<1> QED BY <1>6, <1>14


(* What is set from number f on.                                           *)
SetFrom(f, fields) == [g \in {h \in DOMAIN fields : f <= h} |-> fields[g]]

LEMMA SetWhole ==
  ASSUME NEW fields, DOMAIN fields \subseteq Nat, NEW f \in DOMAIN fields
  PROVE  With(SetFrom(f + 1, fields), f, fields[f]) = SetFrom(f, fields)
<1>1. {h \in DOMAIN fields : f + 1 <= h} \cup {f} = {h \in DOMAIN fields : f <= h}
  OBVIOUS
<1>2. \A g \in {h \in DOMAIN fields : f <= h} :
        g \notin {h \in DOMAIN fields : f + 1 <= h} => g = f
  OBVIOUS
<1> QED BY <1>1, <1>2 DEF With, SetFrom

LEMMA SetUnset ==
  ASSUME NEW fields, DOMAIN fields \subseteq Nat, NEW f \in Nat, f \notin DOMAIN fields
  PROVE  SetFrom(f + 1, fields) = SetFrom(f, fields)
<1>1. {h \in DOMAIN fields : f + 1 <= h} = {h \in DOMAIN fields : f <= h}
  OBVIOUS
<1> QED BY <1>1 DEF SetFrom

(* A field, set or not, among bytes that were not cut.                     *)
LiesWhole(b, lb, text, o) ==
  /\ text \in Seq(Byte) /\ o \in Nat /\ lb = Len(b) /\ o + lb <= Len(text)
  /\ \A j \in 1 .. lb : text[o + j] = b[j]
GoesBack(class, fields, f, text, from, o, lb) ==
  /\ from[o + 1] = ReadAt(class, text, from, o + 1)
  /\ from[o + lb + 1] = SetFrom(f + 1, fields)

LEMMA FieldReadsBack ==
  ASSUME NEW id, NEW fields, NEW class, NEW f, NEW b, AnyField(id, fields, class, f, b),
         NEW text, NEW o, NEW lb, LiesWhole(b, lb, text, o),
         NEW from, GoesBack(class, fields, f, text, from, o, lb)
  PROVE  from[o + 1] = SetFrom(f, fields)
<1>a. /\ text \in Seq(Byte) /\ o \in Nat /\ lb = Len(b) /\ o + lb <= Len(text)
      /\ \A j \in 1 .. lb : text[o + j] = b[j]
  BY DEF LiesWhole
<1>b. /\ from[o + 1] = ReadAt(class, text, from, o + 1)
      /\ from[o + lb + 1] = SetFrom(f + 1, fields)
  BY DEF GoesBack
<1>0. /\ Known(id) /\ IsFields(id, fields) /\ class = _msg_id_names[id] /\ f \in DOMAIN class
      /\ b = FieldBytes(class, fields, f)
  BY DEF AnyField
<1>1. f \in 1 .. 3 /\ DOMAIN fields \subseteq Nat
  <2>1. Len(class) \in 1 .. 3 /\ DOMAIN class = 1 .. Len(class)
    BY <1>0, Classes
  <2> PICK n : n = Len(class)
    OBVIOUS
  <2>2. n \in 1 .. 3 /\ f \in 1 .. n /\ DOMAIN class = 1 .. n
    BY <1>0, <2>1
  <2>3. DOMAIN fields \subseteq DOMAIN class
    BY <1>0 DEF IsFields
  <2>4. f \in 1 .. 3 /\ 1 .. n \subseteq Nat
    BY ONLY <2>2
  <2> QED BY ONLY <2>2, <2>3, <2>4
<1>2. CASE f \notin DOMAIN fields
  <2>1. Len(b) = 0
    BY <1>0, <1>2, FieldFacts
  <2>2. o + lb + 1 = o + 1
    BY <1>a, <2>1
  <2>3. SetFrom(f + 1, fields) = SetFrom(f, fields)
    <3>1. f \in Nat
      BY <1>1
    <3> QED BY <1>1, <1>2, <3>1, SetUnset
  <2> QED BY <1>b, <2>2, <2>3
<1>3. CASE f \in DOMAIN fields
  <2> PICK type : type = class[f]
    OBVIOUS
  <2> PICK v : v = fields[f]
    OBVIOUS
  <2> PICK e : e = Encoded(type, v)
    OBVIOUS
  <2> PICK le : le = Len(e)
    OBVIOUS
  <2> PICK q : q = o + 2
    OBVIOUS
  <2>1. /\ class[f] \in Types /\ IsValue(class[f], fields[f])
        /\ Len(b) = 1 + Len(Encoded(class[f], fields[f]))
        /\ b[1] = 8 * f + WireType(class[f])
        /\ \A i \in 1 .. Len(Encoded(class[f], fields[f])) :
             b[1 + i] = Encoded(class[f], fields[f])[i]
    BY <1>0, <1>3, FieldFacts
  <2>2. /\ type \in Types /\ IsValue(type, v)
        /\ Len(b) = 1 + le /\ b[1] = 8 * f + WireType(type)
        /\ \A i \in 1 .. le : b[1 + i] = e[i]
    BY ONLY <2>1, type = class[f], v = fields[f], e = Encoded(type, v), le = Len(e)
  <2>3. le \in Nat
    BY <2>2, EncodedFacts
  <2> PICK N : N = Len(text)
    OBVIOUS
  <2>4. N \in Nat /\ lb = 1 + le /\ o + lb <= N
    BY <1>a, <2>2
  <2>5. /\ o + 1 \in Nat \ {0} /\ o + 1 <= N /\ 1 \in 1 .. lb /\ q \in Nat \ {0}
        /\ (o + 1) + 1 = q /\ q + le = o + lb + 1 /\ q + le - 1 <= N
    BY <1>a, <2>3, <2>4
  <2>6. text[o + 1] = 8 * f + WireType(class[f])
    BY <1>a, <2>2, <2>5
  <2>7. from[o + 1] = ReadField(type, f, text, from, q)
    <3>1. ReadAt(class, text, from, o + 1) = ReadField(class[f], f, text, from, (o + 1) + 1)
      <4> PICK p : p = o + 1
        OBVIOUS
      <4>1. p \in Nat \ {0} /\ p <= Len(text) /\ text[p] = 8 * f + WireType(class[f])
        BY <2>5, <2>6
      <4>2. f \in DOMAIN class
        BY <1>0
      <4>3. class[f] \in Types
        BY <2>1
      <4>4. f \in 1 .. 3
        BY <1>1
      <4>5. text \in Seq(Byte)
        BY <1>a
      <4>6. ReadAt(class, text, from, p) = ReadField(class[f], f, text, from, p + 1)
        BY ONLY <4>1, <4>2, <4>3, <4>4, <4>5, ReadTag
      <4> QED BY <4>6
    <3> QED BY <1>b, <2>5, <3>1
  <2>8. HasAt(text, q, e)
    <3>1. ASSUME NEW i \in 1 .. le
          PROVE  text[q + i - 1] = e[i]
      <4>1. 1 + i \in 1 .. lb /\ o + (1 + i) = q + i - 1
        BY <1>a, <2>3, <2>4
      <4>2. text[o + (1 + i)] = b[1 + i]
        BY <1>a, <4>1, Zenon
      <4> QED BY <2>2, <4>1, <4>2
    <3> QED BY <2>5, <3>1 DEF HasAt
  <2>9. ReadField(type, f, text, from, q) = With(from[q + le], f, v)
    <3>1. type \in Types
      BY <2>2
    <3>2. IsValue(type, v)
      BY <2>2
    <3>3. q \in Nat \ {0}
      BY <2>5
    <3>4. HasAt(text, q, Encoded(type, v))
      BY <2>8
    <3>5. text \in Seq(Byte)
      BY <1>a
    <3>6. ReadField(type, f, text, from, q) = With(from[q + Len(Encoded(type, v))], f, v)
      BY ONLY <3>1, <3>2, <3>3, <3>4, <3>5, ReadWhole
    <3> QED BY <3>6
  <2>10. With(SetFrom(f + 1, fields), f, fields[f]) = SetFrom(f, fields)
    BY <1>1, <1>3, SetWhole
  <2> QED BY <1>b, <2>5, <2>7, <2>9, <2>10
<1> QED BY <1>2, <1>3

(* A message that is written reads back as it was, and was as long as      *)
(* ByteSize said.                                                          *)
LEMMA SerializedReadsBack ==
  ASSUME NEW id, Known(id), NEW fields, IsFields(id, fields)
  PROVE  Serialize(id, fields) \in Seq(Byte) /\ ReadsBack(id, fields)
<1> PICK class : class = _msg_id_names[id]
  OBVIOUS
<1> PICK text : text = Serialize(id, fields)
  OBVIOUS
<1> PICK parts : parts = AllFieldBytes(class, fields)
  OBVIOUS
<1> PICK n : n = Len(class)
  OBVIOUS
<1> PICK N : N = Len(text)
  OBVIOUS
<1>1. n \in 1 .. 3 /\ DOMAIN class = 1 .. n
  BY Classes
<1>2. /\ text \in Seq(Byte) /\ Len(text) = ByteSize(id, fields)
      /\ \E off : PartsAt(parts, text, off)
  BY SerializeFacts
<1>3. PICK off : PartsAt(parts, text, off)
  BY <1>2
<1>5. N \in Nat
  BY <1>2, LenProperties
<1>6. PICK from : /\ Merge(id, text) = from[1]
                  /\ \A p \in 1 .. N + 1 : from[p] = ReadAt(class, text, from, p)
  BY <1>2, MergeReads
<1>7. parts \in Seq(Seq(Byte)) /\ Len(parts) = n
  <2>1. ASSUME NEW f \in DOMAIN class
        PROVE  FieldBytes(class, fields, f) \in Seq(Byte)
    BY FieldFacts
  <2>2. parts = [f \in 1 .. n |-> FieldBytes(class, fields, f)]
    BY <1>1 DEF AllFieldBytes
  <2> QED BY <1>1, <2>1, <2>2
<1>8. /\ off[0] = 0 /\ off[n] = N /\ \A i \in 0 .. n : off[i] \in Nat
      /\ \A i, j \in 0 .. n : i <= j => off[i] <= off[j]
  <2>1. off \in [0 .. n -> Nat] /\ off[0] = 0 /\ off[n] = N
    BY <1>3, <1>7 DEF PartsAt
  <2> QED BY <1>3, <1>7, <2>1, PartsOrdered
<1>9. ASSUME NEW f \in 1 .. n, from[off[f] + 1] = SetFrom(f + 1, fields)
      PROVE  from[off[f - 1] + 1] = SetFrom(f, fields)
  <2> PICK o : o = off[f - 1]
    OBVIOUS
  <2> PICK b : b = FieldBytes(class, fields, f)
    OBVIOUS
  <2> PICK lb : lb = Len(b)
    OBVIOUS
  <2>1. parts[f] = b /\ f \in DOMAIN class
    BY <1>1 DEF AllFieldBytes
  <2>2. /\ off[f] = o + lb
        /\ \A j \in 1 .. lb : text[o + j] = b[j]
    BY <1>3, <1>7, <2>1 DEF PartsAt
  <2>3. f - 1 \in 0 .. n /\ f \in 0 .. n /\ n \in 0 .. n /\ f <= n /\ f - 1 <= n
    BY <1>1
  <2>4. o \in Nat /\ o + lb <= Len(text) /\ o + 1 \in 1 .. N + 1
    <3>1. off[f - 1] \in Nat /\ off[f] <= off[n] /\ off[f - 1] <= off[n]
      BY <1>8, <2>3
    <3> QED BY <1>5, <1>8, <2>2, <3>1
  <2>5. AnyField(id, fields, class, f, b)
    BY <2>1 DEF AnyField
  <2>6. GoesBack(class, fields, f, text, from, o, lb)
    BY <1>6, <1>9, <2>2, <2>4 DEF GoesBack
  <2>7. LiesWhole(b, lb, text, o)
    BY <1>2, <2>2, <2>4 DEF LiesWhole
  <2>8. from[o + 1] = SetFrom(f, fields)
    BY ONLY <2>5, <2>6, <2>7, FieldReadsBack
  <2> QED BY <2>8
<1>10. from[off[n] + 1] = SetFrom(n + 1, fields)
  <2>1. N + 1 \in 1 .. N + 1
    BY <1>5
  <2>2. from[N + 1] = ReadAt(class, text, from, N + 1)
    BY <1>6, <2>1
  <2>3. ReadAt(class, text, from, N + 1) = <<>>
    BY <1>2, ReadEnd
  <2>4. SetFrom(n + 1, fields) = <<>>
    <3>1. DOMAIN fields \subseteq 1 .. n /\ n \in Nat
      BY <1>1 DEF IsFields
    <3>2. {h \in DOMAIN fields : n + 1 <= h} = {}
      BY <3>1
    <3> QED BY <3>2 DEF SetFrom
  <2> QED BY <1>8, <2>2, <2>3, <2>4
<1>11. from[off[0] + 1] = SetFrom(1, fields)
  <2> DEFINE Done == {f \in 1 .. n + 1 : from[off[f - 1] + 1] = SetFrom(f, fields)}
  <2>1. n + 1 \in Done
    <3>1. n + 1 - 1 = n /\ n + 1 \in 1 .. n + 1
      BY <1>1
    <3> QED BY <1>10, <3>1
  <2>2. \A f \in 1 .. n : f + 1 \in Done => f \in Done
    <3> SUFFICES ASSUME NEW f \in 1 .. n, f + 1 \in Done PROVE f \in Done
      OBVIOUS
    <3>1. f + 1 - 1 = f /\ f \in 1 .. n + 1
      BY <1>1
    <3> QED BY <1>9, <3>1
  <2> HIDE DEF Done
  <2>3. 1 \in Done
    <3>1. n = 1 \/ n = 2 \/ n = 3
      BY <1>1
    <3>2. 1 + 1 = 2 /\ 2 + 1 = 3 /\ 3 + 1 = 4
      OBVIOUS
    <3>3. 1 \in 1 .. n /\ (n = 2 => 2 \in 1 .. n) /\ (n = 3 => 2 \in 1 .. n /\ 3 \in 1 .. n)
      BY ONLY <3>1
    <3> QED BY ONLY <2>1, <2>2, <3>1, <3>2, <3>3, Zenon
  <2>4. 1 - 1 = 0
    OBVIOUS
  <2> QED BY <2>3, <2>4 DEF Done
<1>12. SetFrom(1, fields) = fields
  <2>1. DOMAIN fields \subseteq 1 .. n /\ fields = [f \in DOMAIN fields |-> fields[f]]
    BY <1>1 DEF IsFields
  <2>2. \A h \in DOMAIN fields : 1 <= h
    BY <1>1, <2>1
  <2>3. {h \in DOMAIN fields : 1 <= h} = DOMAIN fields
    BY <2>2
  <2> QED BY <2>1, <2>3 DEF SetFrom
<1>13. 0 + 1 = 1
  OBVIOUS
<1>14. Merge(id, text) = fields
  BY <1>6, <1>8, <1>11, <1>12, <1>13
<1> QED BY <1>2, <1>14 DEF ReadsBack


(* What is read is of the fields' types, whatever the bytes are.           *)
LEMMA VarintEnds ==
  ASSUME NEW bytes \in Seq(Byte), NEW p \in Nat \ {0}
  PROVE  LET e == VarintEnd(bytes, p) IN e \in Nat /\ (e # 0 => p <= e /\ e <= Len(bytes))
<1> PICK n : n = Len(bytes)
  OBVIOUS
<1> DEFINE m == IF p + 9 < n THEN p + 9 ELSE n
           ends == {e \in p .. m : bytes[e] < 128}
<1>1. n \in Nat
  BY LenProperties
<1>2. VarintEnd(bytes, p) = IF ends = {} THEN 0 ELSE CHOOSE e \in ends : \A f \in ends : e <= f
  BY DEF VarintEnd
<1>3. ends \in SUBSET Nat /\ \A e \in ends : p <= e /\ e <= n
  BY <1>1
<1> HIDE DEF ends
<1>4. CASE ends = {}
  BY <1>2, <1>4
<1>5. CASE ends # {}
  <2>1. \E e \in ends : \A f \in ends : e <= f
    BY <1>3, <1>5, Least
  <2>2. VarintEnd(bytes, p) \in ends
    BY <1>2, <1>5, <2>1
  <2> QED BY <1>3, <2>2
<1> QED BY <1>4, <1>5

LEMMA VarintReads ==
  ASSUME NEW bytes \in Seq(Byte), NEW p \in Nat \ {0}
  PROVE  ReadVarint(bytes, p) \in Int32
<1> PICK end : end = VarintEnd(bytes, p)
  OBVIOUS
<1> DEFINE bits(i) == IF p + i <= end THEN bytes[p + i] % 128 ELSE 0
<1>1. end \in Nat /\ (end # 0 => p <= end /\ end <= Len(bytes))
  BY VarintEnds
<1>2. ASSUME NEW i \in 0 .. 4
      PROVE  bits(i) \in 0 .. 127
  <2>1. CASE p + i <= end
    <3> PICK j : j = p + i
      OBVIOUS
    <3>1. j \in 1 .. Len(bytes)
      BY <1>1, <2>1
    <3>2. bytes[j] \in Byte
      BY ONLY <3>1, bytes \in Seq(Byte)
    <3> PICK b : b = bytes[j]
      OBVIOUS
    <3>3. b \in Int
      <4>1. \A c \in Byte : c \in Int
        BY ONLY DEF Byte
      <4> QED BY ONLY <3>2, <4>1, b = bytes[j]
    <3>4. b % 128 \in 0 .. 127
      BY ONLY <3>3
    <3> QED BY <2>1, <3>4
  <2>2. CASE ~(p + i <= end)
    BY <2>2
  <2> QED BY <2>1, <2>2
<1>3. ReadVarint(bytes, p) = bits(0) + 128 * bits(1) + 16384 * bits(2) + 2097152 * bits(3)
        + 268435456 * (IF bits(4) % 16 >= 8 THEN (bits(4) % 16) - 16 ELSE bits(4) % 16)
  BY SMT DEF ReadVarint
<1> PICK b0 \in 0 .. 127 : b0 = bits(0)
  BY <1>2
<1> PICK b1 \in 0 .. 127 : b1 = bits(1)
  BY <1>2
<1> PICK b2 \in 0 .. 127 : b2 = bits(2)
  BY <1>2
<1> PICK b3 \in 0 .. 127 : b3 = bits(3)
  BY <1>2
<1> PICK b4 \in 0 .. 127 : b4 = bits(4)
  BY <1>2
<1> HIDE DEF bits
<1> PICK t : t = IF b4 % 16 >= 8 THEN (b4 % 16) - 16 ELSE b4 % 16
  OBVIOUS
<1>4. t \in -8 .. 7
  <2>1. b4 % 16 \in 0 .. 15
    BY ONLY b4 \in 0 .. 127
  <2> PICK u \in 0 .. 15 : u = b4 % 16
    BY <2>1
  <2>2. t = IF u >= 8 THEN u - 16 ELSE u
    OBVIOUS
  <2> QED BY ONLY <2>2, u \in 0 .. 15
<1>5. ReadVarint(bytes, p) = b0 + 128 * b1 + 16384 * b2 + 2097152 * b3 + 268435456 * t
  BY <1>3, SMT
<1>6. b0 + 128 * b1 + 16384 * b2 + 2097152 * b3 + 268435456 * t \in Int32
  BY ONLY <1>4, b0 \in 0 .. 127, b1 \in 0 .. 127, b2 \in 0 .. 127, b3 \in 0 .. 127, SMT DEF Int32
<1> QED BY <1>5, <1>6, SMT

LEMMA EmptyIsFields ==
  ASSUME NEW id
  PROVE  IsFields(id, <<>>)
BY DEF IsFields

LEMMA WithIsFields ==
  ASSUME NEW id, NEW g, IsFields(id, g), NEW f \in DOMAIN _msg_id_names[id],
         NEW v, IsValue(_msg_id_names[id][f], v)
  PROVE  IsFields(id, With(g, f, v))
<1> PICK class : class = _msg_id_names[id]
  OBVIOUS
<1>1. DOMAIN g \subseteq DOMAIN class /\ \A h \in DOMAIN g : IsValue(class[h], g[h])
  BY DEF IsFields
<1> PICK w : w = With(g, f, v)
  OBVIOUS
<1>2. /\ w = [h \in DOMAIN g \cup {f} |-> IF h \in DOMAIN g THEN g[h] ELSE v]
      /\ f \in DOMAIN class /\ IsValue(class[f], v)
  BY DEF With
<1>3. DOMAIN w = DOMAIN g \cup {f} /\ w = [h \in DOMAIN w |-> w[h]]
  BY ONLY <1>2
<1>4. ASSUME NEW h \in DOMAIN w
      PROVE  IsValue(class[h], w[h])
  BY ONLY <1>1, <1>2, <1>3, <1>4, Zenon
<1>5. DOMAIN w \subseteq DOMAIN class
  BY ONLY <1>1, <1>2, <1>3
<1>6. IsFields(id, w)
  BY ONLY <1>3, <1>4, <1>5, class = _msg_id_names[id], Zenon DEF IsFields
<1> QED BY <1>6

LEMMA CutLength ==
  ASSUME NEW e \in Nat, NEW x \in Int32, NEW n \in Nat, e <= n,
         NEW m, m = IF e + 1 + x - 1 < n THEN e + 1 + x - 1 ELSE n
  PROVE  \/ e + 1 <= m + 1 /\ m \in Nat /\ m <= n /\ m + 1 - (e + 1) \in Int32
         \/ m \in Int /\ m < e + 1
BY SMT DEF Int32

(* What is read behind is of the types of the fields, too.                 *)
AreFields(id, from, n, p) == \A r \in p + 1 .. n + 1 : IsFields(id, from[r])

LEMMA FieldIsTyped ==
  ASSUME NEW id, NEW class, class = _msg_id_names[id], NEW f \in DOMAIN class,
         NEW type \in Types, type = class[f],
         NEW bytes \in Seq(Byte), NEW n, n = Len(bytes), NEW from,
         NEW p \in Nat \ {0}, AreFields(id, from, n, p), NEW q \in Nat, p < q
  PROVE  IsFields(id, ReadField(type, f, bytes, from, q))
<1> PICK e : e = VarintEnd(bytes, q)
  OBVIOUS
<1> PICK x : x = ReadVarint(bytes, q)
  OBVIOUS
<1>1. n \in Nat /\ e \in Nat /\ (e # 0 => q <= e /\ e <= n) /\ x \in Int32
  <2>1. q \in Nat \ {0}
    OBVIOUS
  <2> QED BY <2>1, LenProperties, VarintEnds, VarintReads
<1>2. ASSUME NEW r
      PROVE  IsFields(id, ReadOn(bytes, from, q, r))
  <2>1. CASE r \in q .. n + 1
    <3>1. r \in p + 1 .. n + 1
      BY <1>1, <2>1
    <3>2. IsFields(id, from[r])
      BY <3>1 DEF AreFields
    <3> QED BY <2>1, <3>2 DEF ReadOn
  <2>2. CASE r \notin q .. n + 1
    BY <2>2, EmptyIsFields DEF ReadOn
  <2> QED BY <2>1, <2>2
<1>3. ASSUME NEW g, IsFields(id, g), NEW v, IsValue(type, v)
      PROVE  IsFields(id, With(g, f, v))
  <2>1. f \in DOMAIN _msg_id_names[id] /\ IsValue(_msg_id_names[id][f], v)
    BY <1>3
  <2> QED BY <1>3, <2>1, WithIsFields
<1>4. CASE e = 0
  <2>1. ReadField(type, f, bytes, from, q) = IF type = STRING_ THEN With(<<>>, f, <<>>) ELSE <<>>
    BY <1>4 DEF ReadField
  <2>2. ASSUME type = STRING_
        PROVE  IsValue(type, <<>>)
    <3>1. <<>> \in Seq(Byte) /\ Len(<<>>) \in Int32
      BY SMT DEF Int32
    <3> QED BY <2>2, <3>1, TypesDiffer DEF IsValue
  <2> QED BY <1>3, <2>1, <2>2, EmptyIsFields
<1>5. CASE e # 0 /\ type = STRING_
  <2> DEFINE last == e + 1 + x - 1
             m == IF last < n THEN last ELSE n
             v == SubSeq(bytes, e + 1, m)
  <2>1. ReadField(type, f, bytes, from, q) = With(ReadOn(bytes, from, q, last + 1), f, v)
    BY <1>5 DEF ReadField
  <2>2. IsValue(type, v)
    <3>0. n \in Nat /\ e \in Nat /\ e <= n /\ x \in Int32
      BY <1>1, <1>5
    <3> PICK b : b = m
      OBVIOUS
    <3>1. \/ e + 1 <= b + 1 /\ b \in Nat /\ b <= n /\ b + 1 - (e + 1) \in Int32
          \/ b \in Int /\ b < e + 1
      BY ONLY <3>0, b = m, CutLength
    <3> PICK a : a = e + 1
      OBVIOUS
    <3>2. v = SubSeq(bytes, a, b)
      OBVIOUS
    <3> HIDE DEF m, last, v
    <3>3. CASE a <= b + 1 /\ b \in Nat /\ b <= n /\ b + 1 - a \in Int32
      <4>1. a \in Nat \ {0} /\ b <= Len(bytes)
        BY <3>0, <3>3
      <4>2. /\ SubSeq(bytes, a, b) \in Seq(Byte)
            /\ Len(SubSeq(bytes, a, b)) = b + 1 - a
        BY ONLY <3>3, <4>1, bytes \in Seq(Byte), PartOf
      <4> QED BY <1>5, <3>2, <3>3, <4>2, TypesDiffer DEF IsValue
    <3>4. CASE b \in Int /\ b < a
      <4>1. a \in Nat
        BY <3>0
      <4>2. SubSeq(bytes, a, b) = <<>>
        BY ONLY <3>4, <4>1
      <4>3. <<>> \in Seq(Byte) /\ Len(<<>>) \in Int32
        BY SMT DEF Int32
      <4> QED BY <1>5, <3>2, <4>2, <4>3, TypesDiffer DEF IsValue
    <3> QED BY <3>1, <3>3, <3>4
  <2> HIDE DEF v
  <2> QED BY <1>2, <1>3, <2>1, <2>2
<1>6. CASE e # 0 /\ type # STRING_
  <2> DEFINE v == IF type = BOOL THEN x # 0 ELSE x
  <2>1. ReadField(type, f, bytes, from, q) = With(ReadOn(bytes, from, q, e + 1), f, v)
    BY <1>6 DEF ReadField
  <2>2. IsValue(type, v)
    <3>1. CASE type = BOOL
      <4>1. v \in BOOLEAN
        BY <3>1, Zenon
      <4> HIDE DEF v
      <4> QED BY <3>1, <4>1, TypesDiffer DEF IsValue
    <3>2. CASE type = INT32
      <4>1. v = x
        BY <3>2, TypesDiffer, Zenon
      <4> HIDE DEF v
      <4> QED BY <1>1, <3>2, <4>1, TypesDiffer DEF IsValue
    <3> QED BY <1>6, <3>1, <3>2 DEF Types
  <2> HIDE DEF v
  <2> QED BY <1>2, <1>3, <2>1, <2>2
<1> QED BY <1>4, <1>5, <1>6

LEMMA ReadIsTyped ==
  ASSUME NEW id, Known(id), NEW class, class = _msg_id_names[id],
         NEW bytes \in Seq(Byte), NEW n, n = Len(bytes), NEW from,
         NEW p \in Nat \ {0}, AreFields(id, from, n, p)
  PROVE  IsFields(id, ReadAt(class, bytes, from, p))
<1> PICK tag : tag = ReadVarint(bytes, p)
  OBVIOUS
<1> PICK f : f = tag \div 8
  OBVIOUS
<1> PICK e : e = VarintEnd(bytes, p)
  OBVIOUS
<1> PICK q : q = e + 1
  OBVIOUS
<1>1. n \in Nat /\ e \in Nat /\ (e # 0 => p <= e /\ e <= n)
  BY LenProperties, VarintEnds
<1>2. CASE e = 0 \/ tag = 0
  <2>1. ReadAt(class, bytes, from, p) = <<>>
    BY <1>2 DEF ReadAt
  <2> QED BY <2>1, EmptyIsFields
<1>3. CASE ~(e = 0 \/ tag = 0) /\ ~(f \in DOMAIN class /\ tag % 8 = WireType(class[f]))
  <2> PICK r : r = ReadUnknown(tag % 8, bytes, q)
    OBVIOUS
  <2>1. ReadAt(class, bytes, from, p) = ReadOn(bytes, from, q, r)
    BY <1>3 DEF ReadAt
  <2>2. CASE r \in q .. n + 1
    <3>1. r \in p + 1 .. n + 1
      BY <1>1, <1>3, <2>2
    <3>2. IsFields(id, from[r])
      BY <3>1 DEF AreFields
    <3> QED BY <2>1, <2>2, <3>2 DEF ReadOn
  <2>3. CASE r \notin q .. n + 1
    BY <2>1, <2>3, EmptyIsFields DEF ReadOn
  <2> QED BY <2>2, <2>3
<1>4. CASE ~(e = 0 \/ tag = 0) /\ f \in DOMAIN class /\ tag % 8 = WireType(class[f])
  <2> PICK type : type = class[f]
    OBVIOUS
  <2>1. ReadAt(class, bytes, from, p) = ReadField(type, f, bytes, from, q)
    BY <1>4 DEF ReadAt
  <2>2. f \in DOMAIN class
    BY <1>4
  <2>3. type \in Types
    BY <1>4, Classes
  <2>4. q \in Nat /\ p < q
    BY <1>1, <1>4
  <2>5. IsFields(id, ReadField(type, f, bytes, from, q))
    BY <2>2, <2>3, <2>4, FieldIsTyped
  <2> QED BY <2>1, <2>5
<1> QED BY <1>2, <1>3, <1>4

LEMMA MergeIsTyped ==
  ASSUME NEW id, Known(id), NEW bytes \in Seq(Byte)
  PROVE  IsFields(id, Merge(id, bytes))
<1> PICK class : class = _msg_id_names[id]
  OBVIOUS
<1> PICK n : n = Len(bytes)
  OBVIOUS
<1>1. n \in Nat
  BY LenProperties
<1>2. PICK from : /\ Merge(id, bytes) = from[1]
                  /\ \A p \in 1 .. n + 1 : from[p] = ReadAt(class, bytes, from, p)
  BY MergeReads
<1> DEFINE S == {k \in Nat : \A p \in 1 .. n + 1 : n + 1 - p < k => IsFields(id, from[p])}
<1>3. 0 \in S
  BY <1>1
<1>4. ASSUME NEW k \in Nat, k \in S
      PROVE  k + 1 \in S
  <2> SUFFICES ASSUME NEW p \in 1 .. n + 1, n + 1 - p < k + 1
               PROVE  IsFields(id, from[p])
    OBVIOUS
  <2>1. p \in Nat \ {0}
    BY <1>1
  <2>2. AreFields(id, from, n, p)
    <3> SUFFICES ASSUME NEW r \in p + 1 .. n + 1 PROVE IsFields(id, from[r])
      BY DEF AreFields
    <3>1. r \in 1 .. n + 1 /\ n + 1 - r < k
      BY <1>1, <2>1
    <3> QED BY <1>4, <3>1
  <2>3. IsFields(id, ReadAt(class, bytes, from, p))
    BY ONLY <2>1, <2>2, Known(id), class = _msg_id_names[id], bytes \in Seq(Byte),
            n = Len(bytes), ReadIsTyped
  <2> QED BY <1>2, <2>3
<1> HIDE DEF S
<1>5. n + 1 \in S
  BY <1>1, <1>3, <1>4, Induct
<1>6. IsFields(id, from[1])
  <2>1. 1 \in 1 .. n + 1 /\ n + 1 - 1 < n + 1
    BY <1>1
  <2> QED BY <1>5, <2>1 DEF S
<1> QED BY <1>2, <1>6


(* Bytes of a message without a zero among them.                           *)
LEMMA ZeroInField ==
  ASSUME NEW type \in Types, NEW v, IsValue(type, v), ~ZeroFree(type, v),
         NEW e, e = Encoded(type, v)
  PROVE  \E i \in 1 .. Len(e) : e[i] = 0
<1>1. e = << 0 >> => \E i \in 1 .. Len(e) : e[i] = 0
  OBVIOUS
<1>2. CASE type # STRING_
  <2>1. e = << 0 >>
    BY <1>2, EncodedFacts
  <2> QED BY <1>1, <2>1
<1>3. CASE type = STRING_
  <2> PICK n : n = Len(Varint(Len(v)))
    OBVIOUS
  <2>1. /\ v \in Seq(Byte) /\ Len(Varint(Len(v))) \in 1 .. 5 /\ Len(v) \in Nat
        /\ Len(e) = Len(Varint(Len(v))) + Len(v)
        /\ \A i \in 1 .. Len(v) : e[Len(Varint(Len(v))) + i] = v[i]
        /\ v = <<>> => e = << 0 >>
    <3>1. type \in Types
      OBVIOUS
    <3>2. IsValue(type, v)
      OBVIOUS
    <3>3. e = Encoded(type, v)
      OBVIOUS
    <3> QED BY ONLY <1>3, <3>1, <3>2, <3>3, EncodedFacts
  <2>2. /\ v \in Seq(Byte) /\ n \in 1 .. 5 /\ Len(v) \in Nat /\ Len(e) = n + Len(v)
        /\ \A i \in 1 .. Len(v) : e[n + i] = v[i]
        /\ v = <<>> => e = << 0 >>
    BY ONLY <2>1, n = Len(Varint(Len(v)))
  <2>3. CASE v = <<>>
    BY <1>1, <2>2, <2>3
  <2>4. CASE v # <<>>
    <3>1. \E i \in DOMAIN v : v[i] = 0
      BY <1>3, <2>4, TypesDiffer DEF ZeroFree
    <3>2. PICK i \in 1 .. Len(v) : v[i] = 0
      BY <2>2, <3>1
    <3>3. n + i \in 1 .. Len(e) /\ e[n + i] = 0
      BY <2>2, <3>2
    <3> QED BY <3>3
  <2> QED BY <2>3, <2>4
<1> QED BY <1>2, <1>3

LEMMA ZeroFreeBody ==
  ASSUME NEW id, Known(id), NEW fields, IsFields(id, fields),
         NEW class, class = _msg_id_names[id], NEW body, body = Serialize(id, fields),
         \A i \in 1 .. Len(body) : body[i] # 0
  PROVE  \A f \in DOMAIN fields : ZeroFree(class[f], fields[f])
<1> SUFFICES ASSUME NEW f \in DOMAIN fields, ~ZeroFree(class[f], fields[f])
             PROVE  FALSE
  OBVIOUS
<1> PICK parts : parts = AllFieldBytes(class, fields)
  OBVIOUS
<1> PICK n : n = Len(class)
  OBVIOUS
<1> PICK B : B = Len(body)
  OBVIOUS
<1> PICK b : b = FieldBytes(class, fields, f)
  OBVIOUS
<1> PICK e : e = Encoded(class[f], fields[f])
  OBVIOUS
<1>1. n \in 1 .. 3 /\ DOMAIN class = 1 .. n
  BY Classes
<1>2. f \in 1 .. n /\ f \in DOMAIN class
  BY <1>1 DEF IsFields
<1>3. body \in Seq(Byte) /\ \E off : PartsAt(parts, body, off)
  BY SerializeFacts
<1>4. PICK off : PartsAt(parts, body, off)
  BY <1>3
<1>5. parts \in Seq(Seq(Byte)) /\ Len(parts) = n /\ parts[f] = b
  <2>1. ASSUME NEW g \in DOMAIN class
        PROVE  FieldBytes(class, fields, g) \in Seq(Byte)
    BY FieldFacts
  <2>2. parts = [g \in 1 .. n |-> FieldBytes(class, fields, g)]
    BY <1>1 DEF AllFieldBytes
  <2> QED BY <1>1, <1>2, <2>1, <2>2
<1>6. /\ class[f] \in Types /\ IsValue(class[f], fields[f])
      /\ Len(b) = 1 + Len(e) /\ \A i \in 1 .. Len(e) : b[1 + i] = e[i]
  BY <1>2, FieldFacts
<1>7. PICK i \in 1 .. Len(e) : e[i] = 0
  <2>1. class[f] \in Types
    BY <1>6
  <2>2. IsValue(class[f], fields[f])
    BY <1>6
  <2> QED BY <2>1, <2>2, ZeroInField
<1> PICK le : le = Len(e)
  OBVIOUS
<1>8. le \in Nat /\ i \in 1 .. le
  BY <1>6, <1>7, EncodedFacts
<1>9. /\ off[n] = B /\ off[f - 1] \in Nat /\ off[f] \in Nat /\ off[f] = off[f - 1] + Len(b)
      /\ \A j \in 1 .. Len(b) : body[off[f - 1] + j] = b[j]
  <2>1. f - 1 \in 0 .. n /\ f \in 0 .. n
    BY <1>1, <1>2
  <2>2. off \in [0 .. n -> Nat]
    BY <1>4, <1>5 DEF PartsAt
  <2> QED BY <1>2, <1>4, <1>5, <2>1, <2>2 DEF PartsAt
<1>10. off[f] <= off[n]
  <2>1. f \in 0 .. n /\ n \in 0 .. n /\ f <= n
    BY <1>1, <1>2
  <2>2. \A i1, j1 \in 0 .. n : i1 <= j1 => off[i1] <= off[j1]
    BY <1>4, <1>5, PartsOrdered
  <2> QED BY <2>1, <2>2
<1>11. /\ Len(b) = 1 + le /\ 1 + i \in 1 .. Len(b) /\ b[1 + i] = 0
  BY <1>6, <1>7, <1>8
<1>12. body[off[f - 1] + (1 + i)] = 0
  BY <1>9, <1>11, Zenon
<1>13. off[f - 1] + (1 + i) \in 1 .. B
  BY <1>8, <1>9, <1>10, <1>11
<1> QED BY <1>12, <1>13

-----------------------------------------------------------------------------
(* The sizes of a LineBuffer that is doubled: LineSize is a function.      *)
Sizes(size, S) ==
  [k \in S |-> IF k = 0 THEN DEF_LINE_BUFF_SIZE ELSE size[k - 1] * 2]

LEMMA SizesExist ==
  \A n \in Nat : \E size : size = Sizes(size, 0 .. n)
<1> DEFINE S == {n \in Nat : \E size : size = Sizes(size, 0 .. n)}
<1>1. 0 \in S
  <2> DEFINE one == [k \in 0 .. 0 |-> DEF_LINE_BUFF_SIZE]
  <2>1. one = Sizes(one, 0 .. 0)
    BY DEF Sizes
  <2> HIDE DEF one
  <2> QED BY <2>1
<1>2. ASSUME NEW n \in Nat, n \in S
      PROVE  n + 1 \in S
  <2>1. PICK size : size = Sizes(size, 0 .. n)
    BY <1>2
  <2> DEFINE more == [k \in 0 .. n + 1 |-> IF k = 0 THEN DEF_LINE_BUFF_SIZE ELSE size[k - 1] * 2]
  <2>2. \A k \in 0 .. n : size[k] = IF k = 0 THEN DEF_LINE_BUFF_SIZE ELSE size[k - 1] * 2
    BY <2>1 DEF Sizes
  <2>3. \A k \in 0 .. n : more[k] = size[k]
    BY <2>2
  <2>4. \A k \in 0 .. n + 1 : k # 0 => k - 1 \in 0 .. n
    OBVIOUS
  <2>5. more = Sizes(more, 0 .. n + 1)
    BY <2>3, <2>4 DEF Sizes
  <2> HIDE DEF more
  <2> QED BY <2>5
<1> HIDE DEF S
<1>3. \A n \in Nat : n \in S
  BY <1>1, <1>2, Induct
<1> QED BY <1>3 DEF S

LEMMA SizesAgree ==
  ASSUME NEW n \in Nat, NEW m \in Nat, NEW f, f = Sizes(f, 0 .. n), NEW g, g = Sizes(g, 0 .. m)
  PROVE  \A k \in Nat : k <= n /\ k <= m => f[k] = g[k]
<1>1. /\ \A k \in 0 .. n : f[k] = IF k = 0 THEN DEF_LINE_BUFF_SIZE ELSE f[k - 1] * 2
      /\ \A k \in 0 .. m : g[k] = IF k = 0 THEN DEF_LINE_BUFF_SIZE ELSE g[k - 1] * 2
  BY DEF Sizes
<1> DEFINE S == {k \in Nat : k <= n /\ k <= m => f[k] = g[k]}
<1>2. 0 \in S
  BY <1>1
<1>3. ASSUME NEW k \in Nat, k \in S
      PROVE  k + 1 \in S
  <2> SUFFICES ASSUME k + 1 <= n, k + 1 <= m PROVE f[k + 1] = g[k + 1]
    OBVIOUS
  <2>1. f[k] = g[k] /\ k + 1 \in 0 .. n /\ k + 1 \in 0 .. m /\ k + 1 # 0 /\ (k + 1) - 1 = k
    BY <1>3
  <2>2. f[k + 1] = f[(k + 1) - 1] * 2 /\ g[k + 1] = g[(k + 1) - 1] * 2
    BY <1>1, <2>1, Zenon
  <2> QED BY <2>1, <2>2
<1> HIDE DEF S
<1>4. \A k \in Nat : k \in S
  BY <1>2, <1>3, Induct
<1> QED BY <1>4 DEF S

LEMMA LineSizeIs ==
  /\ LineSize[0] = DEF_LINE_BUFF_SIZE
  /\ \A k \in Nat : LineSize[k + 1] = LineSize[k] * 2
<1> DEFINE upTo(n) == CHOOSE f : f = Sizes(f, 0 .. n)
           F == [k \in Nat |-> upTo(k)[k]]
<1>1. \A n \in Nat : upTo(n) = Sizes(upTo(n), 0 .. n)
  BY SizesExist
<1>2. \A n \in Nat : \A k \in 0 .. n :
        upTo(n)[k] = IF k = 0 THEN DEF_LINE_BUFF_SIZE ELSE upTo(n)[k - 1] * 2
  <2> SUFFICES ASSUME NEW n \in Nat, NEW k \in 0 .. n
               PROVE  upTo(n)[k] = IF k = 0 THEN DEF_LINE_BUFF_SIZE ELSE upTo(n)[k - 1] * 2
    OBVIOUS
  <2> PICK u : u = upTo(n)
    OBVIOUS
  <2>1. u = Sizes(u, 0 .. n)
    BY <1>1
  <2> HIDE DEF upTo
  <2> QED BY <2>1 DEF Sizes
<1>3. ASSUME NEW k \in Nat, k # 0
      PROVE  upTo(k)[k] = upTo(k - 1)[k - 1] * 2
  <2>1. k - 1 \in Nat /\ k \in 0 .. k
    BY <1>3
  <2>2. upTo(k)[k] = upTo(k)[k - 1] * 2
    BY <1>2, <1>3, <2>1
  <2> PICK u : u = upTo(k)
    OBVIOUS
  <2> PICK w : w = upTo(k - 1)
    OBVIOUS
  <2>3. u = Sizes(u, 0 .. k) /\ w = Sizes(w, 0 .. k - 1)
    BY <1>1, <2>1
  <2> HIDE DEF upTo
  <2>4. k - 1 <= k /\ k - 1 <= k - 1
    OBVIOUS
  <2>5. u[k - 1] = w[k - 1]
    BY <2>1, <2>3, <2>4, SizesAgree
  <2> QED BY <2>2, <2>5
<1>4. F = Sizes(F, Nat)
  <2> HIDE DEF upTo
  <2>1. upTo(0)[0] = DEF_LINE_BUFF_SIZE
    <3>1. 0 \in Nat /\ 0 \in 0 .. 0
      OBVIOUS
    <3> QED BY <1>2, <3>1, Zenon
  <2>2. ASSUME NEW k \in Nat
        PROVE  F[k] = IF k = 0 THEN DEF_LINE_BUFF_SIZE ELSE F[k - 1] * 2
    <3>1. CASE k = 0
      BY <2>1, <3>1
    <3>2. CASE k # 0
      <4>1. k - 1 \in Nat
        BY <3>2
      <4> QED BY <1>3, <3>2, <4>1
    <3> QED BY <3>1, <3>2
  <2> QED BY <2>2 DEF Sizes
<1> HIDE DEF F
<1>5. LineSize = CHOOSE size : size = Sizes(size, Nat)
  BY DEF LineSize, Sizes
<1>6. LineSize = Sizes(LineSize, Nat)
  BY <1>4, <1>5
<1>7. \A k \in Nat : LineSize[k] = IF k = 0 THEN DEF_LINE_BUFF_SIZE ELSE LineSize[k - 1] * 2
  <2> PICK f : f = LineSize
    OBVIOUS
  <2>1. f = Sizes(f, Nat)
    BY <1>6
  <2>2. \A k \in Nat : f[k] = IF k = 0 THEN DEF_LINE_BUFF_SIZE ELSE f[k - 1] * 2
    BY <2>1 DEF Sizes
  <2> QED BY <2>2
<1>8. ASSUME NEW k \in Nat
      PROVE  LineSize[k + 1] = LineSize[k] * 2
  <2>1. k + 1 \in Nat /\ k + 1 # 0 /\ (k + 1) - 1 = k
    OBVIOUS
  <2>2. LineSize[k + 1] = LineSize[(k + 1) - 1] * 2
    BY <1>7, <2>1, Zenon
  <2> QED BY <2>1, <2>2
<1>9. LineSize[0] = DEF_LINE_BUFF_SIZE
  BY <1>7
<1> QED BY <1>8, <1>9

LEMMA LineSizes ==
  \A k \in Nat : LineSize[k] \in Nat /\ k < LineSize[k]
<1> DEFINE S == {k \in Nat : LineSize[k] \in Nat /\ k < LineSize[k]}
<1>1. 0 \in S
  <2>1. DEF_LINE_BUFF_SIZE \in Nat \ {0}
    BY FramingAssumption
  <2> QED BY <2>1, LineSizeIs
<1>2. ASSUME NEW k \in Nat, k \in S
      PROVE  k + 1 \in S
  <2>1. LineSize[k] \in Nat /\ k < LineSize[k] /\ LineSize[k + 1] = LineSize[k] * 2
    BY <1>2, LineSizeIs
  <2> QED BY <2>1
<1> HIDE DEF S
<1>3. \A k \in Nat : k \in S
  BY <1>1, <1>2, Induct
<1> QED BY <1>3 DEF S

(* append_size: the first doubled size with room for what is needed.       *)
Doublings(doubled, size, need, n) ==
  [i \in 0 .. n |-> IF i = 0 THEN size
                    ELSE IF doubled[i - 1] >= need THEN doubled[i - 1] ELSE doubled[i - 1] * 2]

LEMMA DoublingsExist ==
  ASSUME NEW size, NEW need
  PROVE  \A n \in Nat : \E doubled : doubled = Doublings(doubled, size, need, n)
<1> DEFINE step(d, i) == IF i = 0 THEN size ELSE IF d[i - 1] >= need THEN d[i - 1] ELSE d[i - 1] * 2
           S == {n \in Nat : \E doubled : doubled = Doublings(doubled, size, need, n)}
<1>1. 0 \in S
  <2> DEFINE one == [i \in 0 .. 0 |-> size]
  <2>1. one = Doublings(one, size, need, 0)
    BY DEF Doublings
  <2> HIDE DEF one
  <2> QED BY <2>1
<1>2. ASSUME NEW n \in Nat, n \in S
      PROVE  n + 1 \in S
  <2>1. PICK doubled : doubled = Doublings(doubled, size, need, n)
    BY <1>2
  <2> DEFINE more == [i \in 0 .. n + 1 |-> step(doubled, i)]
  <2>2. \A i \in 0 .. n : doubled[i] = step(doubled, i)
    BY <2>1 DEF Doublings
  <2>3. \A i \in 0 .. n : more[i] = doubled[i]
    BY <2>2
  <2>4. \A i \in 0 .. n + 1 : i # 0 => i - 1 \in 0 .. n
    OBVIOUS
  <2>5. \A i \in 0 .. n + 1 : step(doubled, i) = step(more, i)
    BY <2>3, <2>4
  <2>6. more = [i \in 0 .. n + 1 |-> step(more, i)]
    <3> HIDE DEF step
    <3>1. DOMAIN more = 0 .. n + 1 /\ \A i \in 0 .. n + 1 : more[i] = step(more, i)
      BY <2>5
    <3>2. more = [i \in DOMAIN more |-> more[i]]
      OBVIOUS
    <3> HIDE DEF more
    <3> QED BY <3>1, <3>2
  <2> HIDE DEF more
  <2>7. more = Doublings(more, size, need, n + 1)
    BY <2>6 DEF Doublings
  <2> QED BY <2>7
<1> HIDE DEF S
<1>3. \A n \in Nat : n \in S
  BY <1>1, <1>2, Induct
<1> QED BY <1>3 DEF S

LEMMA DoubledIs ==
  ASSUME NEW j \in Nat, NEW size, size = LineSize[j], NEW need \in Nat
  PROVE  \E k \in Nat : Doubled(size, need) = LineSize[k] /\ size <= LineSize[k] /\ need <= LineSize[k]
<1> PICK d : d = CHOOSE doubled : doubled = Doublings(doubled, size, need, need)
  OBVIOUS
<1>1. d = Doublings(d, size, need, need)
  BY DoublingsExist
<1>2. Doubled(size, need) = d[need]
  BY DEF Doubled, Doublings
<1>3. \A i \in 0 .. need :
        d[i] = IF i = 0 THEN size ELSE IF d[i - 1] >= need THEN d[i - 1] ELSE d[i - 1] * 2
  BY <1>1 DEF Doublings
<1> DEFINE S == {i \in Nat : i <= need => \E k \in Nat :
                   d[i] = LineSize[k] /\ size <= d[i] /\ (need <= d[i] \/ i <= d[i])}
<1>4. 0 \in S
  BY <1>3, LineSizes
<1>5. ASSUME NEW i \in Nat, i \in S
      PROVE  i + 1 \in S
  <2> SUFFICES ASSUME i + 1 <= need
               PROVE  \E k \in Nat : /\ d[i + 1] = LineSize[k] /\ size <= d[i + 1]
                                     /\ need <= d[i + 1] \/ i + 1 <= d[i + 1]
    OBVIOUS
  <2>1. PICK k \in Nat : d[i] = LineSize[k] /\ size <= d[i] /\ (need <= d[i] \/ i <= d[i])
    BY <1>5
  <2>2. d[i + 1] = IF d[i] >= need THEN d[i] ELSE d[i] * 2
    <3>1. i + 1 \in 0 .. need /\ i + 1 # 0 /\ (i + 1) - 1 = i
      OBVIOUS
    <3>2. d[i + 1] = IF d[(i + 1) - 1] >= need THEN d[(i + 1) - 1] ELSE d[(i + 1) - 1] * 2
      BY <1>3, <3>1, Zenon
    <3> QED BY <3>1, <3>2
  <2>3. d[i] \in Nat /\ d[i] > 0 /\ LineSize[k + 1] = LineSize[k] * 2 /\ k + 1 \in Nat /\ size \in Nat
    BY <2>1, LineSizes, LineSizeIs
  <2>4. CASE d[i] >= need
    BY <2>1, <2>2, <2>3, <2>4
  <2>5. CASE ~(d[i] >= need)
    <3>1. d[i + 1] = LineSize[k + 1] /\ d[i + 1] = d[i] * 2
      BY <2>1, <2>2, <2>3, <2>5
    <3>2. size <= d[i + 1] /\ i + 1 <= d[i + 1]
      BY <2>1, <2>3, <2>5, <3>1
    <3> QED BY <2>3, <3>1, <3>2
  <2> QED BY <2>4, <2>5
<1> HIDE DEF S
<1>6. need \in S
  BY <1>4, <1>5, Induct
<1>7. PICK k \in Nat :
        d[need] = LineSize[k] /\ size <= d[need] /\ (need <= d[need] \/ need <= d[need])
  BY <1>6 DEF S
<1> QED BY <1>2, <1>7

-----------------------------------------------------------------------------
(* The integers of a header.                                               *)
Quotients(v, v1, v2, v3) ==
  v1 = v \div 256 /\ v2 = v \div 65536 /\ v3 = v \div 16777216

LEMMA FourDigits ==
  ASSUME NEW v \in Int, NEW v1, NEW v2, NEW v3, Quotients(v, v1, v2, v3)
  PROVE  /\ v1 \in Int /\ v2 \in Int /\ v3 \in Int
         /\ v % 256 \in 0 .. 255 /\ v1 % 256 \in 0 .. 255 /\ v2 % 256 \in 0 .. 255
         /\ v3 % 256 \in 0 .. 255
         /\ v = (v % 256) + 256 * v1 /\ v1 = (v1 % 256) + 256 * v2 /\ v2 = (v2 % 256) + 256 * v3
<1>1. /\ v1 \in Int /\ v2 \in Int /\ v3 \in Int
      /\ v % 256 \in 0 .. 255 /\ v = (v % 256) + 256 * v1
  BY SMT DEF Quotients
<1>2. /\ v1 % 256 \in 0 .. 255 /\ v2 % 256 \in 0 .. 255 /\ v3 % 256 \in 0 .. 255
  BY <1>1, SMT
<1>3. v1 = (v1 % 256) + 256 * v2
  <2>1. v2 = v1 \div 256
    BY SMT DEF Quotients
  <2> QED BY <1>1, <2>1, SMT
<1>4. v2 = (v2 % 256) + 256 * v3
  <2>1. v3 = v2 \div 256
    BY SMT DEF Quotients
  <2> QED BY <1>1, <2>1, SMT
<1> QED BY <1>1, <1>2, <1>3, <1>4, SMT

LEMMA Int4Is ==
  ASSUME NEW v \in Int32
  PROVE  /\ Bytes4(v) \in Seq(Byte) /\ Len(Bytes4(v)) = 4
         /\ \A b : (\A i \in 1 .. 4 : b[i] = Bytes4(v)[i]) => Int4(b) = v
<1> PICK v1 : v1 = v \div 256
  OBVIOUS
<1> PICK v2 : v2 = v \div 65536
  OBVIOUS
<1> PICK v3 : v3 = v \div 16777216
  OBVIOUS
<1> PICK r0 : r0 = v % 256
  OBVIOUS
<1> PICK r1 : r1 = v1 % 256
  OBVIOUS
<1> PICK r2 : r2 = v2 % 256
  OBVIOUS
<1> PICK r3 : r3 = v3 % 256
  OBVIOUS
<1>1. v \in Int /\ -2147483647 - 1 <= v /\ v <= 2147483647
  BY SMT DEF Int32
<1>2. /\ v1 \in Int /\ v2 \in Int /\ v3 \in Int
      /\ r0 \in 0 .. 255 /\ r1 \in 0 .. 255 /\ r2 \in 0 .. 255 /\ r3 \in 0 .. 255
      /\ v = r0 + 256 * v1 /\ v1 = r1 + 256 * v2 /\ v2 = r2 + 256 * v3
  <2>1. v \in Int
    BY <1>1, SMT
  <2>2. Quotients(v, v1, v2, v3)
    BY SMT DEF Quotients
  <2>3. /\ v1 \in Int /\ v2 \in Int /\ v3 \in Int
        /\ v % 256 \in 0 .. 255 /\ v1 % 256 \in 0 .. 255 /\ v2 % 256 \in 0 .. 255
        /\ v3 % 256 \in 0 .. 255
        /\ v = (v % 256) + 256 * v1 /\ v1 = (v1 % 256) + 256 * v2 /\ v2 = (v2 % 256) + 256 * v3
    BY ONLY <2>1, <2>2, FourDigits, SMT
  <2> QED BY ONLY <2>3, r0 = v % 256, r1 = v1 % 256, r2 = v2 % 256, r3 = v3 % 256, SMT
<1>3. Bytes4(v) = <<r0, r1, r2, r3>>
  BY SMT DEF Bytes4
<1>4. Bytes4(v) \in Seq(Byte) /\ Len(Bytes4(v)) = 4
  <2>1. r0 \in Byte /\ r1 \in Byte /\ r2 \in Byte /\ r3 \in Byte
    BY ONLY <1>2, SMT DEF Byte
  <2> QED BY ONLY <1>3, <2>1, SMT
<1>5. (IF r3 >= 128 THEN r3 - 256 ELSE r3) = v3
  <2>1. v3 >= -128 /\ v3 <= 127
    BY ONLY <1>1, <1>2, SMT
  <2>2. r3 = v3 \/ r3 = v3 + 256
    BY ONLY <1>2, <2>1, r3 = v3 % 256, SMT
  <2> QED BY ONLY <1>2, <2>1, <2>2, SMT
<1>6. ASSUME NEW b, \A i \in 1 .. 4 : b[i] = Bytes4(v)[i]
      PROVE  Int4(b) = v
  <2>1. b[1] = r0 /\ b[2] = r1 /\ b[3] = r2 /\ b[4] = r3
    BY ONLY <1>3, <1>6, SMT
  <2>2. Int4(b) = r0 + 256 * r1 + 65536 * r2 + 16777216 * v3
    BY ONLY <1>5, <2>1, SMT DEF Int4
  <2> QED BY ONLY <1>1, <1>2, <2>2, SMT
<1> QED BY <1>4, <1>6, SMT

(* The bytes behind the twelve of a message's header.                      *)
Body(m) == IF Known(m.id) THEN Serialize(m.id, m.fields) ELSE m.fields

LEMMA BodyFacts ==
  ASSUME NEW m, IsMessage(m)
  PROVE  /\ Body(m) \in Seq(Byte) /\ Len(Body(m)) = MsgLen(m) /\ MsgLen(m) \in Nat
         /\ MsgLen(m) \in Int32 /\ m.id \in Int32 /\ m.uid \in Int32
<1>1. CASE Known(m.id)
  <2>1. IsFields(m.id, m.fields)
    BY <1>1 DEF IsMessage
  <2>2. Body(m) \in Seq(Byte) /\ Len(Body(m)) = MsgLen(m)
    BY <1>1, <2>1, SerializeFacts DEF Body, MsgLen
  <2>3. MsgLen(m) \in Nat
    BY <2>2, LenProperties
  <2> QED BY <2>2, <2>3 DEF IsMessage
<1>2. CASE ~Known(m.id)
  <2>1. m.fields \in Seq(Byte)
    BY <1>2 DEF IsMessage
  <2>2. Body(m) \in Seq(Byte) /\ Len(Body(m)) = MsgLen(m)
    BY <1>2, <2>1 DEF Body, MsgLen
  <2>3. MsgLen(m) \in Nat
    BY <2>2, LenProperties
  <2> QED BY <2>2, <2>3 DEF IsMessage
<1> QED BY <1>1, <1>2

Cat(s, t) == s \o t

LEMMA CatIs ==
  ASSUME NEW s \in Seq(Byte), NEW t \in Seq(Byte)
  PROVE  /\ Cat(s, t) \in Seq(Byte) /\ Len(Cat(s, t)) = Len(s) + Len(t)
         /\ \A k \in 1 .. Len(s) : Cat(s, t)[k] = s[k]
         /\ \A k \in 1 .. Len(t) : Cat(s, t)[Len(s) + k] = t[k]
BY ConcatProperties, LenProperties DEF Cat

FrameParts(m, frame) ==
  /\ frame \in Seq(Byte) /\ Len(frame) = 12 + MsgLen(m)
  /\ \A i \in 1 .. 4 : /\ frame[i] = Bytes4(MsgLen(m))[i]
                       /\ frame[4 + i] = Bytes4(m.id)[i]
                       /\ frame[8 + i] = Bytes4(m.uid)[i]
  /\ \A i \in 1 .. MsgLen(m) : frame[12 + i] = Body(m)[i]

LEMMA FrameFacts ==
  ASSUME NEW m, IsMessage(m)
  PROVE  FrameParts(m, Frame(m))
<1> PICK s : s = Bytes4(MsgLen(m))
  OBVIOUS
<1> PICK t : t = Bytes4(m.id)
  OBVIOUS
<1> PICK u : u = Bytes4(m.uid)
  OBVIOUS
<1> PICK b : b = Body(m)
  OBVIOUS
<1> PICK l : l = MsgLen(m)
  OBVIOUS
<1>1. /\ s \in Seq(Byte) /\ Len(s) = 4 /\ t \in Seq(Byte) /\ Len(t) = 4
      /\ u \in Seq(Byte) /\ Len(u) = 4
  <2>1. MsgLen(m) \in Int32 /\ m.id \in Int32 /\ m.uid \in Int32
    BY BodyFacts
  <2> QED BY ONLY <2>1, s = Bytes4(MsgLen(m)), t = Bytes4(m.id), u = Bytes4(m.uid), Int4Is
<1>2. b \in Seq(Byte) /\ Len(b) = l /\ l \in Nat
  BY BodyFacts
<1> PICK st : st = Cat(s, t)
  OBVIOUS
<1> PICK stu : stu = Cat(st, u)
  OBVIOUS
<1> PICK fr : fr = Cat(stu, b)
  OBVIOUS
<1>3. fr = Frame(m)
  BY DEF Frame, Body, Cat
<1>4. /\ st \in Seq(Byte) /\ Len(st) = Len(s) + Len(t)
      /\ \A k \in 1 .. Len(s) : st[k] = s[k]
      /\ \A k \in 1 .. Len(t) : st[Len(s) + k] = t[k]
  BY ONLY <1>1, st = Cat(s, t), CatIs, ZenonT(60)
<1>5. Len(st) = 8 /\ \A k \in 1 .. 4 : st[k] = s[k] /\ st[4 + k] = t[k]
  BY ONLY <1>1, <1>4
<1>6. /\ stu \in Seq(Byte) /\ Len(stu) = Len(st) + Len(u)
      /\ \A k \in 1 .. Len(st) : stu[k] = st[k]
      /\ \A k \in 1 .. Len(u) : stu[Len(st) + k] = u[k]
  <2>1. st \in Seq(Byte) /\ u \in Seq(Byte)
    BY <1>1, <1>4
  <2> QED BY ONLY <2>1, stu = Cat(st, u), CatIs
<1>7. Len(stu) = 12 /\ \A k \in 1 .. 4 : stu[k] = s[k] /\ stu[4 + k] = t[k] /\ stu[8 + k] = u[k]
  <2>1. Len(stu) = 12 /\ (\A k \in 1 .. 8 : stu[k] = st[k]) /\ \A k \in 1 .. 4 : stu[8 + k] = u[k]
    BY ONLY <1>1, <1>5, <1>6
  <2>2. \A k \in 1 .. 4 : k \in 1 .. 8 /\ 4 + k \in 1 .. 8
    OBVIOUS
  <2> QED BY ONLY <1>5, <2>1, <2>2
<1>8. /\ fr \in Seq(Byte) /\ Len(fr) = Len(stu) + Len(b)
      /\ \A k \in 1 .. Len(stu) : fr[k] = stu[k]
      /\ \A k \in 1 .. Len(b) : fr[Len(stu) + k] = b[k]
  BY ONLY <1>2, <1>6, fr = Cat(stu, b), CatIs
<1>9. /\ Len(fr) = 12 + l
      /\ \A k \in 1 .. 4 : fr[k] = s[k] /\ fr[4 + k] = t[k] /\ fr[8 + k] = u[k]
      /\ \A k \in 1 .. l : fr[12 + k] = b[k]
  <2>1. Len(fr) = 12 + l /\ (\A k \in 1 .. 12 : fr[k] = stu[k]) /\ \A k \in 1 .. l : fr[12 + k] = b[k]
    BY ONLY <1>2, <1>7, <1>8
  <2>2. \A k \in 1 .. 4 : k \in 1 .. 12 /\ 4 + k \in 1 .. 12 /\ 8 + k \in 1 .. 12
    OBVIOUS
  <2> QED BY ONLY <1>7, <2>1, <2>2
<1> QED BY <1>3, <1>8, <1>9, ZenonT(60) DEF FrameParts

-----------------------------------------------------------------------------
(* The bytes of s lie in all between the places p and q.                   *)
Lies(all, p, s, q) ==
  /\ s \in Seq(Byte) /\ p \in Nat /\ q = p + Len(s) /\ q <= Len(all)
  /\ \A i \in 1 .. Len(s) : all[p + i] = s[i]

LEMMA LiesEmpty ==
  ASSUME NEW all \in Seq(Byte), NEW p \in Nat, p <= Len(all)
  PROVE  Lies(all, p, <<>>, p)
BY DEF Lies

LEMMA BytesPart ==
  ASSUME NEW s \in Seq(Byte), NEW a \in Nat \ {0}, NEW b \in Nat, a <= b + 1, b <= Len(s)
  PROVE  /\ SubSeq(s, a, b) \in Seq(Byte) /\ Len(SubSeq(s, a, b)) = b + 1 - a
         /\ \A i \in 1 .. b + 1 - a : SubSeq(s, a, b)[i] = s[a + i - 1]
BY PartOf

LEMMA LiesSplit ==
  ASSUME NEW all, NEW p, NEW s, NEW q, Lies(all, p, s, q), NEW k \in 0 .. Len(s)
  PROVE  /\ Lies(all, p, SubSeq(s, 1, k), p + k)
         /\ Lies(all, p + k, SubSeq(s, k + 1, Len(s)), q)
<1> PICK n : n = Len(s)
  OBVIOUS
<1> PICK t : t = SubSeq(s, 1, k)
  OBVIOUS
<1> PICK u : u = SubSeq(s, k + 1, n)
  OBVIOUS
<1>1. /\ s \in Seq(Byte) /\ n \in Nat /\ p \in Nat /\ q = p + n /\ q <= Len(all)
      /\ k \in 0 .. n /\ \A i \in 1 .. n : all[p + i] = s[i]
  BY LenProperties DEF Lies
<1>2. t \in Seq(Byte) /\ Len(t) = k /\ \A i \in 1 .. k : t[i] = s[i]
  <2>1. 1 \in Nat \ {0} /\ k \in Nat /\ 1 <= k + 1 /\ k <= Len(s) /\ k + 1 - 1 = k
    BY <1>1
  <2>2. /\ t \in Seq(Byte) /\ Len(t) = k + 1 - 1
        /\ \A i \in 1 .. k + 1 - 1 : t[i] = s[1 + i - 1]
    BY ONLY <1>1, <2>1, t = SubSeq(s, 1, k), BytesPart
  <2>3. \A i \in 1 .. k : 1 + i - 1 = i
    BY <1>1
  <2> QED BY ONLY <2>1, <2>2, <2>3
<1>3. /\ u \in Seq(Byte) /\ Len(u) = n - k
      /\ \A i \in 1 .. n - k : u[i] = s[k + i]
  <2>1. /\ k + 1 \in Nat \ {0} /\ n \in Nat /\ k + 1 <= n + 1 /\ n <= Len(s)
        /\ n + 1 - (k + 1) = n - k
    BY <1>1
  <2> PICK a : a = k + 1
    OBVIOUS
  <2>1a. a \in Nat \ {0} /\ a <= n + 1
    BY <2>1
  <2>2. /\ u \in Seq(Byte) /\ Len(u) = n + 1 - a
        /\ \A i \in 1 .. n + 1 - a : u[i] = s[a + i - 1]
    <3>1. u = SubSeq(s, a, n)
      OBVIOUS
    <3> QED BY ONLY <1>1, <2>1, <2>1a, <3>1, BytesPart
  <2>3. ASSUME NEW i \in 1 .. n - k
        PROVE  u[i] = s[k + i]
    <3>1. i \in 1 .. n + 1 - a /\ a + i - 1 = k + i
      BY <1>1
    <3>2. u[i] = s[a + i - 1]
      BY ONLY <2>2, <3>1, Zenon
    <3> QED BY <3>1, <3>2
  <2> QED BY ONLY <2>1, <2>2, <2>3, a = k + 1
<1>4. Lies(all, p, t, p + k)
  <2>1. p + k <= Len(all)
    BY <1>1 DEF Lies
  <2>2. \A i \in 1 .. k : all[p + i] = t[i]
    BY <1>1, <1>2
  <2> QED BY ONLY <1>1, <1>2, <2>1, <2>2 DEF Lies
<1>5. Lies(all, p + k, u, q)
  <2>1. p + k \in Nat /\ q = p + k + (n - k)
    BY <1>1
  <2>2. ASSUME NEW i \in 1 .. n - k
        PROVE  all[p + k + i] = u[i]
    <3>1. k + i \in 1 .. n /\ p + (k + i) = p + k + i
      BY <1>1
    <3>2. all[p + (k + i)] = s[k + i]
      BY ONLY <1>1, <3>1, Zenon
    <3> QED BY <1>3, <3>1, <3>2
  <2> QED BY ONLY <1>1, <1>3, <2>1, <2>2 DEF Lies
<1> QED BY ONLY <1>4, <1>5, t = SubSeq(s, 1, k), u = SubSeq(s, k + 1, n), n = Len(s)

LEMMA LiesJoin ==
  ASSUME NEW all, NEW p, NEW s, NEW q, Lies(all, p, s, q), NEW t, NEW r, Lies(all, q, t, r)
  PROVE  Lies(all, p, s \o t, r)
<1> PICK n : n = Len(s)
  OBVIOUS
<1> PICK k : k = Len(t)
  OBVIOUS
<1> PICK u : u = Cat(s, t)
  OBVIOUS
<1>1. /\ s \in Seq(Byte) /\ n \in Nat /\ p \in Nat /\ q = p + n
      /\ \A i \in 1 .. n : all[p + i] = s[i]
  BY LenProperties DEF Lies
<1>2. /\ t \in Seq(Byte) /\ k \in Nat /\ r = q + k /\ r <= Len(all)
      /\ \A i \in 1 .. k : all[q + i] = t[i]
  BY LenProperties DEF Lies
<1>3. /\ u \in Seq(Byte) /\ Len(u) = n + k
      /\ \A i \in 1 .. n : u[i] = s[i]
      /\ \A i \in 1 .. k : u[n + i] = t[i]
  <2>1. s \in Seq(Byte) /\ t \in Seq(Byte)
    BY <1>1, <1>2
  <2>2. /\ u \in Seq(Byte) /\ Len(u) = Len(s) + Len(t)
        /\ \A i \in 1 .. Len(s) : u[i] = s[i]
        /\ \A i \in 1 .. Len(t) : u[Len(s) + i] = t[i]
    BY ONLY <2>1, u = Cat(s, t), CatIs
  <2> QED BY ONLY <2>2, n = Len(s), k = Len(t)
<1>4. ASSUME NEW i \in 1 .. n + k
      PROVE  all[p + i] = u[i]
  <2>1. CASE i <= n
    BY <1>1, <1>2, <1>3, <2>1
  <2>2. CASE n < i
    <3>1. i - n \in 1 .. k /\ q + (i - n) = p + i /\ n + (i - n) = i
      BY <1>1, <1>2, <2>2
    <3>2. all[q + (i - n)] = t[i - n] /\ u[n + (i - n)] = t[i - n]
      BY ONLY <1>2, <1>3, <3>1, Zenon
    <3> QED BY <3>1, <3>2
  <2> QED BY <1>1, <1>2, <2>1, <2>2
<1>5. Lies(all, p, u, r)
  <2>1. r = p + (n + k)
    BY <1>1, <1>2
  <2> QED BY ONLY <1>1, <1>2, <1>3, <1>4, <2>1 DEF Lies
<1> QED BY <1>5 DEF Cat

(* A frame at whose beginning something lies that has come, and what       *)
(* parse_package makes of it.                                              *)
BeginsWith(rd, m) ==
  /\ rd \in Seq(Byte)
  /\ \A i \in 1 .. Len(rd) : i <= 12 + MsgLen(m) => rd[i] = Frame(m)[i]

LEMMA LengthRead ==
  ASSUME NEW m, IsMessage(m), NEW rd, BeginsWith(rd, m), Len(rd) > 4
  PROVE  Int4(SubSeq(rd, 1, 4)) = MsgLen(m)
<1> PICK b : b = SubSeq(rd, 1, 4)
  OBVIOUS
<1> PICK l : l = MsgLen(m)
  OBVIOUS
<1>1. l \in Nat /\ l \in Int32 /\ \A i \in 1 .. 4 : Frame(m)[i] = Bytes4(l)[i]
  BY BodyFacts, FrameFacts DEF FrameParts
<1> PICK n : n = Len(rd)
  OBVIOUS
<1>2. rd \in Seq(Byte) /\ n \in Nat /\ n > 4
  BY LenProperties DEF BeginsWith
<1>3. ASSUME NEW i \in 1 .. 4
      PROVE  b[i] = rd[i]
  <2>1. 1 \in Nat \ {0} /\ 4 \in Nat /\ 1 <= 4 + 1 /\ 4 <= Len(rd)
    BY <1>2
  <2>2. \A k \in 1 .. 4 + 1 - 1 : b[k] = rd[1 + k - 1]
    BY ONLY <1>2, <2>1, b = SubSeq(rd, 1, 4), BytesPart
  <2>3. i \in 1 .. 4 + 1 - 1 /\ 1 + i - 1 = i
    OBVIOUS
  <2>4. b[i] = rd[1 + i - 1]
    BY ONLY <2>2, <2>3, Zenon
  <2> QED BY <2>3, <2>4
<1>4. ASSUME NEW i \in 1 .. 4
      PROVE  rd[i] = Frame(m)[i]
  <2>1. i \in 1 .. Len(rd) /\ i <= 12 + MsgLen(m)
    BY <1>1, <1>2
  <2> QED BY <2>1 DEF BeginsWith
<1>5. \A i \in 1 .. 4 : b[i] = Bytes4(l)[i]
  BY <1>1, <1>3, <1>4
<1>6. Int4(b) = l
  BY ONLY <1>1, <1>5, Int4Is, SMT
<1> QED BY <1>6


(* The four bytes of v lie in s at the places c to d.                      *)
Int4Lies(s, v, c, d) ==
  /\ s \in Seq(Byte) /\ v \in Int32 /\ c \in Nat \ {0} /\ d = c + 3 /\ d <= Len(s)
  /\ \A i \in 1 .. 4 : s[c + i - 1] = Bytes4(v)[i]

LEMMA Int4At ==
  ASSUME NEW s, NEW v, NEW c, NEW d, Int4Lies(s, v, c, d)
  PROVE  Int4(SubSeq(s, c, d)) = v
<1> PICK b : b = SubSeq(s, c, d)
  OBVIOUS
<1>1. c \in Nat \ {0} /\ d \in Nat /\ d = c + 3 /\ c <= d + 1 /\ d <= Len(s)
  BY SMT DEF Int4Lies
<1>2. \A i \in 1 .. d + 1 - c : b[i] = s[c + i - 1]
  <2>1. s \in Seq(Byte)
    BY DEF Int4Lies
  <2> QED BY ONLY <1>1, <2>1, b = SubSeq(s, c, d), BytesPart, SMT
<1>3. ASSUME NEW i \in 1 .. 4
      PROVE  b[i] = Bytes4(v)[i]
  <2>1. i \in 1 .. d + 1 - c
    BY <1>1, SMT
  <2>2. b[i] = s[c + i - 1]
    BY ONLY <1>2, <2>1, Zenon
  <2>3. s[c + i - 1] = Bytes4(v)[i]
    BY Zenon DEF Int4Lies
  <2> QED BY ONLY <2>2, <2>3, Zenon
<1>4. v \in Int32
  BY DEF Int4Lies
<1>5. Int4(b) = v
  BY ONLY <1>3, <1>4, Int4Is, SMT
<1> QED BY ONLY <1>5, b = SubSeq(s, c, d)

WholeCame(m, rd, l, fr) ==
  /\ IsMessage(m) /\ BeginsWith(rd, m) /\ l = MsgLen(m) /\ Len(rd) >= l + 12
  /\ fr = SubSeq(rd, 1, l + 12)
NextIs(m, rd, l, fr) ==
  /\ IsMessage(m) /\ l = MsgLen(m)
  /\ Int4(SubSeq(fr, 5, 8)) = m.id /\ Int4(SubSeq(fr, 9, 12)) = m.uid
  /\ SubSeq(fr, 13, Len(fr)) = Body(m)

LEMMA WholeFrame ==
  ASSUME NEW m, NEW rd, NEW l, NEW fr, WholeCame(m, rd, l, fr)
  PROVE  NextIs(m, rd, l, fr)
<1>0. /\ IsMessage(m) /\ BeginsWith(rd, m) /\ l = MsgLen(m) /\ Len(rd) >= l + 12
      /\ fr = SubSeq(rd, 1, l + 12)
  BY DEF WholeCame
<1> PICK n : n = Len(rd)
  OBVIOUS
<1> PICK frame : frame = Frame(m)
  OBVIOUS
<1> PICK body : body = Body(m)
  OBVIOUS
<1>1. /\ body \in Seq(Byte) /\ Len(body) = l /\ l \in Nat /\ m.id \in Int32 /\ m.uid \in Int32
  BY <1>0, BodyFacts
<1>2. /\ \A i \in 1 .. 4 : frame[4 + i] = Bytes4(m.id)[i] /\ frame[8 + i] = Bytes4(m.uid)[i]
      /\ \A i \in 1 .. l : frame[12 + i] = body[i]
  BY <1>0, FrameFacts DEF FrameParts
<1>3. rd \in Seq(Byte) /\ n \in Nat /\ n >= l + 12
      /\ \A i \in 1 .. l + 12 : rd[i] = frame[i]
  <2>1. rd \in Seq(Byte) /\ n \in Nat /\ n >= l + 12
    BY <1>0, LenProperties DEF BeginsWith
  <2>2. ASSUME NEW i \in 1 .. l + 12
        PROVE  rd[i] = frame[i]
    <3>1. i \in 1 .. Len(rd) /\ i <= 12 + MsgLen(m)
      BY <1>0, <1>1, <2>1
    <3> QED BY <1>0, <3>1 DEF BeginsWith
  <2> QED BY <2>1, <2>2
<1>4. /\ fr \in Seq(Byte) /\ Len(fr) = l + 12 /\ \A i \in 1 .. l + 12 : fr[i] = frame[i]
  <2> PICK k : k = l + 12
    OBVIOUS
  <2>1. 1 \in Nat \ {0} /\ k \in Nat /\ 1 <= k + 1 /\ k <= Len(rd) /\ k + 1 - 1 = k
    BY <1>1, <1>3
  <2>2. /\ fr \in Seq(Byte) /\ Len(fr) = k + 1 - 1
        /\ \A i \in 1 .. k + 1 - 1 : fr[i] = rd[1 + i - 1]
    <3>1. fr = SubSeq(rd, 1, k)
      BY <1>0
    <3> QED BY ONLY <1>3, <2>1, <3>1, BytesPart
  <2>3. ASSUME NEW i \in 1 .. k
        PROVE  fr[i] = frame[i]
    <3>1. i \in 1 .. k + 1 - 1 /\ 1 + i - 1 = i
      BY <2>1
    <3>2. fr[i] = rd[1 + i - 1]
      BY ONLY <2>2, <3>1, Zenon
    <3>3. rd[i] = frame[i]
      BY <1>3
    <3> QED BY <3>1, <3>2, <3>3
  <2> QED BY ONLY <2>1, <2>2, <2>3, k = l + 12
<1>5. Int4(SubSeq(fr, 5, 8)) = m.id
  <2>1. 5 \in Nat \ {0} /\ 8 = 5 + 3 /\ 8 <= Len(fr)
    BY <1>1, <1>4
  <2>2. ASSUME NEW i \in 1 .. 4
        PROVE  fr[5 + i - 1] = Bytes4(m.id)[i]
    <3>1. 4 + i \in 1 .. l + 12 /\ 5 + i - 1 = 4 + i
      BY <1>1
    <3> QED BY <1>2, <1>4, <3>1
  <2>3. fr \in Seq(Byte) /\ m.id \in Int32
    BY <1>1, <1>4
  <2>4. Int4Lies(fr, m.id, 5, 8)
    BY ONLY <2>1, <2>2, <2>3 DEF Int4Lies
  <2> QED BY ONLY <2>4, Int4At
<1>6. Int4(SubSeq(fr, 9, 12)) = m.uid
  <2>1. 9 \in Nat \ {0} /\ 12 = 9 + 3 /\ 12 <= Len(fr)
    BY <1>1, <1>4
  <2>2. ASSUME NEW i \in 1 .. 4
        PROVE  fr[9 + i - 1] = Bytes4(m.uid)[i]
    <3>1. 8 + i \in 1 .. l + 12 /\ 9 + i - 1 = 8 + i
      BY <1>1
    <3> QED BY <1>2, <1>4, <3>1
  <2>3. fr \in Seq(Byte) /\ m.uid \in Int32
    BY <1>1, <1>4
  <2>4. Int4Lies(fr, m.uid, 9, 12)
    BY ONLY <2>1, <2>2, <2>3 DEF Int4Lies
  <2> QED BY ONLY <2>4, Int4At
<1>7. SubSeq(fr, 13, Len(fr)) = body
  <2>0. 13 \in Nat \ {0}
    BY SMT
  <2>1. HasAt(fr, 13, body) /\ 13 + Len(body) - 1 = Len(fr)
    <3>1. 13 + Len(body) - 1 = Len(fr)
      BY <1>1, <1>4
    <3>2. ASSUME NEW i \in 1 .. Len(body)
          PROVE  fr[13 + i - 1] = body[i]
      <4>1. i \in 1 .. l /\ 13 + i - 1 = 12 + i /\ 12 + i \in 1 .. l + 12
        BY <1>1
      <4>2. fr[12 + i] = frame[12 + i] /\ frame[12 + i] = body[i]
        BY ONLY <1>2, <1>4, <4>1, Zenon
      <4> QED BY <4>1, <4>2
    <3>3. 13 + Len(body) - 1 <= Len(fr)
      BY <1>1, <1>4
    <3> QED BY <3>1, <3>2, <3>3 DEF HasAt
  <2>2. SubSeq(fr, 13, 13 + Len(body) - 1) = body
    <3>1. fr \in Seq(Byte) /\ body \in Seq(Byte)
      BY <1>1, <1>4
    <3> QED BY ONLY <2>0, <2>1, <3>1, CutOut
  <2> QED BY <2>1, <2>2
<1> QED BY <1>0, <1>5, <1>6, <1>7 DEF NextIs

(* _parse_buff when a body has been copied into it.                        *)
FilledWith(buff, body) == copied(append_size(clean_data(buff), Len(body)), body)
IsLineBuffer(buff) == buff \in Seq(Byte) /\ \E k \in Nat : Len(buff) = LineSize[k]

LEMMA FilledIs ==
  ASSUME NEW buff, IsLineBuffer(buff), NEW body \in Seq(Byte), Len(body) # 0,
         NEW fill, fill = FilledWith(buff, body)
  PROVE  /\ IsLineBuffer(fill) /\ Len(body) <= Len(fill)
         /\ \A i \in 1 .. Len(body) : fill[i] = body[i]
         /\ \A i \in 1 .. Len(fill) : i > Len(body) => fill[i] = 0
<1> PICK l : l = Len(body)
  OBVIOUS
<1> PICK n : n = Len(buff)
  OBVIOUS
<1> PICK b0 : b0 = clean_data(buff)
  OBVIOUS
<1> PICK b1 : b1 = append_size(b0, l)
  OBVIOUS
<1>1. l \in Nat /\ l # 0 /\ n \in Nat /\ DOMAIN body = 1 .. l /\ body \in [1 .. l -> Byte]
  BY LenProperties DEF IsLineBuffer
<1>2. b0 = [i \in 1 .. n |-> 0]
  BY DEF clean_data, Zeros
<1>3. b0 \in Seq(Byte) /\ Len(b0) = n /\ \A i \in 1 .. n : b0[i] = 0
  <2>1. 0 \in Byte
    BY DEF Byte
  <2> QED BY ONLY <1>1, <1>2, <2>1
<1>4. PICK k \in Nat : Doubled(n, l) = LineSize[k] /\ n <= LineSize[k] /\ l <= LineSize[k]
  <2>1. PICK j \in Nat : n = LineSize[j]
    BY DEF IsLineBuffer
  <2> QED BY ONLY <1>1, <2>1, DoubledIs
<1> PICK w : w = LineSize[k]
  OBVIOUS
<1>5. w \in Nat /\ n <= w /\ l <= w /\ new_size(Len(b0), l) = w
  <2>1. w \in Nat
    BY <1>4, LineSizes
  <2> QED BY <1>1, <1>3, <1>4, <2>1 DEF new_size
<1> PICK z : z = Zeros(w - n)
  OBVIOUS
<1>6. z \in Seq(Byte) /\ Len(z) = w - n /\ \A i \in 1 .. w - n : z[i] = 0
  <2>1. w - n \in Nat
    BY <1>1, <1>5
  <2>2. 0 \in Byte
    BY DEF Byte
  <2>3. z = [i \in 1 .. w - n |-> 0]
    BY DEF Zeros
  <2> PICK d : d = w - n
    OBVIOUS
  <2>4. z \in Seq(Byte) /\ Len(z) = d /\ \A i \in 1 .. d : z[i] = 0
    BY ONLY <2>1, <2>2, <2>3, d = w - n
  <2> QED BY <2>4
<1>7. b1 = Cat(b0, z)
  BY <1>3, <1>5 DEF append_size, Cat
<1>8. b1 \in Seq(Byte) /\ Len(b1) = w /\ \A i \in 1 .. w : b1[i] = 0
  <2>1. /\ b1 \in Seq(Byte) /\ Len(b1) = Len(b0) + Len(z)
        /\ \A i \in 1 .. Len(b0) : b1[i] = b0[i]
        /\ \A i \in 1 .. Len(z) : b1[Len(b0) + i] = z[i]
    <3>1. b0 \in Seq(Byte) /\ z \in Seq(Byte)
      BY <1>3, <1>6
    <3> QED BY ONLY <1>7, <3>1, CatIs
  <2>2. Len(b1) = w
    BY <1>1, <1>3, <1>5, <1>6, <2>1
  <2>3. ASSUME NEW i \in 1 .. w
        PROVE  b1[i] = 0
    <3>1. CASE i <= n
      BY <1>3, <2>1, <3>1
    <3>2. CASE n < i
      <4>1. i - n \in 1 .. w - n /\ n + (i - n) = i
        BY <1>1, <1>5, <3>2
      <4>2. b1[n + (i - n)] = z[i - n] /\ z[i - n] = 0
        BY ONLY <1>3, <1>6, <2>1, <4>1
      <4> QED BY <4>1, <4>2
    <3> QED BY <1>1, <1>5, <3>1, <3>2
  <2> QED BY <2>1, <2>2, <2>3
<1>9. fill = [i \in 1 .. w |-> IF i \in 1 .. l THEN body[i] ELSE b1[i]]
  <2>1. DOMAIN b1 = 1 .. w
    BY <1>5, <1>8, LenProperties
  <2> QED BY <1>1, <2>1 DEF FilledWith, copied
<1>10. fill \in Seq(Byte) /\ Len(fill) = w
  <2>1. \A i \in 1 .. w : (IF i \in 1 .. l THEN body[i] ELSE b1[i]) \in Byte
    BY <1>1, <1>5, <1>8
  <2> QED BY ONLY <1>5, <1>9, <2>1
<1>11. \A i \in 1 .. l : fill[i] = body[i]
  BY ONLY <1>1, <1>5, <1>9
<1>12. \A i \in 1 .. w : i > l => fill[i] = 0
  BY ONLY <1>1, <1>5, <1>8, <1>9
<1>13. IsLineBuffer(fill)
  BY <1>4, <1>10 DEF IsLineBuffer
<1> QED BY <1>5, <1>10, <1>11, <1>12, <1>13

(* What data() of it is read as: the body up to its first zero, unless it  *)
(* has none and fills the buffer.                                          *)
LEMMA CStringIs ==
  ASSUME NEW buff, IsLineBuffer(buff), NEW body \in Seq(Byte), Len(body) # 0,
         NEW fill, fill = FilledWith(buff, body), NEW text \in CString(fill)
  PROVE  /\ text \in Seq(Byte)
         /\ \/ text = UpTo0(body)
            \/ FillsLine(Len(body)) /\ \A i \in 1 .. Len(body) : body[i] # 0
<1> PICK l : l = Len(body)
  OBVIOUS
<1> PICK n : n = Len(fill)
  OBVIOUS
<1>1. /\ IsLineBuffer(fill) /\ l <= n
      /\ \A i \in 1 .. l : fill[i] = body[i]
      /\ \A i \in 1 .. n : i > l => fill[i] = 0
  <2>1. IsLineBuffer(buff) /\ body \in Seq(Byte) /\ Len(body) # 0
    OBVIOUS
  <2>2. /\ IsLineBuffer(fill) /\ Len(body) <= Len(fill)
        /\ \A i \in 1 .. Len(body) : fill[i] = body[i]
        /\ \A i \in 1 .. Len(fill) : i > Len(body) => fill[i] = 0
    BY ONLY <2>1, fill = FilledWith(buff, body), FilledIs
  <2> QED BY <2>2
<1>2. /\ fill \in Seq(Byte) /\ n \in Nat /\ l \in Nat /\ DOMAIN fill = 1 .. n
      /\ body \in Seq(Byte) /\ l # 0
  BY <1>1, LenProperties DEF IsLineBuffer
<1>3. CASE \E i \in DOMAIN fill : fill[i] = 0
  <2>1. text = UpTo0(fill)
    BY <1>3 DEF CString
  <2> PICK t0 : t0 = UpTo0(body)
    OBVIOUS
  <2> PICK k : k = Len(t0)
    OBVIOUS
  <2>2. /\ t0 \in Seq(Byte) /\ k \in 0 .. l
        /\ \A i \in 1 .. k : t0[i] = body[i] /\ body[i] # 0
        /\ k = l \/ body[k + 1] = 0
    BY ONLY <1>2, t0 = UpTo0(body), k = Len(t0), l = Len(body), UpTo0Facts
  <2>3. /\ text \in Seq(Byte) /\ Len(text) \in 0 .. n
        /\ \A i \in 1 .. Len(text) : text[i] = fill[i]
        /\ \A j \in 0 .. n :
              (j = n \/ fill[j + 1] = 0) /\ (\A i \in 1 .. j : fill[i] # 0)
                => text = SubSeq(fill, 1, j) /\ j = Len(text)
    <3>1. fill \in Seq(Byte)
      BY <1>2
    <3>2. /\ text \in Seq(Byte) /\ Len(text) \in 0 .. n
          /\ \A i \in 1 .. Len(text) : text[i] = fill[i]
      BY ONLY <2>1, <3>1, n = Len(fill), UpTo0Facts
    <3>3. \A j \in 0 .. n :
             (j = n \/ fill[j + 1] = 0) /\ (\A i \in 1 .. j : fill[i] # 0)
               => text = SubSeq(fill, 1, j) /\ j = Len(text)
      BY ONLY <2>1, <3>1, n = Len(fill), UpTo0Facts
    <3> QED BY ONLY <3>2, <3>3
  <2>4. k \in 0 .. n /\ (k = n \/ fill[k + 1] = 0) /\ \A i \in 1 .. k : fill[i] # 0
    <3>1. k \in 0 .. n /\ \A i \in 1 .. k : i \in 1 .. l
      BY <1>1, <1>2, <2>2
    <3>2. \A i \in 1 .. k : fill[i] # 0
      BY ONLY <1>1, <2>2, <3>1
    <3>3. CASE k = l /\ k # n
      <4>1. k + 1 \in 1 .. n /\ k + 1 > l
        BY <1>1, <1>2, <3>3
      <4>2. fill[k + 1] = 0
        BY ONLY <1>1, <4>1, Zenon
      <4> QED BY <3>1, <3>2, <4>2
    <3>4. CASE k # l
      <4>1. k + 1 \in 1 .. l /\ body[k + 1] = 0
        BY <1>2, <2>2, <3>4
      <4>2. fill[k + 1] = body[k + 1]
        BY ONLY <1>1, <4>1, Zenon
      <4> QED BY <3>1, <3>2, <4>1, <4>2
    <3> QED BY <3>1, <3>2, <3>3, <3>4
  <2>5. k = Len(text)
    BY ONLY <2>3, <2>4, Zenon
  <2>6. \A i \in 1 .. k : text[i] = t0[i]
    <3>1. \A i \in 1 .. k : i \in 1 .. l
      BY <1>1, <1>2, <2>2
    <3> QED BY ONLY <1>1, <2>2, <2>3, <2>5, <3>1
  <2>7. text = t0
    <3>1. t0 \in Seq(Byte) /\ text \in Seq(Byte) /\ Len(text) = k /\ Len(t0) = k
      BY <2>2, <2>3, <2>5
    <3> QED BY ONLY <2>6, <3>1, SeqEqual
  <2> QED BY <2>3, <2>7
<1>4. CASE ~\E i \in DOMAIN fill : fill[i] = 0
  <2>1. PICK j \in Junk : text = fill \o j
    BY <1>4 DEF CString
  <2>2. text \in Seq(Byte)
    <3>1. j \in Seq(Byte)
      BY FramingAssumption
    <3>2. text = Cat(fill, j)
      BY <2>1 DEF Cat
    <3> QED BY ONLY <1>2, <3>1, <3>2, CatIs
  <2>3. n = l
    <3> SUFFICES ASSUME l < n
                 PROVE  FALSE
      BY <1>1, <1>2
    <3>1. n \in 1 .. n /\ n > l
      BY <1>2
    <3>2. fill[n] = 0
      BY ONLY <1>1, <3>1, Zenon
    <3> QED BY <1>2, <1>4, <3>1, <3>2
  <2>4. FillsLine(l)
    <3>1. PICK k \in Nat : n = LineSize[k]
      BY <1>1 DEF IsLineBuffer
    <3>2. k < LineSize[k]
      BY LineSizes
    <3>3. k \in 0 .. l
      BY <1>2, <2>3, <3>1, <3>2
    <3> QED BY <2>3, <3>1, <3>3 DEF FillsLine
  <2>5. \A i \in 1 .. l : body[i] # 0
    BY <1>1, <1>2, <1>4, <2>3
  <2> QED BY <2>2, <2>4, <2>5
<1> QED BY <1>3, <1>4

(* What is read from it is what may arrive of the message.                 *)
LEMMA ArrivesIs ==
  ASSUME NEW m, IsMessage(m), Known(m.id), MsgLen(m) # 0, NEW buff, IsLineBuffer(buff),
         NEW text \in CString(FilledWith(buff, Body(m))),
         NEW g, g = [id |-> m.id, uid |-> m.uid, fields |-> Merge(m.id, text)]
  PROVE  text \in Seq(Byte) /\ Arrives(m, g)
<1> PICK body : body = Body(m)
  OBVIOUS
<1> PICK class : class = _msg_id_names[m.id]
  OBVIOUS
<1> PICK fill : fill = FilledWith(buff, body)
  OBVIOUS
<1>1. /\ body \in Seq(Byte) /\ Len(body) = MsgLen(m)
      /\ body = Serialize(m.id, m.fields) /\ IsFields(m.id, m.fields)
  BY BodyFacts DEF Body, IsMessage
<1>2. /\ text \in Seq(Byte)
      /\ \/ text = UpTo0(body)
         \/ FillsLine(Len(body)) /\ \A i \in 1 .. Len(body) : body[i] # 0
  <2>1. text \in CString(fill) /\ IsLineBuffer(buff) /\ Len(body) # 0
    BY <1>1
  <2> QED BY ONLY <1>1, <2>1, fill = FilledWith(buff, body), CStringIs
<1>3. g.id = m.id /\ g.uid = m.uid /\ g.fields = Merge(m.id, text)
  OBVIOUS
<1>4. CASE text = UpTo0(body)
  <2> PICK id : id = m.id
    OBVIOUS
  <2> PICK fields : fields = m.fields
    OBVIOUS
  <2>1. Known(id) /\ IsFields(id, fields) /\ class = _msg_id_names[id] /\ body = Serialize(id, fields)
    BY <1>1
  <2>2. Merge(id, UpTo0(body)) = KeptFrom(1, class, fields)
    BY ONLY <2>1, MergeOfBody
  <2>3. DOMAIN m.fields \subseteq Nat \ {0}
    BY <1>1, Classes DEF IsFields
  <2>4. Left(m) = KeptFrom(1, class, m.fields)
    BY ONLY <2>3, class = _msg_id_names[m.id], KeptAll
  <2>5. g.fields = Left(m)
    BY <1>3, <1>4, <2>2, <2>4
  <2> QED BY <1>2, <1>3, <2>5 DEF Arrives
<1>5. CASE FillsLine(Len(body)) /\ \A i \in 1 .. Len(body) : body[i] # 0
  <2> PICK id : id = m.id
    OBVIOUS
  <2> PICK fields : fields = m.fields
    OBVIOUS
  <2>1. Known(id) /\ IsFields(id, fields) /\ class = _msg_id_names[id] /\ body = Serialize(id, fields)
    BY <1>1
  <2>2. \A f \in DOMAIN fields : ZeroFree(class[f], fields[f])
    BY ONLY <1>5, <2>1, ZeroFreeBody
  <2>3. m.fields = [f \in DOMAIN m.fields |-> m.fields[f]]
    BY <1>1 DEF IsFields
  <2>4. Left(m) = m.fields
    BY ONLY <2>2, <2>3, fields = m.fields, class = _msg_id_names[m.id], LeftWhole
  <2> QED BY <1>1, <1>2, <1>3, <1>5, <2>4 DEF Arrives
<1> QED BY <1>2, <1>4, <1>5

-----------------------------------------------------------------------------
(* Of the parts of a sequence k have been taken; rd, held and rest are     *)
(* what is behind them.                                                    *)
BehindAt(seqs, k, rd, held, rest, all, off, p, q) ==
  /\ all \in Seq(Byte) /\ PartsAt(seqs, all, off) /\ k \in 0 .. Len(seqs)
  /\ Lies(all, off[k], rd, p) /\ Lies(all, p, held, q) /\ Lies(all, q, rest, Len(all))
Behind(seqs, k, rd, held, rest) ==
  \E all, off, p, q : BehindAt(seqs, k, rd, held, rest, all, off, p, q)

LEMMA BehindNone ==
  ASSUME NEW seqs \in Seq(Seq(Byte)), NEW all, all = FlattenSeq(seqs)
  PROVE  Behind(seqs, 0, <<>>, <<>>, all)
<1>1. all \in Seq(Byte) /\ \E off : PartsAt(seqs, all, off)
  BY ONLY seqs \in Seq(Seq(Byte)), all = FlattenSeq(seqs), FlattenParts
<1> PICK off : PartsAt(seqs, all, off)
  BY <1>1
<1>2. 0 \in 0 .. Len(seqs) /\ off[0] = 0 /\ Len(all) \in Nat
  BY <1>1, LenProperties DEF PartsAt
<1>3. Lies(all, 0, <<>>, 0)
  <2>1. all \in Seq(Byte) /\ 0 \in Nat /\ 0 <= Len(all)
    BY <1>1, <1>2
  <2> QED BY ONLY <2>1, LiesEmpty
<1>4. Lies(all, 0, all, Len(all))
  BY <1>1, <1>2 DEF Lies
<1>5. BehindAt(seqs, 0, <<>>, <<>>, all, all, off, 0, 0)
  BY <1>1, <1>2, <1>3, <1>4 DEF BehindAt
<1> QED BY ONLY <1>5 DEF Behind

LEMMA BehindTypes ==
  ASSUME NEW seqs, NEW k, NEW rd, NEW held, NEW rest, Behind(seqs, k, rd, held, rest)
  PROVE  /\ k \in 0 .. Len(seqs)
         /\ rd \in Seq(Byte) /\ held \in Seq(Byte) /\ rest \in Seq(Byte)
BY DEF Behind, BehindAt, Lies

(* A piece of the rest comes.                                              *)
LEMMA BehindRead ==
  ASSUME NEW seqs, NEW k, NEW rd, NEW held, NEW rest, Behind(seqs, k, rd, held, rest),
         NEW n \in 0 .. Len(rest)
  PROVE  Behind(seqs, k, rd, held \o SubSeq(rest, 1, n), SubSeq(rest, n + 1, Len(rest)))
<1> PICK all, off, p, q : BehindAt(seqs, k, rd, held, rest, all, off, p, q)
  BY DEF Behind
<1> PICK s : s = SubSeq(rest, 1, n)
  OBVIOUS
<1> PICK t : t = SubSeq(rest, n + 1, Len(rest))
  OBVIOUS
<1> PICK r : r = q + n
  OBVIOUS
<1> PICK e : e = Len(all)
  OBVIOUS
<1>1. Lies(all, p, held, q) /\ Lies(all, q, rest, e)
  BY DEF BehindAt
<1>2. Lies(all, q, s, r) /\ Lies(all, r, t, e)
  <2>1. n \in 0 .. Len(rest)
    OBVIOUS
  <2>2. Lies(all, q, SubSeq(rest, 1, n), q + n) /\ Lies(all, q + n, SubSeq(rest, n + 1, Len(rest)), e)
    BY ONLY <1>1, <2>1, LiesSplit
  <2> QED BY ONLY <2>2, s = SubSeq(rest, 1, n), t = SubSeq(rest, n + 1, Len(rest)), r = q + n
<1>3. Lies(all, p, held \o s, r)
  BY ONLY <1>1, <1>2, LiesJoin
<1> PICK u : u = held \o s
  OBVIOUS
<1>4. BehindAt(seqs, k, rd, u, t, all, off, p, r)
  BY <1>2, <1>3 DEF BehindAt
<1>5. Behind(seqs, k, rd, u, t)
  BY ONLY <1>4 DEF Behind
<1> QED BY <1>5

(* What is held is added to what has come.                                 *)
LEMMA BehindAdd ==
  ASSUME NEW seqs, NEW k, NEW rd, NEW held, NEW rest, Behind(seqs, k, rd, held, rest)
  PROVE  Behind(seqs, k, rd \o held, <<>>, rest)
<1> PICK all, off, p, q : BehindAt(seqs, k, rd, held, rest, all, off, p, q)
  BY DEF Behind
<1> PICK b : b = off[k]
  OBVIOUS
<1> PICK u : u = rd \o held
  OBVIOUS
<1>1. Lies(all, b, rd, p) /\ Lies(all, p, held, q) /\ Lies(all, q, rest, Len(all)) /\ all \in Seq(Byte)
  BY DEF BehindAt
<1>2. Lies(all, b, u, q)
  BY ONLY <1>1, LiesJoin, u = rd \o held
<1>3. Lies(all, q, <<>>, q)
  <2>1. all \in Seq(Byte) /\ q \in Nat /\ q <= Len(all)
    BY <1>1, LenProperties DEF Lies
  <2> QED BY ONLY <2>1, LiesEmpty
<1>4. BehindAt(seqs, k, u, <<>>, rest, all, off, q, q)
  BY <1>1, <1>2, <1>3 DEF BehindAt
<1>5. Behind(seqs, k, u, <<>>, rest)
  BY ONLY <1>4 DEF Behind
<1> QED BY <1>5

(* What has come begins like the next part.                                *)
LEMMA BehindBegins ==
  ASSUME NEW seqs \in Seq(Seq(Byte)), NEW k, NEW rd, NEW held, NEW rest,
         Behind(seqs, k, rd, held, rest), Len(rd) # 0
  PROVE  /\ k + 1 \in 1 .. Len(seqs)
         /\ \A i \in 1 .. Len(rd) : i <= Len(seqs[k + 1]) => rd[i] = seqs[k + 1][i]
<1> PICK all, off, p, q : BehindAt(seqs, k, rd, held, rest, all, off, p, q)
  BY DEF Behind
<1> PICK b : b = off[k]
  OBVIOUS
<1> PICK n : n = Len(rd)
  OBVIOUS
<1> PICK j : j = k + 1
  OBVIOUS
<1>1. /\ Len(seqs) \in Nat /\ k \in 0 .. Len(seqs) /\ b \in Nat /\ Len(all) \in Nat
      /\ PartsAt(seqs, all, off) /\ n \in Nat /\ n # 0
  BY LenProperties DEF BehindAt, Lies, PartsAt
<1>2. /\ p = b + n /\ p <= Len(all) /\ \A i \in 1 .. n : all[b + i] = rd[i]
  BY DEF BehindAt, Lies
<1>3. j \in 1 .. Len(seqs)
  <2>1. k # Len(seqs)
    BY <1>1, <1>2 DEF PartsAt
  <2> QED BY <1>1, <2>1
<1>4. ASSUME NEW i \in 1 .. n, i <= Len(seqs[j])
      PROVE  rd[i] = seqs[j][i]
  <2>1. Len(seqs[j]) \in Nat /\ j - 1 = k
    BY <1>1, <1>3, LenProperties
  <2>2. i \in 1 .. Len(seqs[j])
    BY <1>1, <1>4, <2>1
  <2>3. all[off[j - 1] + i] = seqs[j][i]
    BY ONLY <1>1, <1>3, <2>2 DEF PartsAt
  <2>4. all[b + i] = rd[i]
    BY ONLY <1>2, <1>4, Zenon
  <2> QED BY <2>1, <2>3, <2>4
<1> QED BY <1>3, <1>4

(* The next part is taken, when all of it has come.                        *)
LEMMA BehindTake ==
  ASSUME NEW seqs \in Seq(Seq(Byte)), NEW k, NEW rd, NEW held, NEW rest,
         Behind(seqs, k, rd, held, rest), Len(rd) # 0,
         NEW n, n = Len(seqs[k + 1]), n <= Len(rd)
  PROVE  Behind(seqs, k + 1, SubSeq(rd, n + 1, Len(rd)), held, rest)
<1> PICK all, off, p, q : BehindAt(seqs, k, rd, held, rest, all, off, p, q)
  BY DEF Behind
<1> PICK b : b = off[k]
  OBVIOUS
<1> PICK e : e = Len(rd)
  OBVIOUS
<1> PICK j : j = k + 1
  OBVIOUS
<1>1. j \in 1 .. Len(seqs)
  BY BehindBegins
<1>2. n \in Nat /\ e \in Nat /\ b \in Nat /\ k \in 0 .. Len(seqs) /\ Len(seqs) \in Nat
  <2>1. rd \in Seq(Byte) /\ b \in Nat /\ k \in 0 .. Len(seqs)
    BY DEF BehindAt, Lies
  <2>2. seqs[j] \in Seq(Byte) /\ Len(seqs) \in Nat
    BY <1>1, LenProperties
  <2> QED BY <2>1, <2>2, LenProperties
<1>3. off[j] = b + n
  <2>1. j - 1 = k
    BY <1>2
  <2>2. off[j] = off[j - 1] + Len(seqs[j])
    BY <1>1 DEF BehindAt, PartsAt
  <2> QED BY <2>1, <2>2
<1> PICK t : t = SubSeq(rd, n + 1, e)
  OBVIOUS
<1>4. Lies(all, off[j], t, p)
  <2>1. Lies(all, b, rd, p)
    BY DEF BehindAt
  <2>2. n \in 0 .. Len(rd)
    BY <1>2
  <2>3. Lies(all, b + n, SubSeq(rd, n + 1, Len(rd)), p)
    BY ONLY <2>1, <2>2, LiesSplit
  <2> QED BY <1>3, <2>3
<1>5. j \in 0 .. Len(seqs)
  BY <1>1, <1>2
<1>6. BehindAt(seqs, j, t, held, rest, all, off, p, q)
  BY <1>4, <1>5 DEF BehindAt
<1>7. Behind(seqs, j, t, held, rest)
  BY ONLY <1>6 DEF Behind
<1> QED BY <1>7

-----------------------------------------------------------------------------
(* A sequence of messages a peer writes, and its frames.                   *)
IsSeq(s) == s \in Seq(Range(s))
Written(s) == IsSeq(s) /\ \A m \in Range(s) : IsMessage(m)
Frames(s) == [i \in DOMAIN s |-> Frame(s[i])]

LEMMA FramesAre ==
  ASSUME NEW s, Written(s)
  PROVE  /\ Frames(s) \in Seq(Seq(Byte)) /\ Len(Frames(s)) = Len(s) /\ Len(s) \in Nat
         /\ DOMAIN s = 1 .. Len(s)
         /\ \A i \in 1 .. Len(s) : /\ IsMessage(s[i]) /\ Frames(s)[i] = Frame(s[i])
                                   /\ Len(Frames(s)[i]) = 12 + MsgLen(s[i])
<1> PICK n : n = Len(s)
  OBVIOUS
<1>1. n \in Nat /\ DOMAIN s = 1 .. n
  BY LenProperties DEF Written, IsSeq
<1>2. \A i \in 1 .. n : IsMessage(s[i])
  BY <1>1 DEF Written, Range
<1>3. \A i \in 1 .. n : Frame(s[i]) \in Seq(Byte) /\ Len(Frame(s[i])) = 12 + MsgLen(s[i])
  BY <1>2, FrameFacts DEF FrameParts
<1> PICK fr : fr = [i \in 1 .. n |-> Frame(s[i])]
  OBVIOUS
<1>4. fr = Frames(s)
  BY <1>1 DEF Frames
<1>5. fr \in Seq(Seq(Byte)) /\ Len(fr) = n /\ \A i \in 1 .. n : fr[i] = Frame(s[i])
  BY ONLY <1>1, <1>3, fr = [i \in 1 .. n |-> Frame(s[i])]
<1> QED BY <1>1, <1>2, <1>3, <1>4, <1>5

LEMMA NextFrame ==
  ASSUME NEW s, Written(s), NEW k, NEW rd, NEW held, NEW rest,
         Behind(Frames(s), k, rd, held, rest), Len(rd) > 4,
         NEW l, l = Int4(SubSeq(rd, 1, 4)), Len(rd) >= l + 12, NEW fr, fr = SubSeq(rd, 1, l + 12)
  PROVE  /\ k \in Nat /\ k < Len(s) /\ NextIs(s[k + 1], rd, l, fr)
         /\ Behind(Frames(s), k + 1, SubSeq(rd, l + 13, Len(rd)), held, rest)
<1> PICK seqs : seqs = Frames(s)
  OBVIOUS
<1> PICK j : j = k + 1
  OBVIOUS
<1> PICK m : m = s[j]
  OBVIOUS
<1>1. seqs \in Seq(Seq(Byte)) /\ Len(seqs) = Len(s) /\ Len(s) \in Nat
  BY FramesAre
<1>2. rd \in Seq(Byte) /\ Len(rd) \in Nat /\ k \in 0 .. Len(s) /\ Behind(seqs, k, rd, held, rest)
  BY <1>1, BehindTypes, LenProperties
<1>3. Len(rd) # 0
  BY <1>2
<1>4. /\ j \in 1 .. Len(seqs)
      /\ \A i \in 1 .. Len(rd) : i <= Len(seqs[j]) => rd[i] = seqs[j][i]
  <2>1. Behind(seqs, k, rd, held, rest)
    BY <1>2
  <2>2. /\ k + 1 \in 1 .. Len(seqs)
        /\ \A i \in 1 .. Len(rd) : i <= Len(seqs[k + 1]) => rd[i] = seqs[k + 1][i]
    BY ONLY <1>1, <1>3, <2>1, BehindBegins
  <2> QED BY <2>2
<1>5. IsMessage(m) /\ seqs[j] = Frame(m) /\ Len(seqs[j]) = 12 + MsgLen(m)
  BY <1>1, <1>4, FramesAre
<1>6. BeginsWith(rd, m)
  BY <1>2, <1>4, <1>5 DEF BeginsWith
<1>7. l = MsgLen(m) /\ l \in Nat
  <2>1. Len(rd) > 4
    OBVIOUS
  <2>2. Int4(SubSeq(rd, 1, 4)) = MsgLen(m)
    BY ONLY <1>5, <1>6, <2>1, LengthRead
  <2> QED BY <1>5, <2>2, BodyFacts
<1>8. NextIs(m, rd, l, fr)
  <2>1. l = MsgLen(m) /\ Len(rd) >= l + 12
    BY <1>7
  <2>2. WholeCame(m, rd, l, fr)
    BY ONLY <1>5, <1>6, <2>1, fr = SubSeq(rd, 1, l + 12) DEF WholeCame
  <2> QED BY ONLY <2>2, WholeFrame
<1>9. Behind(seqs, j, SubSeq(rd, l + 13, Len(rd)), held, rest)
  <2> PICK n : n = l + 12
    OBVIOUS
  <2>1. n = Len(seqs[k + 1]) /\ n <= Len(rd) /\ n + 1 = l + 13
    BY <1>5, <1>7
  <2>2. Behind(seqs, k, rd, held, rest)
    BY <1>2
  <2>3. Behind(seqs, k + 1, SubSeq(rd, n + 1, Len(rd)), held, rest)
    BY ONLY <1>1, <1>3, <2>1, <2>2, BehindTake
  <2> QED BY <2>1, <2>3
<1>10. k \in Nat /\ k < Len(s)
  BY <1>1, <1>2, <1>4
<1> QED BY <1>8, <1>9, <1>10

LEMMA AppendIsSeq ==
  ASSUME NEW s, IsSeq(s), NEW g, NEW t, t = Append(s, g)
  PROVE  IsSeq(t) /\ g \in Range(t)
<1> PICK n : n = Len(s)
  OBVIOUS
<1> PICK X : X = Range(s) \cup {g}
  OBVIOUS
<1>1. s \in Seq(X) /\ g \in X /\ n \in Nat /\ DOMAIN s = 1 .. n
  BY LenProperties DEF IsSeq
<1>2. t \in Seq(X) /\ Len(t) = n + 1 /\ t[n + 1] = g /\ DOMAIN t = 1 .. n + 1
      /\ \A i \in 1 .. n : t[i] = s[i]
  BY <1>1, AppendProperties, LenProperties
<1>3. g \in Range(t)
  BY <1>1, <1>2 DEF Range
<1>4. X \subseteq Range(t)
  <2>1. \A i \in 1 .. n : i \in DOMAIN t
    BY <1>1, <1>2
  <2> QED BY <1>1, <1>2, <1>3, <2>1 DEF Range
<1>5. t \in Seq(Range(t))
  BY <1>2, <1>4
<1> QED BY <1>3, <1>5 DEF IsSeq

-----------------------------------------------------------------------------
(* The invariant: the bytes of a connection's frames from the next one on  *)
(* are those that have come, those the LineBuffer holds while it is read,  *)
(* and those on their way, in this order; and read leaves a LineBuffer it  *)
(* can read into.                                                          *)
Held(c) == IF c = cur THEN line ELSE <<>>
Aligned(c) == Behind(Frames(sent[c]), taken[c], rd_buff[c], Held(c), net[c])
HasRoom(bytes, size) == bytes \in Seq(Byte) /\ size \in Nat /\ Len(bytes) < size
TypeInv ==
  /\ \A c \in Conns : Written(sent[c])
  /\ net \in [Conns -> Seq(Byte)] /\ rd_buff \in [Conns -> Seq(Byte)]
  /\ cur \in Conns /\ taken \in [Conns -> Nat]
  /\ got = [c \in Conns |-> got[c]] /\ \A c \in Conns : IsSeq(got[c])
IInv ==
  /\ TypeInv /\ HasRoom(line, line_size) /\ IsLineBuffer(parse_buff)
  /\ line # <<>> => pc = "read"
  /\ \A c \in Conns : Aligned(c)

LEMMA InitInv == Init => IInv
<1> SUFFICES ASSUME Init
             PROVE  IInv
  OBVIOUS
<1>1. \A c \in Conns : Written(sent[c])
  BY PeersAssumption DEF Init, Written, IsSeq
<1>2. \A c \in Conns : Frames(sent[c]) \in Seq(Seq(Byte)) /\ net[c] = FlattenSeq(Frames(sent[c]))
  BY <1>1, FramesAre DEF Init, Frames
<1>3. \A c \in Conns : Behind(Frames(sent[c]), 0, <<>>, <<>>, net[c])
  BY ONLY <1>2, BehindNone
<1>4. \A c \in Conns : Aligned(c)
  BY <1>3 DEF Init, Aligned, Held
<1>5. \A c \in Conns : net[c] \in Seq(Byte)
  BY <1>3, BehindTypes
<1>6. net \in [Conns -> Seq(Byte)] /\ rd_buff \in [Conns -> Seq(Byte)]
  BY <1>5 DEF Init
<1>7. HasRoom(line, line_size)
  BY FramingAssumption DEF Init, HasRoom
<1>8. IsLineBuffer(parse_buff)
  <2> PICK n : n = DEF_LINE_BUFF_SIZE
    OBVIOUS
  <2>1. n \in Nat /\ 0 \in Byte /\ LineSize[0] = n
    BY FramingAssumption, LineSizeIs DEF Byte
  <2>2. parse_buff = [i \in 1 .. n |-> 0]
    BY DEF Init, Zeros
  <2>3. parse_buff \in Seq(Byte) /\ Len(parse_buff) = n
    BY ONLY <2>1, <2>2
  <2> QED BY <2>1, <2>3 DEF IsLineBuffer
<1>9. got = [c \in Conns |-> got[c]] /\ \A c \in Conns : IsSeq(got[c])
  BY DEF Init, IsSeq
<1>10. TypeInv
  BY <1>1, <1>6, <1>9 DEF Init, TypeInv
<1> QED BY <1>4, <1>7, <1>8, <1>10 DEF Init, IInv

(* A read leaves room, and read asks for something that fits.              *)
LEMMA ReadFits ==
  ASSUME HasRoom(line, line_size)
  PROVE  read_size \in Nat /\ read_size > 0 /\ Len(line) + read_size <= line_size
<1>1. Len(line) \in Nat /\ line_size \in Nat /\ Len(line) < line_size
  BY LenProperties DEF HasRoom
<1>2. READ_SIZE \in Nat /\ READ_SIZE # 0
  BY FramingAssumption
<1> QED BY <1>1, <1>2 DEF read_size

LEMMA NewSizeLarger ==
  ASSUME NEW n \in Nat, n # 0
  PROVE  new_size(n, 0) \in Nat /\ n < new_size(n, 0)
<1>1. LINE_STEP \in Nat \ {0} /\ LINE_LIMIT \in Nat
  BY FramingAssumption
<1> QED BY <1>1 DEF new_size

LEMMA ReadSomeInv ==
  ASSUME IInv, NEW k, ReadSome(k)
  PROVE  IInv'
<1> PICK s : s = SubSeq(net[cur], 1, k)
  OBVIOUS
<1>1. /\ net[cur] \in Seq(Byte) /\ k \in 1 .. Len(net[cur]) /\ k \in 0 .. Len(net[cur])
      /\ k \in 1 .. read_size /\ cur \in Conns
  BY LenProperties DEF IInv, TypeInv, ReadSome
<1>2. \A c \in Conns : Aligned(c)'
  <2>1. ASSUME NEW c \in Conns, c # cur
        PROVE  Aligned(c)'
    <3>1. /\ net'[c] = net[c] /\ cur' = cur /\ sent' = sent /\ taken' = taken
          /\ rd_buff' = rd_buff
      BY <1>1, <2>1 DEF IInv, TypeInv, ReadSome, parseVars
    <3> QED BY <2>1, <3>1 DEF IInv, Aligned, Held
  <2>2. Behind(Frames(sent[cur]), taken[cur], rd_buff[cur], line \o s,
               SubSeq(net[cur], k + 1, Len(net[cur])))
    <3>1. Behind(Frames(sent[cur]), taken[cur], rd_buff[cur], line, net[cur])
      BY <1>1 DEF IInv, Aligned, Held
    <3> QED BY ONLY <1>1, <3>1, s = SubSeq(net[cur], 1, k), BehindRead
  <2>3. /\ net'[cur] = SubSeq(net[cur], k + 1, Len(net[cur])) /\ line' = line \o s
        /\ cur' = cur /\ sent' = sent /\ taken' = taken /\ rd_buff' = rd_buff
    BY <1>1 DEF IInv, TypeInv, ReadSome, parseVars
  <2>4. Aligned(cur)'
    BY <2>2, <2>3 DEF Aligned, Held
  <2> QED BY <2>1, <2>3, <2>4 DEF Aligned, Held
<1>3. HasRoom(line', line_size')
  <2>1. Len(line) \in Nat /\ line \in Seq(Byte) /\ line_size \in Nat /\ line_size # 0
    BY LenProperties DEF IInv, HasRoom
  <2>2. s \in Seq(Byte) /\ Len(s) = k
    <3>1. 1 \in Nat \ {0} /\ k \in Nat /\ 1 <= k + 1 /\ k <= Len(net[cur]) /\ k + 1 - 1 = k
      BY <1>1, LenProperties
    <3> QED BY ONLY <1>1, <3>1, s = SubSeq(net[cur], 1, k), BytesPart
  <2>3. line' \in Seq(Byte) /\ Len(line') = Len(line) + k
    <3>1. line' = Cat(line, s)
      BY DEF ReadSome, Cat
    <3>2. line \in Seq(Byte)
      BY <2>1
    <3>3. Cat(line, s) \in Seq(Byte) /\ Len(Cat(line, s)) = Len(line) + Len(s)
      BY ONLY <2>2, <3>2, CatIs
    <3> QED BY <2>2, <3>1, <3>3
  <2>4. Len(line) + k <= line_size
    <3>1. read_size \in Nat /\ Len(line) + read_size <= line_size
      BY ReadFits DEF IInv
    <3> QED BY <1>1, <2>1, <3>1
  <2>5. line_size' = IF Len(line') = line_size THEN new_size(line_size, 0) ELSE line_size
    BY DEF ReadSome
  <2>6. new_size(line_size, 0) \in Nat /\ line_size < new_size(line_size, 0)
    BY ONLY <2>1, NewSizeLarger
  <2> QED BY <1>1, <2>1, <2>3, <2>4, <2>5, <2>6 DEF HasRoom
<1>4. net' \in [Conns -> Seq(Byte)]
  <2>1. SubSeq(net[cur], k + 1, Len(net[cur])) \in Seq(Byte)
    <3>1. k + 1 \in Nat \ {0} /\ Len(net[cur]) \in Nat /\ k + 1 <= Len(net[cur]) + 1
      BY <1>1, LenProperties
    <3> PICK a : a = k + 1
      OBVIOUS
    <3> PICK n : n = Len(net[cur])
      OBVIOUS
    <3>2. a \in Nat \ {0} /\ n \in Nat /\ a <= n + 1 /\ n <= Len(net[cur])
      BY <3>1
    <3>3. SubSeq(net[cur], a, n) \in Seq(Byte)
      BY ONLY <1>1, <3>2, BytesPart
    <3> QED BY <3>3
  <2> QED BY <1>1, <2>1 DEF IInv, TypeInv, ReadSome
<1>5. TypeInv'
  BY <1>4 DEF IInv, TypeInv, ReadSome, parseVars
<1> QED BY <1>2, <1>3, <1>5 DEF IInv, ReadSome, parseVars, IsLineBuffer

LEMMA AddReadInv ==
  ASSUME IInv, pc = "read", AddRead, UNCHANGED <<sent, ended, parseVars, cur>>
  PROVE  IInv'
<1>1. /\ cur \in Conns /\ rd_buff' = [rd_buff EXCEPT ![cur] = @ \o line] /\ line' = <<>>
      /\ rd_buff \in [Conns -> Seq(Byte)]
      /\ net' = net /\ line_size' = line_size /\ sent' = sent /\ taken' = taken /\ got' = got
      /\ cur' = cur /\ parse_buff' = parse_buff
  BY DEF IInv, TypeInv, AddRead, parseVars
<1>2. \A c \in Conns : Aligned(c)'
  <2>1. ASSUME NEW c \in Conns, c # cur
        PROVE  Aligned(c)'
    <3>1. rd_buff'[c] = rd_buff[c]
      BY <1>1, <2>1
    <3> QED BY <1>1, <2>1, <3>1 DEF IInv, Aligned, Held
  <2>2. Behind(Frames(sent[cur]), taken[cur], rd_buff[cur] \o line, <<>>, net[cur])
    <3>1. Behind(Frames(sent[cur]), taken[cur], rd_buff[cur], line, net[cur])
      BY <1>1 DEF IInv, Aligned, Held
    <3> QED BY ONLY <3>1, BehindAdd
  <2>3. rd_buff'[cur] = rd_buff[cur] \o line
    BY <1>1
  <2>4. Aligned(cur)'
    BY <1>1, <2>2, <2>3 DEF Aligned, Held
  <2> QED BY <1>1, <2>1, <2>4 DEF Aligned, Held
<1>3. rd_buff' \in [Conns -> Seq(Byte)]
  <2>1. \A c \in Conns : rd_buff'[c] \in Seq(Byte)
    BY <1>2, BehindTypes DEF Aligned
  <2>2. rd_buff' = [c \in Conns |-> rd_buff'[c]]
    BY <1>1
  <2> QED BY <2>1, <2>2
<1>4. HasRoom(line', line_size')
  <2>1. line_size \in Nat /\ Len(line) \in Nat /\ Len(line) < line_size
    BY LenProperties DEF IInv, HasRoom
  <2> QED BY <1>1, <2>1 DEF HasRoom
<1>5. TypeInv'
  BY <1>1, <1>3 DEF IInv, TypeInv
<1> QED BY <1>1, <1>2, <1>4, <1>5 DEF IInv, IsLineBuffer

(* Where pc moves between reading and parsing, and nothing else changes.   *)
LEMMA TurnInv ==
  ASSUME IInv, line = <<>>, cur' \in Conns,
         UNCHANGED <<sent, ended, rd_buff, readVars, parseVars>>
  PROVE  IInv'
<1>1. \A c \in Conns : Aligned(c)'
  BY DEF IInv, Aligned, Held, readVars, parseVars
<1>2. TypeInv'
  BY DEF IInv, TypeInv, readVars, parseVars
<1> QED BY <1>1, <1>2 DEF IInv, HasRoom, IsLineBuffer, readVars, parseVars

(* parse_package's turn: what it looks at is the next message, and the     *)
(* bytes stay in their order behind it.                                    *)
TakesNext(s, k, l, fr) ==
  /\ k \in Nat /\ k < Len(s) /\ IsMessage(s[k + 1]) /\ l = MsgLen(s[k + 1])
  /\ Int4(SubSeq(fr, 5, 8)) = s[k + 1].id /\ Int4(SubSeq(fr, 9, 12)) = s[k + 1].uid
  /\ SubSeq(fr, 13, Len(fr)) = Body(s[k + 1])

LEMMA ParseTakes ==
  ASSUME IInv, pc = "parse", Whole
  PROVE  /\ TakesNext(sent[cur], taken[cur], pkg_len,
                      SubSeq(rd_buff[cur], 1, pkg_len + 12))
         /\ Behind(Frames(sent[cur]), taken[cur] + 1,
                   SubSeq(rd_buff[cur], pkg_len + 13, Len(rd_buff[cur])), <<>>, net[cur])
<1> PICK s : s = sent[cur]
  OBVIOUS
<1> PICK k : k = taken[cur]
  OBVIOUS
<1> PICK rd : rd = rd_buff[cur]
  OBVIOUS
<1> PICK rest : rest = net[cur]
  OBVIOUS
<1> PICK held : held = <<>>
  OBVIOUS
<1> PICK l : l = pkg_len
  OBVIOUS
<1> PICK fr : fr = SubSeq(rd, 1, l + 12)
  OBVIOUS
<1>1. Written(s) /\ Behind(Frames(s), k, rd, held, rest)
  BY DEF IInv, TypeInv, Aligned, Held
<1>2. Len(rd) > 4 /\ Len(rd) >= l + 12
  BY DEF Whole
<1>3. l = Int4(SubSeq(rd, 1, 4))
  BY DEF pkg_len
<1>4. Written(s)
  BY <1>1
<1>5. Behind(Frames(s), k, rd, held, rest)
  BY <1>1
<1>6. Len(rd) > 4
  BY <1>2
<1>7. Len(rd) >= l + 12
  BY <1>2
<1>8. /\ k \in Nat /\ k < Len(s) /\ NextIs(s[k + 1], rd, l, fr)
      /\ Behind(Frames(s), k + 1, SubSeq(rd, l + 13, Len(rd)), held, rest)
  BY ONLY <1>3, <1>4, <1>5, <1>6, <1>7, fr = SubSeq(rd, 1, l + 12), NextFrame
<1>9. TakesNext(s, k, l, fr)
  BY <1>8 DEF TakesNext, NextIs
<1> QED BY <1>8, <1>9

(* What it returns of m.                                                   *)
Returns(m, text) == [id |-> m.id, uid |-> m.uid, fields |-> Merge(m.id, text)]
Parsed(m) ==
  /\ IsMessage(m) /\ WellFormed(m)
  /\ parse_buff' = FilledWith(parse_buff, Body(m))
  /\ IF Known(m.id)
       THEN \E text \in CString(FilledWith(parse_buff, Body(m))) :
              got' = [got EXCEPT ![cur] = Append(got[cur], Returns(m, text))]
       ELSE got' = got

LEMMA ParseOneIs ==
  ASSUME IInv, ParseOne
  PROVE  /\ taken[cur] \in Nat /\ taken[cur] < Len(sent[cur])
         /\ taken' = [taken EXCEPT ![cur] = taken[cur] + 1]
         /\ rd_buff' = [rd_buff EXCEPT ![cur] =
                          SubSeq(rd_buff[cur], pkg_len + 13, Len(rd_buff[cur]))]
         /\ Behind(Frames(sent[cur]), taken[cur] + 1,
                   SubSeq(rd_buff[cur], pkg_len + 13, Len(rd_buff[cur])), <<>>, net[cur])
         /\ Parsed(sent[cur][taken[cur] + 1])
<1> PICK l : l = pkg_len
  OBVIOUS
<1> PICK fr : fr = SubSeq(rd_buff[cur], 1, l + 12)
  OBVIOUS
<1> PICK m : m = sent[cur][taken[cur] + 1]
  OBVIOUS
<1> PICK id : id = Int4(SubSeq(fr, 5, 8))
  OBVIOUS
<1>1. pc = "parse" /\ Whole
  BY DEF ParseOne
<1>2. /\ TakesNext(sent[cur], taken[cur], l, fr)
      /\ Behind(Frames(sent[cur]), taken[cur] + 1,
                SubSeq(rd_buff[cur], l + 13, Len(rd_buff[cur])), <<>>, net[cur])
  BY <1>1, ParseTakes
<1>3. /\ taken[cur] \in Nat /\ taken[cur] < Len(sent[cur]) /\ IsMessage(m)
      /\ l = MsgLen(m) /\ id = m.id /\ Int4(SubSeq(fr, 9, 12)) = m.uid
      /\ SubSeq(fr, 13, Len(fr)) = Body(m)
  BY <1>2 DEF TakesNext
<1>4. /\ rd_buff' = [rd_buff EXCEPT ![cur] = SubSeq(@, l + 13, Len(@))]
      /\ taken' = [taken EXCEPT ![cur] = @ + 1]
      /\ parse_buff' = Filled(SubSeq(fr, 13, Len(fr)))
      /\ IF Known(id)
           THEN \E text \in CString(parse_buff') :
                  got' = [got EXCEPT ![cur] = Append(@,
                            [id |-> id, uid |-> Int4(SubSeq(fr, 9, 12)),
                             fields |-> Merge(id, text)])]
           ELSE got' = got
  BY DEF ParseOne
<1>5. WellFormed(m)
  BY <1>1, <1>3 DEF Whole, WellFormed
<1>6. parse_buff' = FilledWith(parse_buff, Body(m))
  BY <1>3, <1>4 DEF Filled, FilledWith
<1>7. CASE Known(id)
  <2>1. PICK text \in CString(parse_buff') :
           got' = [got EXCEPT ![cur] = Append(@,
                     [id |-> id, uid |-> Int4(SubSeq(fr, 9, 12)), fields |-> Merge(id, text)])]
    BY ONLY <1>4, <1>7
  <2>2. got' = [got EXCEPT ![cur] = Append(got[cur], Returns(m, text))]
    BY <1>3, <2>1 DEF Returns
  <2>3. text \in CString(FilledWith(parse_buff, Body(m)))
    BY ONLY <1>6, <2>1
  <2>4. Known(m.id)
    BY <1>3, <1>7
  <2>5. Parsed(m)
    BY ONLY <1>3, <1>5, <1>6, <2>2, <2>3, <2>4 DEF Parsed
  <2> QED BY <1>2, <1>3, <1>4, <2>5
<1>8. CASE ~Known(id)
  <2>1. got' = got /\ ~Known(m.id)
    BY ONLY <1>3, <1>4, <1>8
  <2>2. Parsed(m)
    BY ONLY <1>3, <1>5, <1>6, <2>1 DEF Parsed
  <2> QED BY <1>2, <1>3, <1>4, <2>2
<1> QED BY <1>7, <1>8

(* The message that has arrived, and parse_buff as it leaves it.           *)
LEMMA ParsedArrives ==
  ASSUME IInv, NEW m, Parsed(m)
  PROVE  /\ IsLineBuffer(parse_buff')
         /\ got' = [c \in Conns |-> got'[c]] /\ \A c \in Conns : IsSeq(got'[c])
         /\ Known(m.id) => \E g \in Range(got'[cur]) :
              Arrives(m, g) /\ got' = [got EXCEPT ![cur] = Append(@, g)]
<1>1. /\ IsMessage(m) /\ MsgLen(m) \in Nat /\ MsgLen(m) > 1
      /\ Body(m) \in Seq(Byte) /\ Len(Body(m)) = MsgLen(m)
      /\ IsLineBuffer(parse_buff)
  BY BodyFacts DEF Parsed, WellFormed, IInv
<1>2. IsLineBuffer(parse_buff')
  <2> PICK body : body = Body(m)
    OBVIOUS
  <2> PICK fill : fill = FilledWith(parse_buff, body)
    OBVIOUS
  <2>1. IsLineBuffer(parse_buff) /\ body \in Seq(Byte) /\ Len(body) # 0
    BY <1>1
  <2>2. IsLineBuffer(fill)
    BY ONLY <2>1, fill = FilledWith(parse_buff, body), FilledIs
  <2> QED BY <2>2 DEF Parsed
<1>3. cur \in Conns /\ got = [c \in Conns |-> got[c]] /\ \A c \in Conns : IsSeq(got[c])
  BY DEF IInv, TypeInv
<1>4. CASE Known(m.id)
  <2>1. PICK text \in CString(FilledWith(parse_buff, Body(m))) :
           got' = [got EXCEPT ![cur] = Append(got[cur], Returns(m, text))]
    BY <1>4 DEF Parsed
  <2> PICK g : g = Returns(m, text)
    OBVIOUS
  <2> PICK b : b = parse_buff
    OBVIOUS
  <2>2. Arrives(m, g)
    <3>1. IsMessage(m)
      BY <1>1
    <3>2. MsgLen(m) # 0
      BY <1>1
    <3>3. IsLineBuffer(b)
      BY <1>1
    <3>4. text \in CString(FilledWith(b, Body(m)))
      BY <2>1
    <3>5. g = [id |-> m.id, uid |-> m.uid, fields |-> Merge(m.id, text)]
      BY DEF Returns
    <3> QED BY ONLY <1>4, <3>1, <3>2, <3>3, <3>4, <3>5, ArrivesIs
  <2> PICK t : t = Append(got[cur], g)
    OBVIOUS
  <2>3. IsSeq(t) /\ g \in Range(t)
    <3>1. IsSeq(got[cur])
      BY <1>3
    <3> QED BY ONLY <3>1, t = Append(got[cur], g), AppendIsSeq
  <2>4. got' = [got EXCEPT ![cur] = t] /\ got'[cur] = t
    BY <1>3, <2>1
  <2>5. got' = [c \in Conns |-> got'[c]] /\ \A c \in Conns : IsSeq(got'[c])
    BY ONLY <1>3, <2>3, <2>4
  <2>6. g \in Range(got'[cur]) /\ got' = [got EXCEPT ![cur] = Append(@, g)]
    BY <2>3, <2>4
  <2> QED BY ONLY <1>2, <2>2, <2>5, <2>6
<1>5. CASE ~Known(m.id)
  BY <1>2, <1>3, <1>5 DEF Parsed
<1> QED BY <1>4, <1>5

LEMMA ParseOneInv ==
  ASSUME IInv, ParseOne
  PROVE  IInv'
<1> PICK m : m = sent[cur][taken[cur] + 1]
  OBVIOUS
<1> PICK t : t = SubSeq(rd_buff[cur], pkg_len + 13, Len(rd_buff[cur]))
  OBVIOUS
<1>1. /\ taken[cur] \in Nat /\ taken' = [taken EXCEPT ![cur] = taken[cur] + 1]
      /\ rd_buff' = [rd_buff EXCEPT ![cur] = t]
      /\ Behind(Frames(sent[cur]), taken[cur] + 1, t, <<>>, net[cur])
      /\ Parsed(m)
  BY ParseOneIs
<1>2. /\ sent' = sent /\ net' = net /\ line' = line /\ line_size' = line_size /\ cur' = cur
      /\ pc = "parse"
  BY DEF ParseOne, readVars
<1>3. /\ IsLineBuffer(parse_buff')
      /\ got' = [c \in Conns |-> got'[c]] /\ \A c \in Conns : IsSeq(got'[c])
  BY <1>1, ParsedArrives
<1>4. line = <<>> /\ cur \in Conns /\ taken \in [Conns -> Nat] /\ rd_buff \in [Conns -> Seq(Byte)]
  BY <1>2 DEF IInv, TypeInv
<1>5. \A c \in Conns : Aligned(c)'
  <2>1. ASSUME NEW c \in Conns, c # cur
        PROVE  Aligned(c)'
    <3>1. rd_buff'[c] = rd_buff[c] /\ taken'[c] = taken[c]
      BY <1>1, <1>4, <2>1
    <3> QED BY <1>2, <2>1, <3>1 DEF IInv, Aligned, Held
  <2>2. rd_buff'[cur] = t /\ taken'[cur] = taken[cur] + 1
    BY <1>1, <1>4
  <2>3. Aligned(cur)'
    BY <1>1, <1>2, <1>4, <2>2 DEF Aligned, Held
  <2> QED BY <1>2, <2>1, <2>3 DEF Aligned, Held
<1>6. TypeInv'
  <2>1. t \in Seq(Byte)
    BY <1>1, BehindTypes
  <2> QED BY <1>1, <1>2, <1>3, <1>4, <2>1 DEF IInv, TypeInv
<1>7. HasRoom(line', line_size')
  BY <1>2 DEF IInv
<1> QED BY <1>2, <1>3, <1>4, <1>5, <1>6, <1>7 DEF IInv, IsLineBuffer

LEMMA NextInv == IInv /\ [Next]_vars => IInv'
<1> SUFFICES ASSUME IInv, [Next]_vars
             PROVE  IInv'
  OBVIOUS
<1>1. pc # "read" => line = <<>>
  BY DEF IInv
<1>2. ASSUME NEW c \in Conns, ReadBegins(c)
      PROVE  IInv'
  BY <1>1, <1>2, TurnInv DEF ReadBegins
<1>3. ASSUME NEW c \in Conns, ParseAgain(c)
      PROVE  IInv'
  BY <1>1, <1>3, TurnInv DEF ParseAgain
<1>4. ASSUME NEW k \in 1 .. READ_SIZE, ReadSome(k)
      PROVE  IInv'
  BY <1>4, ReadSomeInv
<1>5. CASE ReadPauses
  BY <1>5, AddReadInv DEF ReadPauses
<1>6. CASE ReadEnds
  BY <1>6, AddReadInv DEF ReadEnds
<1>7. CASE ParseStops
  BY <1>1, <1>7, TurnInv DEF ParseStops, IInv, TypeInv
<1>8. CASE ParseOne
  BY <1>8, ParseOneInv
<1>9. CASE UNCHANGED vars
  BY <1>9 DEF IInv, TypeInv, HasRoom, IsLineBuffer, Aligned, Held, vars, readVars, parseVars
<1> QED BY <1>2, <1>3, <1>4, <1>5, <1>6, <1>7, <1>8, <1>9 DEF Next, Thread, Idle

LEMMA SpecInv == Spec => []IInv
BY InitInv, NextInv, PTL DEF Spec

(* SocketOp::read asks for something each time, and for no more than the   *)
(* LineBuffer has room for, whatever the sizes and however the bytes come. *)
THEOREM ReadHasRoom == Spec => []RoomToRead
<1>1. IInv => RoomToRead
  BY ReadFits DEF IInv, RoomToRead
<1> QED BY <1>1, SpecInv, PTL

(* Each connection's frames are taken out of it as they were written:      *)
(* what has come, what the LineBuffer holds and what is on its way are     *)
(* always the bytes of those not taken yet, from the beginning of one on.  *)
THEOREM StaysAligned == Spec => [](\A c \in Conns : Aligned(c))
<1>1. IInv => \A c \in Conns : Aligned(c)
  BY DEF IInv
<1> QED BY <1>1, SpecInv, PTL

(* What parse_package returns is what MessageChannel promises.             *)
LEMMA ParseOneTakes ==
  ASSUME IInv, ParseOne
  PROVE  Channel!Take(cur)
<1> PICK m : m = sent[cur][taken[cur] + 1]
  OBVIOUS
<1>1. /\ taken[cur] < Len(sent[cur]) /\ Parsed(m)
      /\ taken' = [taken EXCEPT ![cur] = @ + 1]
  BY ParseOneIs
<1>2. sent' = sent
  BY DEF ParseOne
<1>3. WellFormed(m)
  BY <1>1 DEF Parsed
<1>4. IF KnownMsg(m)
        THEN \E g \in Range(got'[cur]) :
               Arrives(m, g) /\ got' = [got EXCEPT ![cur] = Append(@, g)]
        ELSE UNCHANGED got
  BY <1>1, ParsedArrives DEF Parsed, KnownMsg
<1>5. \A f : Channel!Range(f) = Range(f)
  BY DEF Channel!Range, Range
<1> QED BY <1>1, <1>2, <1>3, <1>4, <1>5 DEF Channel!Take

LEMMA NextTakes == IInv /\ [Next]_vars => [Channel!Next]_Channel!vars
<1> SUFFICES ASSUME IInv, [Next]_vars
             PROVE  Channel!Next \/ UNCHANGED <<sent, taken, got>>
  BY DEF Channel!vars
<1>1. CASE ParseOne
  <2>1. cur \in Conns /\ Channel!Take(cur)
    BY <1>1, ParseOneTakes DEF IInv, TypeInv
  <2> QED BY <2>1 DEF Channel!Next
<1>2. CASE ~ParseOne
  BY <1>2 DEF Next, Thread, Idle, ReadBegins, ParseAgain, ReadSome, ReadPauses, ReadEnds,
              ParseStops, vars, parseVars
<1> QED BY <1>1, <1>2

(* However the bytes are split, whichever connections take turns, whatever *)
(* the LineBuffers were used for before: the messages of each connection   *)
(* come out of it once, in order, and with their fields, as far as no zero *)
(* byte cuts them.                                                         *)
THEOREM FramingImplementsChannel == Spec => ImplementsChannel
<1>1. Init => Channel!Init
  BY DEF Init, Channel!Init
<1> QED BY <1>1, NextTakes, SpecInv, PTL DEF Spec, ImplementsChannel, Channel!Spec

(* Whatever the fields of a message are, of each class: it is written as   *)
(* long as ByteSize says and reads back as it was; and whatever bytes come,*)
(* cut short or senseless, nothing but values is read from them.           *)
THEOREM MessagesReadBack == Codec
BY SerializedReadsBack, MergeIsTyped DEF Codec, Known

=============================================================================
