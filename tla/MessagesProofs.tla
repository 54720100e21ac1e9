----------------------------- MODULE MessagesProofs -----------------------------
(***************************************************************************)
(* Theorems about Messages, for any objects, strings and numbers.          *)
(***************************************************************************)
EXTENDS Messages, TLAPS, FiniteSetTheorems, WellFoundedInduction

-----------------------------------------------------------------------------
(* The classes.  What is said of the state's class is said of any.         *)
NamesOf(c) == DOMAIN _numbers[c]
NumberIn(c, f) == _numbers[c][f]
TypeIn(c, f) == _msg_id_names[c][NumberIn(c, f)]
StringIn(c, f) == TypeIn(c, f) = STRING_
BitIn(c, f) == _bits[c][f]
BlankIn(c, f) == IF StringIn(c, f) THEN <<>> ELSE _ctor[c][f]

(* One class, told by the places of its members.                           *)
Described(members, types, bits, ctor, merge) ==
  /\ Len(members) \in 1 .. 3 /\ DOMAIN members = 1 .. Len(members)
  /\ DOMAIN types = DOMAIN members
  /\ \A i, j \in DOMAIN members : members[i] = members[j] => i = j
  /\ \A i \in DOMAIN members :
       /\ members[i] # "hand" /\ bits[members[i]] = i - 1
       /\ types[i] \in {BOOL, INT32, STRING_}
       /\ types[i] = STRING_ => ctor[members[i]] = kEmptyString
       /\ types[i] # STRING_ => IsValue(types[i], ctor[members[i]])
       /\ types[i] = INT32 => ctor[members[i]] = 0
  /\ ctor = [f \in DOMAIN ctor |-> ctor[f]]
  /\ DOMAIN ctor = {members[i] : i \in DOMAIN members}
  /\ merge.of = members
  /\ merge.required = {i - 1 : i \in DOMAIN members}
  /\ \E i, j \in DOMAIN members : \A k \in DOMAIN members :
       types[k] = STRING_ => k = i \/ k = j

LEMMA TypesDiffer ==
  BOOL # INT32 /\ BOOL # STRING_ /\ INT32 # STRING_
BY DEF BOOL, INT32, STRING_

LEMMA NoIsValue == IsValue(BOOL, FALSE)
BY TypesDiffer DEF IsValue

LEMMA ZeroIsValue == IsValue(INT32, 0)
BY TypesDiffer, SMT DEF IsValue, Int32

LEMMA ClassesAre ==
  ASSUME NEW c, Known(c)
  PROVE  Described(_members[c], _msg_id_names[c], _bits[c], _ctor[c], _merge[c])
<1>1. c \in 1 .. 11
  BY DEF Known, _msg_id_names
<1>2. CASE c = 1
  <2>1. /\ _members[c] = <<"name", "passwd">> /\ _msg_id_names[c] = <<STRING_, STRING_>>
        /\ _bits[c] = [name |-> 0, passwd |-> 1]
        /\ _ctor[c] = [name |-> kEmptyString, passwd |-> kEmptyString]
        /\ _merge[c] = [of |-> <<"name", "passwd">>, required |-> {0, 1}]
    BY <1>2 DEF _members, _msg_id_names, _bits, _ctor, _merge, LoginReq,
       LoginReq_members, LoginReq_bits, LoginReq_ctor, LoginReq_merge
  <2> QED BY <2>1, TypesDiffer, ZeroIsValue, SMT DEF Described
<1>3. CASE c = 2
  <2>1. /\ _members[c] = <<"name", "passwd">> /\ _msg_id_names[c] = <<STRING_, STRING_>>
        /\ _bits[c] = [name |-> 0, passwd |-> 1]
        /\ _ctor[c] = [name |-> kEmptyString, passwd |-> kEmptyString]
        /\ _merge[c] = [of |-> <<"name", "passwd">>, required |-> {0, 1}]
    BY <1>3 DEF _members, _msg_id_names, _bits, _ctor, _merge, RegisterReq,
       RegisterReq_members, RegisterReq_bits, RegisterReq_ctor, RegisterReq_merge
  <2> QED BY <2>1, TypesDiffer, ZeroIsValue, SMT DEF Described
<1>4. CASE c = 3
  <2>1. /\ _members[c] = <<"macaddr">> /\ _msg_id_names[c] = <<STRING_>>
        /\ _bits[c] = [macaddr |-> 0]
        /\ _ctor[c] = [macaddr |-> kEmptyString]
        /\ _merge[c] = [of |-> <<"macaddr">>, required |-> {0}]
    BY <1>4 DEF _members, _msg_id_names, _bits, _ctor, _merge, VerifyReq,
       VerifyReq_members, VerifyReq_bits, VerifyReq_ctor, VerifyReq_merge
  <2> QED BY <2>1, TypesDiffer, ZeroIsValue, SMT DEF Described
<1>5. CASE c = 4
  <2> PICK no : no = FALSE
    OBVIOUS
  <2>0. IsValue(BOOL, no)
    BY NoIsValue
  <2>1. /\ _members[c] = <<"isok", "userid">> /\ _msg_id_names[c] = <<BOOL, INT32>>
        /\ _bits[c] = [isok |-> 0, userid |-> 1]
        /\ _ctor[c] = [isok |-> no, userid |-> 0]
        /\ _merge[c] = [of |-> <<"isok", "userid">>, required |-> {0, 1}]
    BY <1>5 DEF _members, _msg_id_names, _bits, _ctor, _merge, LoginRsp,
       LoginRsp_members, LoginRsp_bits, LoginRsp_ctor, LoginRsp_merge
  <2> QED BY ONLY <2>0, <2>1, TypesDiffer, ZeroIsValue, SMT DEF Described
<1>6. CASE c = 5
  <2> PICK no : no = FALSE
    OBVIOUS
  <2>0. IsValue(BOOL, no)
    BY NoIsValue
  <2>1. /\ _members[c] = <<"isok", "name", "accid">> /\ _msg_id_names[c] = <<BOOL, STRING_, INT32>>
        /\ _bits[c] = [isok |-> 0, name |-> 1, accid |-> 2]
        /\ _ctor[c] = [isok |-> no, name |-> kEmptyString, accid |-> 0]
        /\ _merge[c] = [of |-> <<"isok", "name", "accid">>, required |-> {0, 1, 2}]
    BY <1>6 DEF _members, _msg_id_names, _bits, _ctor, _merge, RegisterRsp,
       RegisterRsp_members, RegisterRsp_bits, RegisterRsp_ctor, RegisterRsp_merge
  <2> QED BY ONLY <2>0, <2>1, TypesDiffer, ZeroIsValue, SMT DEF Described
<1>7. CASE c = 6
  <2> PICK no : no = FALSE
    OBVIOUS
  <2>0. IsValue(BOOL, no)
    BY NoIsValue
  <2>1. /\ _members[c] = <<"isok">> /\ _msg_id_names[c] = <<BOOL>>
        /\ _bits[c] = [isok |-> 0]
        /\ _ctor[c] = [isok |-> no]
        /\ _merge[c] = [of |-> <<"isok">>, required |-> {0}]
    BY <1>7 DEF _members, _msg_id_names, _bits, _ctor, _merge, VerifyRsp,
       VerifyRsp_members, VerifyRsp_bits, VerifyRsp_ctor, VerifyRsp_merge
  <2> QED BY ONLY <2>0, <2>1, TypesDiffer, ZeroIsValue, SMT DEF Described
<1>8. CASE c = 7
  <2>1. /\ _members[c] = <<"uid">> /\ _msg_id_names[c] = <<INT32>>
        /\ _bits[c] = [uid |-> 0]
        /\ _ctor[c] = [uid |-> 0]
        /\ _merge[c] = [of |-> <<"uid">>, required |-> {0}]
    BY <1>8 DEF _members, _msg_id_names, _bits, _ctor, _merge, UserOnlineReq,
       UserOnlineReq_members, UserOnlineReq_bits, UserOnlineReq_ctor, UserOnlineReq_merge
  <2> QED BY <2>1, TypesDiffer, ZeroIsValue, SMT DEF Described
<1>9. CASE c = 8
  <2>1. /\ _members[c] = <<"uid">> /\ _msg_id_names[c] = <<INT32>>
        /\ _bits[c] = [uid |-> 0]
        /\ _ctor[c] = [uid |-> 0]
        /\ _merge[c] = [of |-> <<"uid">>, required |-> {0}]
    BY <1>9 DEF _members, _msg_id_names, _bits, _ctor, _merge, UserOfflineReq,
       UserOfflineReq_members, UserOfflineReq_bits, UserOfflineReq_ctor, UserOfflineReq_merge
  <2> QED BY <2>1, TypesDiffer, ZeroIsValue, SMT DEF Described
<1>10. CASE c = 9
  <2>1. /\ _members[c] = <<"uid", "sth">> /\ _msg_id_names[c] = <<INT32, STRING_>>
        /\ _bits[c] = [uid |-> 0, sth |-> 1]
        /\ _ctor[c] = [uid |-> 0, sth |-> kEmptyString]
        /\ _merge[c] = [of |-> <<"uid", "sth">>, required |-> {0, 1}]
    BY <1>10 DEF _members, _msg_id_names, _bits, _ctor, _merge, DoSthReq,
       DoSthReq_members, DoSthReq_bits, DoSthReq_ctor, DoSthReq_merge
  <2> QED BY <2>1, TypesDiffer, ZeroIsValue, SMT DEF Described
<1>11. CASE c = 10
  <2>1. /\ _members[c] = <<"uid">> /\ _msg_id_names[c] = <<INT32>>
        /\ _bits[c] = [uid |-> 0]
        /\ _ctor[c] = [uid |-> 0]
        /\ _merge[c] = [of |-> <<"uid">>, required |-> {0}]
    BY <1>11 DEF _members, _msg_id_names, _bits, _ctor, _merge, KickUserOutReq,
       KickUserOutReq_members, KickUserOutReq_bits, KickUserOutReq_ctor, KickUserOutReq_merge
  <2> QED BY <2>1, TypesDiffer, ZeroIsValue, SMT DEF Described
<1>12. CASE c = 11
  <2>1. /\ _members[c] = <<"rspid", "ret">> /\ _msg_id_names[c] = <<INT32, STRING_>>
        /\ _bits[c] = [rspid |-> 0, ret |-> 1]
        /\ _ctor[c] = [rspid |-> 0, ret |-> kEmptyString]
        /\ _merge[c] = [of |-> <<"rspid", "ret">>, required |-> {0, 1}]
    BY <1>12 DEF _members, _msg_id_names, _bits, _ctor, _merge, DoSthRsp,
       DoSthRsp_members, DoSthRsp_bits, DoSthRsp_ctor, DoSthRsp_merge
  <2> QED BY <2>1, TypesDiffer, ZeroIsValue, SMT DEF Described
<1> QED BY <1>1, <1>2, <1>3, <1>4, <1>5, <1>6, <1>7, <1>8, <1>9, <1>10, <1>11, <1>12

LEMMA AntiFunctionIs ==
  ASSUME NEW s, \A i, j \in DOMAIN s : s[i] = s[j] => i = j
  PROVE  /\ DOMAIN AntiFunction(s) = {s[i] : i \in DOMAIN s}
         /\ \A i \in DOMAIN s : AntiFunction(s)[s[i]] = i
<1>1. Range(s) = {s[i] : i \in DOMAIN s}
  BY DEF Range
<1>2. AntiFunction(s) = [t \in Range(s) |-> CHOOSE i \in DOMAIN s : t \in Range(s) => s[i] = t]
  BY DEF AntiFunction, Inverse
<1>3. ASSUME NEW i \in DOMAIN s
      PROVE  AntiFunction(s)[s[i]] = i
  <2>1. s[i] \in Range(s)
    BY <1>1
  <2>2. AntiFunction(s)[s[i]] = CHOOSE j \in DOMAIN s : s[i] \in Range(s) => s[j] = s[i]
    BY <1>2, <2>1
  <2>3. \E j \in DOMAIN s : s[i] \in Range(s) => s[j] = s[i]
    OBVIOUS
  <2>4. AntiFunction(s)[s[i]] \in DOMAIN s /\ s[AntiFunction(s)[s[i]]] = s[i]
    BY <2>1, <2>2, <2>3
  <2> QED BY <2>4
<1> QED BY <1>1, <1>2, <1>3

(* The same, told by the names.                                            *)
Types == {BOOL, INT32, STRING_}

LEMMA PlacesAre ==
  ASSUME NEW c, Known(c)
  PROVE  /\ Len(_members[c]) \in 1 .. 3 /\ DOMAIN _members[c] = 1 .. Len(_members[c])
         /\ NamesOf(c) = {_members[c][i] : i \in DOMAIN _members[c]}
         /\ \A i \in DOMAIN _members[c] :
              _members[c][i] \in NamesOf(c) /\ NumberIn(c, _members[c][i]) = i
         /\ \A f \in NamesOf(c) :
              NumberIn(c, f) \in DOMAIN _members[c] /\ _members[c][NumberIn(c, f)] = f
         /\ _merge[c].of = _members[c]
         /\ DOMAIN _msg_id_names[c] = DOMAIN _members[c]
<1> PICK s : s = _members[c]
  OBVIOUS
<1>1. /\ Len(s) \in 1 .. 3 /\ DOMAIN s = 1 .. Len(s)
      /\ \A i, j \in DOMAIN s : s[i] = s[j] => i = j
      /\ _merge[c].of = s /\ DOMAIN _msg_id_names[c] = DOMAIN s
  BY ClassesAre DEF Described
<1>2. c \in DOMAIN _members
  BY DEF Known, _members, _msg_id_names
<1>3. _numbers[c] = AntiFunction(s)
  BY <1>2 DEF _numbers
<1>4. /\ DOMAIN AntiFunction(s) = {s[i] : i \in DOMAIN s}
      /\ \A i \in DOMAIN s : AntiFunction(s)[s[i]] = i
  BY <1>1, AntiFunctionIs
<1>5. NamesOf(c) = {s[i] : i \in DOMAIN s} /\ \A i \in DOMAIN s : NumberIn(c, s[i]) = i
  BY <1>3, <1>4 DEF NamesOf, NumberIn
<1>6. \A f \in NamesOf(c) : NumberIn(c, f) \in DOMAIN s /\ s[NumberIn(c, f)] = f
  BY <1>5
<1> QED BY <1>1, <1>5, <1>6

LEMMA NamesAre ==
  ASSUME NEW c, Known(c)
  PROVE  /\ \A f \in NamesOf(c) :
              /\ f # "hand" /\ TypeIn(c, f) \in Types
              /\ BitIn(c, f) = NumberIn(c, f) - 1
              /\ StringIn(c, f) => _ctor[c][f] = kEmptyString
              /\ ~StringIn(c, f) => IsValue(TypeIn(c, f), _ctor[c][f])
              /\ TypeIn(c, f) = INT32 => _ctor[c][f] = 0
         /\ \A f, g \in NamesOf(c) : BitIn(c, f) = BitIn(c, g) => f = g
         /\ _ctor[c] = [f \in NamesOf(c) |-> _ctor[c][f]]
         /\ _merge[c].required = {BitIn(c, f) : f \in NamesOf(c)}
         /\ \E s, t \in NamesOf(c) : \A f \in NamesOf(c) : StringIn(c, f) => f = s \/ f = t
<1> PICK s : s = _members[c]
  OBVIOUS
<1>1. /\ DOMAIN s = 1 .. Len(s) /\ Len(s) \in 1 .. 3
      /\ NamesOf(c) = {s[i] : i \in DOMAIN s}
      /\ \A i \in DOMAIN s : s[i] \in NamesOf(c) /\ NumberIn(c, s[i]) = i
      /\ \A f \in NamesOf(c) : NumberIn(c, f) \in DOMAIN s /\ s[NumberIn(c, f)] = f
  BY PlacesAre
<1>2. /\ \A i \in DOMAIN s :
           /\ s[i] # "hand" /\ _bits[c][s[i]] = i - 1
           /\ _msg_id_names[c][i] \in Types
           /\ _msg_id_names[c][i] = STRING_ => _ctor[c][s[i]] = kEmptyString
           /\ _msg_id_names[c][i] # STRING_ => IsValue(_msg_id_names[c][i], _ctor[c][s[i]])
           /\ _msg_id_names[c][i] = INT32 => _ctor[c][s[i]] = 0
      /\ _ctor[c] = [f \in DOMAIN _ctor[c] |-> _ctor[c][f]]
      /\ DOMAIN _ctor[c] = {s[i] : i \in DOMAIN s}
      /\ _merge[c].required = {i - 1 : i \in DOMAIN s}
      /\ \E i, j \in DOMAIN s : \A k \in DOMAIN s :
           _msg_id_names[c][k] = STRING_ => k = i \/ k = j
  BY ClassesAre DEF Described, Types
<1>3. ASSUME NEW f \in NamesOf(c)
      PROVE  /\ f # "hand" /\ TypeIn(c, f) \in Types
             /\ BitIn(c, f) = NumberIn(c, f) - 1
             /\ StringIn(c, f) => _ctor[c][f] = kEmptyString
             /\ ~StringIn(c, f) => IsValue(TypeIn(c, f), _ctor[c][f])
             /\ TypeIn(c, f) = INT32 => _ctor[c][f] = 0
  <2> PICK i \in DOMAIN s : i = NumberIn(c, f) /\ f = s[i]
    BY <1>1
  <2> QED BY <1>2 DEF TypeIn, BitIn, StringIn
<1>4. ASSUME NEW f \in NamesOf(c), NEW g \in NamesOf(c), BitIn(c, f) = BitIn(c, g)
      PROVE  f = g
  <2> PICK i \in DOMAIN s : i = NumberIn(c, f) /\ f = s[i]
    BY <1>1
  <2> PICK j \in DOMAIN s : j = NumberIn(c, g) /\ g = s[j]
    BY <1>1
  <2>1. i - 1 = j - 1 /\ i \in Int /\ j \in Int
    BY <1>1, <1>3, <1>4
  <2> QED BY <2>1
<1>5. _merge[c].required = {BitIn(c, f) : f \in NamesOf(c)}
  <2>1. ASSUME NEW i \in DOMAIN s
        PROVE  \E f \in NamesOf(c) : BitIn(c, f) = i - 1
    BY <1>1, <1>3
  <2>2. ASSUME NEW f \in NamesOf(c)
        PROVE  \E i \in DOMAIN s : i - 1 = BitIn(c, f)
    BY <1>1, <1>3
  <2> QED BY <1>2, <2>1, <2>2
<1>6. \E a, b \in NamesOf(c) : \A f \in NamesOf(c) : StringIn(c, f) => f = a \/ f = b
  <2> PICK i \in DOMAIN s, j \in DOMAIN s :
           \A k \in DOMAIN s : _msg_id_names[c][k] = STRING_ => k = i \/ k = j
    BY <1>2
  <2>1. ASSUME NEW f \in NamesOf(c), StringIn(c, f)
        PROVE  f = s[i] \/ f = s[j]
    BY <1>1, <2>1 DEF StringIn, TypeIn
  <2> QED BY <1>1, <2>1
<1> QED BY <1>1, <1>2, <1>3, <1>4, <1>5, <1>6
-----------------------------------------------------------------------------
(* Ownership, whoever the owners are: owns[o] is the address of the string *)
(* that o keeps, or 0.                                                     *)
Text == {x \in Seq(Byte) : Len(x) \in Int32}
Own(owns, hp) ==
  /\ hp = [a \in Addrs \cup {0} |-> hp[a]] /\ hp[0] = <<>>
  /\ \A a \in Addrs \cup {0} : hp[a] \in Text \cup {FREED}
  /\ \A o \in DOMAIN owns : owns[o] \in Addrs \cup {0} /\ hp[owns[o]] # FREED
  /\ \A o, p \in DOMAIN owns : owns[o] = owns[p] /\ owns[o] # 0 => o = p
  /\ \A a \in Addrs : hp[a] # FREED => \E o \in DOMAIN owns : owns[o] = a

LEMMA TextsAre ==
  <<>> \in Text /\ FREED \notin Text /\ NULL \notin Text /\ 0 \notin Addrs /\ NULL \notin Addrs
<1>1. <<>> \in Text
  BY SMT DEF Text, Int32
<1>2. FREED \notin Text /\ NULL \notin Text
  BY ValuesAssumption DEF Text
<1> QED BY <1>1, <1>2, MessagesAssumption, ValuesAssumption

LEMMA OwnedTexts ==
  ASSUME NEW owns, NEW hp, Own(owns, hp), NEW o \in DOMAIN owns
  PROVE  hp[owns[o]] \in Text
BY DEF Own

(* A string is written.                                                    *)
Changed(owns, hp, other, new, o, x) ==
  /\ Own(other, new) /\ new[other[o]] = x
  /\ \A p \in DOMAIN owns : p # o => new[other[p]] = hp[owns[p]]

LEMMA OwnWrite ==
  ASSUME NEW owns, NEW hp, Own(owns, hp), NEW o \in DOMAIN owns, owns[o] # 0,
         NEW x \in Text, NEW new, new = [hp EXCEPT ![owns[o]] = x]
  PROVE  Changed(owns, hp, owns, new, o, x)
<1>1. owns[o] \in Addrs /\ new[owns[o]] = x /\ owns[o] \in DOMAIN hp
  BY DEF Own
<1>2. \A p \in DOMAIN owns : p # o => owns[p] # owns[o]
  BY DEF Own
<1>3. \A p \in DOMAIN owns : p # o => new[owns[p]] = hp[owns[p]]
  BY <1>2 DEF Own
<1>4. \A a \in Addrs \cup {0} : a # owns[o] => new[a] = hp[a]
  BY DEF Own
<1>5. new = [a \in Addrs \cup {0} |-> new[a]]
  BY DEF Own
<1>6. new[0] = <<>>
  BY <1>1, <1>4, TextsAre DEF Own
<1>7. \A a \in Addrs \cup {0} : new[a] \in Text \cup {FREED}
  BY <1>1, <1>4 DEF Own
<1>8. \A p \in DOMAIN owns : owns[p] \in Addrs \cup {0} /\ new[owns[p]] # FREED
  BY <1>1, <1>3, TextsAre DEF Own
<1>9. \A a \in Addrs : new[a] # FREED => \E p \in DOMAIN owns : owns[p] = a
  BY <1>4 DEF Own
<1> QED BY <1>1, <1>3, <1>5, <1>6, <1>7, <1>8, <1>9 DEF Own, Changed

(* A string is made.                                                       *)
LEMMA OwnNew ==
  ASSUME NEW owns, NEW hp, Own(owns, hp), NEW o \in DOMAIN owns, owns[o] = 0,
         NEW a \in Addrs, hp[a] = FREED, NEW x \in Text, NEW new, new = [hp EXCEPT ![a] = x],
         NEW other, DOMAIN other = DOMAIN owns, other[o] = a,
         \A p \in DOMAIN owns : p # o => other[p] = owns[p]
  PROVE  Changed(owns, hp, other, new, o, x)
<1>1. new[a] = x /\ a \in DOMAIN hp /\ x # FREED /\ a # 0
  BY TextsAre DEF Own
<1>2. \A p \in DOMAIN owns : owns[p] # a
  BY <1>1 DEF Own
<1>3. \A b \in Addrs \cup {0} : b # a => new[b] = hp[b]
  BY DEF Own
<1>4. \A p \in DOMAIN owns : p # o => new[other[p]] = hp[owns[p]]
  BY <1>2, <1>3 DEF Own
<1>5. new = [b \in Addrs \cup {0} |-> new[b]] /\ new[0] = <<>>
  BY <1>1, <1>3 DEF Own
<1>6. \A b \in Addrs \cup {0} : new[b] \in Text \cup {FREED}
  BY <1>1, <1>3 DEF Own
<1>7. \A p \in DOMAIN other : other[p] \in Addrs \cup {0} /\ new[other[p]] # FREED
  BY <1>1, <1>4 DEF Own
<1>8. \A p, q \in DOMAIN other : other[p] = other[q] /\ other[p] # 0 => p = q
  <2> SUFFICES ASSUME NEW p \in DOMAIN owns, NEW q \in DOMAIN owns,
                      other[p] = other[q], other[p] # 0
               PROVE  p = q
    OBVIOUS
  <2>1. CASE p = o
    BY <1>2, <2>1
  <2>2. CASE q = o
    BY <1>2, <2>2
  <2>3. CASE p # o /\ q # o
    BY <2>3 DEF Own
  <2> QED BY <2>1, <2>2, <2>3
<1>9. \A b \in Addrs : new[b] # FREED => \E p \in DOMAIN other : other[p] = b
  <2> SUFFICES ASSUME NEW b \in Addrs, b # a, new[b] # FREED
               PROVE  \E p \in DOMAIN other : other[p] = b
    OBVIOUS
  <2>1. hp[b] # FREED
    BY <1>3
  <2> PICK p \in DOMAIN owns : owns[p] = b
    BY <2>1 DEF Own
  <2>2. p # o
    BY TextsAre
  <2> QED BY <2>2
<1>10. Own(other, new)
  BY <1>5, <1>6, <1>7, <1>8, <1>9 DEF Own
<1> QED BY <1>1, <1>4, <1>10 DEF Changed

(* An owner goes, and its string with it.                                  *)
Dropped(owns, hp, other, new) ==
  Own(other, new) /\ \A p \in DOMAIN other : new[other[p]] = hp[owns[p]]

LEMMA OwnDelete ==
  ASSUME NEW owns, NEW hp, Own(owns, hp), NEW o \in DOMAIN owns,
         NEW new, new = IF owns[o] = 0 THEN hp ELSE [hp EXCEPT ![owns[o]] = FREED],
         NEW other, DOMAIN other = DOMAIN owns \ {o},
         \A p \in DOMAIN other : other[p] = owns[p]
  PROVE  Dropped(owns, hp, other, new)
<1>1. \A p \in DOMAIN other : p # o /\ p \in DOMAIN owns /\ other[p] = owns[p]
  OBVIOUS
<1>2. CASE owns[o] = 0
  <2>1. \A a \in Addrs : hp[a] # FREED => \E p \in DOMAIN other : other[p] = a
    <3> SUFFICES ASSUME NEW a \in Addrs, hp[a] # FREED
                 PROVE  \E p \in DOMAIN other : other[p] = a
      OBVIOUS
    <3> PICK p \in DOMAIN owns : owns[p] = a
      BY DEF Own
    <3>1. p # o
      BY <1>2, TextsAre
    <3> QED BY <3>1
  <2> QED BY <1>1, <1>2, <2>1 DEF Own, Dropped
<1>3. CASE owns[o] # 0
  <2>1. new = [hp EXCEPT ![owns[o]] = FREED]
    BY <1>3
  <2>2. owns[o] \in Addrs /\ new[owns[o]] = FREED
    BY <1>3, <2>1 DEF Own
  <2>3. \A a \in Addrs \cup {0} : a # owns[o] => new[a] = hp[a]
    BY <2>1 DEF Own
  <2>4. \A p \in DOMAIN other : other[p] # owns[o]
    BY <1>1, <1>3 DEF Own
  <2>5. \A p \in DOMAIN other : new[other[p]] = hp[owns[p]]
    BY <1>1, <2>3, <2>4 DEF Own
  <2>6. new = [b \in Addrs \cup {0} |-> new[b]] /\ new[0] = <<>>
    BY <1>3, <2>1, <2>3 DEF Own
  <2>7. \A b \in Addrs \cup {0} : new[b] \in Text \cup {FREED}
    BY <2>2, <2>3 DEF Own
  <2>8. \A p \in DOMAIN other : other[p] \in Addrs \cup {0} /\ new[other[p]] # FREED
    BY <1>1, <2>5 DEF Own
  <2>9. \A p, q \in DOMAIN other : other[p] = other[q] /\ other[p] # 0 => p = q
    BY <1>1 DEF Own
  <2>10. \A a \in Addrs : new[a] # FREED => \E p \in DOMAIN other : other[p] = a
    <3> SUFFICES ASSUME NEW a \in Addrs, new[a] # FREED
                 PROVE  \E p \in DOMAIN other : other[p] = a
      OBVIOUS
    <3>1. a # owns[o] /\ hp[a] # FREED
      BY <2>2, <2>3
    <3> PICK p \in DOMAIN owns : owns[p] = a
      BY <3>1 DEF Own
    <3>2. p # o
      BY <3>1
    <3> QED BY <3>2
  <2> QED BY <2>5, <2>6, <2>7, <2>8, <2>9, <2>10 DEF Own, Dropped
<1> QED BY <1>2, <1>3

(* Owners of nothing come or go.                                           *)
LEMMA OwnNothing ==
  ASSUME NEW owns, NEW hp, Own(owns, hp), NEW other,
         \A o \in DOMAIN owns : owns[o] # 0 => o \in DOMAIN other /\ other[o] = owns[o],
         \A o \in DOMAIN other : other[o] # 0 => o \in DOMAIN owns /\ other[o] = owns[o]
  PROVE  Own(other, hp)
<1>1. \A o \in DOMAIN other : other[o] \in Addrs \cup {0} /\ hp[other[o]] # FREED
  <2>1. hp[0] # FREED
    BY TextsAre DEF Own
  <2> QED BY <2>1 DEF Own
<1>2. \A o, p \in DOMAIN other : other[o] = other[p] /\ other[o] # 0 => o = p
  BY DEF Own
<1>3. \A a \in Addrs : hp[a] # FREED => \E o \in DOMAIN other : other[o] = a
  <2> SUFFICES ASSUME NEW a \in Addrs, hp[a] # FREED
               PROVE  \E o \in DOMAIN other : other[o] = a
    OBVIOUS
  <2> PICK o \in DOMAIN owns : owns[o] = a
    BY DEF Own
  <2> QED BY TextsAre
<1> QED BY <1>1, <1>2, <1>3 DEF Own

(* Owners exchange their strings.                                          *)
LEMMA OwnSwap ==
  ASSUME NEW owns, NEW hp, Own(owns, hp), NEW other, DOMAIN other = DOMAIN owns,
         NEW with, \A o \in DOMAIN owns : with[o] \in DOMAIN owns /\ with[with[o]] = o,
         \A o \in DOMAIN owns : other[o] = owns[with[o]]
  PROVE  Own(other, hp)
<1>1. \A o \in DOMAIN other : other[o] \in Addrs \cup {0} /\ hp[other[o]] # FREED
  BY DEF Own
<1>2. \A o, p \in DOMAIN other : other[o] = other[p] /\ other[o] # 0 => o = p
  <2> SUFFICES ASSUME NEW o \in DOMAIN owns, NEW p \in DOMAIN owns,
                      owns[with[o]] = owns[with[p]], owns[with[o]] # 0
               PROVE  o = p
    BY DEF Own
  <2>1. with[o] = with[p]
    BY DEF Own
  <2> QED BY <2>1
<1>3. \A a \in Addrs : hp[a] # FREED => \E o \in DOMAIN other : other[o] = a
  <2> SUFFICES ASSUME NEW a \in Addrs, hp[a] # FREED
               PROVE  \E o \in DOMAIN other : other[o] = a
    OBVIOUS
  <2> PICK o \in DOMAIN owns : owns[o] = a
    BY DEF Own
  <2>1. with[o] \in DOMAIN other /\ other[with[o]] = a
    OBVIOUS
  <2> QED BY <2>1
<1> QED BY <1>1, <1>2, <1>3 DEF Own
-----------------------------------------------------------------------------
(* Objects and heap, and who owns what of it: D are the members that are   *)
(* counted, each an object and a name; the others are the user's hands.    *)
HandSlots == Hands \X {"hand"}
AllSlots(c) == {s \in Msgs \X NamesOf(c) : StringIn(c, s[2])} \cup HandSlots
Slots(c, o) == {s \in (DOMAIN o) \X NamesOf(c) : StringIn(c, s[2])}
Owners(w, H, D) ==
  [s \in D \cup HandSlots |->
     IF s[2] = "hand" THEN IF H[s[1]] = NULL THEN 0 ELSE H[s[1]]
                      ELSE w.obj[s[1]].member[s[2]]]

IsObject(c, x) ==
  /\ x = [has |-> x.has, member |-> x.member]
  /\ x.has \subseteq {BitIn(c, f) : f \in NamesOf(c)}
  /\ x.member = [f \in NamesOf(c) |-> x.member[f]]
  /\ \A f \in NamesOf(c) : ~StringIn(c, f) => IsValue(TypeIn(c, f), x.member[f])
IsWorld(c, w) ==
  /\ w = [obj |-> w.obj, heap |-> w.heap]
  /\ DOMAIN w.obj \subseteq Msgs /\ w.obj = [m \in DOMAIN w.obj |-> w.obj[m]]
  /\ \A m \in DOMAIN w.obj : IsObject(c, w.obj[m])
IsHand(H) == H = [h \in Hands |-> H[h]] /\ \A h \in Hands : H[h] \in Addrs \cup {NULL}

Good(c, w, H, D) ==
  /\ Known(c) /\ IsWorld(c, w) /\ IsHand(H) /\ D \subseteq Slots(c, w.obj)
  /\ Own(Owners(w, H, D), w.heap)

HasIn(c, w, m, f) == BitIn(c, f) \in w.obj[m].has
GetIn(c, w, m, f) ==
  IF StringIn(c, f) THEN w.heap[w.obj[m].member[f]] ELSE w.obj[m].member[f]

(* As long as an owner owns nothing there is an address for it.            *)
LEMMA RoomLeft ==
  ASSUME NEW c, Known(c), NEW owns, NEW hp, Own(owns, hp), DOMAIN owns \subseteq AllSlots(c),
         NEW o \in DOMAIN owns, owns[o] = 0
  PROVE  \E a \in Addrs : hp[a] = FREED
<1> SUFFICES ASSUME \A a \in Addrs : hp[a] # FREED PROVE FALSE
  OBVIOUS
<1> DEFINE T == DOMAIN owns \ {o}
           g == [a \in Addrs |-> CHOOSE p \in DOMAIN owns : owns[p] = a]
<1>1. \A a \in Addrs : g[a] \in DOMAIN owns /\ owns[g[a]] = a
  BY DEF Own
<1>2. \A a \in Addrs : g[a] \in T
  BY <1>1, TextsAre
<1>3. g \in [Addrs -> T]
  BY <1>2
<1>4. \A a, b \in Addrs : g[a] = g[b] => a = b
  BY <1>1
<1> HIDE DEF g
<1> PICK s \in NamesOf(c), t \in NamesOf(c) :
         \A f \in NamesOf(c) : StringIn(c, f) => f = s \/ f = t
  BY NamesAre
<1> DEFINE A == (Msgs \X {s, t}) \cup HandSlots
<1>5. AllSlots(c) \subseteq A
  BY DEF AllSlots
<1>6. /\ IsFiniteSet({s, t}) /\ Cardinality({s, t}) \in 1 .. 2
      /\ IsFiniteSet({"hand"}) /\ Cardinality({"hand"}) = 1
  <2>1. IsFiniteSet({s}) /\ Cardinality({s}) = 1
    BY FS_Singleton
  <2>2. IsFiniteSet({s} \cup {t}) /\ Cardinality({s} \cup {t}) \in 1 .. 2
    <3>1. CASE t \in {s}
      <4>1. {s} \cup {t} = {s}
        BY <3>1
      <4> QED BY <2>1, <4>1
    <3>2. CASE t \notin {s}
      <4>1. IsFiniteSet({s})
        BY <2>1
      <4>2. /\ IsFiniteSet({s} \cup {t})
            /\ Cardinality({s} \cup {t}) = Cardinality({s}) + 1
        BY <3>2, <4>1, FS_AddElement
      <4> QED BY <2>1, <4>2
    <3> QED BY <3>1, <3>2
  <2>3. {s} \cup {t} = {s, t}
    OBVIOUS
  <2> QED BY <2>2, <2>3, FS_Singleton
<1>7. /\ Cardinality(Msgs) \in Nat /\ Cardinality(Hands) \in Nat /\ Cardinality(Addrs) \in Nat
      /\ IsFiniteSet(Msgs) /\ IsFiniteSet(Hands) /\ IsFiniteSet(Addrs)
      /\ Cardinality(Addrs) >= 2 * Cardinality(Msgs) + Cardinality(Hands)
  BY MessagesAssumption, FS_CardinalityType
<1>8. /\ IsFiniteSet(Msgs \X {s, t})
      /\ Cardinality(Msgs \X {s, t}) = Cardinality(Msgs) * Cardinality({s, t})
  BY <1>6, <1>7, FS_Product
<1>9. /\ IsFiniteSet(HandSlots)
      /\ Cardinality(HandSlots) = Cardinality(Hands) * Cardinality({"hand"})
  BY <1>6, <1>7, FS_Product DEF HandSlots
<1>10. IsFiniteSet(A) /\ Cardinality(A) <= 2 * Cardinality(Msgs) + Cardinality(Hands)
  <2>1. /\ IsFiniteSet(A)
        /\ Cardinality(A) = Cardinality(Msgs \X {s, t}) + Cardinality(HandSlots)
                              - Cardinality((Msgs \X {s, t}) \cap HandSlots)
    BY <1>8, <1>9, FS_Union
  <2>2. Cardinality((Msgs \X {s, t}) \cap HandSlots) \in Nat
    <3>1. IsFiniteSet((Msgs \X {s, t}) \cap HandSlots)
      <4>1. (Msgs \X {s, t}) \cap HandSlots \in SUBSET HandSlots
        OBVIOUS
      <4> QED BY <1>9, <4>1, FS_Subset
    <3> QED BY <3>1, FS_CardinalityType
  <2>3. Cardinality(Msgs \X {s, t}) <= 2 * Cardinality(Msgs) /\ Cardinality(Msgs \X {s, t}) \in Nat
    <3> PICK k \in 1 .. 2 : k = Cardinality({s, t})
      BY <1>6
    <3>1. k = 1 \/ k = 2
      OBVIOUS
    <3> QED BY <1>7, <1>8, <3>1
  <2>4. Cardinality(HandSlots) = Cardinality(Hands)
    BY <1>6, <1>7, <1>9
  <2> HIDE DEF A
  <2> QED BY <1>7, <2>1, <2>2, <2>3, <2>4
<1> HIDE DEF A
<1>11. IsFiniteSet(DOMAIN owns) /\ Cardinality(DOMAIN owns) <= Cardinality(A)
  <2>1. DOMAIN owns \in SUBSET A
    BY <1>5
  <2> QED BY <1>10, <2>1, FS_Subset
<1>12. IsFiniteSet(T) /\ Cardinality(T) = Cardinality(DOMAIN owns) - 1
  BY <1>11, FS_RemoveElement
<1> HIDE DEF T
<1>13. Cardinality(T) < Cardinality(Addrs)
  <2>1. Cardinality(DOMAIN owns) \in Nat /\ Cardinality(A) \in Nat
    BY <1>10, <1>11, FS_CardinalityType
  <2> QED BY <1>7, <1>10, <1>11, <1>12, <2>1
<1>14. \E a, b \in Addrs : a # b /\ g[a] = g[b]
  BY <1>3, <1>7, <1>12, <1>13, FS_PigeonHole
<1> QED BY <1>4, <1>14

(* One thing of an object, or of the heap, is assigned.                    *)
HasPut(c, w, v, m, h) ==
  /\ IsWorld(c, v) /\ v.heap = w.heap /\ DOMAIN v.obj = DOMAIN w.obj
  /\ v.obj[m].has = h /\ v.obj[m].member = w.obj[m].member
  /\ \A n \in DOMAIN w.obj : n # m => v.obj[n] = w.obj[n]

LEMMA PutHas ==
  ASSUME NEW c, NEW w, IsWorld(c, w), NEW m \in DOMAIN w.obj,
         NEW h, h \subseteq {BitIn(c, f) : f \in NamesOf(c)},
         NEW v, v = [w EXCEPT !.obj[m].has = h]
  PROVE  HasPut(c, w, v, m, h)
<1> PICK A : A = w.obj
  OBVIOUS
<1> PICK x : x = A[m]
  OBVIOUS
<1> DEFINE y == [has |-> h, member |-> x.member]
           B == [n \in DOMAIN A |-> IF n = m THEN y ELSE A[n]]
<1>1. /\ w = [obj |-> A, heap |-> w.heap] /\ A = [n \in DOMAIN A |-> A[n]]
      /\ x = [has |-> x.has, member |-> x.member]
  BY DEF IsWorld, IsObject
<1>2. v = [obj |-> B, heap |-> w.heap]
  BY <1>1
<1>3. \A n \in DOMAIN B : IsObject(c, B[n])
  <2>1. IsObject(c, y)
    BY DEF IsWorld, IsObject
  <2> QED BY <2>1 DEF IsWorld
<1>4. IsWorld(c, v)
  BY <1>2, <1>3 DEF IsWorld
<1> QED BY <1>2, <1>4 DEF HasPut

MemberPut(c, w, v, m, f, p) ==
  /\ IsWorld(c, v) /\ v.heap = w.heap /\ DOMAIN v.obj = DOMAIN w.obj
  /\ v.obj[m].has = w.obj[m].has /\ v.obj[m].member[f] = p
  /\ \A g \in NamesOf(c) : g # f => v.obj[m].member[g] = w.obj[m].member[g]
  /\ \A n \in DOMAIN w.obj : n # m => v.obj[n] = w.obj[n]

LEMMA PutMember ==
  ASSUME NEW c, NEW w, IsWorld(c, w), NEW m \in DOMAIN w.obj, NEW f \in NamesOf(c),
         NEW p, ~StringIn(c, f) => IsValue(TypeIn(c, f), p),
         NEW v, v = [w EXCEPT !.obj[m].member[f] = p]
  PROVE  MemberPut(c, w, v, m, f, p)
<1> PICK A : A = w.obj
  OBVIOUS
<1> PICK x : x = A[m]
  OBVIOUS
<1> DEFINE z == [g \in NamesOf(c) |-> IF g = f THEN p ELSE x.member[g]]
           y == [has |-> x.has, member |-> z]
           B == [n \in DOMAIN A |-> IF n = m THEN y ELSE A[n]]
<1>1. /\ w = [obj |-> A, heap |-> w.heap] /\ A = [n \in DOMAIN A |-> A[n]]
      /\ x = [has |-> x.has, member |-> x.member]
      /\ x.member = [g \in NamesOf(c) |-> x.member[g]]
  BY DEF IsWorld, IsObject
<1>2. [x.member EXCEPT ![f] = p] = z
  BY <1>1
<1>2a. v = [obj |-> B, heap |-> w.heap]
  BY <1>1, <1>2
<1>3. \A n \in DOMAIN B : IsObject(c, B[n])
  <2>1. IsObject(c, y)
    BY DEF IsWorld, IsObject
  <2> QED BY <2>1 DEF IsWorld
<1>4. IsWorld(c, v)
  BY <1>2a, <1>3 DEF IsWorld
<1> QED BY <1>2a, <1>4 DEF MemberPut

HeapPut(c, w, v, p, x) ==
  IsWorld(c, v) /\ v.obj = w.obj /\ v.heap = [w.heap EXCEPT ![p] = x]

LEMMA PutHeap ==
  ASSUME NEW c, NEW w, IsWorld(c, w), NEW p, NEW x, NEW v, v = [w EXCEPT !.heap[p] = x]
  PROVE  HeapPut(c, w, v, p, x)
<1>1. w = [obj |-> w.obj, heap |-> w.heap]
  BY DEF IsWorld
<1>2. v.obj = w.obj /\ v.heap = [w.heap EXCEPT ![p] = x] /\ v = [obj |-> v.obj, heap |-> v.heap]
  BY <1>1
<1> QED BY <1>2 DEF IsWorld, HeapPut
-----------------------------------------------------------------------------
(* What is read of the objects, and the owners behind it.                  *)
Owning(c, w, n, g) == StringIn(c, g) /\ HasIn(c, w, n, g) => w.obj[n].member[g] # 0
Same(c, w, v, n, g) ==
  /\ HasIn(c, v, n, g) <=> HasIn(c, w, n, g)
  /\ GetIn(c, v, n, g) = GetIn(c, w, n, g)
  /\ Owning(c, w, n, g) => Owning(c, v, n, g)

(* All is as it was but the members of S, and those not counted.           *)
Kept(c, w, v, H, D, S) ==
  /\ DOMAIN v.obj = DOMAIN w.obj
  /\ \A n \in DOMAIN w.obj, g \in NamesOf(c) :
       <<n, g>> \notin S /\ (StringIn(c, g) => <<n, g>> \in D) => Same(c, w, v, n, g)
  /\ \A h \in Hands : H[h] # NULL => v.heap[H[h]] = w.heap[H[h]]

OwnersSay(c, w, H, D, owns) ==
  /\ DOMAIN owns = D \cup HandSlots
  /\ \A n, g : <<n, g>> \in D =>
       /\ n \in DOMAIN w.obj /\ g \in NamesOf(c) /\ StringIn(c, g) /\ g # "hand"
       /\ owns[<<n, g>>] = w.obj[n].member[g]
  /\ \A h \in Hands :
       /\ <<h, "hand">> \in HandSlots
       /\ owns[<<h, "hand">>] = IF H[h] = NULL THEN 0 ELSE H[h]
  /\ \A s \in D : s = <<s[1], s[2]>> /\ s[2] # "hand"
  /\ \A s \in HandSlots : s = <<s[1], "hand">> /\ s[1] \in Hands

LEMMA OwnersAre ==
  ASSUME NEW c, Known(c), NEW w, NEW H, NEW D, D \subseteq Slots(c, w.obj)
  PROVE  OwnersSay(c, w, H, D, Owners(w, H, D))
<1>1. \A g \in NamesOf(c) : g # "hand"
  BY NamesAre
<1>2. \A s \in D : s = <<s[1], s[2]>> /\ s[2] # "hand" /\ s[1] \in DOMAIN w.obj
                   /\ s[2] \in NamesOf(c) /\ StringIn(c, s[2])
  BY <1>1 DEF Slots
<1>3. \A s \in HandSlots : s = <<s[1], "hand">> /\ s[1] \in Hands /\ s[2] = "hand"
  BY DEF HandSlots
<1>4. \A h \in Hands : <<h, "hand">> \in HandSlots
  BY DEF HandSlots
<1>5. DOMAIN Owners(w, H, D) = D \cup HandSlots
  BY DEF Owners
<1>6. \A n, g : <<n, g>> \in D => Owners(w, H, D)[<<n, g>>] = w.obj[n].member[g]
  BY <1>2 DEF Owners
<1>7. \A h \in Hands : Owners(w, H, D)[<<h, "hand">>] = IF H[h] = NULL THEN 0 ELSE H[h]
  BY <1>4 DEF Owners
<1>8. \A n, g : <<n, g>> \in D => n \in DOMAIN w.obj /\ g \in NamesOf(c) /\ StringIn(c, g) /\ g # "hand"
  BY <1>1, <1>2
<1> QED BY <1>2, <1>3, <1>4, <1>5, <1>6, <1>7, <1>8 DEF OwnersSay

LEMMA KeptTwice ==
  ASSUME NEW c, NEW w, NEW u, NEW v, NEW H, NEW D, NEW S, Kept(c, w, u, H, D, S), Kept(c, u, v, H, D, S)
  PROVE  Kept(c, w, v, H, D, S)
BY DEF Kept, Same

LEMMA KeptMore ==
  ASSUME NEW c, NEW w, NEW v, NEW H, NEW D, NEW S, Kept(c, w, v, H, D, S), NEW T, S \subseteq T
  PROVE  Kept(c, w, v, H, D, T)
BY DEF Kept, Same

(* Good worlds with the same strings in the same hands.                    *)
HasGiven(c, w, v, H, D, m, h) ==
  /\ Good(c, v, H, D) /\ DOMAIN v.obj = DOMAIN w.obj /\ v.heap = w.heap
  /\ v.obj[m].has = h /\ \A n \in DOMAIN w.obj : v.obj[n].member = w.obj[n].member
  /\ \A n \in DOMAIN w.obj : n # m => v.obj[n] = w.obj[n]
  /\ \A n \in DOMAIN w.obj, g \in NamesOf(c) : GetIn(c, v, n, g) = GetIn(c, w, n, g)

LEMMA GoodHas ==
  ASSUME NEW c, NEW w, NEW H, NEW D, Good(c, w, H, D), NEW m \in DOMAIN w.obj,
         NEW h, h \subseteq {BitIn(c, f) : f \in NamesOf(c)},
         NEW v, v = [w EXCEPT !.obj[m].has = h]
  PROVE  HasGiven(c, w, v, H, D, m, h)
<1>1. /\ IsWorld(c, v) /\ v.heap = w.heap /\ DOMAIN v.obj = DOMAIN w.obj
      /\ v.obj[m].has = h /\ v.obj[m].member = w.obj[m].member
      /\ \A n \in DOMAIN w.obj : n # m => v.obj[n] = w.obj[n]
  BY PutHas DEF Good, HasPut
<1>2. \A n \in DOMAIN w.obj : v.obj[n].member = w.obj[n].member
  BY <1>1
<1>3. D \subseteq Slots(c, v.obj)
  BY <1>1 DEF Good, Slots
<1>4. Owners(v, H, D) = Owners(w, H, D)
  <2>1. \A s \in D \cup HandSlots : s[2] # "hand" => v.obj[s[1]].member = w.obj[s[1]].member
    BY <1>2 DEF Good, Slots, HandSlots
  <2> QED BY <2>1 DEF Owners
<1>5. Good(c, v, H, D)
  BY <1>1, <1>3, <1>4 DEF Good
<1>6. \A n \in DOMAIN w.obj, g \in NamesOf(c) : GetIn(c, v, n, g) = GetIn(c, w, n, g)
  BY <1>1, <1>2 DEF GetIn
<1> QED BY <1>1, <1>2, <1>5, <1>6 DEF HasGiven

HasMade(c, w, v, H, D, m, f, yes) ==
  /\ Good(c, v, H, D) /\ Kept(c, w, v, H, D, {<<m, f>>}) /\ v.heap = w.heap
  /\ (HasIn(c, v, m, f) <=> yes) /\ GetIn(c, v, m, f) = GetIn(c, w, m, f)
  /\ \A n \in DOMAIN w.obj : v.obj[n].member = w.obj[n].member

LEMMA GoodSetHas ==
  ASSUME NEW c, NEW w, NEW H, NEW D, Good(c, w, H, D), NEW m \in DOMAIN w.obj, NEW f \in NamesOf(c),
         NEW h, h \subseteq {BitIn(c, g) : g \in NamesOf(c)},
         \A g \in NamesOf(c) : g # f => (BitIn(c, g) \in h <=> BitIn(c, g) \in w.obj[m].has),
         NEW yes, BitIn(c, f) \in h <=> yes,
         NEW v, v = [w EXCEPT !.obj[m].has = h]
  PROVE  HasMade(c, w, v, H, D, m, f, yes)
<1>1. /\ Good(c, v, H, D) /\ DOMAIN v.obj = DOMAIN w.obj /\ v.heap = w.heap
      /\ v.obj[m].has = h /\ \A n \in DOMAIN w.obj : v.obj[n].member = w.obj[n].member
      /\ \A n \in DOMAIN w.obj : n # m => v.obj[n] = w.obj[n]
      /\ \A n \in DOMAIN w.obj, g \in NamesOf(c) : GetIn(c, v, n, g) = GetIn(c, w, n, g)
  <2>1. HasGiven(c, w, v, H, D, m, h)
    BY ONLY GoodHas, Good(c, w, H, D), m \in DOMAIN w.obj, v = [w EXCEPT !.obj[m].has = h],
       h \subseteq {BitIn(c, g) : g \in NamesOf(c)}
  <2> QED BY <2>1 DEF HasGiven
<1>2. \A n \in DOMAIN w.obj, g \in NamesOf(c) :
        <<n, g>> # <<m, f>> => (HasIn(c, v, n, g) <=> HasIn(c, w, n, g))
  BY <1>1 DEF HasIn
<1>3. Kept(c, w, v, H, D, {<<m, f>>})
  BY <1>1, <1>2 DEF Kept, Same, Owning
<1>4. HasIn(c, v, m, f) <=> yes
  BY <1>1 DEF HasIn
<1> QED BY <1>1, <1>3, <1>4 DEF HasMade

LEMMA GoodHasMore ==
  ASSUME NEW c, NEW w, NEW H, NEW D, Good(c, w, H, D), NEW m \in DOMAIN w.obj, NEW f \in NamesOf(c),
         NEW v, v = [w EXCEPT !.obj[m].has = @ \cup {BitIn(c, f)}]
  PROVE  HasMade(c, w, v, H, D, m, f, TRUE)
<1> DEFINE h == w.obj[m].has \cup {BitIn(c, f)}
<1>1. /\ h \subseteq {BitIn(c, g) : g \in NamesOf(c)} /\ v = [w EXCEPT !.obj[m].has = h]
      /\ BitIn(c, f) \in h
  BY DEF Good, IsWorld, IsObject
<1>2. \A g \in NamesOf(c) : g # f => (BitIn(c, g) \in h <=> BitIn(c, g) \in w.obj[m].has)
  BY NamesAre DEF Good
<1> HIDE DEF h
<1> QED BY <1>1, <1>2, GoodSetHas

LEMMA GoodHasLess ==
  ASSUME NEW c, NEW w, NEW H, NEW D, Good(c, w, H, D), NEW m \in DOMAIN w.obj, NEW f \in NamesOf(c),
         NEW v, v = [w EXCEPT !.obj[m].has = @ \ {BitIn(c, f)}]
  PROVE  HasMade(c, w, v, H, D, m, f, FALSE)
<1> DEFINE h == w.obj[m].has \ {BitIn(c, f)}
<1>1. /\ h \subseteq {BitIn(c, g) : g \in NamesOf(c)} /\ v = [w EXCEPT !.obj[m].has = h]
      /\ BitIn(c, f) \notin h
  BY DEF Good, IsWorld, IsObject
<1>2. \A g \in NamesOf(c) : g # f => (BitIn(c, g) \in h <=> BitIn(c, g) \in w.obj[m].has)
  BY NamesAre DEF Good
<1> HIDE DEF h
<1> QED BY <1>1, <1>2, GoodSetHas

(* A string is written where it is.                                        *)
Written(c, w, v, H, D, m, f, x) ==
  /\ Good(c, v, H, D) /\ Kept(c, w, v, H, D, {<<m, f>>}) /\ v.obj = w.obj
  /\ GetIn(c, v, m, f) = x

LEMMA GoodWrite ==
  ASSUME NEW c, NEW w, NEW H, NEW D, Good(c, w, H, D), NEW m, NEW f, <<m, f>> \in D,
         NEW p, p = w.obj[m].member[f], p # 0, NEW x \in Text, NEW v, v = [w EXCEPT !.heap[p] = x]
  PROVE  Written(c, w, v, H, D, m, f, x)
<1> DEFINE O == Owners(w, H, D)
           s == <<m, f>>
<1>1. /\ Known(c) /\ IsWorld(c, w) /\ IsHand(H) /\ D \subseteq Slots(c, w.obj) /\ Own(O, w.heap)
  BY DEF Good
<1> HIDE DEF O
<1>2. OwnersSay(c, w, H, D, O)
  BY <1>1, OwnersAre DEF O
<1>3. IsWorld(c, v) /\ v.obj = w.obj /\ v.heap = [w.heap EXCEPT ![p] = x]
  <2>1. HeapPut(c, w, v, p, x)
    BY <1>1, PutHeap
  <2> QED BY <2>1 DEF HeapPut
<1>4. Owners(v, H, D) = O
  BY <1>3 DEF Owners, O
<1>5. s \in DOMAIN O /\ O[s] = p
  BY <1>2 DEF OwnersSay
<1>6. /\ Own(O, v.heap) /\ v.heap[O[s]] = x
      /\ \A t \in DOMAIN O : t # s => v.heap[O[t]] = w.heap[O[t]]
  <2>1. v.heap = [w.heap EXCEPT ![O[s]] = x] /\ O[s] # 0
    BY <1>3, <1>5
  <2>2. Changed(O, w.heap, O, v.heap, s, x)
    BY ONLY <1>1, <1>5, <2>1, OwnWrite, x \in Text
  <2> QED BY <2>2 DEF Changed
<1>7. Good(c, v, H, D)
  BY <1>1, <1>3, <1>4, <1>6 DEF Good
<1>8. \A n \in DOMAIN w.obj, g \in NamesOf(c) :
        <<n, g>> # s /\ (StringIn(c, g) => <<n, g>> \in D) => Same(c, w, v, n, g)
  <2> SUFFICES ASSUME NEW n \in DOMAIN w.obj, NEW g \in NamesOf(c), <<n, g>> # s,
                      StringIn(c, g) => <<n, g>> \in D
               PROVE  Same(c, w, v, n, g)
    OBVIOUS
  <2>1. HasIn(c, v, n, g) <=> HasIn(c, w, n, g)
    BY <1>3 DEF HasIn
  <2>2. CASE StringIn(c, g)
    <3>1. <<n, g>> \in DOMAIN O /\ O[<<n, g>>] = w.obj[n].member[g]
      BY <1>2, <2>2 DEF OwnersSay
    <3> QED BY <1>3, <1>6, <2>1, <2>2, <3>1 DEF Same, Owning, GetIn
  <2>3. CASE ~StringIn(c, g)
    BY <1>3, <2>1, <2>3 DEF Same, Owning, GetIn
  <2> QED BY <2>2, <2>3
<1>9. \A h \in Hands : H[h] # NULL => v.heap[H[h]] = w.heap[H[h]]
  <2> SUFFICES ASSUME NEW h \in Hands, H[h] # NULL PROVE v.heap[H[h]] = w.heap[H[h]]
    OBVIOUS
  <2>1. <<h, "hand">> \in DOMAIN O /\ O[<<h, "hand">>] = H[h] /\ <<h, "hand">> # s
    BY <1>2 DEF OwnersSay
  <2> QED BY <1>6, <2>1
<1>10. GetIn(c, v, m, f) = x
  BY <1>2, <1>3, <1>5, <1>6 DEF GetIn, OwnersSay
<1> QED BY <1>3, <1>7, <1>8, <1>9, <1>10 DEF Kept, Written

(* A number is written.                                                    *)
LEMMA GoodScalar ==
  ASSUME NEW c, NEW w, NEW H, NEW D, Good(c, w, H, D), NEW m \in DOMAIN w.obj,
         NEW f \in NamesOf(c), ~StringIn(c, f), NEW x, IsValue(TypeIn(c, f), x),
         NEW v, v = [w EXCEPT !.obj[m].member[f] = x]
  PROVE  /\ Good(c, v, H, D) /\ Kept(c, w, v, H, D, {<<m, f>>})
         /\ (HasIn(c, v, m, f) <=> HasIn(c, w, m, f)) /\ GetIn(c, v, m, f) = x
<1>1. /\ Known(c) /\ IsWorld(c, w) /\ IsHand(H) /\ D \subseteq Slots(c, w.obj)
      /\ Own(Owners(w, H, D), w.heap)
  BY DEF Good
<1>2. /\ IsWorld(c, v) /\ v.heap = w.heap /\ DOMAIN v.obj = DOMAIN w.obj
      /\ v.obj[m].has = w.obj[m].has /\ v.obj[m].member[f] = x
      /\ \A g \in NamesOf(c) : g # f => v.obj[m].member[g] = w.obj[m].member[g]
      /\ \A n \in DOMAIN w.obj : n # m => v.obj[n] = w.obj[n]
  <2>1. MemberPut(c, w, v, m, f, x)
    BY <1>1, PutMember
  <2> QED BY <2>1 DEF MemberPut
<1>3. D \subseteq Slots(c, v.obj)
  BY <1>1, <1>2 DEF Slots
<1>4. \A n \in DOMAIN w.obj, g \in NamesOf(c) :
        <<n, g>> # <<m, f>> => v.obj[n].member[g] = w.obj[n].member[g] /\ v.obj[n].has = w.obj[n].has
  BY <1>2
<1>5. Owners(v, H, D) = Owners(w, H, D)
  <2>1. \A s \in D \cup HandSlots : s[2] # "hand" => v.obj[s[1]].member[s[2]] = w.obj[s[1]].member[s[2]]
    BY <1>1, <1>4 DEF Slots, HandSlots
  <2> QED BY <2>1 DEF Owners
<1>6. Good(c, v, H, D)
  BY <1>1, <1>2, <1>3, <1>5 DEF Good
<1>7. Kept(c, w, v, H, D, {<<m, f>>})
  BY <1>2, <1>4 DEF Kept, Same, Owning, HasIn, GetIn
<1>8. (HasIn(c, v, m, f) <=> HasIn(c, w, m, f)) /\ GetIn(c, v, m, f) = x
  BY <1>2 DEF HasIn, GetIn
<1> QED BY <1>6, <1>7, <1>8

(* A member without a string gets an empty one.                            *)
Made(c, w, v, H, D, m, f, a) ==
  Good(c, v, H, D) /\ Kept(c, w, v, H, D, {}) /\ v.obj[m].member[f] = a

LEMMA GoodNew ==
  ASSUME NEW c, NEW w, NEW H, NEW D, Good(c, w, H, D), NEW m, NEW f, <<m, f>> \in D,
         w.obj[m].member[f] = 0, NEW a \in Addrs, w.heap[a] = FREED,
         NEW u, u = [w EXCEPT !.obj[m].member[f] = a], NEW v, v = [u EXCEPT !.heap[a] = <<>>]
  PROVE  Made(c, w, v, H, D, m, f, a)
<1> DEFINE O == Owners(w, H, D)
           P == Owners(v, H, D)
           s == <<m, f>>
<1>1. /\ Known(c) /\ IsWorld(c, w) /\ IsHand(H) /\ D \subseteq Slots(c, w.obj) /\ Own(O, w.heap)
  BY DEF Good
<1> HIDE DEF O, P
<1>2. OwnersSay(c, w, H, D, O)
  BY <1>1, OwnersAre DEF O
<1>3. m \in DOMAIN w.obj /\ f \in NamesOf(c) /\ StringIn(c, f) /\ s \in DOMAIN O /\ O[s] = 0
  BY <1>2 DEF OwnersSay
<1>4. /\ IsWorld(c, u) /\ u.heap = w.heap /\ DOMAIN u.obj = DOMAIN w.obj
      /\ u.obj[m].has = w.obj[m].has /\ u.obj[m].member[f] = a
      /\ \A g \in NamesOf(c) : g # f => u.obj[m].member[g] = w.obj[m].member[g]
      /\ \A n \in DOMAIN w.obj : n # m => u.obj[n] = w.obj[n]
  <2>1. MemberPut(c, w, u, m, f, a)
    BY <1>1, <1>3, PutMember
  <2> QED BY <2>1 DEF MemberPut
<1>5. IsWorld(c, v) /\ v.obj = u.obj /\ v.heap = [w.heap EXCEPT ![a] = <<>>]
  <2>1. HeapPut(c, u, v, a, <<>>)
    BY <1>4, PutHeap
  <2> QED BY <1>4, <2>1 DEF HeapPut
<1>6. D \subseteq Slots(c, v.obj)
  BY <1>1, <1>4, <1>5 DEF Slots
<1>7. OwnersSay(c, v, H, D, P)
  BY <1>1, <1>6, OwnersAre DEF P
<1>8. \A n \in DOMAIN w.obj, g \in NamesOf(c) :
        <<n, g>> # s => v.obj[n].member[g] = w.obj[n].member[g]
  BY <1>4, <1>5
<1>9. P[s] = a /\ \A t \in DOMAIN O : t # s => P[t] = O[t]
  <2>1. P[s] = a
    BY <1>4, <1>5, <1>7 DEF OwnersSay
  <2>2. ASSUME NEW t \in D, t # s PROVE P[t] = O[t]
    <3> PICK n, g : t = <<n, g>>
      BY <1>2 DEF OwnersSay
    <3> QED BY <1>2, <1>7, <1>8, <2>2 DEF OwnersSay
  <2>3. ASSUME NEW t \in HandSlots PROVE P[t] = O[t]
    BY <1>2, <1>7 DEF OwnersSay
  <2> QED BY <1>2, <2>1, <2>2, <2>3 DEF OwnersSay
<1>10. /\ Own(P, v.heap) /\ v.heap[P[s]] = <<>>
       /\ \A t \in DOMAIN O : t # s => v.heap[P[t]] = w.heap[O[t]]
  <2>1. <<>> \in Text /\ DOMAIN P = DOMAIN O
    BY <1>2, <1>7, TextsAre DEF OwnersSay
  <2>2. Changed(O, w.heap, P, v.heap, s, <<>>)
    BY ONLY <1>1, <1>3, <1>5, <1>9, <2>1, OwnNew, a \in Addrs, w.heap[a] = FREED
  <2> QED BY <2>2 DEF Changed
<1>11. Good(c, v, H, D)
  BY <1>1, <1>5, <1>6, <1>10 DEF Good, P
<1>12. \A n \in DOMAIN w.obj : v.obj[n].has = w.obj[n].has
  BY <1>4, <1>5
<1>13. w.heap[0] = <<>>
  BY <1>1 DEF Own
<1>14. \A n \in DOMAIN w.obj, g \in NamesOf(c) :
         (StringIn(c, g) => <<n, g>> \in D) => Same(c, w, v, n, g)
  <2> SUFFICES ASSUME NEW n \in DOMAIN w.obj, NEW g \in NamesOf(c),
                      StringIn(c, g) => <<n, g>> \in D
               PROVE  Same(c, w, v, n, g)
    OBVIOUS
  <2>1. HasIn(c, v, n, g) <=> HasIn(c, w, n, g)
    BY <1>12 DEF HasIn
  <2>2. CASE StringIn(c, g)
    <3>1. /\ <<n, g>> \in DOMAIN O /\ O[<<n, g>>] = w.obj[n].member[g]
          /\ P[<<n, g>>] = v.obj[n].member[g]
      BY <1>2, <1>7, <2>2 DEF OwnersSay
    <3>2. v.heap[P[<<n, g>>]] = w.heap[O[<<n, g>>]]
      BY <1>3, <1>10, <1>13, <3>1
    <3> QED BY <2>1, <2>2, <3>1, <3>2 DEF Same, Owning, GetIn
  <2>3. CASE ~StringIn(c, g)
    <3>1. <<n, g>> # s
      BY <1>3, <2>3
    <3> QED BY <1>8, <2>1, <2>3, <3>1 DEF Same, Owning, GetIn
  <2> QED BY <2>2, <2>3
<1>15. \A h \in Hands : H[h] # NULL => v.heap[H[h]] = w.heap[H[h]]
  <2> SUFFICES ASSUME NEW h \in Hands, H[h] # NULL PROVE v.heap[H[h]] = w.heap[H[h]]
    OBVIOUS
  <2>1. /\ <<h, "hand">> \in DOMAIN O /\ O[<<h, "hand">>] = H[h] /\ <<h, "hand">> # s
        /\ P[<<h, "hand">>] = H[h]
    BY <1>2, <1>7 DEF OwnersSay
  <2> QED BY <1>10, <2>1
<1> QED BY <1>4, <1>5, <1>11, <1>14, <1>15 DEF Kept, Made
-----------------------------------------------------------------------------
(* The calls' parts, on a good world whose strings are all counted.        *)
Full(w) == Slots(class, w.obj)
Alters(w, v, H, S) ==
  /\ Good(class, v, H, Full(v)) /\ Full(v) = Full(w)
  /\ Kept(class, w, v, H, Full(w), S)

LEMMA FullIs ==
  ASSUME NEW w, NEW v, DOMAIN v.obj = DOMAIN w.obj
  PROVE  Full(v) = Full(w)
BY DEF Full, Slots

LEMMA InFull ==
  ASSUME NEW w, NEW m \in DOMAIN w.obj, NEW f \in NamesOf(class), StringIn(class, f)
  PROVE  <<m, f>> \in Full(w)
BY DEF Full, Slots

LEMMA AltersBy ==
  ASSUME NEW w, NEW v, NEW H, NEW S, Good(class, v, H, Full(w)), Kept(class, w, v, H, Full(w), S)
  PROVE  Alters(w, v, H, S) /\ DOMAIN v.obj = DOMAIN w.obj
BY FullIs DEF Alters, Kept

LEMMA AltersTwice ==
  ASSUME NEW w, NEW u, NEW v, NEW H, NEW S, NEW T, S \subseteq T, Alters(w, u, H, S), Alters(u, v, H, T)
  PROVE  Alters(w, v, H, T)
<1>1. Kept(class, w, u, H, Full(w), T)
  BY KeptMore DEF Alters
<1>2. Kept(class, w, v, H, Full(w), T)
  BY <1>1, KeptTwice DEF Alters
<1> QED BY <1>2 DEF Alters

LEMMA FreshIs ==
  ASSUME NEW w, \E a \in Addrs : w.heap[a] = FREED
  PROVE  Fresh(w) \in Addrs /\ w.heap[Fresh(w)] = FREED
<1> DEFINE R == {ss \in Nat \X Nat : ss[1] < ss[2]}
           T == {a \in Addrs : w.heap[a] = FREED}
<1>1. IsWellFoundedOn(R, Nat)
  BY NatLessThanWellFounded DEF OpToRel
<1>2. T \subseteq Nat /\ T # {} /\ Addrs \subseteq Nat
  BY MessagesAssumption
<1> PICK a \in T : \A b \in T : <<b, a>> \notin R
  <2> HIDE DEF R, T
  <2> QED BY <1>1, <1>2, WFMin
<1>3. w.heap[a] = FREED /\ \A b \in Addrs : w.heap[b] = FREED => a <= b
  <2> SUFFICES ASSUME NEW b \in Addrs, w.heap[b] = FREED PROVE a <= b
    OBVIOUS
  <2>1. ~(b < a) /\ a \in Nat /\ b \in Nat
    BY <1>2
  <2> QED BY <2>1
<1>4. a \in Addrs
  OBVIOUS
<1> HIDE DEF T
<1> QED BY <1>3, <1>4 DEF Fresh

LEMMA MutableIs ==
  ASSUME NEW w, NEW H, Good(class, w, H, Full(w)), NEW m \in DOMAIN w.obj,
         NEW f \in NamesOf(class), StringIn(class, f), NEW v, v = mutable(w, m, f)
  PROVE  /\ Alters(w, v, H, {<<m, f>>}) /\ v.obj[m].member[f] # 0
         /\ HasIn(class, v, m, f)
<1> DEFINE u == set_has(w, m, f)
<1>1. u = [w EXCEPT !.obj[m].has = @ \cup {BitIn(class, f)}]
  BY DEF set_has, Bit, BitIn
<1>2. /\ Good(class, u, H, Full(w)) /\ Kept(class, w, u, H, Full(w), {<<m, f>>})
      /\ u.heap = w.heap /\ HasIn(class, u, m, f)
      /\ \A n \in DOMAIN w.obj : u.obj[n].member = w.obj[n].member
  <2>1. HasMade(class, w, u, H, Full(w), m, f, TRUE)
    BY <1>1, GoodHasMore
  <2> QED BY <2>1 DEF HasMade
<1>3. Known(class) /\ <<m, f>> \in Full(w)
  BY InFull DEF Good
<1> HIDE DEF u
<1>4. CASE w.obj[m].member[f] # 0
  <2>1. v = u
    BY <1>4 DEF mutable, pointer, kEmptyString, u
  <2>2. Alters(w, u, H, {<<m, f>>})
    BY <1>2, AltersBy
  <2> QED BY <1>2, <1>4, <2>1, <2>2
<1>5. CASE w.obj[m].member[f] = 0
  <2> DEFINE a == Fresh(w)
             t == set_pointer(u, m, f, a)
             O == Owners(w, H, Full(w))
  <2>1. a \in Addrs /\ w.heap[a] = FREED
    <3>1. OwnersSay(class, w, H, Full(w), O)
      BY <1>3, OwnersAre DEF Full
    <3>2. <<m, f>> \in DOMAIN O /\ O[<<m, f>>] = 0
      BY <1>3, <1>5, <3>1 DEF OwnersSay
    <3>3. DOMAIN O \subseteq AllSlots(class)
      BY DEF Owners, Full, Slots, AllSlots, Good, IsWorld
    <3>4. Own(O, w.heap)
      BY DEF Good
    <3> HIDE DEF O
    <3>5. \E b \in Addrs : w.heap[b] = FREED
      BY <1>3, <3>2, <3>3, <3>4, RoomLeft
    <3> QED BY <3>5, FreshIs
  <2>2. t = [u EXCEPT !.obj[m].member[f] = a] /\ v = [t EXCEPT !.heap[a] = <<>>]
    BY <1>5 DEF mutable, pointer, kEmptyString, u, set_pointer, set_string
  <2> HIDE DEF a, t
  <2>3. u.obj[m].member[f] = 0 /\ u.heap[a] = FREED
    BY <1>2, <1>5, <2>1
  <2>4. /\ Good(class, v, H, Full(w)) /\ Kept(class, u, v, H, Full(w), {})
        /\ v.obj[m].member[f] = a
    <3>1. Made(class, u, v, H, Full(w), m, f, a)
      BY ONLY <1>2, <1>3, <2>1, <2>2, <2>3, GoodNew
    <3> QED BY <3>1 DEF Made
  <2>5. Kept(class, u, v, H, Full(w), {<<m, f>>})
    BY <2>4, KeptMore
  <2>6. Kept(class, w, v, H, Full(w), {<<m, f>>})
    BY <1>2, <2>5, KeptTwice
  <2>7. m \in DOMAIN u.obj
    BY <1>2 DEF Kept
  <2>8. HasIn(class, v, m, f)
    BY <1>2, <1>3, <2>4, <2>7 DEF Kept, Same
  <2>9. Alters(w, v, H, {<<m, f>>})
    BY <2>4, <2>6, AltersBy
  <2> QED BY <2>1, <2>4, <2>8, <2>9, TextsAre
<1> QED BY <1>4, <1>5

(* What a call makes a member be.                                          *)
Becomes(w, v, H, m, f, isSet, x) ==
  /\ Alters(w, v, H, {<<m, f>>}) /\ DOMAIN v.obj = DOMAIN w.obj
  /\ HasIn(class, v, m, f) <=> isSet
  /\ GetIn(class, v, m, f) = x
  /\ Owning(class, w, m, f) => Owning(class, v, m, f)
IsValueOf(f, x) == IF StringIn(class, f) THEN x \in Text ELSE IsValue(TypeIn(class, f), x)

LEMMA SetIs ==
  ASSUME NEW w, NEW H, Good(class, w, H, Full(w)), NEW m \in DOMAIN w.obj,
         NEW f \in NamesOf(class), NEW x, IsValueOf(f, x), NEW v, v = set(w, m, f, x)
  PROVE  Becomes(w, v, H, m, f, TRUE, x)
<1>1. Type(f) = TypeIn(class, f) /\ (IsString(f) <=> StringIn(class, f))
  BY DEF Type, TypeIn, Number, NumberIn, IsString, StringIn
<1>2. CASE StringIn(class, f)
  <2> DEFINE u == mutable(w, m, f)
             p == u.obj[m].member[f]
  <2>1. x \in Text
    BY <1>2 DEF IsValueOf
  <2>2. /\ Alters(w, u, H, {<<m, f>>}) /\ p # 0 /\ HasIn(class, u, m, f)
    BY <1>2, MutableIs
  <2>3. v = [u EXCEPT !.heap[p] = x]
    BY <1>1, <1>2 DEF set, set_string, pointer
  <2> HIDE DEF u
  <2>4. Good(class, u, H, Full(u)) /\ <<m, f>> \in Full(u) /\ DOMAIN u.obj = DOMAIN w.obj
    BY <1>2, <2>2, InFull DEF Alters, Kept
  <2>5. /\ Good(class, v, H, Full(u)) /\ Kept(class, u, v, H, Full(u), {<<m, f>>}) /\ v.obj = u.obj
        /\ GetIn(class, v, m, f) = x
    <3>1. Written(class, u, v, H, Full(u), m, f, x)
      BY ONLY <2>1, <2>2, <2>3, <2>4, GoodWrite
    <3> QED BY <3>1 DEF Written
  <2>6. Alters(w, v, H, {<<m, f>>})
    <3>1. Alters(u, v, H, {<<m, f>>})
      BY <2>5, AltersBy
    <3> QED BY <2>2, <3>1, AltersTwice
  <2>7. HasIn(class, v, m, f)
    BY <2>2, <2>5 DEF HasIn
  <2>8. Owning(class, v, m, f)
    BY <2>2, <2>5 DEF Owning
  <2> QED BY <2>4, <2>5, <2>6, <2>7, <2>8 DEF Becomes
<1>3. CASE ~StringIn(class, f)
  <2> DEFINE u == set_has(w, m, f)
  <2>1. u = [w EXCEPT !.obj[m].has = @ \cup {BitIn(class, f)}]
    BY DEF set_has, Bit, BitIn
  <2>2. /\ Good(class, u, H, Full(w)) /\ Kept(class, w, u, H, Full(w), {<<m, f>>})
        /\ HasIn(class, u, m, f)
    <3>1. HasMade(class, w, u, H, Full(w), m, f, TRUE)
      BY <2>1, GoodHasMore
    <3> QED BY <3>1 DEF HasMade
  <2>3. v = [u EXCEPT !.obj[m].member[f] = x] /\ IsValue(TypeIn(class, f), x)
    BY <1>1, <1>3 DEF set, IsValueOf
  <2> HIDE DEF u
  <2>4. m \in DOMAIN u.obj
    BY <2>2 DEF Kept
  <2>5. /\ Good(class, v, H, Full(w)) /\ Kept(class, u, v, H, Full(w), {<<m, f>>})
        /\ HasIn(class, v, m, f) /\ GetIn(class, v, m, f) = x
    BY <1>3, <2>2, <2>3, <2>4, GoodScalar
  <2>6. Kept(class, w, v, H, Full(w), {<<m, f>>})
    BY <2>2, <2>5, KeptTwice
  <2>7. Alters(w, v, H, {<<m, f>>}) /\ DOMAIN v.obj = DOMAIN w.obj
    BY <2>5, <2>6, AltersBy
  <2> QED BY <1>3, <2>5, <2>7 DEF Becomes, Owning
<1> QED BY <1>2, <1>3

LEMMA EmptyIs ==
  ASSUME NEW w, NEW H, Good(class, w, H, Full(w)), NEW m \in DOMAIN w.obj,
         NEW f \in NamesOf(class), NEW v, v = empty(w, m, f)
  PROVE  Becomes(w, v, H, m, f, HasIn(class, w, m, f), BlankIn(class, f))
<1>0. Known(class)
  BY DEF Good
<1>1. Type(f) = TypeIn(class, f) /\ (IsString(f) <=> StringIn(class, f))
  BY DEF Type, TypeIn, Number, NumberIn, IsString, StringIn
<1>2. CASE ~StringIn(class, f)
  <2>1. v = [w EXCEPT !.obj[m].member[f] = _ctor[class][f]]
    BY <1>1, <1>2 DEF empty
  <2>2. IsValue(TypeIn(class, f), _ctor[class][f])
    BY <1>0, <1>2, NamesAre
  <2>3. /\ Good(class, v, H, Full(w)) /\ Kept(class, w, v, H, Full(w), {<<m, f>>})
        /\ (HasIn(class, v, m, f) <=> HasIn(class, w, m, f)) /\ GetIn(class, v, m, f) = _ctor[class][f]
    BY <1>2, <2>1, <2>2, GoodScalar
  <2>4. Alters(w, v, H, {<<m, f>>}) /\ DOMAIN v.obj = DOMAIN w.obj
    BY <2>3, AltersBy
  <2> QED BY <1>2, <2>3, <2>4 DEF Becomes, BlankIn, Owning
<1>3. CASE StringIn(class, f) /\ w.obj[m].member[f] # 0
  <2>1. v = [w EXCEPT !.heap[w.obj[m].member[f]] = <<>>]
    BY <1>1, <1>3 DEF empty, pointer, kEmptyString, set_string
  <2>2. <<m, f>> \in Full(w) /\ <<>> \in Text
    BY <1>3, InFull, TextsAre
  <2>3. /\ Good(class, v, H, Full(w)) /\ Kept(class, w, v, H, Full(w), {<<m, f>>}) /\ v.obj = w.obj
        /\ GetIn(class, v, m, f) = <<>>
    <3>1. Written(class, w, v, H, Full(w), m, f, <<>>)
      BY <1>3, <2>1, <2>2, GoodWrite
    <3> QED BY <3>1 DEF Written
  <2>4. Alters(w, v, H, {<<m, f>>}) /\ DOMAIN v.obj = DOMAIN w.obj
    BY <2>3, AltersBy
  <2>5. HasIn(class, v, m, f) <=> HasIn(class, w, m, f)
    BY <2>3 DEF HasIn
  <2> QED BY <1>3, <2>3, <2>4, <2>5 DEF Becomes, BlankIn, Owning
<1>4. CASE StringIn(class, f) /\ w.obj[m].member[f] = 0
  <2>1. v = w
    BY <1>1, <1>4 DEF empty, pointer, kEmptyString
  <2>2. Kept(class, w, w, H, Full(w), {<<m, f>>})
    BY DEF Kept, Same
  <2>3. Alters(w, v, H, {<<m, f>>}) /\ DOMAIN v.obj = DOMAIN w.obj
    BY <2>1, <2>2, AltersBy
  <2>4. GetIn(class, w, m, f) = <<>>
    BY <1>4 DEF GetIn, Good, Own
  <2> QED BY <1>4, <2>1, <2>3, <2>4 DEF Becomes, BlankIn
<1> QED BY <1>2, <1>3, <1>4

LEMMA ClearIs ==
  ASSUME NEW w, NEW H, Good(class, w, H, Full(w)), NEW m \in DOMAIN w.obj,
         NEW f \in NamesOf(class), NEW v, v = clear(w, m, f)
  PROVE  Becomes(w, v, H, m, f, FALSE, BlankIn(class, f))
<1> DEFINE u == empty(w, m, f)
<1>1. Becomes(w, u, H, m, f, HasIn(class, w, m, f), BlankIn(class, f))
  BY EmptyIs
<1>2. v = [u EXCEPT !.obj[m].has = @ \ {BitIn(class, f)}]
  BY DEF clear, clear_has, Bit, BitIn
<1> HIDE DEF u
<1>3. Good(class, u, H, Full(u)) /\ m \in DOMAIN u.obj /\ DOMAIN u.obj = DOMAIN w.obj
  BY <1>1 DEF Becomes, Alters
<1>4. /\ Good(class, v, H, Full(u)) /\ Kept(class, u, v, H, Full(u), {<<m, f>>})
      /\ ~HasIn(class, v, m, f) /\ GetIn(class, v, m, f) = GetIn(class, u, m, f)
  <2>1. HasMade(class, u, v, H, Full(u), m, f, FALSE)
    BY <1>2, <1>3, GoodHasLess
  <2> QED BY <2>1 DEF HasMade
<1>5. Alters(u, v, H, {<<m, f>>}) /\ DOMAIN v.obj = DOMAIN u.obj
  BY <1>4, AltersBy
<1>6. Alters(w, v, H, {<<m, f>>})
  BY <1>1, <1>5, AltersTwice DEF Becomes
<1> QED BY <1>1, <1>3, <1>4, <1>5, <1>6 DEF Becomes, Owning
-----------------------------------------------------------------------------
(* The calls go through the members of a class, of which there are three   *)
(* at most, from the first to the last.                                    *)
LEMMA MaxOf3 ==
  ASSUME NEW S, S \subseteq {1, 2, 3}, NEW k \in S, \A x \in S : x <= k
  PROVE  Max(S) = k
<1>1. \A x \in S : k >= x
  OBVIOUS
<1>2. \A x \in S : (\A y \in S : x >= y) => x = k
  BY <1>1
<1> QED BY <1>1, <1>2 DEF Max

LEMMA MaxOfThree ==
  ASSUME NEW S, S \subseteq {1, 2, 3}
  PROVE  /\ 3 \in S => Max(S) = 3
         /\ 3 \notin S /\ 2 \in S => Max(S) = 2
         /\ 3 \notin S /\ 2 \notin S /\ 1 \in S => Max(S) = 1
<1>1. ASSUME 3 \in S PROVE Max(S) = 3
  <2>1. \A x \in S : x <= 3
    OBVIOUS
  <2> QED BY <1>1, <2>1, MaxOf3
<1>2. ASSUME 3 \notin S, 2 \in S PROVE Max(S) = 2
  <2>1. \A x \in S : x <= 2
    BY <1>2
  <2> QED BY <1>2, <2>1, MaxOf3
<1>3. ASSUME 3 \notin S, 2 \notin S, 1 \in S PROVE Max(S) = 1
  <2>1. \A x \in S : x <= 1
    BY <1>3
  <2> QED BY <1>3, <2>1, MaxOf3
<1> QED BY <1>1, <1>2, <1>3

(* Members are deleted, one after the other.                               *)
OneDeleted(m, u, f) == delete(u, m, f)
RunsDelete(m, t, w, s, k) ==
  t[0] = w /\ \A i \in 1 .. k : t[i] = OneDeleted(m, t[i - 1], s[i])
StepsDelete(m, w, s, k) ==
  \E t : RunsDelete(m, t, w, s, k) /\ FoldLeft(LAMBDA u, f : OneDeleted(m, u, f), w, s) = t[k]

LEMMA DeleteFolds ==
  ASSUME NEW m, NEW w, NEW s, NEW k \in 1 .. 3, DOMAIN s = 1 .. k
  PROVE  StepsDelete(m, w, s, k)
<1> DEFINE It(it) == [S \in SUBSET (1 .. k) |->
                        IF S = {} THEN w ELSE OneDeleted(m, it[S \ {Max(S)}], s[Max(S)])]
           it == CHOOSE x : x = It(x)
           a(S) == IF 1 \in S THEN OneDeleted(m, w, s[1]) ELSE w
           b(S) == IF 2 \in S THEN OneDeleted(m, a(S), s[2]) ELSE a(S)
           c(S) == IF 3 \in S THEN OneDeleted(m, b(S), s[3]) ELSE b(S)
           that == [S \in SUBSET (1 .. k) |-> c(S)]
<1>1. FoldLeft(LAMBDA u, f : OneDeleted(m, u, f), w, s) = it[1 .. k]
  BY DEF FoldLeft, MapThenFoldSet
<1>2. ASSUME NEW S \in SUBSET (1 .. k)
      PROVE  that[S] = IF S = {} THEN w ELSE OneDeleted(m, that[S \ {Max(S)}], s[Max(S)])
  <2>0. S \subseteq {1, 2, 3}
    OBVIOUS
  <2>1. CASE 3 \in S
    <3>1. Max(S) = 3
      BY ONLY <2>0, <2>1, MaxOfThree
    <3>2. a(S \ {3}) = a(S) /\ b(S \ {3}) = b(S) /\ c(S \ {3}) = b(S) /\ c(S) = OneDeleted(m, b(S), s[3])
      BY <2>1
    <3>3. that[S] = c(S) /\ that[S \ {3}] = c(S \ {3})
      OBVIOUS
    <3> QED BY ONLY <2>1, <3>1, <3>2, <3>3
  <2>2. CASE 3 \notin S /\ 2 \in S
    <3>1. Max(S) = 2
      BY ONLY <2>0, <2>2, MaxOfThree
    <3>2. a(S \ {2}) = a(S) /\ c(S \ {2}) = a(S) /\ c(S) = OneDeleted(m, a(S), s[2])
      BY <2>2
    <3>3. that[S] = c(S) /\ that[S \ {2}] = c(S \ {2})
      OBVIOUS
    <3> QED BY ONLY <2>2, <3>1, <3>2, <3>3
  <2>3. CASE 3 \notin S /\ 2 \notin S /\ 1 \in S
    <3>1. Max(S) = 1
      BY ONLY <2>0, <2>3, MaxOfThree
    <3>2. c(S \ {1}) = w /\ c(S) = OneDeleted(m, w, s[1])
      BY <2>3
    <3>3. that[S] = c(S) /\ that[S \ {1}] = c(S \ {1})
      OBVIOUS
    <3> QED BY ONLY <2>3, <3>1, <3>2, <3>3
  <2>4. CASE S = {}
    BY <2>4
  <2> QED BY <2>0, <2>1, <2>2, <2>3, <2>4
<1>3. that = [S \in SUBSET (1 .. k) |-> that[S]]
  OBVIOUS
<1> HIDE DEF that
<1>4. that = It(that)
  BY <1>2, <1>3, Zenon
<1>5. it = It(it)
  BY <1>4
<1> HIDE DEF it
<1>6. \A S \in SUBSET (1 .. k) :
        it[S] = IF S = {} THEN w ELSE OneDeleted(m, it[S \ {Max(S)}], s[Max(S)])
  BY <1>5
<1> DEFINE t == [i \in 0 .. k |-> it[1 .. i]]
<1>7. t[0] = w
  <2>1. 1 .. 0 = {} /\ 1 .. 0 \in SUBSET (1 .. k) /\ 0 \in 0 .. k
    OBVIOUS
  <2>2. it[1 .. 0] = w
    BY ONLY <1>6, <2>1
  <2> QED BY <2>1, <2>2
<1>8. ASSUME NEW i \in 1 .. k
      PROVE  t[i] = OneDeleted(m, t[i - 1], s[i])
  <2>1. /\ 1 .. i \in SUBSET (1 .. k) /\ 1 .. i # {} /\ (1 .. i) \ {i} = 1 .. i - 1
        /\ i \in 0 .. k /\ i - 1 \in 0 .. k
    OBVIOUS
  <2>2. Max(1 .. i) = i
    <3>1. i \in 1 .. i /\ 1 .. i \subseteq {1, 2, 3} /\ \A x \in 1 .. i : x <= i
      OBVIOUS
    <3> QED BY <3>1, MaxOf3
  <2>3. it[1 .. i] = OneDeleted(m, it[(1 .. i) \ {Max(1 .. i)}], s[Max(1 .. i)])
    BY ONLY <1>6, <2>1, Zenon
  <2>4. t[i] = it[1 .. i] /\ t[i - 1] = it[1 .. i - 1]
    BY <2>1
  <2> HIDE DEF t
  <2> QED BY ONLY <2>1, <2>2, <2>3, <2>4
<1>9. t[k] = it[1 .. k]
  OBVIOUS
<1> HIDE DEF t
<1> QED BY <1>1, <1>7, <1>8, <1>9 DEF StepsDelete, RunsDelete

(* Members are emptied, where they are set.                                *)
OneReset(m, u, f) == IF IsString(f) /\ ~has(u, m, f) THEN u ELSE empty(u, m, f)
RunsReset(m, t, w, s, k) ==
  t[0] = w /\ \A i \in 1 .. k : t[i] = OneReset(m, t[i - 1], s[i])
StepsReset(m, w, s, k) ==
  \E t : RunsReset(m, t, w, s, k) /\ FoldLeft(LAMBDA u, f : OneReset(m, u, f), w, s) = t[k]

LEMMA ResetFolds ==
  ASSUME NEW m, NEW w, NEW s, NEW k \in 1 .. 3, DOMAIN s = 1 .. k
  PROVE  StepsReset(m, w, s, k)
<1> DEFINE It(it) == [S \in SUBSET (1 .. k) |->
                        IF S = {} THEN w ELSE OneReset(m, it[S \ {Max(S)}], s[Max(S)])]
           it == CHOOSE x : x = It(x)
           a(S) == IF 1 \in S THEN OneReset(m, w, s[1]) ELSE w
           b(S) == IF 2 \in S THEN OneReset(m, a(S), s[2]) ELSE a(S)
           c(S) == IF 3 \in S THEN OneReset(m, b(S), s[3]) ELSE b(S)
           that == [S \in SUBSET (1 .. k) |-> c(S)]
<1>1. FoldLeft(LAMBDA u, f : OneReset(m, u, f), w, s) = it[1 .. k]
  BY DEF FoldLeft, MapThenFoldSet
<1>2. ASSUME NEW S \in SUBSET (1 .. k)
      PROVE  that[S] = IF S = {} THEN w ELSE OneReset(m, that[S \ {Max(S)}], s[Max(S)])
  <2>0. S \subseteq {1, 2, 3}
    OBVIOUS
  <2>1. CASE 3 \in S
    <3>1. Max(S) = 3
      BY ONLY <2>0, <2>1, MaxOfThree
    <3>2. a(S \ {3}) = a(S) /\ b(S \ {3}) = b(S) /\ c(S \ {3}) = b(S) /\ c(S) = OneReset(m, b(S), s[3])
      BY <2>1
    <3>3. that[S] = c(S) /\ that[S \ {3}] = c(S \ {3})
      OBVIOUS
    <3> QED BY ONLY <2>1, <3>1, <3>2, <3>3
  <2>2. CASE 3 \notin S /\ 2 \in S
    <3>1. Max(S) = 2
      BY ONLY <2>0, <2>2, MaxOfThree
    <3>2. a(S \ {2}) = a(S) /\ c(S \ {2}) = a(S) /\ c(S) = OneReset(m, a(S), s[2])
      BY <2>2
    <3>3. that[S] = c(S) /\ that[S \ {2}] = c(S \ {2})
      OBVIOUS
    <3> QED BY ONLY <2>2, <3>1, <3>2, <3>3
  <2>3. CASE 3 \notin S /\ 2 \notin S /\ 1 \in S
    <3>1. Max(S) = 1
      BY ONLY <2>0, <2>3, MaxOfThree
    <3>2. c(S \ {1}) = w /\ c(S) = OneReset(m, w, s[1])
      BY <2>3
    <3>3. that[S] = c(S) /\ that[S \ {1}] = c(S \ {1})
      OBVIOUS
    <3> QED BY ONLY <2>3, <3>1, <3>2, <3>3
  <2>4. CASE S = {}
    BY <2>4
  <2> QED BY <2>0, <2>1, <2>2, <2>3, <2>4
<1>3. that = [S \in SUBSET (1 .. k) |-> that[S]]
  OBVIOUS
<1> HIDE DEF that
<1>4. that = It(that)
  BY <1>2, <1>3, Zenon
<1>5. it = It(it)
  BY <1>4
<1> HIDE DEF it
<1>6. \A S \in SUBSET (1 .. k) :
        it[S] = IF S = {} THEN w ELSE OneReset(m, it[S \ {Max(S)}], s[Max(S)])
  BY <1>5
<1> DEFINE t == [i \in 0 .. k |-> it[1 .. i]]
<1>7. t[0] = w
  <2>1. 1 .. 0 = {} /\ 1 .. 0 \in SUBSET (1 .. k) /\ 0 \in 0 .. k
    OBVIOUS
  <2>2. it[1 .. 0] = w
    BY ONLY <1>6, <2>1
  <2> QED BY <2>1, <2>2
<1>8. ASSUME NEW i \in 1 .. k
      PROVE  t[i] = OneReset(m, t[i - 1], s[i])
  <2>1. /\ 1 .. i \in SUBSET (1 .. k) /\ 1 .. i # {} /\ (1 .. i) \ {i} = 1 .. i - 1
        /\ i \in 0 .. k /\ i - 1 \in 0 .. k
    OBVIOUS
  <2>2. Max(1 .. i) = i
    <3>1. i \in 1 .. i /\ 1 .. i \subseteq {1, 2, 3} /\ \A x \in 1 .. i : x <= i
      OBVIOUS
    <3> QED BY <3>1, MaxOf3
  <2>3. it[1 .. i] = OneReset(m, it[(1 .. i) \ {Max(1 .. i)}], s[Max(1 .. i)])
    BY ONLY <1>6, <2>1, Zenon
  <2>4. t[i] = it[1 .. i] /\ t[i - 1] = it[1 .. i - 1]
    BY <2>1
  <2> HIDE DEF t
  <2> QED BY ONLY <2>1, <2>2, <2>3, <2>4
<1>9. t[k] = it[1 .. k]
  OBVIOUS
<1> HIDE DEF t
<1> QED BY <1>1, <1>7, <1>8, <1>9 DEF StepsReset, RunsReset

(* Members are copied from n to m.                                         *)
OneCopied(m, n, u, f) == IF has(u, n, f) THEN set(u, m, f, get(u, n, f)) ELSE u
RunsCopy(m, n, t, w, s, k) ==
  t[0] = w /\ \A i \in 1 .. k : t[i] = OneCopied(m, n, t[i - 1], s[i])
StepsCopy(m, n, w, s, k) ==
  \E t : RunsCopy(m, n, t, w, s, k) /\ FoldLeft(LAMBDA u, f : OneCopied(m, n, u, f), w, s) = t[k]

LEMMA CopyFolds ==
  ASSUME NEW m, NEW n, NEW w, NEW s, NEW k \in 1 .. 3, DOMAIN s = 1 .. k
  PROVE  StepsCopy(m, n, w, s, k)
<1> DEFINE It(it) == [S \in SUBSET (1 .. k) |->
                        IF S = {} THEN w ELSE OneCopied(m, n, it[S \ {Max(S)}], s[Max(S)])]
           it == CHOOSE x : x = It(x)
           a(S) == IF 1 \in S THEN OneCopied(m, n, w, s[1]) ELSE w
           b(S) == IF 2 \in S THEN OneCopied(m, n, a(S), s[2]) ELSE a(S)
           c(S) == IF 3 \in S THEN OneCopied(m, n, b(S), s[3]) ELSE b(S)
           that == [S \in SUBSET (1 .. k) |-> c(S)]
<1>1. FoldLeft(LAMBDA u, f : OneCopied(m, n, u, f), w, s) = it[1 .. k]
  BY DEF FoldLeft, MapThenFoldSet
<1>2. ASSUME NEW S \in SUBSET (1 .. k)
      PROVE  that[S] = IF S = {} THEN w ELSE OneCopied(m, n, that[S \ {Max(S)}], s[Max(S)])
  <2>0. S \subseteq {1, 2, 3}
    OBVIOUS
  <2>1. CASE 3 \in S
    <3>1. Max(S) = 3
      BY ONLY <2>0, <2>1, MaxOfThree
    <3>2. a(S \ {3}) = a(S) /\ b(S \ {3}) = b(S) /\ c(S \ {3}) = b(S) /\ c(S) = OneCopied(m, n, b(S), s[3])
      BY <2>1
    <3>3. that[S] = c(S) /\ that[S \ {3}] = c(S \ {3})
      OBVIOUS
    <3> QED BY ONLY <2>1, <3>1, <3>2, <3>3
  <2>2. CASE 3 \notin S /\ 2 \in S
    <3>1. Max(S) = 2
      BY ONLY <2>0, <2>2, MaxOfThree
    <3>2. a(S \ {2}) = a(S) /\ c(S \ {2}) = a(S) /\ c(S) = OneCopied(m, n, a(S), s[2])
      BY <2>2
    <3>3. that[S] = c(S) /\ that[S \ {2}] = c(S \ {2})
      OBVIOUS
    <3> QED BY ONLY <2>2, <3>1, <3>2, <3>3
  <2>3. CASE 3 \notin S /\ 2 \notin S /\ 1 \in S
    <3>1. Max(S) = 1
      BY ONLY <2>0, <2>3, MaxOfThree
    <3>2. c(S \ {1}) = w /\ c(S) = OneCopied(m, n, w, s[1])
      BY <2>3
    <3>3. that[S] = c(S) /\ that[S \ {1}] = c(S \ {1})
      OBVIOUS
    <3> QED BY ONLY <2>3, <3>1, <3>2, <3>3
  <2>4. CASE S = {}
    BY <2>4
  <2> QED BY <2>0, <2>1, <2>2, <2>3, <2>4
<1>3. that = [S \in SUBSET (1 .. k) |-> that[S]]
  OBVIOUS
<1> HIDE DEF that
<1>4. that = It(that)
  BY <1>2, <1>3, Zenon
<1>5. it = It(it)
  BY <1>4
<1> HIDE DEF it
<1>6. \A S \in SUBSET (1 .. k) :
        it[S] = IF S = {} THEN w ELSE OneCopied(m, n, it[S \ {Max(S)}], s[Max(S)])
  BY <1>5
<1> DEFINE t == [i \in 0 .. k |-> it[1 .. i]]
<1>7. t[0] = w
  <2>1. 1 .. 0 = {} /\ 1 .. 0 \in SUBSET (1 .. k) /\ 0 \in 0 .. k
    OBVIOUS
  <2>2. it[1 .. 0] = w
    BY ONLY <1>6, <2>1
  <2> QED BY <2>1, <2>2
<1>8. ASSUME NEW i \in 1 .. k
      PROVE  t[i] = OneCopied(m, n, t[i - 1], s[i])
  <2>1. /\ 1 .. i \in SUBSET (1 .. k) /\ 1 .. i # {} /\ (1 .. i) \ {i} = 1 .. i - 1
        /\ i \in 0 .. k /\ i - 1 \in 0 .. k
    OBVIOUS
  <2>2. Max(1 .. i) = i
    <3>1. i \in 1 .. i /\ 1 .. i \subseteq {1, 2, 3} /\ \A x \in 1 .. i : x <= i
      OBVIOUS
    <3> QED BY <3>1, MaxOf3
  <2>3. it[1 .. i] = OneCopied(m, n, it[(1 .. i) \ {Max(1 .. i)}], s[Max(1 .. i)])
    BY ONLY <1>6, <2>1, Zenon
  <2>4. t[i] = it[1 .. i] /\ t[i - 1] = it[1 .. i - 1]
    BY <2>1
  <2> HIDE DEF t
  <2> QED BY ONLY <2>1, <2>2, <2>3, <2>4
<1>9. t[k] = it[1 .. k]
  OBVIOUS
<1> HIDE DEF t
<1> QED BY <1>1, <1>7, <1>8, <1>9 DEF StepsCopy, RunsCopy

(* Members are read from bytes.                                            *)
OneRead(m, fields, u, f) == 
  IF Number(f) \in DOMAIN fields THEN set(u, m, f, fields[Number(f)]) ELSE u
RunsRead(m, fields, t, w, s, k) ==
  t[0] = w /\ \A i \in 1 .. k : t[i] = OneRead(m, fields, t[i - 1], s[i])
StepsRead(m, fields, w, s, k) ==
  \E t : RunsRead(m, fields, t, w, s, k) /\ FoldLeft(LAMBDA u, f : OneRead(m, fields, u, f), w, s) = t[k]

LEMMA ReadFolds ==
  ASSUME NEW m, NEW fields, NEW w, NEW s, NEW k \in 1 .. 3, DOMAIN s = 1 .. k
  PROVE  StepsRead(m, fields, w, s, k)
<1> DEFINE It(it) == [S \in SUBSET (1 .. k) |->
                        IF S = {} THEN w ELSE OneRead(m, fields, it[S \ {Max(S)}], s[Max(S)])]
           it == CHOOSE x : x = It(x)
           a(S) == IF 1 \in S THEN OneRead(m, fields, w, s[1]) ELSE w
           b(S) == IF 2 \in S THEN OneRead(m, fields, a(S), s[2]) ELSE a(S)
           c(S) == IF 3 \in S THEN OneRead(m, fields, b(S), s[3]) ELSE b(S)
           that == [S \in SUBSET (1 .. k) |-> c(S)]
<1>1. FoldLeft(LAMBDA u, f : OneRead(m, fields, u, f), w, s) = it[1 .. k]
  BY DEF FoldLeft, MapThenFoldSet
<1>2. ASSUME NEW S \in SUBSET (1 .. k)
      PROVE  that[S] = IF S = {} THEN w ELSE OneRead(m, fields, that[S \ {Max(S)}], s[Max(S)])
  <2>0. S \subseteq {1, 2, 3}
    OBVIOUS
  <2>1. CASE 3 \in S
    <3>1. Max(S) = 3
      BY ONLY <2>0, <2>1, MaxOfThree
    <3>2. a(S \ {3}) = a(S) /\ b(S \ {3}) = b(S) /\ c(S \ {3}) = b(S) /\ c(S) = OneRead(m, fields, b(S), s[3])
      BY <2>1
    <3>3. that[S] = c(S) /\ that[S \ {3}] = c(S \ {3})
      OBVIOUS
    <3> QED BY ONLY <2>1, <3>1, <3>2, <3>3
  <2>2. CASE 3 \notin S /\ 2 \in S
    <3>1. Max(S) = 2
      BY ONLY <2>0, <2>2, MaxOfThree
    <3>2. a(S \ {2}) = a(S) /\ c(S \ {2}) = a(S) /\ c(S) = OneRead(m, fields, a(S), s[2])
      BY <2>2
    <3>3. that[S] = c(S) /\ that[S \ {2}] = c(S \ {2})
      OBVIOUS
    <3> QED BY ONLY <2>2, <3>1, <3>2, <3>3
  <2>3. CASE 3 \notin S /\ 2 \notin S /\ 1 \in S
    <3>1. Max(S) = 1
      BY ONLY <2>0, <2>3, MaxOfThree
    <3>2. c(S \ {1}) = w /\ c(S) = OneRead(m, fields, w, s[1])
      BY <2>3
    <3>3. that[S] = c(S) /\ that[S \ {1}] = c(S \ {1})
      OBVIOUS
    <3> QED BY ONLY <2>3, <3>1, <3>2, <3>3
  <2>4. CASE S = {}
    BY <2>4
  <2> QED BY <2>0, <2>1, <2>2, <2>3, <2>4
<1>3. that = [S \in SUBSET (1 .. k) |-> that[S]]
  OBVIOUS
<1> HIDE DEF that
<1>4. that = It(that)
  BY <1>2, <1>3, Zenon
<1>5. it = It(it)
  BY <1>4
<1> HIDE DEF it
<1>6. \A S \in SUBSET (1 .. k) :
        it[S] = IF S = {} THEN w ELSE OneRead(m, fields, it[S \ {Max(S)}], s[Max(S)])
  BY <1>5
<1> DEFINE t == [i \in 0 .. k |-> it[1 .. i]]
<1>7. t[0] = w
  <2>1. 1 .. 0 = {} /\ 1 .. 0 \in SUBSET (1 .. k) /\ 0 \in 0 .. k
    OBVIOUS
  <2>2. it[1 .. 0] = w
    BY ONLY <1>6, <2>1
  <2> QED BY <2>1, <2>2
<1>8. ASSUME NEW i \in 1 .. k
      PROVE  t[i] = OneRead(m, fields, t[i - 1], s[i])
  <2>1. /\ 1 .. i \in SUBSET (1 .. k) /\ 1 .. i # {} /\ (1 .. i) \ {i} = 1 .. i - 1
        /\ i \in 0 .. k /\ i - 1 \in 0 .. k
    OBVIOUS
  <2>2. Max(1 .. i) = i
    <3>1. i \in 1 .. i /\ 1 .. i \subseteq {1, 2, 3} /\ \A x \in 1 .. i : x <= i
      OBVIOUS
    <3> QED BY <3>1, MaxOf3
  <2>3. it[1 .. i] = OneRead(m, fields, it[(1 .. i) \ {Max(1 .. i)}], s[Max(1 .. i)])
    BY ONLY <1>6, <2>1, Zenon
  <2>4. t[i] = it[1 .. i] /\ t[i - 1] = it[1 .. i - 1]
    BY <2>1
  <2> HIDE DEF t
  <2> QED BY ONLY <2>1, <2>2, <2>3, <2>4
<1>9. t[k] = it[1 .. k]
  OBVIOUS
<1> HIDE DEF t
<1> QED BY <1>1, <1>7, <1>8, <1>9 DEF StepsRead, RunsRead
-----------------------------------------------------------------------------
(* Construction and destruction.                                           *)
LEMMA Three ==
  ASSUME NEW k \in 1 .. 3, NEW S, 0 \in S, \A i \in 1 .. k : i - 1 \in S => i \in S
  PROVE  \A i \in 0 .. k : i \in S
<1>1. k = 1 \/ k = 2 \/ k = 3
  OBVIOUS
<1>2. 1 \in S
  <2>1. 1 \in 1 .. k /\ 1 - 1 = 0
    BY <1>1
  <2> QED BY <2>1
<1>3. k >= 2 => 2 \in S
  <2>1. k >= 2 => 2 \in 1 .. k /\ 2 - 1 = 1
    OBVIOUS
  <2> QED BY <1>2, <2>1
<1>4. k >= 3 => 3 \in S
  <2>1. k >= 3 => 3 \in 1 .. k /\ 3 - 1 = 2 /\ k >= 2
    OBVIOUS
  <2> QED BY <1>3, <2>1
<1> QED BY <1>1, <1>2, <1>3, <1>4

(* An object is there, and blank.                                          *)
Constructed(w, v, H, m) ==
  /\ Good(class, v, H, Full(v)) /\ DOMAIN v.obj = DOMAIN w.obj \cup {m}
  /\ \A n \in DOMAIN w.obj, g \in NamesOf(class) : Same(class, w, v, n, g)
  /\ \A g \in NamesOf(class) : ~HasIn(class, v, m, g) /\ GetIn(class, v, m, g) = BlankIn(class, g)
  /\ v.heap = w.heap

LEMMA CtorIs ==
  ASSUME NEW w, NEW H, Good(class, w, H, Full(w)), NEW m \in Msgs, m \notin DOMAIN w.obj,
         NEW v, v = SharedCtor(w, m)
  PROVE  Constructed(w, v, H, m)
<1> PICK A : A = w.obj
  OBVIOUS
<1> PICK blank : blank = [has |-> {}, member |-> _ctor[class]]
  OBVIOUS
<1> DEFINE B == [n \in DOMAIN A \cup {m} |-> IF n = m THEN blank ELSE A[n]]
<1>0. Known(class) /\ IsWorld(class, w) /\ IsHand(H) /\ Own(Owners(w, H, Full(w)), w.heap)
  BY DEF Good
<1>1. w = [obj |-> A, heap |-> w.heap] /\ A = [n \in DOMAIN A |-> A[n]] /\ DOMAIN A \subseteq Msgs
  BY <1>0 DEF IsWorld
<1>2. v = [obj |-> B, heap |-> w.heap]
  BY <1>1 DEF SharedCtor
<1>3. /\ v.obj = B /\ v.heap = w.heap /\ DOMAIN v.obj = DOMAIN w.obj \cup {m}
      /\ v.obj[m] = blank /\ \A n \in DOMAIN w.obj : v.obj[n] = w.obj[n]
  BY <1>2
<1>4. /\ blank.has = {} /\ blank = [has |-> blank.has, member |-> blank.member]
      /\ blank.member = [f \in NamesOf(class) |-> blank.member[f]]
      /\ \A f \in NamesOf(class) :
           /\ StringIn(class, f) => blank.member[f] = 0
           /\ ~StringIn(class, f) => blank.member[f] = _ctor[class][f]
                                      /\ IsValue(TypeIn(class, f), blank.member[f])
  BY <1>0, NamesAre DEF kEmptyString
<1>5. IsWorld(class, v)
  <2>1. IsObject(class, blank)
    BY <1>4 DEF IsObject
  <2>2. \A n \in DOMAIN w.obj : IsObject(class, w.obj[n])
    BY <1>0 DEF IsWorld
  <2> HIDE DEF B
  <2>3. v.obj = [n \in DOMAIN v.obj |-> v.obj[n]]
    BY <1>3 DEF B
  <2> QED BY <1>1, <1>2, <1>3, <2>1, <2>2, <2>3 DEF IsWorld
<1> HIDE DEF B
<1>6. OwnersSay(class, w, H, Full(w), Owners(w, H, Full(w)))
  BY <1>0, OwnersAre DEF Full
<1>7. OwnersSay(class, v, H, Full(v), Owners(v, H, Full(v)))
  BY <1>0, OwnersAre DEF Full
<1>8. Own(Owners(v, H, Full(v)), w.heap)
  <2> DEFINE O == Owners(w, H, Full(w))
             P == Owners(v, H, Full(v))
  <2>0. /\ \A n, g : <<n, g>> \in Full(v) <=> n \in DOMAIN v.obj /\ g \in NamesOf(class) /\ StringIn(class, g)
        /\ \A n, g : <<n, g>> \in Full(w) <=> n \in DOMAIN w.obj /\ g \in NamesOf(class) /\ StringIn(class, g)
    BY DEF Full, Slots
  <2> HIDE DEF O, P
  <2>1. OwnersSay(class, w, H, Full(w), O) /\ OwnersSay(class, v, H, Full(v), P) /\ Own(O, w.heap)
    BY <1>0, <1>6, <1>7 DEF O, P
  <2>2. ASSUME NEW s \in Full(v)
        PROVE  IF s \in Full(w) THEN P[s] = O[s] ELSE P[s] = 0
    <3> PICK n, g : s = <<n, g>>
      BY <2>1 DEF OwnersSay
    <3>1. n \in DOMAIN v.obj /\ g \in NamesOf(class) /\ StringIn(class, g) /\ P[s] = v.obj[n].member[g]
      BY <2>1 DEF OwnersSay
    <3>2. CASE n \in DOMAIN w.obj
      <4>1. s \in Full(w)
        BY <2>0, <3>1, <3>2
      <4>2. O[s] = w.obj[n].member[g]
        BY <2>1, <4>1 DEF OwnersSay
      <4> QED BY <1>3, <3>1, <3>2, <4>1, <4>2
    <3>3. CASE n = m
      <4>1. s \notin Full(w)
        BY <2>0, <3>3
      <4> QED BY <1>3, <1>4, <3>1, <3>3, <4>1
    <3> QED BY <1>3, <3>1, <3>2, <3>3
  <2>3. ASSUME NEW s \in HandSlots
        PROVE  P[s] = O[s]
    BY <2>1 DEF OwnersSay
  <2>4. Full(w) \subseteq Full(v) /\ Full(v) \cap HandSlots = {} /\ Full(w) \cap HandSlots = {}
    <3>1. Full(w) \subseteq Full(v)
      BY <1>3 DEF Full, Slots
    <3>2. \A s \in HandSlots : s[2] = "hand"
      BY DEF HandSlots
    <3>3. \A s \in Full(v) : s[2] # "hand"
      BY <2>1 DEF OwnersSay
    <3> QED BY <3>1, <3>2, <3>3
  <2>5. DOMAIN O = Full(w) \cup HandSlots /\ DOMAIN P = Full(v) \cup HandSlots
    BY <2>1 DEF OwnersSay
  <2>6. \A s \in DOMAIN O : O[s] # 0 => s \in DOMAIN P /\ P[s] = O[s]
    BY <2>2, <2>3, <2>4, <2>5
  <2>7. \A s \in DOMAIN P : P[s] # 0 => s \in DOMAIN O /\ P[s] = O[s]
    BY <2>2, <2>3, <2>4, <2>5
  <2>8. Own(P, w.heap)
    BY ONLY <2>1, <2>6, <2>7, OwnNothing
  <2> QED BY <2>8 DEF P
<1>9. Good(class, v, H, Full(v))
  BY <1>0, <1>3, <1>5, <1>8 DEF Good, Full
<1>10. \A n \in DOMAIN w.obj, g \in NamesOf(class) : Same(class, w, v, n, g)
  BY <1>3 DEF Same, Owning, HasIn, GetIn
<1>11. w.heap[0] = <<>>
  BY <1>0 DEF Own
<1>12. \A g \in NamesOf(class) : ~HasIn(class, v, m, g) /\ GetIn(class, v, m, g) = BlankIn(class, g)
  BY <1>3, <1>4, <1>11 DEF HasIn, GetIn, BlankIn
<1> QED BY <1>3, <1>9, <1>10, <1>12 DEF Constructed

(* A member is not counted any more.                                       *)
Deleted(w, v, H, D, m, f) ==
  /\ Good(class, v, H, D \ {<<m, f>>}) /\ v.obj = w.obj
  /\ Kept(class, w, v, H, D \ {<<m, f>>}, {})

LEMMA DeleteIs ==
  ASSUME NEW w, NEW H, NEW D, Good(class, w, H, D), NEW m, NEW f,
         StringIn(class, f) <=> <<m, f>> \in D, NEW v, v = delete(w, m, f)
  PROVE  Deleted(w, v, H, D, m, f)
<1> DEFINE E == D \ {<<m, f>>}
           O == Owners(w, H, D)
           P == Owners(v, H, E)
           o == <<m, f>>
<1>0. /\ Known(class) /\ IsWorld(class, w) /\ IsHand(H) /\ Own(O, w.heap)
      /\ D \subseteq Slots(class, w.obj)
  BY DEF Good
<1>1. IsString(f) <=> StringIn(class, f)
  BY DEF Type, TypeIn, Number, NumberIn, IsString, StringIn
<1>2. CASE ~StringIn(class, f)
  <2>1. v = w /\ E = D
    BY <1>1, <1>2 DEF delete
  <2> QED BY <2>1 DEF Kept, Same, Deleted
<1>3. CASE StringIn(class, f)
  <2> DEFINE p == w.obj[m].member[f]
  <2>0. o \in D
    BY <1>3
  <2>1. v = IF p = 0 THEN w ELSE [w EXCEPT !.heap[p] = FREED]
    BY <1>1, <1>3 DEF delete, pointer, kEmptyString, set_string
  <2>2. /\ IsWorld(class, v) /\ v.obj = w.obj
        /\ v.heap = IF p = 0 THEN w.heap ELSE [w.heap EXCEPT ![p] = FREED]
    <3>1. CASE p = 0
      BY <1>0, <2>1, <3>1
    <3>2. CASE p # 0
      <4>1. v = [w EXCEPT !.heap[p] = FREED]
        BY <2>1, <3>2
      <4> HIDE DEF p
      <4>2. HeapPut(class, w, v, p, FREED)
        BY ONLY <1>0, <4>1, PutHeap
      <4> QED BY <3>2, <4>2 DEF HeapPut
    <3> QED BY <3>1, <3>2
  <2>3. E \subseteq Slots(class, v.obj)
    BY <1>0, <2>2
  <2> HIDE DEF E, O, P
  <2>4. OwnersSay(class, w, H, D, O) /\ OwnersSay(class, v, H, E, P)
    BY <1>0, <2>3, OwnersAre DEF O, P
  <2>5. o \in DOMAIN O /\ O[o] = p /\ o \notin HandSlots
    <3>1. o \in DOMAIN O /\ O[o] = p /\ f # "hand"
      BY <2>0, <2>4 DEF OwnersSay
    <3>2. \A s \in HandSlots : s[2] = "hand"
      BY DEF HandSlots
    <3> QED BY <3>1, <3>2
  <2>6. DOMAIN P = DOMAIN O \ {o} /\ \A s \in DOMAIN P : P[s] = O[s]
    <3>1. DOMAIN P = DOMAIN O \ {o}
      BY <2>4, <2>5 DEF OwnersSay, E
    <3>2. ASSUME NEW s \in E PROVE P[s] = O[s]
      <4> PICK n, g : s = <<n, g>>
        BY <2>4 DEF OwnersSay
      <4>1. <<n, g>> \in D
        BY DEF E
      <4> QED BY <2>2, <2>4, <4>1 DEF OwnersSay
    <3>3. ASSUME NEW s \in HandSlots PROVE P[s] = O[s]
      BY <2>4 DEF OwnersSay
    <3> QED BY <2>4, <3>1, <3>2, <3>3 DEF OwnersSay
  <2>7. v.heap = IF O[o] = 0 THEN w.heap ELSE [w.heap EXCEPT ![O[o]] = FREED]
    BY <2>2, <2>5
  <2>8. Own(P, v.heap) /\ \A s \in DOMAIN P : v.heap[P[s]] = w.heap[O[s]]
    <3>1. Dropped(O, w.heap, P, v.heap)
      BY ONLY <1>0, <2>5, <2>6, <2>7, OwnDelete
    <3> QED BY <3>1 DEF Dropped
  <2>9. Good(class, v, H, E)
    BY <1>0, <2>2, <2>3, <2>8 DEF Good, P
  <2>10. \A n \in DOMAIN w.obj, g \in NamesOf(class) :
           (StringIn(class, g) => <<n, g>> \in E) => Same(class, w, v, n, g)
    <3> SUFFICES ASSUME NEW n \in DOMAIN w.obj, NEW g \in NamesOf(class),
                        StringIn(class, g) => <<n, g>> \in E
                 PROVE  Same(class, w, v, n, g)
      OBVIOUS
    <3>1. HasIn(class, v, n, g) <=> HasIn(class, w, n, g)
      BY <2>2 DEF HasIn
    <3>2. CASE StringIn(class, g)
      <4>1. <<n, g>> \in DOMAIN P /\ P[<<n, g>>] = v.obj[n].member[g]
        BY <2>4, <3>2 DEF OwnersSay
      <4>2. v.heap[P[<<n, g>>]] = w.heap[P[<<n, g>>]]
        BY <2>6, <2>8, <4>1
      <4> QED BY <2>2, <3>1, <3>2, <4>1, <4>2 DEF Same, Owning, GetIn
    <3>3. CASE ~StringIn(class, g)
      BY <2>2, <3>1, <3>3 DEF Same, Owning, GetIn
    <3> QED BY <3>2, <3>3
  <2>11. \A h \in Hands : H[h] # NULL => v.heap[H[h]] = w.heap[H[h]]
    <3> SUFFICES ASSUME NEW h \in Hands, H[h] # NULL PROVE v.heap[H[h]] = w.heap[H[h]]
      OBVIOUS
    <3>1. <<h, "hand">> \in DOMAIN P /\ P[<<h, "hand">>] = H[h]
      BY <2>4 DEF OwnersSay
    <3> QED BY <2>6, <2>8, <3>1
  <2> QED BY <2>2, <2>9, <2>10, <2>11 DEF Deleted, Kept, E
<1> QED BY <1>2, <1>3

LEMMA KeptLess ==
  ASSUME NEW c, NEW w, NEW v, NEW H, NEW D, NEW S, Kept(c, w, v, H, D, S), NEW E, E \subseteq D
  PROVE  Kept(c, w, v, H, E, S)
BY DEF Kept, Same

(* An object and its strings are gone.                                     *)
Destroyed(w, v, H, m) ==
  /\ Good(class, v, H, Full(v)) /\ DOMAIN v.obj = DOMAIN w.obj \ {m}
  /\ \A n \in DOMAIN v.obj, g \in NamesOf(class) : Same(class, w, v, n, g)
  /\ \A h \in Hands : H[h] # NULL => v.heap[H[h]] = w.heap[H[h]]

(* The members in their order.                                             *)
InOrder(s, k) ==
  /\ k \in 1 .. 3 /\ DOMAIN s = 1 .. k /\ NamesOf(class) = {s[i] : i \in 1 .. k}
  /\ \A i, j \in 1 .. k : s[i] = s[j] => i = j
  /\ \A i \in 1 .. k : s[i] \in NamesOf(class)

LEMMA MembersInOrder ==
  ASSUME Known(class)
  PROVE  InOrder(_members[class], Len(_members[class])) /\ _merge[class].of = _members[class]
<1>1. /\ Len(_members[class]) \in 1 .. 3 /\ DOMAIN _members[class] = 1 .. Len(_members[class])
      /\ NamesOf(class) = {_members[class][i] : i \in DOMAIN _members[class]}
      /\ \A i \in DOMAIN _members[class] :
           _members[class][i] \in NamesOf(class) /\ NumberIn(class, _members[class][i]) = i
      /\ _merge[class].of = _members[class]
  BY PlacesAre
<1>2. \A i, j \in DOMAIN _members[class] : _members[class][i] = _members[class][j] => i = j
  BY <1>1
<1> QED BY <1>1, <1>2 DEF InOrder

Others(w, m) == {o \in Full(w) : o[1] # m}
Stripped(w, u, H, m) ==
  /\ Good(class, u, H, Others(w, m)) /\ u.obj = w.obj
  /\ Kept(class, w, u, H, Others(w, m), {})

LEMMA AllDeleted ==
  ASSUME NEW w, NEW H, Good(class, w, H, Full(w)), NEW m \in DOMAIN w.obj,
         NEW s, NEW k, InOrder(s, k),
         NEW t, RunsDelete(m, t, w, s, k)
  PROVE  Stripped(w, t[k], H, m)
<1>1. k \in 1 .. 3 /\ DOMAIN s = 1 .. k /\ NamesOf(class) = {s[i] : i \in 1 .. k}
  BY DEF InOrder
<1>2. \A i, j \in 1 .. k : s[i] = s[j] => i = j
  BY DEF InOrder
<1>3. t[0] = w /\ \A i \in 1 .. k : t[i] = OneDeleted(m, t[i - 1], s[i])
  BY DEF RunsDelete
<1> DEFINE E(i) == Full(w) \ {<<m, s[j]>> : j \in 1 .. i}
           P(i) == Good(class, t[i], H, E(i)) /\ t[i].obj = w.obj /\ Kept(class, w, t[i], H, E(i), {})
           S == {i \in 0 .. k : P(i)}
<1>4. 0 \in S
  <2>1. E(0) = Full(w) /\ 0 \in 0 .. k
    BY <1>1
  <2>2. Kept(class, w, w, H, Full(w), {})
    BY DEF Kept, Same
  <2> QED BY <1>3, <2>1, <2>2
<1>5. ASSUME NEW i \in 1 .. k, i - 1 \in S
      PROVE  i \in S
  <2>1. t[i] = delete(t[i - 1], m, s[i])
    BY <1>3 DEF OneDeleted
  <2>2. P(i - 1) /\ i \in 0 .. k
    BY <1>5
  <2>3. StringIn(class, s[i]) <=> <<m, s[i]>> \in E(i - 1)
    <3>1. <<m, s[i]>> \notin {<<m, s[j]>> : j \in 1 .. i - 1}
      <4>1. \A j \in 1 .. i - 1 : j \in 1 .. k /\ j # i
        BY <1>1
      <4>2. \A j \in 1 .. i - 1 : s[j] # s[i]
        BY <1>2, <4>1
      <4> QED BY <4>2
    <3>2. StringIn(class, s[i]) <=> <<m, s[i]>> \in Full(w)
      BY <1>1 DEF Full, Slots
    <3> QED BY <3>1, <3>2
  <2>4. E(i) = E(i - 1) \ {<<m, s[i]>>}
    <3>1. 1 .. i = (1 .. i - 1) \cup {i}
      OBVIOUS
    <3>2. {<<m, s[j]>> : j \in 1 .. i} = {<<m, s[j]>> : j \in 1 .. i - 1} \cup {<<m, s[i]>>}
      BY <3>1
    <3> QED BY <3>2
  <2> DEFINE F == E(i - 1)
             G == E(i)
             x == t[i - 1]
             y == t[i]
             f == s[i]
  <2>5. /\ Good(class, x, H, F) /\ x.obj = w.obj /\ Kept(class, w, x, H, F, {})
        /\ (StringIn(class, f) <=> <<m, f>> \in F) /\ y = delete(x, m, f) /\ G = F \ {<<m, f>>}
    BY <2>1, <2>2, <2>3, <2>4
  <2> HIDE DEF F, G, x, y, f
  <2>6. Deleted(x, y, H, F, m, f)
    BY ONLY <2>5, DeleteIs
  <2>7. Good(class, y, H, G) /\ y.obj = w.obj /\ Kept(class, x, y, H, G, {})
    BY <2>5, <2>6 DEF Deleted
  <2>8. Kept(class, w, x, H, G, {})
    BY <2>5, KeptLess
  <2>9. Kept(class, w, y, H, G, {})
    BY <2>7, <2>8, KeptTwice
  <2> QED BY <2>2, <2>7, <2>9 DEF G, y
<1>6. k \in S
  <2> HIDE DEF S
  <2>1. \A i \in 0 .. k : i \in S
    BY <1>1, <1>4, <1>5, Three
  <2> QED BY <1>1, <2>1
<1>7. E(k) = Others(w, m)
  <2>1. \A o \in Full(w) : o = <<o[1], o[2]>> /\ o[2] \in NamesOf(class)
    BY DEF Full, Slots
  <2>2. \A o \in Full(w) : o[1] = m => o \in {<<m, s[j]>> : j \in 1 .. k}
    BY <1>1, <2>1
  <2>3. \A o \in {<<m, s[j]>> : j \in 1 .. k} : o[1] = m
    OBVIOUS
  <2> QED BY <2>2, <2>3 DEF Others
<1> QED BY <1>6, <1>7 DEF Stripped

LEMMA DtorIs ==
  ASSUME NEW w, NEW H, Good(class, w, H, Full(w)), NEW m \in DOMAIN w.obj,
         NEW v, v = SharedDtor(w, m)
  PROVE  Destroyed(w, v, H, m)
<1> DEFINE D == Others(w, m)
           u == FoldLeft(LAMBDA x, f : delete(x, m, f), w, _members[class])
           B == [n \in DOMAIN u.obj \ {m} |-> u.obj[n]]
<1>1. Good(class, u, H, D) /\ u.obj = w.obj /\ Kept(class, w, u, H, D, {})
  <2> PICK s : s = _members[class]
    OBVIOUS
  <2> PICK k : k = Len(s)
    OBVIOUS
  <2>1. InOrder(s, k)
    BY MembersInOrder DEF Good
  <2>2. StepsDelete(m, w, s, k)
    <3>1. k \in 1 .. 3 /\ DOMAIN s = 1 .. k
      BY <2>1 DEF InOrder
    <3> QED BY <3>1, DeleteFolds
  <2> PICK t : /\ RunsDelete(m, t, w, s, k)
               /\ FoldLeft(LAMBDA x, f : OneDeleted(m, x, f), w, s) = t[k]
    BY <2>2 DEF StepsDelete
  <2>3. u = t[k]
    BY DEF OneDeleted
  <2>4. Stripped(w, t[k], H, m)
    BY <2>1, AllDeleted
  <2> QED BY <2>3, <2>4 DEF Stripped
<1>2. v = [u EXCEPT !.obj = B]
  BY DEF SharedDtor, Restrict
<1>2a. \A s \in D : s = <<s[1], s[2]>> /\ s[1] # m /\ s[1] \in DOMAIN w.obj
                   /\ s[2] \in NamesOf(class) /\ StringIn(class, s[2])
  BY DEF Full, Slots, Others
<1>2b. \A n, g : <<n, g>> \in D <=>
         n \in DOMAIN w.obj /\ n # m /\ g \in NamesOf(class) /\ StringIn(class, g)
  BY DEF Full, Slots, Others
<1> HIDE DEF u
<1>3. /\ Known(class) /\ IsWorld(class, u) /\ IsHand(H) /\ Own(Owners(u, H, D), u.heap)
      /\ u = [obj |-> u.obj, heap |-> u.heap] /\ DOMAIN u.obj \subseteq Msgs
      /\ \A n \in DOMAIN u.obj : IsObject(class, u.obj[n])
  BY <1>1 DEF Good, IsWorld
<1>4. v = [obj |-> B, heap |-> u.heap]
  BY <1>2, <1>3
<1>5. /\ v.obj = B /\ v.heap = u.heap /\ DOMAIN v.obj = DOMAIN w.obj \ {m}
      /\ \A n \in DOMAIN v.obj : v.obj[n] = w.obj[n]
  BY <1>1, <1>4
<1>6. IsWorld(class, v)
  BY <1>3, <1>4 DEF IsWorld
<1> HIDE DEF B
<1>7. Full(v) = D
  <2>1. \A s \in Full(v) : s = <<s[1], s[2]>>
    BY DEF Full, Slots
  <2>2. \A n, g : <<n, g>> \in Full(v) <=>
          n \in DOMAIN v.obj /\ g \in NamesOf(class) /\ StringIn(class, g)
    BY DEF Full, Slots
  <2>3. \A n, g : <<n, g>> \in Full(v) <=> <<n, g>> \in D
    BY <1>2b, <1>5, <2>2
  <2> HIDE DEF D
  <2>4. \A s \in D : s \in Full(v)
    BY <1>2a, <2>3
  <2>5. \A s \in Full(v) : s \in D
    BY <2>1, <2>3
  <2> QED BY <2>4, <2>5
<1> HIDE DEF D
<1>8. Owners(v, H, D) = Owners(u, H, D)
  <2>1. \A s \in D \cup HandSlots : s[2] # "hand" => v.obj[s[1]].member = u.obj[s[1]].member
    <3>1. \A s \in HandSlots : s[2] = "hand"
      BY DEF HandSlots
    <3> QED BY <1>1, <1>2a, <1>5, <3>1
  <2> QED BY <2>1 DEF Owners
<1>9. Good(class, v, H, Full(v))
  <2>1. D \subseteq Slots(class, v.obj)
    BY <1>7 DEF Full
  <2> QED BY <1>3, <1>5, <1>6, <1>7, <1>8, <2>1 DEF Good
<1>10. \A n \in DOMAIN v.obj, g \in NamesOf(class) : Same(class, w, v, n, g)
  <2> SUFFICES ASSUME NEW n \in DOMAIN v.obj, NEW g \in NamesOf(class)
               PROVE  Same(class, w, v, n, g)
    OBVIOUS
  <2>1. Same(class, w, u, n, g)
    BY <1>1, <1>2b, <1>5 DEF Kept
  <2>2. u.obj[n] = v.obj[n] /\ u.heap = v.heap
    BY <1>1, <1>5
  <2> QED BY <2>1, <2>2 DEF Same, Owning, HasIn, GetIn
<1> QED BY <1>1, <1>5, <1>9, <1>10 DEF Destroyed, Kept
-----------------------------------------------------------------------------
(* Strings change hands.  A member of an object and a hand exchange what   *)
(* they own; the member may not be counted beforehand, and owns nothing    *)
(* then.                                                                   *)
Owned(w, D, m, f) == IF <<m, f>> \in D THEN w.obj[m].member[f] ELSE 0
Offered(H, h) == IF H[h] = NULL THEN 0 ELSE H[h]
Exchanged(w, v, H, m, f, h) ==
  /\ DOMAIN v.obj = DOMAIN w.obj /\ v.heap = w.heap
  /\ \A n \in DOMAIN w.obj, g \in NamesOf(class) : <<n, g>> # <<m, f>> => Same(class, w, v, n, g)
  /\ HasIn(class, v, m, f) <=> HasIn(class, w, m, f)
  /\ GetIn(class, v, m, f) = IF H[h] = NULL THEN <<>> ELSE w.heap[H[h]]
  /\ v.obj[m].member[f] = Offered(H, h)

LEMMA ExchangeIs ==
  ASSUME NEW w, NEW H, NEW D, Good(class, w, H, D), NEW m \in DOMAIN w.obj,
         NEW f \in NamesOf(class), StringIn(class, f), D \cup {<<m, f>>} = Full(w),
         NEW h \in Hands, NEW had, had = Owned(w, D, m, f),
         NEW v, v = [w EXCEPT !.obj[m].member[f] = Offered(H, h)],
         NEW K, K = [H EXCEPT ![h] = IF had = 0 THEN NULL ELSE had]
  PROVE  Good(class, v, K, Full(v)) /\ Exchanged(w, v, H, m, f, h)
<1> DEFINE O == Owners(w, H, D)
           P == Owners(v, K, Full(v))
           o == <<m, f>>
           b == <<h, "hand">>
           q == Offered(H, h)
           Q == [s \in Full(w) \cup HandSlots |-> IF s = o THEN had ELSE O[s]]
           with == [s \in Full(w) \cup HandSlots |-> IF s = o THEN b ELSE IF s = b THEN o ELSE s]
<1>0. /\ Known(class) /\ IsWorld(class, w) /\ IsHand(H) /\ Own(O, w.heap)
      /\ D \subseteq Slots(class, w.obj)
  BY DEF Good
<1>1. /\ IsWorld(class, v) /\ v.heap = w.heap /\ DOMAIN v.obj = DOMAIN w.obj
      /\ v.obj[m].has = w.obj[m].has /\ v.obj[m].member[f] = q
      /\ \A g \in NamesOf(class) : g # f => v.obj[m].member[g] = w.obj[m].member[g]
      /\ \A n \in DOMAIN w.obj : n # m => v.obj[n] = w.obj[n]
  <2> HIDE DEF q
  <2>1. v = [w EXCEPT !.obj[m].member[f] = q]
    BY DEF q
  <2>2. MemberPut(class, w, v, m, f, q)
    BY <1>0, <2>1, PutMember
  <2> QED BY <2>2 DEF MemberPut
<1>2. Full(v) = Full(w)
  BY <1>1, FullIs
<1>3. \A n \in DOMAIN w.obj, g \in NamesOf(class) :
        <<n, g>> # o => v.obj[n].member[g] = w.obj[n].member[g]
  BY <1>1
<1> HIDE DEF O, P
<1>4. OwnersSay(class, w, H, D, O) /\ OwnersSay(class, v, K, Full(v), P)
  BY <1>0, OwnersAre DEF O, P, Full
<1>5. /\ o \in Full(w) /\ o \notin HandSlots /\ b \in HandSlots /\ b # o
      /\ D \subseteq Full(w) /\ \A s \in Full(w) : s # o => s \in D
      /\ \A s \in Full(w) : s \notin HandSlots
  <2>1. \A s \in Full(w) : s[2] # "hand"
    BY <1>0, NamesAre DEF Full, Slots
  <2>2. \A s \in HandSlots : s[2] = "hand"
    BY DEF HandSlots
  <2>3. \A s \in Full(w) : s \notin HandSlots
    BY <2>1, <2>2
  <2> QED BY <1>4, <2>3 DEF OwnersSay
<1>6. DOMAIN O = D \cup HandSlots /\ DOMAIN P = Full(w) \cup HandSlots
  BY <1>2, <1>4 DEF OwnersSay
<1>7. (o \in DOMAIN O => O[o] = had) /\ (o \notin DOMAIN O => had = 0)
  BY <1>4, <1>5, <1>6 DEF OwnersSay, Owned
<1>8. O[b] = q
  BY <1>4 DEF OwnersSay, Offered
<1>9. had \in Addrs \cup {0} /\ NULL \notin Addrs \cup {0}
  <2>0. \A s \in DOMAIN O : O[s] \in Addrs \cup {0}
    BY <1>0 DEF Own
  <2>1. had \in Addrs \cup {0}
    BY ONLY <1>7, <2>0
  <2> QED BY <2>1, TextsAre, ValuesAssumption
<1>10. IsHand(K) /\ K[h] = (IF had = 0 THEN NULL ELSE had) /\ \A j \in Hands : j # h => K[j] = H[j]
  BY <1>0, <1>9 DEF IsHand
<1>11. P[o] = q /\ P[b] = had
  <2>1. P[o] = q
    BY <1>1, <1>2, <1>4, <1>5 DEF OwnersSay
  <2>2. P[b] = had
    BY <1>4, <1>9, <1>10 DEF OwnersSay
  <2> QED BY <2>1, <2>2
<1>12. \A s \in DOMAIN P : s # o /\ s # b => P[s] = O[s]
  <2>1. ASSUME NEW s \in Full(w), s # o PROVE P[s] = O[s]
    <3>1. s \in D
      BY <1>5, <2>1
    <3> PICK n, g : s = <<n, g>>
      BY <1>4, <3>1 DEF OwnersSay
    <3>2. O[s] = w.obj[n].member[g] /\ n \in DOMAIN w.obj /\ g \in NamesOf(class)
      BY <1>4, <3>1 DEF OwnersSay
    <3>3. P[s] = v.obj[n].member[g]
      BY <1>2, <1>4 DEF OwnersSay
    <3> QED BY <1>3, <2>1, <3>2, <3>3
  <2>2. ASSUME NEW s \in HandSlots, s # b PROVE P[s] = O[s]
    BY <1>4, <1>10, <2>2 DEF OwnersSay
  <2> QED BY <1>6, <2>1, <2>2
<1> HIDE DEF q
<1>13. Own(Q, w.heap)
  <2>0. DOMAIN Q = Full(w) \cup HandSlots /\ Q[o] = had /\ \A s \in DOMAIN Q : s # o => Q[s] = O[s]
    BY <1>5
  <2> HIDE DEF Q
  <2>1. \A s \in DOMAIN O : O[s] # 0 => s \in DOMAIN Q /\ Q[s] = O[s]
    BY <1>5, <1>6, <1>7, <2>0
  <2>2. \A s \in DOMAIN Q : Q[s] # 0 => s \in DOMAIN O /\ Q[s] = O[s]
    BY <1>5, <1>6, <1>7, <2>0
  <2> QED BY ONLY <1>0, <2>1, <2>2, OwnNothing
<1>14. Own(P, w.heap)
  <2>1. DOMAIN P = DOMAIN Q
    BY <1>6
  <2>2. \A s \in DOMAIN Q : with[s] \in DOMAIN Q /\ with[with[s]] = s
    BY <1>5
  <2>3. \A s \in DOMAIN Q : P[s] = Q[with[s]]
    <3>1. ASSUME NEW s \in DOMAIN Q PROVE P[s] = Q[with[s]]
      <4>1. CASE s = o
        BY <1>5, <1>8, <1>11, <4>1
      <4>2. CASE s = b
        BY <1>5, <1>11, <4>2
      <4>3. CASE s # o /\ s # b
        BY <1>6, <1>12, <4>3
      <4> QED BY <4>1, <4>2, <4>3
    <3> QED BY <3>1
  <2> HIDE DEF Q, with
  <2> QED BY ONLY <1>13, <2>1, <2>2, <2>3, OwnSwap
<1>15. Good(class, v, K, Full(v))
  BY <1>0, <1>1, <1>10, <1>14 DEF Good, P, Full
<1>16. \A n \in DOMAIN w.obj, g \in NamesOf(class) : <<n, g>> # o => Same(class, w, v, n, g)
  <2>1. \A n \in DOMAIN w.obj : v.obj[n].has = w.obj[n].has
    BY <1>1
  <2> QED BY <1>1, <1>3, <2>1 DEF Same, Owning, HasIn, GetIn
<1>17. GetIn(class, v, m, f) = IF H[h] = NULL THEN <<>> ELSE w.heap[H[h]]
  <2>1. w.heap[0] = <<>>
    BY <1>0 DEF Own
  <2> QED BY <1>1, <2>1 DEF GetIn, q, Offered
<1> QED BY <1>1, <1>15, <1>16, <1>17 DEF Exchanged, HasIn, q

(* The calls that hand over a string.                                      *)
Handed(w, v, H, K, m, f, h, isSet, x, y) ==
  /\ Good(class, v, K, Full(v)) /\ DOMAIN v.obj = DOMAIN w.obj
  /\ \A n \in DOMAIN w.obj, g \in NamesOf(class) : <<n, g>> # <<m, f>> => Same(class, w, v, n, g)
  /\ HasIn(class, v, m, f) <=> isSet
  /\ GetIn(class, v, m, f) = x
  /\ Owning(class, w, m, f) => Owning(class, v, m, f)
  /\ \A j \in Hands : j # h /\ H[j] # NULL => v.heap[H[j]] = w.heap[H[j]]
  /\ K[h] # NULL => v.heap[K[h]] = y

LEMMA ReleaseIs ==
  ASSUME NEW w, NEW H, Good(class, w, H, Full(w)), NEW m \in DOMAIN w.obj,
         NEW f \in NamesOf(class), StringIn(class, f), NEW h \in Hands, H[h] = NULL,
         NEW p, p = w.obj[m].member[f], NEW v, v = release(w, m, f),
         NEW K, K = [H EXCEPT ![h] = IF p = 0 THEN NULL ELSE p]
  PROVE  Handed(w, v, H, K, m, f, h, FALSE, <<>>, GetIn(class, w, m, f))
<1> DEFINE u == clear_has(w, m, f)
<1>1. u = [w EXCEPT !.obj[m].has = @ \ {BitIn(class, f)}]
  BY DEF clear_has, Bit, BitIn
<1>2. v = [u EXCEPT !.obj[m].member[f] = Offered(H, h)]
  BY DEF release, set_pointer, kEmptyString, Offered
<1> HIDE DEF u
<1>3. HasMade(class, w, u, H, Full(w), m, f, FALSE)
  BY <1>1, GoodHasLess
<1>4. /\ Good(class, u, H, Full(w)) /\ m \in DOMAIN u.obj /\ DOMAIN u.obj = DOMAIN w.obj
      /\ u.heap = w.heap /\ u.obj[m].member = w.obj[m].member /\ ~HasIn(class, u, m, f)
      /\ \A n \in DOMAIN w.obj, g \in NamesOf(class) :
           <<n, g>> # <<m, f>> => Same(class, w, u, n, g)
  <2>1. \A n \in DOMAIN w.obj, g \in NamesOf(class) : StringIn(class, g) => <<n, g>> \in Full(w)
    BY InFull
  <2> QED BY <1>3, <2>1 DEF HasMade, Kept
<1>5. Full(u) = Full(w) /\ Full(w) \cup {<<m, f>>} = Full(u)
  BY <1>4, FullIs, InFull
<1>6. p = Owned(u, Full(w), m, f)
  BY <1>4, InFull DEF Owned
<1>7. Good(class, v, K, Full(v)) /\ Exchanged(u, v, H, m, f, h)
  <2>1. K = [H EXCEPT ![h] = IF p = 0 THEN NULL ELSE p]
    OBVIOUS
  <2> QED BY ONLY <1>2, <1>4, <1>5, <1>6, <2>1, ExchangeIs, f \in NamesOf(class),
             StringIn(class, f), h \in Hands
<1>8. K[h] # NULL => v.heap[K[h]] = GetIn(class, w, m, f)
  <2>1. K[h] = IF p = 0 THEN NULL ELSE p
    BY DEF Good, IsHand
  <2> QED BY <1>4, <1>7, <2>1 DEF Exchanged, GetIn
<1>9. \A n \in DOMAIN w.obj, g \in NamesOf(class) : <<n, g>> # <<m, f>> => Same(class, w, v, n, g)
  BY <1>4, <1>7 DEF Exchanged, Same
<1> QED BY <1>4, <1>7, <1>8, <1>9 DEF Handed, Exchanged, Owning

LEMMA SetAllocatedIs ==
  ASSUME NEW w, NEW H, Good(class, w, H, Full(w)), NEW m \in DOMAIN w.obj,
         NEW f \in NamesOf(class), StringIn(class, f), NEW h \in Hands,
         NEW v, v = set_allocated(w, m, f, H[h]), NEW K, K = [H EXCEPT ![h] = NULL]
  PROVE  Handed(w, v, H, K, m, f, h, H[h] # NULL,
                IF H[h] = NULL THEN <<>> ELSE w.heap[H[h]], NULL)
<1> DEFINE t == delete(w, m, f)
           u == IF H[h] = NULL THEN clear_has(t, m, f) ELSE set_has(t, m, f)
           D == Full(w) \ {<<m, f>>}
<1>1. v = [u EXCEPT !.obj[m].member[f] = Offered(H, h)]
  <2>1. CASE H[h] = NULL
    BY <2>1 DEF set_allocated, release, set_pointer, kEmptyString, Offered
  <2>2. CASE H[h] # NULL
    BY <2>2 DEF set_allocated, set_pointer, Offered
  <2> QED BY <2>1, <2>2
<1>2. Deleted(w, t, H, Full(w), m, f)
  BY InFull, DeleteIs
<1>3. /\ Good(class, t, H, D) /\ t.obj = w.obj /\ Kept(class, w, t, H, D, {})
  BY <1>2 DEF Deleted
<1> HIDE DEF t
<1>4. HasMade(class, t, u, H, D, m, f, H[h] # NULL)
  <2> HIDE DEF D
  <2>1. CASE H[h] = NULL
    <3>1. u = [t EXCEPT !.obj[m].has = @ \ {BitIn(class, f)}]
      BY <2>1 DEF clear_has, Bit, BitIn
    <3> HIDE DEF u
    <3>2. HasMade(class, t, u, H, D, m, f, FALSE)
      BY <1>3, <3>1, GoodHasLess
    <3> QED BY <2>1, <3>2 DEF HasMade
  <2>2. CASE H[h] # NULL
    <3>1. u = [t EXCEPT !.obj[m].has = @ \cup {BitIn(class, f)}]
      BY <2>2 DEF set_has, Bit, BitIn
    <3> HIDE DEF u
    <3>2. HasMade(class, t, u, H, D, m, f, TRUE)
      BY <1>3, <3>1, GoodHasMore
    <3> QED BY <2>2, <3>2 DEF HasMade
  <2> QED BY <2>1, <2>2
<1> HIDE DEF u
<1>5. \A n \in DOMAIN w.obj, g \in NamesOf(class) :
        <<n, g>> # <<m, f>> /\ StringIn(class, g) => <<n, g>> \in D
  BY InFull
<1>6. D \cup {<<m, f>>} = Full(w) /\ <<m, f>> \notin D
  BY InFull
<1> HIDE DEF D
<1>7. /\ Good(class, u, H, D) /\ m \in DOMAIN u.obj /\ DOMAIN u.obj = DOMAIN w.obj
      /\ u.heap = t.heap /\ (HasIn(class, u, m, f) <=> H[h] # NULL)
      /\ \A n \in DOMAIN w.obj, g \in NamesOf(class) :
           <<n, g>> # <<m, f>> => Same(class, w, u, n, g)
  BY <1>3, <1>4, <1>5 DEF HasMade, Kept, Same
<1>8. D \cup {<<m, f>>} = Full(u) /\ 0 = Owned(u, D, m, f)
  BY <1>6, <1>7, FullIs DEF Owned
<1>9. K = [H EXCEPT ![h] = IF 0 = 0 THEN NULL ELSE 0]
  OBVIOUS
<1>10. Good(class, v, K, Full(v)) /\ Exchanged(u, v, H, m, f, h)
  BY ONLY <1>1, <1>7, <1>8, <1>9, ExchangeIs, f \in NamesOf(class), StringIn(class, f), h \in Hands
<1>11. K[h] = NULL
  BY DEF Good, IsHand
<1>12. \A j \in Hands : H[j] # NULL => u.heap[H[j]] = w.heap[H[j]]
  BY <1>3, <1>7 DEF Kept
<1>13. \A n \in DOMAIN w.obj, g \in NamesOf(class) : <<n, g>> # <<m, f>> => Same(class, w, v, n, g)
  BY <1>7, <1>10 DEF Exchanged, Same
<1>14. Owning(class, v, m, f)
  <2>1. H[h] # NULL => H[h] # 0
    BY TextsAre DEF Good, IsHand
  <2> QED BY <1>7, <1>10, <2>1 DEF Exchanged, Offered, Owning
<1> QED BY <1>7, <1>10, <1>11, <1>12, <1>13, <1>14 DEF Handed, Exchanged

(* A string of the user is made, or deleted.                               *)
AllButHand(w, v, H, h) ==
  /\ \A n \in DOMAIN w.obj, g \in NamesOf(class) : Same(class, w, v, n, g)
  /\ \A j \in Hands : j # h /\ H[j] # NULL => v.heap[H[j]] = w.heap[H[j]]
UserChanged(w, v, H, K, h, y) ==
  /\ Good(class, v, K, Full(v)) /\ DOMAIN v.obj = DOMAIN w.obj /\ AllButHand(w, v, H, h)
  /\ IF K[h] = NULL THEN y = NULL ELSE v.heap[K[h]] = y

(* What the heap and the hands tell of what is read.                       *)
TextsKept(w, v, H, K, h) ==
  /\ v.obj = w.obj /\ \A j \in Hands : j # h => K[j] = H[j]
  /\ \A s \in DOMAIN Owners(w, H, Full(w)) : s # <<h, "hand">> =>
       v.heap[Owners(v, K, Full(w))[s]] = w.heap[Owners(w, H, Full(w))[s]]

LEMMA SameByOwners ==
  ASSUME NEW w, NEW H, Good(class, w, H, Full(w)), NEW v, NEW K, NEW h \in Hands,
         TextsKept(w, v, H, K, h)
  PROVE  AllButHand(w, v, H, h)
<1> DEFINE O == Owners(w, H, Full(w))
           P == Owners(v, K, Full(w))
<1>0. /\ v.obj = w.obj /\ \A j \in Hands : j # h => K[j] = H[j]
      /\ \A s \in DOMAIN O : s # <<h, "hand">> => v.heap[P[s]] = w.heap[O[s]]
  BY DEF TextsKept
<1>1. Known(class) /\ Full(w) \subseteq Slots(class, w.obj) /\ Full(w) \subseteq Slots(class, v.obj)
  BY <1>0 DEF Good, Full
<1>2. OwnersSay(class, w, H, Full(w), O) /\ OwnersSay(class, v, K, Full(w), P)
  BY <1>1, OwnersAre DEF Good
<1> HIDE DEF O, P
<1>3. ASSUME NEW n \in DOMAIN w.obj, NEW g \in NamesOf(class)
      PROVE  Same(class, w, v, n, g)
  <2>1. CASE StringIn(class, g)
    <3>1. <<n, g>> \in Full(w)
      BY <2>1, InFull
    <3>2. /\ <<n, g>> \in DOMAIN O /\ O[<<n, g>>] = w.obj[n].member[g]
          /\ P[<<n, g>>] = v.obj[n].member[g] /\ <<n, g>> # <<h, "hand">>
      BY <1>2, <3>1 DEF OwnersSay
    <3>3. v.heap[P[<<n, g>>]] = w.heap[O[<<n, g>>]]
      BY <1>0, <3>2
    <3> QED BY <1>0, <2>1, <3>2, <3>3 DEF Same, Owning, HasIn, GetIn
  <2>2. CASE ~StringIn(class, g)
    BY <1>0, <2>2 DEF Same, Owning, HasIn, GetIn
  <2> QED BY <2>1, <2>2
<1>4. ASSUME NEW j \in Hands, j # h, H[j] # NULL
      PROVE  v.heap[H[j]] = w.heap[H[j]]
  <2>1. /\ <<j, "hand">> \in DOMAIN O /\ O[<<j, "hand">>] = H[j] /\ P[<<j, "hand">>] = H[j]
        /\ <<j, "hand">> # <<h, "hand">>
    BY <1>0, <1>2, <1>4 DEF OwnersSay
  <2>2. v.heap[P[<<j, "hand">>]] = w.heap[O[<<j, "hand">>]]
    BY <1>0, <2>1
  <2> QED BY <2>1, <2>2
<1> QED BY <1>3, <1>4 DEF AllButHand

LEMMA UserNewIs ==
  ASSUME NEW w, NEW H, Good(class, w, H, Full(w)), NEW h \in Hands, H[h] = NULL, NEW x \in Text,
         NEW K, K = [H EXCEPT ![h] = Fresh(w)],
         NEW v, v = [obj |-> w.obj, heap |-> [w.heap EXCEPT ![Fresh(w)] = x]]
  PROVE  UserChanged(w, v, H, K, h, x)
<1> DEFINE O == Owners(w, H, Full(w))
           P == Owners(v, K, Full(w))
           a == Fresh(w)
           b == <<h, "hand">>
<1>0. /\ Known(class) /\ IsWorld(class, w) /\ IsHand(H) /\ Own(O, w.heap)
      /\ w = [obj |-> w.obj, heap |-> w.heap] /\ Full(w) = Slots(class, w.obj)
  BY DEF Good, IsWorld, Full
<1>1. v.obj = w.obj /\ v.heap = [w.heap EXCEPT ![a] = x] /\ Full(v) = Full(w)
  BY FullIs
<1>2. OwnersSay(class, w, H, Full(w), O) /\ OwnersSay(class, v, K, Full(w), P)
  BY <1>0, <1>1, OwnersAre
<1> HIDE DEF O, P
<1>3. b \in DOMAIN O /\ O[b] = 0
  BY <1>2 DEF OwnersSay
<1>4. a \in Addrs /\ w.heap[a] = FREED
  <2>1. DOMAIN O \subseteq AllSlots(class)
    BY <1>0 DEF O, Owners, Slots, AllSlots, IsWorld
  <2>2. \E c \in Addrs : w.heap[c] = FREED
    BY <1>0, <1>3, <2>1, RoomLeft
  <2> QED BY <2>2, FreshIs
<1> HIDE DEF a
<1>5. K = [j \in Hands |-> IF j = h THEN a ELSE H[j]] /\ a # NULL
  BY <1>0, <1>4, TextsAre DEF IsHand, a
<1>6. IsHand(K) /\ K[h] = a /\ \A j \in Hands : j # h => K[j] = H[j]
  BY <1>0, <1>4, <1>5 DEF IsHand
<1>7. DOMAIN P = DOMAIN O /\ P[b] = a /\ \A s \in DOMAIN O : s # b => P[s] = O[s]
  <2>1. P[b] = a
    BY <1>2, <1>5, <1>6 DEF OwnersSay
  <2>2. ASSUME NEW s \in HandSlots, s # b PROVE P[s] = O[s]
    BY <1>2, <1>6, <2>2 DEF OwnersSay
  <2>3. ASSUME NEW s \in Full(w) PROVE P[s] = O[s]
    <3> PICK n, g : s = <<n, g>>
      BY <1>2 DEF OwnersSay
    <3> QED BY <1>1, <1>2 DEF OwnersSay
  <2> QED BY <1>2, <2>1, <2>2, <2>3 DEF OwnersSay
<1>8. Changed(O, w.heap, P, v.heap, b, x)
  BY ONLY <1>0, <1>1, <1>3, <1>4, <1>7, OwnNew, x \in Text
<1>9. Good(class, v, K, Full(v))
  <2>1. IsWorld(class, v)
    BY <1>0 DEF IsWorld
  <2>2. Own(P, v.heap)
    BY <1>8 DEF Changed
  <2> QED BY <1>0, <1>1, <1>6, <2>1, <2>2 DEF Good, P
<1>10. v.heap[K[h]] = x /\ K[h] # NULL
  BY <1>5, <1>6, <1>7, <1>8 DEF Changed
<1>11. AllButHand(w, v, H, h)
  <2>1. \A s \in DOMAIN O : s # <<h, "hand">> => v.heap[P[s]] = w.heap[O[s]]
    BY <1>8 DEF Changed
  <2>2. TextsKept(w, v, H, K, h)
    BY <1>1, <1>6, <2>1 DEF TextsKept, O, P
  <2> QED BY ONLY <2>2, SameByOwners, Good(class, w, H, Full(w)), h \in Hands
<1> QED BY <1>1, <1>9, <1>10, <1>11 DEF UserChanged

LEMMA UserDeleteIs ==
  ASSUME NEW w, NEW H, Good(class, w, H, Full(w)), NEW h \in Hands, H[h] # NULL,
         NEW K, K = [H EXCEPT ![h] = NULL],
         NEW v, v = [obj |-> w.obj, heap |-> [w.heap EXCEPT ![H[h]] = FREED]]
  PROVE  UserChanged(w, v, H, K, h, NULL)
<1> DEFINE O == Owners(w, H, Full(w))
           P == Owners(v, K, Full(w))
           b == <<h, "hand">>
           Q == [s \in DOMAIN O \ {b} |-> O[s]]
<1>0. /\ Known(class) /\ IsWorld(class, w) /\ IsHand(H) /\ Own(O, w.heap)
      /\ w = [obj |-> w.obj, heap |-> w.heap] /\ Full(w) = Slots(class, w.obj)
  BY DEF Good, IsWorld, Full
<1>1. v.obj = w.obj /\ v.heap = [w.heap EXCEPT ![H[h]] = FREED] /\ Full(v) = Full(w)
  BY FullIs
<1>2. OwnersSay(class, w, H, Full(w), O) /\ OwnersSay(class, v, K, Full(w), P)
  BY <1>0, <1>1, OwnersAre
<1> HIDE DEF O, P
<1>3. b \in DOMAIN O /\ O[b] = H[h] /\ H[h] \in Addrs /\ H[h] # 0
  <2>1. H[h] \in Addrs
    BY <1>0 DEF IsHand
  <2> QED BY <1>2, <2>1, TextsAre DEF OwnersSay
<1>4. IsHand(K) /\ K[h] = NULL /\ \A j \in Hands : j # h => K[j] = H[j]
  BY <1>0 DEF IsHand
<1>5. DOMAIN P = DOMAIN O /\ P[b] = 0 /\ \A s \in DOMAIN O : s # b => P[s] = O[s]
  <2>1. P[b] = 0
    BY <1>2, <1>4 DEF OwnersSay
  <2>2. ASSUME NEW s \in HandSlots, s # b PROVE P[s] = O[s]
    BY <1>2, <1>4, <2>2 DEF OwnersSay
  <2>3. ASSUME NEW s \in Full(w) PROVE P[s] = O[s]
    <3> PICK n, g : s = <<n, g>>
      BY <1>2 DEF OwnersSay
    <3> QED BY <1>1, <1>2 DEF OwnersSay
  <2> QED BY <1>2, <2>1, <2>2, <2>3 DEF OwnersSay
<1>6. DOMAIN Q = DOMAIN O \ {b} /\ \A s \in DOMAIN Q : Q[s] = O[s]
  OBVIOUS
<1> HIDE DEF Q
<1>7. Own(Q, v.heap) /\ \A s \in DOMAIN Q : v.heap[Q[s]] = w.heap[O[s]]
  <2>1. v.heap = IF O[b] = 0 THEN w.heap ELSE [w.heap EXCEPT ![O[b]] = FREED]
    BY <1>1, <1>3
  <2>2. Dropped(O, w.heap, Q, v.heap)
    BY ONLY <1>0, <1>3, <1>6, <2>1, OwnDelete
  <2> QED BY <2>2 DEF Dropped
<1>8. Own(P, v.heap)
  <2>1. \A s \in DOMAIN Q : Q[s] # 0 => s \in DOMAIN P /\ P[s] = Q[s]
    BY <1>5, <1>6
  <2>2. \A s \in DOMAIN P : P[s] # 0 => s \in DOMAIN Q /\ P[s] = Q[s]
    BY <1>5, <1>6
  <2> QED BY ONLY <1>7, <2>1, <2>2, OwnNothing
<1>9. Good(class, v, K, Full(v))
  <2>1. IsWorld(class, v)
    BY <1>0 DEF IsWorld
  <2> QED BY <1>0, <1>1, <1>4, <1>8, <2>1 DEF Good, P
<1>10. AllButHand(w, v, H, h)
  <2>1. \A s \in DOMAIN O : s # <<h, "hand">> => v.heap[P[s]] = w.heap[O[s]]
    BY <1>5, <1>6, <1>7
  <2>2. TextsKept(w, v, H, K, h)
    BY <1>1, <1>4, <2>1 DEF TextsKept, O, P
  <2> QED BY ONLY <2>2, SameByOwners, Good(class, w, H, Full(w)), h \in Hands
<1> QED BY <1>1, <1>4, <1>9, <1>10 DEF UserChanged
-----------------------------------------------------------------------------
(* Two objects exchange all they have.                                     *)
Exchange(w, v, H, m, n) ==
  /\ Good(class, v, H, Full(v)) /\ DOMAIN v.obj = DOMAIN w.obj /\ v.heap = w.heap
  /\ v.obj[m] = w.obj[n] /\ v.obj[n] = w.obj[m]
  /\ \A l \in DOMAIN w.obj : l # m /\ l # n => v.obj[l] = w.obj[l]

LEMMA SwappedIs ==
  ASSUME NEW w, NEW H, Good(class, w, H, Full(w)),
         NEW m \in DOMAIN w.obj, NEW n \in DOMAIN w.obj, m # n, NEW v, v = Swapped(w, m, n)
  PROVE  Exchange(w, v, H, m, n)
<1> PICK A : A = w.obj
  OBVIOUS
<1> DEFINE B == [l \in DOMAIN A |-> IF l = m THEN A[n] ELSE IF l = n THEN A[m] ELSE A[l]]
           whole(a, b) == [has |-> b.has,
                           member |-> [f \in DOMAIN a.member |->
                             IF f \in Range(_merge[class].of) THEN b.member[f] ELSE a.member[f]]]
           other(l) == IF l = m THEN n ELSE IF l = n THEN m ELSE l
           with == [s \in Full(w) \cup HandSlots |->
                      IF s \in HandSlots THEN s ELSE <<other(s[1]), s[2]>>]
<1>0. /\ Known(class) /\ IsWorld(class, w) /\ IsHand(H) /\ Own(Owners(w, H, Full(w)), w.heap)
      /\ Full(w) = Slots(class, w.obj)
  BY DEF Good, Full
<1>1. /\ w = [obj |-> A, heap |-> w.heap] /\ A = [l \in DOMAIN A |-> A[l]]
      /\ \A l \in DOMAIN A : IsObject(class, A[l])
  BY <1>0 DEF IsWorld
<1>2. Range(_merge[class].of) = NamesOf(class)
  BY <1>0, PlacesAre DEF Range
<1>3. whole(A[m], A[n]) = A[n] /\ whole(A[n], A[m]) = A[m]
  BY <1>1, <1>2 DEF IsObject
<1>4. v = [w EXCEPT !.obj[m] = whole(@, w.obj[n]), !.obj[n] = whole(@, w.obj[m])]
  BY DEF Swapped
<1>5. v = [w EXCEPT !.obj[m] = A[n], !.obj[n] = A[m]]
  <2> HIDE DEF whole
  <2> QED BY <1>1, <1>3, <1>4
<1>6. v = [obj |-> B, heap |-> w.heap]
  <2> PICK C : C = [A EXCEPT ![m] = A[n]]
    OBVIOUS
  <2> PICK u : u = [w EXCEPT !.obj[m] = A[n]]
    OBVIOUS
  <2>1. u = [obj |-> C, heap |-> w.heap]
    BY <1>1
  <2>2. v = [u EXCEPT !.obj[n] = A[m]]
    BY <1>5
  <2>3. v = [obj |-> [C EXCEPT ![n] = A[m]], heap |-> w.heap]
    BY <2>1, <2>2
  <2>4. [C EXCEPT ![n] = A[m]] = B
    BY <1>1
  <2> QED BY <2>3, <2>4
<1>7. /\ v.obj = B /\ v.heap = w.heap /\ DOMAIN v.obj = DOMAIN w.obj
      /\ v.obj[m] = w.obj[n] /\ v.obj[n] = w.obj[m]
      /\ \A l \in DOMAIN w.obj : l # m /\ l # n => v.obj[l] = w.obj[l]
  BY <1>6
<1>8. IsWorld(class, v)
  BY <1>0, <1>1, <1>6 DEF IsWorld
<1>9. Full(v) = Full(w) /\ Full(v) = Slots(class, v.obj)
  BY <1>7, FullIs DEF Full
<1> HIDE DEF B, whole
<1>10. /\ OwnersSay(class, w, H, Full(w), Owners(w, H, Full(w)))
       /\ OwnersSay(class, v, H, Full(w), Owners(v, H, Full(w)))
  BY <1>0, <1>9, OwnersAre
<1>11. Own(Owners(v, H, Full(w)), w.heap)
  <2> DEFINE O == Owners(w, H, Full(w))
             P == Owners(v, H, Full(w))
  <2>0. OwnersSay(class, w, H, Full(w), O) /\ OwnersSay(class, v, H, Full(w), P) /\ Own(O, w.heap)
    BY <1>0, <1>10
  <2>1. \A l, g : <<l, g>> \in Full(w) <=> l \in DOMAIN w.obj /\ g \in NamesOf(class) /\ StringIn(class, g)
    BY DEF Full, Slots
  <2> HIDE DEF O, P
  <2>2. DOMAIN O = Full(w) \cup HandSlots /\ DOMAIN P = DOMAIN O
    BY <2>0 DEF OwnersSay
  <2>3. \A s \in Full(w) : s \notin HandSlots
    BY <2>0 DEF OwnersSay, HandSlots
  <2>4. ASSUME NEW s \in Full(w)
        PROVE  with[s] \in Full(w) /\ with[with[s]] = s /\ P[s] = O[with[s]]
    <3> PICK l, g : s = <<l, g>>
      BY <2>0 DEF OwnersSay
    <3>1. l \in DOMAIN w.obj /\ g \in NamesOf(class) /\ StringIn(class, g)
      BY <2>1
    <3>2. with[s] = <<other(l), g>>
      BY <2>3
    <3>3. other(l) \in DOMAIN w.obj /\ other(other(l)) = l /\ v.obj[l] = w.obj[other(l)]
      BY <1>7, <3>1
    <3>4. <<other(l), g>> \in Full(w)
      BY <2>1, <3>1, <3>3
    <3>5. with[<<other(l), g>>] = <<other(other(l)), g>>
      BY <2>3, <3>4
    <3>6. P[s] = v.obj[l].member[g] /\ O[<<other(l), g>>] = w.obj[other(l)].member[g]
      BY <2>0, <3>4 DEF OwnersSay
    <3> QED BY <3>2, <3>3, <3>4, <3>5, <3>6
  <2>5. ASSUME NEW s \in HandSlots
        PROVE  with[s] = s /\ P[s] = O[s]
    BY <2>0 DEF OwnersSay
  <2> HIDE DEF with
  <2>6. \A s \in DOMAIN O : with[s] \in DOMAIN O /\ with[with[s]] = s
    BY <2>2, <2>4, <2>5
  <2>7. \A s \in DOMAIN O : P[s] = O[with[s]]
    BY <2>2, <2>4, <2>5
  <2>8. Own(P, w.heap)
    BY ONLY <2>0, <2>2, <2>6, <2>7, OwnSwap
  <2> QED BY <2>8 DEF P
<1>12. Good(class, v, H, Full(v))
  BY <1>0, <1>7, <1>8, <1>9, <1>11 DEF Good
<1> QED BY <1>7, <1>12 DEF Exchange
-----------------------------------------------------------------------------
(* Calls that go through all members of an object: those of F are done,    *)
(* and are set if they are in yes, and hold what x says.                   *)
Turned(w, v, H, m, F, yes, x) ==
  /\ Good(class, v, H, Full(v)) /\ DOMAIN v.obj = DOMAIN w.obj
  /\ \A n \in DOMAIN w.obj, g \in NamesOf(class) : n # m \/ g \notin F => Same(class, w, v, n, g)
  /\ \A g \in F : (HasIn(class, v, m, g) <=> g \in yes) /\ GetIn(class, v, m, g) = x[g]
                  /\ (Owning(class, w, m, g) => Owning(class, v, m, g))
  /\ \A h \in Hands : H[h] # NULL => v.heap[H[h]] = w.heap[H[h]]
Turns(u, v, H, m, f, yes, x) ==
  \/ Becomes(u, v, H, m, f, f \in yes, x[f])
  \/ v = u /\ (HasIn(class, u, m, f) <=> f \in yes) /\ GetIn(class, u, m, f) = x[f]
Before(s, i) == {s[j] : j \in 1 .. i}

Became(w, v, H, m, f, isSet, x) ==
  /\ Good(class, v, H, Full(v)) /\ DOMAIN v.obj = DOMAIN w.obj
  /\ \A n \in DOMAIN w.obj, g \in NamesOf(class) : n # m \/ g # f => Same(class, w, v, n, g)
  /\ HasIn(class, v, m, f) <=> isSet
  /\ GetIn(class, v, m, f) = x
  /\ Owning(class, w, m, f) => Owning(class, v, m, f)
  /\ \A h \in Hands : H[h] # NULL => v.heap[H[h]] = w.heap[H[h]]

LEMMA BecomesTells ==
  ASSUME NEW w, NEW v, NEW H, NEW m, NEW f, NEW isSet, NEW x, Becomes(w, v, H, m, f, isSet, x)
  PROVE  Became(w, v, H, m, f, isSet, x)
<1>1. /\ Good(class, v, H, Full(v)) /\ DOMAIN v.obj = DOMAIN w.obj
      /\ Kept(class, w, v, H, Full(w), {<<m, f>>})
      /\ HasIn(class, v, m, f) <=> isSet
      /\ GetIn(class, v, m, f) = x
      /\ Owning(class, w, m, f) => Owning(class, v, m, f)
  BY DEF Becomes, Alters
<1>2. \A n \in DOMAIN w.obj, g \in NamesOf(class) : StringIn(class, g) => <<n, g>> \in Full(w)
  BY InFull
<1>3. \A n \in DOMAIN w.obj, g \in NamesOf(class) : n # m \/ g # f => Same(class, w, v, n, g)
  BY <1>1, <1>2 DEF Kept
<1> QED BY <1>1, <1>3 DEF Kept, Became

LEMMA TurnedMore ==
  ASSUME NEW w, NEW u, NEW v, NEW H, NEW m \in DOMAIN w.obj, NEW F, NEW yes, NEW x,
         Turned(w, u, H, m, F, yes, x), NEW f \in NamesOf(class), F \subseteq NamesOf(class),
         Turns(u, v, H, m, f, yes, x), NEW G, G = F \cup {f}
  PROVE  Turned(w, v, H, m, G, yes, x)
<1>0. /\ Good(class, u, H, Full(u)) /\ DOMAIN u.obj = DOMAIN w.obj
      /\ \A n \in DOMAIN w.obj, g \in NamesOf(class) : n # m \/ g \notin F => Same(class, w, u, n, g)
      /\ \A g \in F : (HasIn(class, u, m, g) <=> g \in yes) /\ GetIn(class, u, m, g) = x[g]
                     /\ (Owning(class, w, m, g) => Owning(class, u, m, g))
      /\ \A h \in Hands : H[h] # NULL => u.heap[H[h]] = w.heap[H[h]]
  BY DEF Turned
<1>1. CASE Becomes(u, v, H, m, f, f \in yes, x[f])
  <2>1. /\ Good(class, v, H, Full(v)) /\ DOMAIN v.obj = DOMAIN u.obj
        /\ \A n \in DOMAIN u.obj, g \in NamesOf(class) : n # m \/ g # f => Same(class, u, v, n, g)
        /\ HasIn(class, v, m, f) <=> f \in yes
        /\ GetIn(class, v, m, f) = x[f]
        /\ Owning(class, u, m, f) => Owning(class, v, m, f)
        /\ \A h \in Hands : H[h] # NULL => v.heap[H[h]] = u.heap[H[h]]
    <3>1. Became(u, v, H, m, f, f \in yes, x[f])
      BY ONLY <1>1, BecomesTells, Zenon
    <3> QED BY <3>1 DEF Became
  <2>2. \A n \in DOMAIN w.obj, g \in NamesOf(class) : n # m \/ g \notin G => Same(class, w, v, n, g)
    BY <1>0, <2>1 DEF Same
  <2>3. \A g \in G : (HasIn(class, v, m, g) <=> g \in yes) /\ GetIn(class, v, m, g) = x[g]
    BY <1>0, <2>1 DEF Same
  <2>4. \A g \in G : Owning(class, w, m, g) => Owning(class, v, m, g)
    BY <1>0, <2>1 DEF Same
  <2> QED BY <1>0, <2>1, <2>2, <2>3, <2>4 DEF Turned
<1>2. CASE v = u /\ (HasIn(class, u, m, f) <=> f \in yes) /\ GetIn(class, u, m, f) = x[f]
  <2>1. \A g \in G : Owning(class, w, m, g) => Owning(class, u, m, g)
    BY <1>0 DEF Same
  <2> QED BY <1>0, <1>2, <2>1 DEF Turned
<1> QED BY <1>1, <1>2 DEF Turns

LEMMA TurnedAll ==
  ASSUME NEW w, NEW H, Good(class, w, H, Full(w)), NEW m \in DOMAIN w.obj,
         NEW s, NEW k, InOrder(s, k), NEW t, t[0] = w, NEW yes, NEW x,
         \A i \in 1 .. k : Turned(w, t[i - 1], H, m, Before(s, i - 1), yes, x)
           => Turns(t[i - 1], t[i], H, m, s[i], yes, x)
  PROVE  Turned(w, t[k], H, m, NamesOf(class), yes, x)
<1>1. /\ k \in 1 .. 3 /\ DOMAIN s = 1 .. k /\ NamesOf(class) = Before(s, k)
      /\ \A i \in 1 .. k : s[i] \in NamesOf(class)
  BY DEF InOrder, Before
<1> DEFINE S == {i \in 0 .. 3 : Turned(w, t[i], H, m, Before(s, i), yes, x)}
<1>2. 0 \in S
  <2>1. Before(s, 0) = {}
    BY DEF Before
  <2>2. Turned(w, t[0], H, m, {}, yes, x)
    BY DEF Turned, Same
  <2> QED BY <2>1, <2>2
<1>3. ASSUME NEW i \in 1 .. k, i - 1 \in S
      PROVE  i \in S
  <2>1. Turned(w, t[i - 1], H, m, Before(s, i - 1), yes, x)
    BY <1>3
  <2>2. Turns(t[i - 1], t[i], H, m, s[i], yes, x)
    BY <2>1
  <2>3. Before(s, i) = Before(s, i - 1) \cup {s[i]} /\ Before(s, i - 1) \subseteq NamesOf(class)
    <3>1. \A j \in 1 .. i : j \in 1 .. i - 1 \/ j = i
      BY <1>1
    <3>2. i \in 1 .. i /\ 1 .. i - 1 \subseteq 1 .. i /\ 1 .. i \subseteq 1 .. k
      BY <1>1
    <3> QED BY <1>1, <3>1, <3>2 DEF Before
  <2>4. s[i] \in NamesOf(class)
    BY <1>1
  <2>5. Turned(w, t[i], H, m, Before(s, i), yes, x)
    BY ONLY <2>1, <2>2, <2>3, <2>4, TurnedMore, m \in DOMAIN w.obj
  <2> QED BY <1>1, <2>5
<1> HIDE DEF S
<1>4. k \in S
  BY ONLY <1>1, <1>2, <1>3, Three
<1> QED BY <1>1, <1>4 DEF S

(* What is set has a string of its own, and what is not set reads blank.   *)
Blanks(w) ==
  \A n \in DOMAIN w.obj, g \in NamesOf(class) :
    /\ Owning(class, w, n, g)
    /\ ~HasIn(class, w, n, g) => GetIn(class, w, n, g) = BlankIn(class, g)
SetIn(w, m) == {g \in NamesOf(class) : HasIn(class, w, m, g)}

LEMMA NotBefore ==
  ASSUME NEW s, NEW k, InOrder(s, k), NEW i \in 1 .. k
  PROVE  s[i] \in NamesOf(class) /\ s[i] \notin Before(s, i - 1)
<1>1. k \in 1 .. 3 /\ s[i] \in NamesOf(class) /\ \A j \in 1 .. k : s[i] = s[j] => i = j
  BY DEF InOrder
<1>2. \A j \in 1 .. i - 1 : j \in 1 .. k /\ j # i
  BY <1>1
<1> QED BY <1>1, <1>2 DEF Before

LEMMA AllReset ==
  ASSUME NEW w, NEW H, Good(class, w, H, Full(w)), Blanks(w), NEW m \in DOMAIN w.obj,
         NEW s, NEW k, InOrder(s, k), NEW t, RunsReset(m, t, w, s, k),
         NEW yes, yes = SetIn(w, m), NEW x, x = [g \in NamesOf(class) |-> BlankIn(class, g)]
  PROVE  Turned(w, t[k], H, m, NamesOf(class), yes, x)
<1>4. t[0] = w /\ \A i \in 1 .. k : t[i] = OneReset(m, t[i - 1], s[i])
  BY DEF RunsReset
<1>5. ASSUME NEW i \in 1 .. k, Turned(w, t[i - 1], H, m, Before(s, i - 1), yes, x)
      PROVE  Turns(t[i - 1], t[i], H, m, s[i], yes, x)
  <2> PICK p : p = t[i - 1]
    OBVIOUS
  <2> PICK q : q = t[i]
    OBVIOUS
  <2> PICK f \in NamesOf(class) : f = s[i]
    BY NotBefore
  <2>1. f \notin Before(s, i - 1)
    BY NotBefore
  <2>2. Good(class, p, H, Full(p)) /\ DOMAIN p.obj = DOMAIN w.obj /\ Same(class, w, p, m, f)
    BY <1>5, <2>1 DEF Turned
  <2>3. q = IF StringIn(class, f) /\ ~HasIn(class, p, m, f) THEN p ELSE empty(p, m, f)
    BY <1>4 DEF OneReset, Type, TypeIn, Number, NumberIn, IsString, StringIn,
                has, HasIn, Bit, BitIn
  <2>4. (HasIn(class, p, m, f) <=> f \in yes) /\ x[f] = BlankIn(class, f)
    BY <2>2 DEF Same, SetIn
  <2>5. CASE StringIn(class, f) /\ ~HasIn(class, p, m, f)
    <3>1. GetIn(class, p, m, f) = BlankIn(class, f)
      BY <2>2, <2>5 DEF Same, Blanks
    <3> QED BY <2>3, <2>4, <2>5, <3>1 DEF Turns
  <2>6. CASE ~(StringIn(class, f) /\ ~HasIn(class, p, m, f))
    <3>1. q = empty(p, m, f)
      BY <2>3, <2>6
    <3>2. Becomes(p, q, H, m, f, HasIn(class, p, m, f), BlankIn(class, f))
      BY ONLY <2>2, <3>1, EmptyIs, f \in NamesOf(class), m \in DOMAIN w.obj
    <3>3. Becomes(p, q, H, m, f, f \in yes, x[f])
      BY <2>4, <3>2 DEF Becomes
    <3> QED BY <3>3 DEF Turns
  <2> QED BY <2>5, <2>6
<1> QED BY ONLY <1>4, <1>5, TurnedAll, Good(class, w, H, Full(w)), InOrder(s, k), m \in DOMAIN w.obj

AllResets(w, m) == FoldLeft(LAMBDA u, f : OneReset(m, u, f), w, _members[class])

LEMMA ResetIs ==
  ASSUME NEW w, NEW H, Good(class, w, H, Full(w)), Blanks(w), NEW m \in DOMAIN w.obj,
         NEW yes, yes = SetIn(w, m), NEW x, x = [g \in NamesOf(class) |-> BlankIn(class, g)]
  PROVE  Turned(w, AllResets(w, m), H, m, NamesOf(class), yes, x)
<1> PICK s : s = _members[class]
  OBVIOUS
<1> PICK k : k = Len(s)
  OBVIOUS
<1> DEFINE v == FoldLeft(LAMBDA u, f : OneReset(m, u, f), w, s)
<1>1. InOrder(s, k)
  BY MembersInOrder DEF Good
<1>2. StepsReset(m, w, s, k)
  <2>1. k \in 1 .. 3 /\ DOMAIN s = 1 .. k
    BY <1>1 DEF InOrder
  <2> QED BY <2>1, ResetFolds
<1>3. \E t : RunsReset(m, t, w, s, k) /\ v = t[k]
  BY <1>2 DEF StepsReset
<1>4. Turned(w, v, H, m, NamesOf(class), yes, x)
  <2> HIDE DEF v
  <2> PICK t : RunsReset(m, t, w, s, k) /\ v = t[k]
    BY <1>3
  <2>1. Turned(w, t[k], H, m, NamesOf(class), yes, x)
    BY <1>1, AllReset
  <2> QED BY <2>1
<1> QED BY <1>4 DEF AllResets

LEMMA ValueIs ==
  ASSUME NEW f, NEW x, IsValue(TypeIn(class, f), x)
  PROVE  IsValueOf(f, x)
BY TypesDiffer DEF IsValue, IsValueOf, StringIn, Text

LEMMA GetIsValue ==
  ASSUME NEW w, NEW H, Good(class, w, H, Full(w)), NEW n \in DOMAIN w.obj, NEW f \in NamesOf(class)
  PROVE  IsValueOf(f, GetIn(class, w, n, f))
<1>0. Known(class) /\ IsWorld(class, w) /\ Own(Owners(w, H, Full(w)), w.heap) /\ Full(w) = Slots(class, w.obj)
  BY DEF Good, Full
<1>1. CASE StringIn(class, f)
  <2>1. <<n, f>> \in Full(w)
    BY <1>1, InFull
  <2>2. OwnersSay(class, w, H, Full(w), Owners(w, H, Full(w)))
    BY <1>0, OwnersAre
  <2>3. /\ <<n, f>> \in DOMAIN Owners(w, H, Full(w))
        /\ Owners(w, H, Full(w))[<<n, f>>] = w.obj[n].member[f]
    BY <2>1, <2>2 DEF OwnersSay
  <2>4. w.heap[Owners(w, H, Full(w))[<<n, f>>]] \in Text
    BY ONLY <1>0, <2>3, OwnedTexts
  <2> QED BY <1>1, <2>3, <2>4 DEF GetIn, IsValueOf
<1>2. CASE ~StringIn(class, f)
  BY <1>0, <1>2 DEF GetIn, IsValueOf, IsWorld, IsObject
<1> QED BY <1>1, <1>2

(* The members of n are copied over those of m.                            *)
Either(w, m, n) ==
  [g \in NamesOf(class) |-> IF g \in SetIn(w, n) THEN GetIn(class, w, n, g) ELSE GetIn(class, w, m, g)]

LEMMA AllCopied ==
  ASSUME NEW w, NEW H, Good(class, w, H, Full(w)),
         NEW m \in DOMAIN w.obj, NEW n \in DOMAIN w.obj, m # n,
         NEW s, NEW k, InOrder(s, k), NEW t, RunsCopy(m, n, t, w, s, k),
         NEW yes, yes = SetIn(w, m) \cup SetIn(w, n), NEW x, x = Either(w, m, n)
  PROVE  Turned(w, t[k], H, m, NamesOf(class), yes, x)
<1>4. t[0] = w /\ \A i \in 1 .. k : t[i] = OneCopied(m, n, t[i - 1], s[i])
  BY DEF RunsCopy
<1>5. ASSUME NEW i \in 1 .. k, Turned(w, t[i - 1], H, m, Before(s, i - 1), yes, x)
      PROVE  Turns(t[i - 1], t[i], H, m, s[i], yes, x)
  <2> PICK p : p = t[i - 1]
    OBVIOUS
  <2> PICK q : q = t[i]
    OBVIOUS
  <2> PICK f \in NamesOf(class) : f = s[i]
    BY NotBefore
  <2> PICK y : y = GetIn(class, w, n, f)
    OBVIOUS
  <2>1. f \notin Before(s, i - 1)
    BY NotBefore
  <2>2. /\ Good(class, p, H, Full(p)) /\ DOMAIN p.obj = DOMAIN w.obj
        /\ Same(class, w, p, m, f) /\ Same(class, w, p, n, f)
    BY <1>5, <2>1 DEF Turned
  <2>3. q = IF HasIn(class, p, n, f) THEN set(p, m, f, GetIn(class, p, n, f)) ELSE p
    BY <1>4 DEF OneCopied, get, pointer, Type, TypeIn, Number, NumberIn, IsString, StringIn,
                has, HasIn, Bit, BitIn, GetIn
  <2>4. CASE HasIn(class, w, n, f)
    <3>1. q = set(p, m, f, y) /\ f \in yes /\ x[f] = y
      BY <2>2, <2>3, <2>4 DEF Same, SetIn, Either
    <3>2. IsValueOf(f, y)
      BY GetIsValue
    <3>3. Becomes(p, q, H, m, f, TRUE, y)
      BY ONLY <2>2, <3>1, <3>2, SetIs, f \in NamesOf(class), m \in DOMAIN w.obj
    <3>4. Becomes(p, q, H, m, f, f \in yes, x[f])
      BY <3>1, <3>3 DEF Becomes
    <3> QED BY <3>4 DEF Turns
  <2>5. CASE ~HasIn(class, w, n, f)
    <3>1. q = p
      BY <2>2, <2>3, <2>5 DEF Same
    <3>2. (HasIn(class, p, m, f) <=> f \in yes) /\ GetIn(class, p, m, f) = x[f]
      BY <2>2, <2>5 DEF Same, SetIn, Either
    <3> QED BY <3>1, <3>2 DEF Turns
  <2> QED BY <2>4, <2>5
<1> QED BY ONLY <1>4, <1>5, TurnedAll, Good(class, w, H, Full(w)), InOrder(s, k), m \in DOMAIN w.obj

AllCopies(w, m, n) ==
  FoldLeft(LAMBDA u, f : OneCopied(m, n, u, f), w, _members[class])

LEMMA CopyIs ==
  ASSUME NEW w, NEW H, Good(class, w, H, Full(w)),
         NEW m \in DOMAIN w.obj, NEW n \in DOMAIN w.obj, m # n,
         NEW yes, yes = SetIn(w, m) \cup SetIn(w, n), NEW x, x = Either(w, m, n)
  PROVE  Turned(w, AllCopies(w, m, n), H, m, NamesOf(class), yes, x)
<1> PICK s : s = _members[class]
  OBVIOUS
<1> PICK k : k = Len(s)
  OBVIOUS
<1> DEFINE v == FoldLeft(LAMBDA u, f : OneCopied(m, n, u, f), w, s)
<1>1. InOrder(s, k)
  BY MembersInOrder DEF Good
<1>2. StepsCopy(m, n, w, s, k)
  <2>1. k \in 1 .. 3 /\ DOMAIN s = 1 .. k
    BY <1>1 DEF InOrder
  <2> QED BY <2>1, CopyFolds
<1>3. \E t : RunsCopy(m, n, t, w, s, k) /\ v = t[k]
  BY <1>2 DEF StepsCopy
<1>4. Turned(w, v, H, m, NamesOf(class), yes, x)
  <2> HIDE DEF v
  <2> PICK t : RunsCopy(m, n, t, w, s, k) /\ v = t[k]
    BY <1>3
  <2>1. Turned(w, t[k], H, m, NamesOf(class), yes, x)
    BY <1>1, AllCopied
  <2> QED BY <2>1
<1> QED BY <1>4 DEF AllCopies

(* The fields that are there are read into the members of m.               *)
ReadIn(w, m, fields) == SetIn(w, m) \cup {g \in NamesOf(class) : NumberIn(class, g) \in DOMAIN fields}
ReadOr(w, m, fields) ==
  [g \in NamesOf(class) |-> IF NumberIn(class, g) \in DOMAIN fields
                              THEN fields[NumberIn(class, g)] ELSE GetIn(class, w, m, g)]

LEMMA AllRead ==
  ASSUME NEW w, NEW H, Good(class, w, H, Full(w)), NEW m \in DOMAIN w.obj,
         NEW fields, IsFields(class, fields),
         NEW s, NEW k, InOrder(s, k), NEW t, RunsRead(m, fields, t, w, s, k),
         NEW yes, yes = ReadIn(w, m, fields), NEW x, x = ReadOr(w, m, fields)
  PROVE  Turned(w, t[k], H, m, NamesOf(class), yes, x)
<1>4. t[0] = w /\ \A i \in 1 .. k : t[i] = OneRead(m, fields, t[i - 1], s[i])
  BY DEF RunsRead
<1>5. ASSUME NEW i \in 1 .. k, Turned(w, t[i - 1], H, m, Before(s, i - 1), yes, x)
      PROVE  Turns(t[i - 1], t[i], H, m, s[i], yes, x)
  <2> PICK p : p = t[i - 1]
    OBVIOUS
  <2> PICK q : q = t[i]
    OBVIOUS
  <2> PICK f \in NamesOf(class) : f = s[i]
    BY NotBefore
  <2> PICK j : j = NumberIn(class, f)
    OBVIOUS
  <2>1. f \notin Before(s, i - 1)
    BY NotBefore
  <2>2. Good(class, p, H, Full(p)) /\ DOMAIN p.obj = DOMAIN w.obj /\ Same(class, w, p, m, f)
    BY <1>5, <2>1 DEF Turned
  <2>3. q = IF j \in DOMAIN fields THEN set(p, m, f, fields[j]) ELSE p
    BY <1>4 DEF OneRead, Number, NumberIn
  <2>4. CASE j \in DOMAIN fields
    <3>1. q = set(p, m, f, fields[j]) /\ f \in yes /\ x[f] = fields[j]
      BY <2>3, <2>4 DEF ReadIn, ReadOr
    <3>2. IsValueOf(f, fields[j])
      <4>1. IsValue(TypeIn(class, f), fields[j])
        BY <2>4 DEF IsFields, TypeIn
      <4> QED BY <4>1, ValueIs
    <3>3. Becomes(p, q, H, m, f, TRUE, fields[j])
      BY ONLY <2>2, <3>1, <3>2, SetIs, f \in NamesOf(class), m \in DOMAIN w.obj
    <3>4. Becomes(p, q, H, m, f, f \in yes, x[f])
      BY <3>1, <3>3 DEF Becomes
    <3> QED BY <3>4 DEF Turns
  <2>5. CASE j \notin DOMAIN fields
    <3>1. q = p
      BY <2>3, <2>5
    <3>2. (HasIn(class, p, m, f) <=> f \in yes) /\ GetIn(class, p, m, f) = x[f]
      BY <2>2, <2>5 DEF Same, SetIn, ReadIn, ReadOr
    <3> QED BY <3>1, <3>2 DEF Turns
  <2> QED BY <2>4, <2>5
<1> QED BY ONLY <1>4, <1>5, TurnedAll, Good(class, w, H, Full(w)), InOrder(s, k), m \in DOMAIN w.obj

AllReads(w, m, fields) ==
  FoldLeft(LAMBDA u, f : OneRead(m, fields, u, f), w, _members[class])

LEMMA ReadIs ==
  ASSUME NEW w, NEW H, Good(class, w, H, Full(w)), NEW m \in DOMAIN w.obj,
         NEW fields, IsFields(class, fields),
         NEW yes, yes = ReadIn(w, m, fields), NEW x, x = ReadOr(w, m, fields)
  PROVE  Turned(w, AllReads(w, m, fields), H, m, NamesOf(class), yes, x)
<1> PICK s : s = _members[class]
  OBVIOUS
<1> PICK k : k = Len(s)
  OBVIOUS
<1> DEFINE v == FoldLeft(LAMBDA u, f : OneRead(m, fields, u, f), w, s)
<1>1. InOrder(s, k)
  BY MembersInOrder DEF Good
<1>2. StepsRead(m, fields, w, s, k)
  <2>1. k \in 1 .. 3 /\ DOMAIN s = 1 .. k
    BY <1>1 DEF InOrder
  <2> QED BY <2>1, ReadFolds
<1>3. \E t : RunsRead(m, fields, t, w, s, k) /\ v = t[k]
  BY <1>2 DEF StepsRead
<1>4. Turned(w, v, H, m, NamesOf(class), yes, x)
  <2> HIDE DEF v
  <2> PICK t : RunsRead(m, fields, t, w, s, k) /\ v = t[k]
    BY <1>3
  <2>1. Turned(w, t[k], H, m, NamesOf(class), yes, x)
    BY <1>1, AllRead
  <2> QED BY <2>1
<1> QED BY <1>4 DEF AllReads
-----------------------------------------------------------------------------
(* What the calls make of the objects, as values: the object m holds y,    *)
(* and all else is as it was.                                              *)
Holds(w, m) == [g \in SetIn(w, m) |-> GetIn(class, w, m, g)]
NowHolds(w, v, H, m, y) ==
  /\ Good(class, v, H, Full(v)) /\ Blanks(v) /\ DOMAIN v.obj = DOMAIN w.obj \cup {m}
  /\ \A n \in DOMAIN w.obj : n # m => Holds(v, n) = Holds(w, n)
  /\ Holds(v, m) = y
  /\ \A h \in Hands : H[h] # NULL => v.heap[H[h]] = w.heap[H[h]]

LEMMA SameHolds ==
  ASSUME NEW w, NEW v, NEW n, \A g \in NamesOf(class) : Same(class, w, v, n, g)
  PROVE  Holds(v, n) = Holds(w, n)
<1>1. SetIn(v, n) = SetIn(w, n)
  BY DEF Same, SetIn
<1>2. \A g \in SetIn(w, n) : GetIn(class, v, n, g) = GetIn(class, w, n, g)
  BY DEF Same, SetIn
<1> QED BY <1>1, <1>2 DEF Holds

LEMMA SameBlanks ==
  ASSUME NEW w, NEW v, NEW n \in DOMAIN w.obj, Blanks(w),
         \A g \in NamesOf(class) : Same(class, w, v, n, g)
  PROVE  \A g \in NamesOf(class) :
           /\ Owning(class, v, n, g)
           /\ ~HasIn(class, v, n, g) => GetIn(class, v, n, g) = BlankIn(class, g)
BY DEF Same, Blanks

LEMMA TurnedHolds ==
  ASSUME NEW w, NEW H, Blanks(w), NEW m \in DOMAIN w.obj, NEW yes, NEW x, NEW v,
         Turned(w, v, H, m, NamesOf(class), yes, x), yes \subseteq NamesOf(class),
         \A g \in NamesOf(class) : g \notin yes => x[g] = BlankIn(class, g),
         NEW y, y = [g \in yes |-> x[g]]
  PROVE  NowHolds(w, v, H, m, y)
<1>1. /\ Good(class, v, H, Full(v)) /\ DOMAIN v.obj = DOMAIN w.obj
      /\ \A n \in DOMAIN w.obj, g \in NamesOf(class) : n # m => Same(class, w, v, n, g)
      /\ \A g \in NamesOf(class) : (HasIn(class, v, m, g) <=> g \in yes) /\ GetIn(class, v, m, g) = x[g]
                                 /\ (Owning(class, w, m, g) => Owning(class, v, m, g))
      /\ \A h \in Hands : H[h] # NULL => v.heap[H[h]] = w.heap[H[h]]
  BY DEF Turned
<1>2. Blanks(v)
  BY <1>1 DEF Blanks, Same
<1>3. \A n \in DOMAIN w.obj : n # m => Holds(v, n) = Holds(w, n)
  BY <1>1, SameHolds
<1>4. SetIn(v, m) = yes
  BY <1>1 DEF SetIn
<1>5. Holds(v, m) = y
  BY <1>1, <1>4 DEF Holds
<1> QED BY <1>1, <1>2, <1>3, <1>5 DEF NowHolds

(* One member changes: f is set or not, and reads x.                       *)
Alone(w, v, m, f, isSet, x) ==
  /\ DOMAIN v.obj = DOMAIN w.obj
  /\ \A n \in DOMAIN w.obj, g \in NamesOf(class) : n # m \/ g # f => Same(class, w, v, n, g)
  /\ HasIn(class, v, m, f) <=> isSet
  /\ GetIn(class, v, m, f) = x
  /\ Owning(class, w, m, f) => Owning(class, v, m, f)
PutOr(values, f, isSet, x) == IF isSet THEN V!Put(values, f, x) ELSE V!Without(values, {f})
HeldThen(w, v, m, y) ==
  /\ Blanks(v) /\ Holds(v, m) = y
  /\ \A n \in DOMAIN w.obj : n # m => Holds(v, n) = Holds(w, n)

LEMMA AloneHolds ==
  ASSUME NEW w, NEW v, NEW m \in DOMAIN w.obj, NEW f \in NamesOf(class), NEW isSet, NEW x,
         Blanks(w), Alone(w, v, m, f, isSet, x), ~isSet => x = BlankIn(class, f),
         NEW y, y = PutOr(Holds(w, m), f, isSet, x)
  PROVE  HeldThen(w, v, m, y)
<1>2. /\ DOMAIN v.obj = DOMAIN w.obj
      /\ \A n \in DOMAIN w.obj, g \in NamesOf(class) : n # m \/ g # f => Same(class, w, v, n, g)
      /\ HasIn(class, v, m, f) <=> isSet
      /\ GetIn(class, v, m, f) = x
      /\ Owning(class, w, m, f) => Owning(class, v, m, f)
  BY DEF Alone
<1>3. Blanks(v)
  BY <1>2 DEF Blanks, Same
<1>4. \A n \in DOMAIN w.obj : n # m => Holds(v, n) = Holds(w, n)
  BY <1>2, SameHolds
<1>5. \A g \in NamesOf(class) : g # f =>
        (g \in SetIn(v, m) <=> g \in SetIn(w, m)) /\ GetIn(class, v, m, g) = GetIn(class, w, m, g)
  BY <1>2 DEF SetIn, Same
<1>6. CASE isSet
  <2>1. SetIn(v, m) = SetIn(w, m) \cup {f}
    BY <1>2, <1>5, <1>6 DEF SetIn
  <2>2. y = [g \in SetIn(w, m) \cup {f} |-> IF g = f THEN x ELSE GetIn(class, w, m, g)]
    BY <1>6 DEF PutOr, V!Put, Holds
  <2>3. Holds(v, m) = [g \in SetIn(w, m) \cup {f} |-> GetIn(class, v, m, g)]
    BY <2>1 DEF Holds
  <2>4. \A g \in SetIn(w, m) \cup {f} :
          GetIn(class, v, m, g) = IF g = f THEN x ELSE GetIn(class, w, m, g)
    BY <1>2, <1>5 DEF SetIn
  <2>5. Holds(v, m) = y
    BY <2>2, <2>3, <2>4
  <2> QED BY <1>3, <1>4, <2>5 DEF HeldThen
<1>7. CASE ~isSet
  <2>1. SetIn(v, m) = SetIn(w, m) \ {f}
    BY <1>2, <1>5, <1>7 DEF SetIn
  <2>2. y = [g \in SetIn(w, m) \ {f} |-> GetIn(class, w, m, g)]
    BY <1>7 DEF PutOr, V!Without, V!Restrict, Holds
  <2>3. \A g \in SetIn(w, m) \ {f} : GetIn(class, v, m, g) = GetIn(class, w, m, g)
    BY <1>5 DEF SetIn
  <2>4. Holds(v, m) = y
    BY <2>1, <2>2, <2>3 DEF Holds
  <2> QED BY <1>3, <1>4, <2>4 DEF HeldThen
<1> QED BY <1>6, <1>7

LEMMA BecomesHolds ==
  ASSUME NEW w, NEW v, NEW H, NEW m \in DOMAIN w.obj, NEW f \in NamesOf(class), NEW isSet, NEW x,
         Blanks(w), Becomes(w, v, H, m, f, isSet, x), ~isSet => x = BlankIn(class, f),
         NEW y, y = PutOr(Holds(w, m), f, isSet, x)
  PROVE  NowHolds(w, v, H, m, y)
<1>1. Became(w, v, H, m, f, isSet, x)
  BY ONLY BecomesTells, Becomes(w, v, H, m, f, isSet, x), Zenon
<1>2. Alone(w, v, m, f, isSet, x)
  BY <1>1 DEF Became, Alone
<1>3. HeldThen(w, v, m, y)
  BY ONLY <1>2, AloneHolds, m \in DOMAIN w.obj, f \in NamesOf(class), Blanks(w),
          ~isSet => x = BlankIn(class, f), y = PutOr(Holds(w, m), f, isSet, x), Zenon
<1> QED BY <1>1, <1>3 DEF Became, HeldThen, NowHolds

(* Construction, and Clear, leave an object without anything set.          *)
Nothing == [g \in {} |-> BlankIn(class, g)]

LEMMA CtorHolds ==
  ASSUME NEW w, NEW H, Good(class, w, H, Full(w)), Blanks(w), NEW m \in Msgs, m \notin DOMAIN w.obj,
         NEW v, v = SharedCtor(w, m)
  PROVE  NowHolds(w, v, H, m, Nothing)
<1>1. Constructed(w, v, H, m)
  BY CtorIs
<1>2. /\ Good(class, v, H, Full(v)) /\ DOMAIN v.obj = DOMAIN w.obj \cup {m}
      /\ \A n \in DOMAIN w.obj, g \in NamesOf(class) : Same(class, w, v, n, g)
      /\ \A g \in NamesOf(class) : ~HasIn(class, v, m, g) /\ GetIn(class, v, m, g) = BlankIn(class, g)
      /\ v.heap = w.heap
  BY <1>1 DEF Constructed
<1>3. Blanks(v)
  BY <1>2 DEF Blanks, Same, Owning
<1>4. \A n \in DOMAIN w.obj : n # m => Holds(v, n) = Holds(w, n)
  BY <1>2, SameHolds
<1>5. SetIn(v, m) = {}
  BY <1>2 DEF SetIn
<1>6. Holds(v, m) = Nothing
  BY <1>5 DEF Holds, Nothing
<1> QED BY <1>2, <1>3, <1>4, <1>6 DEF NowHolds

LEMMA ClearAllHolds ==
  ASSUME NEW w, NEW H, Good(class, w, H, Full(w)), Blanks(w), NEW m \in DOMAIN w.obj,
         NEW v, v = ClearAll(w, m)
  PROVE  NowHolds(w, v, H, m, Nothing)
<1> PICK x : x = [g \in NamesOf(class) |-> BlankIn(class, g)]
  OBVIOUS
<1> DEFINE f0 == AllResets(w, m)
           u0 == IF w.obj[m].has = {} THEN w ELSE f0
<1>1. Turned(w, f0, H, m, NamesOf(class), SetIn(w, m), x)
  <2> PICK yes : yes = SetIn(w, m)
    OBVIOUS
  <2>1. Turned(w, f0, H, m, NamesOf(class), yes, x)
    BY ResetIs
  <2> QED BY <2>1
<1>2. v = [u0 EXCEPT !.obj[m].has = {}]
  BY DEF ClearAll, OneReset, AllResets
<1> HIDE DEF f0
<1>3. /\ Good(class, u0, H, Full(u0)) /\ DOMAIN u0.obj = DOMAIN w.obj
      /\ \A n \in DOMAIN w.obj, g \in NamesOf(class) : n # m => Same(class, w, u0, n, g)
      /\ \A g \in NamesOf(class) : GetIn(class, u0, m, g) = BlankIn(class, g)
      /\ \A h \in Hands : H[h] # NULL => u0.heap[H[h]] = w.heap[H[h]]
  <2>1. CASE w.obj[m].has = {}
    <3>1. \A g \in NamesOf(class) : GetIn(class, w, m, g) = BlankIn(class, g)
      BY <2>1 DEF Blanks, HasIn
    <3> QED BY <2>1, <3>1 DEF Same
  <2>2. CASE w.obj[m].has # {}
    BY <1>1, <2>2 DEF Turned
  <2> QED BY <2>1, <2>2
<1> HIDE DEF u0
<1>4. /\ Good(class, v, H, Full(u0)) /\ DOMAIN v.obj = DOMAIN u0.obj /\ v.heap = u0.heap
      /\ v.obj[m].has = {}
      /\ \A n \in DOMAIN u0.obj : n # m => v.obj[n] = u0.obj[n]
      /\ \A n \in DOMAIN u0.obj, g \in NamesOf(class) : GetIn(class, v, n, g) = GetIn(class, u0, n, g)
  <2> PICK none : none = {}
    OBVIOUS
  <2>1. /\ none \subseteq {BitIn(class, g) : g \in NamesOf(class)} /\ m \in DOMAIN u0.obj
        /\ v = [u0 EXCEPT !.obj[m].has = none]
    BY <1>2, <1>3
  <2>2. HasGiven(class, u0, v, H, Full(u0), m, none)
    BY ONLY <1>3, <2>1, GoodHas
  <2> QED BY <2>2 DEF HasGiven
<1>5. Good(class, v, H, Full(v))
  BY <1>4, FullIs
<1>6. /\ \A g \in NamesOf(class) : ~HasIn(class, v, m, g) /\ GetIn(class, v, m, g) = BlankIn(class, g)
      /\ \A n \in DOMAIN w.obj, g \in NamesOf(class) : n # m => Same(class, w, v, n, g)
  BY <1>3, <1>4 DEF HasIn, Same, Owning
<1>7. Blanks(v)
  BY <1>3, <1>4, <1>6 DEF Blanks, Same, Owning
<1>8. \A n \in DOMAIN w.obj : n # m => Holds(v, n) = Holds(w, n)
  BY <1>6, SameHolds
<1>9. SetIn(v, m) = {}
  BY <1>6 DEF SetIn
<1>10. Holds(v, m) = Nothing
  BY <1>9 DEF Holds, Nothing
<1> QED BY <1>3, <1>4, <1>5, <1>7, <1>8, <1>10 DEF NowHolds

LEMMA MergedHolds ==
  ASSUME NEW w, NEW H, Good(class, w, H, Full(w)), Blanks(w),
         NEW m \in DOMAIN w.obj, NEW n \in DOMAIN w.obj, m # n, NEW v, v = Merged(w, m, n)
  PROVE  NowHolds(w, v, H, m, V!Over(Holds(w, n), Holds(w, m)))
<1> PICK yes : yes = SetIn(w, m) \cup SetIn(w, n)
  OBVIOUS
<1> PICK x : x = Either(w, m, n)
  OBVIOUS
<1>1. Turned(w, v, H, m, NamesOf(class), yes, x)
  <2>1. _merge[class].of = _members[class]
    BY MembersInOrder DEF Good
  <2>2. v = AllCopies(w, m, n)
    BY <2>1 DEF Merged, OneCopied, AllCopies
  <2>3. Turned(w, AllCopies(w, m, n), H, m, NamesOf(class), yes, x)
    BY CopyIs
  <2> QED BY <2>2, <2>3
<1>2. yes \subseteq NamesOf(class) /\ \A g \in NamesOf(class) : g \notin yes => x[g] = BlankIn(class, g)
  BY DEF SetIn, Either, Blanks
<1>3. [g \in yes |-> x[g]] = V!Over(Holds(w, n), Holds(w, m))
  <2>1. V!Over(Holds(w, n), Holds(w, m)) =
          [g \in SetIn(w, n) \cup SetIn(w, m) |->
             IF g \in SetIn(w, n) THEN GetIn(class, w, n, g) ELSE GetIn(class, w, m, g)]
    BY DEF V!Over, Holds
  <2>2. \A g \in yes :
          /\ g \in NamesOf(class)
          /\ x[g] = IF g \in SetIn(w, n) THEN GetIn(class, w, n, g)
                                        ELSE GetIn(class, w, m, g)
    BY <1>2 DEF Either
  <2> QED BY <2>1, <2>2
<1> PICK y : y = [g \in yes |-> x[g]]
  OBVIOUS
<1>4. NowHolds(w, v, H, m, y)
  BY ONLY <1>1, <1>2, TurnedHolds, Blanks(w), m \in DOMAIN w.obj, y = [g \in yes |-> x[g]]
<1> QED BY <1>3, <1>4

(* One call after another.                                                 *)
LEMMA NowTwice ==
  ASSUME NEW w, NEW u, NEW v, NEW H, NEW m, NEW x, NEW y,
         NowHolds(w, u, H, m, x), NowHolds(u, v, H, m, y)
  PROVE  NowHolds(w, v, H, m, y)
BY DEF NowHolds

LEMMA OverNothing ==
  ASSUME NEW w, NEW n
  PROVE  V!Over(Holds(w, n), Nothing) = Holds(w, n)
BY DEF V!Over, Holds, Nothing

LEMMA BlankMerged ==
  ASSUME NEW w, NEW u, NEW H, NEW m, NEW n \in DOMAIN w.obj, m # n,
         NowHolds(w, u, H, m, Nothing), NEW v, v = Merged(u, m, n)
  PROVE  NowHolds(w, v, H, m, Holds(w, n))
<1>1. /\ Good(class, u, H, Full(u)) /\ Blanks(u) /\ m \in DOMAIN u.obj /\ n \in DOMAIN u.obj
      /\ Holds(u, n) = Holds(w, n) /\ Holds(u, m) = Nothing
  BY DEF NowHolds
<1>2. NowHolds(u, v, H, m, V!Over(Holds(u, n), Holds(u, m)))
  BY <1>1, MergedHolds
<1>3. V!Over(Holds(u, n), Holds(u, m)) = Holds(w, n)
  BY <1>1, OverNothing
<1>4. NowHolds(u, v, H, m, Holds(w, n))
  BY <1>2, <1>3
<1> QED BY <1>4, NowTwice

LEMMA CopyHolds ==
  ASSUME NEW w, NEW H, Good(class, w, H, Full(w)), Blanks(w),
         NEW m \in Msgs, m \notin DOMAIN w.obj, NEW n \in DOMAIN w.obj,
         NEW v, v = Merged(SharedCtor(w, m), m, n)
  PROVE  NowHolds(w, v, H, m, Holds(w, n))
<1> PICK u : u = SharedCtor(w, m)
  OBVIOUS
<1>1. NowHolds(w, u, H, m, Nothing) /\ m # n
  BY CtorHolds
<1>2. v = Merged(u, m, n)
  OBVIOUS
<1> QED BY ONLY <1>1, <1>2, BlankMerged, n \in DOMAIN w.obj

LEMMA CopiedHolds ==
  ASSUME NEW w, NEW H, Good(class, w, H, Full(w)), Blanks(w),
         NEW m \in DOMAIN w.obj, NEW n \in DOMAIN w.obj, NEW v, v = Copied(w, m, n)
  PROVE  NowHolds(w, v, H, m, Holds(w, n))
<1>1. CASE n = m
  <2>1. v = w
    BY <1>1 DEF Copied
  <2> QED BY <1>1, <2>1 DEF NowHolds
<1>2. CASE n # m
  <2> PICK u : u = ClearAll(w, m)
    OBVIOUS
  <2>1. NowHolds(w, u, H, m, Nothing)
    BY ClearAllHolds
  <2>2. v = Merged(u, m, n)
    BY <1>2 DEF Copied
  <2> QED BY ONLY <1>2, <2>1, <2>2, BlankMerged, n \in DOMAIN w.obj
<1> QED BY <1>1, <1>2

LEMMA ParsedHolds ==
  ASSUME NEW w, NEW H, Good(class, w, H, Full(w)), Blanks(w), NEW m \in DOMAIN w.obj,
         NEW bytes, IsFields(class, Merge(class, bytes)), NEW v, v = Parsed(w, m, bytes)
  PROVE  NowHolds(w, v, H, m, Named(Merge(class, bytes)))
<1> PICK fields : fields = Merge(class, bytes)
  OBVIOUS
<1> PICK u : u = ClearAll(w, m)
  OBVIOUS
<1>1. NowHolds(w, u, H, m, Nothing)
  BY ClearAllHolds
<1>2. /\ Good(class, u, H, Full(u)) /\ Blanks(u) /\ m \in DOMAIN u.obj /\ Holds(u, m) = Nothing
  BY <1>1 DEF NowHolds
<1>3. SetIn(u, m) = {}
  <2>1. DOMAIN Holds(u, m) = SetIn(u, m) /\ DOMAIN Nothing = {}
    BY DEF Holds, Nothing
  <2> QED BY <1>2, <2>1
<1> PICK yes : yes = ReadIn(u, m, fields)
  OBVIOUS
<1> PICK x : x = ReadOr(u, m, fields)
  OBVIOUS
<1>4. v = AllReads(u, m, fields)
  <2>1. v = AllReads(ClearAll(w, m), m, Merge(class, bytes))
    BY DEF Parsed, OneRead, AllReads
  <2> QED BY <2>1
<1>5. Turned(u, v, H, m, NamesOf(class), yes, x)
  <2>1. Turned(u, AllReads(u, m, fields), H, m, NamesOf(class), yes, x)
    BY <1>2, ReadIs
  <2> QED BY <1>4, <2>1
<1>6. /\ yes = {g \in NamesOf(class) : NumberIn(class, g) \in DOMAIN fields}
      /\ \A g \in NamesOf(class) : g \notin yes => x[g] = BlankIn(class, g)
      /\ \A g \in yes : x[g] = fields[NumberIn(class, g)]
  BY <1>2, <1>3 DEF ReadIn, ReadOr, Blanks, SetIn
<1> PICK y : y = [g \in yes |-> x[g]]
  OBVIOUS
<1>7. NowHolds(u, v, H, m, y)
  <2>1. yes \subseteq NamesOf(class)
    BY <1>6
  <2> QED BY ONLY <1>2, <1>5, <1>6, <2>1, TurnedHolds, y = [g \in yes |-> x[g]]
<1>8. y = Named(fields)
  BY <1>6 DEF Named, Names, NamesOf, Number, NumberIn
<1> QED BY <1>1, <1>7, <1>8, NowTwice
-----------------------------------------------------------------------------
(* The inductive invariant: every string has its one owner (Good), what is *)
(* set has a string of its own and what is not reads blank (Blanks), and   *)
(* the values kept aside are what the objects and the hands hold.          *)
Values(w) == [m \in DOMAIN w.obj |-> Holds(w, m)]
Texts(w, H) == [h \in Hands |-> IF H[h] = NULL THEN NULL ELSE w.heap[H[h]]]
InvIs(w, H, values, texts) ==
  /\ Good(class, w, H, Full(w)) /\ Blanks(w)
  /\ values = Values(w) /\ texts = Texts(w, H)

(* The same, of a class that is named.                                     *)
InvOf(c, w, H, values, texts) ==
  /\ Good(c, w, H, Slots(c, w.obj))
  /\ \A n \in DOMAIN w.obj, g \in NamesOf(c) :
       /\ Owning(c, w, n, g)
       /\ ~HasIn(c, w, n, g) => GetIn(c, w, n, g) = BlankIn(c, g)
  /\ values = [m \in DOMAIN w.obj |->
                 [g \in {f \in NamesOf(c) : HasIn(c, w, m, f)} |-> GetIn(c, w, m, g)]]
  /\ texts = [h \in Hands |-> IF H[h] = NULL THEN NULL ELSE w.heap[H[h]]]

Inv == InvOf(class, World, hand, val, strings)

LEMMA InvIsOf ==
  ASSUME NEW w, NEW H, NEW values, NEW texts
  PROVE  InvIs(w, H, values, texts) <=> InvOf(class, w, H, values, texts)
BY DEF InvIs, InvOf, Full, Blanks, Values, Texts, Holds, SetIn

LEMMA StepTo ==
  ASSUME NEW w, NEW H, InvIs(w, H, val', strings'),
         obj' = w.obj, heap' = w.heap, hand' = H, class' = class
  PROVE  Inv'
<1>1. w = [obj |-> w.obj, heap |-> w.heap]
  BY DEF InvIs, Good, IsWorld
<1>2. World' = w
  BY <1>1 DEF World
<1>3. InvOf(class, w, H, val', strings')
  BY InvIsOf
<1> QED BY <1>2, <1>3 DEF Inv

LEMMA InvNow ==
  ASSUME Inv
  PROVE  InvIs(World, hand, val, strings)
BY InvIsOf DEF Inv

(* One object takes a value.                                               *)
LEMMA NowInv ==
  ASSUME NEW w, NEW v, NEW H, NEW m, NEW y, NEW values, NEW texts,
         InvIs(w, H, values, texts), NowHolds(w, v, H, m, y),
         NEW then, then = V!Put(values, m, y)
  PROVE  InvIs(v, H, then, texts)
<1>1. /\ Good(class, v, H, Full(v)) /\ Blanks(v) /\ DOMAIN v.obj = DOMAIN w.obj \cup {m}
      /\ \A n \in DOMAIN w.obj : n # m => Holds(v, n) = Holds(w, n)
      /\ Holds(v, m) = y
      /\ \A h \in Hands : H[h] # NULL => v.heap[H[h]] = w.heap[H[h]]
  BY DEF NowHolds
<1>2. values = [n \in DOMAIN w.obj |-> Holds(w, n)] /\ texts = Texts(w, H)
  BY DEF InvIs, Values
<1>3. then = [n \in DOMAIN w.obj \cup {m} |-> IF n = m THEN y ELSE Holds(w, n)]
  BY <1>2 DEF V!Put
<1>4. then = Values(v)
  BY <1>1, <1>3 DEF Values
<1>5. texts = Texts(v, H)
  BY <1>1, <1>2 DEF Texts
<1> QED BY <1>1, <1>4, <1>5 DEF InvIs

LEMMA DoesInv ==
  ASSUME Inv, NEW v, NEW m, NEW y, NowHolds(World, v, hand, m, y), Does(v), V!Becomes(m, y)
  PROVE  Inv'
<1>1. val' = V!Put(val, m, y) /\ strings' = strings
  BY DEF V!Becomes, V!Become
<1>2. InvIs(World, hand, val, strings)
  BY InvNow
<1> PICK then : then = V!Put(val, m, y)
  OBVIOUS
<1>3. InvIs(v, hand, then, strings)
  BY ONLY <1>2, NowHolds(World, v, hand, m, y), then = V!Put(val, m, y), NowInv
<1>4. InvIs(v, hand, val', strings')
  BY <1>1, <1>3
<1>5. obj' = v.obj /\ heap' = v.heap /\ hand' = hand /\ class' = class
  BY DEF Does
<1> QED BY <1>4, <1>5, StepTo

(* What is known of the state at hand.                                     *)
LEMMA InvTells ==
  ASSUME Inv
  PROVE  /\ Good(class, World, hand, Full(World)) /\ Blanks(World)
         /\ DOMAIN World.obj = DOMAIN obj /\ DOMAIN obj \subseteq Msgs
         /\ DOMAIN val = DOMAIN obj /\ \A n \in DOMAIN obj : val[n] = Holds(World, n)
         /\ val = Values(World) /\ strings = Texts(World, hand)
<1>1. InvIs(World, hand, val, strings)
  BY InvNow
<1>2. DOMAIN World.obj = DOMAIN obj
  BY DEF World
<1>3. DOMAIN World.obj \subseteq Msgs
  BY <1>1 DEF InvIs, Good, IsWorld
<1> QED BY <1>1, <1>2, <1>3 DEF InvIs, Values
-----------------------------------------------------------------------------
(* The calls, one by one.                                                  *)
LEMMA EmptyIsNothing == V!Empty = Nothing
BY DEF V!Empty, V!Restrict, Nothing

LEMMA ConstructInv ==
  ASSUME Inv, NEW m \in Msgs, Construct(m)
  PROVE  Inv'
<1> PICK w : w = World
  OBVIOUS
<1> PICK v : v = SharedCtor(w, m)
  OBVIOUS
<1>1. m \notin DOMAIN w.obj /\ Good(class, w, hand, Full(w)) /\ Blanks(w)
  BY InvTells DEF Construct, Exists
<1>2. NowHolds(w, v, hand, m, Nothing)
  BY <1>1, CtorHolds
<1>3. Does(v) /\ V!Becomes(m, Nothing)
  BY EmptyIsNothing DEF Construct, V!Construct
<1> QED BY <1>2, <1>3, DoesInv

LEMMA CopyInv ==
  ASSUME Inv, NEW m \in Msgs, NEW n \in Msgs, Copy(m, n)
  PROVE  Inv'
<1> PICK w : w = World
  OBVIOUS
<1> PICK v : v = Merged(SharedCtor(w, m), m, n)
  OBVIOUS
<1>1. /\ m \notin DOMAIN w.obj /\ n \in DOMAIN w.obj
      /\ Good(class, w, hand, Full(w)) /\ Blanks(w) /\ val[n] = Holds(w, n)
  BY InvTells DEF Copy, Exists
<1>2. NowHolds(w, v, hand, m, Holds(w, n))
  BY <1>1, CopyHolds
<1>3. Does(v) /\ V!Becomes(m, Holds(w, n))
  BY <1>1 DEF Copy, V!Copy
<1> QED BY <1>2, <1>3, DoesInv

LEMMA EveryBool == \A x \in BOOLEAN : IsValue(BOOL, x)
<1>1. IsValue(BOOL, TRUE) /\ IsValue(BOOL, FALSE)
  BY TypesDiffer DEF IsValue
<1>2. \A x \in BOOLEAN : x = TRUE \/ x = FALSE
  OBVIOUS
<1> QED BY <1>1, <1>2

LEMMA SetInv ==
  ASSUME Inv, NEW m \in Msgs, NEW f \in Names, NEW x \in ValuesOf(f), Set(m, f, x)
  PROVE  Inv'
<1> PICK w : w = World
  OBVIOUS
<1> PICK v : v = set(w, m, f, x)
  OBVIOUS
<1> PICK y : y = V!Put(Holds(w, m), f, x)
  OBVIOUS
<1>1. /\ m \in DOMAIN w.obj /\ Good(class, w, hand, Full(w)) /\ Blanks(w)
      /\ val[m] = Holds(w, m)
  BY InvTells DEF Set, Exists
<1>2. f \in NamesOf(class) /\ Type(f) = TypeIn(class, f) /\ Known(class)
  BY <1>1 DEF Names, NamesOf, Type, TypeIn, Number, NumberIn, Good
<1>3. IsValueOf(f, x)
  <2>1. TypeIn(class, f) \in {BOOL, INT32, STRING_}
    BY <1>2, NamesAre DEF Types
  <2>2. CASE TypeIn(class, f) = BOOL
    <3>0. ValuesOf(f) = BOOLEAN
      BY <1>2, <2>2, TypesDiffer DEF ValuesOf
    <3>1. x \in BOOLEAN
      BY <3>0
    <3>2. IsValue(TypeIn(class, f), x)
      BY <2>2, <3>1, EveryBool
    <3> QED BY <3>2, ValueIs
  <2>3. CASE TypeIn(class, f) = INT32
    <3>1. x \in Numbers
      BY <1>2, <2>3, TypesDiffer DEF ValuesOf
    <3>2. IsValue(TypeIn(class, f), x)
      BY <2>3, <3>1, ValuesAssumption
    <3> QED BY <3>2, ValueIs
  <2>4. CASE TypeIn(class, f) = STRING_
    <3>1. x \in Strings
      BY <1>2, <2>4, TypesDiffer DEF ValuesOf
    <3>2. IsValue(TypeIn(class, f), x)
      BY <2>4, <3>1, ValuesAssumption
    <3> QED BY <3>2, ValueIs
  <2> QED BY <2>1, <2>2, <2>3, <2>4
<1>4. Becomes(w, v, hand, m, f, TRUE, x)
  BY <1>1, <1>2, <1>3, SetIs
<1>5. NowHolds(w, v, hand, m, y)
  <2>1. y = PutOr(Holds(w, m), f, TRUE, x)
    BY DEF PutOr
  <2>2. ~TRUE => x = BlankIn(class, f)
    OBVIOUS
  <2>3. f \in NamesOf(class) /\ m \in DOMAIN w.obj /\ Blanks(w)
    BY <1>1, <1>2
  <2> QED BY ONLY <1>4, <2>1, <2>2, <2>3, BecomesHolds, Zenon
<1>6. Does(v) /\ V!Becomes(m, y)
  BY <1>1 DEF Set, V!Set
<1> QED BY <1>5, <1>6, DoesInv

LEMMA ClearFieldInv ==
  ASSUME Inv, NEW m \in Msgs, NEW f \in Names, ClearField(m, f)
  PROVE  Inv'
<1> PICK w : w = World
  OBVIOUS
<1> PICK v : v = clear(w, m, f)
  OBVIOUS
<1> PICK x : x = BlankIn(class, f)
  OBVIOUS
<1> PICK y : y = V!Without(Holds(w, m), {f})
  OBVIOUS
<1>1. /\ m \in DOMAIN w.obj /\ Good(class, w, hand, Full(w)) /\ Blanks(w)
      /\ val[m] = Holds(w, m) /\ f \in NamesOf(class)
  BY InvTells DEF ClearField, Exists, Names, NamesOf
<1>2. Becomes(w, v, hand, m, f, FALSE, x)
  BY <1>1, ClearIs
<1>3. NowHolds(w, v, hand, m, y)
  <2>1. y = PutOr(Holds(w, m), f, FALSE, x)
    BY DEF PutOr
  <2>2. ~FALSE => x = BlankIn(class, f)
    OBVIOUS
  <2> QED BY ONLY <1>1, <1>2, <2>1, <2>2, BecomesHolds, Zenon
<1>4. Does(v) /\ V!Becomes(m, y)
  BY <1>1 DEF ClearField, V!ClearField
<1> QED BY <1>3, <1>4, DoesInv

LEMMA ClearInv ==
  ASSUME Inv, NEW m \in Msgs, Clear(m)
  PROVE  Inv'
<1> PICK w : w = World
  OBVIOUS
<1> PICK v : v = ClearAll(w, m)
  OBVIOUS
<1>1. m \in DOMAIN w.obj /\ Good(class, w, hand, Full(w)) /\ Blanks(w)
  BY InvTells DEF Clear, Exists
<1>2. NowHolds(w, v, hand, m, Nothing)
  BY <1>1, ClearAllHolds
<1>3. Does(v) /\ V!Becomes(m, Nothing)
  BY EmptyIsNothing DEF Clear, V!Clear
<1> QED BY <1>2, <1>3, DoesInv

LEMMA MergeFromInv ==
  ASSUME Inv, NEW m \in Msgs, NEW n \in Msgs, MergeFrom(m, n)
  PROVE  Inv'
<1> PICK w : w = World
  OBVIOUS
<1> PICK v : v = Merged(w, m, n)
  OBVIOUS
<1> PICK y : y = V!Over(Holds(w, n), Holds(w, m))
  OBVIOUS
<1>1. /\ m \in DOMAIN w.obj /\ n \in DOMAIN w.obj /\ m # n
      /\ Good(class, w, hand, Full(w)) /\ Blanks(w)
      /\ val[n] = Holds(w, n) /\ val[m] = Holds(w, m)
  BY InvTells DEF MergeFrom, Exists
<1>2. NowHolds(w, v, hand, m, y)
  BY <1>1, MergedHolds
<1>3. Does(v) /\ V!Becomes(m, y)
  BY <1>1 DEF MergeFrom, V!MergeFrom
<1> QED BY <1>2, <1>3, DoesInv

LEMMA CopyFromInv ==
  ASSUME Inv, NEW m \in Msgs, NEW n \in Msgs, CopyFrom(m, n)
  PROVE  Inv'
<1> PICK w : w = World
  OBVIOUS
<1> PICK v : v = Copied(w, m, n)
  OBVIOUS
<1>1. /\ m \in DOMAIN w.obj /\ n \in DOMAIN w.obj
      /\ Good(class, w, hand, Full(w)) /\ Blanks(w) /\ val[n] = Holds(w, n)
  BY InvTells DEF CopyFrom, Exists
<1>2. NowHolds(w, v, hand, m, Holds(w, n))
  BY <1>1, CopiedHolds
<1>3. Does(v) /\ V!Becomes(m, Holds(w, n))
  BY <1>1 DEF CopyFrom, V!CopyFrom
<1> QED BY <1>2, <1>3, DoesInv

LEMMA DeleteInv ==
  ASSUME Inv, NEW m \in Msgs, Delete(m)
  PROVE  Inv'
<1> PICK w : w = World
  OBVIOUS
<1> PICK v : v = SharedDtor(w, m)
  OBVIOUS
<1>1. /\ m \in DOMAIN w.obj /\ Good(class, w, hand, Full(w)) /\ Blanks(w)
      /\ val = Values(w) /\ strings = Texts(w, hand)
  BY InvTells DEF Delete, Exists
<1>2. Destroyed(w, v, hand, m)
  BY <1>1, DtorIs
<1>3. /\ Good(class, v, hand, Full(v)) /\ DOMAIN v.obj = DOMAIN w.obj \ {m}
      /\ \A n \in DOMAIN v.obj, g \in NamesOf(class) : Same(class, w, v, n, g)
      /\ \A h \in Hands : hand[h] # NULL => v.heap[hand[h]] = w.heap[hand[h]]
  BY <1>2 DEF Destroyed
<1>4. Blanks(v)
  BY <1>1, <1>3 DEF Blanks, Same
<1>5. \A n \in DOMAIN v.obj : Holds(v, n) = Holds(w, n)
  BY <1>3, SameHolds
<1>6. val' = V!Without(val, {m}) /\ strings' = strings
  BY DEF Delete, V!Delete, V!Become
<1>7. val' = Values(v)
  <2>1. V!Without(val, {m}) = [n \in DOMAIN w.obj \ {m} |-> Holds(w, n)]
    BY <1>1 DEF V!Without, V!Restrict, Values
  <2> QED BY <1>3, <1>5, <1>6, <2>1 DEF Values
<1>8. strings' = Texts(v, hand)
  BY <1>1, <1>3, <1>6 DEF Texts
<1>9. InvIs(v, hand, val', strings')
  BY <1>3, <1>4, <1>7, <1>8 DEF InvIs
<1>10. obj' = v.obj /\ heap' = v.heap /\ hand' = hand /\ class' = class
  BY DEF Delete, Does
<1> QED BY <1>9, <1>10, StepTo

LEMMA SwapInv ==
  ASSUME Inv, NEW m \in Msgs, NEW n \in Msgs, Swap(m, n)
  PROVE  Inv'
<1> PICK w : w = World
  OBVIOUS
<1> PICK v : v = Swapped(w, m, n)
  OBVIOUS
<1>1. /\ m \in DOMAIN w.obj /\ n \in DOMAIN w.obj /\ m # n
      /\ Good(class, w, hand, Full(w)) /\ Blanks(w)
      /\ val = Values(w) /\ strings = Texts(w, hand)
  BY InvTells DEF Swap, Exists
<1>2. Exchange(w, v, hand, m, n)
  BY <1>1, SwappedIs
<1>3. /\ Good(class, v, hand, Full(v)) /\ DOMAIN v.obj = DOMAIN w.obj /\ v.heap = w.heap
      /\ v.obj[m] = w.obj[n] /\ v.obj[n] = w.obj[m]
      /\ \A l \in DOMAIN w.obj : l # m /\ l # n => v.obj[l] = w.obj[l]
  BY <1>2 DEF Exchange
<1> DEFINE other(l) == IF l = m THEN n ELSE IF l = n THEN m ELSE l
<1>4. \A l \in DOMAIN w.obj : other(l) \in DOMAIN w.obj /\ v.obj[l] = w.obj[other(l)]
  BY <1>1, <1>3
<1> HIDE DEF other
<1>5. \A l \in DOMAIN w.obj, g \in NamesOf(class) :
        /\ HasIn(class, v, l, g) <=> HasIn(class, w, other(l), g)
        /\ GetIn(class, v, l, g) = GetIn(class, w, other(l), g)
        /\ Owning(class, v, l, g) <=> Owning(class, w, other(l), g)
  BY <1>3, <1>4 DEF HasIn, GetIn, Owning
<1>6. Blanks(v)
  <2>1. \A l \in DOMAIN w.obj, g \in NamesOf(class) :
          /\ Owning(class, w, l, g)
          /\ ~HasIn(class, w, l, g) => GetIn(class, w, l, g) = BlankIn(class, g)
    BY <1>1 DEF Blanks
  <2> QED BY <1>3, <1>4, <1>5, <2>1 DEF Blanks
<1>7. ASSUME NEW l \in DOMAIN w.obj PROVE Holds(v, l) = Holds(w, other(l))
  <2>1. SetIn(v, l) = SetIn(w, other(l)) /\ SetIn(v, l) \subseteq NamesOf(class)
    BY <1>5 DEF SetIn
  <2> QED BY <1>5, <2>1 DEF Holds
<1>8. val' = [val EXCEPT ![m] = val[n], ![n] = val[m]] /\ strings' = strings
  BY DEF Swap, V!Swap, V!Become
<1>9. val' = Values(v)
  <2>1. val = [l \in DOMAIN w.obj |-> Holds(w, l)]
    BY <1>1 DEF Values
  <2>2. [val EXCEPT ![m] = val[n], ![n] = val[m]] = [l \in DOMAIN w.obj |-> Holds(w, other(l))]
    BY <1>1, <2>1 DEF other
  <2> QED BY <1>3, <1>7, <1>8, <2>2 DEF Values
<1>10. strings' = Texts(v, hand)
  BY <1>1, <1>3, <1>8 DEF Texts
<1>11. InvIs(v, hand, val', strings')
  BY <1>3, <1>6, <1>9, <1>10 DEF InvIs
<1>12. obj' = v.obj /\ heap' = v.heap /\ hand' = hand /\ class' = class
  BY DEF Swap, Does
<1> QED BY <1>11, <1>12, StepTo

(* The bytes that are parsed are bytes, and what is read from them values. *)
LEMMA InputsAre ==
  ASSUME Codec, Known(class), NEW bytes \in Inputs
  PROVE  IsFields(class, Merge(class, bytes))
<1> DEFINE value(f) == CHOOSE x \in ValuesOf(f) : x # Blank(f)
           s == _members[class]
           whole == [i \in DOMAIN s |-> value(s[i])]
           all == Serialize(class, whole)
<1>1. ASSUME NEW f \in NamesOf(class)
      PROVE  IsValue(TypeIn(class, f), value(f))
  <2>1. /\ Type(f) = TypeIn(class, f) /\ TypeIn(class, f) \in {BOOL, INT32, STRING_}
        /\ (IsString(f) <=> TypeIn(class, f) = STRING_)
        /\ (TypeIn(class, f) = INT32 => _ctor[class][f] = 0)
    BY NamesAre DEF Types, Type, TypeIn, Number, NumberIn, IsString
  <2>2. CASE TypeIn(class, f) = BOOL
    <3>1. ValuesOf(f) = BOOLEAN
      BY <2>1, <2>2, TypesDiffer DEF ValuesOf
    <3>2. \E x \in BOOLEAN : x # Blank(f)
      OBVIOUS
    <3>3. value(f) \in BOOLEAN
      BY <3>1, <3>2
    <3> HIDE DEF value
    <3> QED BY <2>2, <3>3, EveryBool
  <2>3. CASE TypeIn(class, f) = INT32
    <3>1. ValuesOf(f) = Numbers /\ Blank(f) = 0
      BY <2>1, <2>3, TypesDiffer DEF ValuesOf, Blank
    <3>2. \E x \in Numbers : x # Blank(f)
      BY <3>1, ValuesAssumption
    <3>3. value(f) \in Numbers
      BY <3>1, <3>2
    <3> HIDE DEF value
    <3> QED BY <2>3, <3>3, ValuesAssumption
  <2>4. CASE TypeIn(class, f) = STRING_
    <3>1. ValuesOf(f) = Strings /\ Blank(f) = <<>>
      BY <2>1, <2>4, TypesDiffer DEF ValuesOf, Blank
    <3>2. \E x \in Strings : x # Blank(f)
      BY <3>1, ValuesAssumption
    <3>3. value(f) \in Strings
      BY <3>1, <3>2
    <3> HIDE DEF value
    <3> QED BY <2>4, <3>3, ValuesAssumption
  <2> QED BY <2>1, <2>2, <2>3, <2>4
<1> HIDE DEF value
<1>2. IsFields(class, whole)
  <2>1. /\ DOMAIN whole = DOMAIN s /\ DOMAIN s = DOMAIN _msg_id_names[class]
        /\ \A i \in DOMAIN s : s[i] \in NamesOf(class) /\ NumberIn(class, s[i]) = i
    BY PlacesAre
  <2>2. \A i \in DOMAIN s : IsValue(_msg_id_names[class][i], whole[i])
    BY <1>1, <2>1 DEF TypeIn
  <2> QED BY <2>1, <2>2 DEF IsFields
<1> HIDE DEF s, whole
<1>3. class \in DOMAIN _msg_id_names
  BY DEF Known
<1>4. all \in Seq(Byte)
  BY <1>2, <1>3 DEF Codec
<1>5. PICK n \in 0 .. Len(all) : bytes = SubSeq(all, 1, n)
  BY DEF Inputs, whole, s, value
<1> HIDE DEF all
<1>6. bytes \in Seq(Byte)
  BY <1>4, <1>5
<1> QED BY <1>3, <1>6 DEF Codec

LEMMA ParseInv ==
  ASSUME Codec, Inv, NEW m \in Msgs, NEW bytes \in Inputs, Parse(m, bytes)
  PROVE  Inv'
<1> PICK w : w = World
  OBVIOUS
<1> PICK v : v = Parsed(w, m, bytes)
  OBVIOUS
<1> PICK y : y = Named(Merge(class, bytes))
  OBVIOUS
<1>1. m \in DOMAIN w.obj /\ Good(class, w, hand, Full(w)) /\ Blanks(w)
  BY InvTells DEF Parse, Exists
<1>2. IsFields(class, Merge(class, bytes))
  BY <1>1, InputsAre DEF Good
<1>3. NowHolds(w, v, hand, m, y)
  BY <1>1, <1>2, ParsedHolds
<1>4. Does(v) /\ V!Becomes(m, y)
  BY DEF Parse, V!Parse
<1> QED BY <1>3, <1>4, DoesInv

(* A string is handed over, by the message or by its user.                 *)
LEMMA HandedInv ==
  ASSUME NEW w, NEW H, InvIs(w, H, Values(w), Texts(w, H)),
         NEW m \in DOMAIN w.obj, NEW f \in NamesOf(class), NEW h \in Hands,
         NEW v, NEW K, NEW isSet, NEW x, NEW y, Handed(w, v, H, K, m, f, h, isSet, x, y),
         ~isSet => x = BlankIn(class, f), \A j \in Hands : j # h => K[j] = H[j],
         NEW values, values = [Values(w) EXCEPT ![m] = PutOr(@, f, isSet, x)],
         NEW texts, texts = [Texts(w, H) EXCEPT ![h] = IF K[h] = NULL THEN NULL ELSE y]
  PROVE  InvIs(v, K, values, texts)
<1>1. /\ Good(class, v, K, Full(v)) /\ DOMAIN v.obj = DOMAIN w.obj
      /\ \A j \in Hands : j # h /\ H[j] # NULL => v.heap[H[j]] = w.heap[H[j]]
      /\ K[h] # NULL => v.heap[K[h]] = y
  BY DEF Handed
<1>2. Alone(w, v, m, f, isSet, x)
  <2>1. \A n \in DOMAIN w.obj, g \in NamesOf(class) :
          <<n, g>> # <<m, f>> => Same(class, w, v, n, g)
    BY DEF Handed
  <2>2. \A n \in DOMAIN w.obj, g \in NamesOf(class) : n # m \/ g # f => Same(class, w, v, n, g)
    BY <2>1
  <2> QED BY <2>2 DEF Handed, Alone
<1>3. Blanks(w)
  BY DEF InvIs
<1> PICK z : z = PutOr(Holds(w, m), f, isSet, x)
  OBVIOUS
<1>4. HeldThen(w, v, m, z)
  BY ONLY <1>2, <1>3, AloneHolds, m \in DOMAIN w.obj, f \in NamesOf(class),
          ~isSet => x = BlankIn(class, f), z = PutOr(Holds(w, m), f, isSet, x), Zenon
<1>5. /\ Blanks(v) /\ Holds(v, m) = z
      /\ \A n \in DOMAIN w.obj : n # m => Holds(v, n) = Holds(w, n)
  BY <1>4 DEF HeldThen
<1>6. values = Values(v)
  <2>1. DOMAIN Values(w) = DOMAIN w.obj /\ Values(w)[m] = Holds(w, m)
    BY DEF Values
  <2>2. values = [Values(w) EXCEPT ![m] = z]
    <3>1. values = [Values(w) EXCEPT ![m] = PutOr(Values(w)[m], f, isSet, x)]
      OBVIOUS
    <3>2. PutOr(Values(w)[m], f, isSet, x) = z
      BY <2>1
    <3> QED BY ONLY <3>1, <3>2
  <2>3. values = [n \in DOMAIN w.obj |-> IF n = m THEN z ELSE Holds(w, n)]
    BY ONLY <2>2 DEF Values
  <2> QED BY <1>1, <1>5, <2>3 DEF Values
<1>7. texts = Texts(v, K)
  BY <1>1 DEF Texts
<1> QED BY <1>1, <1>5, <1>6, <1>7 DEF InvIs

LEMMA ReleaseInv ==
  ASSUME Inv, NEW m \in Msgs, NEW f \in Names, NEW h \in Hands, Release(m, f, h)
  PROVE  Inv'
<1> PICK w : w = World
  OBVIOUS
<1> PICK H : H = hand
  OBVIOUS
<1> PICK v : v = release(w, m, f)
  OBVIOUS
<1> PICK p : p = w.obj[m].member[f]
  OBVIOUS
<1> PICK K : K = [H EXCEPT ![h] = IF p = 0 THEN NULL ELSE p]
  OBVIOUS
<1> PICK y : y = GetIn(class, w, m, f)
  OBVIOUS
<1>1. /\ m \in DOMAIN w.obj /\ Good(class, w, H, Full(w)) /\ Blanks(w)
      /\ val = Values(w) /\ strings = Texts(w, H) /\ val[m] = Holds(w, m)
  BY InvTells DEF Release, Exists
<1>2. f \in NamesOf(class) /\ StringIn(class, f) /\ H[h] = NULL
  BY DEF Release, Names, NamesOf, IsString, StringIn, Type, TypeIn, Number, NumberIn
<1>3. Handed(w, v, H, K, m, f, h, FALSE, <<>>, y)
  BY ONLY <1>1, <1>2, ReleaseIs, h \in Hands, p = w.obj[m].member[f], v = release(w, m, f),
          K = [H EXCEPT ![h] = IF p = 0 THEN NULL ELSE p], y = GetIn(class, w, m, f)
<1>4. InvIs(w, H, Values(w), Texts(w, H))
  BY <1>1 DEF InvIs
<1>5. K[h] = (IF p = 0 THEN NULL ELSE p) /\ \A j \in Hands : j # h => K[j] = H[j]
  BY <1>1 DEF Good, IsHand
<1>6. ~FALSE => <<>> = BlankIn(class, f)
  BY <1>2 DEF BlankIn
<1> PICK values : values = [Values(w) EXCEPT ![m] = PutOr(@, f, FALSE, <<>>)]
  OBVIOUS
<1> PICK texts : texts = [Texts(w, H) EXCEPT ![h] = IF K[h] = NULL THEN NULL ELSE y]
  OBVIOUS
<1>7. InvIs(v, K, values, texts)
  BY ONLY <1>1, <1>2, <1>3, <1>4, <1>5, <1>6, HandedInv, h \in Hands,
          values = [Values(w) EXCEPT ![m] = PutOr(@, f, FALSE, <<>>)],
          texts = [Texts(w, H) EXCEPT ![h] = IF K[h] = NULL THEN NULL ELSE y], Zenon
<1>8. val' = values
  <2>1. val' = [val EXCEPT ![m] = V!Without(@, {f})]
    BY DEF Release, V!Release
  <2> QED BY <1>1, <2>1 DEF PutOr
<1>9. strings' = texts
  <2> PICK t : t = IF f \in DOMAIN val[m] THEN val[m][f]
                   ELSE IF p = kEmptyString THEN NULL ELSE [g \in Names |-> Blank(g)][f]
    OBVIOUS
  <2>1. strings' = [strings EXCEPT ![h] = t]
    BY DEF Release, V!Release, pointer
  <2>2. Blank(f) = <<>>
    BY <1>2 DEF Blank, IsString, StringIn, Type, TypeIn, Number, NumberIn
  <2>3. t = IF HasIn(class, w, m, f) THEN y ELSE IF p = 0 THEN NULL ELSE <<>>
    BY <1>1, <1>2, <2>2 DEF Holds, SetIn, kEmptyString
  <2>4. HasIn(class, w, m, f) => p # 0
    BY <1>1, <1>2 DEF Blanks, Owning
  <2>5. ~HasIn(class, w, m, f) => y = <<>>
    BY <1>1, <1>2 DEF Blanks, BlankIn
  <2>6. p # 0 => K[h] # NULL
    <3>1. K[h] \in Addrs \cup {NULL} /\ p # NULL
      <4>1. Good(class, v, K, Full(v))
        BY <1>3 DEF Handed
      <4>2. <<m, f>> \in Full(w)
        BY <1>1, <1>2, InFull
      <4>3. OwnersSay(class, w, H, Full(w), Owners(w, H, Full(w)))
        BY <1>1, OwnersAre DEF Good
      <4>4. <<m, f>> \in DOMAIN Owners(w, H, Full(w)) /\ Owners(w, H, Full(w))[<<m, f>>] = p
        BY <4>2, <4>3 DEF OwnersSay
      <4>5. p \in Addrs \cup {0}
        <5> PICK owns : owns = Owners(w, H, Full(w))
          OBVIOUS
        <5>1. Own(owns, w.heap)
          BY <1>1 DEF Good
        <5>2. \A o \in DOMAIN owns : owns[o] \in Addrs \cup {0}
          BY <5>1 DEF Own
        <5> QED BY <4>4, <5>2
      <4> QED BY <4>1, <4>5, TextsAre, ValuesAssumption DEF Good, IsHand
    <3> QED BY <1>5, <3>1
  <2>7. t = IF K[h] = NULL THEN NULL ELSE y
    BY <1>5, <2>3, <2>4, <2>5, <2>6
  <2> QED BY <1>1, <2>1, <2>7
<1>10. obj' = v.obj /\ heap' = v.heap /\ hand' = K /\ class' = class
  BY DEF Release, pointer, kEmptyString
<1> QED BY <1>7, <1>8, <1>9, <1>10, StepTo

LEMMA SetAllocatedInv ==
  ASSUME Inv, NEW m \in Msgs, NEW f \in Names, NEW h \in Hands, SetAllocated(m, f, h)
  PROVE  Inv'
<1> PICK w : w = World
  OBVIOUS
<1> PICK H : H = hand
  OBVIOUS
<1> PICK v : v = set_allocated(w, m, f, H[h])
  OBVIOUS
<1> PICK K : K = [H EXCEPT ![h] = NULL]
  OBVIOUS
<1> PICK x : x = IF H[h] = NULL THEN <<>> ELSE w.heap[H[h]]
  OBVIOUS
<1>1. /\ m \in DOMAIN w.obj /\ Good(class, w, H, Full(w)) /\ Blanks(w)
      /\ val = Values(w) /\ strings = Texts(w, H) /\ val[m] = Holds(w, m)
  BY InvTells DEF SetAllocated, Exists
<1>2. f \in NamesOf(class) /\ StringIn(class, f)
  BY DEF SetAllocated, Names, NamesOf, IsString, StringIn, Type, TypeIn, Number, NumberIn
<1>3. Handed(w, v, H, K, m, f, h, H[h] # NULL, x, NULL)
  BY ONLY <1>1, <1>2, SetAllocatedIs, h \in Hands, v = set_allocated(w, m, f, H[h]),
          K = [H EXCEPT ![h] = NULL], x = IF H[h] = NULL THEN <<>> ELSE w.heap[H[h]],
          ZenonT(60)
<1>4. InvIs(w, H, Values(w), Texts(w, H))
  BY <1>1 DEF InvIs
<1>5. K[h] = NULL /\ \A j \in Hands : j # h => K[j] = H[j]
  BY <1>1 DEF Good, IsHand
<1>6. ~(H[h] # NULL) => x = BlankIn(class, f)
  BY <1>2 DEF BlankIn
<1> PICK values : values = [Values(w) EXCEPT ![m] = PutOr(@, f, H[h] # NULL, x)]
  OBVIOUS
<1> PICK texts : texts = [Texts(w, H) EXCEPT ![h] = IF K[h] = NULL THEN NULL ELSE NULL]
  OBVIOUS
<1>7. InvIs(v, K, values, texts)
  BY ONLY <1>1, <1>2, <1>3, <1>4, <1>5, <1>6, HandedInv, h \in Hands,
          values = [Values(w) EXCEPT ![m] = PutOr(@, f, H[h] # NULL, x)],
          texts = [Texts(w, H) EXCEPT ![h] = IF K[h] = NULL THEN NULL ELSE NULL], Zenon
<1>8. strings[h] = NULL <=> H[h] = NULL
  <2>1. strings[h] = IF H[h] = NULL THEN NULL ELSE w.heap[H[h]]
    BY <1>1 DEF Texts
  <2>2. H[h] # NULL => w.heap[H[h]] # NULL
    <3>1. OwnersSay(class, w, H, Full(w), Owners(w, H, Full(w)))
      BY <1>1, OwnersAre DEF Good
    <3>2. /\ <<h, "hand">> \in DOMAIN Owners(w, H, Full(w))
          /\ Owners(w, H, Full(w))[<<h, "hand">>] = IF H[h] = NULL THEN 0 ELSE H[h]
      BY <3>1 DEF OwnersSay
    <3>3. w.heap[Owners(w, H, Full(w))[<<h, "hand">>]] \in Text
      BY <1>1, <3>2, OwnedTexts DEF Good
    <3> QED BY <3>2, <3>3, TextsAre
  <2> QED BY <2>1, <2>2
<1>9. val' = values
  <2>1. val' = [val EXCEPT ![m] = IF strings[h] = NULL THEN V!Without(@, {f})
                                                       ELSE V!Put(@, f, strings[h])]
    BY DEF SetAllocated, V!SetAllocated
  <2>2. strings[h] = IF H[h] = NULL THEN NULL ELSE w.heap[H[h]]
    BY <1>1 DEF Texts
  <2>3. PutOr(val[m], f, H[h] # NULL, x) =
          IF strings[h] = NULL THEN V!Without(val[m], {f}) ELSE V!Put(val[m], f, strings[h])
    BY <1>8, <2>2 DEF PutOr
  <2>4. values = [val EXCEPT ![m] = PutOr(val[m], f, H[h] # NULL, x)]
    BY <1>1
  <2> QED BY <2>1, <2>3, <2>4
<1>10. strings' = texts
  BY <1>1 DEF SetAllocated, V!SetAllocated
<1>11. obj' = v.obj /\ heap' = v.heap /\ hand' = K /\ class' = class
  BY DEF SetAllocated
<1> QED BY <1>7, <1>9, <1>10, <1>11, StepTo

LEMMA UserInv ==
  ASSUME NEW w, NEW H, InvIs(w, H, Values(w), Texts(w, H)), NEW h \in Hands,
         NEW v, NEW K, NEW y, UserChanged(w, v, H, K, h, y),
         \A j \in Hands : j # h => K[j] = H[j],
         NEW texts, texts = [Texts(w, H) EXCEPT ![h] = y]
  PROVE  InvIs(v, K, Values(w), texts)
<1>1. /\ Good(class, v, K, Full(v)) /\ DOMAIN v.obj = DOMAIN w.obj
      /\ \A n \in DOMAIN w.obj, g \in NamesOf(class) : Same(class, w, v, n, g)
      /\ \A j \in Hands : j # h /\ H[j] # NULL => v.heap[H[j]] = w.heap[H[j]]
      /\ IF K[h] = NULL THEN y = NULL ELSE v.heap[K[h]] = y
  BY DEF UserChanged, AllButHand
<1>2. Blanks(w)
  BY DEF InvIs
<1>3. Blanks(v)
  BY <1>1, <1>2 DEF Blanks, Same
<1>4. \A n \in DOMAIN w.obj : Holds(v, n) = Holds(w, n)
  BY <1>1, SameHolds
<1>5. Values(w) = Values(v)
  BY <1>1, <1>4 DEF Values
<1>6. texts = Texts(v, K)
  BY <1>1 DEF Texts
<1> QED BY <1>1, <1>3, <1>5, <1>6 DEF InvIs

LEMMA UserNewInv ==
  ASSUME Inv, NEW h \in Hands, NEW x \in Strings, UserNew(h, x)
  PROVE  Inv'
<1> PICK w : w = World
  OBVIOUS
<1> PICK H : H = hand
  OBVIOUS
<1> PICK K : K = [H EXCEPT ![h] = Fresh(w)]
  OBVIOUS
<1> PICK v : v = [obj |-> w.obj, heap |-> [w.heap EXCEPT ![Fresh(w)] = x]]
  OBVIOUS
<1> PICK texts : texts = [Texts(w, H) EXCEPT ![h] = x]
  OBVIOUS
<1>1. /\ Good(class, w, H, Full(w)) /\ Blanks(w)
      /\ val = Values(w) /\ strings = Texts(w, H) /\ H[h] = NULL
  BY InvTells DEF UserNew
<1>2. x \in Text
  <2>1. IsValue(STRING_, x)
    BY ValuesAssumption
  <2> QED BY <2>1, TypesDiffer DEF IsValue, Text
<1>3. UserChanged(w, v, H, K, h, x)
  BY ONLY <1>1, <1>2, UserNewIs, h \in Hands, K = [H EXCEPT ![h] = Fresh(w)],
          v = [obj |-> w.obj, heap |-> [w.heap EXCEPT ![Fresh(w)] = x]]
<1>4. InvIs(w, H, Values(w), Texts(w, H)) /\ \A j \in Hands : j # h => K[j] = H[j]
  BY <1>1 DEF InvIs, Good, IsHand
<1>5. InvIs(v, K, Values(w), texts)
  BY ONLY <1>3, <1>4, UserInv, h \in Hands, texts = [Texts(w, H) EXCEPT ![h] = x]
<1>6. val' = Values(w) /\ strings' = texts
  BY <1>1 DEF UserNew, V!UserString
<1>7. w.obj = obj /\ w.heap = heap
  BY DEF World
<1>8. obj' = v.obj /\ heap' = v.heap /\ hand' = K /\ class' = class
  BY <1>7 DEF UserNew
<1> QED BY <1>5, <1>6, <1>8, StepTo

LEMMA UserDeleteInv ==
  ASSUME Inv, NEW h \in Hands, UserDelete(h)
  PROVE  Inv'
<1> PICK w : w = World
  OBVIOUS
<1> PICK H : H = hand
  OBVIOUS
<1> PICK K : K = [H EXCEPT ![h] = NULL]
  OBVIOUS
<1> PICK v : v = [obj |-> w.obj, heap |-> [w.heap EXCEPT ![H[h]] = FREED]]
  OBVIOUS
<1> PICK texts : texts = [Texts(w, H) EXCEPT ![h] = NULL]
  OBVIOUS
<1>1. /\ Good(class, w, H, Full(w)) /\ Blanks(w)
      /\ val = Values(w) /\ strings = Texts(w, H) /\ H[h] # NULL
  BY InvTells DEF UserDelete
<1>2. UserChanged(w, v, H, K, h, NULL)
  BY ONLY <1>1, UserDeleteIs, h \in Hands, K = [H EXCEPT ![h] = NULL],
          v = [obj |-> w.obj, heap |-> [w.heap EXCEPT ![H[h]] = FREED]]
<1>3. InvIs(w, H, Values(w), Texts(w, H)) /\ \A j \in Hands : j # h => K[j] = H[j]
  BY <1>1 DEF InvIs, Good, IsHand
<1>4. InvIs(v, K, Values(w), texts)
  BY ONLY <1>2, <1>3, UserInv, h \in Hands, texts = [Texts(w, H) EXCEPT ![h] = NULL]
<1>5. val' = Values(w) /\ strings' = texts
  BY <1>1 DEF UserDelete, V!UserString
<1>6. w.obj = obj /\ w.heap = heap
  BY DEF World
<1>7. obj' = v.obj /\ heap' = v.heap /\ hand' = K /\ class' = class
  BY <1>6 DEF UserDelete
<1> QED BY <1>4, <1>5, <1>7, StepTo

LEMMA InitInv == Init => Inv
<1> SUFFICES ASSUME Init
             PROVE  Inv
  OBVIOUS
<1> PICK w : w = World
  OBVIOUS
<1>1. /\ Known(class) /\ w = [obj |-> obj, heap |-> heap] /\ w.obj = obj /\ w.heap = heap
      /\ DOMAIN w.obj = {} /\ w.obj = [m \in DOMAIN w.obj |-> w.obj[m]]
      /\ heap = [a \in Addrs \cup {0} |-> IF a = 0 THEN <<>> ELSE FREED]
      /\ hand = [h \in Hands |-> NULL]
      /\ strings = [h \in Hands |-> NULL] /\ val = [x \in {} |-> strings[x]]
  BY DEF Init, World, Known, Restrict, kEmptyString, V!Init, V!Restrict
<1>2. IsWorld(class, w) /\ IsHand(hand)
  BY <1>1 DEF IsWorld, IsHand
<1>3. Full(w) = {} /\ Full(w) = Slots(class, w.obj)
  BY <1>1 DEF Full, Slots
<1>4. Own(Owners(w, hand, Full(w)), w.heap)
  <2> PICK O : O = Owners(w, hand, Full(w))
    OBVIOUS
  <2>1. OwnersSay(class, w, hand, Full(w), O)
    BY <1>1, <1>3, OwnersAre
  <2>2. \A o \in DOMAIN O : O[o] = 0
    BY <1>1, <1>3, <2>1 DEF OwnersSay
  <2>3. 0 \notin Addrs /\ <<>> # FREED /\ <<>> \in Text
    BY TextsAre
  <2>4. Own(O, w.heap)
    <3>1. \A a \in Addrs : w.heap[a] = FREED
      BY <1>1
    <3> QED BY ONLY <2>2, <2>3, <3>1, SMTT(30) DEF Own
  <2> QED BY <2>4
<1>5. Good(class, w, hand, Full(w))
  BY <1>1, <1>2, <1>3, <1>4 DEF Good
<1>6. Blanks(w) /\ val = Values(w) /\ strings = Texts(w, hand)
  BY <1>1 DEF Blanks, Values, Texts
<1>7. InvIs(w, hand, val, strings)
  BY <1>5, <1>6 DEF InvIs
<1> QED BY <1>7, InvIsOf DEF Inv

LEMMA NextInv == Codec /\ Inv /\ [Next]_vars => Inv'
<1> SUFFICES ASSUME Codec, Inv, [Next]_vars
             PROVE  Inv'
  OBVIOUS
<1>1. ASSUME NEW m \in Msgs, Construct(m) \/ Delete(m) \/ Clear(m)
      PROVE  Inv'
  BY <1>1, ConstructInv, DeleteInv, ClearInv
<1>2. ASSUME NEW m \in Msgs, NEW n \in Msgs,
             Copy(m, n) \/ MergeFrom(m, n) \/ CopyFrom(m, n) \/ Swap(m, n)
      PROVE  Inv'
  BY <1>2, CopyInv, MergeFromInv, CopyFromInv, SwapInv
<1>3. ASSUME NEW m \in Msgs, NEW bytes \in Inputs, Parse(m, bytes)
      PROVE  Inv'
  BY <1>3, ParseInv
<1>4. ASSUME NEW m \in Msgs, NEW f \in Names, ClearField(m, f)
      PROVE  Inv'
  BY <1>4, ClearFieldInv
<1>5. ASSUME NEW m \in Msgs, NEW f \in Names, NEW x \in ValuesOf(f), Set(m, f, x)
      PROVE  Inv'
  BY <1>5, SetInv
<1>6. ASSUME NEW m \in Msgs, NEW f \in Names, NEW h \in Hands, Release(m, f, h) \/ SetAllocated(m, f, h)
      PROVE  Inv'
  BY <1>6, ReleaseInv, SetAllocatedInv
<1>7. ASSUME NEW h \in Hands, UserDelete(h) \/ \E x \in Strings : UserNew(h, x)
      PROVE  Inv'
  BY <1>7, UserDeleteInv, UserNewInv
<1>8. CASE UNCHANGED vars
  BY <1>8 DEF vars, Inv, World
<1> QED BY <1>1, <1>2, <1>3, <1>4, <1>5, <1>6, <1>7, <1>8 DEF Next

LEMMA SpecInv ==
  ASSUME Codec
  PROVE  Spec => []Inv
<1>1. Inv /\ [Next]_vars => Inv'
  BY NextInv
<1> QED BY <1>1, InitInv, PTL DEF Spec
-----------------------------------------------------------------------------
(* What the invariant says of the pointers.                                *)
LEMMA InvOwned ==
  ASSUME Inv
  PROVE  OwnedOnce
<1> PICK w : w = World
  OBVIOUS
<1> PICK O : O = Owners(w, hand, Full(w))
  OBVIOUS
<1> DEFINE strs == {o \in (DOMAIN obj) \X Names :
                      IsString(o[2]) /\ pointer(World, o[1], o[2]) # kEmptyString}
<1>1. /\ Good(class, w, hand, Full(w)) /\ w.obj = obj /\ w.heap = heap
      /\ Full(w) = {s \in (DOMAIN obj) \X NamesOf(class) : StringIn(class, s[2])}
  BY InvTells DEF World, Full, Slots
<1>2. /\ IsHand(hand) /\ OwnersSay(class, w, hand, Full(w), O)
      /\ heap = [a \in Addrs \cup {0} |-> heap[a]] /\ heap[0] = <<>>
      /\ \A o \in DOMAIN O : O[o] \in Addrs \cup {0} /\ heap[O[o]] # FREED
      /\ \A o, p \in DOMAIN O : O[o] = O[p] /\ O[o] # 0 => o = p
      /\ \A a \in Addrs : heap[a] # FREED => \E o \in DOMAIN O : O[o] = a
  <2>1. Known(class) /\ IsHand(hand) /\ Full(w) \subseteq Slots(class, w.obj) /\ Own(O, heap)
    BY <1>1 DEF Good
  <2>2. OwnersSay(class, w, hand, Full(w), O)
    BY <2>1, OwnersAre
  <2> QED BY <2>1, <2>2 DEF Own
<1>3. 0 \notin Addrs /\ NULL \notin Addrs /\ NULL # 0
  BY TextsAre, ValuesAssumption
<1>13. \A o, p \in DOMAIN O : O[o] = O[p] /\ O[o] # 0 => o = p
  BY <1>2
<1>14. \A o \in DOMAIN O : O[o] # 0 => O[o] \in Addrs /\ heap[O[o]] # FREED
  <2>1. \A o \in DOMAIN O : O[o] \in Addrs \cup {0} /\ heap[O[o]] # FREED
    BY <1>2
  <2> QED BY ONLY <2>1
<1>4. \A f : f \in Names => (IsString(f) <=> StringIn(class, f))
  BY DEF IsString, StringIn, Type, TypeIn, Number, NumberIn
<1>5. strs = {s \in Full(w) : O[s] # 0}
  <2>1. ASSUME NEW s \in (DOMAIN obj) \X Names
        PROVE  s \in strs <=> s \in Full(w) /\ O[s] # 0
    <3> PICK n \in DOMAIN obj, f \in Names : s = <<n, f>>
      OBVIOUS
    <3>1. s \in Full(w) <=> StringIn(class, f)
      BY <1>1 DEF Names, NamesOf
    <3>2. s \in Full(w) => O[s] = obj[n].member[f]
      BY <1>1, <1>2 DEF OwnersSay
    <3> QED BY <1>4, <3>1, <3>2 DEF pointer, World, kEmptyString
  <2>2. \A s \in Full(w) : s \in (DOMAIN obj) \X Names
    BY <1>1 DEF Names, NamesOf
  <2> QED BY <2>1, <2>2
<1>6. DOMAIN Pointers = strs /\ \A s \in strs : Pointers[s] = O[s] /\ O[s] # 0 /\ s \in DOMAIN O
  <2>1. \A s \in strs : Pointers[s] = pointer(World, s[1], s[2])
    BY DEF Pointers
  <2>2. ASSUME NEW s \in strs PROVE pointer(World, s[1], s[2]) = O[s] /\ s \in DOMAIN O
    <3>1. s \in Full(w) /\ s = <<s[1], s[2]>>
      BY <1>2, <1>5 DEF OwnersSay
    <3>2. <<s[1], s[2]>> \in Full(w)
      BY <3>1
    <3>3. O[<<s[1], s[2]>>] = obj[s[1]].member[s[2]]
      BY <1>1, <1>2, <3>2 DEF OwnersSay
    <3> QED BY <1>2, <3>1, <3>3 DEF pointer, World, OwnersSay
  <2> QED BY <1>5, <2>1, <2>2 DEF Pointers
<1> HIDE DEF strs
<1>7. /\ DOMAIN Held = {h \in Hands : hand[h] # NULL}
      /\ \A h \in DOMAIN Held :
           /\ h \in Hands /\ Held[h] = hand[h] /\ hand[h] \in Addrs
           /\ <<h, "hand">> \in DOMAIN O /\ O[<<h, "hand">>] = hand[h]
  <2>1. DOMAIN hand = Hands /\ \A h \in Hands : hand[h] \in Addrs \cup {NULL}
    BY <1>2 DEF IsHand
  <2>2. \A h \in Hands : /\ <<h, "hand">> \in DOMAIN O
                         /\ O[<<h, "hand">>] = IF hand[h] = NULL THEN 0 ELSE hand[h]
    BY <1>2 DEF OwnersSay
  <2>3. Held = [h \in {x \in Hands : hand[x] # NULL} |-> hand[h]]
    BY <2>1 DEF Held, RestrictValues, Restrict
  <2> QED BY <2>1, <2>2, <2>3
<1>8. \A s \in strs : s[2] # "hand" /\ s \in Full(w)
  BY <1>2, <1>5 DEF OwnersSay
<1>9. IsInjective(Pointers)
  BY <1>2, <1>6 DEF IsInjective
<1>10. IsInjective(Held)
  <2>1. ASSUME NEW h \in DOMAIN Held, NEW j \in DOMAIN Held, Held[h] = Held[j]
        PROVE  h = j
    <3>1. /\ <<h, "hand">> \in DOMAIN O /\ <<j, "hand">> \in DOMAIN O
          /\ O[<<h, "hand">>] = O[<<j, "hand">>] /\ O[<<h, "hand">>] # 0
      BY <1>3, <1>7, <2>1
    <3>2. <<h, "hand">> = <<j, "hand">>
      BY ONLY <1>13, <3>1
    <3> QED BY <3>2
  <2> QED BY <2>1 DEF IsInjective
<1>11. Range(Pointers) \cap Range(Held) = {}
  <2>1. ASSUME NEW s \in strs, NEW h \in DOMAIN Held, Pointers[s] = Held[h]
        PROVE  FALSE
    <3>1. /\ s \in DOMAIN O /\ <<h, "hand">> \in DOMAIN O
          /\ O[s] = O[<<h, "hand">>] /\ O[s] # 0
      BY <1>6, <1>7, <2>1
    <3>2. s = <<h, "hand">>
      BY ONLY <1>13, <3>1
    <3> QED BY <1>8, <3>2
  <2> QED BY <1>6, <2>1 DEF Range
<1>12. Range(Pointers) \cup Range(Held) = {a \in Addrs : heap[a] # FREED}
  <2>1. ASSUME NEW s \in strs PROVE Pointers[s] \in Addrs /\ heap[Pointers[s]] # FREED
    BY <1>6, <1>14
  <2>2. ASSUME NEW h \in DOMAIN Held PROVE Held[h] \in Addrs /\ heap[Held[h]] # FREED
    <3>1. /\ <<h, "hand">> \in DOMAIN O /\ O[<<h, "hand">>] = Held[h]
          /\ Held[h] \in Addrs /\ Held[h] # 0
      BY <1>3, <1>7
    <3>2. heap[O[<<h, "hand">>]] # FREED
      BY ONLY <1>14, <3>1
    <3> QED BY ONLY <3>1, <3>2
  <2>3. ASSUME NEW a \in Addrs, heap[a] # FREED
        PROVE  a \in Range(Pointers) \/ a \in Range(Held)
    <3> PICK o \in DOMAIN O : O[o] = a
      BY <1>2, <2>3
    <3>1. a # 0
      BY <1>3
    <3>2. CASE o \in Full(w)
      <4>1. o \in strs
        BY <1>5, <3>1, <3>2
      <4> QED BY <1>6, <4>1 DEF Range
    <3>3. CASE o \in HandSlots
      <4>1. o = <<o[1], "hand">> /\ o[1] \in Hands
        BY <1>2, <3>3 DEF OwnersSay
      <4>2. O[<<o[1], "hand">>] = IF hand[o[1]] = NULL THEN 0 ELSE hand[o[1]]
        BY <1>2, <4>1 DEF OwnersSay
      <4>3. hand[o[1]] # NULL /\ hand[o[1]] = a
        BY <3>1, <4>1, <4>2
      <4> QED BY <1>7, <4>1, <4>3 DEF Range
    <3> QED BY <1>2, <3>2, <3>3 DEF OwnersSay
  <2> QED BY <1>6, <2>1, <2>2, <2>3 DEF Range
<1> QED BY <1>2, <1>9, <1>10, <1>11, <1>12 DEF OwnedOnce, kEmptyString

LEMMA InvValues ==
  ASSUME Inv
  PROVE  ObjectsAreValues
<1> PICK w : w = World
  OBVIOUS
<1>1. /\ Blanks(w) /\ DOMAIN val = DOMAIN obj /\ strings = Texts(w, hand)
      /\ \A n \in DOMAIN obj : val[n] = Holds(w, n)
      /\ w.obj = obj /\ w.heap = heap
  BY InvTells DEF World
<1>2. \A m, f : /\ has(World, m, f) <=> HasIn(class, w, m, f)
                /\ get(World, m, f) = GetIn(class, w, m, f)
                /\ Blank(f) = BlankIn(class, f)
  BY DEF has, HasIn, get, GetIn, pointer, Bit, BitIn, Blank, BlankIn,
         IsString, StringIn, Type, TypeIn, Number, NumberIn
<1>3. ASSUME NEW m \in DOMAIN obj
      PROVE  /\ {f \in Names : has(World, m, f)} = DOMAIN val[m]
             /\ \A f \in Names : get(World, m, f) = V!Reads(m)[f]
  <2>1. DOMAIN val[m] = SetIn(w, m)
    BY <1>1 DEF Holds
  <2>2. {f \in Names : has(World, m, f)} = SetIn(w, m)
    BY <1>2 DEF SetIn, Names, NamesOf
  <2>3. ASSUME NEW f \in Names
        PROVE  get(World, m, f) = V!Reads(m)[f]
    <3>1. V!Reads(m)[f] = IF f \in DOMAIN val[m] THEN val[m][f] ELSE BlankIn(class, f)
      BY <1>2, <2>3 DEF V!Reads, V!Over
    <3>2. CASE f \in SetIn(w, m)
      BY <1>1, <1>2, <2>1, <3>1, <3>2 DEF Holds
    <3>3. CASE f \notin SetIn(w, m)
      <4>1. ~HasIn(class, w, m, f) /\ f \in NamesOf(class)
        BY <3>3 DEF SetIn, Names, NamesOf
      <4> QED BY <1>1, <1>2, <2>1, <3>1, <3>3, <4>1 DEF Blanks
    <3> QED BY <3>2, <3>3
  <2> QED BY <2>1, <2>2, <2>3
<1>4. \A h \in Hands : strings[h] = IF hand[h] = NULL THEN NULL ELSE heap[hand[h]]
  BY <1>1 DEF Texts
<1> QED BY <1>1, <1>3, <1>4 DEF ObjectsAreValues

LEMMA InvWrites ==
  ASSUME Codec, Inv
  PROVE  WritesWhatItHolds
<1> PICK w : w = World
  OBVIOUS
<1> PICK s : s = _members[class]
  OBVIOUS
<1>1. Good(class, w, hand, Full(w)) /\ w.obj = obj
  BY InvTells DEF World
<1>2. /\ DOMAIN s = DOMAIN _msg_id_names[class]
      /\ \A i \in DOMAIN s : s[i] \in NamesOf(class) /\ NumberIn(class, s[i]) = i
      /\ \A f \in NamesOf(class) : NumberIn(class, f) \in DOMAIN s /\ s[NumberIn(class, f)] = f
  BY <1>1, PlacesAre DEF Good
<1>3. ASSUME NEW m \in DOMAIN obj
      PROVE  LET fields == Fields(World, m) IN
             /\ ReadsBack(class, fields)
             /\ Initialized(World, m) <=> IsInitialized(class, fields)
  <2> PICK S : S = SetIn(w, m)
    OBVIOUS
  <2> PICK fields : fields = Fields(World, m)
    OBVIOUS
  <2>1. fields = [i \in {NumberIn(class, f) : f \in S} |-> GetIn(class, w, m, s[i])]
    <3>1. {Number(f) : f \in {g \in Names : has(World, m, g)}} = {NumberIn(class, f) : f \in S}
      BY DEF Number, NumberIn, Names, NamesOf, has, SetIn, HasIn, Bit, BitIn
    <3>2. \A i : get(World, m, _members[class][i]) = GetIn(class, w, m, s[i])
      BY DEF get, GetIn, pointer, IsString, StringIn, Type, TypeIn, Number, NumberIn
    <3> QED BY <3>1, <3>2 DEF Fields
  <2>2. /\ DOMAIN fields = {NumberIn(class, f) : f \in S}
        /\ fields = [i \in DOMAIN fields |-> fields[i]]
        /\ \A f \in S : fields[NumberIn(class, f)] = GetIn(class, w, m, f)
    BY <1>2, <2>1 DEF SetIn
  <2>3. IsFields(class, fields)
    <3>1. ASSUME NEW f \in S
          PROVE  /\ NumberIn(class, f) \in DOMAIN _msg_id_names[class]
                 /\ IsValue(_msg_id_names[class][NumberIn(class, f)], fields[NumberIn(class, f)])
      <4>1. f \in NamesOf(class) /\ m \in DOMAIN w.obj
        BY <1>1 DEF SetIn
      <4>2. IsValueOf(f, GetIn(class, w, m, f))
        BY <1>1, <4>1, GetIsValue
      <4>3. IsValue(TypeIn(class, f), GetIn(class, w, m, f))
        BY <4>2, TypesDiffer DEF IsValueOf, StringIn, IsValue, Text
      <4> QED BY <1>2, <2>2, <4>1, <4>3 DEF TypeIn
    <3> QED BY <2>2, <3>1 DEF IsFields
  <2>4. ReadsBack(class, fields)
    BY <1>1, <2>3 DEF Codec, Good, Known
  <2>5. Initialized(World, m) <=> S = NamesOf(class)
    <3>1. /\ _merge[class].required = {BitIn(class, f) : f \in NamesOf(class)}
          /\ \A f, g \in NamesOf(class) : BitIn(class, f) = BitIn(class, g) => f = g
      <4>1. Known(class)
        BY <1>1 DEF Good
      <4> QED BY ONLY <4>1, NamesAre, ZenonT(60)
    <3>2. \A f \in NamesOf(class) : f \in S <=> BitIn(class, f) \in obj[m].has
      BY <1>1 DEF SetIn, HasIn
    <3>3. S \subseteq NamesOf(class)
      BY DEF SetIn
    <3> QED BY <3>1, <3>2, <3>3 DEF Initialized, World
  <2>6. IsInitialized(class, fields) <=> S = NamesOf(class)
    <3>1. S \subseteq NamesOf(class)
      BY DEF SetIn
    <3>2. ASSUME NEW f \in NamesOf(class), NumberIn(class, f) \in {NumberIn(class, g) : g \in S}
          PROVE  f \in S
      <4> PICK g \in S : NumberIn(class, g) = NumberIn(class, f)
        BY <3>2
      <4>1. s[NumberIn(class, g)] = g /\ s[NumberIn(class, f)] = f
        BY <1>2, <3>1
      <4> QED BY <4>1
    <3> QED BY <1>2, <2>2, <3>1, <3>2 DEF IsInitialized
  <2> QED BY <2>4, <2>5, <2>6
<1> QED BY <1>3 DEF WritesWhatItHolds
-----------------------------------------------------------------------------
(* The theorems.  Codec, which MessagesReadBack of FramingProofs proves, is*)
(* what Parse reads and Serialize writes.                                  *)

(* However messages are made, copied, merged, swapped, parsed and deleted, *)
(* and strings handed over: each string has one owner, none is lost or     *)
(* used after it was deleted, and the empty one all share stays empty.     *)
THEOREM StringsOwnedOnce ==
  ASSUME Codec
  PROVE  Spec => []OwnedOnce
<1>1. Spec => []Inv
  BY SpecInv
<1>2. Inv => OwnedOnce
  BY InvOwned
<1> QED BY <1>1, <1>2, PTL

(* However they are used: objects hold, read and hand over what the calls  *)
(* made of them, as values would that share nothing.                       *)
THEOREM ObjectsStayValues ==
  ASSUME Codec
  PROVE  Spec => []ObjectsAreValues
<1>1. Spec => []Inv
  BY SpecInv
<1>2. Inv => ObjectsAreValues
  BY InvValues
<1> QED BY <1>1, <1>2, PTL

(* Whatever a message came to hold, it is written as long as ByteSize says *)
(* and reads back as it is; and IsInitialized tells if it is complete.     *)
THEOREM MessagesWriteWhatTheyHold ==
  ASSUME Codec
  PROVE  Spec => []WritesWhatItHolds
<1>1. Spec => []Inv
  BY SpecInv
<1>2. Inv => WritesWhatItHolds
  BY InvWrites
<1> QED BY <1>1, <1>2, PTL
=============================================================================
