-------------------------------- MODULE Messages --------------------------------
(***************************************************************************)
(* Message objects, as the classes of login.pb.cc and login.pb.h keep      *)
(* them: members, of which strings are pointers, and a word of has-bits.   *)
(* All string members of all messages of all threads that hold nothing     *)
(* point to one shared empty string, which nobody may write or delete;     *)
(* every other string of the heap belongs to one member, or to the user.   *)
(* (Unknown fields and the cached size, which only nested messages need,   *)
(* are left out.)                                                          *)
(***************************************************************************)
EXTENDS Protobuf, Functions, FiniteSets

CONSTANTS
  Msgs,       (* message objects                                           *)
  Hands,      (* pointers to strings of the user                           *)
  Addrs,      (* heap addresses of strings                                 *)
  Strings,    (* what strings are set to                                   *)
  Numbers,    (* what int32 members are set to                             *)
  FREED,      (* the content of an address that holds no string            *)
  NULL

(* There is room on the heap for the strings of all objects, two of each,  *)
(* and of the user: operator new does not fail.                            *)
ASSUME MessagesAssumption ==
  /\ Addrs \subseteq Nat \ {0}
  /\ IsFiniteSet(Addrs) /\ IsFiniteSet(Msgs) /\ IsFiniteSet(Hands)
  /\ Cardinality(Addrs) >= 2 * Cardinality(Msgs) + Cardinality(Hands)

ASSUME ValuesAssumption ==
  /\ \A x \in Strings : IsValue(STRING_, x)
  /\ \A x \in Numbers : IsValue(INT32, x)
  /\ (\E x \in Strings : x # <<>>) /\ (\E x \in Numbers : x # 0)
  /\ FREED \notin Seq(Byte) /\ NULL \notin Seq(Byte) /\ NULL \notin Nat

kEmptyString == 0      (* its address                                      *)

(* The members of the classes, in the order of the field numbers.          *)
LoginReq_members       == <<"name", "passwd">>
RegisterReq_members    == <<"name", "passwd">>
VerifyReq_members      == <<"macaddr">>
LoginRsp_members       == <<"isok", "userid">>
VerifyRsp_members      == <<"isok">>
RegisterRsp_members    == <<"isok", "name", "accid">>
UserOnlineReq_members  == <<"uid">>
UserOfflineReq_members == <<"uid">>
KickUserOutReq_members == <<"uid">>
DoSthReq_members       == <<"uid", "sth">>
DoSthRsp_members       == <<"rspid", "ret">>

(* The bit of _has_bits_[0] that the accessors of a member use.            *)
LoginReq_bits       == [name |-> 0, passwd |-> 1]
RegisterReq_bits    == [name |-> 0, passwd |-> 1]
VerifyReq_bits      == [macaddr |-> 0]
LoginRsp_bits       == [isok |-> 0, userid |-> 1]
VerifyRsp_bits      == [isok |-> 0]
RegisterRsp_bits    == [isok |-> 0, name |-> 1, accid |-> 2]
UserOnlineReq_bits  == [uid |-> 0]
UserOfflineReq_bits == [uid |-> 0]
KickUserOutReq_bits == [uid |-> 0]
DoSthReq_bits       == [uid |-> 0, sth |-> 1]
DoSthRsp_bits       == [rspid |-> 0, ret |-> 1]

(* What SharedCtor puts into the members, and Clear puts back into the     *)
(* scalar ones.                                                            *)
LoginReq_ctor       == [name |-> kEmptyString, passwd |-> kEmptyString]
RegisterReq_ctor    == [name |-> kEmptyString, passwd |-> kEmptyString]
VerifyReq_ctor      == [macaddr |-> kEmptyString]
LoginRsp_ctor       == [isok |-> FALSE, userid |-> 0]
VerifyRsp_ctor      == [isok |-> FALSE]
RegisterRsp_ctor    == [isok |-> FALSE, name |-> kEmptyString, accid |-> 0]
UserOnlineReq_ctor  == [uid |-> 0]
UserOfflineReq_ctor == [uid |-> 0]
KickUserOutReq_ctor == [uid |-> 0]
DoSthReq_ctor       == [uid |-> 0, sth |-> kEmptyString]
DoSthRsp_ctor       == [rspid |-> 0, ret |-> kEmptyString]

(* mutant: IsInitialized asks for one member only                          *)
LoginRsp_merge_part == [of |-> <<"isok", "userid">>, required |-> {0}]

(* The members MergeFrom copies, in its order, and Swap exchanges, and the *)
(* bits IsInitialized asks for.                                            *)
LoginReq_merge       == [of |-> <<"name", "passwd">>, required |-> {0, 1}]
RegisterReq_merge    == [of |-> <<"name", "passwd">>, required |-> {0, 1}]
VerifyReq_merge      == [of |-> <<"macaddr">>, required |-> {0}]
LoginRsp_merge       == [of |-> <<"isok", "userid">>, required |-> {0, 1}]
VerifyRsp_merge      == [of |-> <<"isok">>, required |-> {0}]
RegisterRsp_merge    == [of |-> <<"isok", "name", "accid">>, required |-> {0, 1, 2}]
UserOnlineReq_merge  == [of |-> <<"uid">>, required |-> {0}]
UserOfflineReq_merge == [of |-> <<"uid">>, required |-> {0}]
KickUserOutReq_merge == [of |-> <<"uid">>, required |-> {0}]
DoSthReq_merge       == [of |-> <<"uid", "sth">>, required |-> {0, 1}]
DoSthRsp_merge       == [of |-> <<"rspid", "ret">>, required |-> {0, 1}]

(* The classes in the order of their ids, as in _msg_id_names.             *)
_members ==
  <<LoginReq_members, RegisterReq_members, VerifyReq_members, LoginRsp_members,
    RegisterRsp_members, VerifyRsp_members, UserOnlineReq_members,
    UserOfflineReq_members, DoSthReq_members, KickUserOutReq_members, DoSthRsp_members>>
_bits ==
  <<LoginReq_bits, RegisterReq_bits, VerifyReq_bits, LoginRsp_bits, RegisterRsp_bits,
    VerifyRsp_bits, UserOnlineReq_bits, UserOfflineReq_bits, DoSthReq_bits,
    KickUserOutReq_bits, DoSthRsp_bits>>
_ctor ==
  <<LoginReq_ctor, RegisterReq_ctor, VerifyReq_ctor, LoginRsp_ctor, RegisterRsp_ctor,
    VerifyRsp_ctor, UserOnlineReq_ctor, UserOfflineReq_ctor, DoSthReq_ctor,
    KickUserOutReq_ctor, DoSthRsp_ctor>>
_merge ==
  <<LoginReq_merge, RegisterReq_merge, VerifyReq_merge, LoginRsp_merge,
    RegisterRsp_merge, VerifyRsp_merge, UserOnlineReq_merge, UserOfflineReq_merge,
    DoSthReq_merge, KickUserOutReq_merge, DoSthRsp_merge>>

VARIABLES
  class,     (* the id of the class at hand                                *)
  obj,       (* obj[m]: the _has_bits_ and the members of m, if it exists  *)
  heap,      (* heap[a]: the string at a                                   *)
  hand,      (* hand[h]: the address of a string of the user, or NULL      *)
  val,       (* history: the values the calls have made of the objects, as *)
  strings    (* in MessageValues, and of the user's strings                *)

vars == <<class, obj, heap, hand, val, strings>>
-----------------------------------------------------------------------------
(* Members.                                                                *)
_numbers == [c \in DOMAIN _members |-> AntiFunction(_members[c])]
Names == DOMAIN _numbers[class]
Number(f) == _numbers[class][f]
Type(f) == _msg_id_names[class][Number(f)]
IsString(f) == Type(f) = STRING_
Bit(f) == _bits[class][f]

(* Every call is a function of the objects and the heap, w.                *)
World == [obj |-> obj, heap |-> heap]
Fresh(w) == CHOOSE a \in Addrs :
  w.heap[a] = FREED /\ \A b \in Addrs : w.heap[b] = FREED => a <= b

has(w, m, f) == Bit(f) \in w.obj[m].has
pointer(w, m, f) == w.obj[m].member[f]
get(w, m, f) == IF IsString(f) THEN w.heap[pointer(w, m, f)] ELSE w.obj[m].member[f]

set_has(w, m, f) == [w EXCEPT !.obj[m].has = @ \cup {Bit(f)}]
clear_has(w, m, f) == [w EXCEPT !.obj[m].has = @ \ {Bit(f)}]
set_pointer(w, m, f, p) == [w EXCEPT !.obj[m].member[f] = p]
set_string(w, p, x) == [w EXCEPT !.heap[p] = x]

(* mutable_name() and its like: a string of its own for the member.        *)
mutable(w, m, f) ==
  LET v == set_has(w, m, f) IN
  IF pointer(w, m, f) = kEmptyString
    THEN set_string(set_pointer(v, m, f, Fresh(w)), Fresh(w), <<>>)
    ELSE v

set(w, m, f, x) ==
  IF IsString(f)
    THEN LET v == mutable(w, m, f) IN set_string(v, pointer(v, m, f), x)
    ELSE [set_has(w, m, f) EXCEPT !.obj[m].member[f] = x]

empty(w, m, f) ==
  IF ~IsString(f) THEN [w EXCEPT !.obj[m].member[f] = _ctor[class][f]]
  ELSE IF pointer(w, m, f) # kEmptyString THEN set_string(w, pointer(w, m, f), <<>>)
  ELSE w

clear(w, m, f) == clear_has(empty(w, m, f), m, f)

release(w, m, f) == set_pointer(clear_has(w, m, f), m, f, kEmptyString)

delete(w, m, f) ==
  IF IsString(f) /\ pointer(w, m, f) # kEmptyString
    THEN set_string(w, pointer(w, m, f), FREED)
    ELSE w

(* mutant: the string the member had is forgotten                          *)
set_allocated_over(w, m, f, p) ==
  IF p # NULL THEN set_pointer(set_has(w, m, f), m, f, p) ELSE release(w, m, f)

set_allocated(w, m, f, p) ==
  LET v == delete(w, m, f) IN
  IF p # NULL THEN set_pointer(set_has(v, m, f), m, f, p) ELSE release(v, m, f)
-----------------------------------------------------------------------------
(* Objects.                                                                *)
SharedCtor(w, m) ==
  [w EXCEPT !.obj = [n \in DOMAIN @ \cup {m} |->
     IF n = m THEN [has |-> {}, member |-> _ctor[class]] ELSE w.obj[n]]]

SharedDtor(w, m) ==
  LET v == FoldLeft(LAMBDA u, f : delete(u, m, f), w, _members[class]) IN
  [v EXCEPT !.obj = Restrict(@, DOMAIN @ \ {m})]

(* mutant: only the bits are cleared                                       *)
ClearAll_bits(w, m) == [w EXCEPT !.obj[m].has = {}]

(* Clear(): strings are emptied if they are set, and stay where they are.  *)
ClearAll(w, m) ==
  LET reset(v, f) == IF IsString(f) /\ ~has(v, m, f) THEN v ELSE empty(v, m, f)
      v == IF w.obj[m].has = {} THEN w ELSE FoldLeft(reset, w, _members[class])
  IN  [v EXCEPT !.obj[m].has = {}]

Merged(w, m, n) ==
  LET copy(v, f) == IF has(v, n, f) THEN set(v, m, f, get(v, n, f)) ELSE v IN
  FoldLeft(copy, w, _merge[class].of)

Copied(w, m, n) == IF n = m THEN w ELSE Merged(ClearAll(w, m), m, n)

Swapped(w, m, n) ==
  LET exchanged(a, b) ==
        [has |-> b.has,
         member |-> [f \in DOMAIN a.member |->
           IF f \in Range(_merge[class].of) THEN b.member[f] ELSE a.member[f]]]
  IN  [w EXCEPT !.obj[m] = exchanged(@, w.obj[n]), !.obj[n] = exchanged(@, w.obj[m])]

(* ParseFromString: Clear, and MergePartialFromCodedStream.  (It answers   *)
(* IsInitialized.)                                                         *)
Parsed(w, m, bytes) ==
  LET fields == Merge(class, bytes)
      read(v, f) == IF Number(f) \in DOMAIN fields
                      THEN set(v, m, f, fields[Number(f)]) ELSE v
  IN  FoldLeft(read, ClearAll(w, m), _members[class])

(* What SerializeToArray and ByteSize find in m.                           *)
Fields(w, m) ==
  [i \in {Number(f) : f \in {g \in Names : has(w, m, g)}} |-> get(w, m, _members[class][i])]

Initialized(w, m) == _merge[class].required \subseteq w.obj[m].has
-----------------------------------------------------------------------------
(* The calls, on objects that exist, and what they mean.                   *)
Blank(f) == IF IsString(f) THEN <<>> ELSE _ctor[class][f]
V == INSTANCE MessageValues WITH defaults <- [f \in Names |-> Blank(f)]

Does(w) == obj' = w.obj /\ heap' = w.heap /\ UNCHANGED <<class, hand>>
Exists(m) == m \in DOMAIN obj

ValuesOf(f) ==
  CASE Type(f) = BOOL -> BOOLEAN [] Type(f) = INT32 -> Numbers [] OTHER -> Strings

(* The bytes that are parsed: any beginning of what a message writes.      *)
Inputs ==
  LET value(f) == CHOOSE x \in ValuesOf(f) : x # Blank(f)
      bytes == Serialize(class, [i \in DOMAIN _members[class] |-> value(_members[class][i])])
  IN  {SubSeq(bytes, 1, n) : n \in 0 .. Len(bytes)}
Named(fields) ==
  [f \in {g \in Names : Number(g) \in DOMAIN fields} |-> fields[Number(f)]]

Init ==
  /\ class \in DOMAIN _msg_id_names
  /\ obj = Restrict(_ctor[class], {})
  /\ heap = [a \in Addrs \cup {kEmptyString} |-> IF a = kEmptyString THEN <<>> ELSE FREED]
  /\ hand = [h \in Hands |-> NULL]
  /\ V!Init

Construct(m) == ~Exists(m) /\ Does(SharedCtor(World, m)) /\ V!Construct(m)
Copy(m, n) ==
  ~Exists(m) /\ Exists(n) /\ Does(Merged(SharedCtor(World, m), m, n)) /\ V!Copy(m, n)
Delete(m) == Exists(m) /\ Does(SharedDtor(World, m)) /\ V!Delete(m)
Set(m, f, x) == Exists(m) /\ Does(set(World, m, f, x)) /\ V!Set(m, f, x)
ClearField(m, f) == Exists(m) /\ Does(clear(World, m, f)) /\ V!ClearField(m, f)
Clear(m) == Exists(m) /\ Does(ClearAll(World, m)) /\ V!Clear(m)
MergeFrom(m, n) ==
  Exists(m) /\ Exists(n) /\ m # n /\ Does(Merged(World, m, n)) /\ V!MergeFrom(m, n)
CopyFrom(m, n) ==
  Exists(m) /\ Exists(n) /\ Does(Copied(World, m, n)) /\ V!CopyFrom(m, n)
Swap(m, n) ==
  Exists(m) /\ Exists(n) /\ m # n /\ Does(Swapped(World, m, n)) /\ V!Swap(m, n)
Parse(m, bytes) ==
  Exists(m) /\ Does(Parsed(World, m, bytes)) /\ V!Parse(m, Named(Merge(class, bytes)))

Release(m, f, h) ==
  /\ Exists(m) /\ IsString(f) /\ hand[h] = NULL
  /\ LET w == release(World, m, f)
         p == pointer(World, m, f)
     IN  /\ obj' = w.obj /\ heap' = w.heap /\ UNCHANGED class
         /\ hand' = [hand EXCEPT ![h] = IF p = kEmptyString THEN NULL ELSE p]
         /\ V!Release(m, f, h, p = kEmptyString)

SetAllocated(m, f, h) ==
  /\ Exists(m) /\ IsString(f)
  /\ LET w == set_allocated(World, m, f, hand[h]) IN obj' = w.obj /\ heap' = w.heap
  /\ hand' = [hand EXCEPT ![h] = NULL] /\ UNCHANGED class
  /\ V!SetAllocated(m, f, h)

(* The user makes a string, and deletes it.                                *)
UserNew(h, x) ==
  /\ hand[h] = NULL
  /\ hand' = [hand EXCEPT ![h] = Fresh(World)]
  /\ heap' = [heap EXCEPT ![Fresh(World)] = x]
  /\ V!UserString(h, x) /\ UNCHANGED <<class, obj>>

UserDelete(h) ==
  /\ hand[h] # NULL
  /\ heap' = [heap EXCEPT ![hand[h]] = FREED]
  /\ hand' = [hand EXCEPT ![h] = NULL]
  /\ V!UserString(h, NULL) /\ UNCHANGED <<class, obj>>

Next ==
  \/ \E m \in Msgs :
       \/ Construct(m) \/ Delete(m) \/ Clear(m)
       \/ \E n \in Msgs : Copy(m, n) \/ MergeFrom(m, n) \/ CopyFrom(m, n) \/ Swap(m, n)
       \/ \E bytes \in Inputs : Parse(m, bytes)
       \/ \E f \in Names :
            \/ ClearField(m, f)
            \/ \E x \in ValuesOf(f) : Set(m, f, x)
            \/ \E h \in Hands : Release(m, f, h) \/ SetAllocated(m, f, h)
  \/ \E h \in Hands : UserDelete(h) \/ \E x \in Strings : UserNew(h, x)

Spec == Init /\ [][Next]_vars
-----------------------------------------------------------------------------
(* Every string of the heap belongs to one member of one object, or to the *)
(* user, and to nobody else: none is lost, used after it was deleted, or   *)
(* shared; and the one that all share stays empty, or every message would  *)
(* read what one was set to (login.pb.h:1082, 1113, 1132).                 *)
Pointers ==
  [own \in {o \in (DOMAIN obj) \X Names :
           IsString(o[2]) /\ pointer(World, o[1], o[2]) # kEmptyString}
     |-> pointer(World, own[1], own[2])]
Held == RestrictValues(hand, LAMBDA p : p # NULL)

OwnedOnce ==
  /\ IsInjective(Pointers) /\ IsInjective(Held)
  /\ Range(Pointers) \cap Range(Held) = {}
  /\ Range(Pointers) \cup Range(Held) = {a \in Addrs : heap[a] # FREED}
  /\ heap[kEmptyString] = <<>>

(* What is written for a message is as long as ByteSize says, which        *)
(* SocketOp::write makes room for beforehand (SocketOp.cpp:194), and reads *)
(* back as the same message; and IsInitialized is true of a message when   *)
(* all its fields are there.                                               *)
WritesWhatItHolds ==
  \A m \in DOMAIN obj :
    LET fields == Fields(World, m)
    IN  /\ ReadsBack(class, fields)
        /\ Initialized(World, m) <=> IsInitialized(class, fields)

(* Objects are values: after any calls each of them has set, and reads,    *)
(* what the calls say, and so do the strings of the user, whatever         *)
(* pointers they keep, share or have handed over and whatever was in the   *)
(* members before.                                                         *)
ObjectsAreValues ==
  /\ DOMAIN obj = DOMAIN val
  /\ \A m \in DOMAIN obj :
       /\ {f \in Names : has(World, m, f)} = DOMAIN val[m]
       /\ \A f \in Names : get(World, m, f) = V!Reads(m)[f]
  /\ \A h \in Hands : strings[h] = IF hand[h] = NULL THEN NULL ELSE heap[hand[h]]
=============================================================================
