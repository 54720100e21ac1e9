-------------------------------- MODULE Protobuf --------------------------------
(***************************************************************************)
(* The messages of login.proto as bytes: what the generated classes of     *)
(* login.pb.cc write, and what they read from bytes that may be cut short. *)
(* A class is the list of its fields' types, in the order of their         *)
(* numbers; every field is required.  A message of it is a function from   *)
(* the numbers of the fields that are set (its _has_bits_) to their        *)
(* values; a string is a sequence of bytes.                                *)
(***************************************************************************)
EXTENDS Integers, Sequences, SequencesExt, TLC

BOOL == "bool"
INT32 == "int32"
STRING_ == "string"

LoginReq       == <<STRING_, STRING_>>
RegisterReq    == <<STRING_, STRING_>>
VerifyReq      == <<STRING_>>
LoginRsp       == <<BOOL, INT32>>
VerifyRsp      == <<BOOL>>
RegisterRsp    == <<BOOL, STRING_, INT32>>
UserOnlineReq  == <<INT32>>
UserOfflineReq == <<INT32>>
KickUserOutReq == <<INT32>>
DoSthReq       == <<INT32, STRING_>>
DoSthRsp       == <<INT32, STRING_>>

(* _msg_id_names: the class behind each id of ProtocolDefine.              *)
_msg_id_names ==
  <<LoginReq, RegisterReq, VerifyReq, LoginRsp, RegisterRsp, VerifyRsp,
    UserOnlineReq, UserOfflineReq, DoSthReq, KickUserOutReq, DoSthRsp>>

(* What fields of the types hold; a length is an int, too.                 *)
Byte == 0 .. 255
Int32 == {v \in Int : -2147483647 - 1 <= v /\ v <= 2147483647}
IsValue(type, v) ==
  CASE type = BOOL -> v \in BOOLEAN [] type = INT32 -> v \in Int32
    [] OTHER -> v \in Seq(Byte) /\ Len(v) \in Int32

Known(id) == id \in DOMAIN _msg_id_names
IsFields(id, fields) ==
  /\ DOMAIN fields \subseteq DOMAIN _msg_id_names[id]
  /\ fields = [f \in DOMAIN fields |-> fields[f]]
  /\ \A f \in DOMAIN fields : IsValue(_msg_id_names[id][f], fields[f])
IsInitialized(id, fields) == DOMAIN fields = DOMAIN _msg_id_names[id]
-----------------------------------------------------------------------------
(* Varints: seven bits a byte, the lowest first, all but the last byte     *)
(* with 128 added.  An int32 is extended to 64 bits, so that a negative    *)
(* one takes ten bytes.                                                    *)
Varint(v) ==
  LET shifted[i \in 1 .. 10] == IF i = 1 THEN v ELSE shifted[i - 1] \div 128
      size == IF v < 0 THEN 10
              ELSE CHOOSE i \in 1 .. 5 : shifted[i] < 128 /\ (i > 1 => shifted[i - 1] >= 128)
  IN  [i \in 1 .. size |-> IF i < size THEN 128 + (shifted[i] % 128)
                           ELSE IF i = 10 THEN 1 ELSE shifted[i]]

(* Where the varint that begins at p ends; 0 if the bytes end before.      *)
VarintEnd(bytes, p) ==
  LET ends == {e \in p .. (IF p + 9 < Len(bytes) THEN p + 9 ELSE Len(bytes)) :
                 bytes[e] < 128}
  IN  IF ends = {} THEN 0 ELSE CHOOSE e \in ends : \A f \in ends : e <= f

(* Its lowest 32 bits, as an int32.                                        *)
ReadVarint(bytes, p) ==
  LET bits(i) == IF p + i <= VarintEnd(bytes, p) THEN bytes[p + i] % 128 ELSE 0
      top == bits(4) % 16
  IN  bits(0) + 128 * bits(1) + 16384 * bits(2) + 2097152 * bits(3)
        + 268435456 * (IF top >= 8 THEN top - 16 ELSE top)
-----------------------------------------------------------------------------
(* SerializeWithCachedSizesToArray: tag and value of every field that is   *)
(* set, in the order of the numbers.                                       *)
WireType(type) == IF type = STRING_ THEN 2 ELSE 0

Encoded(type, v) ==
  CASE type = BOOL  -> IF v THEN <<1>> ELSE <<0>>
    [] type = INT32 -> Varint(v)
    [] OTHER        -> Varint(Len(v)) \o v

Serialize(id, fields) ==
  LET class == _msg_id_names[id]
      field(f) == IF f \in DOMAIN fields
                    THEN <<8 * f + WireType(class[f])>> \o Encoded(class[f], fields[f])
                    ELSE <<>>
  IN  FlattenSeq([f \in DOMAIN class |-> field(f)])

(* ByteSize, which is computed without writing anything.                   *)
VarintSize(v) ==
  IF v < 0 THEN 10 ELSE IF v < 128 THEN 1 ELSE IF v < 16384 THEN 2
  ELSE IF v < 2097152 THEN 3 ELSE IF v < 268435456 THEN 4 ELSE 5

ByteSize(id, fields) ==
  LET class == _msg_id_names[id]
      size(f) == IF f \notin DOMAIN fields THEN 0
                 ELSE CASE class[f] = BOOL  -> 1 + 1
                        [] class[f] = INT32 -> 1 + VarintSize(fields[f])
                        [] OTHER -> 1 + VarintSize(Len(fields[f])) + Len(fields[f])
  IN  FoldLeft(LAMBDA x, y : x + y, 0, [f \in DOMAIN class |-> size(f)])
-----------------------------------------------------------------------------
(* A field that is read, unless it is read again behind.                   *)
With(fields, f, v) ==
  [g \in DOMAIN fields \cup {f} |-> IF g \in DOMAIN fields THEN fields[g] ELSE v]

(* MergePartialFromCodedStream into an empty message: what is read before  *)
(* the bytes end or stop making sense stays.  A string's field counts as   *)
(* set before it is read, and keeps what there was of it.                  *)
Merge(id, bytes) ==
  LET class == _msg_id_names[id]
      AtEnd(p) == VarintEnd(bytes, p) = 0
      After(p) == VarintEnd(bytes, p) + 1
      Skip(wire, q) ==     (* where an unknown field ends; 0: nowhere       *)
        CASE wire = 0 -> IF AtEnd(q) THEN 0 ELSE After(q)
          [] wire = 1 -> q + 8
          [] wire = 2 -> IF AtEnd(q) THEN 0 ELSE After(q) + ReadVarint(bytes, q)
          [] wire = 5 -> q + 4
          [] OTHER -> 0
      from[p \in 1 .. Len(bytes) + 1] ==
        LET tag == ReadVarint(bytes, p)
            f == tag \div 8
            q == After(p)
            on(r) == IF r \in q .. Len(bytes) + 1 THEN from[r] ELSE <<>>
        IN  IF AtEnd(p) \/ tag = 0 THEN <<>>
            ELSE IF ~(f \in DOMAIN class /\ tag % 8 = WireType(class[f]))
              THEN on(Skip(tag % 8, q))
            ELSE IF AtEnd(q)
              THEN IF class[f] = STRING_ THEN With(<<>>, f, <<>>) ELSE <<>>
            ELSE IF class[f] = STRING_
              THEN LET last == After(q) + ReadVarint(bytes, q) - 1 IN
                   With(on(last + 1), f, SubSeq(bytes, After(q),
                     IF last < Len(bytes) THEN last ELSE Len(bytes)))
            ELSE With(on(After(q)), f, IF class[f] = BOOL THEN ReadVarint(bytes, q) # 0
                                                          ELSE ReadVarint(bytes, q))
  IN  from[1]
-----------------------------------------------------------------------------
(* What a class promises whoever writes a message of it: as many bytes as  *)
(* it says beforehand, and bytes the message can be read back from.        *)
ReadsBack(id, fields) ==
  LET bytes == Serialize(id, fields)
  IN  ByteSize(id, fields) = Len(bytes) /\ Merge(id, bytes) = fields

(* That all classes keep it, and read nothing but values from any bytes.   *)
Codec ==
  \A id \in DOMAIN _msg_id_names :
    /\ \A fields : IsFields(id, fields) =>
         Serialize(id, fields) \in Seq(Byte) /\ ReadsBack(id, fields)
    /\ \A bytes \in Seq(Byte) : IsFields(id, Merge(id, bytes))
=============================================================================
