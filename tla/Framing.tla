-------------------------------- MODULE Framing --------------------------------
(***************************************************************************)
(* How messages get over a connection: SocketOp::write puts a header in    *)
(* front of each, SocketOp::read takes what has come in pieces through a   *)
(* LineBuffer into the connection's RingBuff, and MsgCenter::parse_package *)
(* cuts the messages out of it, through another LineBuffer.  One thread    *)
(* and its two LineBuffers serve many connections.                         *)
(***************************************************************************)
EXTENDS Protobuf, FiniteSets

CONSTANTS
  Conns,      (* the connections of the thread                             *)
  Peers,      (* what the peers may do: [sent, ended], functions from      *)
              (* Conns to sequences of messages [id, uid, fields], and to  *)
              (* BOOLEAN                                                   *)
  Junk,       (* what may lie in memory behind a LineBuffer                *)
  READ_SIZE, DEF_LINE_BUFF_SIZE,
  LINE_LIMIT, LINE_STEP,   (* the sizes 1024 * 512 and 1024 * 4            *)
  MAX_PKG                  (* the limit 2048                               *)

ASSUME FramingAssumption ==
  /\ {READ_SIZE, DEF_LINE_BUFF_SIZE, LINE_LIMIT, LINE_STEP} \subseteq Nat \ {0}
  /\ MAX_PKG \in Nat \ {0, 1}
  /\ Junk \subseteq Seq(Byte)

VARIABLES
  sent,             (* what the peers write                                *)
  net,              (* bytes on their way; they may arrive piece by piece  *)
  ended,            (* the peer ends the connection behind its bytes       *)
  rd_buff,          (* the connection's _rd_buff                           *)
  line,             (* SocketOp's _rd_buff: the bytes this read put there  *)
  line_size,        (* its size; what else is in it is never looked at     *)
  parse_buff,       (* MsgCenter's _parse_buff                             *)
  pc, cur,          (* "wait", "read" or "parse", and which connection     *)
  taken,            (* history: frames taken out of rd_buff                *)
  got               (* messages parse_package has returned                 *)

readVars == <<net, line, line_size>>
parseVars == <<parse_buff, taken, got>>
vars == <<sent, ended, rd_buff, readVars, parseVars, pc, cur>>
-----------------------------------------------------------------------------
(* Integers of four bytes, as memory holds them; size_t pkg_len has zeros  *)
(* above them, so what would be negative is large.                         *)
Bytes4(v) ==
  <<v % 256, (v \div 256) % 256, (v \div 65536) % 256, (v \div 16777216) % 256>>
Int4(b) ==
  b[1] + 256 * b[2] + 65536 * b[3] + 16777216 * (IF b[4] >= 128 THEN b[4] - 256 ELSE b[4])

(* SocketOp::write(node, msg): length, id, user and body.  A message of an *)
(* id the protocol does not know comes from elsewhere: its fields are      *)
(* bytes.                                                                  *)
MsgLen(m) == IF Known(m.id) THEN ByteSize(m.id, m.fields) ELSE Len(m.fields)
Frame(m) ==
  Bytes4(MsgLen(m)) \o Bytes4(m.id) \o Bytes4(m.uid)
    \o (IF Known(m.id) THEN Serialize(m.id, m.fields) ELSE m.fields)

(* What peers do: the messages have values of their types, and lengths     *)
(* that are ints.                                                          *)
IsMessage(m) ==
  /\ m.id \in Int32 /\ m.uid \in Int32 /\ MsgLen(m) \in Int32
  /\ IF Known(m.id) THEN IsFields(m.id, m.fields) ELSE m.fields \in Seq(Byte)

ASSUME PeersAssumption ==
  \A p \in Peers :
    /\ p.sent = [c \in Conns |-> p.sent[c]] /\ p.ended \in [Conns -> BOOLEAN]
    /\ \A c \in Conns : p.sent[c] \in Seq(Range(p.sent[c])) /\ \A m \in Range(p.sent[c]) : IsMessage(m)

(* LineBuffer.                                                             *)
Zeros(n) == [i \in 1 .. n |-> 0]
clean_data(buff) == Zeros(Len(buff))
Doubled(size, need) ==
  LET doubled[i \in 0 .. need] ==     (* after i turns of the loop         *)
        IF i = 0 THEN size
        ELSE IF doubled[i - 1] >= need THEN doubled[i - 1] ELSE doubled[i - 1] * 2
  IN  doubled[need]

new_size(size, need) ==
  IF need # 0 THEN Doubled(size, need)
  ELSE IF size >= LINE_LIMIT THEN size + LINE_STEP ELSE size * 2
append_size(buff, need) ==
  buff \o Zeros(new_size(Len(buff), need) - Len(buff))
copied(buff, bytes) ==
  [i \in DOMAIN buff |-> IF i \in DOMAIN bytes THEN bytes[i] ELSE buff[i]]
-----------------------------------------------------------------------------
Init ==
  /\ \E p \in Peers : sent = p.sent /\ ended = p.ended
  /\ net = [c \in Conns |-> FlattenSeq([i \in DOMAIN sent[c] |-> Frame(sent[c][i])])]
  /\ rd_buff = [c \in Conns |-> <<>>]
  /\ line = <<>> /\ line_size = DEF_LINE_BUFF_SIZE
  /\ parse_buff = Zeros(DEF_LINE_BUFF_SIZE)
  /\ pc = "wait" /\ cur \in Conns
  /\ taken = [c \in Conns |-> 0] /\ got = [c \in Conns |-> <<>>]

(* The epoll reports c.                                                    *)
ReadBegins(c) ==
  /\ pc = "wait"
  /\ net[c] # <<>> \/ ended[c]
  /\ pc' = "read" /\ cur' = c
  /\ UNCHANGED <<sent, ended, rd_buff, readVars, parseVars>>

(* mutant: the room that is left is not looked at                          *)
read_size_whole == READ_SIZE

read_size ==
  LET left_read_size == line_size - Len(line) IN
  IF left_read_size >= READ_SIZE THEN READ_SIZE ELSE left_read_size

(* One call to ::read: it gets as much as has come, not more than it asks  *)
(* for.                                                                    *)
ReadSome(k) ==
  /\ pc = "read"
  /\ k \in 1 .. read_size /\ k <= Len(net[cur])
  /\ net' = [net EXCEPT ![cur] = SubSeq(@, k + 1, Len(@))]
  /\ line' = line \o SubSeq(net[cur], 1, k)
  /\ line_size' = IF Len(line') = line_size THEN new_size(line_size, 0) ELSE line_size
  /\ UNCHANGED <<sent, ended, rd_buff, parseVars, pc, cur>>

AddRead ==
  /\ rd_buff' = [rd_buff EXCEPT ![cur] = @ \o line]
  /\ line' = <<>>
  /\ UNCHANGED <<net, line_size>>

(* EAGAIN: no more has come yet.                                           *)
ReadPauses ==
  /\ pc = "read" /\ read_size > 0
  /\ net[cur] # <<>> \/ ~ended[cur]
  /\ AddRead
  /\ pc' = "parse"
  /\ UNCHANGED <<sent, ended, parseVars, cur>>

(* ::read returns 0: the connection has ended, or it was asked for         *)
(* nothing.  What came before is kept, but not every caller goes on to     *)
(* parse it.                                                               *)
ReadEnds ==
  /\ pc = "read"
  /\ read_size = 0 \/ (net[cur] = <<>> /\ ended[cur])
  /\ AddRead
  /\ pc' \in {"wait", "parse"}
  /\ UNCHANGED <<sent, ended, parseVars, cur>>

(* The Gate's threads parse a connection again and again: _unlogin_reads   *)
(* and _rd_users are never cleared.                                        *)
ParseAgain(c) ==
  /\ pc = "wait" /\ rd_buff[c] # <<>>
  /\ pc' = "parse" /\ cur' = c
  /\ UNCHANGED <<sent, ended, rd_buff, readVars, parseVars>>
-----------------------------------------------------------------------------
(* parse_package, one turn of its loop.                                    *)
pkg_len == Int4(SubSeq(rd_buff[cur], 1, 4))

(* mutant: the last byte of a frame is waited for behind it                *)
WholeAndMore ==
  /\ Len(rd_buff[cur]) > 4
  /\ pkg_len > 1 /\ pkg_len <= MAX_PKG
  /\ Len(rd_buff[cur]) > pkg_len + 12

Whole ==
  /\ Len(rd_buff[cur]) > 4
  /\ pkg_len > 1 /\ pkg_len <= MAX_PKG
  /\ Len(rd_buff[cur]) >= pkg_len + 12

(* _parse_string = _parse_buff->data(): up to the first zero, which may    *)
(* lie behind the buffer.                                                  *)
UpTo0(bytes) ==
  LET zeros == {i \in DOMAIN bytes : bytes[i] = 0} IN
  IF zeros = {} THEN bytes
  ELSE SubSeq(bytes, 1, (CHOOSE i \in zeros : \A j \in zeros : i <= j) - 1)
CString(buff) ==
  IF \E i \in DOMAIN buff : buff[i] = 0 THEN {UpTo0(buff)} ELSE {buff \o j : j \in Junk}

(* mutant: _parse_buff is not cleaned                                      *)
FilledUncleaned(body) == copied(append_size(parse_buff, Len(body)), body)

(* clean_data, append_size and read_del_begin on _parse_buff.              *)
Filled(body) == copied(append_size(clean_data(parse_buff), Len(body)), body)

ParseStops ==
  /\ pc = "parse" /\ ~Whole
  /\ pc' = "wait"
  /\ UNCHANGED <<sent, ended, rd_buff, readVars, parseVars, cur>>

ParseOne ==
  /\ pc = "parse" /\ Whole
  /\ LET frame == SubSeq(rd_buff[cur], 1, pkg_len + 12)
         id == Int4(SubSeq(frame, 5, 8))
     IN  /\ rd_buff' = [rd_buff EXCEPT ![cur] = SubSeq(@, pkg_len + 13, Len(@))]
         /\ taken' = [taken EXCEPT ![cur] = @ + 1]
         /\ parse_buff' = Filled(SubSeq(frame, 13, Len(frame)))
         /\ IF Known(id)
              THEN \E text \in CString(parse_buff') :
                     /\ got' = [got EXCEPT ![cur] = Append(@,
                          [id |-> id, uid |-> Int4(SubSeq(frame, 9, 12)),
                           fields |-> Merge(id, text)])]
                     /\ UNCHANGED pc
              ELSE pc' = "wait" /\ UNCHANGED got
  /\ UNCHANGED <<sent, ended, readVars, cur>>

(* Nothing has come.                                                       *)
Idle == pc = "wait" /\ UNCHANGED vars

Thread ==
  \/ \E k \in 1 .. READ_SIZE : ReadSome(k)
  \/ ReadPauses \/ ReadEnds \/ ParseStops \/ ParseOne

Next ==
  \/ \E c \in Conns : ReadBegins(c) \/ ParseAgain(c)
  \/ Thread
  \/ Idle

(* The thread runs, and what is on its way comes in the end.               *)
Spec ==
  /\ Init /\ [][Next]_vars
  /\ WF_vars(Thread)
  /\ \A c \in Conns : SF_vars(ReadBegins(c))
  /\ \A c \in Conns : SF_vars(cur = c /\ \E k \in 1 .. READ_SIZE : ReadSome(k))
-----------------------------------------------------------------------------
(* What is left of a message whose encoding has a zero byte: the fields in *)
(* front of it, and of a string what is in front of it.                    *)
ZeroFree(type, v) ==
  CASE type = BOOL -> v [] type = INT32 -> v # 0
    [] OTHER -> v # <<>> /\ \A i \in DOMAIN v : v[i] # 0

Left(m) ==
  LET class == _msg_id_names[m.id]
      whole == {f \in DOMAIN m.fields : \A g \in DOMAIN m.fields :
                  g <= f => ZeroFree(class[g], m.fields[g])}
      cut == {f \in DOMAIN m.fields \ whole :
                class[f] = STRING_ /\ \A g \in DOMAIN m.fields : g < f => g \in whole}
  IN  [f \in whole \cup cut |-> IF f \in whole THEN m.fields[f] ELSE UpTo0(m.fields[f])]

(* A body that fills the LineBuffer has no zero behind it.                 *)
LineSize[k \in Nat] == IF k = 0 THEN DEF_LINE_BUFF_SIZE ELSE LineSize[k - 1] * 2
FillsLine(len) == \E k \in 0 .. len : LineSize[k] = len

Arrives(m, g) ==
  /\ g.id = m.id /\ g.uid = m.uid
  /\ \/ g.fields = Left(m)
     \/ FillsLine(MsgLen(m)) /\ Left(m) = m.fields

WellFormed(m) == MsgLen(m) > 1 /\ MsgLen(m) <= MAX_PKG
KnownMsg(m) == Known(m.id)

Channel == INSTANCE MessageChannel WITH Known <- KnownMsg

(* However the bytes are split, whichever connections take turns, whatever *)
(* the LineBuffers were used for before: the messages of each connection   *)
(* come out of it once, in order, and with their fields, as far as no zero *)
(* byte cuts them (SocketOp.cpp:55, MsgCenter.cpp:186).                    *)
ImplementsChannel == Channel!Spec

(* read always asks for something, or it would take the answer for the end *)
(* of the connection, and for no more than the LineBuffer has room for     *)
(* (SocketOp.cpp:85).                                                      *)
RoomToRead == pc = "read" => read_size > 0 /\ Len(line) + read_size <= line_size

(* What has come is parsed up to the first frame whose length makes no     *)
(* sense, or behind the first one of unknown id, where parse_package       *)
(* leaves its loop.                                                        *)
Reachable(s) ==
  Cardinality({i \in DOMAIN s : \A j \in 1 .. i :
                 WellFormed(s[j]) /\ (j < i => KnownMsg(s[j]))})
AllParsed ==
  \A c \in Conns : ~ended[c] => <>(taken[c] >= Reachable(sent[c]))

(* login.proto:46: "required int32 uid = 1;".  A message that is handed    *)
(* out has every field its class requires.  It has not when a zero byte    *)
(* cut it; ParseFromString says so and nobody looks (MsgCenter.cpp:235).   *)
RequiredArrive ==
  \A c \in Conns : \A i \in DOMAIN got[c] : IsInitialized(got[c][i].id, got[c][i].fields)
=============================================================================
