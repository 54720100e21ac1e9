------------------------------ MODULE LogicProofs ------------------------------
(***************************************************************************)
(* Theorems about LogicServer, for any users, messages and number of       *)
(* messages.                                                               *)
(***************************************************************************)
EXTENDS LogicServer, SequenceTheorems, TLAPS

(* Facts about sequences the steps below rest on.                          *)
LEMMA HeadTailConcat ==
  ASSUME NEW S, NEW s \in Seq(S), NEW t \in Seq(S), s # <<>>
  PROVE  /\ s \o t # <<>>
         /\ Head(s \o t) = Head(s)
         /\ Tail(s \o t) = Tail(s) \o t
<1>1. /\ s \o t \in Seq(S) /\ Len(s \o t) = Len(s) + Len(t)
      /\ \A i \in 1 .. Len(s) + Len(t) :
           (s \o t)[i] = IF i <= Len(s) THEN s[i] ELSE t[i - Len(s)]
  BY ConcatProperties
<1>2. Len(s) \in Nat /\ Len(t) \in Nat /\ Len(s) > 0
  BY LenProperties
<1>3. s \o t # <<>> /\ Head(s \o t) = Head(s)
  BY <1>1, <1>2
<1>4. /\ Tail(s) \in Seq(S) /\ Len(Tail(s)) = Len(s) - 1
      /\ \A i \in 1 .. Len(Tail(s)) : Tail(s)[i] = s[i + 1]
  BY HeadTailProperties
<1>5. /\ Tail(s \o t) \in Seq(S) /\ Len(Tail(s \o t)) = Len(s) + Len(t) - 1
      /\ \A i \in 1 .. Len(Tail(s \o t)) : Tail(s \o t)[i] = (s \o t)[i + 1]
  BY <1>1, <1>3, HeadTailProperties
<1>6. /\ Tail(s) \o t \in Seq(S)
      /\ Len(Tail(s) \o t) = Len(s) - 1 + Len(t)
      /\ \A i \in 1 .. Len(s) - 1 + Len(t) :
           (Tail(s) \o t)[i] = IF i <= Len(s) - 1 THEN Tail(s)[i]
                                                  ELSE t[i - (Len(s) - 1)]
  BY <1>4, ConcatProperties
<1>7. ASSUME NEW i \in 1 .. Len(s) + Len(t) - 1
      PROVE  Tail(s \o t)[i] = (Tail(s) \o t)[i]
  <2>1. Tail(s \o t)[i] = (s \o t)[i + 1]
    BY <1>2, <1>5
  <2>2. i + 1 \in 1 .. Len(s) + Len(t) /\ i \in Nat
    BY <1>2
  <2>3. CASE i <= Len(s) - 1
    BY <1>1, <1>2, <1>4, <1>6, <2>1, <2>2, <2>3
  <2>4. CASE ~(i <= Len(s) - 1)
    <3>1. i + 1 - Len(s) = i - (Len(s) - 1) /\ ~(i + 1 <= Len(s))
      BY <1>2, <2>2, <2>4
    <3>2. (s \o t)[i + 1] = t[i + 1 - Len(s)]
      BY <1>1, <2>2, <3>1
    <3> QED BY <1>2, <1>6, <2>1, <2>4, <3>1, <3>2
  <2> QED BY <2>3, <2>4
<1> QED BY <1>2, <1>3, <1>5, <1>6, <1>7, SeqEqual
-----------------------------------------------------------------------------
(* The inductive invariant: with the types, how far the threads can be     *)
(* when the main thread is where it is.                                    *)
ThreadOrder ==
  /\ io_pc = "new" <=> main_pc = "init"
  /\ w_pc = "new" <=> main_pc \in {"init", "starting"}
  /\ w_pc \in {"unit", "over"} => quit["worker"]
  /\ quit["worker"] => /\ quit["io"] /\ over["io"]
                       /\ main_pc \in {"poke", "join", "done"}
  /\ main_pc \in {"wait_io", "poke"} => quit["io"]

IInv == TypeOK /\ ThreadOrder

LEMMA InitIInv == Init => IInv
BY DEF Init, IThread, IInv, TypeOK, ThreadOrder, Threads, Msgs, Rsps

LEMMA GateIInv ==
  ASSUME IInv, \/ \E m \in Frames : GateSends(m)
               \/ GateCloses
  PROVE  IInv'
<1> USE DEF IInv, TypeOK, ThreadOrder, ioVars, workVars, mainVars, Msgs, Rsps
<1>1. ASSUME NEW m \in Frames, GateSends(m) PROVE IInv'
  BY <1>1, AppendProperties DEF GateSends
<1>2. CASE GateCloses
  <2>1. UNCHANGED <<wire, said, sent, conn, ioVars, workVars, to_io, mainVars>>
        /\ gate' \in BOOLEAN
    BY <1>2 DEF GateCloses
  <2> QED BY <2>1
<1> HIDE DEF IInv
<1> QED BY <1>1, <1>2

LEMMA IOIInv == ASSUME IInv, IONext PROVE IInv'
<1> USE DEF IInv, TypeOK, ThreadOrder, netVars, workVars, mainVars, Msgs, Rsps,
            Threads
<1>1. CASE IOTop
  BY <1>1 DEF IOTop
<1>2. CASE IORead
  <2>1. CASE parsed' = wire /\ wire' = <<>> /\ conn' = gate
    BY <1>2, <2>1 DEF IORead
  <2>2. CASE UNCHANGED <<parsed, wire, conn>>
    BY <1>2, <2>2 DEF IORead
  <2> QED BY <1>2, <2>1, <2>2, Zenon DEF IORead
<1>3. CASE IODispatch
  <2>1. Head(parsed) \in Frames /\ parsed' \in Msgs /\ io_pc = "dispatch"
    BY <1>3, HeadTailProperties DEF IODispatch
  <2>2. io_msgs \in Msgs /\ Append(io_msgs, Head(parsed)) \in Msgs
    BY <2>1, AppendProperties
  <2>3. io_msgs' \in {io_msgs, Append(io_msgs, Head(parsed))}
    BY <1>3, Zenon DEF IODispatch, on_verify_ret, ToWorker
  <2> QED BY <1>3, <2>1, <2>2, <2>3 DEF IODispatch
<1>4. CASE IODispatched
  BY <1>4 DEF IODispatched
<1>5. CASE IOPush
  BY <1>5, ConcatProperties DEF IOPush
<1>6. CASE IONotify
  BY <1>6 DEF IONotify, notify_all
<1>7. CASE IOGet
  BY <1>7 DEF IOGet, get_more
<1>8. CASE IOWrite
  BY <1>8, HeadTailProperties, AppendProperties DEF IOWrite
<1>9. CASE IOWritten
  BY <1>9 DEF IOWritten
<1>10. CASE IOUnit
  BY <1>10 DEF IOUnit, tover
<1> HIDE DEF IInv
<1> QED BY <1>1, <1>2, <1>3, <1>4, <1>5, <1>6, <1>7, <1>8, <1>9, <1>10 DEF IONext

LEMMA WorkerIInv == ASSUME IInv, WorkerNext \/ WSpurious PROVE IInv'
<1> USE DEF IInv, TypeOK, ThreadOrder, netVars, ioVars, mainVars, Msgs, Rsps,
            Threads
<1>1. CASE WTop
  BY <1>1 DEF WTop
<1>2. CASE WWait
  BY <1>2 DEF WWait
<1>3. CASE WSpurious
  BY <1>3 DEF WSpurious
<1>4. CASE WTake
  BY <1>4 DEF WTake
<1>5. CASE handler_one_msg
  <2> DEFINE m == Head(w_msgs)
  <2>1. /\ m \in Msg /\ w_msgs' \in Msgs
        /\ w_pc = "handle" /\ w_pc' = "handle"
    BY <1>5, HeadTailProperties, LogicAssumption DEF handler_one_msg
  <2>2. /\ users' \in [Uids -> Uids \cup {0}]
        /\ \A u \in Uids : users'[u] \in {0, u}
        /\ out_msgs' \in Rsps
    <3>1. CASE on_user_online(m)
      BY <2>1, <3>1 DEF on_user_online
    <3>2. CASE on_user_offline(m)
      BY <2>1, <3>2 DEF on_user_offline, Known
    <3>3. CASE on_user_dosth(m)
      <4>1. [uid |-> users[m.uid], sth |-> m.sth] \in Rsp
        BY <2>1, <3>3 DEF on_user_dosth, Known, Msg, Rsp
      <4> QED BY <3>3, <4>1, AppendProperties DEF on_user_dosth
    <3>4. CASE Dropped(m)
      BY <3>4 DEF Dropped
    <3> QED BY <1>5, <3>1, <3>2, <3>3, <3>4 DEF handler_one_msg
  <2> QED BY <1>5, <2>1, <2>2 DEF handler_one_msg
<1>6. CASE handler_reply
  BY <1>6, ConcatProperties DEF handler_reply, add_more
<1>7. CASE WUnit
  BY <1>7 DEF WUnit, tover
<1> HIDE DEF IInv
<1> QED BY <1>1, <1>2, <1>3, <1>4, <1>5, <1>6, <1>7 DEF WorkerNext

LEMMA MainIInv == ASSUME IInv, MainNext \/ stop \/ Stopped PROVE IInv'
<1> USE DEF IInv, TypeOK, ThreadOrder, netVars, ioVars, workVars, mainVars,
            Msgs, Rsps, Threads
<1>1. CASE run
  <2>1. CASE main_pc = "init" /\ Start("io", "top", "starting")
    BY <2>1 DEF Start
  <2>2. CASE main_pc = "starting" /\ Start("worker", "top", "running")
    BY <2>2 DEF Start
  <2> QED BY <1>1, <2>1, <2>2 DEF run
<1>2. CASE StopWorker
  BY <1>2 DEF StopWorker, quits
<1>3. CASE Poke
  BY <1>3 DEF Poke, notify_all
<1>4. CASE PokeEnds
  BY <1>4 DEF PokeEnds
<1>5. CASE join
  BY <1>5 DEF join
<1>6. CASE stop
  BY <1>6 DEF stop, quits
<1>7. CASE Stopped
  BY <1>7 DEF Stopped, vars
<1> HIDE DEF IInv
<1> QED BY <1>1, <1>2, <1>3, <1>4, <1>5, <1>6, <1>7 DEF MainNext

LEMMA NextIInv == IInv /\ [Next]_vars => IInv'
<1> SUFFICES ASSUME IInv, [Next]_vars PROVE IInv'
  OBVIOUS
<1>1. CASE UNCHANGED vars
  BY <1>1 DEF IInv, TypeOK, ThreadOrder, vars, netVars, ioVars, workVars,
              mainVars
<1> QED BY <1>1, GateIInv, IOIInv, WorkerIInv, MainIInv DEF Next

LEMMA InvariantIInv == Spec => []IInv
BY InitIInv, NextIInv, PTL DEF Spec

(* TypeOK: every message and answer is one, everywhere on its way; a user  *)
(* is known as itself; the flags say what the threads did.                 *)
THEOREM TypeCorrect == Spec => []TypeOK
BY InvariantIInv, PTL DEF IInv

(* The worker's unit() clears _io_msgs only when the IO thread, to which   *)
(* they belong, has ended: stop() keeps the two from meeting in the list.  *)
THEOREM IoMsgsSafe == Spec => []IoMsgsOwned
<1>1. IInv => IoMsgsOwned
  BY DEF IInv, TypeOK, ThreadOrder, IoMsgsOwned, Threads
<1> QED BY <1>1, InvariantIInv, PTL
-----------------------------------------------------------------------------
(* LogicServer implements LogicService: each step of a thread or of the    *)
(* Gate is a step of the service or changes nothing it knows of.           *)
LEMMA InitRefines == Init => Service!Init
<1> SUFFICES ASSUME Init PROVE Service!Init
  OBVIOUS
<1>1. Pending = <<>> /\ Answers = <<>>
  BY DEF Init, Pending, Answers
<1> QED BY <1>1, LogicAssumption DEF Init, IThread, Service!Init, Threads

(* The parts of a step that touch neither list.                            *)
LEMMA NothingNew ==
  ASSUME UNCHANGED <<sent, gate, conn, users, quit>>,
         Pending' = Pending, Answers' = Answers
  PROVE  UNCHANGED Service!vars
BY DEF Service!vars

LEMMA GateRefines ==
  ASSUME IInv, \/ \E m \in Frames : GateSends(m)
               \/ GateCloses
  PROVE  [Service!Next]_(Service!vars)
<1> USE DEF ioVars, workVars, mainVars, Pending, Answers
<1>1. ASSUME NEW m \in Frames, GateSends(m)
      PROVE  UNCHANGED Service!vars
  BY <1>1, NothingNew DEF GateSends
<1>2. CASE GateCloses
  BY <1>2 DEF GateCloses, Service!Next, Service!Cut
<1> QED BY <1>1, <1>2

LEMMA DispatchRefines ==
  ASSUME IInv, IODispatch PROVE [Service!Next]_(Service!vars)
<1> DEFINE m == Head(parsed)
<1>1. /\ m \in Frames /\ w_msgs \in Msgs /\ msgs_in \in Msgs /\ io_msgs \in Msgs
      /\ w_msgs \o msgs_in \in Msgs
  BY HeadTailProperties, ConcatProperties DEF IODispatch, IInv, TypeOK, Msgs
<1>2. /\ UNCHANGED <<sent, gate, conn, users, quit, w_msgs, msgs_in>>
      /\ Answers' = Answers
  BY DEF IODispatch, netVars, workVars, mainVars, Answers
<1>3. CASE m.kind = "verifyrsp"
  BY <1>2, <1>3, NothingNew DEF IODispatch, on_verify_ret, ToWorker, Pending
<1>4. CASE m.kind # "verifyrsp"
  <2>1. io_msgs' = Append(io_msgs, m)
    BY <1>4 DEF IODispatch, on_verify_ret, ToWorker
  <2>2. Pending' = Append(Pending, m)
    <3>1. ASSUME NEW s \in Seq(Frames), NEW t \in Seq(Frames), NEW e \in Frames
          PROVE  Append(s \o t, e) = s \o Append(t, e)
      OBVIOUS
    <3> QED BY <1>1, <1>2, <2>1, <3>1 DEF Pending, Msgs
  <2> QED BY <1>1, <1>2, <2>2 DEF Service!Next, Service!Receive
<1> QED BY <1>3, <1>4

LEMMA WriteRefines ==
  ASSUME IInv, IOWrite PROVE [Service!Next]_(Service!vars)
<1>1. /\ io_out \in Rsps /\ to_io \in Rsps /\ out_msgs \in Rsps
      /\ io_out # <<>> /\ io_out' = Tail(io_out)
      /\ UNCHANGED <<gate, conn, users, quit, to_io, out_msgs>>
      /\ Pending' = Pending
  BY DEF IOWrite, IInv, TypeOK, workVars, mainVars, Pending
<1>2. /\ io_out \o to_io # <<>> /\ io_out \o to_io \in Rsps
      /\ Head(io_out \o to_io) = Head(io_out)
      /\ Tail(io_out \o to_io) = Tail(io_out) \o to_io
  BY <1>1, HeadTailConcat, ConcatProperties DEF Rsps
<1>3. /\ Answers # <<>> /\ Head(Answers) = Head(io_out)
      /\ Tail(Answers) = (Tail(io_out) \o to_io) \o out_msgs
  BY <1>1, <1>2, HeadTailConcat DEF Rsps, Answers
<1>4. Answers' = Tail(Answers)
  BY <1>1, <1>3 DEF Answers
<1>5. sent' = IF gate /\ conn THEN Append(sent, Head(Answers)) ELSE sent
  BY <1>3 DEF IOWrite
<1>6. Service!Send
  BY <1>1, <1>3, <1>4, <1>5 DEF Service!Send
<1> QED BY <1>6 DEF Service!Next

LEMMA IORefines ==
  ASSUME IInv, IONext PROVE [Service!Next]_(Service!vars)
<1> USE DEF netVars, workVars, mainVars
<1>1. CASE IOTop \/ IODispatched \/ IONotify \/ IOWritten
  BY <1>1, NothingNew
     DEF IOTop, IODispatched, IONotify, IOWritten, Pending, Answers
<1>2. CASE IORead
  <2>1. /\ UNCHANGED <<sent, gate, users, quit>>
        /\ Pending' = Pending /\ Answers' = Answers
    BY <1>2 DEF IORead, Pending, Answers
  <2>2. (gate /\ conn)' = (gate /\ conn)
    <3>1. CASE conn' = gate /\ conn
      BY <2>1, <3>1 DEF IInv, TypeOK
    <3>2. CASE conn' = conn
      BY <2>1, <3>2
    <3> QED BY <1>2, <3>1, <3>2, Zenon DEF IORead
  <2> QED BY <2>1, <2>2 DEF Service!vars
<1>3. CASE IODispatch
  BY <1>3, DispatchRefines
<1>4. CASE IOPush
  <2>1. /\ w_msgs \in Msgs /\ msgs_in \in Msgs /\ io_msgs \in Msgs
        /\ w_msgs' = w_msgs /\ msgs_in' = msgs_in \o io_msgs /\ io_msgs' = <<>>
    BY <1>4 DEF IOPush, IInv, TypeOK
  <2>2. msgs_in \o io_msgs \in Msgs /\ w_msgs \o (msgs_in \o io_msgs) \in Msgs
    BY <2>1, ConcatProperties DEF Msgs
  <2>3. Pending' = w_msgs \o (msgs_in \o io_msgs)
    BY <2>1, <2>2, ConcatEmptySeq DEF Pending, Msgs
  <2>4. (w_msgs \o msgs_in) \o io_msgs = w_msgs \o (msgs_in \o io_msgs)
    BY <2>1, ConcatAssociative DEF Msgs
  <2>5. UNCHANGED <<sent, gate, conn, users, quit>> /\ Answers' = Answers
    BY <1>4 DEF IOPush, Answers
  <2> QED BY <2>3, <2>4, <2>5, NothingNew DEF Pending
<1>5. CASE IOGet
  <2>1. /\ to_io \in Rsps /\ io_out = <<>> /\ io_out' = to_io /\ to_io' = <<>>
        /\ out_msgs' = out_msgs
    BY <1>5 DEF IOGet, get_more, IInv, TypeOK
  <2>2. io_out' \o to_io' = io_out \o to_io
    BY <2>1, ConcatEmptySeq DEF Rsps
  <2>3. Answers' = Answers
    BY <2>1, <2>2 DEF Answers
  <2> QED BY <1>5, <2>3, NothingNew DEF IOGet, Pending
<1>6. CASE IOWrite
  BY <1>6, WriteRefines
<1>7. CASE IOUnit
  BY <1>7 DEF IOUnit, Service!Next, Service!Cut, Pending, Answers
<1> QED BY <1>1, <1>2, <1>3, <1>4, <1>5, <1>6, <1>7 DEF IONext

(* handler_one_msg is the service's Handle: the message is the oldest one  *)
(* pending, and its answer goes behind all others.                         *)
LEMMA HandleRefines ==
  ASSUME IInv, handler_one_msg PROVE Service!Handle
<1> DEFINE m == Head(w_msgs)
           online == {u \in Uids : users[u] # 0}
<1>1. /\ w_msgs \in Msgs /\ msgs_in \in Msgs /\ io_msgs \in Msgs
      /\ w_msgs # <<>> /\ w_msgs' = Tail(w_msgs)
      /\ UNCHANGED <<sent, gate, conn, quit, msgs_in, io_msgs, io_out, to_io>>
  BY DEF handler_one_msg, IInv, TypeOK, netVars, ioVars, mainVars
<1>2. m \in Msg
  BY <1>1, HeadTailProperties, LogicAssumption DEF Msgs
<1>3. /\ w_msgs \o msgs_in # <<>> /\ w_msgs \o msgs_in \in Msgs
      /\ Head(w_msgs \o msgs_in) = m
      /\ Tail(w_msgs \o msgs_in) = Tail(w_msgs) \o msgs_in
  BY <1>1, HeadTailConcat, ConcatProperties DEF Msgs
<1>4. /\ Pending # <<>> /\ Head(Pending) = m
      /\ Tail(Pending) = (Tail(w_msgs) \o msgs_in) \o io_msgs
  BY <1>1, <1>3, HeadTailConcat DEF Msgs, Pending
<1>5. Pending' = Tail(Pending)
  BY <1>1, <1>4 DEF Pending
<1>6. Known(m) <=> m.uid \in online
  BY DEF Known
<1>7. \A u \in Uids : users[u] \in {0, u}
  BY DEF IInv, TypeOK
<1>8. out_msgs' = out_msgs => Answers' = Answers
  BY <1>1 DEF Answers
<1>9. /\ online' = IF m.kind = "online" /\ m.uid > 0
                     THEN online \cup {m.uid} ELSE online
      /\ Answers' = IF m.kind = "dosth" /\ m.uid \in online
                      THEN Append(Answers, Service!Answer(m)) ELSE Answers
  <2>1. CASE on_user_online(m)
    <3>1. m.uid \in Uids <=> m.uid > 0
      <4>1. m.uid \in Uids \cup {0}
        BY <1>2 DEF Msg
      <4>2. \A u \in Uids : u > 0
        BY LogicAssumption
      <4> QED BY <4>1, <4>2
    <3>2. 0 \notin Uids
      BY LogicAssumption
    <3>3. \A u \in Uids : users'[u] # 0 <=> users[u] # 0 \/ u = m.uid
      BY <2>1, <3>2 DEF on_user_online
    <3>4. online' = IF m.uid > 0 THEN online \cup {m.uid} ELSE online
      BY <3>1, <3>3
    <3> QED BY <1>8, <2>1, <3>4 DEF on_user_online
  <2>2. CASE on_user_offline(m)
    <3>1. users' = users
      BY <1>7, <2>2 DEF on_user_offline, Known, IInv, TypeOK
    <3> QED BY <1>8, <2>2, <3>1 DEF on_user_offline
  <2>3. CASE on_user_dosth(m)
    <3>1. out_msgs' = Append(out_msgs, Service!Answer(m))
      BY <1>7, <2>3 DEF on_user_dosth, Known, Service!Answer
    <3>2. Service!Answer(m) \in Rsp
      BY <1>2, <2>3 DEF on_user_dosth, Known, Service!Answer, Msg, Rsp
    <3>3. /\ io_out \in Rsps /\ to_io \in Rsps /\ out_msgs \in Rsps
          /\ io_out \o to_io \in Rsps
      BY ConcatProperties DEF IInv, TypeOK, Rsps
    <3>4. Answers' = Append(Answers, Service!Answer(m))
      <4>1. ASSUME NEW r \in Rsp, NEW s \in Seq(Rsp), NEW t \in Seq(Rsp)
            PROVE  Append(s \o t, r) = s \o Append(t, r)
        OBVIOUS
      <4>2. Append((io_out \o to_io) \o out_msgs, Service!Answer(m))
              = (io_out \o to_io) \o Append(out_msgs, Service!Answer(m))
        BY <3>2, <3>3, <4>1 DEF Rsps
      <4> QED BY <1>1, <3>1, <4>2 DEF Answers
    <3> QED BY <1>6, <2>3, <3>4 DEF on_user_dosth
  <2>4. CASE Dropped(m)
    BY <1>6, <1>8, <2>4 DEF Dropped, Handlers
  <2> QED BY <2>1, <2>2, <2>3, <2>4 DEF handler_one_msg
<1> QED BY <1>1, <1>4, <1>5, <1>9 DEF Service!Handle

LEMMA WorkerRefines ==
  ASSUME IInv, WorkerNext \/ WSpurious
  PROVE  [Service!Next]_(Service!vars)
<1> USE DEF netVars, ioVars, mainVars
<1>1. CASE WTop \/ WWait \/ WSpurious
  BY <1>1, NothingNew DEF WTop, WWait, WSpurious, Pending, Answers
<1>2. CASE WTake
  <2>1. /\ msgs_in \in Msgs /\ w_msgs = <<>> /\ w_msgs' = msgs_in
        /\ msgs_in' = <<>> /\ io_msgs' = io_msgs
    BY <1>2 DEF WTake, IInv, TypeOK
  <2>2. w_msgs' \o msgs_in' = w_msgs \o msgs_in
    BY <2>1, ConcatEmptySeq DEF Msgs
  <2>3. Pending' = Pending
    BY <2>1, <2>2 DEF Pending
  <2> QED BY <1>2, <2>3, NothingNew DEF WTake, Answers
<1>3. CASE handler_one_msg
  BY <1>3, HandleRefines DEF Service!Next
<1>4. CASE handler_reply
  <2>1. /\ io_out \in Rsps /\ to_io \in Rsps /\ out_msgs \in Rsps
        /\ io_out' = io_out /\ to_io' = to_io \o out_msgs /\ out_msgs' = <<>>
    BY <1>4 DEF handler_reply, add_more, IInv, TypeOK
  <2>2. to_io \o out_msgs \in Rsps /\ io_out \o (to_io \o out_msgs) \in Rsps
    BY <2>1, ConcatProperties DEF Rsps
  <2>3. Answers' = io_out \o (to_io \o out_msgs)
    BY <2>1, <2>2, ConcatEmptySeq DEF Answers, Rsps
  <2>4. (io_out \o to_io) \o out_msgs = io_out \o (to_io \o out_msgs)
    BY <2>1, ConcatAssociative DEF Rsps
  <2>5. Answers' = Answers
    BY <2>3, <2>4 DEF Answers
  <2> QED BY <1>4, <2>5, NothingNew DEF handler_reply, Pending
<1>5. CASE WUnit
  <2>1. /\ w_msgs = <<>> /\ out_msgs = <<>> /\ quit["io"]
        /\ UNCHANGED <<sent, gate, conn, users, quit, w_msgs, io_out, to_io>>
        /\ msgs_in' = <<>> /\ io_msgs' = <<>> /\ out_msgs' = <<>>
    BY <1>5 DEF WUnit, IInv, TypeOK, ThreadOrder
  <2>2. Pending' = <<>> /\ Answers' = Answers
    BY <2>1 DEF Pending, Answers
  <2> QED BY <2>1, <2>2 DEF Service!Next, Service!Forget
<1> QED BY <1>1, <1>2, <1>3, <1>4, <1>5 DEF WorkerNext

LEMMA MainRefines ==
  ASSUME IInv, MainNext \/ stop \/ Stopped
  PROVE  [Service!Next]_(Service!vars)
<1> USE DEF netVars, ioVars, workVars, mainVars, Pending, Answers
<1>1. CASE run \/ Poke \/ PokeEnds \/ join \/ Stopped
  BY <1>1, NothingNew DEF run, Start, Poke, PokeEnds, join, Stopped, vars
<1>2. CASE StopWorker
  BY <1>2 DEF StopWorker, quits, Service!vars
<1>3. CASE stop
  <2>1. quit'["io"] = TRUE
    BY <1>3 DEF stop, quits, IInv, TypeOK, Threads
  <2> QED BY <1>3, <2>1 DEF stop, Service!Next, Service!Stop
<1> QED BY <1>1, <1>2, <1>3 DEF MainNext

LEMMA NextRefines == IInv /\ [Next]_vars => [Service!Next]_(Service!vars)
<1> SUFFICES ASSUME IInv, [Next]_vars PROVE [Service!Next]_(Service!vars)
  OBVIOUS
<1>1. CASE UNCHANGED vars
  BY <1>1, NothingNew
     DEF vars, netVars, ioVars, workVars, mainVars, Pending, Answers
<1> QED BY <1>1, GateRefines, IORefines, WorkerRefines, MainRefines DEF Next

(* What the Gate sends is handled in order, each message once, and what is *)
(* answered leaves in order, each answer once, for as long as the server   *)
(* runs and the connection stands.                                         *)
THEOREM Refinement == Spec => ImplementsService
BY InvariantIInv, InitRefines, NextRefines, PTL
   DEF Spec, ImplementsService, Service!Spec
=============================================================================
