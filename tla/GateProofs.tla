------------------------------ MODULE GateProofs ------------------------------
(***************************************************************************)
(* The Gate, for any number of connections, descriptors, workers and users:*)
(* its type invariant, who owns a descriptor, and what a worker knows of   *)
(* its users.                                                              *)
(*                                                                         *)
(* The type invariant is inductive as it stands, because it says of every  *)
(* place a connection is kept in that it was accepted: a reply needs a     *)
(* descriptor, so the user it is made for must have one.                   *)
(*                                                                         *)
(* Every open number is watched by the IO thread, or is under way to one   *)
(* worker, or is watched by one worker, or is lost to all of them.  From   *)
(* this follows that no two threads watch one number, and that a thread    *)
(* reads only the connection its object was made for, though workers close *)
(* numbers and the IO thread accepts them again meanwhile.                 *)
(*                                                                         *)
(* A user is only known under a uid it logged in as itself: the uid goes   *)
(* from a frame to the IO thread's user, to an event and to the worker's   *)
(* maps, and each of these is of the connection that sent the frame.       *)
(*                                                                         *)
(* The two maps of a worker agree: it forgets by uid whom it forgets by    *)
(* number.                                                                 *)
(*                                                                         *)
(* A user that has its uid is not lost between the two threads: while the  *)
(* IO thread keeps it, the reply that hands it over is still to come; then *)
(* an event of it is under way; then a worker watches it.                  *)
(*                                                                         *)
(* With its Logic, for any number of messages: what the Logic is told of   *)
(* the users, and what becomes of their messages and its answers.          *)
(***************************************************************************)
EXTENDS GateLogic, TLAPS, FiniteSetTheorems, SequenceTheorems, WellFoundedInduction

USE DEF Rsp, MaybeAccepted

-----------------------------------------------------------------------------
(* Operators.                                                              *)

(* An order of a finite set is a sequence of its elements.                 *)
LEMMA OrdersType ==
  ASSUME NEW S, IsFiniteSet(S), NEW s \in Orders(S)
  PROVE  s \in Seq(S)
<1>1. Cardinality(S) \in Nat
  BY FS_CardinalityType
<1> QED BY <1>1 DEF Orders

(* So is a listing of some of its elements.                                *)
LEMMA ListingsType ==
  ASSUME NEW S, IsFiniteSet(S), NEW s \in Listings(S)
  PROVE  s \in Seq(S)
<1>1. PICK T \in SUBSET S : s \in Orders(T)
  BY DEF Listings
<1>2. IsFiniteSet(T)
  BY FS_Subset
<1>3. s \in Seq(T)
  BY <1>1, <1>2, OrdersType
<1> QED BY <1>3

(* What parse_package returns and leaves are messages.                     *)
LEMMA ParsedType ==
  ASSUME NEW b \in Seq(Msg), NEW k \in Stops(b)
  PROVE  Parsed(b, k) \in Seq(Msg) /\ Unparsed(b, k) \in Seq(Msg)
<1>1. k \in 1 .. Len(b) + 1
  BY DEF Stops
<1>2. /\ \A i \in 1 .. k - 1 : i \in 1 .. Len(b)
      /\ \A i \in k + 1 .. Len(b) : i \in 1 .. Len(b)
  BY <1>1
<1> QED BY <1>1, <1>2, SubSeqProperties DEF Parsed, Unparsed

(* What a socket has left to read are messages.                            *)
LEMMA ReadFramesType ==
  ASSUME NetTypeOK, NEW f \in Fds
  PROVE  ReadFrames(f) \in Seq(Msg)
<1>1. CASE openfd[f] = NoConn
  BY <1>1 DEF ReadFrames
<1>2. CASE openfd[f] # NoConn
  <2>1. openfd[f] \in Conns
    BY <1>2 DEF NetTypeOK, Accepted
  <2> DEFINE c == openfd[f]
  <2>2. said[c] \in Seq(Msg) /\ got[c] + 1 \in Nat \ {0}
    BY <2>1 DEF NetTypeOK
  <2>3. \A i \in got[c] + 1 .. Len(said[c]) : said[c][i] \in Msg
    BY <2>2
  <2>4. Unread(c) \in Seq(Msg)
    BY <2>2, <2>3, SubSeqProperties DEF Unread
  <2> QED BY <1>2, <2>4 DEF ReadFrames
<1> QED BY <1>1, <1>2

(* Closing descriptors keeps the kernel's tables typed.                    *)
LEMMA ClosedType ==
  ASSUME NetTypeOK, NEW F, ClosedFds(F)
  PROVE  /\ openfd' \in [Fds -> MaybeAccepted]
         /\ epio' \in SUBSET Fds
         /\ ep' \in [Workers -> SUBSET Fds]
BY DEF ClosedFds, NetTypeOK

(* Reading drains to a number of frames.                                   *)
LEMMA DrainedType ==
  ASSUME NetTypeOK, NEW F, DrainedBy(F)
  PROVE  got' \in [Conns -> Nat]
<1>1. \A c \in Conns : Len(said[c]) \in Nat /\ got[c] \in Nat
  BY DEF NetTypeOK
<1> QED BY <1>1 DEF DrainedBy

(* While nothing is accepted, what was issued for an accepted connection   *)
(* stays so.                                                               *)
LEMMA AcceptedSame ==
  ASSUME sfd' = sfd
  PROVE  Accepted' = Accepted /\ Event' = Event
BY DEF Accepted, Event

LEMMA NetSame ==
  ASSUME NetTypeOK, UNCHANGED netVars
  PROVE  NetTypeOK'
<1>1. sfd' = sfd
  BY DEF netVars
<1>2. Accepted' = Accepted
  BY <1>1, AcceptedSame
<1> QED BY <1>2 DEF NetTypeOK, netVars

LEMMA IOSame ==
  ASSUME IOTypeOK, UNCHANGED ioVars, sfd' = sfd
  PROVE  IOTypeOK'
<1>1. Accepted' = Accepted
  BY AcceptedSame
<1> QED BY <1>1 DEF IOTypeOK, ioVars

LEMMA WorkerSame ==
  ASSUME WorkerTypeOK, UNCHANGED <<queueVars, workVars>>, sfd' = sfd
  PROVE  WorkerTypeOK'
<1>1. Accepted' = Accepted /\ Event' = Event
  BY AcceptedSame
<1> QED BY <1>1 DEF WorkerTypeOK, queueVars, workVars, Manager
-----------------------------------------------------------------------------
LEMMA InitTypeOK == Init => TypeOK
<1> SUFFICES ASSUME Init PROVE TypeOK
  OBVIOUS
<1>1. NetTypeOK
  BY DEF Init, NetInit, NetTypeOK
<1>2. IOTypeOK
  BY DEF Init, IOInit, IOTypeOK
<1>3. WorkerTypeOK
  BY DEF Init, WorkerInit, WorkerTypeOK, NoUsers, Manager
<1> QED BY <1>1, <1>2, <1>3 DEF TypeOK

LEMMA PeerTypeOK == TypeOK /\ PeerNext => TypeOK'
<1> SUFFICES ASSUME TypeOK, PeerNext PROVE TypeOK'
  OBVIOUS
<1>1. /\ sfd' = sfd /\ UNCHANGED <<ioVars, queueVars, workVars>>
      /\ Accepted' = Accepted
  BY AcceptedSame DEF PeerNext, Connect, Send, PeerClose
<1>2. IOTypeOK' /\ WorkerTypeOK'
  BY <1>1, IOSame, WorkerSame DEF TypeOK
<1>3. ASSUME NEW c \in Conns, Connect(c) PROVE NetTypeOK'
  BY <1>1, <1>3 DEF Connect, TypeOK, NetTypeOK
<1>4. ASSUME NEW c \in Conns, NEW m \in ClientFrames[c], Send(c, m)
      PROVE  NetTypeOK'
  <2>1. m \in Msg
    BY GateAssumption
  <2> QED BY <1>1, <1>4, <2>1 DEF Send, TypeOK, NetTypeOK
<1>5. ASSUME NEW c \in MayClose, PeerClose(c) PROVE NetTypeOK'
  BY <1>1, <1>5 DEF PeerClose, TypeOK, NetTypeOK
<1> QED BY <1>2, <1>3, <1>4, <1>5 DEF PeerNext, TypeOK
-----------------------------------------------------------------------------
(* GateIO.                                                                 *)

(* The first part of epoll_one accepts at most one connection.             *)
AcceptSome ==
  \/ AcceptNone
  \/ \E c \in Pending : \E f \in FreeFds : Accept(c, f)

LEMMA AcceptSomeType ==
  ASSUME TypeOK, AcceptSome
  PROVE  /\ Accepted \subseteq Accepted'
         /\ sfd' \in [Conns -> Fds \cup {0}]
         /\ openfd' \in [Fds -> MaybeAccepted']
         /\ epio' \in SUBSET Fds
         /\ unlogin_users' \in [Fds -> MaybeAccepted']
<1> USE DEF TypeOK, NetTypeOK, IOTypeOK
<1>1. CASE AcceptNone
  <2>1. Accepted' = Accepted
    BY <1>1, AcceptedSame DEF AcceptNone
  <2> QED BY <1>1, <2>1 DEF AcceptNone
<1>2. ASSUME NEW c \in Pending, NEW f \in FreeFds, Accept(c, f)
      PROVE  /\ Accepted \subseteq Accepted'
             /\ sfd' \in [Conns -> Fds \cup {0}]
             /\ openfd' \in [Fds -> MaybeAccepted']
             /\ epio' \in SUBSET Fds
             /\ unlogin_users' \in [Fds -> MaybeAccepted']
  <2>1. c \in Conns /\ f \in Fds /\ f # 0
    BY UserManagerAssumption DEF Pending, FreeFds
  <2>2. sfd' = [sfd EXCEPT ![c] = f] /\ sfd' \in [Conns -> Fds \cup {0}]
    BY <1>2, <2>1 DEF Accept
  <2>3. Accepted' = Accepted \cup {c}
    BY <2>1, <2>2 DEF Accepted
  <2>4. openfd' \in [Fds -> MaybeAccepted'] /\ epio' \in SUBSET Fds
    BY <1>2, <2>1, <2>3 DEF Accept
  <2>5. unlogin_users' \in [Fds -> MaybeAccepted']
    BY <1>2, <2>1, <2>3 DEF Accept, on_accept, PutAbsent
  <2> QED BY <2>2, <2>3, <2>4, <2>5
<1> QED BY <1>1, <1>2 DEF AcceptSome

(* What was issued for accepted connections stays typed as more of them    *)
(* are accepted.                                                           *)
LEMMA WorkerAcceptsMore ==
  ASSUME WorkerTypeOK, Accepted \subseteq Accepted',
         UNCHANGED <<logic, ioevs_in, fd_set, workVars>>,
         events_io' \in [Workers -> Seq(Event)]
  PROVE  WorkerTypeOK'
<1>1. Event \subseteq Event'
  BY DEF Event
<1>2. /\ Seq(Event) \subseteq Seq(Event')
      /\ Seq(Accepted) \subseteq Seq(Accepted')
  BY <1>1
<1>3. Manager(Accepted) \subseteq Manager(Accepted')
  BY DEF Manager
<1> QED BY <1>2, <1>3 DEF WorkerTypeOK, workVars

LEMMA EpollOneTypeOK == TypeOK /\ epoll_one => TypeOK'
<1> SUFFICES ASSUME TypeOK, epoll_one PROVE TypeOK'
  OBVIOUS
<1>1. AcceptSome
  BY DEF epoll_one, AcceptSome
<1>2. /\ Accepted \subseteq Accepted'
      /\ sfd' \in [Conns -> Fds \cup {0}]
      /\ openfd' \in [Fds -> MaybeAccepted']
      /\ epio' \in SUBSET Fds
      /\ unlogin_users' \in [Fds -> MaybeAccepted']
  BY <1>1, AcceptSomeType
<1>3. NetTypeOK'
  BY <1>2 DEF epoll_one, TypeOK, NetTypeOK
<1>4. IOTypeOK'
  <2>1. unlogin_events' \in SUBSET Accepted
    BY DEF epoll_one, Ready, get_unlogin_user, Strays, TypeOK, NetTypeOK,
           IOTypeOK
  <2>2. Seq(Accepted) \subseteq Seq(Accepted')
    BY <1>2
  <2> QED BY <1>2, <2>1, <2>2 DEF epoll_one, TypeOK, IOTypeOK
<1>5. events_io' \in [Workers -> Seq(Event)]
  <2>1. Strays \subseteq Fds /\ \A f \in Strays : ReadEvent(f) \in Event
    BY DEF Strays, get_unlogin_user, Ready, Readable, ReadEvent, Event,
           TypeOK, NetTypeOK
  <2>2. IsFiniteSet(Strays)
    BY <2>1, FS_Subset, GateAssumption
  <2>3. PICK q \in [Workers -> Listings(Strays)] :
          events_io' = [w \in Workers |-> events_io[w] \o ReadEvents(q[w])]
    BY DEF epoll_one
  <2>4. ASSUME NEW w \in Workers
        PROVE  events_io[w] \o ReadEvents(q[w]) \in Seq(Event)
    <3>1. q[w] \in Seq(Strays)
      BY <2>2, ListingsType
    <3>2. ReadEvents(q[w]) \in Seq(Event)
      BY <2>1, <3>1 DEF ReadEvents
    <3> QED BY <3>2 DEF TypeOK, WorkerTypeOK
  <2> QED BY <2>3, <2>4
<1>6. WorkerTypeOK'
  BY <1>2, <1>5, WorkerAcceptsMore DEF epoll_one, TypeOK
<1> QED BY <1>3, <1>4, <1>6 DEF TypeOK

LEMMA HandlerDataTypeOK == TypeOK /\ handler_data => TypeOK'
<1> SUFFICES ASSUME TypeOK, handler_data PROVE TypeOK'
  OBVIOUS
<1> DEFINE bad == {c \in unlogin_events : Failed(c)}
           badfds == {sfd[c] : c \in bad}
<1>1. /\ sfd' = sfd /\ Accepted' = Accepted
      /\ DrainedBy({sfd[c] : c \in unlogin_events}) /\ ClosedFds(badfds)
  BY AcceptedSame DEF handler_data
<1>2. NetTypeOK'
  BY <1>1, ClosedType, DrainedType DEF handler_data, TypeOK, NetTypeOK
<1>3. IOTypeOK'
  <2>1. unlogin_users' \in [Fds -> MaybeAccepted]
    BY DEF handler_data, on_conn_offline_all, Without, TypeOK, IOTypeOK
  <2>2. unlogin_reads' \in Seq(Accepted)
    <3>1. PICK s \in Orders(unlogin_events \ bad) :
            unlogin_reads' = unlogin_reads \o s
      BY DEF handler_data
    <3>2. /\ unlogin_events \ bad \subseteq Accepted
          /\ unlogin_events \ bad \subseteq Conns
      BY DEF TypeOK, IOTypeOK, Accepted
    <3>3. IsFiniteSet(unlogin_events \ bad)
      BY <3>2, FS_Subset, GateAssumption
    <3>4. s \in Seq(unlogin_events \ bad)
      BY <3>3, OrdersType
    <3>5. s \in Seq(Accepted)
      BY <3>2, <3>4
    <3> QED BY <3>1, <3>5 DEF TypeOK, IOTypeOK
  <2>3. io_rd' \in [Conns -> Seq(Msg)]
    <3>1. ASSUME NEW c \in unlogin_events
          PROVE  io_rd[c] \o ReadFrames(sfd[c]) \in Seq(Msg)
      <4>1. c \in Conns /\ sfd[c] \in Fds
        BY DEF TypeOK, NetTypeOK, IOTypeOK, Accepted
      <4>2. ReadFrames(sfd[c]) \in Seq(Msg)
        BY <4>1, ReadFramesType DEF TypeOK
      <4> QED BY <4>1, <4>2 DEF TypeOK, IOTypeOK
    <3> QED BY <3>1 DEF handler_data, TypeOK, IOTypeOK
  <2> QED BY <1>1, <2>1, <2>2, <2>3 DEF handler_data, TypeOK, IOTypeOK
<1>4. WorkerTypeOK'
  <2>1. UNCHANGED <<queueVars, workVars>>
    BY DEF handler_data
  <2> QED BY <1>1, <2>1, WorkerSame DEF TypeOK
<1> QED BY <1>2, <1>3, <1>4 DEF TypeOK

LEMMA UnloginMsgTypeOK ==
  ASSUME TypeOK, NEW i \in DOMAIN unlogin_reads, handler_unlogin_msg(i)
  PROVE  TypeOK'
<1> DEFINE c == unlogin_reads[i]
<1>1. /\ sfd' = sfd /\ Accepted' = Accepted
      /\ UNCHANGED <<peer, said, got, inbox, io_pc, unlogin_events,
                     unlogin_reads, queueVars, workVars>>
  BY AcceptedSame DEF handler_unlogin_msg
<1>2. c \in Conns /\ sfd[c] \in Fds /\ i \in Nat
  BY DEF TypeOK, NetTypeOK, IOTypeOK, Accepted
<1>3. PICK k \in Stops(io_rd[c]) :
        LET msgs == Parsed(io_rd[c], k)
            left == Unparsed(io_rd[c], k) IN
        /\ io_rd' = [io_rd EXCEPT ![c] = left]
        /\ \/ /\ msgs = <<>>
              /\ UNCHANGED <<openfd, epio, ep, unlogin_users, io_uid, rsp_msgs>>
           \/ Acceptable(msgs, left) /\ Dispatch(c, msgs[1])
           \/ msgs # <<>> /\ ~Acceptable(msgs, left) /\ kick_out(c)
  BY DEF handler_unlogin_msg
<1> DEFINE msgs == Parsed(io_rd[c], k)
           left == Unparsed(io_rd[c], k)
<1>4. msgs \in Seq(Msg) /\ left \in Seq(Msg)
  BY <1>2, ParsedType DEF TypeOK, IOTypeOK
<1>5. io_rd' \in [Conns -> Seq(Msg)] /\ io_idx' \in Nat
  BY <1>2, <1>3, <1>4 DEF handler_unlogin_msg, TypeOK, IOTypeOK
<1>6. /\ openfd' \in [Fds -> MaybeAccepted]
      /\ epio' \in SUBSET Fds
      /\ ep' \in [Workers -> SUBSET Fds]
      /\ unlogin_users' \in [Fds -> MaybeAccepted]
      /\ io_uid' \in [Conns -> Uids \cup {0, -1}]
      /\ rsp_msgs' \in Seq(Rsp)
  <2>1. CASE UNCHANGED <<openfd, epio, ep, unlogin_users, io_uid, rsp_msgs>>
    BY <2>1 DEF TypeOK, NetTypeOK, IOTypeOK
  <2>2. CASE Acceptable(msgs, left) /\ Dispatch(c, msgs[1])
    <3> DEFINE m == msgs[1]
    <3>0. Len(msgs) = 1
      BY <2>2 DEF Acceptable
    <3>1. m \in Msg /\ m.uid \in Uids \cup {0, -1}
      <4>0. 1 \in 1 .. Len(msgs)
        BY <3>0
      <4>1. m \in Msg
        BY <1>4, <4>0, ElementOfSeq
      <4> HIDE DEF m
      <4> QED BY <4>1 DEF Msg
    <3>2. ASSUME NEW kind \in Kinds
          PROVE  Reply(c, kind, m.uid) \in Seq(Rsp)
      <4>1. [kind |-> kind, uid |-> m.uid] \in Msg
        BY <3>1 DEF Msg
      <4> QED BY <1>2, <4>1 DEF Reply, TypeOK, IOTypeOK
    <3>3. io_uid' \in [Conns -> Uids \cup {0, -1}]
      BY <2>2, <3>1 DEF Dispatch, on_user_login, on_user_register,
                        on_system_verify, TypeOK, IOTypeOK
    <3>4. /\ Reply(c, "loginfail", m.uid) \in Seq(Rsp)
          /\ Reply(c, "loginok", m.uid) \in Seq(Rsp)
          /\ Reply(c, "registerrsp", m.uid) \in Seq(Rsp)
          /\ Reply(c, "verifyrsp", m.uid) \in Seq(Rsp)
      BY <3>2 DEF Kinds
    <3>5. rsp_msgs' \in Seq(Rsp)
      BY <2>2, <3>4 DEF Dispatch, on_user_login, on_user_register,
                        on_system_verify
    <3> QED BY <2>2, <3>3, <3>5 DEF Dispatch, TypeOK, NetTypeOK, IOTypeOK
  <2>3. CASE kick_out(c)
    BY <2>3, ClosedType DEF kick_out, Without, TypeOK, IOTypeOK
  <2> QED BY <1>3, <2>1, <2>2, <2>3
<1>7. NetTypeOK'
  BY <1>1, <1>6 DEF TypeOK, NetTypeOK
<1>8. IOTypeOK'
  BY <1>1, <1>5, <1>6 DEF TypeOK, IOTypeOK
<1>9. WorkerTypeOK'
  BY <1>1, WorkerSame DEF TypeOK
<1> QED BY <1>7, <1>8, <1>9 DEF TypeOK

(* What a promotion may change, whichever it is.                           *)
PromotionTypeOK ==
  /\ unlogin_users' \in [Fds -> MaybeAccepted]
  /\ epio' \in SUBSET Fds
  /\ ep' \in [Workers -> SUBSET Fds]
  /\ logic' \in [Workers -> MaybeAccepted]
  /\ events_io' \in [Workers -> Seq(Event)]
  /\ fd_set' \in [Workers -> SUBSET Fds]
  /\ users' \in [Workers -> Manager(Accepted)]
  /\ w_pc' \in [Workers -> {"none", "ioevent", "connect", "epevent"}]

LEMMA AddConnType ==
  ASSUME NEW C, NEW m \in Manager(C), NEW c \in C, NEW f, NEW u
  PROVE  add_conn(m, c, f, u) \in Manager(C)
BY DEF add_conn, PutAbsent, Manager

LEMMA LogicVerifyedType ==
  ASSUME TypeOK, NEW c \in Accepted, NEW f \in Fds, on_logic_verifyed(c, f)
  PROVE  PromotionTypeOK
<1> USE DEF TypeOK, NetTypeOK, IOTypeOK, WorkerTypeOK
<1>1. /\ unlogin_users' \in [Fds -> MaybeAccepted]
      /\ epio' \in SUBSET Fds
      /\ events_io' \in [Workers -> Seq(Event)]
      /\ fd_set' \in [Workers -> SUBSET Fds]
  BY DEF on_logic_verifyed, Without
<1>2. CASE UNCHANGED <<logic, ep, users, w_pc>>
  BY <1>1, <1>2 DEF PromotionTypeOK
<1>3. ASSUME NEW w \in Least(Workers \ Started), NewWorker(c, f, w)
      PROVE  PromotionTypeOK
  <2>1. w \in Workers
    BY DEF Least
  <2>2. NoUsers \in Manager(Accepted)
    BY DEF NoUsers, Manager
  <2>3. users' \in [Workers -> Manager(Accepted)]
    <3>1. add_conn(NoUsers, c, f, 0) \in Manager(Accepted)
      BY <2>2, AddConnType
    <3> QED BY <1>3, <3>1 DEF NewWorker
  <2>4. /\ logic' \in [Workers -> MaybeAccepted]
        /\ ep' \in [Workers -> SUBSET Fds]
        /\ w_pc' \in [Workers -> {"none", "ioevent", "connect", "epevent"}]
    BY <1>3 DEF NewWorker
  <2> QED BY <1>1, <2>3, <2>4 DEF PromotionTypeOK
<1> QED BY <1>2, <1>3 DEF on_logic_verifyed

LEMMA UserLoginedType ==
  ASSUME TypeOK, NEW c \in Accepted, NEW f \in Fds, on_user_logined(c, f)
  PROVE  PromotionTypeOK
<1> USE DEF TypeOK, NetTypeOK, IOTypeOK, WorkerTypeOK
<1>1. ConnectEvent(c, f) \in Event
  BY DEF ConnectEvent, Event, Accepted
<1>2. /\ unlogin_users' \in [Fds -> MaybeAccepted]
      /\ UNCHANGED <<logic, ep, users, w_pc>>
  BY DEF on_user_logined, Without
<1>3. CASE UNCHANGED <<events_io, fd_set, epio>>
  BY <1>2, <1>3 DEF PromotionTypeOK
<1>4. ASSUME NEW w \in get_worker(f), HandOver(c, f, w)
      PROVE  PromotionTypeOK
  <2>1. w \in Workers
    BY DEF get_worker, Least, Having, Idlest, Started
  <2>2. events_io' \in [Workers -> Seq(Event)]
    BY <1>1, <1>4, <2>1 DEF HandOver
  <2> QED BY <1>2, <1>4, <2>2 DEF HandOver, PromotionTypeOK
<1> QED BY <1>3, <1>4 DEF on_user_logined

LEMMA HandlerReplyTypeOK == TypeOK /\ handler_reply => TypeOK'
<1> SUFFICES ASSUME TypeOK, handler_reply PROVE TypeOK'
  OBVIOUS
<1> DEFINE f == Head(rsp_msgs).fd
           m == Head(rsp_msgs).msg
           c == unlogin_users[f]
<1>1. sfd' = sfd /\ Accepted' = Accepted /\ Event' = Event
  BY AcceptedSame DEF handler_reply
<1>2. /\ rsp_msgs \in Seq(Rsp) /\ rsp_msgs # <<>>
      /\ rsp_msgs' = Tail(rsp_msgs)
  BY DEF handler_reply, TypeOK, IOTypeOK
<1>3. Head(rsp_msgs) \in Rsp /\ rsp_msgs' \in Seq(Rsp)
  BY <1>2, HeadTailProperties
<1>4. f \in Fds /\ m \in Msg /\ c \in MaybeAccepted
  BY <1>3 DEF TypeOK, IOTypeOK
<1>5. ASSUME no_promotion PROVE PromotionTypeOK
  BY <1>5 DEF no_promotion, PromotionTypeOK, TypeOK, NetTypeOK, IOTypeOK,
              WorkerTypeOK
<1>6. PromotionTypeOK
  <2>1. CASE no_promotion
    BY <1>5, <2>1
  <2>2. CASE c # NoConn /\ on_logic_verifyed(c, f)
    BY <1>4, <2>2, LogicVerifyedType
  <2>3. CASE c # NoConn /\ on_user_logined(c, f)
    BY <1>4, <2>3, UserLoginedType
  <2> QED BY <2>1, <2>2, <2>3 DEF handler_reply
<1>7. inbox' \in [Conns -> SUBSET Msg]
  <2>1. inbox' = inbox \/ inbox' = Delivered(f, {m})
    BY DEF handler_reply
  <2>2. \A d \in Conns : inbox[d] \cup {m} \in SUBSET Msg
    BY <1>4 DEF TypeOK, NetTypeOK
  <2>3. Delivered(f, {m}) \in [Conns -> SUBSET Msg]
    <3> HIDE DEF f, m
    <3> QED BY <2>2 DEF Delivered, TypeOK, NetTypeOK
  <2> QED BY <2>1, <2>3 DEF TypeOK, NetTypeOK
<1>8. NetTypeOK'
  BY <1>1, <1>6, <1>7 DEF handler_reply, PromotionTypeOK, TypeOK, NetTypeOK
<1>9. IOTypeOK'
  BY <1>1, <1>3, <1>6 DEF handler_reply, PromotionTypeOK, TypeOK, IOTypeOK
<1>10. WorkerTypeOK'
  BY <1>1, <1>6 DEF handler_reply, PromotionTypeOK, TypeOK, WorkerTypeOK
<1> QED BY <1>8, <1>9, <1>10 DEF TypeOK

LEMMA NotifyWorkersTypeOK == TypeOK /\ notify_workers => TypeOK'
<1> SUFFICES ASSUME TypeOK, notify_workers PROVE TypeOK'
  OBVIOUS
<1>1. sfd' = sfd /\ Accepted' = Accepted /\ Event' = Event
  BY AcceptedSame DEF notify_workers, netVars
<1>2. NetTypeOK'
  BY NetSame DEF notify_workers, TypeOK
<1>3. IOTypeOK'
  BY <1>1 DEF notify_workers, TypeOK, IOTypeOK
<1>4. /\ ioevs_in' \in [Workers -> Seq(Event)]
      /\ events_io' \in [Workers -> Seq(Event)]
  BY DEF notify_workers, move_io_event_to_in, TypeOK, WorkerTypeOK
<1>5. WorkerTypeOK'
  BY <1>1, <1>4 DEF notify_workers, workVars, TypeOK, WorkerTypeOK
<1> QED BY <1>2, <1>3, <1>5 DEF TypeOK

LEMMA IOTypeCorrect == TypeOK /\ IONext => TypeOK'
BY EpollOneTypeOK, HandlerDataTypeOK, UnloginMsgTypeOK, HandlerReplyTypeOK,
   NotifyWorkersTypeOK DEF IONext
-----------------------------------------------------------------------------
(* GateWorker.                                                             *)

(* A worker keeps its place in the loop among the four.                    *)
LEMMA GoesType ==
  ASSUME WorkerTypeOK, NEW w \in Workers, NEW from,
         NEW to \in {"none", "ioevent", "connect", "epevent"}, Goes(w, from, to)
  PROVE  w_pc' \in [Workers -> {"none", "ioevent", "connect", "epevent"}]
BY DEF Goes, WorkerTypeOK

LEMMA TakeIoeventsTypeOK ==
  ASSUME TypeOK, NEW w \in Workers, take_ioevents(w)
  PROVE  TypeOK'
<1>1. sfd' = sfd /\ Accepted' = Accepted /\ Event' = Event
  BY AcceptedSame DEF take_ioevents, netVars
<1>2. NetTypeOK' /\ IOTypeOK'
  BY <1>1, NetSame, IOSame DEF take_ioevents, TypeOK
<1>3. w_pc' \in [Workers -> {"none", "ioevent", "connect", "epevent"}]
  BY GoesType DEF take_ioevents, TypeOK
<1>4. /\ w_evs' \in [Workers -> Seq(Event)]
      /\ ioevs_in' \in [Workers -> Seq(Event)]
  <2>1. <<>> \in Seq(Event)
    OBVIOUS
  <2> QED BY <2>1 DEF take_ioevents, TypeOK, WorkerTypeOK
<1>5. WorkerTypeOK'
  BY <1>1, <1>3, <1>4 DEF take_ioevents, TypeOK, WorkerTypeOK
<1> QED BY <1>2, <1>5 DEF TypeOK

LEMMA HandlerIoeventTypeOK ==
  ASSUME TypeOK, NEW w \in Workers, handler_ioevent(w)
  PROVE  TypeOK'
<1> DEFINE e == Head(w_evs[w])
<1>1. sfd' = sfd /\ Accepted' = Accepted /\ Event' = Event
  BY AcceptedSame DEF handler_ioevent
<1>2. IOTypeOK'
  BY <1>1, IOSame DEF handler_ioevent, TypeOK
<1>3. /\ w_evs[w] \in Seq(Event) /\ w_evs[w] # <<>>
      /\ w_evs' = [w_evs EXCEPT ![w] = Tail(@)]
  BY DEF handler_ioevent, TypeOK, WorkerTypeOK
<1>4. e \in Event /\ Tail(w_evs[w]) \in Seq(Event)
  BY <1>3, HeadTailProperties
<1>5. /\ e.conn \in Accepted /\ e.conn \in Conns
      /\ e.fd \in Fds
      /\ e.uid \in Uids \cup {0, -1}
  <2> HIDE DEF e
  <2> QED BY <1>4 DEF Event, Accepted
<1>6. w_evs' \in [Workers -> Seq(Event)]
  BY <1>3, <1>4 DEF TypeOK, WorkerTypeOK
<1>7. /\ users' \in [Workers -> Manager(Accepted)]
      /\ wk_uid' \in [Conns -> Uids \cup {0, -1}]
      /\ ep' \in [Workers -> SUBSET Fds]
      /\ user_msgs_in' \in [Workers -> Seq(Msg)]
  <2> USE DEF TypeOK, NetTypeOK, WorkerTypeOK
  <2>1. CASE UNCHANGED <<users, wk_uid, ep, user_msgs_in>>
    BY <2>1
  <2>2. CASE on_new_connect(w, e)
    <3>1. add_conn(users[w], e.conn, e.fd, e.uid) \in Manager(Accepted \cup {NoConn})
      <4>1. users[w] \in Manager(Accepted \cup {NoConn})
        BY DEF Manager
      <4> QED BY <1>5, <4>1, AddConnType
    <3>2. users' \in [Workers -> Manager(Accepted)]
      <4>1. Manager(Accepted \cup {NoConn}) = Manager(Accepted)
        BY DEF Manager
      <4> QED BY <2>2, <3>1, <4>1 DEF on_new_connect
    <3>3. [kind |-> "online", uid |-> e.uid] \in Msg
      BY <1>5 DEF Msg, Kinds
    <3>4. user_msgs_in' \in [Workers -> Seq(Msg)]
      BY <2>2, <3>3 DEF on_new_connect
    <3>5. /\ wk_uid' \in [Conns -> Uids \cup {0, -1}]
          /\ ep' \in [Workers -> SUBSET Fds]
      BY <1>5, <2>2 DEF on_new_connect
    <3> QED BY <3>2, <3>4, <3>5
  <2> QED BY <2>1, <2>2 DEF handler_ioevent
<1>8. NetTypeOK'
  BY <1>1, <1>7 DEF handler_ioevent, TypeOK, NetTypeOK
<1>9. WorkerTypeOK'
  BY <1>1, <1>6, <1>7 DEF handler_ioevent, Stays, queueVars, TypeOK,
                          WorkerTypeOK
<1> QED BY <1>2, <1>8, <1>9 DEF TypeOK

LEMMA EpollWaitTypeOK ==
  ASSUME TypeOK, NEW w \in Workers, epoll_wait(w)
  PROVE  TypeOK'
<1>1. sfd' = sfd /\ Accepted' = Accepted /\ Event' = Event
  BY AcceptedSame DEF epoll_wait, netVars
<1>2. NetTypeOK' /\ IOTypeOK'
  BY <1>1, NetSame, IOSame DEF epoll_wait, TypeOK
<1>3. w_pc' \in [Workers -> {"none", "ioevent", "connect", "epevent"}]
  BY GoesType DEF epoll_wait, TypeOK
<1>4. epev_users' \in [Workers -> SUBSET Accepted]
  <2>1. \A f \in Ready(ep[w]) :
          get_user_by_sock(users[w], f) \in MaybeAccepted
    BY DEF Ready, get_user_by_sock, Manager, TypeOK, NetTypeOK, WorkerTypeOK
  <2> QED BY <2>1 DEF epoll_wait, TypeOK, WorkerTypeOK
<1>5. WorkerTypeOK'
  BY <1>1, <1>3, <1>4 DEF epoll_wait, queueVars, TypeOK, WorkerTypeOK
<1> QED BY <1>2, <1>5 DEF TypeOK

LEMMA HandlerEpeventTypeOK ==
  ASSUME TypeOK, NEW w \in Workers, NEW c \in epev_users[w],
         handler_epevent(w, c)
  PROVE  TypeOK'
<1>1. sfd' = sfd /\ Accepted' = Accepted /\ Event' = Event
  BY AcceptedSame DEF handler_epevent
<1>2. IOTypeOK'
  BY <1>1, IOSame DEF handler_epevent, TypeOK
<1>3. c \in Accepted /\ c \in Conns /\ sfd[c] \in Fds
  BY DEF TypeOK, NetTypeOK, WorkerTypeOK, Accepted
<1>4. NetTypeOK'
  <2>1. got' \in [Conns -> Nat]
    BY DrainedType DEF handler_epevent, TypeOK
  <2>2. /\ openfd' \in [Fds -> MaybeAccepted]
        /\ epio' \in SUBSET Fds
        /\ ep' \in [Workers -> SUBSET Fds]
    <3>1. CASE ReadError(sfd[c])
      BY <3>1, ClosedType DEF handler_epevent, TypeOK
    <3>2. CASE ~ReadError(sfd[c])
      BY <3>2 DEF handler_epevent, TypeOK, NetTypeOK
    <3> QED BY <3>1, <3>2
  <2> QED BY <1>1, <2>1, <2>2 DEF handler_epevent, TypeOK, NetTypeOK
<1>5. wk_rd' \in [Conns -> Seq(Msg)]
  <2>1. ReadFrames(sfd[c]) \in Seq(Msg)
    BY <1>3, ReadFramesType DEF TypeOK
  <2>2. wk_rd[c] \o ReadFrames(sfd[c]) \in Seq(Msg)
    BY <1>3, <2>1 DEF TypeOK, WorkerTypeOK
  <2> QED BY <2>2 DEF handler_epevent, TypeOK, WorkerTypeOK
<1>6. /\ closing' \in [Workers -> MaybeAccepted]
      /\ rd_users' \in [Workers -> Seq(Accepted)]
  <2>1. /\ closing' \in {closing, [closing EXCEPT ![w] = c]}
        /\ rd_users' \in {rd_users, [rd_users EXCEPT ![w] = Append(@, c)]}
    BY DEF handler_epevent
  <2>2. Append(rd_users[w], c) \in Seq(Accepted) /\ c \in MaybeAccepted
    BY <1>3 DEF TypeOK, WorkerTypeOK
  <2>3. closing \in [Workers -> MaybeAccepted] /\ rd_users \in [Workers -> Seq(Accepted)]
    BY DEF TypeOK, WorkerTypeOK
  <2>4. closing' \in [Workers -> MaybeAccepted]
    BY <2>1, <2>2, <2>3
  <2>5. rd_users' \in [Workers -> Seq(Accepted)]
    <3> DEFINE R == Seq(Accepted)
               x == Append(rd_users[w], c)
    <3>1. rd_users' \in {rd_users, [rd_users EXCEPT ![w] = x]}
      BY <2>1
    <3>2. x \in R /\ rd_users \in [Workers -> R]
      BY <2>2, <2>3
    <3> HIDE DEF R, x
    <3>3. rd_users' \in [Workers -> R]
      BY <3>1, <3>2
    <3> QED BY <3>3 DEF R
  <2> QED BY <2>4, <2>5
<1>7. WorkerTypeOK'
  BY <1>1, <1>5, <1>6 DEF handler_epevent, Stays, queueVars, TypeOK,
                          WorkerTypeOK
<1> QED BY <1>2, <1>4, <1>7 DEF TypeOK

LEMMA DelConnType ==
  ASSUME NEW C, NEW m \in Manager(C), NEW f, NEW uidOf
  PROVE  del_conn(m, f, uidOf) \in Manager(C)
<1>1. /\ m.sock \in [Fds -> C \cup {NoConn}]
      /\ m.uid \in [Uids -> C \cup {NoConn}]
  BY DEF Manager
<1>2. [m.sock EXCEPT ![f] = NoConn] \in [Fds -> C \cup {NoConn}]
  BY <1>1
<1> QED BY <1>1, <1>2 DEF del_conn, Manager

LEMMA ConnOfflineTypeOK ==
  ASSUME TypeOK, NEW w \in Workers, worker_conn_offline(w)
  PROVE  TypeOK'
<1> DEFINE c == closing[w]
<1>1. sfd' = sfd /\ Accepted' = Accepted /\ Event' = Event
  BY AcceptedSame DEF worker_conn_offline, netVars
<1>2. NetTypeOK' /\ IOTypeOK'
  BY <1>1, NetSame, IOSame DEF worker_conn_offline, TypeOK
<1>3. c \in Conns
  BY DEF worker_conn_offline, TypeOK, WorkerTypeOK, Accepted
<1>4. users' \in [Workers -> Manager(Accepted)]
  <2>1. del_conn(users[w], sfd[c], wk_uid) \in Manager(Accepted)
    <3>1. users[w] \in Manager(Accepted)
      BY DEF TypeOK, WorkerTypeOK
    <3> QED BY <3>1, DelConnType
  <2> QED BY <2>1 DEF worker_conn_offline, TypeOK, WorkerTypeOK
<1>5. /\ user_msgs_in' \in [Workers -> Seq(Msg)]
      /\ fd_set' \in [Workers -> SUBSET Fds]
  <2>1. [kind |-> "offline", uid |-> wk_uid[c]] \in Msg
    BY <1>3 DEF Msg, Kinds, TypeOK, WorkerTypeOK
  <2>2. Append(user_msgs_in[w], [kind |-> "offline", uid |-> wk_uid[c]])
          \in Seq(Msg)
    BY <2>1 DEF TypeOK, WorkerTypeOK
  <2> DEFINE sent == Append(user_msgs_in[w],
                             [kind |-> "offline", uid |-> wk_uid[c]])
  <2>3. /\ user_msgs_in' \in {user_msgs_in, [user_msgs_in EXCEPT ![w] = sent]}
        /\ fd_set' \in {fd_set, [fd_set EXCEPT ![w] = @ \ {sfd[c]}]}
    BY DEF worker_conn_offline, del_fd
  <2>4. sent \in Seq(Msg)
    BY <2>2
  <2> HIDE DEF sent, c
  <2>5. user_msgs_in \in [Workers -> Seq(Msg)] /\ fd_set \in [Workers -> SUBSET Fds]
    BY DEF TypeOK, WorkerTypeOK
  <2>6. user_msgs_in' \in [Workers -> Seq(Msg)]
    <3> DEFINE R == Seq(Msg)
    <3>1. sent \in R /\ user_msgs_in \in [Workers -> R]
      BY <2>4, <2>5
    <3> HIDE DEF R
    <3>2. user_msgs_in' \in [Workers -> R]
      BY <2>3, <3>1
    <3> QED BY <3>2 DEF R
  <2>7. fd_set' \in [Workers -> SUBSET Fds]
    BY <2>3, <2>5
  <2> QED BY <2>6, <2>7
<1>6. closing' \in [Workers -> MaybeAccepted]
  BY DEF worker_conn_offline, TypeOK, WorkerTypeOK
<1>7. WorkerTypeOK'
  BY <1>1, <1>4, <1>5, <1>6 DEF worker_conn_offline, Stays, TypeOK,
                                WorkerTypeOK
<1> QED BY <1>2, <1>7 DEF TypeOK

LEMMA HandlerEpdataTypeOK ==
  ASSUME TypeOK, NEW w \in Workers, NEW i \in DOMAIN rd_users[w],
         handler_epdata(w, i)
  PROVE  TypeOK'
<1> DEFINE c == rd_users[w][i]
           m == Head(wk_rd[c])
<1>1. sfd' = sfd /\ Accepted' = Accepted /\ Event' = Event
  BY AcceptedSame DEF handler_epdata, netVars
<1>2. NetTypeOK' /\ IOTypeOK'
  BY <1>1, NetSame, IOSame DEF handler_epdata, TypeOK
<1>3. rd_users[w] \in Seq(Accepted)
  BY DEF TypeOK, WorkerTypeOK
<1>4. c \in Conns /\ i \in Nat /\ i - 1 \in Nat
  <2>1. c \in Accepted /\ i \in 1 .. Len(rd_users[w])
    BY <1>3
  <2> QED BY <2>1 DEF Accepted
<1>5. m \in Msg /\ Tail(wk_rd[c]) \in Seq(Msg)
  <2>1. wk_rd[c] \in Seq(Msg)
    BY <1>4 DEF TypeOK, WorkerTypeOK
  <2>2. wk_rd[c] # <<>>
    BY DEF handler_epdata, NextToParse, HasFrames
  <2> QED BY <2>1, <2>2, HeadTailProperties
<1>6. /\ w_idx' \in [Workers -> Nat]
      /\ wk_rd' \in [Conns -> Seq(Msg)]
  BY <1>4, <1>5 DEF handler_epdata, TypeOK, WorkerTypeOK
<1>7. /\ user_msgs_in' \in [Workers -> Seq(Msg)]
      /\ logic_msgs_in' \in [Workers -> Seq(Msg)]
  <2>1. /\ user_msgs_in' \in {user_msgs_in,
                              [user_msgs_in EXCEPT ![w] = Append(@, m)]}
        /\ logic_msgs_in' \in {logic_msgs_in,
                               [logic_msgs_in EXCEPT ![w] = Append(@, m)]}
    BY DEF handler_epdata
  <2>2. /\ Append(user_msgs_in[w], m) \in Seq(Msg)
        /\ Append(logic_msgs_in[w], m) \in Seq(Msg)
    BY <1>5 DEF TypeOK, WorkerTypeOK
  <2>3. user_msgs_in \in [Workers -> Seq(Msg)] /\ logic_msgs_in \in [Workers -> Seq(Msg)]
    BY DEF TypeOK, WorkerTypeOK
  <2> HIDE DEF m
  <2>4. user_msgs_in' \in [Workers -> Seq(Msg)]
    <3> DEFINE R == Seq(Msg)
               x == Append(user_msgs_in[w], m)
    <3>1. user_msgs_in' \in {user_msgs_in, [user_msgs_in EXCEPT ![w] = x]}
      BY <2>1
    <3>2. x \in R /\ user_msgs_in \in [Workers -> R]
      BY <2>2, <2>3
    <3> HIDE DEF R, x
    <3>3. user_msgs_in' \in [Workers -> R]
      BY <3>1, <3>2
    <3> QED BY <3>3 DEF R
  <2>5. logic_msgs_in' \in [Workers -> Seq(Msg)]
    <3> DEFINE R == Seq(Msg)
               x == Append(logic_msgs_in[w], m)
    <3>1. logic_msgs_in' \in {logic_msgs_in, [logic_msgs_in EXCEPT ![w] = x]}
      BY <2>1
    <3>2. x \in R /\ logic_msgs_in \in [Workers -> R]
      BY <2>2, <2>3
    <3> HIDE DEF R, x
    <3>3. logic_msgs_in' \in [Workers -> R]
      BY <3>1, <3>2
    <3> QED BY <3>3 DEF R
  <2> QED BY <2>4, <2>5
<1>8. WorkerTypeOK'
  BY <1>1, <1>6, <1>7 DEF handler_epdata, queueVars, TypeOK, WorkerTypeOK
<1> QED BY <1>2, <1>8 DEF TypeOK

LEMMA HandlerMsgsTypeOK ==
  ASSUME TypeOK, NEW w \in Workers, handler_msgs(w)
  PROVE  TypeOK'
<1>1. sfd' = sfd /\ Accepted' = Accepted /\ Event' = Event
  BY AcceptedSame DEF handler_msgs
<1>2. IOTypeOK'
  BY <1>1, IOSame DEF handler_msgs, TypeOK
<1>3. inbox' \in [Conns -> SUBSET Msg]
  <2>1. \A q \in Seq(Msg) : Elements(q) \subseteq Msg
    BY DEF Elements
  <2>2. ASSUME NEW c \in Conns
        PROVE  inbox[c] \cup ToLogic(w, c) \cup ToUsers(w, c) \in SUBSET Msg
    BY <2>1 DEF ToLogic, ToUsers, TypeOK, NetTypeOK, WorkerTypeOK
  <2> QED BY <2>2 DEF handler_msgs
<1>4. NetTypeOK'
  BY <1>1, <1>3 DEF handler_msgs, TypeOK, NetTypeOK
<1>5. WorkerTypeOK'
  BY <1>1 DEF handler_msgs, queueVars, TypeOK, WorkerTypeOK
<1> QED BY <1>2, <1>4, <1>5 DEF TypeOK

LEMMA WorkerTypeCorrect == ASSUME TypeOK, NEW w \in Workers, WorkerNext(w)
                           PROVE  TypeOK'
BY TakeIoeventsTypeOK, HandlerIoeventTypeOK, EpollWaitTypeOK,
   HandlerEpeventTypeOK, ConnOfflineTypeOK, HandlerEpdataTypeOK,
   HandlerMsgsTypeOK DEF WorkerNext
-----------------------------------------------------------------------------
LEMMA NextTypeOK == TypeOK /\ [Next]_vars => TypeOK'
<1> SUFFICES ASSUME TypeOK, [Next]_vars PROVE TypeOK'
  OBVIOUS
<1>1. CASE UNCHANGED vars
  <2>1. UNCHANGED <<netVars, ioVars, queueVars, workVars>> /\ sfd' = sfd
    BY <1>1 DEF vars, netVars
  <2> QED BY <2>1, NetSame, IOSame, WorkerSame DEF TypeOK
<1> QED BY <1>1, PeerTypeOK, IOTypeCorrect, WorkerTypeCorrect DEF Next

(* No thread ever keeps or uses an object of a connection that was not     *)
(* accepted, however the threads and the peers interleave.                 *)
THEOREM TypeCorrect == Spec => []TypeOK
BY InitTypeOK, NextTypeOK, PTL DEF Spec
-----------------------------------------------------------------------------
(* Who owns a descriptor.                                                  *)

HIDE DEF Rsp

(* What a worker's events are on their way through, oldest first.          *)
Queue(w) == (w_evs[w] \o ioevs_in[w]) \o events_io[w]
Connects(w) == {i \in DOMAIN Queue(w) : Queue(w)[i].what = "connect"}

(* A number the IO thread knows a user under denotes that user's           *)
(* connection.                                                             *)
IOOwns ==
  /\ \A f \in Fds : unlogin_users[f] # NoConn =>
                      openfd[f] = unlogin_users[f] /\ f \in epio
  /\ \A f \in Fds : openfd[f] # NoConn => sfd[openfd[f]] = f
  /\ \A f \in epio : openfd[f] # NoConn

(* The IO thread's lists, which it fills and empties within one turn.      *)
ListsFresh ==
  /\ \A c \in unlogin_events : unlogin_users[sfd[c]] = c
  /\ io_pc # "data" => unlogin_events = {}
  /\ io_pc # "msgs" => io_idx = 0
  /\ \A i \in DOMAIN unlogin_reads :
       LET c == unlogin_reads[i] IN
       io_rd[c] # <<>> => /\ io_pc = "msgs" /\ i > io_idx
                          /\ unlogin_users[sfd[c]] = c \/ openfd[sfd[c]] = NoConn

FramesKnown ==
  \A c \in Conns : /\ \A i \in DOMAIN said[c] : CanGen(said[c][i])
                   /\ \A i \in DOMAIN io_rd[c] : CanGen(io_rd[c][i])

QueuesOwn ==
  /\ \A w \in Workers : w_pc[w] # "connect" => w_evs[w] = <<>>
  /\ \A w \in Workers : \A i \in Connects(w) :
       LET e == Queue(w)[i] IN
       /\ openfd[e.fd] = e.conn
       /\ e.fd \notin epio
       /\ \A v \in Workers : e.fd \notin ep[v]
  /\ \A v, w \in Workers : \A i \in Connects(v), j \in Connects(w) :
       Queue(v)[i].fd = Queue(w)[j].fd => v = w /\ i = j

WatchersOwn ==
  \A w \in Workers : \A f \in ep[w] :
    /\ openfd[f] # NoConn
    /\ f \notin epio
    /\ users[w].sock[f] = openfd[f]
    /\ \A v \in Workers : f \in ep[v] => v = w

UsersOwn ==
  \A w \in Workers :
    /\ logic[w] = NoConn => w_pc[w] = "none" /\ ep[w] = {}
    /\ closing[w] # NoConn => w_pc[w] = "epevent" /\ sfd[closing[w]] \notin ep[w]
    /\ \A f \in Fds : LET c == users[w].sock[f] IN
         c # NoConn => sfd[c] = f /\ (f \in ep[w] \/ c = closing[w])
    /\ \A c \in epev_users[w] :
         w_pc[w] = "epevent" /\ sfd[c] \in ep[w] /\ openfd[sfd[c]] = c

Own == IOOwns /\ ListsFresh /\ FramesKnown /\ QueuesOwn /\ WatchersOwn /\ UsersOwn
-----------------------------------------------------------------------------
(* The queues.                                                             *)

LEMMA QueueType ==
  ASSUME TypeOK, NEW w \in Workers
  PROVE  /\ w_evs[w] \in Seq(Event) /\ ioevs_in[w] \in Seq(Event)
         /\ events_io[w] \in Seq(Event) /\ Queue(w) \in Seq(Event)
<1>1. /\ w_evs[w] \in Seq(Event) /\ ioevs_in[w] \in Seq(Event)
      /\ events_io[w] \in Seq(Event)
  BY DEF TypeOK, WorkerTypeOK
<1> QED BY <1>1, ConcatProperties DEF Queue

(* What a connect event in a queue names.                                  *)
LEMMA ConnectType ==
  ASSUME TypeOK, NEW w \in Workers, NEW i \in Connects(w)
  PROVE  /\ i \in 1 .. Len(Queue(w)) /\ Queue(w)[i] \in Event
         /\ Queue(w)[i].fd \in Fds /\ Queue(w)[i].conn \in Accepted
         /\ Queue(w)[i].conn # NoConn
<1>1. Queue(w) \in Seq(Event)
  BY QueueType
<1>2. i \in 1 .. Len(Queue(w))
  BY <1>1, LenProperties DEF Connects
<1>3. Queue(w)[i] \in Event
  BY <1>1, <1>2, ElementOfSeq
<1>4. \A e \in Event : e.fd \in Fds /\ e.conn \in Accepted
  BY DEF Event
<1>5. NoConn \notin Accepted
  BY UserManagerAssumption DEF Accepted
<1> QED BY <1>2, <1>3, <1>4, <1>5

(* What is accepted has a number.                                          *)
LEMMA AcceptedHas ==
  ASSUME TypeOK, NEW c \in Accepted
  PROVE  c \in Conns /\ c # NoConn /\ sfd[c] \in Fds
BY UserManagerAssumption DEF Accepted, TypeOK, NetTypeOK

(* What a worker's objects are of.                                         *)
LEMMA WorkerHas ==
  ASSUME TypeOK, NEW w \in Workers
  PROVE  /\ closing[w] # NoConn => closing[w] \in Accepted
         /\ \A f \in Fds : users[w].sock[f] # NoConn => users[w].sock[f] \in Accepted
         /\ epev_users[w] \subseteq Accepted
         /\ ep[w] \subseteq Fds
<1>1. users[w] \in Manager(Accepted)
  BY DEF TypeOK, WorkerTypeOK
<1>2. users[w].sock \in [Fds -> Accepted \cup {NoConn}]
  BY <1>1 DEF Manager
<1> QED BY <1>2 DEF TypeOK, NetTypeOK, WorkerTypeOK

(* A step that only takes events from the front of the queues, or puts     *)
(* others than connect events behind them, keeps what is said of them,     *)
(* unless it disturbs their descriptors.                                   *)
LEMMA QueuesKept ==
  ASSUME TypeOK, QueuesOwn, NEW n \in [Workers -> Nat],
         \A w \in Workers : w_pc'[w] # "connect" => w_evs'[w] = <<>>,
         \A w \in Workers : \A i \in Connects(w)' :
           i \in Nat /\ i + n[w] \in Connects(w) /\ Queue(w)'[i] = Queue(w)[i + n[w]],
         \A f \in Fds : openfd[f] # NoConn /\ f \notin epio
                          /\ (\A v \in Workers : f \notin ep[v])
                          /\ (\E w \in Workers : \E i \in Connects(w)' : Queue(w)'[i].fd = f)
           => /\ openfd'[f] = openfd[f] /\ f \notin epio'
              /\ \A v \in Workers : f \notin ep'[v]
  PROVE  QueuesOwn'
<1>1. ASSUME NEW w \in Workers, NEW i \in Connects(w)'
      PROVE  /\ openfd'[Queue(w)'[i].fd] = Queue(w)'[i].conn
             /\ Queue(w)'[i].fd \notin epio'
             /\ \A v \in Workers : Queue(w)'[i].fd \notin ep'[v]
  <2> DEFINE k == i + n[w]
             e == Queue(w)[k]
  <2>1. k \in Connects(w) /\ Queue(w)'[i] = e
    OBVIOUS
  <2>2. e.fd \in Fds /\ e.conn # NoConn
    BY <2>1, ConnectType
  <2>3. /\ openfd[e.fd] = e.conn /\ e.fd \notin epio
        /\ \A v \in Workers : e.fd \notin ep[v]
    BY <2>1 DEF QueuesOwn
  <2>4. \E v \in Workers : \E j \in Connects(v)' : Queue(v)'[j].fd = e.fd
    BY <2>1
  <2> HIDE DEF k, e
  <2> QED BY <2>1, <2>2, <2>3, <2>4
<1>2. ASSUME NEW v \in Workers, NEW w \in Workers,
             NEW i \in Connects(v)', NEW j \in Connects(w)',
             Queue(v)'[i].fd = Queue(w)'[j].fd
      PROVE  v = w /\ i = j
  <2>1. /\ i \in Nat /\ i + n[v] \in Connects(v) /\ Queue(v)'[i] = Queue(v)[i + n[v]]
        /\ j \in Nat /\ j + n[w] \in Connects(w) /\ Queue(w)'[j] = Queue(w)[j + n[w]]
    OBVIOUS
  <2>2. v = w /\ i + n[v] = j + n[w]
    BY <1>2, <2>1 DEF QueuesOwn
  <2> QED BY <2>1, <2>2
<1> QED BY <1>1, <1>2 DEF QueuesOwn

(* The queues are the same.                                                *)
LEMMA QueuesSame ==
  ASSUME TypeOK, QueuesOwn, UNCHANGED <<w_evs, ioevs_in, events_io>>,
         \A w \in Workers :
           w_pc'[w] # "connect" => w_pc[w] # "connect" \/ w_evs[w] = <<>>,
         \A f \in Fds : openfd[f] # NoConn /\ f \notin epio
                          /\ (\A v \in Workers : f \notin ep[v])
           => /\ openfd'[f] = openfd[f] /\ f \notin epio'
              /\ \A v \in Workers : f \notin ep'[v]
  PROVE  QueuesOwn'
<1> DEFINE n == [w \in Workers |-> 0]
<1>1. ASSUME NEW w \in Workers, NEW i \in Connects(w)'
      PROVE  i \in Nat /\ i + n[w] \in Connects(w) /\ Queue(w)'[i] = Queue(w)[i + n[w]]
  <2>1. Queue(w)' = Queue(w) /\ Connects(w)' = Connects(w)
    BY DEF Queue, Connects
  <2>2. i \in Connects(w) /\ i \in Nat
    BY <2>1, ConnectType
  <2>3. n[w] = 0 /\ i + n[w] = i
    BY <2>2
  <2> QED BY <2>1, <2>2, <2>3
<1>2. \A w \in Workers : w_pc'[w] # "connect" => w_evs'[w] = <<>>
  BY DEF QueuesOwn
<1>3. n \in [Workers -> Nat]
  OBVIOUS
<1> HIDE DEF n
<1> QED BY <1>1, <1>2, <1>3, QueuesKept

(* Closing numbers takes nothing from the events under way if each number  *)
(* was watched, or closed already; and it never disturbs the watchers.     *)
LEMMA ClosedQueues ==
  ASSUME TypeOK, QueuesOwn, NEW F, ClosedFds(F),
         UNCHANGED <<w_evs, ioevs_in, events_io, w_pc>>,
         \A f \in F : \/ openfd[f] = NoConn \/ f \in epio
                      \/ \E v \in Workers : f \in ep[v]
  PROVE  QueuesOwn'
<1>1. \A f \in Fds : openfd[f] # NoConn /\ f \notin epio
                          /\ (\A v \in Workers : f \notin ep[v])
           => /\ openfd'[f] = openfd[f] /\ f \notin epio'
              /\ \A v \in Workers : f \notin ep'[v]
  BY DEF ClosedFds
<1> QED BY <1>1, QueuesSame

LEMMA ClosedWatchers ==
  ASSUME TypeOK, WatchersOwn, NEW F, ClosedFds(F), users' = users
  PROVE  WatchersOwn'
<1>1. \A w \in Workers : ep[w] \subseteq Fds
  BY DEF TypeOK, NetTypeOK
<1> QED BY <1>1 DEF ClosedFds, WatchersOwn

(* The IO thread closes none of the numbers the workers watch.             *)
LEMMA ClosedUsers ==
  ASSUME TypeOK, WatchersOwn, UsersOwn, NEW F, ClosedFds(F),
         \A f \in F : openfd[f] = NoConn \/ f \in epio,
         UNCHANGED <<logic, w_pc, closing, users, epev_users, sfd>>
  PROVE  UsersOwn'
<1>1. ASSUME NEW w \in Workers
      PROVE  ep'[w] = ep[w] /\ \A f \in ep[w] : openfd'[f] = openfd[f]
  <2>1. ep[w] \subseteq Fds /\ \A f \in ep[w] : f \notin F
    BY DEF TypeOK, NetTypeOK, WatchersOwn
  <2> QED BY <2>1 DEF ClosedFds
<1> QED BY <1>1 DEF UsersOwn

(* Nor does it take a number it keeps a user under.                        *)
LEMMA ClosedIO ==
  ASSUME TypeOK, IOOwns, NEW F, ClosedFds(F), unlogin_users' = Without(F),
         sfd' = sfd
  PROVE  IOOwns'
BY DEF TypeOK, NetTypeOK, IOTypeOK, IOOwns, ClosedFds, Without

LEMMA WorkersSame ==
  ASSUME WatchersOwn, UsersOwn,
         UNCHANGED <<openfd, epio, ep, users, logic, w_pc, closing, epev_users, sfd>>
  PROVE  WatchersOwn' /\ UsersOwn'
BY DEF WatchersOwn, UsersOwn
-----------------------------------------------------------------------------
LEMMA InitOwn == Init => Own
<1> SUFFICES ASSUME Init PROVE Own
  OBVIOUS
<1> USE DEF Init, NetInit, IOInit, WorkerInit
<1>1. IOOwns /\ ListsFresh /\ FramesKnown
  BY DEF IOOwns, ListsFresh, FramesKnown
<1>2. QueuesOwn
  <2>1. ASSUME NEW w \in Workers PROVE w_evs[w] = <<>> /\ Connects(w) = {}
    <3>1. Queue(w) = <<>>
      BY DEF Queue
    <3> QED BY <3>1 DEF Connects
  <2> QED BY <2>1 DEF QueuesOwn
<1>3. WatchersOwn /\ UsersOwn
  BY DEF WatchersOwn, UsersOwn, NoUsers
<1> QED BY <1>1, <1>2, <1>3 DEF Own

LEMMA PeerOwn ==
  ASSUME KnownFrames, TypeOK, Own, PeerNext
  PROVE  Own'
<1>1. UNCHANGED <<sfd, openfd, epio, ep, ioVars, queueVars, workVars>>
  BY DEF PeerNext, Connect, Send, PeerClose
<1> USE DEF Own
<1>2. IOOwns' /\ ListsFresh'
  BY <1>1 DEF IOOwns, ListsFresh, ioVars
<1>3. QueuesOwn'
  BY <1>1, QueuesSame DEF queueVars, workVars
<1>4. WatchersOwn' /\ UsersOwn'
  BY <1>1, WorkersSame DEF queueVars, workVars
<1>5. FramesKnown'
  <2>1. io_rd' = io_rd
    BY <1>1 DEF ioVars
  <2>2. CASE said' = said
    BY <2>1, <2>2 DEF FramesKnown
  <2>3. ASSUME NEW c \in Conns, NEW m \in ClientFrames[c], Send(c, m)
        PROVE  FramesKnown'
    <3>1. said[c] \in Seq(Msg) /\ m \in Msg /\ CanGen(m)
      BY GateAssumption DEF KnownFrames, TypeOK, NetTypeOK
    <3>2. ASSUME NEW i \in DOMAIN Append(said[c], m)
          PROVE  CanGen(Append(said[c], m)[i])
      <4>1. /\ i \in 1 .. Len(said[c]) + 1
            /\ i = Len(said[c]) + 1 => Append(said[c], m)[i] = m
            /\ i # Len(said[c]) + 1 => i \in DOMAIN said[c]
                                        /\ Append(said[c], m)[i] = said[c][i]
        BY <3>1
      <4> QED BY <3>1, <4>1 DEF FramesKnown
    <3>3. \A d \in Conns : said'[d] = IF d = c THEN Append(said[c], m) ELSE said[d]
      BY <2>3 DEF Send, TypeOK, NetTypeOK
    <3> QED BY <2>1, <3>2, <3>3 DEF FramesKnown
  <2> QED BY <2>2, <2>3 DEF PeerNext, Connect, PeerClose
<1> QED BY <1>2, <1>3, <1>4, <1>5
-----------------------------------------------------------------------------
(* GateIO.                                                                 *)

LEMMA Assoc ==
  \A s, t, u \in Seq(Event) : s \o (t \o u) = (s \o t) \o u
BY ConcatAssociative

(* What epoll_one appends to a worker's events comes behind all the others.*)
LEMMA QueueGrows ==
  ASSUME TypeOK, NEW w \in Workers, NEW r \in Seq(Event),
         w_evs'[w] = w_evs[w], ioevs_in'[w] = ioevs_in[w],
         events_io'[w] = events_io[w] \o r
  PROVE  Queue(w)' = Queue(w) \o r
<1>2. /\ w_evs[w] \o ioevs_in[w] \in Seq(Event)
      /\ events_io[w] \in Seq(Event)
  BY QueueType, ConcatProperties
<1>3. (w_evs[w] \o ioevs_in[w]) \o (events_io[w] \o r)
        = ((w_evs[w] \o ioevs_in[w]) \o events_io[w]) \o r
  BY <1>2, Assoc, Zenon
<1> QED BY <1>3 DEF Queue

(* Accepting changes nothing about the numbers that denote a connection.   *)
LEMMA AcceptKeeps ==
  ASSUME TypeOK, IOOwns, AcceptSome
  PROVE  /\ \A f \in Fds : openfd[f] # NoConn =>
               /\ openfd'[f] = openfd[f] /\ (f \in epio' <=> f \in epio)
               /\ unlogin_users'[f] = unlogin_users[f]
         /\ \A c \in Accepted : sfd'[c] = sfd[c]
         /\ IOOwns'
<1> USE DEF TypeOK, NetTypeOK, IOTypeOK
<1>1. CASE AcceptNone
  BY <1>1 DEF AcceptNone, Accepted, IOOwns
<1>2. ASSUME NEW c \in Pending, NEW g \in FreeFds, Accept(c, g)
      PROVE  /\ \A f \in Fds : openfd[f] # NoConn =>
                  /\ openfd'[f] = openfd[f] /\ (f \in epio' <=> f \in epio)
                  /\ unlogin_users'[f] = unlogin_users[f]
             /\ \A d \in Accepted : sfd'[d] = sfd[d]
             /\ IOOwns'
  <2>1. /\ c \in Conns /\ sfd[c] = 0 /\ c # NoConn
        /\ g \in Fds /\ openfd[g] = NoConn /\ unlogin_users[g] = NoConn
    BY UserManagerAssumption DEF Pending, FreeFds, IOOwns
  <2>2. /\ \A f \in Fds : openfd'[f] = IF f = g THEN c ELSE openfd[f]
        /\ \A d \in Conns : sfd'[d] = IF d = c THEN g ELSE sfd[d]
        /\ epio' = epio \cup {g}
        /\ \A f \in Fds : unlogin_users'[f] = IF f = g THEN c ELSE unlogin_users[f]
    BY <1>2, <2>1 DEF Accept, on_accept, PutAbsent
  <2>3. \A f \in Fds : openfd[f] # NoConn => openfd[f] # c /\ openfd[f] \in Conns
    BY <2>1 DEF Accepted
  <2>4. IOOwns'
    BY <2>1, <2>2, <2>3 DEF IOOwns
  <2> QED BY <2>1, <2>2, <2>4 DEF Accepted
<1> QED BY <1>1, <1>2 DEF AcceptSome

(* What it appends are read events.                                        *)
LEMMA EpollOneGrows ==
  ASSUME TypeOK, epoll_one, NEW w \in Workers
  PROVE  \E r \in Seq(Event) : /\ Queue(w)' = Queue(w) \o r
                               /\ \A j \in 1 .. Len(r) : r[j].what = "read"
<1>1. PICK q \in [Workers -> Listings(Strays)] :
        events_io' = [v \in Workers |-> events_io[v] \o ReadEvents(q[v])]
  BY DEF epoll_one
<1>2. Strays \subseteq Fds /\ \A f \in Strays : ReadEvent(f) \in Event
  BY DEF Strays, get_unlogin_user, Ready, Readable, ReadEvent, Event,
         MaybeAccepted, TypeOK, NetTypeOK
<1> DEFINE r == ReadEvents(q[w])
<1>3. q[w] \in Seq(Strays)
  BY <1>2, ListingsType, FS_Subset, GateAssumption
<1>4. /\ r \in Seq(Event)
      /\ \A j \in 1 .. Len(r) : r[j].what = "read"
  BY <1>2, <1>3 DEF ReadEvents, ReadEvent
<1>5. UNCHANGED <<w_evs, ioevs_in>> /\ events_io'[w] = events_io[w] \o r
  BY <1>1 DEF epoll_one, workVars
<1> HIDE DEF r
<1>6. Queue(w)' = Queue(w) \o r
  BY <1>4, <1>5, QueueGrows
<1> QED BY <1>4, <1>6

(* None of these is a connect event.                                       *)
LEMMA EpollOneQueues ==
  ASSUME TypeOK, epoll_one, NEW w \in Workers, NEW i \in Connects(w)'
  PROVE  i \in Connects(w) /\ i \in Nat /\ Queue(w)'[i] = Queue(w)[i]
<1>1. PICK r \in Seq(Event) : /\ Queue(w)' = Queue(w) \o r
                              /\ \A j \in 1 .. Len(r) : r[j].what = "read"
  BY EpollOneGrows
<1>2. Queue(w) \in Seq(Event)
  BY QueueType
<1>3. /\ i \in 1 .. Len(Queue(w)) + Len(r)
      /\ Queue(w)'[i] = IF i <= Len(Queue(w)) THEN Queue(w)[i] ELSE r[i - Len(Queue(w))]
      /\ Queue(w)'[i].what = "connect"
  <2>1. i \in DOMAIN (Queue(w) \o r) /\ Queue(w)'[i].what = "connect"
    BY <1>1 DEF Connects
  <2> QED BY <1>1, <1>2, <2>1, ConcatProperties, LenProperties
<1>4. i <= Len(Queue(w))
  <2>1. Len(Queue(w)) \in Nat /\ Len(r) \in Nat
    BY <1>2, LenProperties
  <2>2. ~(i <= Len(Queue(w))) => i - Len(Queue(w)) \in 1 .. Len(r)
    BY <1>3, <2>1
  <2> QED BY <1>1, <1>3, <2>2
<1>5. i \in DOMAIN Queue(w) /\ i \in Nat
  BY <1>2, <1>3, <1>4, LenProperties
<1> QED BY <1>3, <1>4, <1>5 DEF Connects

LEMMA EpollOneOwn == ASSUME TypeOK, Own, epoll_one PROVE Own'
<1> USE DEF Own
<1>1. AcceptSome
  BY DEF epoll_one, AcceptSome
<1>2. /\ \A f \in Fds : openfd[f] # NoConn =>
            /\ openfd'[f] = openfd[f] /\ (f \in epio' <=> f \in epio)
            /\ unlogin_users'[f] = unlogin_users[f]
      /\ \A c \in Accepted : sfd'[c] = sfd[c]
      /\ IOOwns'
  BY <1>1, AcceptKeeps
<1>3. ListsFresh'
  <2>1. ASSUME NEW c \in unlogin_events' PROVE unlogin_users'[sfd'[c]] = c
    <3>1. PICK f \in Ready(epio) \ Strays : c = unlogin_users[f]
      BY DEF epoll_one, get_unlogin_user
    <3>2. f \in Fds /\ c # NoConn /\ openfd[f] # NoConn
      BY <3>1 DEF Ready, Readable, Strays, get_unlogin_user, TypeOK, NetTypeOK
    <3>3. openfd[f] = c /\ sfd[c] = f /\ c \in Accepted
      BY <3>1, <3>2 DEF IOOwns, TypeOK, NetTypeOK
    <3> QED BY <1>2, <3>1, <3>2, <3>3
  <2>2. ASSUME NEW i \in DOMAIN unlogin_reads PROVE io_rd[unlogin_reads[i]] = <<>>
    BY DEF epoll_one, ListsFresh
  <2> QED BY <2>1, <2>2 DEF epoll_one, ListsFresh
<1>4. FramesKnown'
  BY DEF epoll_one, FramesKnown
<1>5. QueuesOwn'
  <2> DEFINE n == [w \in Workers |-> 0]
  <2>1. ASSUME NEW w \in Workers, NEW i \in Connects(w)'
        PROVE  i \in Nat /\ i + n[w] \in Connects(w) /\ Queue(w)'[i] = Queue(w)[i + n[w]]
    BY EpollOneQueues
  <2>2. \A w \in Workers : w_pc'[w] # "connect" => w_evs'[w] = <<>>
    BY DEF epoll_one, workVars, QueuesOwn
  <2>3. n \in [Workers -> Nat] /\ ep' = ep
    BY DEF epoll_one
  <2> HIDE DEF n
  <2> QED BY <1>2, <2>1, <2>2, <2>3, QueuesKept
<1>6. WatchersOwn'
  <2>1. ASSUME NEW w \in Workers, NEW f \in ep[w]
        PROVE  f \in Fds /\ openfd[f] # NoConn
    BY DEF TypeOK, NetTypeOK, WatchersOwn
  <2> QED BY <1>2, <2>1 DEF epoll_one, workVars, WatchersOwn
<1>7. UsersOwn'
  <2>1. UNCHANGED <<ep, workVars, logic>>
    BY DEF epoll_one
  <2>2. ASSUME NEW w \in Workers, NEW c \in epev_users[w]
        PROVE  sfd'[c] = sfd[c] /\ sfd[c] \in Fds /\ (openfd[sfd[c]] = c => openfd'[sfd[c]] = c)
    BY <1>2, AcceptedHas, WorkerHas
  <2> QED BY <1>2, <2>1, <2>2, WorkerHas DEF workVars, UsersOwn
<1> QED BY <1>2, <1>3, <1>4, <1>5, <1>6, <1>7

(* What is read from a socket was sent by the peer of the connection the   *)
(* number denotes.                                                         *)
LEMMA ReadFramesSaid ==
  ASSUME TypeOK, NEW f \in Fds, NEW i \in DOMAIN ReadFrames(f)
  PROVE  /\ openfd[f] \in Conns
         /\ \E j \in DOMAIN said[openfd[f]] : ReadFrames(f)[i] = said[openfd[f]][j]
<1> DEFINE c == openfd[f]
<1>1. c \in Conns /\ ReadFrames(f) = Unread(c)
  BY DEF ReadFrames, TypeOK, NetTypeOK, Accepted
<1>2. said[c] \in Seq(Msg) /\ got[c] \in Nat
  BY <1>1 DEF TypeOK, NetTypeOK
<1> DEFINE a == got[c] + 1
           b == Len(said[c])
<1>3. a \in Nat \ {0} /\ b \in Nat /\ DOMAIN said[c] = 1 .. b
  BY <1>2, LenProperties
<1>4. \A k \in a .. b : said[c][k] \in Msg
  BY <1>2, <1>3
<1>5. /\ Len(Unread(c)) = IF a <= b THEN b - a + 1 ELSE 0
      /\ \A k \in 1 .. b - a + 1 : Unread(c)[k] = said[c][a + k - 1]
      /\ Unread(c) \in Seq(Msg)
  <2>1. Unread(c) = SubSeq(said[c], a, b)
    BY DEF Unread
  <2> HIDE DEF a, b, c
  <2> QED BY <1>2, <1>3, <1>4, <2>1, SubSeqProperties
<1>6. i \in 1 .. Len(Unread(c))
  BY <1>1, <1>5, LenProperties
<1> HIDE DEF a, b
<1>7. i \in 1 .. b - a + 1 /\ a + i - 1 \in 1 .. b
  BY <1>3, <1>5, <1>6
<1> QED BY <1>1, <1>3, <1>5, <1>7

LEMMA HandlerDataOwn == ASSUME TypeOK, Own, handler_data PROVE Own'
<1> USE DEF Own
<1> DEFINE bad == {c \in unlogin_events : Failed(c)}
           badfds == {sfd[c] : c \in bad}
<1>1. /\ UNCHANGED <<said, sfd, io_idx, queueVars, workVars>>
      /\ io_pc = "data" /\ io_pc' = "msgs" /\ unlogin_events' = {}
      /\ ClosedFds(badfds) /\ unlogin_users' = Without(badfds)
  BY DEF handler_data, on_conn_offline_all
<1>2. ASSUME NEW c \in unlogin_events
      PROVE  /\ c \in Accepted /\ c \in Conns /\ sfd[c] \in Fds /\ sfd[c] \in epio
             /\ unlogin_users[sfd[c]] = c /\ openfd[sfd[c]] = c
  <2>1. c \in Accepted
    BY DEF TypeOK, IOTypeOK
  <2> QED BY <2>1, AcceptedHas DEF ListsFresh, IOOwns
<1>3. \A f \in badfds : f \in Fds /\ f \in epio
  BY <1>2
<1>4. IOOwns'
  BY <1>1, <1>3, ClosedIO
<1>5. QueuesOwn' /\ WatchersOwn' /\ UsersOwn'
  <2> HIDE DEF badfds
  <2> QED BY <1>1, <1>3, ClosedQueues, ClosedWatchers, ClosedUsers
             DEF queueVars, workVars
<1>6. ListsFresh'
  <2>1. PICK s \in Orders(unlogin_events \ bad) : unlogin_reads' = unlogin_reads \o s
    BY DEF handler_data
  <2>2. s \in Seq(unlogin_events) /\ unlogin_reads \in Seq(Accepted)
    <3>1. /\ unlogin_events \ bad \subseteq Conns
          /\ unlogin_events \ bad \subseteq unlogin_events
      BY <1>2
    <3>2. IsFiniteSet(unlogin_events \ bad)
      BY <3>1, FS_Subset, GateAssumption
    <3>3. s \in Seq(unlogin_events \ bad)
      BY <3>2, OrdersType
    <3> QED BY <3>1, <3>3 DEF TypeOK, IOTypeOK
  <2>3. ASSUME NEW i \in DOMAIN unlogin_reads',
               io_rd'[unlogin_reads'[i]] # <<>>
        PROVE  /\ i > io_idx'
               /\ \/ unlogin_users'[sfd'[unlogin_reads'[i]]] = unlogin_reads'[i]
                  \/ openfd'[sfd'[unlogin_reads'[i]]] = NoConn
    <3> DEFINE c == unlogin_reads'[i]
    <3>1. /\ i \in 1 .. Len(unlogin_reads) + Len(s)
          /\ c = IF i <= Len(unlogin_reads) THEN unlogin_reads[i]
                                            ELSE s[i - Len(unlogin_reads)]
          /\ Len(unlogin_reads) \in Nat /\ Len(s) \in Nat
      <4>1. /\ unlogin_events \subseteq Accepted
            /\ s \in Seq(Accepted)
        BY <1>2, <2>2
      <4> QED BY <2>1, <2>2, <4>1, ConcatProperties, LenProperties
    <3>2. i > io_idx'
      BY <1>1, <3>1 DEF ListsFresh
    <3>3. c \in unlogin_events
      <4>1. CASE i <= Len(unlogin_reads)
        <5>1. i \in DOMAIN unlogin_reads /\ c = unlogin_reads[i]
          BY <2>2, <3>1, <4>1, LenProperties
        <5>2. c \in Conns /\ io_rd[c] = <<>>
          BY <1>1, <2>2, <5>1 DEF ListsFresh, Accepted
        <5> QED BY <2>3, <5>2 DEF handler_data
      <4>2. CASE ~(i <= Len(unlogin_reads))
        <5>1. i - Len(unlogin_reads) \in 1 .. Len(s)
          BY <3>1, <4>2
        <5> QED BY <2>2, <3>1, <4>2, <5>1, ElementOfSeq
      <4> QED BY <4>1, <4>2
    <3> HIDE DEF c, badfds
    <3>4. CASE sfd[c] \in badfds
      BY <1>1, <1>2, <3>2, <3>3, <3>4 DEF ClosedFds, c
    <3>5. CASE sfd[c] \notin badfds
      BY <1>1, <1>2, <3>2, <3>3, <3>5 DEF Without, c
    <3> QED BY <3>4, <3>5
  <2> QED BY <1>1, <2>3 DEF ListsFresh
<1>7. FramesKnown'
  <2>1. ASSUME NEW c \in Conns, NEW i \in DOMAIN io_rd'[c] PROVE CanGen(io_rd'[c][i])
    <3>1. CASE c \notin unlogin_events
      BY <3>1 DEF handler_data, FramesKnown
    <3>2. CASE c \in unlogin_events
      <4> DEFINE r == ReadFrames(sfd[c])
      <4>1. io_rd'[c] = io_rd[c] \o r /\ io_rd[c] \in Seq(Msg) /\ r \in Seq(Msg)
        BY <1>2, <3>2, ReadFramesType DEF handler_data, TypeOK, IOTypeOK
      <4>2. \A j \in DOMAIN r : CanGen(r[j])
        BY <1>2, <3>2, ReadFramesSaid DEF FramesKnown
      <4> HIDE DEF r
      <4>3. /\ i \in 1 .. Len(io_rd[c]) + Len(r)
            /\ io_rd'[c][i] = IF i <= Len(io_rd[c]) THEN io_rd[c][i] ELSE r[i - Len(io_rd[c])]
            /\ Len(io_rd[c]) \in Nat /\ Len(r) \in Nat
            /\ DOMAIN io_rd[c] = 1 .. Len(io_rd[c]) /\ DOMAIN r = 1 .. Len(r)
        BY <4>1, ConcatProperties, LenProperties
      <4>4. CASE i <= Len(io_rd[c])
        BY <4>3, <4>4 DEF FramesKnown
      <4>5. CASE ~(i <= Len(io_rd[c]))
        <5>1. i - Len(io_rd[c]) \in DOMAIN r
          BY <4>3, <4>5
        <5> QED BY <4>2, <4>3, <4>5, <5>1
      <4> QED BY <4>4, <4>5
    <3> QED BY <3>1, <3>2
  <2> QED BY <1>1, <2>1 DEF FramesKnown
<1> QED BY <1>4, <1>5, <1>6, <1>7

(* Of frames that are all known none is left behind, and the first that is *)
(* returned is the first that was there.                                   *)
LEMMA AllParsedAtOnce ==
  ASSUME NEW b \in Seq(Msg), \A i \in DOMAIN b : CanGen(b[i]), NEW k \in Stops(b)
  PROVE  /\ Unparsed(b, k) = <<>>
         /\ Parsed(b, k) # <<>> => 1 \in DOMAIN b /\ Parsed(b, k)[1] = b[1]
<1>1. Len(b) \in Nat /\ DOMAIN b = 1 .. Len(b)
  BY LenProperties
<1>2. k = Len(b) + 1
  BY <1>1 DEF Stops
<1>3. Unparsed(b, k) = <<>>
  BY <1>1, <1>2 DEF Unparsed
<1>4. Parsed(b, k) = SubSeq(b, 1, Len(b))
  BY <1>1, <1>2 DEF Parsed
<1>5. \A i \in 1 .. Len(b) : b[i] \in Msg
  BY <1>1, ElementOfSeq
<1>6. CASE Len(b) = 0
  BY <1>3, <1>4, <1>6
<1>7. CASE Len(b) # 0
  <2>1. \A i \in 1 .. Len(b) - 1 + 1 : SubSeq(b, 1, Len(b))[i] = b[1 + i - 1]
    BY <1>1, <1>5, SubSeqProperties
  <2>2. 1 \in 1 .. Len(b) - 1 + 1 /\ 1 + 1 - 1 = 1 /\ 1 \in DOMAIN b
    BY <1>1, <1>7
  <2> QED BY <1>3, <1>4, <2>1, <2>2
<1> QED BY <1>6, <1>7

(* With the frames of one user parsed, and its number as it was or closed, *)
(* the others behind it in the list can be as before.                      *)
LEMMA ListsParsed ==
  ASSUME TypeOK, ListsFresh, io_pc = "msgs",
         UNCHANGED <<sfd, io_pc, unlogin_events, unlogin_reads>>,
         NEW i \in NextToParse(unlogin_reads, io_rd, io_idx), io_idx' = i,
         io_rd'[unlogin_reads[i]] = <<>>,
         \A d \in Conns : d # unlogin_reads[i] => io_rd'[d] = io_rd[d],
         \A f \in Fds : \/ /\ unlogin_users'[f] = unlogin_users[f]
                           /\ openfd'[f] = openfd[f]
                        \/ openfd'[f] = NoConn
  PROVE  ListsFresh'
<1>1. ASSUME NEW j \in DOMAIN unlogin_reads, io_rd'[unlogin_reads[j]] # <<>>
      PROVE  /\ j > i
             /\ \/ unlogin_users'[sfd[unlogin_reads[j]]] = unlogin_reads[j]
                \/ openfd'[sfd[unlogin_reads[j]]] = NoConn
  <2> DEFINE d == unlogin_reads[j]
  <2>1. unlogin_reads \in Seq(Accepted) /\ io_idx \in Nat
    BY DEF TypeOK, IOTypeOK
  <2>2. d \in Accepted /\ j \in 1 .. Len(unlogin_reads)
    BY <2>1, LenProperties
  <2>3. d \in Conns /\ sfd[d] \in Fds
    BY <2>2, AcceptedHas
  <2>4. d # unlogin_reads[i] /\ io_rd[d] # <<>>
    BY <1>1, <2>3
  <2>5. /\ j > io_idx
        /\ unlogin_users[sfd[d]] = d \/ openfd[sfd[d]] = NoConn
    BY <2>4 DEF ListsFresh
  <2>6. j > i
    <3>1. /\ i \in io_idx + 1 .. Len(unlogin_reads)
          /\ \A k \in io_idx + 1 .. i - 1 : io_rd[unlogin_reads[k]] = <<>>
      BY DEF NextToParse, HasFrames
    <3>2. j # i /\ j \notin io_idx + 1 .. i - 1
      BY <2>4, <3>1
    <3> HIDE DEF d
    <3> QED BY <2>1, <2>2, <2>5, <3>1, <3>2
  <2> HIDE DEF d
  <2> QED BY <2>3, <2>5, <2>6 DEF d
<1> QED BY <1>1 DEF ListsFresh

LEMMA UnloginMsgOwn ==
  ASSUME TypeOK, Own, NEW i \in DOMAIN unlogin_reads, handler_unlogin_msg(i)
  PROVE  Own'
<1> USE DEF Own
<1> DEFINE c == unlogin_reads[i]
<1>1. /\ UNCHANGED <<said, sfd, io_pc, unlogin_events, unlogin_reads, queueVars,
                     workVars>>
      /\ io_idx' = i /\ io_pc = "msgs"
      /\ i \in NextToParse(unlogin_reads, io_rd, io_idx)
  BY DEF handler_unlogin_msg
<1>2. unlogin_reads \in Seq(Accepted) /\ DOMAIN unlogin_reads = 1 .. Len(unlogin_reads)
  BY LenProperties DEF TypeOK, IOTypeOK
<1>3. /\ c \in Accepted /\ c \in Conns /\ c # NoConn /\ sfd[c] \in Fds
      /\ io_rd[c] \in Seq(Msg)
  <2>1. c \in Accepted
    BY <1>2
  <2> QED BY <2>1, AcceptedHas DEF TypeOK, IOTypeOK
<1>4. unlogin_users[sfd[c]] = c \/ openfd[sfd[c]] = NoConn
  BY <1>1 DEF ListsFresh, NextToParse, HasFrames
<1>5. /\ io_rd' = [io_rd EXCEPT ![c] = <<>>]
      /\ \/ UNCHANGED <<openfd, epio, ep, unlogin_users>>
         \/ kick_out(c)
  <2>1. PICK k \in Stops(io_rd[c]) :
          LET msgs == Parsed(io_rd[c], k)
              left == Unparsed(io_rd[c], k) IN
          /\ io_rd' = [io_rd EXCEPT ![c] = left]
          /\ \/ /\ msgs = <<>>
                /\ UNCHANGED <<openfd, epio, ep, unlogin_users, io_uid, rsp_msgs>>
             \/ Acceptable(msgs, left) /\ Dispatch(c, msgs[1])
             \/ msgs # <<>> /\ ~Acceptable(msgs, left) /\ kick_out(c)
    BY DEF handler_unlogin_msg
  <2>2. Unparsed(io_rd[c], k) = <<>>
    BY <1>3, AllParsedAtOnce DEF FramesKnown
  <2> QED BY <2>1, <2>2 DEF Dispatch
<1>6. /\ io_rd'[c] = <<>> /\ \A d \in Conns : d # c => io_rd'[d] = io_rd[d]
  BY <1>3, <1>5 DEF TypeOK, IOTypeOK
<1>7. FramesKnown'
  BY <1>1, <1>6 DEF FramesKnown
<1> DEFINE F == {sfd[c]}
<1>8. CASE UNCHANGED <<openfd, epio, ep, unlogin_users>>
  <2>1. IOOwns'
    BY <1>1, <1>8 DEF IOOwns
  <2>2. QueuesOwn' /\ WatchersOwn' /\ UsersOwn'
    BY <1>1, <1>8, QueuesSame, WorkersSame DEF queueVars, workVars
  <2> QED BY <1>1, <1>6, <1>7, <1>8, <2>1, <2>2, ListsParsed
<1>9. CASE kick_out(c)
  <2>1. ClosedFds(F) /\ unlogin_users' = Without(F)
    BY <1>9 DEF kick_out
  <2>2. \A f \in F : openfd[f] = NoConn \/ f \in epio
    BY <1>3, <1>4 DEF IOOwns
  <2>3. QueuesOwn' /\ WatchersOwn' /\ UsersOwn' /\ IOOwns'
    <3> HIDE DEF F
    <3> QED BY <1>1, <2>1, <2>2, ClosedQueues, ClosedWatchers, ClosedUsers, ClosedIO
               DEF queueVars, workVars
  <2>4. \A f \in Fds : \/ /\ unlogin_users'[f] = unlogin_users[f]
                          /\ openfd'[f] = openfd[f]
                       \/ openfd'[f] = NoConn
    BY <2>1 DEF ClosedFds, Without
  <2> QED BY <1>1, <1>6, <1>7, <2>3, <2>4, ListsParsed
<1> QED BY <1>5, <1>8, <1>9

(* A set of numbers has a least one.                                       *)
LEMMA LeastOf ==
  ASSUME NEW T, T \subseteq Nat, T # {}
  PROVE  \E x \in T : \A y \in T : x <= y
<1> DEFINE R == {ss \in Nat \X Nat : ss[1] < ss[2]}
<1>1. IsWellFoundedOn(R, Nat)
  BY NatLessThanWellFounded DEF OpToRel
<1> HIDE DEF R
<1>2. PICK x \in T : \A y \in T : <<y, x>> \notin R
  BY <1>1, WFMin
<1>3. \A y \in T : ~(y < x)
  BY <1>2 DEF R
<1> QED BY <1>2, <1>3

(* Once all is parsed, no user in the list has a frame left.               *)
LEMMA NothingLeft ==
  ASSUME TypeOK, ListsFresh, AllParsed, NEW i \in DOMAIN unlogin_reads
  PROVE  io_rd[unlogin_reads[i]] = <<>>
<1> SUFFICES ASSUME io_rd[unlogin_reads[i]] # <<>> PROVE FALSE
  OBVIOUS
<1> DEFINE T == {j \in io_idx + 1 .. Len(unlogin_reads) : HasFrames(unlogin_reads, io_rd, j)}
<1>1. /\ io_idx \in Nat /\ Len(unlogin_reads) \in Nat
      /\ i \in 1 .. Len(unlogin_reads) /\ i > io_idx
  BY LenProperties DEF TypeOK, IOTypeOK, ListsFresh
<1>2. T # {} /\ T \subseteq Nat
  BY <1>1 DEF HasFrames
<1>3. PICK j \in T : \A k \in T : j <= k
  <2> HIDE DEF T
  <2> QED BY <1>2, LeastOf
<1>4. \A k \in io_idx + 1 .. j - 1 : ~HasFrames(unlogin_reads, io_rd, k)
  BY <1>1, <1>3
<1>5. j \in NextToParse(unlogin_reads, io_rd, io_idx)
  BY <1>3, <1>4 DEF NextToParse
<1> QED BY <1>5 DEF AllParsed

(* Handing a user over puts one connect event behind all the others.       *)
LEMMA HandOverAppends ==
  ASSUME TypeOK, NEW w \in Workers, NEW e \in Event, UNCHANGED <<w_evs, ioevs_in>>,
         events_io' = [events_io EXCEPT ![w] = Append(@, e)],
         NEW v \in Workers, NEW i \in Connects(v)'
  PROVE  \/ v = w /\ i = Len(Queue(w)) + 1 /\ Queue(v)'[i] = e
         \/ i \in Connects(v) /\ Queue(v)'[i] = Queue(v)[i]
<1> DEFINE L == Len(Queue(w))
<1>1. CASE v # w
  <2>1. events_io'[v] = events_io[v]
    BY <1>1 DEF TypeOK, WorkerTypeOK
  <2>2. Queue(v)' = Queue(v) /\ Connects(v)' = Connects(v)
    BY <2>1 DEF Queue, Connects
  <2> QED BY <2>2
<1>2. CASE v = w
  <2>1. events_io[w] \in Seq(Event) /\ <<e>> \in Seq(Event) /\ Queue(w) \in Seq(Event)
    BY QueueType
  <2>2. events_io'[w] = events_io[w] \o <<e>>
    BY <2>1, AppendIsConcat DEF TypeOK, WorkerTypeOK
  <2>3. Queue(w)' = Queue(w) \o <<e>>
    BY <2>1, <2>2, QueueGrows
  <2>4. Len(<<e>>) = 1 /\ <<e>>[1] = e /\ L \in Nat /\ DOMAIN Queue(w) = 1 .. L
    BY <2>1, LenProperties
  <2>5. /\ DOMAIN Queue(w)' = 1 .. L + 1
        /\ \A j \in 1 .. L + 1 : Queue(w)'[j] = IF j <= L THEN Queue(w)[j] ELSE <<e>>[j - L]
    BY <2>1, <2>3, <2>4, ConcatProperties, LenProperties
  <2> HIDE DEF L
  <2>6. i \in 1 .. L + 1 /\ Queue(w)'[i].what = "connect"
    BY <1>2, <2>5 DEF Connects
  <2>7. CASE i = L + 1
    BY <1>2, <2>4, <2>5, <2>7 DEF L
  <2>8. CASE i # L + 1
    <3>1. i \in 1 .. L /\ i <= L
      BY <2>4, <2>6, <2>8
    <3> QED BY <1>2, <2>4, <2>5, <2>6, <3>1 DEF Connects
  <2> QED BY <2>7, <2>8
<1> QED BY <1>1, <1>2

LEMMA ConnectEventType ==
  ASSUME TypeOK, NEW c \in Accepted, NEW f \in Fds
  PROVE  ConnectEvent(c, f) \in Event
<1>1. io_uid[c] \in Uids \cup {0, -1}
  BY AcceptedHas DEF TypeOK, IOTypeOK
<1> QED BY <1>1 DEF ConnectEvent, Event

(* A user that is handed over is in one queue, once.                       *)
LEMMA HandOverQueues ==
  ASSUME TypeOK, IOOwns, QueuesOwn, WatchersOwn, NEW w \in Workers, NEW f \in Fds,
         unlogin_users[f] # NoConn, HandOver(unlogin_users[f], f, w),
         UNCHANGED <<w_evs, ioevs_in, w_pc, openfd, ep>>
  PROVE  QueuesOwn'
<1> DEFINE c == unlogin_users[f]
           e == ConnectEvent(c, f)
           L == Len(Queue(w))
<1>1. c \in Accepted /\ openfd[f] = c /\ f \in epio /\ \A v \in Workers : f \notin ep[v]
  BY DEF IOOwns, WatchersOwn, TypeOK, IOTypeOK
<1>2. e \in Event /\ e.fd = f /\ e.conn = c
  BY <1>1, ConnectEventType DEF ConnectEvent
<1>3. events_io' = [events_io EXCEPT ![w] = Append(@, e)] /\ epio' = epio \ {f}
  BY DEF HandOver
<1> HIDE DEF e, c, L
<1>4. ASSUME NEW v \in Workers, NEW i \in Connects(v)'
      PROVE  \/ v = w /\ i = L + 1 /\ Queue(v)'[i] = e
             \/ i \in Connects(v) /\ Queue(v)'[i] = Queue(v)[i] /\ Queue(v)[i].fd # f
  <2>1. \/ v = w /\ i = L + 1 /\ Queue(v)'[i] = e
        \/ i \in Connects(v) /\ Queue(v)'[i] = Queue(v)[i]
    BY <1>2, <1>3, HandOverAppends DEF L
  <2>2. i \in Connects(v) => Queue(v)[i].fd # f
    BY <1>1 DEF QueuesOwn
  <2> QED BY <2>1, <2>2
<1>5. ASSUME NEW v \in Workers, NEW i \in Connects(v)'
      PROVE  /\ openfd'[Queue(v)'[i].fd] = Queue(v)'[i].conn
             /\ Queue(v)'[i].fd \notin epio'
             /\ \A u \in Workers : Queue(v)'[i].fd \notin ep'[u]
  <2>1. CASE Queue(v)'[i] = e
    BY <1>1, <1>2, <1>3, <2>1
  <2>2. CASE i \in Connects(v) /\ Queue(v)'[i] = Queue(v)[i]
    BY <1>3, <2>2 DEF QueuesOwn
  <2> QED BY <1>4, <2>1, <2>2
<1>6. ASSUME NEW u \in Workers, NEW v \in Workers,
             NEW i \in Connects(u)', NEW j \in Connects(v)',
             Queue(u)'[i].fd = Queue(v)'[j].fd
      PROVE  u = v /\ i = j
  <2>1. CASE Queue(u)'[i].fd = f
    <3>1. Queue(v)'[j].fd = f
      BY <1>6, <2>1
    <3>2. u = w /\ i = L + 1
      BY <1>4, <2>1
    <3>3. v = w /\ j = L + 1
      BY <1>4, <3>1
    <3> QED BY <3>2, <3>3
  <2>2. CASE Queue(u)'[i].fd # f
    <3>1. /\ i \in Connects(u) /\ Queue(u)'[i] = Queue(u)[i]
          /\ j \in Connects(v) /\ Queue(v)'[j] = Queue(v)[j]
      BY <1>2, <1>4, <1>6, <2>2
    <3> QED BY <1>6, <3>1 DEF QueuesOwn
  <2> QED BY <2>1, <2>2
<1> QED BY <1>5, <1>6 DEF QueuesOwn

(* A verified Logic's number is the only one its worker watches.           *)
LEMMA VerifyedOwn ==
  ASSUME TypeOK, IOOwns, QueuesOwn, WatchersOwn, UsersOwn, NEW f \in Fds,
         unlogin_users[f] # NoConn, on_logic_verifyed(unlogin_users[f], f),
         UNCHANGED <<w_evs, ioevs_in, sfd, openfd, closing, epev_users>>
  PROVE  QueuesOwn' /\ WatchersOwn' /\ UsersOwn'
<1> DEFINE c == unlogin_users[f]
<1>1. /\ openfd[f] = c /\ f \in epio /\ sfd[c] = f /\ \A v \in Workers : f \notin ep[v]
  BY DEF IOOwns, WatchersOwn
<1>2. epio' = epio \ {f} /\ UNCHANGED events_io
  BY DEF on_logic_verifyed
<1>3. CASE UNCHANGED <<logic, ep, users, w_pc>>
  <2>1. QueuesOwn'
    BY <1>2, <1>3, QueuesSame
  <2>2. WatchersOwn'
    BY <1>2, <1>3 DEF WatchersOwn
  <2>3. UsersOwn'
    BY <1>3 DEF UsersOwn
  <2> QED BY <2>1, <2>2, <2>3
<1>4. ASSUME NEW w \in Least(Workers \ Started), NewWorker(c, f, w)
      PROVE  QueuesOwn' /\ WatchersOwn' /\ UsersOwn'
  <2>1. /\ w \in Workers /\ logic[w] = NoConn
    BY DEF Least, Started
  <2>2. w_pc[w] = "none" /\ ep[w] = {} /\ closing[w] = NoConn /\ epev_users[w] = {}
    BY <2>1 DEF UsersOwn
  <2>3. /\ logic'[w] = c /\ ep'[w] = {f} /\ w_pc'[w] = "ioevent"
        /\ \A g \in Fds : users'[w].sock[g] = IF g = f THEN c ELSE NoConn
        /\ \A v \in Workers \ {w} : /\ logic'[v] = logic[v] /\ ep'[v] = ep[v]
                                     /\ w_pc'[v] = w_pc[v] /\ users'[v] = users[v]
    BY <1>4, <2>1 DEF NewWorker, add_conn, NoUsers, PutAbsent, TypeOK, NetTypeOK,
                      WorkerTypeOK
  <2>4. QueuesOwn'
    <3>1. \A v \in Workers : w_pc'[v] # "connect" => w_pc[v] # "connect"
      BY <2>2, <2>3
    <3>2. \A g \in Fds : g \notin epio /\ (\A v \in Workers : g \notin ep[v])
             => g \notin epio' /\ \A v \in Workers : g \notin ep'[v]
      BY <1>1, <1>2, <2>3
    <3> HIDE DEF c
    <3> QED BY <1>2, <3>1, <3>2, QueuesSame
  <2>5. WatchersOwn'
    <3>1. ASSUME NEW v \in Workers, NEW g \in ep'[v]
          PROVE  /\ openfd'[g] # NoConn /\ g \notin epio'
                 /\ users'[v].sock[g] = openfd'[g]
                 /\ \A u \in Workers : g \in ep'[u] => u = v
      <4>1. CASE v = w
        <5>1. g = f
          BY <2>3, <4>1
        <5>2. \A u \in Workers : f \in ep'[u] => u = w
          BY <1>1, <2>3
        <5> QED BY <1>1, <1>2, <2>3, <4>1, <5>1, <5>2
      <4>2. CASE v # w
        <5>1. g \in ep[v] /\ g # f
          BY <1>1, <2>3, <4>2
        <5> QED BY <1>2, <2>3, <4>2, <5>1 DEF WatchersOwn
      <4> QED BY <4>1, <4>2
    <3> QED BY <3>1 DEF WatchersOwn
  <2>6. UsersOwn'
    <3>1. ASSUME NEW v \in Workers
          PROVE  /\ logic'[v] = NoConn => w_pc'[v] = "none" /\ ep'[v] = {}
                 /\ closing[v] # NoConn => w_pc'[v] = "epevent" /\ sfd[closing[v]] \notin ep'[v]
                 /\ \A g \in Fds : users'[v].sock[g] # NoConn =>
                      /\ sfd[users'[v].sock[g]] = g
                      /\ g \in ep'[v] \/ users'[v].sock[g] = closing[v]
                 /\ \A d \in epev_users[v] :
                      w_pc'[v] = "epevent" /\ sfd[d] \in ep'[v] /\ openfd[sfd[d]] = d
      <4>1. CASE v = w
        BY <1>1, <2>2, <2>3, <4>1
      <4>2. CASE v # w
        BY <2>3, <4>2 DEF UsersOwn
      <4> QED BY <4>1, <4>2
    <3> QED BY <3>1 DEF UsersOwn
  <2> QED BY <2>4, <2>5, <2>6
<1> QED BY <1>3, <1>4 DEF on_logic_verifyed

LEMMA HandlerReplyOwn == ASSUME TypeOK, Own, handler_reply PROVE Own'
<1> USE DEF Own
<1> DEFINE f == Head(rsp_msgs).fd
           c == unlogin_users[f]
<1>1. /\ UNCHANGED <<said, sfd, openfd, io_pc, unlogin_events, unlogin_reads, io_idx,
                     io_rd, ioevs_in, w_evs, epev_users, closing>>
      /\ io_pc = "msgs" /\ AllParsed /\ rsp_msgs # <<>>
  BY DEF handler_reply
<1>2. f \in Fds
  <2>1. Head(rsp_msgs) \in Rsp
    BY <1>1, HeadTailProperties DEF TypeOK, IOTypeOK
  <2>2. \A r \in Rsp : r.fd \in Fds
    BY DEF Rsp
  <2> QED BY <2>1, <2>2
<1>3. ListsFresh' /\ FramesKnown'
  <2>1. \A i \in DOMAIN unlogin_reads : io_rd[unlogin_reads[i]] = <<>>
    BY <1>1, NothingLeft
  <2> QED BY <1>1, <2>1 DEF ListsFresh, FramesKnown
<1>4. \/ no_promotion
      \/ c # NoConn /\ on_logic_verifyed(c, f)
      \/ c # NoConn /\ on_user_logined(c, f)
  BY DEF handler_reply
<1> HIDE DEF f, c
<1> SUFFICES IOOwns' /\ QueuesOwn' /\ WatchersOwn' /\ UsersOwn'
  BY <1>3
<1>5. CASE no_promotion
  BY <1>1, <1>5, QueuesSame, WorkersSame DEF no_promotion, IOOwns
<1>6. CASE c # NoConn /\ on_logic_verifyed(c, f)
  <2>1. QueuesOwn' /\ WatchersOwn' /\ UsersOwn'
    BY <1>1, <1>2, <1>6, VerifyedOwn DEF c
  <2>2. IOOwns'
    BY <1>1, <1>2, <1>6 DEF on_logic_verifyed, Without, IOOwns, TypeOK, NetTypeOK
  <2> QED BY <2>1, <2>2
<1>7. CASE c # NoConn /\ on_user_logined(c, f)
  <2>1. /\ unlogin_users' = Without({f})
        /\ epio' \in {epio, epio \ {f}}
        /\ UNCHANGED <<logic, ep, users, w_pc>>
    BY <1>7 DEF on_user_logined, HandOver
  <2>2. IOOwns'
    BY <1>1, <1>2, <2>1 DEF Without, IOOwns, TypeOK, NetTypeOK
  <2>3. WatchersOwn' /\ UsersOwn'
    BY <1>1, <2>1 DEF WatchersOwn, UsersOwn
  <2>4. QueuesOwn'
    <3>1. ASSUME NEW w \in get_worker(f), HandOver(c, f, w) PROVE QueuesOwn'
      <4>1. w \in Workers
        BY DEF get_worker, Least, Having, Idlest, Started
      <4> QED BY <1>1, <1>2, <1>7, <2>1, <3>1, <4>1, HandOverQueues DEF c
    <3>2. CASE UNCHANGED <<events_io, epio>>
      BY <1>1, <2>1, <3>2, QueuesSame
    <3> QED BY <1>7, <3>1, <3>2 DEF on_user_logined
  <2> QED BY <2>2, <2>3, <2>4
<1> QED BY <1>4, <1>5, <1>6, <1>7

(* What the IO thread moves to the worker's side stays in the queue.       *)
LEMMA NotifyQueues ==
  ASSUME TypeOK, notify_workers, NEW w \in Workers
  PROVE  Queue(w)' = Queue(w)
<1>1. /\ w_evs'[w] = w_evs[w] /\ events_io'[w] = <<>>
      /\ ioevs_in'[w] = ioevs_in[w] \o events_io[w]
  BY DEF notify_workers, move_io_event_to_in, workVars
<1>2. w_evs[w] \in Seq(Event) /\ ioevs_in[w] \in Seq(Event) /\ events_io[w] \in Seq(Event)
  BY QueueType
<1>3. w_evs[w] \o (ioevs_in[w] \o events_io[w]) = Queue(w)
  BY <1>2, Assoc, Zenon DEF Queue
<1>4. Queue(w) \o <<>> = Queue(w)
  BY QueueType, ConcatEmptySeq
<1> QED BY <1>1, <1>3, <1>4 DEF Queue

LEMMA NotifyWorkersOwn == ASSUME TypeOK, Own, notify_workers PROVE Own'
<1> USE DEF Own
<1>1. /\ UNCHANGED <<said, sfd, openfd, epio, ep, unlogin_users, unlogin_events,
                     unlogin_reads, io_rd, logic, workVars>>
      /\ io_pc = "msgs" /\ AllParsed /\ io_idx' = 0
  BY DEF notify_workers, netVars
<1>2. IOOwns' /\ FramesKnown'
  BY <1>1 DEF IOOwns, FramesKnown
<1>3. ListsFresh'
  <2>1. \A i \in DOMAIN unlogin_reads : io_rd[unlogin_reads[i]] = <<>>
    BY <1>1, NothingLeft
  <2> QED BY <1>1, <2>1 DEF ListsFresh
<1>4. WatchersOwn' /\ UsersOwn'
  BY <1>1, WorkersSame DEF workVars
<1>5. QueuesOwn'
  <2>1. \A w \in Workers : Queue(w)' = Queue(w)
    BY NotifyQueues
  <2>2. \A w \in Workers : Connects(w)' = Connects(w)
    BY <2>1 DEF Connects
  <2> QED BY <1>1, <2>1, <2>2 DEF QueuesOwn, workVars
<1> QED BY <1>2, <1>3, <1>4, <1>5
-----------------------------------------------------------------------------
(* GateWorker.                                                             *)

(* What a worker's step leaves alone when it closes no number.             *)
LEMMA WorkerKeepsIO ==
  ASSUME TypeOK, IOOwns, ListsFresh, FramesKnown,
         UNCHANGED <<ioVars, said, sfd, openfd, epio>>
  PROVE  IOOwns' /\ ListsFresh' /\ FramesKnown'
BY DEF ioVars, IOOwns, ListsFresh, FramesKnown

(* And so does what the worker takes, its list being empty before.         *)
LEMMA TakeQueues ==
  ASSUME TypeOK, QueuesOwn, NEW w \in Workers, take_ioevents(w), NEW v \in Workers
  PROVE  Queue(v)' = Queue(v)
<1>1. /\ w_pc[w] = "ioevent" /\ events_io' = events_io
      /\ w_evs'[w] = ioevs_in[w] /\ ioevs_in'[w] = <<>>
      /\ \A u \in Workers \ {w} : w_evs'[u] = w_evs[u] /\ ioevs_in'[u] = ioevs_in[u]
  BY DEF take_ioevents, Goes, TypeOK, WorkerTypeOK
<1>2. CASE v = w
  <2>1. w_evs[w] = <<>> /\ ioevs_in[w] \in Seq(Event)
    BY <1>1, QueueType DEF QueuesOwn
  <2>2. ioevs_in[w] \o <<>> = ioevs_in[w] /\ <<>> \o ioevs_in[w] = ioevs_in[w]
    BY <2>1, ConcatEmptySeq
  <2> QED BY <1>1, <1>2, <2>1, <2>2 DEF Queue
<1>3. CASE v # w
  BY <1>1, <1>3 DEF Queue
<1> QED BY <1>2, <1>3

LEMMA TakeIoeventsOwn ==
  ASSUME TypeOK, Own, NEW w \in Workers, take_ioevents(w)
  PROVE  Own'
<1> USE DEF Own
<1>1. /\ UNCHANGED <<said, sfd, openfd, epio, ep, ioVars, users, epev_users, closing,
                     logic, events_io>>
      /\ w_pc[w] = "ioevent" /\ w_pc' = [w_pc EXCEPT ![w] = "connect"]
  BY DEF take_ioevents, Goes, netVars
<1>2. /\ w_pc'[w] = "connect" /\ \A v \in Workers \ {w} : w_pc'[v] = w_pc[v]
      /\ w_evs'[w] = ioevs_in[w] /\ ioevs_in'[w] = <<>>
      /\ \A v \in Workers \ {w} : w_evs'[v] = w_evs[v] /\ ioevs_in'[v] = ioevs_in[v]
  BY <1>1 DEF take_ioevents, TypeOK, WorkerTypeOK
<1>3. IOOwns' /\ ListsFresh' /\ FramesKnown'
  BY <1>1, WorkerKeepsIO
<1>4. WatchersOwn' /\ UsersOwn'
  BY <1>1, <1>2 DEF WatchersOwn, UsersOwn
<1>5. QueuesOwn'
  <2>1. \A v \in Workers : Queue(v)' = Queue(v)
    BY TakeQueues
  <2>2. \A v \in Workers : Connects(v)' = Connects(v)
    BY <2>1 DEF Connects
  <2> QED BY <1>1, <1>2, <2>1, <2>2 DEF QueuesOwn
<1> QED BY <1>3, <1>4, <1>5

(* The event a worker handles is the first of its queue.                   *)
LEMMA QueueHead ==
  ASSUME TypeOK, NEW w \in Workers, w_evs[w] # <<>>,
         w_evs'[w] = Tail(w_evs[w]), ioevs_in'[w] = ioevs_in[w],
         events_io'[w] = events_io[w]
  PROVE  /\ 1 \in DOMAIN Queue(w) /\ Queue(w)[1] = Head(w_evs[w])
         /\ \A i \in DOMAIN Queue(w)' : /\ i \in Nat \ {0} /\ i + 1 \in DOMAIN Queue(w)
                                        /\ Queue(w)'[i] = Queue(w)[i + 1]
         /\ \A i \in DOMAIN Queue(w) \ {1} : i - 1 \in DOMAIN Queue(w)'
<1> DEFINE s == w_evs[w]
           t == ioevs_in[w] \o events_io[w]
<1>1. /\ s \in Seq(Event) /\ ioevs_in[w] \in Seq(Event) /\ events_io[w] \in Seq(Event)
  BY QueueType
<1>2. t \in Seq(Event) /\ Tail(s) \in Seq(Event) /\ Len(Tail(s)) = Len(s) - 1
      /\ \A i \in 1 .. Len(Tail(s)) : Tail(s)[i] = s[i + 1]
  BY <1>1, ConcatProperties, HeadTailProperties
<1>3. Queue(w) = s \o t /\ Queue(w)' = Tail(s) \o t
  <2>1. Queue(w) = s \o t
    BY <1>1, Assoc, Zenon DEF Queue
  <2>2. (Tail(s) \o ioevs_in[w]) \o events_io[w] = Tail(s) \o t
    <3> DEFINE r == Tail(s)
               x == ioevs_in[w]
               y == events_io[w]
    <3>1. r \in Seq(Event) /\ x \in Seq(Event) /\ y \in Seq(Event)
      BY <1>1, <1>2
    <3> HIDE DEF r, x, y
    <3>2. \A u, v \in Seq(Event) : r \o (u \o v) = (r \o u) \o v
      BY <3>1, Assoc, Zenon
    <3>3. (r \o x) \o y = r \o (x \o y)
      BY <3>1, <3>2, Zenon
    <3> QED BY <3>3, Zenon DEF r, x, y
  <2> QED BY <2>1, <2>2 DEF Queue
<1>4. Head(w_evs[w]) = s[1] /\ s # <<>>
  BY <1>1, HeadTailProperties
<1> HIDE DEF s, t
<1>5. /\ DOMAIN Queue(w) = 1 .. Len(s) + Len(t) /\ Len(s) \in Nat \ {0} /\ Len(t) \in Nat
      /\ \A i \in 1 .. Len(s) + Len(t) :
           Queue(w)[i] = IF i <= Len(s) THEN s[i] ELSE t[i - Len(s)]
  <2>1. Len(s) # 0
    BY <1>1, <1>4, EmptySeq DEF s
  <2> QED BY <1>1, <1>2, <1>3, <2>1, ConcatProperties, LenProperties DEF s
<1>6. /\ DOMAIN Queue(w)' = 1 .. Len(s) - 1 + Len(t)
      /\ \A i \in 1 .. Len(s) - 1 + Len(t) :
           Queue(w)'[i] = IF i <= Len(s) - 1 THEN Tail(s)[i] ELSE t[i - (Len(s) - 1)]
  BY <1>2, <1>3, <1>5, ConcatProperties, LenProperties
<1>7. ASSUME NEW i \in DOMAIN Queue(w)'
      PROVE  /\ i \in Nat \ {0} /\ i + 1 \in DOMAIN Queue(w)
             /\ Queue(w)'[i] = Queue(w)[i + 1]
  <2>1. /\ i \in Nat \ {0} /\ i + 1 \in DOMAIN Queue(w)
        /\ i <= Len(s) - 1 <=> i + 1 <= Len(s)
        /\ i - (Len(s) - 1) = i + 1 - Len(s)
    BY <1>5, <1>6
  <2>2. CASE i <= Len(s) - 1
    <3>1. i \in 1 .. Len(Tail(s))
      BY <1>2, <2>1, <2>2
    <3> QED BY <1>2, <1>5, <1>6, <2>1, <2>2, <3>1
  <2>3. CASE ~(i <= Len(s) - 1)
    BY <1>5, <1>6, <2>1, <2>3
  <2> QED BY <2>1, <2>2, <2>3
<1>8. \A i \in DOMAIN Queue(w) \ {1} : i - 1 \in DOMAIN Queue(w)'
  BY <1>5, <1>6
<1> QED BY <1>4, <1>5, <1>7, <1>8

(* Handling it leaves the others where they are, one place further on.     *)
LEMMA QueuesShift ==
  ASSUME TypeOK, NEW w \in Workers, w_evs[w] # <<>>,
         w_evs' = [w_evs EXCEPT ![w] = Tail(@)], UNCHANGED <<ioevs_in, events_io>>,
         NEW v \in Workers, NEW i \in Connects(v)'
  PROVE  LET n == IF v = w THEN 1 ELSE 0
         IN  /\ i \in Nat /\ i + n \in Connects(v) /\ Queue(v)'[i] = Queue(v)[i + n]
             /\ v = w => i # 0
<1>1. CASE v = w
  <2>1. w_evs'[w] = Tail(w_evs[w])
    BY DEF TypeOK, WorkerTypeOK
  <2> QED BY <1>1, <2>1, QueueHead DEF Connects
<1>2. CASE v # w
  <2>1. w_evs'[v] = w_evs[v]
    BY <1>2 DEF TypeOK, WorkerTypeOK
  <2>2. Queue(v)' = Queue(v) /\ Connects(v)' = Connects(v)
    BY <2>1 DEF Queue, Connects
  <2>3. i \in Connects(v) /\ i \in Nat
    BY <2>2, ConnectType
  <2> QED BY <1>2, <2>2, <2>3
<1> QED BY <1>1, <1>2

(* The worker takes over a number nobody watches, and of nobody it knows.  *)
LEMMA NewConnectOwn ==
  ASSUME TypeOK, IOOwns, QueuesOwn, WatchersOwn, UsersOwn, NEW w \in Workers,
         w_evs[w] # <<>>, Head(w_evs[w]).what = "connect",
         on_new_connect(w, Head(w_evs[w])), w_evs' = [w_evs EXCEPT ![w] = Tail(@)],
         w_pc[w] = "connect",
         UNCHANGED <<ioevs_in, events_io, w_pc, sfd, openfd, epio, logic, closing,
                     epev_users>>
  PROVE  QueuesOwn' /\ WatchersOwn' /\ UsersOwn'
<1> DEFINE e == Head(w_evs[w])
           f == e.fd
<1>1. /\ w_evs'[w] = Tail(w_evs[w])
      /\ \A v \in Workers \ {w} : w_evs'[v] = w_evs[v]
  BY DEF TypeOK, WorkerTypeOK
<1>2. 1 \in Connects(w) /\ Queue(w)[1] = e
  BY <1>1, QueueHead DEF Connects
<1>3. /\ f \in Fds /\ e.conn \in Accepted /\ e.conn # NoConn
      /\ openfd[f] = e.conn /\ f \notin epio /\ \A v \in Workers : f \notin ep[v]
      /\ sfd[e.conn] = f
  <2>1. /\ f \in Fds /\ e.conn \in Accepted /\ e.conn # NoConn
    BY <1>2, ConnectType
  <2>2. openfd[f] = e.conn /\ f \notin epio /\ \A v \in Workers : f \notin ep[v]
    BY <1>2 DEF QueuesOwn
  <2> QED BY <2>1, <2>2 DEF IOOwns
<1>4. closing[w] = NoConn /\ epev_users[w] = {} /\ logic[w] # NoConn
  BY DEF UsersOwn
<1>5. users[w].sock[f] = NoConn
  BY <1>3, <1>4 DEF UsersOwn
<1>6. /\ ep'[w] = ep[w] \cup {f}
      /\ \A g \in Fds : users'[w].sock[g] = IF g = f THEN e.conn ELSE users[w].sock[g]
      /\ \A v \in Workers \ {w} : ep'[v] = ep[v] /\ users'[v] = users[v]
  <2>1. users[w] \in Manager(Accepted)
    BY DEF TypeOK, WorkerTypeOK
  <2>2. DOMAIN users[w].sock = Fds
    BY <2>1 DEF Manager
  <2>3. users' = [users EXCEPT ![w] = add_conn(@, e.conn, f, e.uid)]
    BY DEF on_new_connect
  <2>4. users'[w] = add_conn(users[w], e.conn, f, e.uid)
    BY <2>3 DEF TypeOK, WorkerTypeOK
  <2>5. users'[w].sock = PutAbsent(users[w].sock, f, e.conn)
    BY <2>4 DEF add_conn
  <2>6. \A g \in Fds : users'[w].sock[g] = IF g = f THEN e.conn ELSE users[w].sock[g]
    BY <1>5, <2>2, <2>5 DEF PutAbsent
  <2>7. \A v \in Workers \ {w} : users'[v] = users[v]
    BY <2>3 DEF TypeOK, WorkerTypeOK
  <2>8. ep' = [ep EXCEPT ![w] = @ \cup {f}]
    BY <1>3 DEF on_new_connect
  <2> QED BY <2>6, <2>7, <2>8 DEF TypeOK, NetTypeOK
<1> HIDE DEF e, f
<1>7. QueuesOwn'
  <2> DEFINE n == [v \in Workers |-> IF v = w THEN 1 ELSE 0]
  <2>1. ASSUME NEW v \in Workers, NEW i \in Connects(v)'
        PROVE  /\ i \in Nat /\ i + n[v] \in Connects(v) /\ Queue(v)'[i] = Queue(v)[i + n[v]]
               /\ v = w => i # 0
    BY QueuesShift
  <2>2. ASSUME NEW g \in Fds, \A v \in Workers : g \notin ep[v],
               \E v \in Workers : \E i \in Connects(v)' : Queue(v)'[i].fd = g
        PROVE  \A v \in Workers : g \notin ep'[v]
    <3>1. PICK v \in Workers : \E i \in Connects(v)' : Queue(v)'[i].fd = g
      BY <2>2
    <3>2. PICK i \in Connects(v)' : Queue(v)'[i].fd = g
      BY <3>1
    <3>3. /\ i \in Nat /\ i + n[v] \in Connects(v) /\ Queue(v)[i + n[v]].fd = g
          /\ v = w => i # 0
      BY <2>1, <3>2
    <3>4. g # f
      <4> SUFFICES ASSUME g = f PROVE FALSE
        OBVIOUS
      <4>1. v = w /\ i + n[v] = 1
        BY <1>2, <3>3 DEF QueuesOwn, f
      <4> QED BY <3>3, <4>1
    <3> QED BY <1>6, <2>2, <3>4
  <2>3. \A v \in Workers : w_pc'[v] # "connect" => w_evs'[v] = <<>>
    BY <1>1 DEF QueuesOwn
  <2>4. n \in [Workers -> Nat]
    OBVIOUS
  <2> HIDE DEF n
  <2> QED BY <2>1, <2>2, <2>3, <2>4, QueuesKept
<1>8. WatchersOwn'
  <2>1. ASSUME NEW v \in Workers, NEW g \in ep'[v]
        PROVE  /\ openfd[g] # NoConn /\ g \notin epio
               /\ users'[v].sock[g] = openfd[g]
               /\ \A u \in Workers : g \in ep'[u] => u = v
    <3>1. CASE g = f
      BY <1>3, <1>6, <3>1
    <3>2. CASE g # f
      <4>1. g \in ep[v] /\ g \in Fds /\ \A u \in Workers : g \in ep'[u] => g \in ep[u]
        BY <1>6, <3>2, WorkerHas
      <4> QED BY <1>6, <3>2, <4>1 DEF WatchersOwn
    <3> QED BY <3>1, <3>2
  <2> QED BY <2>1 DEF WatchersOwn
<1>9. UsersOwn'
  <2>1. ASSUME NEW v \in Workers
        PROVE  /\ logic[v] = NoConn => w_pc[v] = "none" /\ ep'[v] = {}
               /\ closing[v] # NoConn => w_pc[v] = "epevent" /\ sfd[closing[v]] \notin ep'[v]
               /\ \A g \in Fds : users'[v].sock[g] # NoConn =>
                    /\ sfd[users'[v].sock[g]] = g
                    /\ g \in ep'[v] \/ users'[v].sock[g] = closing[v]
               /\ \A d \in epev_users[v] :
                    w_pc[v] = "epevent" /\ sfd[d] \in ep'[v] /\ openfd[sfd[d]] = d
    <3>1. CASE v = w
      BY <1>3, <1>4, <1>6, <3>1 DEF UsersOwn
    <3>2. CASE v # w
      BY <1>6, <3>2 DEF UsersOwn
    <3> QED BY <3>1, <3>2
  <2> QED BY <2>1 DEF UsersOwn
<1> QED BY <1>7, <1>8, <1>9

LEMMA HandlerIoeventOwn ==
  ASSUME TypeOK, Own, NEW w \in Workers, handler_ioevent(w)
  PROVE  Own'
<1> USE DEF Own
<1>1. /\ UNCHANGED <<said, sfd, openfd, epio, ioVars, queueVars, w_pc, epev_users,
                     closing>>
      /\ w_pc[w] = "connect" /\ w_evs[w] # <<>>
      /\ w_evs' = [w_evs EXCEPT ![w] = Tail(@)]
  BY DEF handler_ioevent, Stays
<1>2. IOOwns' /\ ListsFresh' /\ FramesKnown'
  BY <1>1, WorkerKeepsIO
<1>3. CASE Head(w_evs[w]).what = "connect" /\ on_new_connect(w, Head(w_evs[w]))
  BY <1>1, <1>2, <1>3, NewConnectOwn DEF queueVars
<1>4. CASE UNCHANGED <<users, wk_uid, ep, user_msgs_in>>
  <2>1. WatchersOwn' /\ UsersOwn'
    BY <1>1, <1>4, WorkersSame DEF queueVars
  <2>2. /\ w_evs'[w] = Tail(w_evs[w])
        /\ \A v \in Workers \ {w} : w_evs'[v] = w_evs[v]
        /\ ioevs_in' = ioevs_in /\ events_io' = events_io
    BY <1>1 DEF queueVars, TypeOK, WorkerTypeOK
  <2> DEFINE n == [v \in Workers |-> IF v = w THEN 1 ELSE 0]
  <2>3. ASSUME NEW v \in Workers, NEW i \in Connects(v)'
        PROVE  i \in Nat /\ i + n[v] \in Connects(v) /\ Queue(v)'[i] = Queue(v)[i + n[v]]
    BY <1>1, <2>2, QueuesShift
  <2>4. \A v \in Workers : w_pc'[v] # "connect" => w_evs'[v] = <<>>
    BY <1>1, <2>2 DEF QueuesOwn
  <2>5. n \in [Workers -> Nat]
    OBVIOUS
  <2> HIDE DEF n
  <2>6. QueuesOwn'
    BY <1>1, <1>4, <2>3, <2>4, <2>5, QueuesKept
  <2> QED BY <1>2, <2>1, <2>6
<1> QED BY <1>3, <1>4 DEF handler_ioevent

LEMMA EpollWaitOwn ==
  ASSUME TypeOK, Own, NEW w \in Workers, epoll_wait(w)
  PROVE  Own'
<1> USE DEF Own
<1>1. /\ UNCHANGED <<netVars, ioVars, queueVars, w_evs, users, closing>>
      /\ w_evs[w] = <<>> /\ w_pc[w] = "connect"
      /\ w_pc' = [w_pc EXCEPT ![w] = "epevent"]
  BY DEF epoll_wait, Goes
<1>2. /\ w_pc'[w] = "epevent" /\ \A v \in Workers \ {w} : w_pc'[v] = w_pc[v]
      /\ epev_users'[w] = {get_user_by_sock(users[w], f) : f \in Ready(ep[w])} \ {NoConn}
      /\ \A v \in Workers \ {w} : epev_users'[v] = epev_users[v]
  BY <1>1 DEF epoll_wait, TypeOK, WorkerTypeOK
<1>3. IOOwns' /\ ListsFresh' /\ FramesKnown'
  BY <1>1, WorkerKeepsIO DEF netVars
<1>4. QueuesOwn'
  BY <1>1, <1>2, QueuesSame DEF netVars, queueVars
<1>5. WatchersOwn'
  BY <1>1 DEF netVars, WatchersOwn
<1>6. UsersOwn'
  <2>1. ASSUME NEW c \in epev_users'[w]
        PROVE  sfd[c] \in ep[w] /\ openfd[sfd[c]] = c
    <3>1. PICK f \in Ready(ep[w]) : c = get_user_by_sock(users[w], f)
      BY <1>2
    <3>2. f \in ep[w] /\ f \in Fds /\ c = users[w].sock[f]
      BY <3>1, WorkerHas DEF Ready, get_user_by_sock
    <3>3. c = openfd[f] /\ c # NoConn
      BY <3>2 DEF WatchersOwn
    <3> QED BY <3>2, <3>3 DEF IOOwns
  <2>2. logic[w] # NoConn
    BY <1>1 DEF UsersOwn
  <2> QED BY <1>1, <1>2, <2>1, <2>2 DEF netVars, queueVars, UsersOwn
<1> QED BY <1>3, <1>4, <1>5, <1>6

LEMMA HandlerEpeventOwn ==
  ASSUME TypeOK, Own, NEW w \in Workers, NEW c \in epev_users[w],
         handler_epevent(w, c)
  PROVE  Own'
<1> USE DEF Own
<1> DEFINE f == sfd[c]
<1>1. /\ UNCHANGED <<said, sfd, ioVars, queueVars, w_pc, w_evs, users>>
      /\ w_pc[w] = "epevent" /\ closing[w] = NoConn
      /\ epev_users' = [epev_users EXCEPT ![w] = @ \ {c}]
  BY DEF handler_epevent, Stays
<1>2. /\ epev_users'[w] = epev_users[w] \ {c}
      /\ \A v \in Workers \ {w} : epev_users'[v] = epev_users[v]
  BY <1>1 DEF TypeOK, WorkerTypeOK
<1>3. /\ f \in ep[w] /\ f \in Fds /\ openfd[f] = c /\ c # NoConn /\ f \notin epio
      /\ unlogin_users[f] = NoConn /\ \A v \in Workers \ {w} : f \notin ep[v]
  <2>1. f \in ep[w] /\ openfd[f] = c
    BY DEF UsersOwn
  <2>2. f \in Fds
    BY <2>1, WorkerHas
  <2>3. openfd[f] # NoConn /\ f \notin epio /\ \A v \in Workers \ {w} : f \notin ep[v]
    BY <2>1 DEF WatchersOwn
  <2> QED BY <2>1, <2>2, <2>3 DEF IOOwns
<1>4. CASE UNCHANGED <<openfd, epio, ep, closing>>
  <2>1. IOOwns' /\ ListsFresh' /\ FramesKnown'
    BY <1>1, <1>4, WorkerKeepsIO
  <2>2. QueuesOwn'
    BY <1>1, <1>4, QueuesSame DEF queueVars
  <2>3. WatchersOwn' /\ UsersOwn'
    BY <1>1, <1>2, <1>4 DEF queueVars, WatchersOwn, UsersOwn
  <2> QED BY <2>1, <2>2, <2>3
<1>5. CASE ClosedFds({f}) /\ closing' = [closing EXCEPT ![w] = c]
  <2>1. /\ \A g \in Fds : openfd'[g] = IF g = f THEN NoConn ELSE openfd[g]
        /\ epio' = epio \ {f} /\ \A v \in Workers : ep'[v] = ep[v] \ {f}
        /\ closing'[w] = c /\ \A v \in Workers \ {w} : closing'[v] = closing[v]
    BY <1>5 DEF ClosedFds, TypeOK, WorkerTypeOK
  <2>2. IOOwns'
    BY <1>1, <1>3, <2>1 DEF ioVars, IOOwns, TypeOK, NetTypeOK
  <2>3. ListsFresh'
    <3>1. ASSUME NEW i \in DOMAIN unlogin_reads, io_rd[unlogin_reads[i]] # <<>>,
                 openfd[sfd[unlogin_reads[i]]] = NoConn
          PROVE  openfd'[sfd[unlogin_reads[i]]] = NoConn
      <4>1. unlogin_reads[i] \in Accepted
        BY DEF TypeOK, IOTypeOK
      <4> QED BY <2>1, <3>1, <4>1, AcceptedHas
    <3> QED BY <1>1, <3>1 DEF ioVars, ListsFresh
  <2>4. FramesKnown'
    BY <1>1 DEF ioVars, FramesKnown
  <2>5. QueuesOwn'
    <3> HIDE DEF f
    <3> QED BY <1>1, <1>3, <1>5, ClosedQueues DEF queueVars
  <2>6. WatchersOwn'
    <3> HIDE DEF f
    <3> QED BY <1>1, <1>5, ClosedWatchers
  <2>7. UsersOwn'
    <3>1. ASSUME NEW v \in Workers
          PROVE  /\ logic[v] = NoConn => w_pc[v] = "none" /\ ep'[v] = {}
                 /\ closing'[v] # NoConn => w_pc[v] = "epevent" /\ sfd[closing'[v]] \notin ep'[v]
                 /\ \A g \in Fds : users[v].sock[g] # NoConn =>
                      /\ sfd[users[v].sock[g]] = g
                      /\ g \in ep'[v] \/ users[v].sock[g] = closing'[v]
                 /\ \A d \in epev_users'[v] :
                      w_pc[v] = "epevent" /\ sfd[d] \in ep'[v] /\ openfd'[sfd[d]] = d
      <4>1. CASE v = w
        <5>1. users[w].sock[f] = c
          BY <1>3 DEF WatchersOwn
        <5>2. \A g \in Fds : users[w].sock[g] # NoConn =>
                /\ sfd[users[w].sock[g]] = g
                /\ g \in ep'[w] \/ users[w].sock[g] = closing'[w]
          BY <1>1, <2>1, <5>1 DEF UsersOwn
        <5>3. ASSUME NEW d \in epev_users'[w]
              PROVE  sfd[d] \in ep'[w] /\ openfd'[sfd[d]] = d
          <6>1. d # c /\ sfd[d] \in ep[w] /\ openfd[sfd[d]] = d /\ sfd[d] \in Fds
            BY <1>2, <5>3, WorkerHas DEF UsersOwn
          <6>2. sfd[d] # f
            BY <1>3, <6>1
          <6> QED BY <2>1, <6>1, <6>2
        <5> QED BY <1>1, <1>3, <2>1, <4>1, <5>2, <5>3 DEF UsersOwn
      <4>2. CASE v # w
        <5>1. ep'[v] = ep[v] /\ closing'[v] = closing[v] /\ epev_users'[v] = epev_users[v]
          <6>1. f \notin ep[v] /\ ep'[v] = ep[v] \ {f}
            BY <1>3, <2>1, <4>2
          <6> HIDE DEF f
          <6>2. ep'[v] = ep[v]
            BY <6>1
          <6> QED BY <1>2, <2>1, <4>2, <6>2
        <5>2. \A d \in epev_users[v] : openfd'[sfd[d]] = openfd[sfd[d]]
          BY <1>3, <2>1, <4>2, WorkerHas DEF UsersOwn
        <5> QED BY <5>1, <5>2 DEF UsersOwn
      <4> QED BY <4>1, <4>2
    <3> QED BY <1>1, <3>1 DEF queueVars, UsersOwn
  <2> QED BY <2>2, <2>3, <2>4, <2>5, <2>6, <2>7
<1> QED BY <1>4, <1>5 DEF handler_epevent

LEMMA ConnOfflineOwn ==
  ASSUME TypeOK, Own, NEW w \in Workers, worker_conn_offline(w)
  PROVE  Own'
<1> USE DEF Own
<1> DEFINE c == closing[w]
<1>1. /\ UNCHANGED <<netVars, ioVars, logic, events_io, ioevs_in, w_pc, w_evs,
                     epev_users>>
      /\ c # NoConn /\ closing' = [closing EXCEPT ![w] = NoConn]
      /\ users' = [users EXCEPT ![w] = del_conn(@, sfd[c], wk_uid)]
  BY DEF worker_conn_offline, Stays
<1>2. /\ closing'[w] = NoConn /\ sfd[c] \notin ep[w]
      /\ \A v \in Workers \ {w} : closing'[v] = closing[v] /\ users'[v] = users[v]
  BY <1>1 DEF TypeOK, WorkerTypeOK, UsersOwn
<1>3. \A g \in Fds : users'[w].sock[g] = IF g = sfd[c] THEN NoConn ELSE users[w].sock[g]
  <2>1. users[w] \in Manager(Accepted)
    BY DEF TypeOK, WorkerTypeOK
  <2>2. users[w].sock \in [Fds -> Accepted \cup {NoConn}]
    BY <2>1 DEF Manager
  <2>3. users'[w] = del_conn(users[w], sfd[c], wk_uid)
    BY <1>1 DEF TypeOK, WorkerTypeOK
  <2>4. users'[w].sock = [users[w].sock EXCEPT ![sfd[c]] = NoConn]
    BY <2>3 DEF del_conn
  <2> QED BY <2>2, <2>4
<1>4. IOOwns' /\ ListsFresh' /\ FramesKnown'
  BY <1>1, WorkerKeepsIO DEF netVars
<1>5. QueuesOwn'
  BY <1>1, QueuesSame DEF netVars
<1>6. WatchersOwn'
  <2>1. ASSUME NEW v \in Workers, NEW g \in ep[v] PROVE users'[v].sock[g] = users[v].sock[g]
    BY <1>2, <1>3, WorkerHas
  <2> QED BY <1>1, <2>1 DEF netVars, WatchersOwn
<1>7. UsersOwn'
  <2>1. ASSUME NEW g \in Fds, users'[w].sock[g] # NoConn
        PROVE  sfd[users'[w].sock[g]] = g /\ g \in ep[w]
    BY <1>3, <2>1 DEF UsersOwn
  <2> QED BY <1>1, <1>2, <2>1 DEF netVars, UsersOwn
<1> QED BY <1>4, <1>5, <1>6, <1>7

(* Parsing moves no descriptor, nor does the writing after it.             *)
LEMMA EpdataOwn ==
  ASSUME TypeOK, Own, NEW w \in Workers, NEW i \in DOMAIN rd_users[w],
         handler_epdata(w, i)
  PROVE  Own'
<1> USE DEF Own
<1>1. UNCHANGED <<netVars, ioVars, queueVars, w_pc, w_evs, users, epev_users, closing>>
  BY DEF handler_epdata
<1>2. IOOwns' /\ ListsFresh' /\ FramesKnown'
  BY <1>1, WorkerKeepsIO DEF netVars
<1>3. QueuesOwn'
  BY <1>1, QueuesSame DEF netVars, queueVars
<1>4. WatchersOwn' /\ UsersOwn'
  BY <1>1, WorkersSame DEF netVars, queueVars
<1> QED BY <1>2, <1>3, <1>4

LEMMA HandlerMsgsOwn ==
  ASSUME TypeOK, Own, NEW w \in Workers, handler_msgs(w)
  PROVE  Own'
<1> USE DEF Own
<1>1. /\ UNCHANGED <<said, sfd, openfd, epio, ep, ioVars, queueVars, w_evs, users,
                     epev_users, closing>>
      /\ w_pc[w] = "epevent" /\ epev_users[w] = {} /\ closing[w] = NoConn
      /\ w_pc' = [w_pc EXCEPT ![w] = "ioevent"]
  BY DEF handler_msgs, EventsDone
<1>2. w_pc'[w] = "ioevent" /\ \A v \in Workers \ {w} : w_pc'[v] = w_pc[v]
  BY <1>1 DEF TypeOK, WorkerTypeOK
<1>3. IOOwns' /\ ListsFresh' /\ FramesKnown'
  BY <1>1, WorkerKeepsIO
<1>4. QueuesOwn'
  BY <1>1, <1>2, QueuesSame DEF queueVars
<1>5. WatchersOwn' /\ UsersOwn'
  BY <1>1, <1>2 DEF queueVars, WatchersOwn, UsersOwn
<1> QED BY <1>3, <1>4, <1>5
-----------------------------------------------------------------------------
LEMMA NextOwn ==
  ASSUME KnownFrames, TypeOK, Own, [Next]_vars
  PROVE  Own'
<1>1. CASE UNCHANGED vars
  <2>1. UNCHANGED <<netVars, ioVars, queueVars, workVars>>
    BY <1>1 DEF vars
  <2> USE DEF Own
  <2>2. IOOwns' /\ ListsFresh' /\ FramesKnown'
    BY <2>1, WorkerKeepsIO DEF netVars
  <2>3. QueuesOwn'
    BY <2>1, QueuesSame DEF netVars, queueVars, workVars
  <2>4. WatchersOwn' /\ UsersOwn'
    BY <2>1, WorkersSame DEF netVars, queueVars, workVars
  <2> QED BY <2>2, <2>3, <2>4
<1>2. CASE PeerNext
  BY <1>2, PeerOwn
<1>3. CASE IONext
  BY <1>3, EpollOneOwn, HandlerDataOwn, UnloginMsgOwn, HandlerReplyOwn,
     NotifyWorkersOwn DEF IONext
<1>4. ASSUME NEW w \in Workers, WorkerNext(w) PROVE Own'
  BY <1>4, TakeIoeventsOwn, HandlerIoeventOwn, EpollWaitOwn, HandlerEpeventOwn,
     ConnOfflineOwn, EpdataOwn, HandlerMsgsOwn DEF WorkerNext
<1> QED BY <1>1, <1>2, <1>3, <1>4 DEF Next

(* The invariant the two theorems rest on.                                 *)
THEOREM Ownership ==
  ASSUME KnownFrames
  PROVE  Spec => []Own
<1>1. TypeOK /\ Own /\ [Next]_vars => Own'
  BY NextOwn
<1> QED BY <1>1, InitOwn, TypeCorrect, PTL DEF Spec

(* No two threads watch one descriptor: del_epev by the IO thread, the     *)
(* event in the queue and add_epev by the worker hand it over whole.       *)
THEOREM WatchedOnce ==
  ASSUME KnownFrames
  PROVE  Spec => []OneWatcher
<1>1. Own => OneWatcher
  BY DEF Own, WatchersOwn, OneWatcher
<1> QED BY <1>1, Ownership, PTL

(* What a thread is about to read is of the connection its object was made *)
(* for, although closed numbers come back from accept at any moment.       *)
THEOREM ReadsOwnConnection ==
  ASSUME KnownFrames
  PROVE  Spec => []ReadsOwn
<1>1. TypeOK /\ Own => ReadsOwn
  <2> SUFFICES ASSUME TypeOK, Own PROVE ReadsOwn
    OBVIOUS
  <2>1. ASSUME NEW c \in unlogin_events PROVE openfd[sfd[c]] = c
    <3>1. c \in Accepted
      BY DEF TypeOK, IOTypeOK
    <3> QED BY <3>1, AcceptedHas DEF Own, ListsFresh, IOOwns
  <2>2. ASSUME NEW w \in Workers, NEW c \in epev_users[w] PROVE openfd[sfd[c]] = c
    BY DEF Own, UsersOwn
  <2> QED BY <2>1, <2>2 DEF ReadsOwn
<1> QED BY <1>1, Ownership, TypeCorrect, PTL
-----------------------------------------------------------------------------
(* That c has logged in as u, by the frames of s.                          *)
LoginIn(s, c, u) ==
  \E i \in DOMAIN s[c] : s[c][i] = [kind |-> "login", uid |-> u]

(* What the IO thread has to parse for a connection was sent by its peer.  *)
FramesSaid ==
  \A c \in Conns : \A i \in DOMAIN io_rd[c] : io_rd[c][i] \in Said(c)

(* So were the uids its users have, and those on their way to the workers. *)
UidsSaid == \A c \in Conns : io_uid[c] \in Uids => SaidLogin(c, io_uid[c])

EventsSaid ==
  \A w \in Workers : \A i \in Connects(w) :
    LET e == Queue(w)[i] IN e.uid \in Uids => SaidLogin(e.conn, e.uid)

Authentic == FramesSaid /\ UidsSaid /\ EventsSaid /\ LoginAuthentic
-----------------------------------------------------------------------------
(* Nothing that was said is taken back.                                    *)
LEMMA SaidSame ==
  ASSUME said' = said
  PROVE  \A c \in Conns : Said(c) \subseteq Said(c)'
BY DEF Said

LEMMA SaidGrows ==
  ASSUME TypeOK, PeerNext
  PROVE  \A c \in Conns : Said(c) \subseteq Said(c)'
<1>1. CASE said' = said
  BY <1>1, SaidSame
<1>2. ASSUME NEW d \in Conns, NEW m \in ClientFrames[d], Send(d, m)
      PROVE  \A c \in Conns : Said(c) \subseteq Said(c)'
  <2> SUFFICES ASSUME NEW c \in Conns, NEW i \in DOMAIN said[c]
               PROVE  said[c][i] \in Said(c)'
    BY DEF Said
  <2>1. said[d] \in Seq(Msg) /\ m \in Msg
    BY GateAssumption DEF TypeOK, NetTypeOK
  <2>2. said'[c] = IF c = d THEN Append(said[d], m) ELSE said[c]
    BY <1>2 DEF Send, TypeOK, NetTypeOK
  <2>3. i \in DOMAIN said'[c] /\ said'[c][i] = said[c][i]
    <3>1. CASE c = d
      <4>1. i \in 1 .. Len(said[d])
        BY <2>1, <3>1, LenProperties
      <4>2. i \in 1 .. Len(Append(said[d], m)) /\ Append(said[d], m)[i] = said[d][i]
        BY <2>1, <4>1, AppendProperties, LenProperties
      <4> QED BY <2>1, <2>2, <3>1, <4>2, AppendProperties, LenProperties
    <3> QED BY <2>2, <3>1
  <2> QED BY <2>3 DEF Said
<1> QED BY <1>1, <1>2 DEF PeerNext, Connect, PeerClose

LEMMA StillLoggedIn ==
  ASSUME \A c \in Conns : Said(c) \subseteq Said(c)'
  PROVE  \A c \in Conns, u \in Uids : SaidLogin(c, u) => LoginIn(said', c, u)
<1> SUFFICES ASSUME NEW c \in Conns, NEW u \in Uids, SaidLogin(c, u)
             PROVE  LoginIn(said', c, u)
  OBVIOUS
<1>1. [kind |-> "login", uid |-> u] \in Said(c)'
  BY DEF SaidLogin
<1> QED BY <1>1 DEF Said, LoginIn

(* What is kept of what was said, with more of it.                         *)
LEMMA FramesSaidStill ==
  ASSUME FramesSaid, \A c \in Conns : Said(c) \subseteq Said(c)', io_rd' = io_rd
  PROVE  FramesSaid'
BY DEF FramesSaid

LEMMA UidsSaidStill ==
  ASSUME UidsSaid, \A c \in Conns : Said(c) \subseteq Said(c)', io_uid' = io_uid
  PROVE  UidsSaid'
BY DEF UidsSaid, SaidLogin

LEMMA EventsSaidStill ==
  ASSUME TypeOK, EventsSaid, \A c \in Conns : Said(c) \subseteq Said(c)',
         \A w \in Workers : \A i \in Connects(w)' :
           \E j \in Connects(w) : Queue(w)'[i] = Queue(w)[j]
  PROVE  EventsSaid'
<1> SUFFICES ASSUME NEW w \in Workers, NEW i \in Connects(w)',
                    Queue(w)'[i].uid \in Uids
             PROVE  LoginIn(said', Queue(w)'[i].conn, Queue(w)'[i].uid)
  BY DEF EventsSaid, SaidLogin, Said, LoginIn
<1>1. PICK j \in Connects(w) : Queue(w)'[i] = Queue(w)[j]
  OBVIOUS
<1> DEFINE e == Queue(w)[j]
<1>2. SaidLogin(e.conn, e.uid)
  BY <1>1 DEF EventsSaid
<1>3. e.conn \in Conns
  BY ConnectType, AcceptedHas
<1>4. \A c \in Conns, u \in Uids : SaidLogin(c, u) => LoginIn(said', c, u)
  BY StillLoggedIn
<1> HIDE DEF e
<1> QED BY <1>1, <1>2, <1>3, <1>4 DEF e

LEMMA EventsSaidSame ==
  ASSUME TypeOK, EventsSaid, \A c \in Conns : Said(c) \subseteq Said(c)',
         UNCHANGED <<w_evs, ioevs_in, events_io>>
  PROVE  EventsSaid'
<1>1. \A w \in Workers : Queue(w)' = Queue(w) /\ Connects(w)' = Connects(w)
  BY DEF Queue, Connects
<1> QED BY <1>1, EventsSaidStill

(* The maps of a worker name no more users, or only some that were said.   *)
LEMMA LoginsSaidStill ==
  ASSUME TypeOK, LoginAuthentic, \A c \in Conns : Said(c) \subseteq Said(c)',
         \A w \in Workers, u \in Uids :
           \/ users'[w].uid[u] \in {NoConn, users[w].uid[u]}
           \/ LoginIn(said', users'[w].uid[u], u)
  PROVE  LoginAuthentic'
<1>1. ASSUME NEW w \in Workers, NEW u \in Uids, users'[w].uid[u] # NoConn,
             users'[w].uid[u] = users[w].uid[u]
      PROVE  LoginIn(said', users'[w].uid[u], u)
  <2>1. SaidLogin(users[w].uid[u], u)
    BY <1>1 DEF LoginAuthentic
  <2>2. users[w] \in Manager(Accepted)
    BY DEF TypeOK, WorkerTypeOK
  <2>3. users[w].uid[u] \in Accepted \cup {NoConn}
    BY <2>2 DEF Manager
  <2>4. users[w].uid[u] \in Conns
    BY <1>1, <2>3 DEF Accepted
  <2> QED BY <1>1, <2>1, <2>4, StillLoggedIn
<1>2. ASSUME NEW w \in Workers, NEW u \in Uids, users'[w].uid[u] # NoConn
      PROVE  LoginIn(said', users'[w].uid[u], u)
  BY <1>1, <1>2
<1>3. ASSUME NEW w \in Workers, NEW u \in Uids, users'[w].uid[u] # NoConn
      PROVE  SaidLogin(users[w].uid[u], u)'
  BY <1>2, <1>3 DEF SaidLogin, Said, LoginIn
<1> QED BY <1>3 DEF LoginAuthentic
-----------------------------------------------------------------------------
LEMMA InitAuthentic == Init => Authentic
<1> SUFFICES ASSUME Init PROVE Authentic
  OBVIOUS
<1> USE DEF Init, NetInit, IOInit, WorkerInit
<1>1. FramesSaid /\ UidsSaid
  BY UserManagerAssumption DEF FramesSaid, UidsSaid
<1>2. EventsSaid
  <2>1. ASSUME NEW w \in Workers PROVE Connects(w) = {}
    <3>1. Queue(w) = <<>>
      BY DEF Queue
    <3> QED BY <3>1 DEF Connects
  <2> QED BY <2>1 DEF EventsSaid
<1>3. LoginAuthentic
  BY DEF LoginAuthentic, NoUsers
<1> QED BY <1>1, <1>2, <1>3 DEF Authentic

(* A step that takes up no frame, no uid, no event and no user.            *)
LEMMA AuthenticSame ==
  ASSUME TypeOK, Authentic, \A c \in Conns : Said(c) \subseteq Said(c)',
         UNCHANGED <<io_rd, io_uid, w_evs, ioevs_in, events_io, users>>
  PROVE  Authentic'
<1> USE DEF Authentic
<1>1. FramesSaid' /\ UidsSaid'
  BY FramesSaidStill, UidsSaidStill
<1>2. EventsSaid'
  BY EventsSaidSame
<1>3. LoginAuthentic'
  BY LoginsSaidStill
<1> QED BY <1>1, <1>2, <1>3

LEMMA PeerAuthentic == ASSUME TypeOK, Authentic, PeerNext PROVE Authentic'
<1>1. UNCHANGED <<ioVars, queueVars, workVars>>
  BY DEF PeerNext, Connect, Send, PeerClose
<1> QED BY <1>1, SaidGrows, AuthenticSame DEF ioVars, queueVars, workVars

LEMMA EpollOneAuthentic == ASSUME TypeOK, Authentic, epoll_one PROVE Authentic'
<1> USE DEF Authentic
<1>1. /\ UNCHANGED <<said, io_rd, io_uid, users>>
      /\ \A c \in Conns : Said(c) \subseteq Said(c)'
  BY SaidSame DEF epoll_one, workVars
<1>2. FramesSaid' /\ UidsSaid'
  BY <1>1, FramesSaidStill, UidsSaidStill
<1>3. EventsSaid'
  BY <1>1, EpollOneQueues, EventsSaidStill
<1>4. LoginAuthentic'
  BY <1>1, LoginsSaidStill
<1> QED BY <1>2, <1>3, <1>4

LEMMA HandlerDataAuthentic ==
  ASSUME TypeOK, Own, Authentic, handler_data
  PROVE  Authentic'
<1> USE DEF Authentic
<1>1. /\ UNCHANGED <<said, io_uid, w_evs, ioevs_in, events_io, users>>
      /\ \A c \in Conns : Said(c) \subseteq Said(c)'
  BY SaidSame DEF handler_data, queueVars, workVars
<1>2. UidsSaid' /\ EventsSaid' /\ LoginAuthentic'
  BY <1>1, UidsSaidStill, EventsSaidSame, LoginsSaidStill
<1>3. ASSUME NEW c \in Conns, NEW i \in DOMAIN io_rd'[c]
      PROVE  io_rd'[c][i] \in Said(c)
  <2>1. CASE c \notin unlogin_events
    BY <2>1 DEF handler_data, FramesSaid
  <2>2. CASE c \in unlogin_events
    <3> DEFINE r == ReadFrames(sfd[c])
    <3>1. sfd[c] \in Fds /\ openfd[sfd[c]] = c
      <4>1. c \in Accepted /\ unlogin_users[sfd[c]] = c
        BY <2>2 DEF TypeOK, IOTypeOK, Own, ListsFresh
      <4> QED BY <4>1, AcceptedHas DEF Own, IOOwns
    <3>2. io_rd'[c] = io_rd[c] \o r /\ io_rd[c] \in Seq(Msg) /\ r \in Seq(Msg)
      BY <2>2, <3>1, ReadFramesType DEF handler_data, TypeOK, IOTypeOK
    <3>3. \A j \in DOMAIN r : r[j] \in Said(c)
      BY <3>1, ReadFramesSaid DEF Said
    <3> HIDE DEF r
    <3>4. /\ i \in 1 .. Len(io_rd[c]) + Len(r)
          /\ io_rd'[c][i] = IF i <= Len(io_rd[c]) THEN io_rd[c][i] ELSE r[i - Len(io_rd[c])]
          /\ Len(io_rd[c]) \in Nat /\ Len(r) \in Nat
          /\ DOMAIN io_rd[c] = 1 .. Len(io_rd[c]) /\ DOMAIN r = 1 .. Len(r)
      BY <3>2, ConcatProperties, LenProperties
    <3>5. CASE i <= Len(io_rd[c])
      BY <3>4, <3>5 DEF FramesSaid
    <3>6. CASE ~(i <= Len(io_rd[c]))
      <4>1. i - Len(io_rd[c]) \in DOMAIN r
        BY <3>4, <3>6
      <4> QED BY <3>3, <3>4, <3>6, <4>1
    <3> QED BY <3>5, <3>6
  <2> QED BY <2>1, <2>2
<1>4. FramesSaid'
  BY <1>1, <1>3 DEF FramesSaid
<1> QED BY <1>2, <1>4

LEMMA UnloginMsgAuthentic ==
  ASSUME TypeOK, Own, Authentic, NEW i \in DOMAIN unlogin_reads,
         handler_unlogin_msg(i)
  PROVE  Authentic'
<1> USE DEF Authentic
<1> DEFINE c == unlogin_reads[i]
<1>1. /\ UNCHANGED <<said, w_evs, ioevs_in, events_io, users>>
      /\ \A d \in Conns : Said(d) \subseteq Said(d)'
  BY SaidSame DEF handler_unlogin_msg, queueVars, workVars
<1>2. EventsSaid' /\ LoginAuthentic'
  BY <1>1, EventsSaidSame, LoginsSaidStill
<1>3. c \in Conns /\ io_rd[c] \in Seq(Msg)
  <2>1. c \in Accepted
    BY DEF TypeOK, IOTypeOK
  <2> QED BY <2>1 DEF Accepted, TypeOK, IOTypeOK
<1>4. PICK k \in Stops(io_rd[c]) :
        LET msgs == Parsed(io_rd[c], k)
            left == Unparsed(io_rd[c], k) IN
        /\ io_rd' = [io_rd EXCEPT ![c] = left]
        /\ \/ /\ msgs = <<>>
              /\ UNCHANGED <<openfd, epio, ep, unlogin_users, io_uid, rsp_msgs>>
           \/ Acceptable(msgs, left) /\ Dispatch(c, msgs[1])
           \/ msgs # <<>> /\ ~Acceptable(msgs, left) /\ kick_out(c)
  BY DEF handler_unlogin_msg
<1> DEFINE msgs == Parsed(io_rd[c], k)
           m == msgs[1]
<1>5. /\ Unparsed(io_rd[c], k) = <<>>
      /\ msgs # <<>> => 1 \in DOMAIN io_rd[c] /\ m = io_rd[c][1]
  BY <1>3, AllParsedAtOnce DEF Own, FramesKnown
<1>6. FramesSaid'
  <2>1. \A d \in Conns : io_rd'[d] = IF d = c THEN <<>> ELSE io_rd[d]
    BY <1>4, <1>5 DEF TypeOK, IOTypeOK
  <2>2. ASSUME NEW d \in Conns, NEW j \in DOMAIN io_rd'[d]
        PROVE  d # c /\ j \in DOMAIN io_rd[d] /\ io_rd'[d][j] = io_rd[d][j]
    BY <2>1, <2>2
  <2>3. ASSUME NEW d \in Conns, NEW j \in DOMAIN io_rd'[d] PROVE io_rd'[d][j] \in Said(d)
    BY <2>2 DEF FramesSaid
  <2> QED BY <1>1, <2>3 DEF FramesSaid
<1>7. UidsSaid'
  <2>1. CASE io_uid' = io_uid
    BY <1>1, <2>1, UidsSaidStill
  <2>2. CASE msgs # <<>> /\ m.kind = "login" /\ on_user_login(c, m)
    <3>1. m \in Said(c) /\ m \in Msg
      BY <1>3, <1>5, <2>2, ElementOfSeq, LenProperties DEF FramesSaid
    <3> HIDE DEF m, c
    <3>2. m = [kind |-> "login", uid |-> m.uid]
      BY <2>2, <3>1 DEF Msg
    <3>3. io_uid' = [io_uid EXCEPT ![c] = m.uid]
      BY <2>2 DEF on_user_login
    <3>4. \A d \in Conns : io_uid'[d] = IF d = c THEN m.uid ELSE io_uid[d]
      BY <3>3 DEF TypeOK, IOTypeOK
    <3>5. \A d \in Conns : io_uid'[d] \in Uids => SaidLogin(d, io_uid'[d])
      BY <3>1, <3>2, <3>4 DEF UidsSaid, SaidLogin
    <3> QED BY <1>1, <3>5 DEF UidsSaid, SaidLogin
  <2>3. \/ io_uid' = io_uid
        \/ msgs # <<>> /\ m.kind = "login" /\ on_user_login(c, m)
    BY <1>4 DEF Dispatch, on_user_register, on_system_verify, kick_out, Acceptable
  <2> QED BY <2>1, <2>2, <2>3
<1> QED BY <1>2, <1>6, <1>7

(* A user handed over takes the uid it logged in with into the queue; a    *)
(* Logic becomes a worker's user under none.                               *)
LEMMA HandlerReplyAuthentic ==
  ASSUME TypeOK, Own, Authentic, handler_reply
  PROVE  Authentic'
<1> USE DEF Authentic
<1> DEFINE f == Head(rsp_msgs).fd
           c == unlogin_users[f]
<1>1. /\ UNCHANGED <<said, io_rd, io_uid, w_evs, ioevs_in>>
      /\ \A d \in Conns : Said(d) \subseteq Said(d)'
      /\ rsp_msgs # <<>>
  BY SaidSame DEF handler_reply
<1>2. f \in Fds
  <2>1. Head(rsp_msgs) \in Rsp
    BY <1>1, HeadTailProperties DEF TypeOK, IOTypeOK
  <2>2. \A r \in Rsp : r.fd \in Fds
    BY DEF Rsp
  <2> QED BY <2>1, <2>2
<1>3. \/ no_promotion
      \/ c # NoConn /\ on_logic_verifyed(c, f)
      \/ c # NoConn /\ on_user_logined(c, f)
  BY DEF handler_reply
<1> HIDE DEF f, c
<1>4. FramesSaid' /\ UidsSaid'
  BY <1>1, FramesSaidStill, UidsSaidStill
<1>5. EventsSaid'
  <2>1. CASE events_io' = events_io
    BY <1>1, <2>1, EventsSaidSame
  <2>2. ASSUME c # NoConn, NEW w \in Workers, HandOver(c, f, w) PROVE EventsSaid'
    <3> DEFINE e == ConnectEvent(c, f)
    <3>1. c \in Accepted /\ c \in Conns
      <4>1. c \in MaybeAccepted
        BY <1>2 DEF TypeOK, IOTypeOK, c
      <4>2. c \in Accepted
        BY <2>2, <4>1 DEF MaybeAccepted
      <4> QED BY <4>2, AcceptedHas
    <3>2. e \in Event
      BY <1>2, <3>1, ConnectEventType
    <3>3. e.uid \in Uids => LoginIn(said', e.conn, e.uid)
      <4>1. e.uid = io_uid[c] /\ e.conn = c
        BY DEF ConnectEvent
      <4> HIDE DEF e
      <4> QED BY <1>1, <3>1, <4>1, StillLoggedIn DEF UidsSaid
    <3>4. events_io' = [events_io EXCEPT ![w] = Append(@, e)]
      BY <2>2 DEF HandOver
    <3> HIDE DEF e
    <3>5. ASSUME NEW v \in Workers, NEW i \in Connects(v)', Queue(v)'[i].uid \in Uids
          PROVE  LoginIn(said', Queue(v)'[i].conn, Queue(v)'[i].uid)
      <4>1. CASE Queue(v)'[i] = e
        BY <3>3, <3>5, <4>1
      <4>2. CASE i \in Connects(v) /\ Queue(v)'[i] = Queue(v)[i]
        <5>1. SaidLogin(Queue(v)[i].conn, Queue(v)[i].uid) /\ Queue(v)[i].conn \in Conns
          BY <3>5, <4>2, ConnectType, AcceptedHas DEF EventsSaid
        <5> QED BY <1>1, <3>5, <4>2, <5>1, StillLoggedIn
      <4> QED BY <1>1, <3>2, <3>4, <4>1, <4>2, HandOverAppends
    <3> QED BY <3>5 DEF EventsSaid, SaidLogin, Said, LoginIn
  <2>3. ASSUME NEW w \in get_worker(f) PROVE w \in Workers
    BY DEF get_worker, Least, Having, Idlest, Started
  <2> QED BY <1>3, <2>1, <2>2, <2>3
          DEF no_promotion, on_logic_verifyed, on_user_logined
<1>6. LoginAuthentic'
  <2>1. CASE users' = users
    BY <1>1, <2>1, LoginsSaidStill
  <2>2. ASSUME NEW w \in Least(Workers \ Started), NewWorker(c, f, w) PROVE LoginAuthentic'
    <3>1. w \in Workers
      BY DEF Least
    <3>2. users'[w] = add_conn(NoUsers, c, f, 0) /\ \A v \in Workers \ {w} : users'[v] = users[v]
      BY <2>2, <3>1 DEF NewWorker, TypeOK, WorkerTypeOK
    <3>3. \A u \in Uids : users'[w].uid[u] = NoConn
      BY <3>2, UserManagerAssumption DEF add_conn, NoUsers, PutAbsent
    <3> QED BY <1>1, <3>2, <3>3, LoginsSaidStill
  <2> QED BY <1>3, <2>1, <2>2 DEF no_promotion, on_logic_verifyed, on_user_logined
<1> QED BY <1>4, <1>5, <1>6

LEMMA NotifyWorkersAuthentic ==
  ASSUME TypeOK, Authentic, notify_workers
  PROVE  Authentic'
<1> USE DEF Authentic
<1>1. /\ UNCHANGED <<said, io_rd, io_uid, users>>
      /\ \A c \in Conns : Said(c) \subseteq Said(c)'
  BY SaidSame DEF notify_workers, netVars, workVars
<1>2. EventsSaid'
  <2>1. \A w \in Workers : Queue(w)' = Queue(w)
    BY NotifyQueues
  <2>2. \A w \in Workers : Connects(w)' = Connects(w)
    BY <2>1 DEF Connects
  <2> QED BY <1>1, <2>1, <2>2, EventsSaidStill
<1> QED BY <1>1, <1>2, FramesSaidStill, UidsSaidStill, LoginsSaidStill

LEMMA TakeIoeventsAuthentic ==
  ASSUME TypeOK, Own, Authentic, NEW w \in Workers, take_ioevents(w)
  PROVE  Authentic'
<1> USE DEF Authentic
<1>1. /\ UNCHANGED <<said, io_rd, io_uid, users>>
      /\ \A c \in Conns : Said(c) \subseteq Said(c)'
  BY SaidSame DEF take_ioevents, netVars, ioVars
<1>2. EventsSaid'
  <2>1. \A v \in Workers : Queue(v)' = Queue(v)
    BY TakeQueues DEF Own
  <2>2. \A v \in Workers : Connects(v)' = Connects(v)
    BY <2>1 DEF Connects
  <2> QED BY <1>1, <2>1, <2>2, EventsSaidStill
<1> QED BY <1>1, <1>2, FramesSaidStill, UidsSaidStill, LoginsSaidStill

LEMMA HandlerIoeventAuthentic ==
  ASSUME TypeOK, Authentic, NEW w \in Workers, handler_ioevent(w)
  PROVE  Authentic'
<1> USE DEF Authentic
<1> DEFINE e == Head(w_evs[w])
<1>1. /\ UNCHANGED <<said, io_rd, io_uid, ioevs_in, events_io>>
      /\ w_evs[w] # <<>> /\ w_evs' = [w_evs EXCEPT ![w] = Tail(@)]
      /\ \A c \in Conns : Said(c) \subseteq Said(c)'
  BY SaidSame DEF handler_ioevent, ioVars, queueVars
<1>2. EventsSaid'
  <2>1. \A v \in Workers : \A i \in Connects(v)' :
          \E j \in Connects(v) : Queue(v)'[i] = Queue(v)[j]
    <3> SUFFICES ASSUME NEW v \in Workers, NEW i \in Connects(v)'
                 PROVE  \E j \in Connects(v) : Queue(v)'[i] = Queue(v)[j]
      BY Zenon
    <3> DEFINE n == IF v = w THEN 1 ELSE 0
    <3>1. i + n \in Connects(v) /\ Queue(v)'[i] = Queue(v)[i + n]
      BY <1>1, QueuesShift
    <3> QED BY <3>1, Zenon
  <2> QED BY <1>1, <2>1, EventsSaidStill
<1>3. LoginAuthentic'
  <2>1. CASE users' = users
    BY <1>1, <2>1, LoginsSaidStill
  <2>2. CASE e.what = "connect" /\ on_new_connect(w, e)
    <3>1. 1 \in Connects(w) /\ Queue(w)[1] = e
      <4>1. w_evs'[w] = Tail(w_evs[w])
        BY <1>1 DEF TypeOK, WorkerTypeOK
      <4> QED BY <1>1, <2>2, <4>1, QueueHead DEF Connects
    <3>2. e.conn \in Conns /\ (e.uid \in Uids => SaidLogin(e.conn, e.uid))
      BY <3>1, ConnectType, AcceptedHas DEF EventsSaid
    <3>3. /\ users'[w].uid = PutAbsent(users[w].uid, e.uid, e.conn)
          /\ \A v \in Workers \ {w} : users'[v] = users[v]
      <4>1. users' = [users EXCEPT ![w] = add_conn(@, e.conn, e.fd, e.uid)]
        BY <2>2 DEF on_new_connect
      <4>2. users'[w] = add_conn(users[w], e.conn, e.fd, e.uid)
        BY <4>1 DEF TypeOK, WorkerTypeOK
      <4> QED BY <4>1, <4>2 DEF add_conn, TypeOK, WorkerTypeOK
    <3> HIDE DEF e
    <3>4. \A u \in Uids : \/ users'[w].uid[u] = users[w].uid[u]
                          \/ u = e.uid /\ users'[w].uid[u] = e.conn
      <4>1. users[w] \in Manager(Accepted)
        BY DEF TypeOK, WorkerTypeOK
      <4>2. DOMAIN users[w].uid = Uids
        BY <4>1 DEF Manager
      <4> QED BY <3>3, <4>2 DEF PutAbsent
    <3>5. e.uid \in Uids => LoginIn(said', e.conn, e.uid)
      BY <1>1, <3>2, StillLoggedIn
    <3>6. \A v \in Workers, u \in Uids :
            \/ users'[v].uid[u] \in {NoConn, users[v].uid[u]}
            \/ LoginIn(said', users'[v].uid[u], u)
      BY <3>3, <3>4, <3>5
    <3> QED BY <1>1, <3>6, LoginsSaidStill
  <2> QED BY <2>1, <2>2 DEF handler_ioevent
<1> QED BY <1>1, <1>2, <1>3, FramesSaidStill, UidsSaidStill

LEMMA DelConnUids ==
  ASSUME NEW m, NEW f, NEW uidOf
  PROVE  del_conn(m, f, uidOf).uid =
           [u \in Uids |-> IF m.sock[f] # NoConn /\ uidOf[m.sock[f]] = u
                             THEN NoConn ELSE m.uid[u]]
BY DEF del_conn

LEMMA ConnOfflineAuthentic ==
  ASSUME TypeOK, Authentic, NEW w \in Workers, worker_conn_offline(w)
  PROVE  Authentic'
<1> USE DEF Authentic
<1>1. /\ UNCHANGED <<said, io_rd, io_uid, w_evs, ioevs_in, events_io>>
      /\ \A c \in Conns : Said(c) \subseteq Said(c)'
      /\ users' = [users EXCEPT ![w] = del_conn(@, sfd[closing[w]], wk_uid)]
  BY SaidSame DEF worker_conn_offline, netVars, ioVars
<1>2. \A v \in Workers, u \in Uids : users'[v].uid[u] \in {NoConn, users[v].uid[u]}
  <2>1. users'[w] = del_conn(users[w], sfd[closing[w]], wk_uid)
    BY <1>1 DEF TypeOK, WorkerTypeOK
  <2>2. \A u \in Uids : users'[w].uid[u] \in {NoConn, users[w].uid[u]}
    <3> DEFINE c == users[w].sock[sfd[closing[w]]]
    <3>1. users'[w].uid =
            [u \in Uids |-> IF c # NoConn /\ wk_uid[c] = u THEN NoConn ELSE users[w].uid[u]]
      BY <2>1, DelConnUids
    <3> HIDE DEF c
    <3> QED BY <3>1
  <2>3. \A v \in Workers \ {w} : users'[v] = users[v]
    BY <1>1 DEF TypeOK, WorkerTypeOK
  <2> QED BY <2>2, <2>3
<1> QED BY <1>1, <1>2, FramesSaidStill, UidsSaidStill, EventsSaidSame, LoginsSaidStill
-----------------------------------------------------------------------------
LEMMA NextAuthentic ==
  ASSUME TypeOK, Own, Authentic, [Next]_vars
  PROVE  Authentic'
<1>1. CASE UNCHANGED vars
  BY <1>1, SaidSame, AuthenticSame DEF vars, netVars, ioVars, queueVars, workVars
<1>2. CASE PeerNext
  BY <1>2, PeerAuthentic
<1>3. CASE IONext
  BY <1>3, EpollOneAuthentic, HandlerDataAuthentic, UnloginMsgAuthentic,
     HandlerReplyAuthentic, NotifyWorkersAuthentic DEF IONext
<1>4. ASSUME NEW w \in Workers, WorkerNext(w) PROVE Authentic'
  <2>1. CASE take_ioevents(w)
    BY <2>1, TakeIoeventsAuthentic
  <2>2. CASE handler_ioevent(w)
    BY <2>2, HandlerIoeventAuthentic
  <2>3. CASE worker_conn_offline(w)
    BY <2>3, ConnOfflineAuthentic
  <2>4. CASE \/ epoll_wait(w)
             \/ \E c \in epev_users[w] : handler_epevent(w, c)
             \/ \E i \in DOMAIN rd_users[w] : handler_epdata(w, i)
             \/ handler_msgs(w)
    <3>1. UNCHANGED <<said, io_rd, io_uid, w_evs, ioevs_in, events_io, users>>
      BY <2>4 DEF epoll_wait, handler_epevent, handler_epdata, handler_msgs,
                  netVars, ioVars, queueVars
    <3> QED BY <3>1, SaidSame, AuthenticSame
  <2> QED BY <1>4, <2>1, <2>2, <2>3, <2>4 DEF WorkerNext
<1> QED BY <1>1, <1>2, <1>3, <1>4 DEF Next

(* A worker knows a connection under a uid only if that connection itself  *)
(* logged in as it, whatever objects, numbers and events the threads       *)
(* passed on between the login and the map.                                *)
THEOREM LoginsAreAuthentic ==
  ASSUME KnownFrames
  PROVE  Spec => []LoginAuthentic
<1>1. TypeOK /\ Own /\ Authentic /\ [Next]_vars => Authentic'
  BY NextAuthentic
<1>2. Authentic => LoginAuthentic
  BY DEF Authentic
<1> QED BY <1>1, <1>2, InitAuthentic, TypeCorrect, Ownership, PTL DEF Spec
-----------------------------------------------------------------------------
(* The two maps of each worker.                                            *)

(* The number of a user whose end a worker is about to note is closed: it   *)
(* denotes that user's connection no more, nor ever again.                 *)
ClosingGone ==
  \A w \in Workers :
    closing[w] # NoConn => openfd[sfd[closing[w]]] # closing[w]

Mapped == MapsAgree /\ ClosingGone

(* Who a worker knows, by number and by uid.                               *)
LEMMA ManagerHas ==
  ASSUME TypeOK, NEW w \in Workers
  PROVE  /\ users[w].sock \in [Fds -> Accepted \cup {NoConn}]
         /\ users[w].uid \in [Uids -> Accepted \cup {NoConn}]
<1>1. users[w] \in Manager(Accepted)
  BY DEF TypeOK, WorkerTypeOK
<1> QED BY <1>1 DEF Manager

(* What is said of a user the worker knew before, or knows from now on.    *)
LEMMA MapsStill ==
  ASSUME TypeOK, MapsAgree, \A c \in Accepted : sfd'[c] = sfd[c],
         \A w \in Workers, u \in Uids : \A c :
           c = users'[w].uid[u] /\ c # NoConn =>
             \/ /\ c = users[w].uid[u] /\ wk_uid'[c] = wk_uid[c]
                /\ users'[w].sock[sfd[c]] = users[w].sock[sfd[c]]
             \/ /\ c \in Accepted /\ wk_uid'[c] = u
                /\ users'[w].sock[sfd[c]] = c
  PROVE  MapsAgree'
<1> SUFFICES ASSUME NEW w \in Workers, NEW u \in Uids, users'[w].uid[u] # NoConn
             PROVE  /\ users'[w].sock[sfd'[users'[w].uid[u]]] = users'[w].uid[u]
                    /\ wk_uid'[users'[w].uid[u]] = u
  BY DEF MapsAgree
<1>1. PICK c : c = users'[w].uid[u] /\ c # NoConn
  OBVIOUS
<1>2. \/ /\ c = users[w].uid[u] /\ wk_uid'[c] = wk_uid[c]
         /\ users'[w].sock[sfd[c]] = users[w].sock[sfd[c]]
      \/ /\ c \in Accepted /\ wk_uid'[c] = u
         /\ users'[w].sock[sfd[c]] = c
  BY <1>1
<1>3. c = users[w].uid[u] =>
        c \in Accepted /\ users[w].sock[sfd[c]] = c /\ wk_uid[c] = u
  <2>1. c # NoConn
    BY <1>1
  <2> QED BY <2>1, ManagerHas DEF MapsAgree
<1>4. c \in Accepted /\ users'[w].sock[sfd[c]] = c /\ wk_uid'[c] = u
  <2> HIDE DEF MapsAgree
  <2> QED BY <1>2, <1>3, Zenon
<1>5. sfd'[c] = sfd[c]
  BY <1>4, Zenon
<1> QED BY <1>1, <1>4, <1>5, Zenon

LEMMA ClosingStill ==
  ASSUME TypeOK, ClosingGone, closing' = closing,
         \A c \in Accepted : sfd'[c] = sfd[c],
         \A c \in Accepted : openfd'[sfd[c]] = c => openfd[sfd[c]] = c
  PROVE  ClosingGone'
<1> SUFFICES ASSUME NEW w \in Workers, closing[w] # NoConn
             PROVE  openfd'[sfd'[closing[w]]] # closing[w]
  BY DEF ClosingGone
<1>1. closing[w] \in Accepted
  BY WorkerHas
<1> QED BY <1>1 DEF ClosingGone

(* A step that touches no worker's users, and closes at most.              *)
LEMMA MappedStill ==
  ASSUME TypeOK, Mapped, UNCHANGED <<sfd, users, wk_uid, closing>>,
         \A f \in Fds : openfd'[f] \in {openfd[f], NoConn}
  PROVE  Mapped'
<1>1. MapsAgree'
  BY DEF Mapped, MapsAgree
<1>2. \A c \in Accepted : openfd'[sfd[c]] = c => openfd[sfd[c]] = c
  BY AcceptedHas
<1> QED BY <1>1, <1>2, ClosingStill DEF Mapped

(* What accept returns is of a connection the Gate has no object of.       *)
LEMMA EpollOneMapped == ASSUME TypeOK, Own, Mapped, epoll_one PROVE Mapped'
<1>1. UNCHANGED <<users, wk_uid, closing>> /\ AcceptSome
  BY DEF epoll_one, AcceptSome, workVars
<1>2. \A c \in Accepted : sfd'[c] = sfd[c]
  BY <1>1, AcceptKeeps DEF Own
<1>3. MapsAgree'
  BY <1>1, <1>2, MapsStill DEF Mapped
<1>4. ASSUME NEW c \in Accepted, openfd'[sfd[c]] = c PROVE openfd[sfd[c]] = c
  <2>1. \A d \in Pending : d # c
    BY DEF Pending, Accepted
  <2> QED BY <1>1, <1>4, <2>1, AcceptedHas
          DEF AcceptSome, AcceptNone, Accept, TypeOK, NetTypeOK
<1> QED BY <1>1, <1>2, <1>3, <1>4, ClosingStill DEF Mapped

LEMMA HandlerDataMapped == ASSUME TypeOK, Mapped, handler_data PROVE Mapped'
<1>1. UNCHANGED <<sfd, users, wk_uid, closing>>
  BY DEF handler_data, workVars
<1>2. \A f \in Fds : openfd'[f] \in {openfd[f], NoConn}
  BY DEF handler_data, ClosedFds
<1> QED BY <1>1, <1>2, MappedStill

LEMMA UnloginMsgMapped ==
  ASSUME TypeOK, Mapped, NEW i \in DOMAIN unlogin_reads, handler_unlogin_msg(i)
  PROVE  Mapped'
<1>1. UNCHANGED <<sfd, users, wk_uid, closing>>
  BY DEF handler_unlogin_msg, workVars
<1>2. openfd' = openfd \/ ClosedFds({sfd[unlogin_reads[i]]})
  BY DEF handler_unlogin_msg, Dispatch, kick_out
<1>3. \A f \in Fds : openfd'[f] \in {openfd[f], NoConn}
  BY <1>2 DEF ClosedFds
<1> QED BY <1>1, <1>3, MappedStill

(* A Logic is known by its number only.                                    *)
LEMMA HandlerReplyMapped == ASSUME TypeOK, Mapped, handler_reply PROVE Mapped'
<1>1. UNCHANGED <<sfd, openfd, wk_uid, closing>>
  BY DEF handler_reply
<1>2. CASE users' = users
  BY <1>1, <1>2, MappedStill
<1>3. ASSUME NEW c, NEW f, NEW w \in Least(Workers \ Started), NewWorker(c, f, w)
      PROVE  Mapped'
  <2>1. w \in Workers
    BY DEF Least
  <2>2. /\ users'[w] = add_conn(NoUsers, c, f, 0)
        /\ \A v \in Workers \ {w} : users'[v] = users[v]
    BY <1>3, <2>1 DEF NewWorker, TypeOK, WorkerTypeOK
  <2>3. \A u \in Uids : users'[w].uid[u] = NoConn
    BY <2>2, UserManagerAssumption DEF add_conn, NoUsers, PutAbsent
  <2>4. MapsAgree'
    BY <1>1, <2>2, <2>3, MapsStill DEF Mapped
  <2> QED BY <1>1, <2>4, ClosingStill DEF Mapped
<1> QED BY <1>2, <1>3
        DEF handler_reply, no_promotion, on_logic_verifyed, on_user_logined

(* The user of a connect event is in no worker's maps: its number is open, *)
(* and no worker watches it, or has it to forget.                          *)
LEMMA Connected ==
  ASSUME TypeOK, Own, Mapped, NEW w \in Workers, w_pc[w] = "connect",
         w_evs[w] # <<>>, Head(w_evs[w]).what = "connect",
         w_evs' = [w_evs EXCEPT ![w] = Tail(@)],
         on_new_connect(w, Head(w_evs[w])),
         UNCHANGED <<ioevs_in, events_io>>
  PROVE  \E e \in Event :
           /\ e = Head(w_evs[w]) /\ 1 \in Connects(w) /\ Queue(w)[1] = e
           /\ e.fd \in Fds /\ e.conn \in Accepted /\ e.conn # NoConn /\ e.conn \in Conns
           /\ openfd[e.fd] = e.conn /\ sfd[e.conn] = e.fd
           /\ \A v \in Workers : e.fd \notin ep[v] /\ users[v].sock[e.fd] # e.conn
           /\ users[w].sock[e.fd] = NoConn
           /\ \A v \in Workers \ {w} : users'[v] = users[v]
           /\ wk_uid'[e.conn] = e.uid
           /\ \A c \in Conns \ {e.conn} : wk_uid'[c] = wk_uid[c]
           /\ \A f \in Fds : users'[w].sock[f] = IF f = e.fd THEN e.conn ELSE users[w].sock[f]
           /\ \A u \in Uids : users'[w].uid[u] =
                IF u = e.uid /\ users[w].uid[u] = NoConn THEN e.conn ELSE users[w].uid[u]
<1>1. PICK e : e = Head(w_evs[w])
  OBVIOUS
<1>2. 1 \in Connects(w) /\ Queue(w)[1] = e
  <2>1. w_evs'[w] = Tail(w_evs[w])
    BY DEF TypeOK, WorkerTypeOK
  <2> QED BY <1>1, <2>1, QueueHead DEF Connects
<1>3. /\ e.fd \in Fds /\ e.conn \in Accepted /\ e.conn # NoConn /\ e.conn \in Conns
      /\ e \in Event
  BY <1>2, ConnectType, AcceptedHas
<1>4. /\ openfd[e.fd] = e.conn /\ sfd[e.conn] = e.fd
      /\ \A v \in Workers : e.fd \notin ep[v]
  <2>1. openfd[e.fd] = e.conn /\ \A v \in Workers : e.fd \notin ep[v]
    BY <1>2 DEF Own, QueuesOwn
  <2> QED BY <1>3, <2>1 DEF Own, IOOwns
<1>5. \A v \in Workers : users[v].sock[e.fd] # e.conn
  BY <1>3, <1>4 DEF Own, UsersOwn, Mapped, ClosingGone
<1>6. users[w].sock[e.fd] = NoConn
  <2>1. closing[w] = NoConn
    BY DEF Own, UsersOwn
  <2> QED BY <1>3, <1>4, <2>1 DEF Own, UsersOwn
<1>7. /\ users'[w] = add_conn(users[w], e.conn, e.fd, e.uid)
      /\ \A v \in Workers \ {w} : users'[v] = users[v]
      /\ wk_uid'[e.conn] = e.uid
      /\ \A c \in Conns \ {e.conn} : wk_uid'[c] = wk_uid[c]
  BY <1>1, <1>3 DEF on_new_connect, TypeOK, WorkerTypeOK
<1>8. /\ \A f \in Fds : users'[w].sock[f] = IF f = e.fd THEN e.conn ELSE users[w].sock[f]
      /\ \A u \in Uids : users'[w].uid[u] =
           IF u = e.uid /\ users[w].uid[u] = NoConn THEN e.conn ELSE users[w].uid[u]
  BY <1>6, <1>7, ManagerHas DEF add_conn, PutAbsent
<1> QED BY <1>1, <1>2, <1>3, <1>4, <1>5, <1>6, <1>7, <1>8, Zenon

LEMMA NewConnectMapped ==
  ASSUME TypeOK, Own, Mapped, NEW w \in Workers, w_pc[w] = "connect",
         w_evs[w] # <<>>, Head(w_evs[w]).what = "connect",
         w_evs' = [w_evs EXCEPT ![w] = Tail(@)],
         on_new_connect(w, Head(w_evs[w])),
         UNCHANGED <<ioevs_in, events_io, sfd, openfd, closing>>
  PROVE  Mapped'
<1>1. PICK e \in Event :
        /\ e.fd \in Fds /\ e.conn \in Accepted /\ e.conn # NoConn /\ e.conn \in Conns
        /\ openfd[e.fd] = e.conn /\ sfd[e.conn] = e.fd
        /\ \A v \in Workers : users[v].sock[e.fd] # e.conn
        /\ users[w].sock[e.fd] = NoConn
        /\ \A v \in Workers \ {w} : users'[v] = users[v]
        /\ wk_uid'[e.conn] = e.uid
        /\ \A c \in Conns \ {e.conn} : wk_uid'[c] = wk_uid[c]
        /\ \A f \in Fds : users'[w].sock[f] = IF f = e.fd THEN e.conn ELSE users[w].sock[f]
        /\ \A u \in Uids : users'[w].uid[u] =
             IF u = e.uid /\ users[w].uid[u] = NoConn THEN e.conn ELSE users[w].uid[u]
  BY Connected, ZenonT(120)
<1>2. ASSUME NEW v \in Workers, NEW u \in Uids, NEW c, c = users'[v].uid[u], c # NoConn
      PROVE  \/ /\ c = users[v].uid[u] /\ wk_uid'[c] = wk_uid[c]
                /\ users'[v].sock[sfd[c]] = users[v].sock[sfd[c]]
             \/ /\ c \in Accepted /\ wk_uid'[c] = u
                /\ users'[v].sock[sfd[c]] = c
  <2>1. CASE c = users[v].uid[u]
    <3>1. users[v].sock[sfd[c]] = c /\ c \in Accepted
      BY <1>2, <2>1, ManagerHas DEF Mapped, MapsAgree
    <3>2. c # e.conn
      BY <1>1, <3>1
    <3>3. v = w => sfd[c] # e.fd
      BY <1>1, <1>2, <3>1
    <3>4. users'[v].sock[sfd[c]] = users[v].sock[sfd[c]]
      BY <1>1, <3>1, <3>3, AcceptedHas
    <3> QED BY <1>1, <2>1, <3>1, <3>2, <3>4, AcceptedHas
  <2>2. CASE c # users[v].uid[u]
    <3>1. v = w /\ u = e.uid /\ c = e.conn
      BY <1>1, <1>2, <2>2
    <3>2. users'[w].sock[e.fd] = e.conn
      BY <1>1
    <3> QED BY <1>1, <3>1, <3>2
  <2> QED BY <2>1, <2>2
<1>3. MapsAgree'
  BY <1>2, MapsStill DEF Mapped
<1> QED BY <1>3, ClosingStill DEF Mapped

LEMMA HandlerIoeventMapped ==
  ASSUME TypeOK, Own, Mapped, NEW w \in Workers, handler_ioevent(w)
  PROVE  Mapped'
<1>1. /\ UNCHANGED <<sfd, openfd, ioevs_in, events_io, closing>>
      /\ w_pc[w] = "connect" /\ w_evs[w] # <<>>
      /\ w_evs' = [w_evs EXCEPT ![w] = Tail(@)]
  BY DEF handler_ioevent, Stays, queueVars
<1>2. CASE Head(w_evs[w]).what = "connect" /\ on_new_connect(w, Head(w_evs[w]))
  BY <1>1, <1>2, NewConnectMapped
<1>3. CASE UNCHANGED <<users, wk_uid>>
  BY <1>1, <1>3, MappedStill
<1> QED BY <1>2, <1>3 DEF handler_ioevent

LEMMA HandlerEpeventMapped ==
  ASSUME TypeOK, Mapped, NEW w \in Workers, NEW c \in epev_users[w],
         handler_epevent(w, c)
  PROVE  Mapped'
<1>1. UNCHANGED <<sfd, users, wk_uid>>
  BY DEF handler_epevent
<1>2. CASE UNCHANGED <<openfd, closing>>
  BY <1>1, <1>2, MappedStill
<1>3. CASE ClosedFds({sfd[c]}) /\ closing' = [closing EXCEPT ![w] = c]
  <2>1. c \in Accepted /\ c # NoConn /\ sfd[c] \in Fds
    BY WorkerHas, AcceptedHas
  <2>2. \A f \in Fds : openfd'[f] = IF f = sfd[c] THEN NoConn ELSE openfd[f]
    BY <1>3 DEF ClosedFds
  <2>3. \A v \in Workers : closing'[v] = IF v = w THEN c ELSE closing[v]
    BY <1>3 DEF TypeOK, WorkerTypeOK
  <2>4. ASSUME NEW v \in Workers, closing'[v] # NoConn
        PROVE  openfd'[sfd[closing'[v]]] # closing'[v]
    <3>1. CASE v = w
      BY <2>1, <2>2, <2>3, <3>1
    <3>2. CASE v # w
      <4>1. closing'[v] = closing[v] /\ closing[v] \in Accepted
        BY <2>3, <2>4, <3>2, WorkerHas
      <4>2. sfd[closing[v]] \in Fds /\ openfd[sfd[closing[v]]] # closing[v]
        BY <2>4, <4>1, AcceptedHas DEF Mapped, ClosingGone
      <4> QED BY <2>2, <2>4, <4>1, <4>2
    <3> QED BY <3>1, <3>2
  <2> QED BY <1>1, <2>4 DEF Mapped, MapsAgree, ClosingGone
<1> QED BY <1>2, <1>3 DEF handler_epevent

LEMMA Disconnected ==
  ASSUME TypeOK, NEW w \in Workers, worker_conn_offline(w), NEW f, f = sfd[closing[w]]
  PROVE  /\ \A v \in Workers \ {w} : users'[v] = users[v]
         /\ \A v \in Workers : closing'[v] = IF v = w THEN NoConn ELSE closing[v]
         /\ \A g \in Fds : users'[w].sock[g] = IF g = f THEN NoConn ELSE users[w].sock[g]
         /\ \A u \in Uids : users'[w].uid[u] =
              IF users[w].sock[f] # NoConn /\ wk_uid[users[w].sock[f]] = u
                THEN NoConn ELSE users[w].uid[u]
<1>1. /\ closing' = [closing EXCEPT ![w] = NoConn]
      /\ users' = [users EXCEPT ![w] = del_conn(@, sfd[closing[w]], wk_uid)]
  BY DEF worker_conn_offline
<1>2. /\ users'[w] = del_conn(users[w], f, wk_uid)
      /\ \A v \in Workers \ {w} : users'[v] = users[v]
      /\ \A v \in Workers : closing'[v] = IF v = w THEN NoConn ELSE closing[v]
  BY <1>1 DEF TypeOK, WorkerTypeOK
<1>3. users'[w].sock = [users[w].sock EXCEPT ![f] = NoConn]
  BY <1>2 DEF del_conn
<1>4. users'[w].uid = [u \in Uids |->
         IF users[w].sock[f] # NoConn /\ wk_uid[users[w].sock[f]] = u
           THEN NoConn ELSE users[w].uid[u]]
  BY <1>2, DelConnUids
<1> QED BY <1>2, <1>3, <1>4, ManagerHas

(* del_conn forgets by uid whomever it forgets by number.                  *)
LEMMA ConnOfflineMapped ==
  ASSUME TypeOK, Mapped, NEW w \in Workers, worker_conn_offline(w)
  PROVE  Mapped'
<1>1. UNCHANGED <<sfd, openfd, wk_uid>>
  BY DEF worker_conn_offline, netVars
<1>2. PICK f : f = sfd[closing[w]]
  OBVIOUS
<1>3. /\ \A v \in Workers \ {w} : users'[v] = users[v]
      /\ \A v \in Workers : closing'[v] = IF v = w THEN NoConn ELSE closing[v]
      /\ \A g \in Fds : users'[w].sock[g] = IF g = f THEN NoConn ELSE users[w].sock[g]
      /\ \A u \in Uids : users'[w].uid[u] =
           IF users[w].sock[f] # NoConn /\ wk_uid[users[w].sock[f]] = u
             THEN NoConn ELSE users[w].uid[u]
  BY <1>2, Disconnected
<1>4. ASSUME NEW v \in Workers, NEW u \in Uids, NEW c, c = users'[v].uid[u], c # NoConn
      PROVE  /\ c = users[v].uid[u]
             /\ users'[v].sock[sfd[c]] = users[v].sock[sfd[c]]
  <2>1. CASE v = w
    <3>1. c = users[w].uid[u] /\ c \in Accepted
      BY <1>3, <1>4, <2>1, ManagerHas
    <3>2. users[w].sock[sfd[c]] = c /\ wk_uid[c] = u
      BY <1>4, <3>1 DEF Mapped, MapsAgree
    <3>3. sfd[c] # f
      BY <1>3, <1>4, <2>1, <3>2
    <3>4. sfd[c] \in Fds
      BY <3>1, AcceptedHas
    <3>5. users'[w].sock[sfd[c]] = users[w].sock[sfd[c]]
      BY <1>3, <3>3, <3>4
    <3> QED BY <2>1, <3>1, <3>5
  <2>2. CASE v # w
    BY <1>3, <1>4, <2>2
  <2> QED BY <2>1, <2>2
<1>5. wk_uid' = wk_uid /\ \A c \in Accepted : sfd'[c] = sfd[c]
  BY <1>1
<1>6. MapsAgree'
  BY <1>4, <1>5, MapsStill DEF Mapped
<1>7. ClosingGone'
  BY <1>1, <1>3 DEF Mapped, ClosingGone
<1> QED BY <1>6, <1>7 DEF Mapped
-----------------------------------------------------------------------------
LEMMA NextMapped ==
  ASSUME TypeOK, Own, Mapped, [Next]_vars
  PROVE  Mapped'
<1>1. CASE UNCHANGED <<sfd, openfd, users, wk_uid, closing>>
  BY <1>1, MappedStill
<1>2. CASE UNCHANGED vars \/ PeerNext
  <2>1. UNCHANGED <<sfd, openfd, users, wk_uid, closing>>
    BY <1>2 DEF vars, netVars, workVars, PeerNext, Connect, Send, PeerClose
  <2> QED BY <1>1, <2>1
<1>3. CASE IONext
  <2>1. CASE notify_workers
    <3>1. UNCHANGED <<sfd, openfd, users, wk_uid, closing>>
      BY <2>1 DEF notify_workers, netVars, workVars
    <3> QED BY <1>1, <3>1
  <2> QED BY <1>3, <2>1, EpollOneMapped, HandlerDataMapped, UnloginMsgMapped,
             HandlerReplyMapped DEF IONext
<1>4. ASSUME NEW w \in Workers, WorkerNext(w) PROVE Mapped'
  <2>1. CASE handler_ioevent(w)
    BY <2>1, HandlerIoeventMapped
  <2>2. CASE \E c \in epev_users[w] : handler_epevent(w, c)
    BY <2>2, HandlerEpeventMapped
  <2>3. CASE worker_conn_offline(w)
    BY <2>3, ConnOfflineMapped
  <2>4. CASE \/ take_ioevents(w) \/ epoll_wait(w) \/ handler_msgs(w)
             \/ \E i \in DOMAIN rd_users[w] : handler_epdata(w, i)
    <3>1. UNCHANGED <<sfd, openfd, users, wk_uid, closing>>
      BY <2>4 DEF take_ioevents, epoll_wait, handler_epdata, handler_msgs, netVars
    <3> QED BY <1>1, <3>1
  <2> QED BY <1>4, <2>1, <2>2, <2>3, <2>4 DEF WorkerNext
<1> QED BY <1>2, <1>3, <1>4 DEF Next

(* Whoever a worker knows by its uid it also knows by its number, under    *)
(* that uid: so the end of its connection will take it out of both maps,   *)
(* in whatever order connections end and others get their numbers.         *)
THEOREM MapsAlwaysAgree ==
  ASSUME KnownFrames
  PROVE  Spec => []MapsAgree
<1>1. Init => Mapped
  BY DEF Init, WorkerInit, Mapped, MapsAgree, ClosingGone, NoUsers
<1>2. TypeOK /\ Own /\ Mapped /\ [Next]_vars => Mapped'
  BY NextMapped
<1>3. Mapped => MapsAgree
  BY DEF Mapped
<1> QED BY <1>1, <1>2, <1>3, TypeCorrect, Ownership, PTL DEF Spec
-----------------------------------------------------------------------------
(* Users between the two threads.                                          *)

(* The connections with frames to parse in _unlogin_reads.                 *)
ToParse == {c \in Elements(unlogin_reads) : io_rd[c] # <<>>}

(* In a turn of the IO thread a number is replied to at most once: whoever *)
(* has it is parsed before all replies are handled, all of its frames in   *)
(* one.                                                                    *)
RepliedOnce ==
  /\ io_pc # "msgs" => rsp_msgs = <<>>
  /\ \A j, k \in DOMAIN rsp_msgs : rsp_msgs[j].fd = rsp_msgs[k].fd => j = k
  /\ \A c \in ToParse : \A k \in DOMAIN rsp_msgs : rsp_msgs[k].fd # sfd[c]
  /\ \A c, d \in ToParse : sfd[c] = sfd[d] => c = d

(* A user that has its uid is still to be handed over as long as the IO    *)
(* thread keeps it under its number: the reply to its login will do it.    *)
LoginReply(f, k) == rsp_msgs[k].fd = f /\ rsp_msgs[k].msg.kind = "loginok"

LoginReplied ==
  \A c \in Conns : io_uid[c] \in Uids =>
    /\ c \in Accepted
    /\ unlogin_users[sfd[c]] = c => \E k \in DOMAIN rsp_msgs : LoginReply(sfd[c], k)

(* Then it is under way to a worker, or watched by one.                    *)
OnItsWay(c, w) == \E i \in Connects(w) : Queue(w)[i].conn = c

Kept ==
  \A c \in Conns :
    Handed(c) /\ io_uid[c] \in Uids =>
      \E w \in Workers : OnItsWay(c, w) \/ sfd[c] \in ep[w]

Followed == RepliedOnce /\ LoginReplied /\ Kept
-----------------------------------------------------------------------------
(* The three stretches of a queue, and the queue.                          *)
LEMMA InStretch ==
  ASSUME NEW c, NEW s \in Seq(Event), NEW t \in Seq(Event), InQueue(c, s \o t)
  PROVE  InQueue(c, s) \/ InQueue(c, t)
<1>1. PICK i \in DOMAIN (s \o t) : (s \o t)[i].conn = c /\ (s \o t)[i].what = "connect"
  BY DEF InQueue
<1>2. /\ i \in 1 .. Len(s) + Len(t)
      /\ (s \o t)[i] = IF i <= Len(s) THEN s[i] ELSE t[i - Len(s)]
      /\ Len(s) \in Nat /\ Len(t) \in Nat
      /\ DOMAIN s = 1 .. Len(s) /\ DOMAIN t = 1 .. Len(t)
  BY ConcatProperties, LenProperties
<1>3. CASE i <= Len(s)
  <2>1. i \in DOMAIN s /\ (s \o t)[i] = s[i]
    BY <1>2, <1>3
  <2> QED BY <1>1, <2>1 DEF InQueue
<1>4. CASE ~(i <= Len(s))
  <2>1. i - Len(s) \in DOMAIN t /\ (s \o t)[i] = t[i - Len(s)]
    BY <1>2, <1>4
  <2> QED BY <1>1, <2>1 DEF InQueue
<1> QED BY <1>3, <1>4

LEMMA OnItsWayQueued ==
  ASSUME TypeOK, NEW c, NEW w \in Workers, OnItsWay(c, w)
  PROVE  Queued(c, w)
<1>1. InQueue(c, Queue(w))
  BY DEF OnItsWay, InQueue, Connects
<1>2. /\ w_evs[w] \in Seq(Event) /\ ioevs_in[w] \in Seq(Event)
      /\ events_io[w] \in Seq(Event) /\ w_evs[w] \o ioevs_in[w] \in Seq(Event)
  BY QueueType, ConcatProperties
<1>3. InQueue(c, w_evs[w] \o ioevs_in[w]) \/ InQueue(c, events_io[w])
  BY <1>1, <1>2, InStretch DEF Queue
<1> QED BY <1>2, <1>3, InStretch DEF Queued

(* What is appended to a queue leaves the events in it where they are.     *)
LEMMA StaysQueued ==
  ASSUME TypeOK, NEW w \in Workers, NEW r \in Seq(Event),
         Queue(w)' = Queue(w) \o r, NEW i \in Connects(w)
  PROVE  i \in Connects(w)' /\ Queue(w)'[i] = Queue(w)[i]
<1>1. Queue(w) \in Seq(Event) /\ i \in 1 .. Len(Queue(w))
  BY QueueType, ConnectType
<1>2. /\ i \in DOMAIN (Queue(w) \o r)
      /\ (Queue(w) \o r)[i] = Queue(w)[i]
  BY <1>1, ConcatProperties, LenProperties
<1> QED BY <1>2 DEF Connects

LEMMA HandOverGrows ==
  ASSUME TypeOK, NEW w \in Workers, NEW e \in Event, e.what = "connect",
         UNCHANGED <<w_evs, ioevs_in>>,
         events_io' = [events_io EXCEPT ![w] = Append(@, e)]
  PROVE  /\ \A v \in Workers : \A i \in Connects(v) :
              i \in Connects(v)' /\ Queue(v)'[i] = Queue(v)[i]
         /\ \E i \in Connects(w)' : Queue(w)'[i] = e
<1>1. events_io[w] \in Seq(Event) /\ <<e>> \in Seq(Event) /\ Queue(w) \in Seq(Event)
  BY QueueType
<1>2. events_io'[w] = events_io[w] \o <<e>>
  BY <1>1, AppendIsConcat DEF TypeOK, WorkerTypeOK
<1>3. Queue(w)' = Queue(w) \o <<e>>
  BY <1>1, <1>2, QueueGrows
<1>4. ASSUME NEW v \in Workers, NEW i \in Connects(v)
      PROVE  i \in Connects(v)' /\ Queue(v)'[i] = Queue(v)[i]
  <2>1. CASE v = w
    BY <1>1, <1>3, <2>1, StaysQueued
  <2>2. CASE v # w
    <3>1. events_io'[v] = events_io[v]
      BY <2>2 DEF TypeOK, WorkerTypeOK
    <3>2. Queue(v)' = Queue(v) /\ Connects(v)' = Connects(v)
      BY <3>1 DEF Queue, Connects
    <3> QED BY <3>2
  <2> QED BY <2>1, <2>2
<1>5. \E i \in Connects(w)' : Queue(w)'[i] = e
  <2> DEFINE i == Len(Queue(w)) + 1
  <2>1. Len(<<e>>) = 1 /\ <<e>>[1] = e /\ Len(Queue(w)) \in Nat
    BY <1>1, LenProperties
  <2>2. i \in DOMAIN (Queue(w) \o <<e>>) /\ (Queue(w) \o <<e>>)[i] = e
    BY <1>1, <2>1, ConcatProperties, LenProperties
  <2>3. i \in Connects(w)' /\ Queue(w)'[i] = e
    BY <1>3, <2>2 DEF Connects
  <2> QED BY <2>3
<1> QED BY <1>4, <1>5

(* All but the event a worker handles stay in its queue.                   *)
LEMMA HandledLeaves ==
  ASSUME TypeOK, NEW w \in Workers, w_evs[w] # <<>>,
         w_evs' = [w_evs EXCEPT ![w] = Tail(@)], UNCHANGED <<ioevs_in, events_io>>,
         NEW v \in Workers, NEW i \in Connects(v)
  PROVE  \/ v = w /\ i = 1 /\ Queue(v)[i] = Head(w_evs[w])
         \/ \E j \in Connects(v)' : Queue(v)'[j] = Queue(v)[i]
<1>1. CASE v = w
  <2>1. w_evs'[w] = Tail(w_evs[w])
    BY DEF TypeOK, WorkerTypeOK
  <2>2. /\ Queue(w)[1] = Head(w_evs[w])
        /\ \A k \in DOMAIN Queue(w)' : Queue(w)'[k] = Queue(w)[k + 1]
        /\ \A k \in DOMAIN Queue(w) \ {1} : k - 1 \in DOMAIN Queue(w)'
    BY <2>1, QueueHead
  <2>3. CASE i # 1
    <3>1. i \in DOMAIN Queue(w) /\ i \in Nat /\ i - 1 + 1 = i
      BY <1>1, ConnectType DEF Connects
    <3>2. i - 1 \in DOMAIN Queue(w)' /\ Queue(w)'[i - 1] = Queue(w)[i]
      BY <2>2, <2>3, <3>1
    <3>3. Queue(w)[i].what = "connect"
      BY <1>1 DEF Connects
    <3>4. i - 1 \in Connects(w)'
      BY <3>2, <3>3 DEF Connects
    <3> QED BY <1>1, <3>2, <3>4
  <2> QED BY <1>1, <2>2, <2>3
<1>2. CASE v # w
  <2>1. w_evs'[v] = w_evs[v]
    BY <1>2 DEF TypeOK, WorkerTypeOK
  <2>2. Queue(v)' = Queue(v) /\ Connects(v)' = Connects(v)
    BY <2>1 DEF Queue, Connects
  <2> QED BY <2>2
<1> QED BY <1>1, <1>2
-----------------------------------------------------------------------------
(* A step that hands over nobody, takes nobody off the queues, and no open *)
(* number from a worker's epoll.                                           *)
LEMMA KeptStill ==
  ASSUME Kept,
         \A c \in Conns : Handed(c)' /\ io_uid'[c] \in Uids =>
           /\ Handed(c) /\ io_uid[c] \in Uids
           /\ \A w \in Workers :
                OnItsWay(c, w) \/ sfd[c] \in ep[w] =>
                  \E v \in Workers : OnItsWay(c, v)' \/ sfd'[c] \in ep'[v]
  PROVE  Kept'
BY DEF Kept

LEMMA QueueSame ==
  ASSUME NEW c, NEW w, Queue(w)' = Queue(w), OnItsWay(c, w)
  PROVE  OnItsWay(c, w)'
BY DEF OnItsWay, Connects

LEMMA KeptSame ==
  ASSUME Kept, UNCHANGED <<io_uid, sfd, openfd, epio, ep>>,
         \A w \in Workers : Queue(w)' = Queue(w)
  PROVE  Kept'
<1>1. \A c \in Conns : Handed(c)' => Handed(c)
  BY DEF Handed
<1>2. \A c, w : w \in Workers /\ OnItsWay(c, w) => OnItsWay(c, w)'
  BY QueueSame
<1> QED BY <1>1, <1>2, KeptStill

LEMMA KeptClosed ==
  ASSUME TypeOK, Kept, NEW F, ClosedFds(F),
         UNCHANGED <<io_uid, sfd, w_evs, ioevs_in, events_io>>
  PROVE  Kept'
<1>1. \A w \in Workers : Queue(w)' = Queue(w)
  BY DEF Queue
<1>2. \A c, w : w \in Workers /\ OnItsWay(c, w) => OnItsWay(c, w)'
  BY <1>1, QueueSame
<1>3. ASSUME NEW c \in Conns, Handed(c)'
      PROVE  Handed(c) /\ \A w \in Workers : sfd[c] \in ep[w] => sfd'[c] \in ep'[w]
  <2>1. c # NoConn /\ sfd[c] \in Fds
    BY <1>3, UserManagerAssumption DEF Handed, TypeOK, NetTypeOK
  <2>2. sfd[c] \notin F /\ openfd[sfd[c]] = c
    BY <1>3, <2>1 DEF Handed, ClosedFds
  <2> QED BY <1>3, <2>1, <2>2 DEF Handed, ClosedFds
<1> QED BY <1>2, <1>3, KeptStill

(* The replies are the same, and nobody new is to be parsed.               *)
LEMMA RepliesSame ==
  ASSUME RepliedOnce, LoginReplied, UNCHANGED <<io_pc, rsp_msgs, sfd, io_uid>>,
         ToParse' \subseteq ToParse,
         \A f \in Fds : unlogin_users'[f] \in {unlogin_users[f], NoConn}, TypeOK
  PROVE  RepliedOnce' /\ LoginReplied'
<1>1. RepliedOnce'
  BY DEF RepliedOnce
<1>2. ASSUME NEW c \in Conns, io_uid[c] \in Uids
      PROVE  /\ c \in Accepted'
             /\ unlogin_users'[sfd[c]] = c => unlogin_users[sfd[c]] = c
  <2>1. c \in Accepted
    BY <1>2 DEF LoginReplied
  <2>2. c # NoConn /\ sfd[c] \in Fds
    BY <2>1, AcceptedHas
  <2> QED BY <2>1, <2>2 DEF Accepted
<1>3. LoginReplied'
  BY <1>2 DEF LoginReplied, LoginReply
<1> QED BY <1>1, <1>3

LEMMA WorkerReplies ==
  ASSUME TypeOK, RepliedOnce, LoginReplied, UNCHANGED <<ioVars, sfd>>
  PROVE  RepliedOnce' /\ LoginReplied'
<1>1. ToParse' = ToParse
  BY DEF ioVars, ToParse, Elements
<1> QED BY <1>1, RepliesSame DEF ioVars
-----------------------------------------------------------------------------
LEMMA InitFollowed == Init => Followed
<1> SUFFICES ASSUME Init PROVE Followed
  OBVIOUS
<1> USE DEF Init, NetInit, IOInit, WorkerInit
<1>1. ToParse = {}
  BY DEF ToParse, Elements
<1>2. RepliedOnce
  BY <1>1 DEF RepliedOnce
<1>3. LoginReplied /\ Kept
  BY UserManagerAssumption DEF LoginReplied, Kept
<1> QED BY <1>2, <1>3 DEF Followed

LEMMA PeerFollowed == ASSUME TypeOK, Followed, PeerNext PROVE Followed'
<1>1. UNCHANGED <<sfd, openfd, epio, ep, ioVars, queueVars, workVars>>
  BY DEF PeerNext, Connect, Send, PeerClose
<1>2. \A w \in Workers : Queue(w)' = Queue(w)
  BY <1>1 DEF queueVars, workVars, Queue
<1>3. Kept'
  BY <1>1, <1>2, KeptSame DEF ioVars, Followed
<1> QED BY <1>1, <1>3, WorkerReplies DEF Followed

(* What is accepted is of a connection that has no uid yet.                *)
LEMMA EpollOneFollowed ==
  ASSUME TypeOK, Own, Followed, epoll_one
  PROVE  Followed'
<1> USE DEF Followed
<1>1. /\ UNCHANGED <<unlogin_reads, io_rd, io_uid, rsp_msgs, ep>> /\ AcceptSome
      /\ io_pc = "epoll" /\ rsp_msgs = <<>>
  BY DEF epoll_one, AcceptSome, RepliedOnce
<1>2. ToParse' = {}
  <2>1. \A i \in DOMAIN unlogin_reads : io_rd[unlogin_reads[i]] = <<>>
    BY <1>1 DEF Own, ListsFresh
  <2> QED BY <1>1, <2>1 DEF ToParse, Elements
<1>3. RepliedOnce'
  BY <1>1, <1>2 DEF RepliedOnce
<1>4. /\ \A f \in Fds : openfd[f] # NoConn =>
           openfd'[f] = openfd[f] /\ (f \in epio' <=> f \in epio)
      /\ \A c \in Accepted : sfd'[c] = sfd[c]
  BY <1>1, AcceptKeeps DEF Own
<1>5. /\ \A c \in Accepted : c \in Accepted' /\ sfd[c] \in Fds
      /\ \A c \in Accepted, f \in Fds :
           unlogin_users'[f] = c => unlogin_users[f] = c
      /\ \A c \in Conns : /\ c \notin Accepted /\ c \in Accepted' => sfd'[c] \in epio'
                          /\ c \in Accepted /\ openfd'[sfd[c]] = c => openfd[sfd[c]] = c
  <2>1. CASE AcceptNone
    BY <2>1, AcceptedHas DEF AcceptNone, Accepted
  <2>2. ASSUME NEW d \in Pending, NEW g \in FreeFds, Accept(d, g)
        PROVE  /\ \A c \in Accepted : c \in Accepted' /\ sfd[c] \in Fds
               /\ \A c \in Accepted, f \in Fds :
                    unlogin_users'[f] = c => unlogin_users[f] = c
               /\ \A c \in Conns :
                    /\ c \notin Accepted /\ c \in Accepted' => sfd'[c] \in epio'
                    /\ c \in Accepted /\ openfd'[sfd[c]] = c => openfd[sfd[c]] = c
    <3>1. /\ d \notin Accepted /\ d \in Conns /\ g \in Fds
      BY DEF Pending, FreeFds, Accepted
    <3>2. /\ \A c \in Conns : sfd'[c] = IF c = d THEN g ELSE sfd[c]
          /\ \A f \in Fds : openfd'[f] = IF f = g THEN d ELSE openfd[f]
          /\ epio' = epio \cup {g}
          /\ \A f \in Fds : unlogin_users'[f] \in {unlogin_users[f], d}
      BY <2>2, <3>1 DEF Accept, on_accept, PutAbsent, TypeOK, NetTypeOK, IOTypeOK
    <3>3. \A c \in Accepted : c \in Accepted' /\ sfd[c] \in Fds /\ c # d
      BY <1>4, <3>1, AcceptedHas DEF Accepted
    <3>4. \A c \in Conns : c \notin Accepted /\ c \in Accepted' => c = d
      BY <3>2 DEF Accepted
    <3> QED BY <3>1, <3>2, <3>3, <3>4
  <2> QED BY <1>1, <2>1, <2>2 DEF AcceptSome
<1>6. LoginReplied'
  <2>1. ASSUME NEW c \in Conns, io_uid[c] \in Uids
        PROVE  c \in Accepted' /\ unlogin_users'[sfd'[c]] # c
    <3>1. c \in Accepted /\ unlogin_users[sfd[c]] # c
      BY <1>1, <2>1 DEF LoginReplied
    <3> QED BY <1>4, <1>5, <3>1
  <2> QED BY <1>1, <2>1 DEF LoginReplied
<1>7. Kept'
  <2>1. ASSUME NEW c \in Conns, Handed(c)'
        PROVE  Handed(c) /\ sfd'[c] = sfd[c]
    <3>1. c \in Accepted' /\ openfd'[sfd'[c]] = c /\ sfd'[c] \notin epio'
      BY <2>1 DEF Handed, Accepted
    <3>2. c \in Accepted
      BY <1>5, <3>1
    <3>3. sfd'[c] = sfd[c] /\ openfd[sfd[c]] = c /\ sfd[c] \in Fds /\ c # NoConn
      BY <1>4, <1>5, <3>1, <3>2, AcceptedHas
    <3> QED BY <1>4, <3>1, <3>2, <3>3 DEF Handed, Accepted
  <2>2. ASSUME NEW c, NEW w \in Workers, OnItsWay(c, w) PROVE OnItsWay(c, w)'
    <3>1. PICK r \in Seq(Event) : Queue(w)' = Queue(w) \o r
      BY EpollOneGrows
    <3>2. PICK i \in Connects(w) : Queue(w)[i].conn = c
      BY <2>2 DEF OnItsWay
    <3>3. i \in Connects(w)' /\ Queue(w)'[i] = Queue(w)[i]
      BY <3>1, StaysQueued
    <3> QED BY <3>2, <3>3 DEF OnItsWay
  <2> QED BY <1>1, <2>1, <2>2, KeptStill
<1> QED BY <1>3, <1>6, <1>7

(* What there is to parse was read in this turn, from users the IO thread  *)
(* knew by their numbers.                                                  *)
LEMMA HandlerDataFollowed ==
  ASSUME TypeOK, Own, Followed, handler_data
  PROVE  Followed'
<1> USE DEF Followed
<1>1. /\ UNCHANGED <<sfd, io_uid, rsp_msgs, w_evs, ioevs_in, events_io>>
      /\ io_pc = "data" /\ io_pc' = "msgs" /\ rsp_msgs = <<>>
  BY DEF handler_data, queueVars, workVars, RepliedOnce
<1>2. PICK F : ClosedFds(F) /\ unlogin_users' = Without(F)
  BY DEF handler_data, on_conn_offline_all
<1>3. ToParse' \subseteq unlogin_events
  <2>1. PICK s \in Orders({c \in unlogin_events : ~Failed(c)}) :
          unlogin_reads' = unlogin_reads \o s
    <3>1. unlogin_events \ {c \in unlogin_events : Failed(c)}
            = {c \in unlogin_events : ~Failed(c)}
      OBVIOUS
    <3> QED BY <3>1 DEF handler_data
  <2>2. /\ unlogin_reads \in Seq(Accepted) /\ s \in Seq(Accepted)
        /\ \A j \in 1 .. Len(s) : s[j] \in unlogin_events
    <3> DEFINE T == {c \in unlogin_events : ~Failed(c)}
    <3>1. T \subseteq unlogin_events /\ T \subseteq Accepted /\ T \subseteq Conns
      BY DEF TypeOK, IOTypeOK, Accepted
    <3>2. IsFiniteSet(T)
      BY <3>1, FS_Subset, GateAssumption
    <3> HIDE DEF T
    <3>3. s \in Seq(T)
      BY <2>1, <3>2, OrdersType DEF T
    <3> QED BY <3>1, <3>3, ElementOfSeq DEF TypeOK, IOTypeOK
  <2>3. ASSUME NEW j \in DOMAIN unlogin_reads', unlogin_reads'[j] \notin unlogin_events
        PROVE  io_rd'[unlogin_reads'[j]] = <<>>
    <3>1. PICK c : c = unlogin_reads'[j]
      OBVIOUS
    <3>2. /\ j \in 1 .. Len(unlogin_reads) + Len(s)
          /\ c = IF j <= Len(unlogin_reads) THEN unlogin_reads[j]
                                            ELSE s[j - Len(unlogin_reads)]
          /\ Len(unlogin_reads) \in Nat /\ Len(s) \in Nat
      BY <2>1, <2>2, <3>1, ConcatProperties, LenProperties
    <3>3. j <= Len(unlogin_reads)
      <4>1. ~(j <= Len(unlogin_reads)) => j - Len(unlogin_reads) \in 1 .. Len(s)
        BY <3>2
      <4> QED BY <2>2, <2>3, <3>1, <3>2, <4>1
    <3>4. j \in DOMAIN unlogin_reads /\ c = unlogin_reads[j]
      BY <2>2, <3>2, <3>3, LenProperties
    <3>5. io_rd[c] = <<>> /\ c \in Conns
      BY <1>1, <2>2, <3>4 DEF Own, ListsFresh, Accepted
    <3> QED BY <2>3, <3>1, <3>5 DEF handler_data
  <2> QED BY <2>3 DEF ToParse, Elements
<1>4. \A c \in unlogin_events : unlogin_users[sfd[c]] = c
  BY DEF Own, ListsFresh
<1>5. RepliedOnce'
  BY <1>1, <1>3, <1>4 DEF RepliedOnce
<1>6. LoginReplied'
  <2>1. ASSUME NEW c \in Conns, io_uid[c] \in Uids
        PROVE  c \in Accepted' /\ unlogin_users'[sfd[c]] # c
    <3>1. c \in Accepted /\ unlogin_users[sfd[c]] # c
      BY <1>1, <2>1 DEF LoginReplied
    <3> QED BY <1>1, <1>2, <3>1, AcceptedHas DEF Without, Accepted
  <2> QED BY <1>1, <2>1 DEF LoginReplied
<1>7. Kept'
  BY <1>1, <1>2, KeptClosed
<1> QED BY <1>5, <1>6, <1>7

(* The reply to a frame is the only one to its number, and a login that    *)
(* succeeds is replied to as one.                                          *)
LEMMA Dispatched ==
  ASSUME TypeOK, Own, Followed, NEW c \in ToParse, NEW m \in Msg, Dispatch(c, m),
         UNCHANGED <<io_pc, sfd>>, io_pc = "msgs", ToParse' \subseteq ToParse \ {c}
  PROVE  RepliedOnce' /\ LoginReplied'
<1> USE DEF Followed
<1>1. /\ unlogin_users' = unlogin_users /\ rsp_msgs \in Seq(Rsp)
      /\ c \in Accepted /\ c \in Conns
  <2>1. c \in Accepted
    BY DEF ToParse, Elements, TypeOK, IOTypeOK
  <2> QED BY <2>1 DEF Dispatch, TypeOK, IOTypeOK, Accepted
<1>2. PICK r : /\ r.fd = sfd[c] /\ rsp_msgs' = Append(rsp_msgs, r)
               /\ \/ io_uid' = io_uid
                  \/ /\ io_uid' = [io_uid EXCEPT ![c] = m.uid]
                     /\ m.uid # -1 => r.msg.kind = "loginok"
  <2>1. \A kind, uid :
          [fd |-> sfd[c], msg |-> [kind |-> kind, uid |-> uid]].fd = sfd[c]
    OBVIOUS
  <2>2. CASE on_user_login(c, m)
    <3> DEFINE k == IF m.uid = -1 THEN "loginfail" ELSE "loginok"
               r == [fd |-> sfd[c], msg |-> [kind |-> k, uid |-> m.uid]]
    <3>1. r.fd = sfd[c] /\ (m.uid # -1 => r.msg.kind = "loginok")
      OBVIOUS
    <3>2. /\ rsp_msgs' = Append(rsp_msgs, r)
          /\ io_uid' = [io_uid EXCEPT ![c] = m.uid]
      BY <2>2 DEF on_user_login, Reply
    <3> QED BY <3>1, <3>2
  <2>3. CASE on_user_register(c, m)
    BY <2>1, <2>3 DEF on_user_register, Reply
  <2>4. CASE on_system_verify(c, m)
    BY <2>1, <2>4 DEF on_system_verify, Reply
  <2> QED BY <2>2, <2>3, <2>4 DEF Dispatch
<1>3. /\ Len(rsp_msgs) \in Nat /\ DOMAIN rsp_msgs = 1 .. Len(rsp_msgs)
      /\ DOMAIN rsp_msgs' = 1 .. Len(rsp_msgs) + 1
      /\ \A k \in 1 .. Len(rsp_msgs) : rsp_msgs'[k] = rsp_msgs[k]
      /\ rsp_msgs'[Len(rsp_msgs) + 1] = r
  BY <1>1, <1>2
<1>4. PICK n : n = Len(rsp_msgs)
  OBVIOUS
<1>5. \A k \in DOMAIN rsp_msgs : rsp_msgs[k].fd # sfd[c]
  BY DEF RepliedOnce
<1>6. \A k \in DOMAIN rsp_msgs' :
        \/ k = n + 1 /\ rsp_msgs'[k].fd = sfd[c]
        \/ k \in DOMAIN rsp_msgs /\ rsp_msgs'[k] = rsp_msgs[k] /\ rsp_msgs'[k].fd # sfd[c]
  BY <1>2, <1>3, <1>4, <1>5
<1>7. RepliedOnce'
  <2>1. ASSUME NEW j \in DOMAIN rsp_msgs', NEW k \in DOMAIN rsp_msgs',
               rsp_msgs'[j].fd = rsp_msgs'[k].fd
        PROVE  j = k
    BY <1>6, <2>1 DEF RepliedOnce
  <2>2. ASSUME NEW d \in ToParse', NEW k \in DOMAIN rsp_msgs'
        PROVE  rsp_msgs'[k].fd # sfd[d]
    <3>1. d \in ToParse /\ d # c
      OBVIOUS
    <3>2. sfd[d] # sfd[c]
      BY <3>1 DEF RepliedOnce
    <3> QED BY <1>6, <3>1, <3>2 DEF RepliedOnce
  <2>3. \A d, e \in ToParse' : sfd[d] = sfd[e] => d = e
    BY DEF RepliedOnce
  <2> QED BY <2>1, <2>2, <2>3 DEF RepliedOnce
<1>8. LoginReplied'
  <2>1. ASSUME NEW d \in Conns, io_uid'[d] \in Uids, unlogin_users[sfd[d]] = d
        PROVE  \E k \in DOMAIN rsp_msgs' : LoginReply(sfd[d], k)'
    <3>1. CASE io_uid'[d] = io_uid[d]
      <4>1. PICK k \in DOMAIN rsp_msgs : LoginReply(sfd[d], k)
        BY <2>1, <3>1 DEF LoginReplied
      <4>2. k \in DOMAIN rsp_msgs' /\ rsp_msgs'[k] = rsp_msgs[k]
        BY <1>3, <4>1
      <4> QED BY <4>1, <4>2 DEF LoginReply
    <3>2. CASE io_uid'[d] # io_uid[d]
      <4>1. d = c /\ m.uid \in Uids /\ r.msg.kind = "loginok"
        <5>1. m.uid # -1 <=> ~(m.uid = -1)
          OBVIOUS
        <5>2. -1 \notin Uids
          BY UserManagerAssumption
        <5> QED BY <1>1, <1>2, <2>1, <3>2, <5>2 DEF TypeOK, IOTypeOK
      <4>2. n + 1 \in DOMAIN rsp_msgs' /\ rsp_msgs'[n + 1] = r
        BY <1>3, <1>4
      <4>3. LoginReply(sfd[d], n + 1)'
        BY <1>2, <4>1, <4>2 DEF LoginReply
      <4> QED BY <4>2, <4>3
    <3> QED BY <3>1, <3>2
  <2>2. ASSUME NEW d \in Conns, io_uid'[d] \in Uids
        PROVE  d \in Accepted'
    <3>1. d = c \/ io_uid'[d] = io_uid[d]
      BY <1>2 DEF TypeOK, IOTypeOK
    <3>2. d \in Accepted
      BY <1>1, <2>2, <3>1 DEF LoginReplied
    <3> QED BY <3>2 DEF Accepted
  <2>3. ASSUME NEW d \in Conns, io_uid'[d] \in Uids, unlogin_users'[sfd'[d]] = d
        PROVE  \E k \in DOMAIN rsp_msgs' : LoginReply(sfd[d], k)'
    BY <1>1, <2>1, <2>3 DEF LoginReply
  <2> QED BY <2>2, <2>3 DEF LoginReplied
<1> QED BY <1>7, <1>8

LEMMA UnloginMsgFollowed ==
  ASSUME TypeOK, Own, Followed, NEW i \in DOMAIN unlogin_reads,
         handler_unlogin_msg(i)
  PROVE  Followed'
<1> USE DEF Followed
<1>1. PICK c : c = unlogin_reads[i]
  OBVIOUS
<1>2. /\ UNCHANGED <<sfd, io_pc, unlogin_reads, w_evs, ioevs_in, events_io>>
      /\ io_pc = "msgs" /\ io_rd[c] # <<>>
      /\ \A w \in Workers : Queue(w)' = Queue(w)
  BY <1>1 DEF handler_unlogin_msg, queueVars, workVars, NextToParse, HasFrames, Queue
<1>3. /\ c \in Accepted /\ c \in Conns /\ c # NoConn /\ sfd[c] \in Fds
      /\ io_rd[c] \in Seq(Msg) /\ c \in ToParse
  <2>1. c \in Accepted
    BY <1>1 DEF TypeOK, IOTypeOK
  <2> QED BY <1>1, <1>2, <2>1, AcceptedHas DEF TypeOK, IOTypeOK, ToParse, Elements
<1>4. PICK k \in Stops(io_rd[c]) :
        LET msgs == Parsed(io_rd[c], k)
            left == Unparsed(io_rd[c], k) IN
        /\ io_rd' = [io_rd EXCEPT ![c] = left]
        /\ \/ /\ msgs = <<>>
              /\ UNCHANGED <<openfd, epio, ep, unlogin_users, io_uid, rsp_msgs>>
           \/ Acceptable(msgs, left) /\ Dispatch(c, msgs[1])
           \/ msgs # <<>> /\ ~Acceptable(msgs, left) /\ kick_out(c)
  BY <1>1 DEF handler_unlogin_msg
<1>5. PICK m : m = Parsed(io_rd[c], k)[1]
  OBVIOUS
<1>6. /\ Unparsed(io_rd[c], k) = <<>>
      /\ Parsed(io_rd[c], k) # <<>> => m \in Msg
  <2>1. \A j \in DOMAIN io_rd[c] : CanGen(io_rd[c][j])
    BY <1>3 DEF Own, FramesKnown
  <2>2. /\ Unparsed(io_rd[c], k) = <<>>
        /\ Parsed(io_rd[c], k) # <<>> => 1 \in DOMAIN io_rd[c] /\ m = io_rd[c][1]
    BY <1>3, <1>5, <2>1, AllParsedAtOnce
  <2> QED BY <1>3, <2>2, ElementOfSeq, LenProperties
<1>7. ToParse' \subseteq ToParse \ {c}
  <2>1. \A d \in Conns : io_rd'[d] = IF d = c THEN <<>> ELSE io_rd[d]
    BY <1>4, <1>6 DEF TypeOK, IOTypeOK
  <2>2. Elements(unlogin_reads) \subseteq Conns
    BY DEF Elements, TypeOK, IOTypeOK, Accepted
  <2>3. Elements(unlogin_reads)' = Elements(unlogin_reads)
    BY <1>2 DEF Elements
  <2> QED BY <2>1, <2>2, <2>3 DEF ToParse
<1>8. \/ UNCHANGED <<openfd, epio, ep, unlogin_users, io_uid, rsp_msgs>>
      \/ m \in Msg /\ Dispatch(c, m)
      \/ kick_out(c)
  <2>1. ~Acceptable(<<>>, Unparsed(io_rd[c], k))
    BY DEF Acceptable
  <2> QED BY <1>4, <1>5, <1>6, <2>1
<1>9. CASE UNCHANGED <<openfd, epio, ep, unlogin_users, io_uid, rsp_msgs>>
  BY <1>2, <1>7, <1>9, RepliesSame, KeptSame
<1>10. CASE kick_out(c)
  <2>1. /\ ClosedFds({sfd[c]}) /\ UNCHANGED <<io_uid, rsp_msgs>>
        /\ \A f \in Fds : unlogin_users'[f] \in {unlogin_users[f], NoConn}
    BY <1>10 DEF kick_out, Without
  <2>2. Kept'
    BY <1>2, <2>1, KeptClosed
  <2> QED BY <1>2, <1>7, <2>1, <2>2, RepliesSame
<1>11. CASE m \in Msg /\ Dispatch(c, m)
  <2>1. RepliedOnce' /\ LoginReplied'
    BY <1>2, <1>3, <1>7, <1>11, Dispatched
  <2>2. UNCHANGED <<openfd, epio, ep>>
    BY <1>11 DEF Dispatch
  <2>3. \A d \in Conns : d # c => io_uid'[d] = io_uid[d]
    BY <1>3, <1>11 DEF Dispatch, on_user_login, on_user_register, on_system_verify,
                       TypeOK, IOTypeOK
  <2>4. ~Handed(c)
    <3>1. unlogin_users[sfd[c]] = c \/ openfd[sfd[c]] = NoConn
      BY <1>1, <1>2 DEF Own, ListsFresh
    <3> QED BY <1>3, <3>1 DEF Own, IOOwns, Handed
  <2>5. \A d \in Conns : Handed(d)' => Handed(d) /\ d # c
    BY <1>2, <2>2, <2>4 DEF Handed
  <2>6. \A d, w : w \in Workers /\ OnItsWay(d, w) => OnItsWay(d, w)'
    BY <1>2, QueueSame
  <2>7. Kept'
    BY <1>2, <2>2, <2>3, <2>5, <2>6, KeptStill
  <2> QED BY <2>1, <2>7
<1> QED BY <1>8, <1>9, <1>10, <1>11

(* With the first reply gone, a login without a reply was just replied to. *)
LEMMA RepliesTail ==
  ASSUME TypeOK, RepliedOnce, LoginReplied, rsp_msgs # <<>>, io_pc = "msgs",
         rsp_msgs' = Tail(rsp_msgs),
         UNCHANGED <<io_pc, io_rd, io_uid, sfd, unlogin_reads>>,
         NEW f, f = Head(rsp_msgs).fd,
         \A g \in Fds : unlogin_users'[g] \in {unlogin_users[g], NoConn},
         Head(rsp_msgs).msg.kind = "loginok" =>
           unlogin_users[f] = NoConn \/ unlogin_users'[f] = NoConn
  PROVE  RepliedOnce' /\ LoginReplied'
<1>1. /\ rsp_msgs[1] = Head(rsp_msgs)
      /\ \A k \in DOMAIN rsp_msgs' :
           k + 1 \in DOMAIN rsp_msgs /\ rsp_msgs'[k] = rsp_msgs[k + 1] /\ k \in Nat
      /\ \A k \in DOMAIN rsp_msgs \ {1} :
           k - 1 \in DOMAIN rsp_msgs' /\ rsp_msgs'[k - 1] = rsp_msgs[k]
  <2>1. rsp_msgs \in Seq(Rsp)
    BY DEF TypeOK, IOTypeOK
  <2>2. /\ Len(rsp_msgs') = Len(rsp_msgs) - 1 /\ rsp_msgs' \in Seq(Rsp)
        /\ \A k \in 1 .. Len(rsp_msgs') : rsp_msgs'[k] = rsp_msgs[k + 1]
        /\ rsp_msgs[1] = Head(rsp_msgs)
    BY <2>1, HeadTailProperties
  <2>3. /\ DOMAIN rsp_msgs = 1 .. Len(rsp_msgs) /\ Len(rsp_msgs) \in Nat
        /\ DOMAIN rsp_msgs' = 1 .. Len(rsp_msgs) - 1
    BY <2>1, <2>2, LenProperties
  <2>4. \A k \in DOMAIN rsp_msgs' :
           k + 1 \in DOMAIN rsp_msgs /\ rsp_msgs'[k] = rsp_msgs[k + 1] /\ k \in Nat
    BY <2>2, <2>3
  <2>5. ASSUME NEW k \in DOMAIN rsp_msgs, k # 1
        PROVE  k - 1 \in DOMAIN rsp_msgs' /\ rsp_msgs'[k - 1] = rsp_msgs[k]
    <3>1. k \in Nat /\ k - 1 \in DOMAIN rsp_msgs' /\ k - 1 + 1 = k
      BY <2>3, <2>5
    <3> QED BY <2>4, <3>1
  <2> QED BY <2>2, <2>4, <2>5
<1>2. ToParse' = ToParse
  BY DEF ToParse, Elements
<1>3. RepliedOnce'
  <2>1. ASSUME NEW j \in DOMAIN rsp_msgs', NEW k \in DOMAIN rsp_msgs',
               rsp_msgs'[j].fd = rsp_msgs'[k].fd
        PROVE  j = k
    <3>1. j + 1 = k + 1
      BY <1>1, <2>1 DEF RepliedOnce
    <3> QED BY <1>1, <3>1
  <2>2. ASSUME NEW c \in ToParse, NEW k \in DOMAIN rsp_msgs'
        PROVE  rsp_msgs'[k].fd # sfd[c]
    BY <1>1 DEF RepliedOnce
  <2> QED BY <1>2, <2>1, <2>2 DEF RepliedOnce
<1>4. LoginReplied'
  <2>1. ASSUME NEW c \in Conns, io_uid[c] \in Uids PROVE c \in Accepted'
    BY <2>1 DEF LoginReplied, Accepted
  <2>2. ASSUME NEW c \in Conns, io_uid[c] \in Uids, unlogin_users'[sfd[c]] = c
        PROVE  \E k \in DOMAIN rsp_msgs' : LoginReply(sfd[c], k)'
    <3>1. c \in Accepted /\ c # NoConn /\ sfd[c] \in Fds
      BY <2>2, AcceptedHas DEF LoginReplied
    <3>2. unlogin_users[sfd[c]] = c
      BY <2>2, <3>1
    <3>3. PICK k \in DOMAIN rsp_msgs : LoginReply(sfd[c], k)
      BY <2>2, <3>2 DEF LoginReplied
    <3>4. k # 1
      BY <1>1, <2>2, <3>1, <3>2, <3>3 DEF LoginReply
    <3>5. k - 1 \in DOMAIN rsp_msgs' /\ rsp_msgs'[k - 1] = rsp_msgs[k]
      BY <1>1, <3>4
    <3>6. LoginReply(sfd[c], k - 1)'
      BY <3>3, <3>5 DEF LoginReply
    <3> QED BY <3>5, <3>6
  <2> QED BY <2>1, <2>2 DEF LoginReplied
<1> QED BY <1>3, <1>4

LEMMA HandlerReplyFollowed ==
  ASSUME TypeOK, Own, Followed, handler_reply
  PROVE  Followed'
<1> USE DEF Followed
<1>1. PICK f, d : f = Head(rsp_msgs).fd /\ d = unlogin_users[f]
  OBVIOUS
<1>2. /\ UNCHANGED <<sfd, openfd, io_pc, unlogin_reads, io_rd, io_uid, w_evs, ioevs_in>>
      /\ io_pc = "msgs" /\ rsp_msgs # <<>> /\ rsp_msgs' = Tail(rsp_msgs)
  BY DEF handler_reply
<1>3. f \in Fds
  <2>1. Head(rsp_msgs) \in Rsp
    BY <1>2, HeadTailProperties DEF TypeOK, IOTypeOK
  <2>2. \A r \in Rsp : r.fd \in Fds
    BY DEF Rsp
  <2> QED BY <1>1, <2>1, <2>2
<1>4. \/ no_promotion /\ (d = NoConn \/ Head(rsp_msgs).msg.kind # "loginok")
      \/ /\ d # NoConn /\ on_logic_verifyed(d, f)
         /\ Head(rsp_msgs).msg.kind = "verifyrsp"
      \/ /\ d # NoConn /\ on_user_logined(d, f)
         /\ Head(rsp_msgs).msg.kind = "loginok"
  BY <1>1 DEF handler_reply
<1>5. RepliedOnce' /\ LoginReplied'
  <2>1. \A g \in Fds : unlogin_users'[g] \in {unlogin_users[g], NoConn}
    BY <1>4 DEF no_promotion, on_logic_verifyed, on_user_logined, Without
  <2>2. Head(rsp_msgs).msg.kind = "loginok" =>
          unlogin_users[f] = NoConn \/ unlogin_users'[f] = NoConn
    BY <1>1, <1>3, <1>4 DEF on_user_logined, Without
  <2> QED BY <1>1, <1>2, <2>1, <2>2, RepliesTail
<1>6. CASE no_promotion
  <2>1. \A w \in Workers : Queue(w)' = Queue(w)
    BY <1>2, <1>6 DEF no_promotion, Queue
  <2>2. Kept'
    BY <1>2, <1>6, <2>1, KeptSame DEF no_promotion
  <2> QED BY <1>5, <2>2
<1>7. d # NoConn => \A c \in Conns : openfd[f] = c => c = d
  BY <1>1, <1>3 DEF Own, IOOwns
<1>8. CASE /\ d # NoConn /\ on_logic_verifyed(d, f)
           /\ Head(rsp_msgs).msg.kind = "verifyrsp"
  <2>1. \A w \in Workers : Queue(w)' = Queue(w)
    BY <1>2, <1>8 DEF on_logic_verifyed, Queue
  <2>2. \A c, w : w \in Workers /\ OnItsWay(c, w) => OnItsWay(c, w)'
    BY <2>1, QueueSame
  <2>3. ASSUME NEW c \in Conns, Handed(c)', io_uid[c] \in Uids PROVE sfd[c] # f
    <3> SUFFICES ASSUME sfd[c] = f PROVE FALSE
      OBVIOUS
    <3>1. c = d /\ unlogin_users[sfd[c]] = c
      BY <1>1, <1>2, <1>7, <1>8, <2>3 DEF Handed
    <3>2. PICK k \in DOMAIN rsp_msgs : LoginReply(f, k)
      BY <2>3, <3>1 DEF LoginReplied
    <3>3. 1 \in DOMAIN rsp_msgs /\ rsp_msgs[1] = Head(rsp_msgs)
      <4>1. rsp_msgs \in Seq(Rsp)
        BY DEF TypeOK, IOTypeOK
      <4> QED BY <1>2, <4>1, EmptySeq, LenProperties
    <3>4. k = 1
      BY <1>1, <3>2, <3>3 DEF LoginReply, RepliedOnce
    <3> QED BY <1>8, <3>2, <3>3, <3>4 DEF LoginReply
  <2>4. ASSUME NEW c \in Conns, Handed(c)', sfd[c] # f PROVE Handed(c)
    BY <1>2, <1>8, <2>4 DEF Handed, on_logic_verifyed
  <2>5. ASSUME NEW v \in Workers PROVE ep[v] \subseteq ep'[v]
    <3>1. ASSUME NEW w \in Least(Workers \ Started), NewWorker(d, f, w)
          PROVE  ep[v] \subseteq ep'[v]
      <4>1. w \in Workers /\ ep[w] = {}
        BY DEF Least, Started, Own, UsersOwn
      <4> QED BY <3>1, <4>1 DEF NewWorker, TypeOK, NetTypeOK
    <3> QED BY <1>8, <3>1 DEF on_logic_verifyed
  <2>6. Kept'
    BY <1>2, <2>2, <2>3, <2>4, <2>5, KeptStill
  <2> QED BY <1>5, <2>6
<1>9. CASE /\ d # NoConn /\ on_user_logined(d, f)
           /\ Head(rsp_msgs).msg.kind = "loginok"
  <2>1. ep' = ep
    BY <1>9 DEF on_user_logined
  <2>2. CASE UNCHANGED <<events_io, epio>>
    <3>1. \A w \in Workers : Queue(w)' = Queue(w)
      BY <1>2, <2>2 DEF Queue
    <3> QED BY <1>2, <1>5, <2>1, <2>2, <3>1, KeptSame
  <2>3. ASSUME NEW w \in get_worker(f), HandOver(d, f, w) PROVE Followed'
    <3>1. w \in Workers
      BY DEF get_worker, Least, Having, Idlest, Started
    <3>2. PICK e : e = ConnectEvent(d, f)
      OBVIOUS
    <3>3. e \in Event /\ e.what = "connect" /\ e.conn = d
      <4>1. d \in Accepted
        <5>1. unlogin_users[f] \in Accepted \cup {NoConn}
          BY <1>3 DEF TypeOK, IOTypeOK, MaybeAccepted
        <5> QED BY <1>1, <1>9, <5>1
      <4>2. e \in Event
        BY <1>3, <3>2, <4>1, ConnectEventType
      <4> QED BY <3>2, <4>2 DEF ConnectEvent
    <3>4. events_io' = [events_io EXCEPT ![w] = Append(@, e)] /\ epio' = epio \ {f}
      BY <2>3, <3>2 DEF HandOver
    <3>5. /\ \A v \in Workers : \A i \in Connects(v) :
                i \in Connects(v)' /\ Queue(v)'[i] = Queue(v)[i]
          /\ \E i \in Connects(w)' : Queue(w)'[i] = e
      BY <1>2, <3>1, <3>3, <3>4, HandOverGrows
    <3>6. ASSUME NEW c \in Conns, Handed(c)', io_uid[c] \in Uids
          PROVE  \E v \in Workers : OnItsWay(c, v)' \/ sfd[c] \in ep[v]
      <4>1. CASE sfd[c] = f
        <5>1. c = d
          BY <1>2, <1>7, <1>9, <3>6, <4>1 DEF Handed
        <5>2. OnItsWay(c, w)'
          BY <3>3, <3>5, <5>1 DEF OnItsWay
        <5> QED BY <3>1, <5>2
      <4>2. CASE sfd[c] # f
        <5>1. Handed(c)
          BY <1>2, <3>4, <3>6, <4>2 DEF Handed
        <5>2. PICK v \in Workers : OnItsWay(c, v) \/ sfd[c] \in ep[v]
          BY <3>6, <5>1 DEF Kept
        <5>3. OnItsWay(c, v) => OnItsWay(c, v)'
          BY <3>5 DEF OnItsWay
        <5> QED BY <5>2, <5>3
      <4> QED BY <4>1, <4>2
    <3>7. Kept'
      BY <1>2, <2>1, <3>6 DEF Kept
    <3> QED BY <1>5, <3>7
  <2> QED BY <1>9, <2>2, <2>3 DEF on_user_logined
<1> QED BY <1>4, <1>6, <1>8, <1>9

LEMMA NotifyWorkersFollowed ==
  ASSUME TypeOK, Followed, notify_workers
  PROVE  Followed'
<1> USE DEF Followed
<1>1. /\ UNCHANGED <<sfd, openfd, epio, ep, unlogin_users, unlogin_reads, io_rd, io_uid,
                     rsp_msgs>>
      /\ io_pc' = "epoll" /\ rsp_msgs = <<>>
  BY DEF notify_workers, netVars
<1>2. RepliedOnce'
  <2>1. ToParse' = ToParse
    BY <1>1 DEF ToParse, Elements
  <2> QED BY <1>1, <2>1 DEF RepliedOnce
<1>3. LoginReplied'
  BY <1>1 DEF LoginReplied, LoginReply, Accepted
<1>4. Kept'
  BY <1>1, NotifyQueues, KeptSame
<1> QED BY <1>2, <1>3, <1>4
-----------------------------------------------------------------------------
LEMMA TakeIoeventsFollowed ==
  ASSUME TypeOK, Own, Followed, NEW w \in Workers, take_ioevents(w)
  PROVE  Followed'
<1>1. UNCHANGED <<sfd, openfd, epio, ep, ioVars, io_uid>>
  BY DEF take_ioevents, netVars, ioVars
<1>2. \A v \in Workers : Queue(v)' = Queue(v)
  BY TakeQueues DEF Own
<1> QED BY <1>1, <1>2, WorkerReplies, KeptSame DEF Followed

(* The worker watches the number whose event it takes from its queue.      *)
LEMMA HandlerIoeventFollowed ==
  ASSUME TypeOK, Own, Followed, NEW w \in Workers, handler_ioevent(w)
  PROVE  Followed'
<1>1. PICK e : e = Head(w_evs[w])
  OBVIOUS
<1>2. /\ UNCHANGED <<sfd, openfd, epio, ioVars, io_uid, ioevs_in, events_io>>
      /\ w_evs[w] # <<>> /\ w_evs' = [w_evs EXCEPT ![w] = Tail(@)]
      /\ \/ /\ e.what = "connect"
            /\ ep' = [ep EXCEPT ![w] = IF openfd[e.fd] = NoConn THEN @
                                                                ELSE @ \cup {e.fd}]
         \/ e.what # "connect" /\ ep' = ep
  BY <1>1 DEF handler_ioevent, on_new_connect, ioVars, queueVars
<1>3. \A v \in Workers : ep[v] \subseteq ep'[v]
  BY <1>2 DEF TypeOK, NetTypeOK
<1>4. ASSUME NEW c \in Conns, Handed(c), NEW v \in Workers, OnItsWay(c, v)
      PROVE  OnItsWay(c, v)' \/ sfd[c] \in ep'[v]
  <2>1. PICK i \in Connects(v) : Queue(v)[i].conn = c
    BY <1>4 DEF OnItsWay
  <2>2. CASE \E j \in Connects(v)' : Queue(v)'[j] = Queue(v)[i]
    BY <2>1, <2>2 DEF OnItsWay
  <2>3. CASE v = w /\ i = 1 /\ Queue(v)[i] = e
    <3>1. /\ e.what = "connect" /\ e.fd \in Fds /\ e.conn # NoConn /\ e.conn = c
      BY <2>1, <2>3, ConnectType DEF Connects
    <3>2. openfd[e.fd] = c
      BY <2>1, <2>3, <3>1 DEF Own, QueuesOwn
    <3>3. sfd[c] = e.fd
      BY <3>1, <3>2 DEF Own, IOOwns
    <3>4. e.fd \in ep'[w]
      BY <1>2, <3>1, <3>2 DEF TypeOK, NetTypeOK
    <3> QED BY <2>3, <3>3, <3>4
  <2> QED BY <1>1, <1>2, <2>2, <2>3, HandledLeaves
<1>5. \A c \in Conns : Handed(c)' => Handed(c)
  BY <1>2 DEF Handed
<1>6. Kept'
  <2>1. ASSUME NEW c \in Conns, Handed(c)', io_uid[c] \in Uids
        PROVE  /\ Handed(c)
               /\ \A v \in Workers : OnItsWay(c, v) \/ sfd[c] \in ep[v] =>
                    \E u \in Workers : OnItsWay(c, u)' \/ sfd[c] \in ep'[u]
    <3>1. Handed(c)
      BY <1>5, <2>1
    <3>2. \A v \in Workers : OnItsWay(c, v) \/ sfd[c] \in ep[v] =>
            OnItsWay(c, v)' \/ sfd[c] \in ep'[v]
      BY <1>3, <1>4, <3>1
    <3> QED BY <3>1, <3>2
  <2> QED BY <1>2, <2>1, KeptStill DEF Followed
<1> QED BY <1>2, <1>6, WorkerReplies DEF Followed

LEMMA HandlerEpeventFollowed ==
  ASSUME TypeOK, Followed, NEW w \in Workers, NEW c \in epev_users[w],
         handler_epevent(w, c)
  PROVE  Followed'
<1>1. UNCHANGED <<sfd, ioVars, io_uid, w_evs, ioevs_in, events_io>>
  BY DEF handler_epevent, ioVars, queueVars
<1>2. CASE UNCHANGED <<openfd, epio, ep>>
  <2>1. \A v \in Workers : Queue(v)' = Queue(v)
    BY <1>1 DEF Queue
  <2> QED BY <1>1, <1>2, <2>1, WorkerReplies, KeptSame DEF Followed
<1>3. CASE ClosedFds({sfd[c]})
  <2>1. Kept'
    BY <1>1, <1>3, KeptClosed DEF Followed
  <2> QED BY <1>1, <2>1, WorkerReplies DEF Followed
<1> QED BY <1>2, <1>3 DEF handler_epevent
-----------------------------------------------------------------------------
LEMMA NextFollowed ==
  ASSUME TypeOK, Own, Followed, [Next]_vars
  PROVE  Followed'
<1>1. ASSUME UNCHANGED <<sfd, openfd, epio, ep, ioVars, w_evs, ioevs_in, events_io>>
      PROVE  Followed'
  <2>1. \A v \in Workers : Queue(v)' = Queue(v)
    BY <1>1 DEF Queue
  <2>2. Kept'
    BY <1>1, <2>1, KeptSame DEF ioVars, Followed
  <2> QED BY <1>1, <2>2, WorkerReplies DEF Followed
<1>2. CASE UNCHANGED vars
  BY <1>1, <1>2 DEF vars, netVars, queueVars, workVars
<1>3. CASE PeerNext
  BY <1>3, PeerFollowed
<1>4. CASE IONext
  BY <1>4, EpollOneFollowed, HandlerDataFollowed, UnloginMsgFollowed,
     HandlerReplyFollowed, NotifyWorkersFollowed DEF IONext
<1>5. ASSUME NEW w \in Workers, WorkerNext(w) PROVE Followed'
  <2>1. CASE take_ioevents(w)
    BY <2>1, TakeIoeventsFollowed
  <2>2. CASE handler_ioevent(w)
    BY <2>2, HandlerIoeventFollowed
  <2>3. CASE \E c \in epev_users[w] : handler_epevent(w, c)
    BY <2>3, HandlerEpeventFollowed
  <2>4. CASE \/ epoll_wait(w) \/ worker_conn_offline(w) \/ handler_msgs(w)
             \/ \E i \in DOMAIN rd_users[w] : handler_epdata(w, i)
    <3>1. UNCHANGED <<sfd, openfd, epio, ep, ioVars, w_evs, ioevs_in, events_io>>
      BY <2>4 DEF epoll_wait, worker_conn_offline, handler_epdata, handler_msgs,
                  netVars, queueVars
    <3> QED BY <1>1, <3>1
  <2> QED BY <1>5, <2>1, <2>2, <2>3, <2>4 DEF WorkerNext
<1> QED BY <1>2, <1>3, <1>4, <1>5 DEF Next

(* Whoever watches a number knows the connection by it.                    *)
LEMMA KeptServed == TypeOK /\ Own /\ Kept => NotStranded
<1> SUFFICES ASSUME TypeOK, Own, Kept, NEW c \in Conns, Handed(c), io_uid[c] \in Uids
             PROVE  \E w \in Workers : Queued(c, w) \/ Served(c, w)
  BY DEF NotStranded
<1>1. PICK w \in Workers : OnItsWay(c, w) \/ sfd[c] \in ep[w]
  BY DEF Kept
<1>2. CASE OnItsWay(c, w)
  BY <1>2, OnItsWayQueued
<1>3. CASE sfd[c] \in ep[w]
  BY <1>3 DEF Own, WatchersOwn, Handed, Served
<1> QED BY <1>1, <1>2, <1>3

(* A user that logged in and that the IO thread no longer watches is in the *)
(* queue of a worker or watched by one, until its connection ends: it is   *)
(* never lost between the two threads.                                     *)
THEOREM UsersAreNotStranded ==
  ASSUME KnownFrames
  PROVE  Spec => []NotStranded
<1>1. TypeOK /\ Own /\ Followed /\ [Next]_vars => Followed'
  BY NextFollowed
<1>2. TypeOK /\ Own /\ Followed => NotStranded
  BY KeptServed DEF Followed
<1> QED BY <1>1, <1>2, InitFollowed, TypeCorrect, Ownership, PTL DEF Spec
-----------------------------------------------------------------------------
(***************************************************************************)
(* The Gate with its Logic.                                                *)
(***************************************************************************)

(* Counting messages.                                                      *)

(* The places that count.                                                  *)
Hits(kind, u, s) == {i \in DOMAIN s : IsOf(s[i], kind, u)}
AllHits(kind, u, q, S) == {p \in Places(q, S) : IsOf(q[p[1]][p[2]], kind, u)}

LEMMA SameSize ==
  ASSUME NEW S, NEW T, IsFiniteSet(S), NEW f \in [S -> T],
         \A x, y \in S : f[x] = f[y] => x = y,
         \A y \in T : \E x \in S : f[x] = y
  PROVE  IsFiniteSet(T) /\ Cardinality(T) = Cardinality(S)
<1>1. f \in Bijection(S, T)
  BY DEF Bijection, Injection, Surjection, IsInjective
<1> QED BY <1>1, FS_Bijection DEF ExistsBijection

LEMMA Disjoint ==
  ASSUME NEW S, NEW T, IsFiniteSet(S), IsFiniteSet(T), S \cap T = {}
  PROVE  /\ IsFiniteSet(S \cup T) /\ Cardinality(S \cup T) = Cardinality(S) + Cardinality(T)
         /\ Cardinality(S) \in Nat /\ Cardinality(T) \in Nat
<1>1. Cardinality(S) \in Nat /\ Cardinality(T) \in Nat
  BY FS_CardinalityType
<1> QED BY <1>1, FS_Union, FS_EmptySet

LEMMA CountType ==
  ASSUME NEW M, NEW s \in Seq(M), NEW kind, NEW u
  PROVE  /\ IsFiniteSet(Hits(kind, u, s)) /\ Count(kind, u, s) \in Nat
         /\ Count(kind, u, s) = Cardinality(Hits(kind, u, s))
<1>1. IsFiniteSet(DOMAIN s)
  BY LenProperties, FS_Interval
<1>2. IsFiniteSet(Hits(kind, u, s))
  BY <1>1, FS_Subset DEF Hits
<1> QED BY <1>2, FS_CardinalityType DEF Count, Hits

LEMMA CountEmpty ==
  ASSUME NEW kind, NEW u
  PROVE  Count(kind, u, <<>>) = 0
<1>1. {i \in DOMAIN <<>> : IsOf(<<>>[i], kind, u)} = {}
  OBVIOUS
<1> QED BY <1>1, FS_EmptySet DEF Count

LEMMA CountOne ==
  ASSUME NEW m, NEW kind, NEW u
  PROVE  Count(kind, u, <<m>>) = IF IsOf(m, kind, u) THEN 1 ELSE 0
<1>1. {i \in DOMAIN <<m>> : IsOf(<<m>>[i], kind, u)}
        = IF IsOf(m, kind, u) THEN {1} ELSE {}
  OBVIOUS
<1> QED BY <1>1, FS_EmptySet, FS_Singleton DEF Count

LEMMA CountConcat ==
  ASSUME NEW M, NEW s \in Seq(M), NEW t \in Seq(M), NEW kind, NEW u
  PROVE  Count(kind, u, s \o t) = Count(kind, u, s) + Count(kind, u, t)
<1> DEFINE A == Hits(kind, u, s)
           B == Hits(kind, u, t)
           C == {i + Len(s) : i \in B}
<1>1. /\ Len(s) \in Nat /\ Len(t) \in Nat
      /\ DOMAIN s = 1 .. Len(s) /\ DOMAIN t = 1 .. Len(t)
      /\ DOMAIN (s \o t) = 1 .. Len(s) + Len(t)
      /\ \A i \in 1 .. Len(s) + Len(t) :
           (s \o t)[i] = IF i <= Len(s) THEN s[i] ELSE t[i - Len(s)]
  BY ConcatProperties, LenProperties
<1>2. IsFiniteSet(A) /\ IsFiniteSet(B)
  BY CountType
<1>3. A \subseteq 1 .. Len(s) /\ B \subseteq 1 .. Len(t)
  BY <1>1 DEF Hits
<1>4. IsFiniteSet(C) /\ Cardinality(C) = Cardinality(B)
  <2> DEFINE f == [i \in B |-> i + Len(s)]
  <2>1. f \in [B -> C] /\ \A y \in C : \E x \in B : f[x] = y
    OBVIOUS
  <2>2. \A x, y \in B : f[x] = f[y] => x = y
    BY <1>1, <1>3
  <2> HIDE DEF f, B, C
  <2> QED BY <1>2, <2>1, <2>2, SameSize
<1>5. Hits(kind, u, s \o t) = A \cup C
  <2>1. ASSUME NEW i \in Hits(kind, u, s \o t) PROVE i \in A \cup C
    <3>1. i \in 1 .. Len(s) + Len(t) /\ IsOf((s \o t)[i], kind, u)
      BY <1>1 DEF Hits
    <3>2. CASE i <= Len(s)
      BY <1>1, <3>1, <3>2 DEF Hits
    <3>3. CASE ~(i <= Len(s))
      <4>1. i - Len(s) \in B /\ i = (i - Len(s)) + Len(s)
        BY <1>1, <3>1, <3>3 DEF Hits
      <4> QED BY <4>1
    <3> QED BY <3>2, <3>3
  <2>2. ASSUME NEW i \in A PROVE i \in Hits(kind, u, s \o t)
    BY <1>1 DEF Hits
  <2>3. ASSUME NEW j \in B PROVE j + Len(s) \in Hits(kind, u, s \o t)
    <3>1. /\ j \in 1 .. Len(t) /\ IsOf(t[j], kind, u)
          /\ j + Len(s) \in 1 .. Len(s) + Len(t) /\ ~(j + Len(s) <= Len(s))
          /\ j + Len(s) - Len(s) = j
      BY <1>1 DEF Hits
    <3> QED BY <1>1, <3>1 DEF Hits
  <2> QED BY <2>1, <2>2, <2>3
<1>6. A \cap C = {}
  BY <1>1, <1>3
<1>7. Cardinality(Hits(kind, u, s \o t)) = Cardinality(A) + Cardinality(B)
  <2> HIDE DEF A, B, C
  <2> QED BY <1>2, <1>4, <1>5, <1>6, Disjoint
<1>8. s \o t \in Seq(M)
  BY ConcatProperties
<1> QED BY <1>7, <1>8, CountType

LEMMA CountAppend ==
  ASSUME NEW M, NEW s \in Seq(M), NEW m \in M, NEW kind, NEW u
  PROVE  Count(kind, u, Append(s, m))
           = Count(kind, u, s) + (IF IsOf(m, kind, u) THEN 1 ELSE 0)
<1>1. Append(s, m) = s \o <<m>> /\ <<m>> \in Seq(M)
  BY AppendIsConcat
<1>2. Count(kind, u, s \o <<m>>) = Count(kind, u, s) + Count(kind, u, <<m>>)
  BY <1>1, CountConcat
<1> QED BY <1>1, <1>2, CountOne

LEMMA CountTail ==
  ASSUME NEW M, NEW s \in Seq(M), s # <<>>, NEW kind, NEW u
  PROVE  Count(kind, u, s)
           = (IF IsOf(Head(s), kind, u) THEN 1 ELSE 0) + Count(kind, u, Tail(s))
<1>1. Head(s) \in M /\ Tail(s) \in Seq(M) /\ <<Head(s)>> \in Seq(M)
  BY HeadTailProperties
<1>2. s = <<Head(s)>> \o Tail(s)
  OBVIOUS
<1>3. Count(kind, u, <<Head(s)>> \o Tail(s))
        = Count(kind, u, <<Head(s)>>) + Count(kind, u, Tail(s))
  BY <1>1, CountConcat
<1> QED BY <1>2, <1>3, CountOne

(* Of several sequences, one can be counted apart.                         *)
LEMMA AllFinite ==
  ASSUME NEW M, NEW S, IsFiniteSet(S), NEW q, \A x \in S : q[x] \in Seq(M),
         NEW kind, NEW u
  PROVE  /\ IsFiniteSet(AllHits(kind, u, q, S)) /\ CountAll(kind, u, q, S) \in Nat
         /\ CountAll(kind, u, q, S) = Cardinality(AllHits(kind, u, q, S))
<1> DEFINE Of == [x \in S |-> {x} \X (DOMAIN q[x])]
<1>1. ASSUME NEW x \in S PROVE IsFiniteSet(DOMAIN q[x])
  <2>1. DOMAIN q[x] = 1 .. Len(q[x]) /\ Len(q[x]) \in Nat
    BY LenProperties
  <2> QED BY <2>1, FS_Interval
<1>2. \A x \in S : IsFiniteSet({x} \X (DOMAIN q[x]))
  BY <1>1, FS_Singleton, FS_Product
<1>3. IsFiniteSet({{x} \X (DOMAIN q[x]) : x \in S})
  <2> DEFINE R == {{x} \X (DOMAIN q[x]) : x \in S}
  <2>1. Of \in Surjection(S, R)
    BY DEF Surjection
  <2> HIDE DEF R
  <2>2. IsFiniteSet(R)
    BY <2>1, FS_Surjection
  <2> QED BY <2>2 DEF R
<1>4. IsFiniteSet(Places(q, S))
  BY <1>2, <1>3, FS_UNION DEF Places
<1>5. IsFiniteSet(AllHits(kind, u, q, S))
  BY <1>4, FS_Subset DEF AllHits
<1> QED BY <1>5, FS_CardinalityType DEF CountAll, AllHits

LEMMA CountApart ==
  ASSUME NEW M, NEW S, IsFiniteSet(S), NEW q, \A x \in S : q[x] \in Seq(M),
         NEW x \in S, NEW kind, NEW u
  PROVE  CountAll(kind, u, q, S) = Count(kind, u, q[x]) + CountAll(kind, u, q, S \ {x})
<1> DEFINE A == Hits(kind, u, q[x])
           B == {<<x, i>> : i \in A}
           C == AllHits(kind, u, q, S \ {x})
<1>1. IsFiniteSet(A) /\ Count(kind, u, q[x]) = Cardinality(A)
  BY CountType
<1>2. IsFiniteSet(C) /\ CountAll(kind, u, q, S \ {x}) = Cardinality(C)
  <2>1. IsFiniteSet(S \ {x})
    BY FS_RemoveElement
  <2> QED BY <2>1, AllFinite
<1>3. IsFiniteSet(B) /\ Cardinality(B) = Cardinality(A)
  <2> DEFINE f == [i \in A |-> <<x, i>>]
  <2>1. f \in [A -> B] /\ (\A y \in B : \E i \in A : f[i] = y)
    OBVIOUS
  <2>2. \A i, j \in A : f[i] = f[j] => i = j
    OBVIOUS
  <2> HIDE DEF f, A, B
  <2> QED BY <1>1, <2>1, <2>2, SameSize
<1>4. AllHits(kind, u, q, S) = B \cup C
  <2>1. ASSUME NEW p \in AllHits(kind, u, q, S) PROVE p \in B \cup C
    <3>1. PICK y \in S : p \in {y} \X (DOMAIN q[y])
      BY DEF AllHits, Places
    <3>2. PICK i \in DOMAIN q[y] : p = <<y, i>>
      BY <3>1
    <3>3. p[1] = y /\ p[2] = i /\ IsOf(q[y][i], kind, u)
      BY <3>2 DEF AllHits
    <3>4. CASE y = x
      BY <3>2, <3>3, <3>4 DEF Hits
    <3>5. CASE y # x
      <4>1. p \in Places(q, S \ {x})
        BY <3>1, <3>5 DEF Places
      <4> QED BY <3>3, <4>1 DEF AllHits
    <3> QED BY <3>4, <3>5
  <2>2. ASSUME NEW i \in A PROVE <<x, i>> \in AllHits(kind, u, q, S)
    <3>1. i \in DOMAIN q[x] /\ IsOf(q[x][i], kind, u)
      BY DEF Hits
    <3>2. <<x, i>> \in {x} \X (DOMAIN q[x])
      BY <3>1
    <3>3. <<x, i>> \in Places(q, S)
      BY <3>2 DEF Places
    <3> QED BY <3>1, <3>3 DEF AllHits
  <2>3. C \subseteq AllHits(kind, u, q, S)
    BY DEF AllHits, Places
  <2> QED BY <2>1, <2>2, <2>3
<1>5. B \cap C = {}
  <2> SUFFICES ASSUME NEW i \in A, <<x, i>> \in C PROVE FALSE
    OBVIOUS
  <2>1. PICK y \in S \ {x} : <<x, i>> \in {y} \X (DOMAIN q[y])
    BY DEF AllHits, Places
  <2> QED BY <2>1
<1>6. CountAll(kind, u, q, S) = Cardinality(AllHits(kind, u, q, S))
  BY AllFinite
<1> HIDE DEF A, B, C
<1>7. Cardinality(B \cup C) = Cardinality(B) + Cardinality(C)
  BY <1>1, <1>2, <1>3, <1>5, Disjoint
<1> QED BY <1>1, <1>2, <1>3, <1>4, <1>6, <1>7

(* The sequences of the rest do not matter.                                *)
LEMMA CountSame ==
  ASSUME NEW S, NEW q, NEW r, \A x \in S : q[x] = r[x], NEW kind, NEW u
  PROVE  CountAll(kind, u, q, S) = CountAll(kind, u, r, S)
<1>1. Places(q, S) = Places(r, S)
  BY DEF Places
<1>2. ASSUME NEW p \in Places(q, S) PROVE q[p[1]] = r[p[1]]
  <2>1. PICK x \in S : p \in {x} \X (DOMAIN q[x])
    BY DEF Places
  <2>2. p[1] = x
    BY <2>1
  <2> QED BY <2>2
<1> QED BY <1>1, <1>2 DEF CountAll

(* So if only q[x] changes, the count changes by what q[x]'s does.         *)
LEMMA CountChanged ==
  ASSUME NEW M, NEW S, IsFiniteSet(S), NEW q, \A y \in S : q[y] \in Seq(M),
         NEW r, \A y \in S : r[y] \in Seq(M),
         NEW x \in S, \A y \in S \ {x} : r[y] = q[y], NEW kind, NEW u
  PROVE  /\ CountAll(kind, u, q, S) = Count(kind, u, q[x]) + CountAll(kind, u, q, S \ {x})
         /\ CountAll(kind, u, r, S) = Count(kind, u, r[x]) + CountAll(kind, u, q, S \ {x})
         /\ CountAll(kind, u, q, S \ {x}) \in Nat
<1>1. CountAll(kind, u, r, S \ {x}) = CountAll(kind, u, q, S \ {x})
  <2>1. \A y \in S \ {x} : r[y] = q[y]
    OBVIOUS
  <2> QED BY <2>1, CountSame
<1>2. IsFiniteSet(S \ {x})
  BY FS_RemoveElement
<1>3. CountAll(kind, u, q, S \ {x}) \in Nat
  BY <1>2, AllFinite
<1>4. CountAll(kind, u, q, S) = Count(kind, u, q[x]) + CountAll(kind, u, q, S \ {x})
  BY CountApart
<1>5. CountAll(kind, u, r, S) = Count(kind, u, r[x]) + CountAll(kind, u, r, S \ {x})
  BY CountApart
<1> QED BY <1>1, <1>3, <1>4, <1>5
-----------------------------------------------------------------------------
(* What is proved of the Gate holds with the Logic behind it, whose        *)
(* answers are frames like others.                                         *)

Uid == Uids \cup {0, -1}

ServiceTypeOK ==
  /\ pending \in Seq([kind : Kinds, uid : Uid, sth : Kinds])
  /\ answers \in Seq([uid : Uid, sth : Kinds])
  /\ told \in Seq(Msg)
  /\ heard \in [Uids -> Nat]

GateInv == TypeOK /\ Own /\ Authentic /\ Mapped /\ Followed

AnswerFrame == [kind |-> "dosthrsp", uid |-> Head(answers).uid]

LEMMA StepCases ==
  ASSUME [GateLogicNext]_allVars
  PROVE  \/ [Next]_vars /\ UNCHANGED <<logicVars, told, heard>>
         \/ \E w \in Workers : WriteMsgs(w)
         \/ LogicHandles
         \/ LogicSends
BY DEF GateLogicNext, GateStep, Next, allVars

LEMMA WrittenType ==
  ASSUME TypeOK, NEW w \in Workers
  PROVE  /\ Written(w) \in Seq(Msg)
         /\ [i \in DOMAIN Written(w) |-> ToService(Written(w)[i])]
              \in Seq([kind : Kinds, uid : Uid, sth : Kinds])
<1>1. Written(w) \in Seq(Msg)
  BY DEF Written, TypeOK, WorkerTypeOK
<1>2. Len(Written(w)) \in Nat /\ DOMAIN Written(w) = 1 .. Len(Written(w))
  BY <1>1, LenProperties
<1>3. ASSUME NEW i \in 1 .. Len(Written(w))
      PROVE  ToService(Written(w)[i]) \in [kind : Kinds, uid : Uid, sth : Kinds]
  <2>1. Written(w)[i] \in Msg
    BY <1>1, ElementOfSeq
  <2> QED BY <2>1 DEF Msg, ToService, Uid
<1> QED BY <1>1, <1>2, <1>3

(* What the Logic takes from its messages, and what it makes of one.       *)
LEMMA HandleType ==
  ASSUME ServiceTypeOK, LogicHandles
  PROVE  ServiceTypeOK'
<1> USE DEF LogicHandles
<1>1. pending # <<>> /\ pending' = Tail(pending)
  BY DEF Service!Handle
<1>2. /\ pending' \in Seq([kind : Kinds, uid : Uid, sth : Kinds])
      /\ Head(pending) \in [kind : Kinds, uid : Uid, sth : Kinds]
  BY <1>1, HeadTailProperties DEF ServiceTypeOK
<1>3. Service!Answer(Head(pending)) \in [uid : Uid, sth : Kinds]
  BY <1>2 DEF Service!Answer
<1>4. answers' \in Seq([uid : Uid, sth : Kinds])
  <2>1. answers' \in {answers, Append(answers, Service!Answer(Head(pending)))}
    BY DEF Service!Handle
  <2>2. Append(answers, Service!Answer(Head(pending))) \in Seq([uid : Uid, sth : Kinds])
    BY <1>3, AppendProperties DEF ServiceTypeOK
  <2> QED BY <2>1, <2>2 DEF ServiceTypeOK
<1> QED BY <1>2, <1>4 DEF ServiceTypeOK

LEMMA ServiceTypeCorrect ==
  ASSUME TypeOK, ServiceTypeOK, [GateLogicNext]_allVars
  PROVE  ServiceTypeOK'
<1>1. CASE UNCHANGED <<logicVars, told, heard>>
  BY <1>1 DEF ServiceTypeOK, logicVars
<1>2. ASSUME NEW w \in Workers, WriteMsgs(w) PROVE ServiceTypeOK'
  <2>1. /\ pending' = pending \o [i \in DOMAIN Written(w) |-> ToService(Written(w)[i])]
        /\ told' = told \o Written(w) /\ answers' = answers
        /\ heard' = [u \in Uids |-> heard[u] + Cardinality(Answers(w, u))]
    BY <1>2 DEF WriteMsgs
  <2>2. /\ pending' \in Seq([kind : Kinds, uid : Uid, sth : Kinds])
        /\ told' \in Seq(Msg)
    BY <2>1, WrittenType, ConcatProperties DEF ServiceTypeOK
  <2>3. ASSUME NEW u \in Uids PROVE Cardinality(Answers(w, u)) \in Nat
    <3>1. logic_msgs_in[w] \in Seq(Msg)
      BY DEF TypeOK, WorkerTypeOK
    <3>2. IsFiniteSet(DOMAIN logic_msgs_in[w])
      BY <3>1, LenProperties, FS_Interval
    <3>3. IsFiniteSet((DOMAIN logic_msgs_in[w]) \X Conns)
      BY <3>2, GateAssumption, FS_Product
    <3>4. IsFiniteSet(Answers(w, u))
      BY <3>3, FS_Subset DEF Answers
    <3> QED BY <3>4, FS_CardinalityType
  <2> QED BY <2>1, <2>2, <2>3 DEF ServiceTypeOK
<1>3. CASE LogicHandles
  BY <1>3, HandleType
<1>4. CASE LogicSends
  <2>1. /\ answers # <<>> /\ answers' = Tail(answers)
        /\ UNCHANGED <<pending, told, heard>>
    BY <1>4 DEF LogicSends, Service!Send
  <2>2. answers' \in Seq([uid : Uid, sth : Kinds])
    BY <2>1, HeadTailProperties DEF ServiceTypeOK
  <2> QED BY <2>1, <2>2 DEF ServiceTypeOK
<1> QED BY <1>1, <1>2, <1>3, <1>4, StepCases

LEMMA AnswerSaid ==
  ASSUME TypeOK, ServiceTypeOK, LogicSends
  PROVE  /\ AnswerFrame \in Msg /\ AnswerFrame.kind = "dosthrsp"
         /\ answers # <<>> /\ Head(answers) \in [uid : Uid, sth : Kinds]
         /\ \A c \in Conns :
              said'[c] = IF c = Logic THEN Append(said[c], AnswerFrame) ELSE said[c]
         /\ said' \in [Conns -> Seq(Msg)]
         /\ UNCHANGED <<peer, got, inbox, sfd, openfd, epio, ep,
                         ioVars, queueVars, workVars, told, heard>>
<1>1. answers # <<>> /\ Head(answers) \in [uid : Uid, sth : Kinds]
  <2>1. answers # <<>>
    BY DEF LogicSends, Service!Send
  <2> QED BY <2>1, HeadTailProperties DEF ServiceTypeOK
<1>2. AnswerFrame \in Msg
  BY <1>1 DEF AnswerFrame, Msg, Kinds, Uid
<1>3. said[Logic] \in Seq(Msg) /\ said \in [Conns -> Seq(Msg)]
  BY GateLogicAssumption DEF TypeOK, NetTypeOK
<1>4. said' = [said EXCEPT ![Logic] = Append(@, AnswerFrame)]
  BY DEF LogicSends, AnswerFrame
<1>5. Append(said[Logic], AnswerFrame) \in Seq(Msg)
  BY <1>2, <1>3, AppendProperties
<1> QED BY <1>1, <1>2, <1>3, <1>4, <1>5 DEF LogicSends, AnswerFrame

LEMMA AnswerKnown ==
  ASSUME TypeOK, ServiceTypeOK, LogicSends, FramesKnown
  PROVE  FramesKnown'
<1>1. ASSUME NEW c \in Conns, NEW i \in DOMAIN said'[c] PROVE CanGen(said'[c][i])
  <2>1. said[c] \in Seq(Msg)
    BY DEF TypeOK, NetTypeOK
  <2>2. CASE c # Logic
    BY <2>2, AnswerSaid DEF FramesKnown
  <2>3. CASE c = Logic
    <3>1. said'[c] = Append(said[c], AnswerFrame) /\ AnswerFrame \in Msg
      BY <2>3, AnswerSaid
    <3>2. /\ i \in 1 .. Len(said[c]) + 1
          /\ i = Len(said[c]) + 1 => said'[c][i] = AnswerFrame
          /\ i # Len(said[c]) + 1 => i \in DOMAIN said[c] /\ said'[c][i] = said[c][i]
      BY <2>1, <3>1, AppendProperties, LenProperties
    <3> QED BY <3>2, AnswerSaid DEF FramesKnown, CanGen
  <2> QED BY <2>2, <2>3
<1>2. io_rd' = io_rd
  BY AnswerSaid DEF ioVars
<1> QED BY <1>1, <1>2 DEF FramesKnown

LEMMA AnswerKeeps ==
  ASSUME GateInv, ServiceTypeOK, LogicSends
  PROVE  GateInv'
<1> USE DEF GateInv
<1>1. UNCHANGED <<peer, got, inbox, sfd, openfd, epio, ep, ioVars, queueVars, workVars>>
  BY AnswerSaid
<1>2. TypeOK'
  <2>1. NetTypeOK'
    BY <1>1, AnswerSaid DEF TypeOK, NetTypeOK, MaybeAccepted, Accepted
  <2> QED BY <1>1, <2>1, IOSame, WorkerSame DEF TypeOK
<1>3. Own'
  <2> USE DEF Own
  <2>1. IOOwns' /\ ListsFresh'
    BY <1>1 DEF IOOwns, ListsFresh, ioVars
  <2>2. QueuesOwn'
    BY <1>1, QueuesSame DEF queueVars, workVars
  <2>3. WatchersOwn' /\ UsersOwn'
    BY <1>1, WorkersSame DEF queueVars, workVars
  <2> QED BY <2>1, <2>2, <2>3, AnswerKnown
<1>4. \A c \in Conns : Said(c) \subseteq Said(c)'
  <2> SUFFICES ASSUME NEW c \in Conns, NEW i \in DOMAIN said[c]
               PROVE  i \in DOMAIN said'[c] /\ said'[c][i] = said[c][i]
    BY DEF Said
  <2>1. said[c] \in Seq(Msg) /\ AnswerFrame \in Msg
    BY AnswerSaid DEF TypeOK, NetTypeOK
  <2>2. i \in 1 .. Len(said[c]) /\ i \in 1 .. Len(said[c]) + 1
    BY <2>1, LenProperties
  <2>3. /\ i \in DOMAIN Append(said[c], AnswerFrame)
        /\ Append(said[c], AnswerFrame)[i] = said[c][i]
    BY <2>1, <2>2, AppendProperties, LenProperties
  <2> QED BY <2>3, AnswerSaid
<1>5. Authentic'
  BY <1>1, <1>4, AuthenticSame DEF ioVars, queueVars, workVars
<1>6. Mapped'
  BY <1>1, MappedStill DEF workVars
<1>7. RepliedOnce' /\ LoginReplied'
  BY <1>1, WorkerReplies DEF Followed
<1>8. Kept'
  <2>1. \A w \in Workers : Queue(w)' = Queue(w)
    BY <1>1 DEF Queue, queueVars, workVars
  <2> QED BY <1>1, <2>1, KeptSame DEF ioVars, Followed
<1> QED BY <1>2, <1>3, <1>5, <1>6, <1>7, <1>8 DEF Followed

LEMMA GateInvCorrect ==
  ASSUME KnownFrames, GateInv, ServiceTypeOK, [GateLogicNext]_allVars
  PROVE  GateInv'
<1>1. ASSUME [Next]_vars PROVE GateInv'
  BY <1>1, NextTypeOK, NextOwn, NextAuthentic, NextMapped, NextFollowed DEF GateInv
<1>2. ASSUME NEW w \in Workers, WriteMsgs(w) PROVE [Next]_vars
  BY <1>2 DEF WriteMsgs, Next, WorkerNext
<1>3. CASE LogicHandles
  BY <1>1, <1>3 DEF LogicHandles
<1> QED BY <1>1, <1>2, <1>3, AnswerKeeps, StepCases

LEMMA InitGateInv ==
  ASSUME GateLogicInit
  PROVE  GateInv /\ ServiceTypeOK
<1>1. Init /\ WorkerInit
  BY DEF GateLogicInit, Init
<1>2. TypeOK /\ Own /\ Authentic /\ Followed
  BY <1>1, InitTypeOK, InitOwn, InitAuthentic, InitFollowed
<1>3. Mapped
  BY <1>1 DEF WorkerInit, Mapped, MapsAgree, ClosingGone, NoUsers
<1>4. \A M : <<>> \in Seq(M)
  OBVIOUS
<1> QED BY <1>2, <1>3, <1>4 DEF GateInv, GateLogicInit, ServiceTypeOK

(* With the Logic behind it the Gate keeps what it keeps without: what the *)
(* Logic writes to its connection makes nobody known as somebody else.     *)
THEOREM AuthenticWithLogic ==
  ASSUME KnownFrames
  PROVE  GateLogicSpec => [](TypeOK /\ LoginAuthentic /\ MapsAgree)
<1>1. GateInv /\ ServiceTypeOK /\ [GateLogicNext]_allVars => GateInv' /\ ServiceTypeOK'
  BY GateInvCorrect, ServiceTypeCorrect DEF GateInv
<1>2. GateInv => TypeOK /\ LoginAuthentic /\ MapsAgree
  BY DEF GateInv, Authentic, Mapped
<1> QED BY <1>1, <1>2, InitGateInv, PTL DEF GateLogicSpec
-----------------------------------------------------------------------------
(* What the Gate takes for the Logic's and the users'.                     *)

(* What may be said on a connection: its peer's frames, and the Logic's    *)
(* answers.                                                                *)
FramesOf(c) == ClientFrames[c] \cup {m \in Msg : c = Logic /\ m.kind = "dosthrsp"}

SaidOnly ==
  \A c \in Conns : /\ \A i \in DOMAIN said[c] : said[c][i] \in FramesOf(c)
                   /\ \A i \in DOMAIN wk_rd[c] : wk_rd[c][i] \in FramesOf(c)

(* Who a reply makes a Logic is the Logic, and whom a user is one with a   *)
(* uid.                                                                    *)
RepliesRight ==
  \A k \in DOMAIN rsp_msgs :
    LET c == unlogin_users[rsp_msgs[k].fd] IN
    c # NoConn => /\ rsp_msgs[k].msg.kind = "verifyrsp" => c = Logic
                  /\ rsp_msgs[k].msg.kind = "loginok" => io_uid[c] \in Uids

LEMMA AppendOf ==
  ASSUME NEW M, NEW s \in Seq(M), NEW m \in M, NEW S, m \in S,
         \A i \in DOMAIN s : s[i] \in S
  PROVE  \A i \in DOMAIN Append(s, m) : Append(s, m)[i] \in S
<1>1. Len(s) \in Nat /\ DOMAIN s = 1 .. Len(s) /\ DOMAIN Append(s, m) = 1 .. Len(s) + 1
  BY AppendProperties, LenProperties
<1>2. /\ \A i \in 1 .. Len(s) : Append(s, m)[i] = s[i]
      /\ Append(s, m)[Len(s) + 1] = m
  BY AppendProperties
<1> QED BY <1>1, <1>2

LEMMA ConcatOf ==
  ASSUME NEW M, NEW s \in Seq(M), NEW t \in Seq(M), NEW S,
         \A i \in DOMAIN s : s[i] \in S, \A i \in DOMAIN t : t[i] \in S
  PROVE  \A i \in DOMAIN (s \o t) : (s \o t)[i] \in S
<1>1. /\ Len(s) \in Nat /\ Len(t) \in Nat
      /\ DOMAIN s = 1 .. Len(s) /\ DOMAIN t = 1 .. Len(t)
      /\ DOMAIN (s \o t) = 1 .. Len(s) + Len(t)
      /\ \A i \in 1 .. Len(s) + Len(t) :
           (s \o t)[i] = IF i <= Len(s) THEN s[i] ELSE t[i - Len(s)]
  BY ConcatProperties, LenProperties
<1>2. ASSUME NEW i \in 1 .. Len(s) + Len(t) PROVE (s \o t)[i] \in S
  <2>1. CASE i <= Len(s)
    BY <1>1, <2>1
  <2>2. CASE ~(i <= Len(s))
    <3>1. i - Len(s) \in 1 .. Len(t)
      BY <1>1, <2>2
    <3> QED BY <1>1, <2>2, <3>1
  <2> QED BY <2>1, <2>2
<1> QED BY <1>1, <1>2

LEMMA TailOf ==
  ASSUME NEW M, NEW s \in Seq(M), s # <<>>, NEW S, \A i \in DOMAIN s : s[i] \in S
  PROVE  Head(s) \in S /\ \A i \in DOMAIN Tail(s) : Tail(s)[i] \in S
<1>1. /\ Len(s) \in Nat \ {0} /\ DOMAIN s = 1 .. Len(s) /\ Head(s) = s[1]
      /\ DOMAIN Tail(s) = 1 .. Len(s) - 1
      /\ \A i \in 1 .. Len(s) - 1 : Tail(s)[i] = s[i + 1]
  BY EmptySeq, LenProperties, HeadTailProperties
<1> QED BY <1>1

LEMMA SaidStill ==
  ASSUME SaidOnly, UNCHANGED <<said, wk_rd>>
  PROVE  SaidOnly'
BY DEF SaidOnly, FramesOf

(* What a worker's user for c was sent reads what c's peer has sent.       *)
LEMMA EpeventSaid ==
  ASSUME TypeOK, Own, SaidOnly, NEW w \in Workers, NEW c \in epev_users[w],
         handler_epevent(w, c)
  PROVE  SaidOnly'
<1>1. c \in Conns /\ sfd[c] \in Fds /\ openfd[sfd[c]] = c
  BY WorkerHas, AcceptedHas DEF Own, UsersOwn
<1>2. PICK r : r = ReadFrames(sfd[c])
  OBVIOUS
<1>3. r \in Seq(Msg) /\ wk_rd[c] \in Seq(Msg)
  BY <1>1, <1>2, ReadFramesType DEF TypeOK, WorkerTypeOK
<1>4. \A i \in DOMAIN r : r[i] \in FramesOf(c)
  BY <1>1, <1>2, ReadFramesSaid DEF SaidOnly
<1>5. \A d \in Conns : wk_rd'[d] = IF d = c THEN wk_rd[c] \o r ELSE wk_rd[d]
  BY <1>1, <1>2 DEF handler_epevent, TypeOK, WorkerTypeOK
<1>6. \A i \in DOMAIN (wk_rd[c] \o r) : (wk_rd[c] \o r)[i] \in FramesOf(c)
  BY <1>1, <1>3, <1>4, ConcatOf DEF SaidOnly
<1>7. ASSUME NEW d \in Conns, NEW i \in DOMAIN wk_rd'[d] PROVE wk_rd'[d][i] \in FramesOf(d)
  BY <1>5, <1>6 DEF SaidOnly
<1> QED BY <1>7 DEF SaidOnly, FramesOf, handler_epevent

LEMMA EpdataSaid ==
  ASSUME TypeOK, SaidOnly, NEW w \in Workers, NEW i \in DOMAIN rd_users[w],
         handler_epdata(w, i)
  PROVE  SaidOnly'
<1>1. PICK c : c = rd_users[w][i]
  OBVIOUS
<1>2. c \in Conns
  <2>1. rd_users[w] \in Seq(Accepted)
    BY DEF TypeOK, WorkerTypeOK
  <2> QED BY <1>1, <2>1 DEF Accepted
<1>3. wk_rd[c] \in Seq(Msg) /\ wk_rd[c] # <<>>
  BY <1>1, <1>2 DEF handler_epdata, NextToParse, HasFrames, TypeOK, WorkerTypeOK
<1>4. \A d \in Conns : wk_rd'[d] = IF d = c THEN Tail(wk_rd[c]) ELSE wk_rd[d]
  BY <1>1, <1>2 DEF handler_epdata, TypeOK, WorkerTypeOK
<1>5. \A j \in DOMAIN Tail(wk_rd[c]) : Tail(wk_rd[c])[j] \in FramesOf(c)
  BY <1>2, <1>3, TailOf DEF SaidOnly
<1>6. ASSUME NEW d \in Conns, NEW j \in DOMAIN wk_rd'[d] PROVE wk_rd'[d][j] \in FramesOf(d)
  BY <1>4, <1>5 DEF SaidOnly
<1> QED BY <1>6 DEF SaidOnly, FramesOf, handler_epdata, netVars

LEMMA SentSaid ==
  ASSUME TypeOK, SaidOnly, wk_rd' = wk_rd, NEW c \in Conns, NEW m \in FramesOf(c),
         said' = [said EXCEPT ![c] = Append(@, m)]
  PROVE  SaidOnly'
<1>1. said[c] \in Seq(Msg) /\ m \in Msg
  BY GateAssumption DEF FramesOf, TypeOK, NetTypeOK
<1>2. \A d \in Conns : said'[d] = IF d = c THEN Append(said[c], m) ELSE said[d]
  BY DEF TypeOK, NetTypeOK
<1>3. \A j \in DOMAIN Append(said[c], m) : Append(said[c], m)[j] \in FramesOf(c)
  BY <1>1, AppendOf DEF SaidOnly
<1>4. ASSUME NEW d \in Conns, NEW j \in DOMAIN said'[d] PROVE said'[d][j] \in FramesOf(d)
  BY <1>2, <1>3 DEF SaidOnly
<1> QED BY <1>4 DEF SaidOnly, FramesOf

LEMMA NextSaid ==
  ASSUME TypeOK, Own, SaidOnly, [Next]_vars
  PROVE  SaidOnly'
<1>1. CASE UNCHANGED vars \/ IONext
  <2>1. UNCHANGED <<said, wk_rd>>
    BY <1>1 DEF vars, netVars, workVars, IONext, epoll_one, handler_data,
                handler_unlogin_msg, handler_reply, notify_workers
  <2> QED BY <2>1, SaidStill
<1>2. CASE PeerNext
  <2>1. CASE UNCHANGED <<said, wk_rd>>
    BY <2>1, SaidStill
  <2>2. ASSUME NEW c \in Conns, NEW m \in ClientFrames[c], Send(c, m) PROVE SaidOnly'
    <3>1. m \in FramesOf(c) /\ wk_rd' = wk_rd /\ said' = [said EXCEPT ![c] = Append(@, m)]
      BY <2>2 DEF FramesOf, Send, workVars
    <3> QED BY <3>1, SentSaid
  <2> QED BY <1>2, <2>1, <2>2 DEF PeerNext, Connect, PeerClose, workVars
<1>3. ASSUME NEW w \in Workers, WorkerNext(w) PROVE SaidOnly'
  <2>1. CASE \/ take_ioevents(w) \/ handler_ioevent(w) \/ epoll_wait(w)
             \/ worker_conn_offline(w) \/ handler_msgs(w)
    <3>1. UNCHANGED <<said, wk_rd>>
      BY <2>1 DEF take_ioevents, handler_ioevent, epoll_wait, worker_conn_offline,
                  handler_msgs, netVars
    <3> QED BY <3>1, SaidStill
  <2> QED BY <1>3, <2>1, EpeventSaid, EpdataSaid DEF WorkerNext
<1> QED BY <1>1, <1>2, <1>3 DEF Next

LEMMA AnswerSays ==
  ASSUME TypeOK, ServiceTypeOK, SaidOnly, LogicSends
  PROVE  SaidOnly'
<1>1. AnswerFrame \in FramesOf(Logic) /\ wk_rd' = wk_rd
  BY AnswerSaid DEF FramesOf, workVars
<1>2. said' = [said EXCEPT ![Logic] = Append(@, AnswerFrame)]
  BY DEF LogicSends, AnswerFrame
<1> QED BY <1>1, <1>2, SentSaid, GateLogicAssumption

-----------------------------------------------------------------------------
(* Replies are right: a verifyrsp is the Logic's, a loginok a user's.      *)
LEMMA RightSame ==
  ASSUME RepliesRight, UNCHANGED <<unlogin_users, io_uid, rsp_msgs>>
  PROVE  RepliesRight'
BY DEF RepliesRight

(* Between turns there is no reply.                                        *)
LEMMA RightNone ==
  ASSUME rsp_msgs' = <<>>
  PROVE  RepliesRight'
BY DEF RepliesRight

LEMMA ReplyHas ==
  ASSUME TypeOK, NEW k \in DOMAIN rsp_msgs
  PROVE  /\ rsp_msgs[k].fd \in Fds
         /\ unlogin_users[rsp_msgs[k].fd] \in Accepted \cup {NoConn}
         /\ unlogin_users[rsp_msgs[k].fd] # NoConn =>
              unlogin_users[rsp_msgs[k].fd] \in Conns
<1>1. rsp_msgs \in Seq(Rsp)
  BY DEF TypeOK, IOTypeOK
<1>2. rsp_msgs[k] \in Rsp
  BY <1>1
<1>3. rsp_msgs[k].fd \in Fds
  BY <1>2 DEF Rsp
<1>4. unlogin_users[rsp_msgs[k].fd] \in Accepted \cup {NoConn}
  BY <1>3 DEF TypeOK, IOTypeOK, MaybeAccepted
<1> QED BY <1>3, <1>4 DEF Accepted

LEMMA DispatchRight ==
  ASSUME OneLogic, UsersSay, TypeOK, Own, RepliedOnce, RepliesRight,
         NEW c \in ToParse, NEW m \in Msg, m \in FramesOf(c), Dispatch(c, m)
  PROVE  RepliesRight'
<1>1. /\ unlogin_users' = unlogin_users /\ rsp_msgs \in Seq(Rsp)
      /\ c \in Accepted /\ c \in Conns /\ c # NoConn /\ sfd[c] \in Fds
  <2>1. c \in Accepted
    BY DEF ToParse, Elements, TypeOK, IOTypeOK
  <2> QED BY <2>1, AcceptedHas DEF Dispatch, TypeOK, IOTypeOK
<1>2. unlogin_users[sfd[c]] \in {c, NoConn}
  <2>1. unlogin_users[sfd[c]] = c \/ openfd[sfd[c]] = NoConn
    BY DEF ToParse, Elements, Own, ListsFresh
  <2> QED BY <1>1, <2>1 DEF Own, IOOwns
<1>3. \A k \in DOMAIN rsp_msgs : rsp_msgs[k].fd # sfd[c]
  BY DEF RepliedOnce
<1>4. m.kind = "verify" => c = Logic
  BY <1>1 DEF OneLogic, FramesOf
<1>5. m.kind = "login" => m.uid \in Uids \cup {-1}
  <2>1. m.kind = "login" => m \in ClientFrames[c]
    BY DEF FramesOf
  <2>2. m.kind = "login" => m.uid # 0
    BY <1>1, <2>1 DEF UsersSay
  <2> QED BY <2>2 DEF Msg
<1>6. PICK r : /\ r.fd = sfd[c] /\ rsp_msgs' = Append(rsp_msgs, r)
               /\ r.msg.kind = "verifyrsp" => c = Logic
               /\ r.msg.kind = "loginok" => m.uid \in Uids /\ io_uid' = [io_uid EXCEPT ![c] = m.uid]
               /\ io_uid' \in {io_uid, [io_uid EXCEPT ![c] = m.uid]}
  <2>1. \A kind, uid :
          LET r == [fd |-> sfd[c], msg |-> [kind |-> kind, uid |-> uid]] IN
          r.fd = sfd[c] /\ r.msg.kind = kind
    OBVIOUS
  <2>2. CASE m.kind = "login" /\ on_user_login(c, m)
    <3>1. PICK k : k = IF m.uid = -1 THEN "loginfail" ELSE "loginok"
      OBVIOUS
    <3>2. PICK r : r = [fd |-> sfd[c], msg |-> [kind |-> k, uid |-> m.uid]]
      OBVIOUS
    <3>3. /\ rsp_msgs' = Append(rsp_msgs, r)
          /\ io_uid' = [io_uid EXCEPT ![c] = m.uid]
      BY <2>2, <3>1, <3>2 DEF on_user_login, Reply
    <3>4. r.fd = sfd[c] /\ r.msg.kind = k
      BY <3>2
    <3>5. k = "loginok" => m.uid \in Uids
      <4>1. m.uid = -1 => k = "loginfail"
        BY <3>1
      <4>2. "loginfail" # "loginok"
        OBVIOUS
      <4> QED BY <1>5, <2>2, <4>1, <4>2
    <3>6. k # "verifyrsp"
      <4>1. k \in {"loginfail", "loginok"}
        BY <3>1, Zenon
      <4> QED BY <4>1
    <3> QED BY <3>3, <3>4, <3>5, <3>6
  <2>3. CASE on_user_register(c, m)
    BY <2>1, <2>3 DEF on_user_register, Reply
  <2>4. CASE m.kind = "verify" /\ on_system_verify(c, m)
    BY <1>4, <2>1, <2>4 DEF on_system_verify, Reply
  <2> QED BY <2>2, <2>3, <2>4 DEF Dispatch
<1>7. PICK n : n = Len(rsp_msgs)
  OBVIOUS
<1>8. \A k \in DOMAIN rsp_msgs' :
        \/ rsp_msgs'[k] = r
        \/ k \in DOMAIN rsp_msgs /\ rsp_msgs'[k] = rsp_msgs[k]
  BY <1>1, <1>6
<1>9. \A d \in Conns : d # c => io_uid'[d] = io_uid[d]
  BY <1>6 DEF TypeOK, IOTypeOK
<1>10. ASSUME NEW k \in DOMAIN rsp_msgs', NEW d, d = unlogin_users[rsp_msgs'[k].fd], d # NoConn
       PROVE  /\ rsp_msgs'[k].msg.kind = "verifyrsp" => d = Logic
              /\ rsp_msgs'[k].msg.kind = "loginok" => io_uid'[d] \in Uids
  <2>1. CASE rsp_msgs'[k] = r
    <3>1. d = c
      BY <1>2, <1>6, <1>10, <2>1
    <3>2. r.msg.kind = "loginok" => io_uid'[c] \in Uids
      BY <1>1, <1>6 DEF TypeOK, IOTypeOK
    <3> QED BY <1>6, <2>1, <3>1, <3>2
  <2>2. CASE k \in DOMAIN rsp_msgs /\ rsp_msgs'[k] = rsp_msgs[k]
    <3>1. rsp_msgs[k].fd \in Fds /\ rsp_msgs[k].fd # sfd[c] /\ d \in Conns
      BY <1>3, <1>10, <2>2, ReplyHas
    <3>2. sfd[d] = rsp_msgs[k].fd
      BY <1>10, <2>2, <3>1 DEF Own, IOOwns
    <3>3. d # c
      BY <3>1, <3>2
    <3> QED BY <1>9, <1>10, <2>2, <3>1, <3>3 DEF RepliesRight
  <2> QED BY <1>8, <2>1, <2>2
<1> QED BY <1>1, <1>10 DEF RepliesRight

LEMMA UnloginMsgRight ==
  ASSUME OneLogic, UsersSay, TypeOK, Own, Followed, FramesSaid, SaidOnly, RepliesRight,
         NEW i \in DOMAIN unlogin_reads, handler_unlogin_msg(i)
  PROVE  RepliesRight'
<1>1. PICK c : c = unlogin_reads[i]
  OBVIOUS
<1>2. io_rd[c] # <<>>
  BY <1>1 DEF handler_unlogin_msg, NextToParse, HasFrames
<1>3. /\ c \in Accepted /\ c \in Conns /\ c # NoConn /\ sfd[c] \in Fds
      /\ io_rd[c] \in Seq(Msg) /\ c \in ToParse
  <2>1. c \in Accepted
    BY <1>1 DEF TypeOK, IOTypeOK
  <2> QED BY <1>1, <1>2, <2>1, AcceptedHas DEF TypeOK, IOTypeOK, ToParse, Elements
<1>4. PICK k \in Stops(io_rd[c]) :
        LET msgs == Parsed(io_rd[c], k)
            left == Unparsed(io_rd[c], k) IN
        /\ \/ /\ msgs = <<>>
              /\ UNCHANGED <<openfd, epio, ep, unlogin_users, io_uid, rsp_msgs>>
           \/ Acceptable(msgs, left) /\ Dispatch(c, msgs[1])
           \/ msgs # <<>> /\ ~Acceptable(msgs, left) /\ kick_out(c)
  BY <1>1 DEF handler_unlogin_msg
<1>5. PICK m : m = Parsed(io_rd[c], k)[1]
  OBVIOUS
<1>6. Parsed(io_rd[c], k) # <<>> => m \in Msg /\ m \in FramesOf(c)
  <2>1. \A j \in DOMAIN io_rd[c] : CanGen(io_rd[c][j])
    BY <1>3 DEF Own, FramesKnown
  <2>2. Parsed(io_rd[c], k) # <<>> => 1 \in DOMAIN io_rd[c] /\ m = io_rd[c][1]
    BY <1>3, <1>5, <2>1, AllParsedAtOnce
  <2>3. Parsed(io_rd[c], k) # <<>> => m \in Said(c) /\ m \in Msg
    BY <1>3, <2>2, ElementOfSeq, LenProperties DEF FramesSaid
  <2>4. Said(c) \subseteq FramesOf(c)
    BY <1>3 DEF Said, SaidOnly
  <2> QED BY <2>3, <2>4
<1>7. \/ UNCHANGED <<openfd, epio, ep, unlogin_users, io_uid, rsp_msgs>>
      \/ m \in Msg /\ m \in FramesOf(c) /\ Dispatch(c, m)
      \/ kick_out(c)
  <2>1. ~Acceptable(<<>>, Unparsed(io_rd[c], k))
    BY DEF Acceptable
  <2> QED BY <1>4, <1>5, <1>6, <2>1
<1>8. CASE UNCHANGED <<openfd, epio, ep, unlogin_users, io_uid, rsp_msgs>>
  BY <1>8, RightSame
<1>9. CASE kick_out(c)
  <2>1. /\ UNCHANGED <<io_uid, rsp_msgs>>
        /\ \A f \in Fds : unlogin_users'[f] \in {unlogin_users[f], NoConn}
    BY <1>9 DEF kick_out, Without
  <2> QED BY <2>1, ReplyHas DEF RepliesRight
<1>10. CASE m \in Msg /\ m \in FramesOf(c) /\ Dispatch(c, m)
  BY <1>3, <1>10, DispatchRight DEF Followed
<1> QED BY <1>7, <1>8, <1>9, <1>10

LEMMA HandlerReplyRight ==
  ASSUME TypeOK, RepliesRight, handler_reply
  PROVE  RepliesRight'
<1>1. rsp_msgs # <<>> /\ rsp_msgs' = Tail(rsp_msgs) /\ io_uid' = io_uid
  BY DEF handler_reply
<1>2. \A g \in Fds : unlogin_users'[g] \in {unlogin_users[g], NoConn}
  BY DEF handler_reply, no_promotion, on_logic_verifyed, on_user_logined, Without
<1>3. rsp_msgs \in Seq(Rsp)
  BY DEF TypeOK, IOTypeOK
<1>4. \A k \in DOMAIN rsp_msgs' : k + 1 \in DOMAIN rsp_msgs /\ rsp_msgs'[k] = rsp_msgs[k + 1]
  BY <1>1, <1>3, HeadTailProperties, LenProperties, EmptySeq
<1>5. ASSUME NEW k \in DOMAIN rsp_msgs', unlogin_users'[rsp_msgs'[k].fd] # NoConn
      PROVE  /\ k + 1 \in DOMAIN rsp_msgs /\ rsp_msgs'[k] = rsp_msgs[k + 1]
             /\ unlogin_users'[rsp_msgs'[k].fd] = unlogin_users[rsp_msgs[k + 1].fd]
             /\ unlogin_users[rsp_msgs[k + 1].fd] # NoConn
  BY <1>2, <1>4, <1>5, ReplyHas
<1> QED BY <1>1, <1>5 DEF RepliesRight

LEMMA NextRight ==
  ASSUME OneLogic, UsersSay, TypeOK, Own, Authentic, Followed, SaidOnly, RepliesRight,
         [Next]_vars
  PROVE  RepliesRight'
<1>1. CASE UNCHANGED ioVars
  BY <1>1, RightSame DEF ioVars
<1>2. CASE UNCHANGED vars \/ PeerNext \/ \E w \in Workers : WorkerNext(w)
  <2>1. UNCHANGED ioVars
    BY <1>2, ZenonT(40) DEF vars, PeerNext, Connect, Send, PeerClose, WorkerNext, take_ioevents,
                handler_ioevent, epoll_wait, handler_epevent, worker_conn_offline,
                handler_epdata, handler_msgs
  <2> QED BY <1>1, <2>1
<1>3. CASE epoll_one \/ handler_data \/ notify_workers
  <2>1. rsp_msgs' = <<>>
    BY <1>3 DEF epoll_one, handler_data, notify_workers, Followed, RepliedOnce
  <2> QED BY <2>1, RightNone
<1>4. CASE IONext
  BY <1>3, <1>4, UnloginMsgRight, HandlerReplyRight DEF IONext, Authentic
<1> QED BY <1>2, <1>4 DEF Next

(* The Logic's worker keeps watching it: nobody closes its number.         *)
LogicHeld(w) == logic[w] = Logic /\ openfd[sfd[Logic]] = Logic /\ sfd[Logic] \in ep[w]
LogicStays ==
  /\ peer[Logic] # "closed"
  /\ \A w \in Workers : logic[w] # NoConn => LogicHeld(w)

(* Then there is only one worker.                                          *)
LEMMA OnlyWorker ==
  ASSUME Own, LogicStays, NEW v \in Workers, NEW w \in Workers,
         w_pc[v] # "none" \/ logic[v] # NoConn, w_pc[w] # "none" \/ logic[w] # NoConn
  PROVE  v = w
<1>1. sfd[Logic] \in ep[v] /\ sfd[Logic] \in ep[w]
  BY DEF Own, UsersOwn, LogicStays, LogicHeld
<1> QED BY <1>1 DEF Own, WatchersOwn

LEMMA StaysStill ==
  ASSUME TypeOK, LogicStays, UNCHANGED <<logic, sfd>>, peer'[Logic] = peer[Logic],
         sfd[Logic] \in Fds => openfd'[sfd[Logic]] = openfd[sfd[Logic]],
         \A w \in Workers : sfd[Logic] \in ep[w] => sfd[Logic] \in ep'[w]
  PROVE  LogicStays'
<1>1. \A w \in Workers : LogicHeld(w) => sfd[Logic] \in Fds
  BY WorkerHas DEF LogicHeld
<1> QED BY <1>1 DEF LogicStays, LogicHeld

(* Numbers that are closed without being a watched Logic's.                *)
LEMMA StaysClosed ==
  ASSUME TypeOK, LogicStays, UNCHANGED <<logic, sfd, peer>>, NEW F, ClosedFds(F),
         \A w \in Workers : logic[w] # NoConn => sfd[Logic] \notin F
  PROVE  LogicStays'
<1>1. ASSUME NEW w \in Workers, logic[w] # NoConn PROVE LogicHeld(w)'
  <2>1. LogicHeld(w) /\ sfd[Logic] \notin F
    BY <1>1 DEF LogicStays
  <2>2. sfd[Logic] \in Fds
    BY <2>1, WorkerHas DEF LogicHeld
  <2> QED BY <2>1, <2>2 DEF LogicHeld, ClosedFds
<1> QED BY <1>1 DEF LogicStays

LEMMA IOStays ==
  ASSUME OneLogic, TypeOK, Own, Followed, RepliesRight, LogicStays, IONext
  PROVE  LogicStays'
<1>1. ASSUME NEW w \in Workers, logic[w] # NoConn
      PROVE  /\ sfd[Logic] \in Fds /\ openfd[sfd[Logic]] = Logic
             /\ unlogin_users[sfd[Logic]] = NoConn /\ Logic \in Accepted
  <2>1. LogicHeld(w)
    BY <1>1 DEF LogicStays
  <2>2. sfd[Logic] \in Fds /\ sfd[Logic] \notin epio
    BY <2>1, WorkerHas DEF LogicHeld, Own, WatchersOwn
  <2>3. Logic \in Accepted
    BY <2>2, GateLogicAssumption, UserManagerAssumption DEF Accepted
  <2> QED BY <2>1, <2>2, <2>3 DEF LogicHeld, Own, IOOwns
<1>2. CASE epoll_one
  <2>1. UNCHANGED <<peer, ep, logic>> /\ AcceptSome
    BY <1>2 DEF epoll_one, AcceptSome
  <2>2. ASSUME NEW w \in Workers, logic[w] # NoConn PROVE LogicHeld(w)'
    <3>1. sfd'[Logic] = sfd[Logic]
      BY <1>1, <2>1, <2>2, AcceptKeeps DEF Own
    <3>2. openfd'[sfd[Logic]] = Logic
      <4>1. sfd[Logic] \notin FreeFds
        BY <1>1, <2>2, GateLogicAssumption, UserManagerAssumption DEF FreeFds
      <4> QED BY <1>1, <2>1, <2>2, <4>1 DEF AcceptSome, AcceptNone, Accept, TypeOK, NetTypeOK
    <3> QED BY <2>1, <2>2, <3>1, <3>2 DEF LogicStays, LogicHeld
  <2> QED BY <2>1, <2>2 DEF LogicStays
<1>3. CASE handler_data
  <2>1. PICK B \in SUBSET unlogin_events : ClosedFds({sfd[c] : c \in B})
    BY <1>3 DEF handler_data
  <2>2. ASSUME NEW w \in Workers, logic[w] # NoConn PROVE sfd[Logic] \notin {sfd[c] : c \in B}
    <3> SUFFICES ASSUME NEW c \in B, sfd[c] = sfd[Logic] PROVE FALSE
      OBVIOUS
    <3>1. c \in Accepted /\ unlogin_users[sfd[c]] = c
      BY DEF Own, ListsFresh, TypeOK, IOTypeOK
    <3> QED BY <1>1, <2>2, <3>1, AcceptedHas
  <2>3. UNCHANGED <<logic, sfd, peer>>
    BY <1>3 DEF handler_data, queueVars
  <2> QED BY <2>1, <2>2, <2>3, StaysClosed
<1>4. ASSUME NEW i \in DOMAIN unlogin_reads, handler_unlogin_msg(i) PROVE LogicStays'
  <2>1. PICK c : c = unlogin_reads[i]
    OBVIOUS
  <2>2. UNCHANGED <<logic, sfd, peer>>
    BY <1>4 DEF handler_unlogin_msg, queueVars
  <2>3. CASE UNCHANGED <<openfd, ep>>
    BY <2>2, <2>3, StaysStill
  <2>4. CASE ClosedFds({sfd[c]})
    <3>1. ASSUME NEW w \in Workers, logic[w] # NoConn PROVE sfd[Logic] \notin {sfd[c]}
      <4> SUFFICES ASSUME sfd[c] = sfd[Logic] PROVE FALSE
        OBVIOUS
      <4>1. io_rd[c] # <<>>
        BY <1>4, <2>1 DEF handler_unlogin_msg, NextToParse, HasFrames
      <4>2. unlogin_users[sfd[c]] = c \/ openfd[sfd[c]] = NoConn
        BY <2>1, <4>1 DEF Own, ListsFresh
      <4>3. c # NoConn /\ Logic # NoConn
        <5>1. c \in Accepted
          BY <2>1 DEF TypeOK, IOTypeOK
        <5> QED BY <5>1, AcceptedHas, GateLogicAssumption, UserManagerAssumption
      <4> QED BY <1>1, <3>1, <4>2, <4>3
    <3> QED BY <2>2, <2>4, <3>1, StaysClosed
  <2> QED BY <1>4, <2>1, <2>3, <2>4 DEF handler_unlogin_msg, Dispatch, kick_out
<1>5. CASE handler_reply
  <2>1. PICK f, c : f = Head(rsp_msgs).fd /\ c = unlogin_users[f]
    OBVIOUS
  <2>2. UNCHANGED <<peer, sfd, openfd>> /\ rsp_msgs # <<>>
    BY <1>5 DEF handler_reply
  <2>3. CASE UNCHANGED <<logic, ep>>
    BY <2>2, <2>3, StaysStill
  <2>4. ASSUME NEW w \in Least(Workers \ Started), NewWorker(c, f, w), c # NoConn,
               Head(rsp_msgs).msg.kind = "verifyrsp"
        PROVE  LogicStays'
    <3>1. 1 \in DOMAIN rsp_msgs /\ rsp_msgs[1] = Head(rsp_msgs)
      <4>1. rsp_msgs \in Seq(Rsp)
        BY DEF TypeOK, IOTypeOK
      <4> QED BY <2>2, <4>1, EmptySeq, LenProperties
    <3>2. c = Logic /\ f \in Fds
      BY <2>1, <2>4, <3>1, ReplyHas DEF RepliesRight
    <3>3. openfd[f] = Logic /\ sfd[Logic] = f
      BY <2>1, <2>4, <3>2 DEF Own, IOOwns
    <3>4. w \in Workers /\ ep[w] = {}
      BY DEF Least, Started, Own, UsersOwn
    <3>5. \A v \in Workers : /\ logic'[v] = IF v = w THEN Logic ELSE logic[v]
                             /\ ep'[v] = IF v = w THEN {f} ELSE ep[v]
      BY <2>4, <3>2, <3>4 DEF NewWorker, TypeOK, NetTypeOK, WorkerTypeOK
    <3> QED BY <2>2, <3>3, <3>5 DEF LogicStays, LogicHeld
  <2> QED BY <1>5, <2>1, <2>3, <2>4
          DEF handler_reply, no_promotion, on_logic_verifyed, on_user_logined
<1>6. CASE notify_workers
  <2>1. UNCHANGED <<logic, sfd, peer, openfd, ep>>
    BY <1>6 DEF notify_workers, netVars
  <2> QED BY <2>1, StaysStill
<1> QED BY <1>2, <1>3, <1>4, <1>5, <1>6 DEF IONext

LEMMA NextStays ==
  ASSUME OneLogic, TypeOK, Own, Followed, RepliesRight, LogicStays, [Next]_vars
  PROVE  LogicStays'
<1>1. CASE UNCHANGED vars
  BY <1>1, StaysStill DEF vars, netVars, queueVars
<1>2. CASE PeerNext
  <2>1. UNCHANGED <<logic, sfd, openfd, ep>>
    BY <1>2 DEF PeerNext, Connect, Send, PeerClose, queueVars
  <2>2. peer'[Logic] # "closed"
    <3>1. ASSUME NEW c \in MayClose, PeerClose(c) PROVE peer'[Logic] = peer[Logic]
      <4>1. c # Logic
        BY DEF OneLogic
      <4> QED BY <3>1, <4>1, GateLogicAssumption DEF PeerClose, TypeOK, NetTypeOK
    <3>2. ASSUME NEW c \in Conns, Connect(c) PROVE peer'[Logic] \in {peer[Logic], "open"}
      BY <3>2, GateLogicAssumption DEF Connect, TypeOK, NetTypeOK
    <3> QED BY <1>2, <3>1, <3>2 DEF LogicStays, PeerNext, Send
  <2> QED BY <2>1, <2>2 DEF LogicStays, LogicHeld
<1>3. ASSUME NEW w \in Workers, WorkerNext(w) PROVE LogicStays'
  <2>1. CASE UNCHANGED <<logic, sfd, peer, openfd, ep>>
    BY <2>1, StaysStill
  <2>2. CASE \/ take_ioevents(w) \/ epoll_wait(w) \/ worker_conn_offline(w)
             \/ handler_msgs(w) \/ \E i \in DOMAIN rd_users[w] : handler_epdata(w, i)
    <3>1. UNCHANGED <<logic, sfd, peer, openfd, ep>>
      BY <2>2 DEF take_ioevents, epoll_wait, worker_conn_offline, handler_epdata,
                  handler_msgs, netVars, queueVars
    <3> QED BY <2>1, <3>1
  <2>3. CASE handler_ioevent(w)
    <3>1. UNCHANGED <<logic, sfd, peer, openfd>>
      BY <2>3 DEF handler_ioevent, queueVars
    <3>2. \A v \in Workers : ep[v] \subseteq ep'[v]
      BY <2>3, ZenonT(40) DEF handler_ioevent, on_new_connect, TypeOK, NetTypeOK
    <3> QED BY <3>1, <3>2, StaysStill
  <2>4. ASSUME NEW c \in epev_users[w], handler_epevent(w, c) PROVE LogicStays'
    <3>1. UNCHANGED <<logic, sfd, peer>>
      BY <2>4 DEF handler_epevent, queueVars
    <3>2. CASE UNCHANGED <<openfd, ep>>
      BY <3>1, <3>2, StaysStill
    <3>3. CASE ReadError(sfd[c]) /\ ClosedFds({sfd[c]})
      <4>1. openfd[sfd[c]] = c /\ c # NoConn
        BY WorkerHas, AcceptedHas DEF Own, UsersOwn
      <4>2. peer[c] = "closed"
        BY <3>3, <4>1 DEF ReadError
      <4>3. c # Logic
        BY <4>2 DEF LogicStays
      <4>4. \A v \in Workers : logic[v] # NoConn => sfd[Logic] \notin {sfd[c]}
        BY <4>1, <4>3 DEF LogicStays, LogicHeld
      <4> QED BY <3>1, <3>3, <4>4, StaysClosed
    <3> QED BY <2>4, <3>2, <3>3 DEF handler_epevent
  <2> QED BY <1>3, <2>2, <2>3, <2>4 DEF WorkerNext
<1> QED BY <1>1, <1>2, <1>3, IOStays DEF Next

-----------------------------------------------------------------------------
(* Whose end a worker is about to note is still among its users.           *)
ClosingKnown ==
  \A w \in Workers : closing[w] # NoConn => users[w].sock[sfd[closing[w]]] = closing[w]

(* A new worker had no users.                                              *)
LEMMA NewWorkerHas ==
  ASSUME TypeOK, Own, NEW c, NEW f \in Fds, NEW w \in Least(Workers \ Started),
         NewWorker(c, f, w)
  PROVE  /\ w \in Workers /\ logic[w] = NoConn /\ closing[w] = NoConn
         /\ \A g \in Fds : users[w].sock[g] = NoConn
         /\ \A g \in Fds : users'[w].sock[g] = IF g = f THEN c ELSE NoConn
         /\ \A v \in Workers \ {w} : users'[v] = users[v]
<1>1. w \in Workers /\ logic[w] = NoConn
  BY DEF Least, Started
<1>2. closing[w] = NoConn /\ ep[w] = {}
  BY <1>1 DEF Own, UsersOwn
<1>3. \A g \in Fds : users[w].sock[g] = NoConn
  BY <1>1, <1>2 DEF Own, UsersOwn
<1>4. users' = [users EXCEPT ![w] = add_conn(NoUsers, c, f, 0)]
  BY DEF NewWorker
<1>5. users'[w] = add_conn(NoUsers, c, f, 0) /\ \A v \in Workers \ {w} : users'[v] = users[v]
  BY <1>1, <1>4 DEF TypeOK, WorkerTypeOK
<1>6. \A g \in Fds : users'[w].sock[g] = IF g = f THEN c ELSE NoConn
  BY <1>5 DEF add_conn, NoUsers, PutAbsent
<1> QED BY <1>1, <1>2, <1>3, <1>5, <1>6

LEMMA ClosingKnownStill ==
  ASSUME TypeOK, ClosingKnown, closing' = closing,
         \A c \in Accepted : sfd'[c] = sfd[c],
         \A w \in Workers : closing[w] # NoConn =>
           \A f \in Fds : users[w].sock[f] # NoConn => users'[w].sock[f] = users[w].sock[f]
  PROVE  ClosingKnown'
<1> SUFFICES ASSUME NEW w \in Workers, closing[w] # NoConn
             PROVE  users'[w].sock[sfd'[closing[w]]] = closing[w]
  BY DEF ClosingKnown
<1>1. closing[w] \in Accepted /\ sfd[closing[w]] \in Fds
  BY WorkerHas, AcceptedHas
<1>2. users[w].sock[sfd[closing[w]]] = closing[w]
  BY DEF ClosingKnown
<1> QED BY <1>1, <1>2

(* The number accept gives leaves the others' as they are.                 *)
LEMMA NumbersStay ==
  ASSUME TypeOK, Own, [Next]_vars
  PROVE  \A c \in Accepted : sfd'[c] = sfd[c]
<1>1. CASE sfd' = sfd
  BY <1>1
<1>2. CASE epoll_one
  <2>1. AcceptSome
    BY <1>2 DEF epoll_one, AcceptSome
  <2> QED BY <2>1, AcceptKeeps DEF Own
<1>3. sfd' = sfd \/ epoll_one
  <2>1. CASE UNCHANGED vars
    BY <2>1 DEF vars, netVars
  <2>2. CASE PeerNext
    BY <2>2 DEF PeerNext, Connect, Send, PeerClose
  <2>3. CASE IONext
    BY <2>3 DEF IONext, handler_data, handler_unlogin_msg, handler_reply,
                notify_workers, netVars
  <2>4. ASSUME NEW w \in Workers, WorkerNext(w) PROVE sfd' = sfd
    BY <2>4 DEF WorkerNext, take_ioevents, handler_ioevent, epoll_wait, handler_epevent,
                worker_conn_offline, handler_epdata, handler_msgs, netVars
  <2> QED BY <2>1, <2>2, <2>3, <2>4 DEF Next
<1> QED BY <1>1, <1>2, <1>3

(* The steps that change what a worker knows of its users.                 *)
LEMMA UsersSteps ==
  ASSUME [Next]_vars
  PROVE  \/ UNCHANGED <<users, wk_uid, closing>>
         \/ handler_reply
         \/ \E w \in Workers : \/ handler_ioevent(w) \/ worker_conn_offline(w)
                               \/ \E c \in epev_users[w] : handler_epevent(w, c)
<1>1. CASE UNCHANGED vars
  BY <1>1 DEF vars, workVars
<1>2. CASE PeerNext
  BY <1>2 DEF PeerNext, Connect, Send, PeerClose, workVars
<1>3. CASE IONext
  BY <1>3 DEF IONext, epoll_one, handler_data, handler_unlogin_msg, notify_workers, workVars
<1>4. CASE \E w \in Workers : WorkerNext(w)
  BY <1>4, SMTT(40) DEF WorkerNext, take_ioevents, epoll_wait, handler_epdata, handler_msgs
<1> QED BY <1>1, <1>2, <1>3, <1>4 DEF Next

LEMMA ReplyUsers ==
  ASSUME TypeOK, handler_reply
  PROVE  \/ UNCHANGED <<users, logic, ep>>
         \/ \E k \in DOMAIN rsp_msgs :
              /\ k = 1 /\ rsp_msgs[k].msg.kind = "verifyrsp"
              /\ rsp_msgs[k].fd \in Fds /\ unlogin_users[rsp_msgs[k].fd] # NoConn
              /\ \E w \in Least(Workers \ Started) :
                   NewWorker(unlogin_users[rsp_msgs[k].fd], rsp_msgs[k].fd, w)
<1>1. rsp_msgs # <<>>
  BY DEF handler_reply
<1>2. 1 \in DOMAIN rsp_msgs /\ rsp_msgs[1] = Head(rsp_msgs)
  <2>1. rsp_msgs \in Seq(Rsp)
    BY DEF TypeOK, IOTypeOK
  <2> QED BY <1>1, <2>1, EmptySeq, LenProperties
<1> QED BY <1>2, ReplyHas
        DEF handler_reply, no_promotion, on_logic_verifyed, on_user_logined

LEMMA NextClosingKnown ==
  ASSUME TypeOK, Own, Mapped, ClosingKnown, [Next]_vars
  PROVE  ClosingKnown'
<1>1. \A c \in Accepted : sfd'[c] = sfd[c]
  BY NumbersStay
<1>2. CASE UNCHANGED <<users, closing>>
  BY <1>1, <1>2, ClosingKnownStill
<1>3. CASE handler_reply
  <2>1. closing' = closing
    BY <1>3 DEF handler_reply
  <2>2. CASE users' = users
    BY <1>2, <2>1, <2>2
  <2>3. ASSUME NEW c, NEW f \in Fds, NEW w \in Least(Workers \ Started), NewWorker(c, f, w)
        PROVE  ClosingKnown'
    BY <1>1, <2>1, <2>3, NewWorkerHas, ClosingKnownStill
  <2> QED BY <1>3, <2>2, <2>3, ReplyUsers
<1>4. ASSUME NEW w \in Workers, handler_ioevent(w) PROVE ClosingKnown'
  <2>1. closing' = closing /\ closing[w] = NoConn
    BY <1>4 DEF handler_ioevent, Stays, Own, UsersOwn
  <2>2. \A v \in Workers \ {w} : users'[v] = users[v]
    BY <1>4 DEF handler_ioevent, on_new_connect, TypeOK, WorkerTypeOK
  <2> QED BY <1>1, <2>1, <2>2, ClosingKnownStill
<1>5. ASSUME NEW w \in Workers, worker_conn_offline(w) PROVE ClosingKnown'
  <2>1. PICK f : f = sfd[closing[w]]
    OBVIOUS
  <2>2. /\ \A v \in Workers \ {w} : users'[v] = users[v]
        /\ \A v \in Workers : closing'[v] = IF v = w THEN NoConn ELSE closing[v]
    BY <1>5, <2>1, Disconnected
  <2>3. sfd' = sfd
    BY <1>5 DEF worker_conn_offline, netVars
  <2> QED BY <2>2, <2>3 DEF ClosingKnown
<1>6. ASSUME NEW w \in Workers, NEW c \in epev_users[w], handler_epevent(w, c)
      PROVE  ClosingKnown'
  <2>1. users' = users /\ sfd' = sfd
    BY <1>6 DEF handler_epevent
  <2>2. CASE closing' = closing
    BY <1>2, <2>1, <2>2
  <2>3. CASE closing' = [closing EXCEPT ![w] = c]
    <3>1. \A v \in Workers : closing'[v] = IF v = w THEN c ELSE closing[v]
      BY <2>3 DEF TypeOK, WorkerTypeOK
    <3>2. users[w].sock[sfd[c]] = c
      BY DEF Own, UsersOwn, WatchersOwn
    <3> QED BY <2>1, <3>1, <3>2 DEF ClosingKnown
  <2> QED BY <1>6, <2>2, <2>3 DEF handler_epevent
<1> QED BY <1>2, <1>3, <1>4, <1>5, <1>6, UsersSteps
-----------------------------------------------------------------------------
(* What the Logic can tell of who is there.                                *)

KnownBy(c) == \E w \in Workers : users[w].sock[sfd[c]] = c
Present(u) == {c \in Accepted \ {Logic} : wk_uid[c] = u /\ KnownBy(c)}

LEMMA WorkersFinite == IsFiniteSet(Workers)
BY GateAssumption, FS_Interval DEF Workers

LEMMA PresentFinite == \A u : IsFiniteSet(Present(u)) /\ Cardinality(Present(u)) \in Nat
<1>1. \A u : IsFiniteSet(Present(u))
  BY GateAssumption, FS_Subset DEF Present, Accepted
<1> QED BY <1>1, FS_CardinalityType

LEMMA TellingType ==
  ASSUME TypeOK, ServiceTypeOK, NEW kind, NEW u
  PROVE  Telling(kind, u) \in Nat
<1>1. /\ told \in Seq(Msg)
      /\ \A w \in Workers : user_msgs_in[w] \in Seq(Msg)
  BY DEF TypeOK, WorkerTypeOK, ServiceTypeOK
<1>2. Count(kind, u, told) \in Nat
  BY <1>1, CountType
<1>3. CountAll(kind, u, user_msgs_in, Workers) \in Nat
  BY <1>1, WorkersFinite, AllFinite
<1> QED BY <1>2, <1>3 DEF Telling

(* A worker has one message more for the Logic.                            *)
LEMMA TellingMore ==
  ASSUME TypeOK, ServiceTypeOK, told' = told, NEW w \in Workers, NEW m \in Msg,
         user_msgs_in' = [user_msgs_in EXCEPT ![w] = Append(@, m)], NEW kind, NEW u
  PROVE  Telling(kind, u)' = Telling(kind, u) + (IF IsOf(m, kind, u) THEN 1 ELSE 0)
<1>1. PICK q, r : q = user_msgs_in /\ r = user_msgs_in'
  OBVIOUS
<1>2. /\ \A v \in Workers : q[v] \in Seq(Msg)
      /\ r[w] = Append(q[w], m)
      /\ \A v \in Workers \ {w} : r[v] = q[v]
  BY <1>1 DEF TypeOK, WorkerTypeOK
<1>3. \A v \in Workers : r[v] \in Seq(Msg)
  BY <1>2, AppendProperties, SMTT(40)
<1>4. /\ CountAll(kind, u, q, Workers)
           = Count(kind, u, q[w]) + CountAll(kind, u, q, Workers \ {w})
      /\ CountAll(kind, u, r, Workers)
           = Count(kind, u, r[w]) + CountAll(kind, u, q, Workers \ {w})
      /\ CountAll(kind, u, q, Workers \ {w}) \in Nat
  <2>1. IsFiniteSet(Workers) /\ (\A v \in Workers \ {w} : r[v] = q[v])
    BY <1>2, WorkersFinite
  <2>2. (\A v \in Workers : q[v] \in Seq(Msg)) /\ (\A v \in Workers : r[v] \in Seq(Msg))
    BY <1>2, <1>3
  <2> QED BY <2>1, <2>2, CountChanged
<1>5. Count(kind, u, r[w]) = Count(kind, u, q[w]) + (IF IsOf(m, kind, u) THEN 1 ELSE 0)
  BY <1>2, CountAppend
<1>6. Count(kind, u, q[w]) \in Nat /\ Count(kind, u, told) \in Nat
  BY <1>2, CountType DEF ServiceTypeOK
<1> QED BY <1>1, <1>4, <1>5, <1>6 DEF Telling

(* What a worker writes is told as often as it was to be.                  *)
LEMMA TellingMoved ==
  ASSUME TypeOK, Own, ServiceTypeOK, LogicStays, NEW w \in Workers, WriteMsgs(w),
         NEW kind, NEW u
  PROVE  Telling(kind, u)' = Telling(kind, u)
<1>1. PICK q, r : q = user_msgs_in /\ r = user_msgs_in'
  OBVIOUS
<1>2. Written(w) = q[w]
  <2>1. w_pc[w] = "epevent"
    BY DEF WriteMsgs, handler_msgs, EventsDone
  <2>2. LogicHeld(w)
    BY <2>1 DEF Own, UsersOwn, LogicStays
  <2> QED BY <1>1, <2>2 DEF Written, LogicHeld
<1>3. /\ \A v \in Workers : q[v] \in Seq(Msg)
      /\ r[w] = <<>>
      /\ \A v \in Workers \ {w} : r[v] = q[v]
  BY <1>1 DEF WriteMsgs, handler_msgs, TypeOK, WorkerTypeOK
<1>4. ASSUME NEW v \in Workers PROVE r[v] \in Seq(Msg)
  <2>1. CASE v = w
    BY <1>3, <2>1, EmptySeq
  <2>2. CASE v # w
    BY <1>3, <2>2
  <2> QED BY <2>1, <2>2
<1>5. /\ CountAll(kind, u, q, Workers)
           = Count(kind, u, q[w]) + CountAll(kind, u, q, Workers \ {w})
      /\ CountAll(kind, u, r, Workers)
           = Count(kind, u, r[w]) + CountAll(kind, u, q, Workers \ {w})
      /\ CountAll(kind, u, q, Workers \ {w}) \in Nat
  BY <1>3, <1>4, WorkersFinite, CountChanged
<1>6. /\ told' = told \o q[w] /\ told \in Seq(Msg)
      /\ Count(kind, u, told \o q[w]) = Count(kind, u, told) + Count(kind, u, q[w])
  BY <1>2, <1>3, CountConcat DEF WriteMsgs, ServiceTypeOK
<1>7. Count(kind, u, r[w]) = 0
  BY <1>3, CountEmpty
<1>8. Count(kind, u, q[w]) \in Nat /\ Count(kind, u, told) \in Nat
  BY <1>3, <1>6, CountType
<1> QED BY <1>1, <1>5, <1>6, <1>7, <1>8 DEF Telling

(* The messages that make no difference to who is there.                   *)
TellingOnline == \A u \in Uids : /\ Telling("online", u)' = Telling("online", u)
                                 /\ Telling("offline", u)' = Telling("offline", u)

LEMMA TellingSame ==
  ASSUME UNCHANGED <<told, user_msgs_in>>
  PROVE  TellingOnline
BY DEF TellingOnline, Telling

LEMMA EpdataTelling ==
  ASSUME UsersSay, TypeOK, Own, ServiceTypeOK, LogicStays, SaidOnly, told' = told,
         NEW w \in Workers, NEW i \in DOMAIN rd_users[w], handler_epdata(w, i)
  PROVE  TellingOnline
<1>1. PICK c, m : c = rd_users[w][i] /\ m = Head(wk_rd[c])
  OBVIOUS
<1>2. CASE user_msgs_in' = user_msgs_in
  BY <1>2, TellingSame
<1>3. CASE /\ ~IsSystem(w, c)
           /\ user_msgs_in' = [user_msgs_in EXCEPT ![w] = Append(@, m)]
  <2>1. c \in Conns
    <3>1. rd_users[w] \in Seq(Accepted)
      BY DEF TypeOK, WorkerTypeOK
    <3> QED BY <1>1, <3>1 DEF Accepted
  <2>2. wk_rd[c] \in Seq(Msg) /\ wk_rd[c] # <<>>
    BY <1>1, <2>1 DEF handler_epdata, NextToParse, HasFrames, TypeOK, WorkerTypeOK
  <2>3. m \in Msg /\ m \in FramesOf(c)
    BY <1>1, <2>1, <2>2, TailOf, HeadTailProperties DEF SaidOnly
  <2>4. c # Logic
    <3>1. logic[w] # NoConn
      BY DEF handler_epdata, EventsDone, Own, UsersOwn
    <3> QED BY <1>3, <3>1 DEF LogicStays, LogicHeld, IsSystem
  <2>5. m.kind # "online" /\ m.kind # "offline"
    BY <2>1, <2>3, <2>4 DEF UsersSay, FramesOf
  <2>6. \A u \in Uids : ~IsOf(m, "online", u) /\ ~IsOf(m, "offline", u)
    BY <2>5 DEF IsOf
  <2>7. ASSUME NEW u \in Uids
        PROVE  /\ Telling("online", u)' = Telling("online", u)
               /\ Telling("offline", u)' = Telling("offline", u)
    <3>1. /\ Telling("online", u)' = Telling("online", u) + 0
          /\ Telling("offline", u)' = Telling("offline", u) + 0
      BY <1>3, <2>3, <2>6, TellingMore
    <3> QED BY <3>1, TellingType
  <2> QED BY <2>7 DEF TellingOnline
<1> QED BY <1>1, <1>2, <1>3 DEF handler_epdata

(* The steps that change what the Logic is told.                           *)
LEMMA TellingSteps ==
  ASSUME [GateLogicNext]_allVars
  PROVE  \/ UNCHANGED <<user_msgs_in, told>>
         \/ \E w \in Workers :
              \/ WriteMsgs(w)
              \/ /\ told' = told
                 /\ \/ handler_ioevent(w) \/ worker_conn_offline(w)
                    \/ \E i \in DOMAIN rd_users[w] : handler_epdata(w, i)
<1>1. CASE GateStep
  <2>1. told' = told
    BY <1>1 DEF GateStep
  <2>2. CASE PeerNext
    BY <2>1, <2>2 DEF PeerNext, Connect, Send, PeerClose, workVars
  <2>3. CASE IONext
    BY <2>1, <2>3 DEF IONext, epoll_one, handler_data, handler_unlogin_msg, handler_reply,
                      notify_workers, workVars
  <2>4. ASSUME NEW w \in Workers, WorkerNext(w), ~(EventsDone(w) /\ AllParsedBy(w))
        PROVE  \/ user_msgs_in' = user_msgs_in
               \/ handler_ioevent(w) \/ worker_conn_offline(w)
               \/ \E i \in DOMAIN rd_users[w] : handler_epdata(w, i)
    BY <2>4 DEF WorkerNext, take_ioevents, epoll_wait, handler_epevent, handler_msgs
  <2> QED BY <1>1, <2>1, <2>2, <2>3, <2>4 DEF GateStep
<1>2. CASE LogicHandles
  BY <1>2 DEF LogicHandles, vars, workVars
<1>3. CASE LogicSends
  BY <1>3 DEF LogicSends, workVars
<1>4. CASE UNCHANGED allVars
  BY <1>4 DEF allVars, vars, workVars
<1> QED BY <1>1, <1>2, <1>3, <1>4 DEF GateLogicNext

(* Whoever is accepted is not known before.                                *)
LEMMA PresentSame ==
  ASSUME TypeOK, TypeOK', wk_uid' = wk_uid, \A c \in Accepted : sfd'[c] = sfd[c],
         \A w \in Workers : \A f \in Fds :
           \/ users'[w].sock[f] = users[w].sock[f]
           \/ {users'[w].sock[f], users[w].sock[f]} \subseteq {Logic, NoConn}
  PROVE  \A u : Present(u)' = Present(u)
<1>1. ASSUME NEW c \in Conns, c # Logic
      PROVE  (c \in Accepted /\ KnownBy(c)) <=> (c \in Accepted' /\ KnownBy(c)')
  <2>1. CASE c \in Accepted
    <3>1. sfd'[c] = sfd[c] /\ sfd[c] \in Fds /\ c # NoConn /\ c \in Accepted'
      BY <2>1, AcceptedHas, UserManagerAssumption DEF Accepted
    <3>2. \A w \in Workers : users'[w].sock[sfd[c]] = c <=> users[w].sock[sfd[c]] = c
      BY <1>1, <3>1
    <3> QED BY <2>1, <3>1, <3>2 DEF KnownBy
  <2>2. CASE c \notin Accepted
    <3> SUFFICES ASSUME c \in Accepted', NEW w \in Workers, users'[w].sock[sfd'[c]] = c
                 PROVE  FALSE
      BY <2>2 DEF KnownBy
    <3>1. sfd'[c] \in Fds /\ c # NoConn
      BY UserManagerAssumption DEF Accepted, TypeOK, NetTypeOK
    <3>2. users[w].sock[sfd'[c]] = c
      BY <1>1, <3>1
    <3> QED BY <2>2, <3>1, <3>2, WorkerHas
  <2> QED BY <2>1, <2>2
<1> SUFFICES ASSUME NEW u PROVE Present(u)' = Present(u)
  OBVIOUS
<1>2. \A c \in Conns : c \in Present(u)' <=> c \in Present(u)
  BY <1>1 DEF Present
<1>3. Present(u) \subseteq Conns /\ Present(u)' \subseteq Conns
  BY DEF Present, Accepted
<1> QED BY <1>2, <1>3

Presence == \A u \in Uids : Telling("online", u) - Telling("offline", u) = Cardinality(Present(u))

LEMMA PresenceSame ==
  ASSUME Presence, TellingOnline, \A u : Present(u)' = Present(u)
  PROVE  Presence'
BY DEF Presence, TellingOnline

LEMMA OneMore ==
  ASSUME NEW S, IsFiniteSet(S), NEW x, x \notin S
  PROVE  Cardinality(S \cup {x}) = Cardinality(S) + 1
BY FS_AddElement

LEMMA OneLess ==
  ASSUME NEW S, IsFiniteSet(S), NEW x, x \in S
  PROVE  Cardinality(S \ {x}) = Cardinality(S) - 1
BY FS_RemoveElement

LEMMA ConnectPresent ==
  ASSUME TypeOK, TypeOK', Own, Mapped, ServiceTypeOK, LogicStays, Presence, told' = told,
         NEW w \in Workers, handler_ioevent(w)
  PROVE  Presence'
<1>1. /\ UNCHANGED <<sfd, ioevs_in, events_io>>
      /\ w_pc[w] = "connect" /\ w_evs[w] # <<>>
      /\ w_evs' = [w_evs EXCEPT ![w] = Tail(@)]
  BY DEF handler_ioevent, Stays, queueVars
<1>2. CASE UNCHANGED <<users, wk_uid, user_msgs_in>>
  BY <1>1, <1>2, PresentSame, TellingSame, PresenceSame
<1>3. CASE Head(w_evs[w]).what = "connect" /\ on_new_connect(w, Head(w_evs[w]))
  <2>1. PICK e \in Event :
          /\ e = Head(w_evs[w])
          /\ e.fd \in Fds /\ e.conn \in Accepted /\ e.conn \in Conns
          /\ openfd[e.fd] = e.conn /\ sfd[e.conn] = e.fd
          /\ \A v \in Workers : e.fd \notin ep[v] /\ users[v].sock[e.fd] # e.conn
          /\ users[w].sock[e.fd] = NoConn
          /\ \A v \in Workers \ {w} : users'[v] = users[v]
          /\ wk_uid'[e.conn] = e.uid
          /\ \A c \in Conns \ {e.conn} : wk_uid'[c] = wk_uid[c]
          /\ \A f \in Fds : users'[w].sock[f] = IF f = e.fd THEN e.conn ELSE users[w].sock[f]
    BY <1>1, <1>3, Connected
  <2>2. e.conn # Logic
    <3>1. LogicHeld(w)
      BY <1>1 DEF Own, UsersOwn, LogicStays
    <3> QED BY <2>1, <3>1 DEF LogicHeld
  <2>3. PICK m : m = [kind |-> "online", uid |-> e.uid]
    OBVIOUS
  <2>4. /\ m \in Msg /\ m.kind = "online" /\ m.uid = e.uid
        /\ user_msgs_in' = [user_msgs_in EXCEPT ![w] = Append(@, m)]
    BY <1>3, <2>1, <2>3 DEF on_new_connect, Event, Msg, Kinds
  <2>5. \A c \in Conns : c \in Accepted' <=> c \in Accepted
    BY <1>1 DEF Accepted
  <2>6. ASSUME NEW c \in Accepted, c # e.conn PROVE KnownBy(c)' <=> KnownBy(c)
    <3>1. sfd[c] \in Fds /\ sfd'[c] = sfd[c] /\ c # NoConn
      BY <1>1, AcceptedHas
    <3>2. \A v \in Workers : users'[v].sock[sfd[c]] = c <=> users[v].sock[sfd[c]] = c
      BY <2>1, <2>6, <3>1
    <3> QED BY <3>1, <3>2 DEF KnownBy
  <2>7. KnownBy(e.conn)' /\ ~KnownBy(e.conn)
    BY <1>1, <2>1 DEF KnownBy
  <2>8. ASSUME NEW u \in Uids
        PROVE  Telling("online", u)' - Telling("offline", u)' = Cardinality(Present(u)')
    <3>1. Telling("offline", u)' = Telling("offline", u)
      <4>1. Telling("offline", u)' = Telling("offline", u) + 0
        BY <2>4, TellingMore DEF IsOf
      <4> QED BY <4>1, TellingType
    <3>2. Telling("online", u)' = Telling("online", u) + (IF e.uid = u THEN 1 ELSE 0)
      BY <2>4, TellingMore DEF IsOf
    <3>3. Present(u)' = IF e.uid = u THEN Present(u) \cup {e.conn} ELSE Present(u)
      <4>1. Present(u) \subseteq Conns /\ Present(u)' \subseteq Conns
        BY DEF Present, Accepted
      <4>2. ASSUME NEW c \in Conns, c # e.conn PROVE c \in Present(u)' <=> c \in Present(u)
        BY <2>1, <2>5, <2>6, <4>2 DEF Present
      <4>3. e.conn \in Present(u)' <=> e.uid = u
        BY <2>1, <2>2, <2>5, <2>7 DEF Present
      <4>4. e.conn \notin Present(u)
        BY <2>7 DEF Present
      <4> QED BY <4>1, <4>2, <4>3, <4>4
    <3>4. e.conn \notin Present(u) /\ IsFiniteSet(Present(u)) /\ Cardinality(Present(u)) \in Nat
      BY <2>7, PresentFinite DEF Present
    <3>5. Cardinality(Present(u) \cup {e.conn}) = Cardinality(Present(u)) + 1
      BY <3>4, OneMore
    <3>6. Telling("online", u) \in Nat /\ Telling("offline", u) \in Nat
      BY TellingType
    <3> QED BY <3>1, <3>2, <3>3, <3>4, <3>5, <3>6 DEF Presence
  <2> QED BY <2>8 DEF Presence
<1> QED BY <1>2, <1>3 DEF handler_ioevent

LEMMA OfflinePresent ==
  ASSUME TypeOK, TypeOK', Own, Mapped, ServiceTypeOK, LogicStays, ClosingKnown, Presence,
         told' = told, NEW w \in Workers, worker_conn_offline(w)
  PROVE  Presence'
<1>1. PICK c : c = closing[w]
  OBVIOUS
<1>2. PICK f : f = sfd[c]
  OBVIOUS
<1>3. /\ UNCHANGED <<sfd, wk_uid>> /\ c # NoConn /\ w_pc[w] = "epevent"
      /\ c \in Accepted /\ c \in Conns /\ f \in Fds /\ users[w].sock[f] = c
  <2>1. c # NoConn /\ w_pc[w] = "epevent" /\ UNCHANGED <<sfd, wk_uid>>
    BY <1>1 DEF worker_conn_offline, Stays, netVars
  <2>2. c \in Accepted
    BY <1>1, <2>1, WorkerHas
  <2> QED BY <1>1, <1>2, <2>1, <2>2, AcceptedHas DEF ClosingKnown
<1>4. /\ \A v \in Workers \ {w} : users'[v] = users[v]
      /\ \A g \in Fds : users'[w].sock[g] = IF g = f THEN NoConn ELSE users[w].sock[g]
  BY <1>1, <1>2, Disconnected
<1>5. logic[w] = Logic /\ \A v \in Workers : v # w => \A g \in Fds : users[v].sock[g] = NoConn
  <2>1. logic[w] = Logic
    BY <1>3 DEF Own, UsersOwn, LogicStays, LogicHeld
  <2>2. ASSUME NEW v \in Workers, v # w, NEW g \in Fds PROVE users[v].sock[g] = NoConn
    <3>1. w_pc[v] = "none" /\ logic[v] = NoConn
      BY <1>3, <2>2, OnlyWorker
    <3>2. ep[v] = {} /\ closing[v] = NoConn
      BY <3>1 DEF Own, UsersOwn
    <3> QED BY <3>2 DEF Own, UsersOwn
  <2> QED BY <2>1, <2>2
<1>6. CASE IsSystem(w, c)
  <2>1. c = Logic /\ user_msgs_in' = user_msgs_in
    BY <1>1, <1>5, <1>6 DEF IsSystem, worker_conn_offline
  <2>2. \A v \in Workers : \A g \in Fds :
          \/ users'[v].sock[g] = users[v].sock[g]
          \/ {users'[v].sock[g], users[v].sock[g]} \subseteq {Logic, NoConn}
    BY <1>3, <1>4, <2>1
  <2>3. \A u : Present(u)' = Present(u)
    BY <1>3, <2>2, PresentSame
  <2> QED BY <2>1, <2>3, TellingSame, PresenceSame
<1>7. CASE ~IsSystem(w, c)
  <2>1. c # Logic
    BY <1>5, <1>7 DEF IsSystem
  <2>2. PICK m : m = [kind |-> "offline", uid |-> wk_uid[c]]
    OBVIOUS
  <2>3. /\ m \in Msg /\ m.kind = "offline" /\ m.uid = wk_uid[c]
        /\ user_msgs_in' = [user_msgs_in EXCEPT ![w] = Append(@, m)]
    <3>1. wk_uid[c] \in Uids \cup {0, -1}
      BY <1>3 DEF TypeOK, WorkerTypeOK
    <3> QED BY <1>1, <1>7, <2>2, <3>1 DEF worker_conn_offline, Msg, Kinds
  <2>4. \A d \in Conns : d \in Accepted' <=> d \in Accepted
    BY <1>3 DEF Accepted
  <2>5. ASSUME NEW d \in Accepted, d # c PROVE KnownBy(d)' <=> KnownBy(d)
    <3>1. sfd[d] \in Fds /\ sfd'[d] = sfd[d] /\ d # NoConn
      BY <1>3, AcceptedHas
    <3>2. \A v \in Workers : users'[v].sock[sfd[d]] = d <=> users[v].sock[sfd[d]] = d
      BY <1>3, <1>4, <2>5, <3>1
    <3> QED BY <3>1, <3>2 DEF KnownBy
  <2>6. ~KnownBy(c)' /\ KnownBy(c)
    <3>1. \A v \in Workers : users'[v].sock[f] # c
      BY <1>3, <1>4, <1>5
    <3> QED BY <1>2, <1>3, <3>1 DEF KnownBy
  <2>7. ASSUME NEW u \in Uids
        PROVE  Telling("online", u)' - Telling("offline", u)' = Cardinality(Present(u)')
    <3>1. Telling("online", u)' = Telling("online", u)
      <4>1. Telling("online", u)' = Telling("online", u) + 0
        BY <2>3, TellingMore DEF IsOf
      <4> QED BY <4>1, TellingType
    <3>2. Telling("offline", u)' = Telling("offline", u) + (IF wk_uid[c] = u THEN 1 ELSE 0)
      BY <2>3, TellingMore DEF IsOf
    <3>3. Present(u)' = Present(u) \ {c}
      <4>1. Present(u) \subseteq Conns /\ Present(u)' \subseteq Conns
        BY DEF Present, Accepted
      <4>2. ASSUME NEW d \in Conns, d # c PROVE d \in Present(u)' <=> d \in Present(u)
        BY <1>3, <2>4, <2>5, <4>2 DEF Present
      <4>3. c \notin Present(u)'
        BY <2>6 DEF Present
      <4> QED BY <4>1, <4>2, <4>3
    <3>4. c \in Present(u) <=> wk_uid[c] = u
      BY <1>3, <2>1, <2>6 DEF Present
    <3>5. IsFiniteSet(Present(u)) /\ Cardinality(Present(u)) \in Nat
      BY PresentFinite
    <3>6. wk_uid[c] = u => Cardinality(Present(u) \ {c}) = Cardinality(Present(u)) - 1
      BY <3>4, <3>5, OneLess
    <3>7. wk_uid[c] # u => Present(u) \ {c} = Present(u)
      BY <3>4
    <3>8. Telling("online", u) \in Nat /\ Telling("offline", u) \in Nat
      BY TellingType
    <3>9. Telling("online", u) - Telling("offline", u) = Cardinality(Present(u))
      BY DEF Presence
    <3>10. CASE wk_uid[c] = u
      BY <3>1, <3>2, <3>3, <3>5, <3>6, <3>8, <3>9, <3>10
    <3>11. CASE wk_uid[c] # u
      BY <3>1, <3>2, <3>3, <3>5, <3>7, <3>8, <3>9, <3>11
    <3> QED BY <3>10, <3>11
  <2> QED BY <2>7 DEF Presence
<1> QED BY <1>6, <1>7

-----------------------------------------------------------------------------
(* A connect event that is new in a queue is of a login just replied to.   *)
JustHanded(e) ==
  /\ 1 \in DOMAIN rsp_msgs /\ rsp_msgs[1].msg.kind = "loginok"
  /\ e.conn = unlogin_users[rsp_msgs[1].fd] /\ e.conn # NoConn
  /\ e.uid = io_uid[e.conn]

LEMMA ConnectsSame ==
  ASSUME NEW w, Queue(w)' = Queue(w), NEW i \in Connects(w)'
  PROVE  \E j \in Connects(w) : Queue(w)'[i] = Queue(w)[j]
<1>1. i \in Connects(w) /\ Queue(w)'[i] = Queue(w)[i]
  BY DEF Connects
<1> QED BY <1>1

LEMMA HandedOver ==
  ASSUME TypeOK, handler_reply, NEW v \in Workers, NEW i \in Connects(v)'
  PROVE  \/ \E j \in Connects(v) : Queue(v)'[i] = Queue(v)[j]
         \/ JustHanded(Queue(v)'[i])
<1>1. UNCHANGED <<w_evs, ioevs_in>> /\ rsp_msgs # <<>>
  BY DEF handler_reply
<1>2. 1 \in DOMAIN rsp_msgs /\ rsp_msgs[1] = Head(rsp_msgs)
  <2>1. rsp_msgs \in Seq(Rsp)
    BY DEF TypeOK, IOTypeOK
  <2> QED BY <1>1, <2>1, EmptySeq, LenProperties
<1>3. PICK f, c : f = rsp_msgs[1].fd /\ c = unlogin_users[f]
  OBVIOUS
<1>4. f \in Fds /\ (c # NoConn => c \in Accepted)
  BY <1>2, <1>3, ReplyHas
<1>5. CASE events_io' = events_io
  <2>1. Queue(v)' = Queue(v)
    BY <1>1, <1>5 DEF Queue
  <2> QED BY <2>1, ConnectsSame
<1>6. ASSUME NEW w \in get_worker(f), HandOver(c, f, w), c # NoConn,
             rsp_msgs[1].msg.kind = "loginok"
      PROVE  \/ \E j \in Connects(v) : Queue(v)'[i] = Queue(v)[j]
             \/ JustHanded(Queue(v)'[i])
  <2>1. PICK e : e = ConnectEvent(c, f)
    OBVIOUS
  <2>2. e \in Event /\ e.conn = c /\ e.uid = io_uid[c]
    <3>1. e \in Event
      BY <1>4, <1>6, <2>1, ConnectEventType
    <3> QED BY <2>1, <3>1 DEF ConnectEvent
  <2>3. events_io' = [events_io EXCEPT ![w] = Append(@, e)]
    BY <1>6, <2>1 DEF HandOver
  <2>4. w \in Workers
    BY DEF get_worker, Least, Having, Idlest, Started
  <2>5. \/ Queue(v)'[i] = e
        \/ i \in Connects(v) /\ Queue(v)'[i] = Queue(v)[i]
    BY <1>1, <2>2, <2>3, <2>4, HandOverAppends
  <2> QED BY <1>2, <1>3, <1>6, <2>2, <2>5 DEF JustHanded
<1>7. \/ events_io' = events_io
      \/ /\ c # NoConn /\ rsp_msgs[1].msg.kind = "loginok"
         /\ \E w \in get_worker(f) : HandOver(c, f, w)
  BY <1>2, <1>3 DEF handler_reply, no_promotion, on_logic_verifyed, on_user_logined
<1> QED BY <1>5, <1>6, <1>7

LEMMA QueueSteps ==
  ASSUME TypeOK, Own, [Next]_vars, NEW v \in Workers, NEW i \in Connects(v)'
  PROVE  \/ \E j \in Connects(v) : Queue(v)'[i] = Queue(v)[j]
         \/ handler_reply /\ JustHanded(Queue(v)'[i])
<1>1. CASE UNCHANGED <<w_evs, ioevs_in, events_io>>
  <2>1. Queue(v)' = Queue(v)
    BY <1>1 DEF Queue
  <2> QED BY <2>1, ConnectsSame
<1>2. CASE UNCHANGED vars \/ PeerNext
  <2>1. UNCHANGED <<w_evs, ioevs_in, events_io>>
    BY <1>2 DEF vars, PeerNext, Connect, Send, PeerClose, queueVars, workVars
  <2> QED BY <1>1, <2>1
<1>3. CASE IONext
  <2>1. CASE epoll_one
    BY <2>1, EpollOneQueues
  <2>2. CASE handler_data \/ \E j \in DOMAIN unlogin_reads : handler_unlogin_msg(j)
    <3>1. UNCHANGED <<w_evs, ioevs_in, events_io>>
      BY <2>2 DEF handler_data, handler_unlogin_msg, queueVars, workVars
    <3> QED BY <1>1, <3>1
  <2>3. CASE handler_reply
    BY <2>3, HandedOver
  <2>4. CASE notify_workers
    BY <2>4, NotifyQueues, ConnectsSame
  <2> QED BY <1>3, <2>1, <2>2, <2>3, <2>4 DEF IONext
<1>4. ASSUME NEW w \in Workers, WorkerNext(w)
      PROVE  \E j \in Connects(v) : Queue(v)'[i] = Queue(v)[j]
  <2>1. CASE take_ioevents(w)
    <3>1. Queue(v)' = Queue(v)
      BY <2>1, TakeQueues DEF Own
    <3> QED BY <3>1, ConnectsSame
  <2>2. CASE handler_ioevent(w)
    <3>1. /\ w_evs[w] # <<>> /\ w_evs' = [w_evs EXCEPT ![w] = Tail(@)]
          /\ UNCHANGED <<ioevs_in, events_io>>
      BY <2>2 DEF handler_ioevent, queueVars
    <3> DEFINE n == IF v = w THEN 1 ELSE 0
    <3>2. i + n \in Connects(v) /\ Queue(v)'[i] = Queue(v)[i + n]
      BY <3>1, QueuesShift
    <3> QED BY <3>2, Zenon
  <2>3. CASE UNCHANGED <<w_evs, ioevs_in, events_io>>
    <3>1. Queue(v)' = Queue(v)
      BY <2>3 DEF Queue
    <3> QED BY <3>1, ConnectsSame
  <2> QED BY <1>4, <2>1, <2>2, <2>3
          DEF WorkerNext, epoll_wait, handler_epevent, worker_conn_offline, handler_epdata,
              handler_msgs, queueVars
<1> QED BY <1>2, <1>3, <1>4 DEF Next

(* What a worker reads of a user goes under a uid of the user's.           *)
Reads(w, c) ==
  \/ \E f \in Fds : users[w].sock[f] = c
  \/ c \in epev_users[w] \/ c \in Elements(rd_users[w])

UidsServed ==
  /\ \A w \in Workers : \A i \in Connects(w) : Queue(w)[i].uid \in Uids
  /\ \A w \in Workers : \A c \in Conns : Reads(w, c) /\ c # Logic => wk_uid[c] \in Uids

LEMMA NextUidsQueued ==
  ASSUME TypeOK, Own, RepliesRight, UidsServed, [Next]_vars
  PROVE  \A w \in Workers : \A i \in Connects(w)' : Queue(w)'[i].uid \in Uids
<1> SUFFICES ASSUME NEW w \in Workers, NEW i \in Connects(w)' PROVE Queue(w)'[i].uid \in Uids
  OBVIOUS
<1>1. CASE \E j \in Connects(w) : Queue(w)'[i] = Queue(w)[j]
  BY <1>1 DEF UidsServed
<1>2. CASE JustHanded(Queue(w)'[i])
  BY <1>2 DEF JustHanded, RepliesRight
<1> QED BY <1>1, <1>2, QueueSteps

(* Whom a worker reads from, it read from before, or met just now.         *)
LEMMA ReadsSteps ==
  ASSUME TypeOK, Own, Mapped, RepliesRight, UidsServed, [Next]_vars,
         NEW w \in Workers, NEW c \in Conns, c # Logic, Reads(w, c)', ~Reads(w, c)
  PROVE  wk_uid'[c] \in Uids
<1>0. c # NoConn
  BY UserManagerAssumption
<1>1. CASE UNCHANGED <<users, epev_users, rd_users>>
  BY <1>1 DEF Reads, Elements
<1>2. CASE UNCHANGED vars \/ PeerNext
  <2>1. UNCHANGED <<users, epev_users, rd_users>>
    BY <1>2 DEF vars, PeerNext, Connect, Send, PeerClose, workVars
  <2> QED BY <1>1, <2>1
<1>3. CASE IONext
  <2>1. UNCHANGED <<epev_users, rd_users>>
    BY <1>3 DEF IONext, epoll_one, handler_data, handler_unlogin_msg, handler_reply,
                notify_workers, workVars
  <2>2. CASE users' = users
    BY <1>1, <2>1, <2>2
  <2>3. CASE handler_reply /\ users' # users
    <3>1. PICK k \in DOMAIN rsp_msgs, v \in Least(Workers \ Started) :
            /\ rsp_msgs[k].msg.kind = "verifyrsp" /\ rsp_msgs[k].fd \in Fds
            /\ unlogin_users[rsp_msgs[k].fd] # NoConn
            /\ NewWorker(unlogin_users[rsp_msgs[k].fd], rsp_msgs[k].fd, v)
      BY <2>3, ReplyUsers
    <3>2. unlogin_users[rsp_msgs[k].fd] = Logic
      BY <3>1 DEF RepliesRight
    <3>3. PICK f, d : f = rsp_msgs[k].fd /\ d = unlogin_users[f]
      OBVIOUS
    <3>4. f \in Fds /\ d # NoConn /\ d = Logic /\ v \in Workers /\ NewWorker(d, f, v)
      BY <3>1, <3>2, <3>3 DEF Least
    <3>5. /\ \A x \in Workers \ {v} : users'[x] = users[x]
          /\ \A g \in Fds : users'[v].sock[g] = IF g = f THEN Logic ELSE NoConn
      BY <3>4, NewWorkerHas, SMTT(120)
    <3>6. \A g \in Fds : users'[v].sock[g] \in {Logic, NoConn}
      BY <3>5
    <3> QED BY <1>0, <2>1, <3>5, <3>6 DEF Reads, Elements
  <2> QED BY <1>3, <2>2, <2>3
          DEF IONext, epoll_one, handler_data, handler_unlogin_msg, notify_workers, workVars
<1>4. ASSUME NEW v \in Workers, handler_ioevent(v) PROVE wk_uid'[c] \in Uids
  <2>1. /\ UNCHANGED <<epev_users, rd_users, ioevs_in, events_io>>
        /\ w_pc[v] = "connect" /\ w_evs[v] # <<>>
        /\ w_evs' = [w_evs EXCEPT ![v] = Tail(@)]
    BY <1>4 DEF handler_ioevent, Stays, queueVars
  <2>2. CASE users' = users
    BY <1>1, <2>1, <2>2
  <2>3. CASE Head(w_evs[v]).what = "connect" /\ on_new_connect(v, Head(w_evs[v]))
    <3>1. PICK e \in Event :
            /\ 1 \in Connects(v) /\ Queue(v)[1] = e
            /\ \A x \in Workers \ {v} : users'[x] = users[x]
            /\ wk_uid'[e.conn] = e.uid
            /\ \A f \in Fds : users'[v].sock[f] = IF f = e.fd THEN e.conn ELSE users[v].sock[f]
      BY <2>1, <2>3, Connected
    <3>2. c = e.conn
      BY <2>1, <3>1 DEF Reads, Elements
    <3> QED BY <3>1, <3>2 DEF UidsServed
  <2> QED BY <1>4, <2>2, <2>3 DEF handler_ioevent
<1>5. ASSUME NEW v \in Workers, epoll_wait(v) PROVE FALSE
  <2>1. UNCHANGED <<users, rd_users>>
        /\ epev_users' = [epev_users EXCEPT ![v] =
             {get_user_by_sock(users[v], f) : f \in Ready(ep[v])} \ {NoConn}]
    BY <1>5 DEF epoll_wait
  <2>2. \A x \in Workers : x # v => epev_users'[x] = epev_users[x]
    BY <2>1 DEF TypeOK, WorkerTypeOK
  <2>3. \A d \in epev_users'[v] : \E f \in Fds : users[v].sock[f] = d
    BY <2>1 DEF get_user_by_sock, TypeOK, WorkerTypeOK
  <2> QED BY <2>1, <2>2, <2>3 DEF Reads, Elements
<1>6. ASSUME NEW v \in Workers, NEW d \in epev_users[v], handler_epevent(v, d) PROVE FALSE
  <2>1. /\ users' = users
        /\ epev_users' = [epev_users EXCEPT ![v] = @ \ {d}]
        /\ rd_users' \in {rd_users, [rd_users EXCEPT ![v] = Append(@, d)]}
    BY <1>6 DEF handler_epevent
  <2>2. \A x \in Workers : epev_users'[x] \subseteq epev_users[x]
    BY <2>1 DEF TypeOK, WorkerTypeOK
  <2>3. ASSUME NEW x \in Workers PROVE Elements(rd_users'[x]) \subseteq Elements(rd_users[x]) \cup epev_users[x]
    <3>1. rd_users[x] \in Seq(Accepted) /\ d \in Accepted
      BY WorkerHas DEF TypeOK, WorkerTypeOK
    <3>2. \/ rd_users'[x] = rd_users[x]
          \/ x = v /\ rd_users'[x] = Append(rd_users[x], d)
      BY <2>1 DEF TypeOK, WorkerTypeOK
    <3>3. \A j \in DOMAIN Append(rd_users[x], d) :
            Append(rd_users[x], d)[j] \in Elements(rd_users[x]) \cup {d}
      <4>1. \A j \in DOMAIN rd_users[x] : rd_users[x][j] \in Elements(rd_users[x]) \cup {d}
        BY DEF Elements
      <4> QED BY <3>1, <4>1, AppendOf
    <3> QED BY <3>2, <3>3 DEF Elements
  <2>4. Elements(rd_users[w])' \subseteq Elements(rd_users[w]) \cup epev_users[w]
    BY <2>3 DEF Elements
  <2> QED BY <2>1, <2>2, <2>4 DEF Reads
<1>7. ASSUME NEW v \in Workers, worker_conn_offline(v) PROVE FALSE
  <2>1. PICK f : f = sfd[closing[v]]
    OBVIOUS
  <2>2. /\ \A x \in Workers \ {v} : users'[x] = users[x]
        /\ \A g \in Fds : users'[v].sock[g] = IF g = f THEN NoConn ELSE users[v].sock[g]
    BY <1>7, <2>1, Disconnected
  <2>3. UNCHANGED <<epev_users, rd_users>>
    BY <1>7 DEF worker_conn_offline
  <2> QED BY <1>0, <2>2, <2>3 DEF Reads, Elements
<1>8. ASSUME NEW v \in Workers, WorkerNext(v) PROVE wk_uid'[c] \in Uids
  <2>1. CASE take_ioevents(v) \/ handler_msgs(v) \/ \E i \in DOMAIN rd_users[v] : handler_epdata(v, i)
    <3>1. UNCHANGED <<users, epev_users, rd_users>>
      BY <2>1 DEF take_ioevents, handler_msgs, handler_epdata
    <3> QED BY <1>1, <3>1
  <2> QED BY <1>4, <1>5, <1>6, <1>7, <1>8, <2>1 DEF WorkerNext
<1> QED BY <1>2, <1>3, <1>8 DEF Next

(* The uid a worker's user has, it got when the user was handed over.      *)
LEMMA UidSteps ==
  ASSUME TypeOK, Own, Mapped, UidsServed, [Next]_vars, NEW c \in Conns
  PROVE  \/ wk_uid'[c] = wk_uid[c]
         \/ /\ wk_uid'[c] \in Uids
            /\ \E w \in Workers :
                 /\ handler_ioevent(w)
                 /\ user_msgs_in' = [user_msgs_in EXCEPT ![w] =
                      Append(@, [kind |-> "online", uid |-> wk_uid'[c]])]
<1>1. CASE wk_uid' = wk_uid
  BY <1>1
<1>2. ASSUME NEW w \in Workers, handler_ioevent(w), wk_uid' # wk_uid, wk_uid'[c] # wk_uid[c]
      PROVE  /\ wk_uid'[c] \in Uids
             /\ user_msgs_in' = [user_msgs_in EXCEPT ![w] =
                  Append(@, [kind |-> "online", uid |-> wk_uid'[c]])]
  <2>1. /\ UNCHANGED <<ioevs_in, events_io>>
        /\ w_pc[w] = "connect" /\ w_evs[w] # <<>>
        /\ w_evs' = [w_evs EXCEPT ![w] = Tail(@)]
        /\ Head(w_evs[w]).what = "connect" /\ on_new_connect(w, Head(w_evs[w]))
    BY <1>2 DEF handler_ioevent, Stays, queueVars
  <2>2. PICK e \in Event :
          /\ e = Head(w_evs[w]) /\ 1 \in Connects(w) /\ Queue(w)[1] = e
          /\ wk_uid'[e.conn] = e.uid
          /\ \A d \in Conns \ {e.conn} : wk_uid'[d] = wk_uid[d]
    BY <2>1, Connected
  <2>3. c = e.conn /\ e.uid \in Uids
    BY <1>2, <2>2 DEF UidsServed
  <2> QED BY <2>1, <2>2, <2>3 DEF on_new_connect
<1>3. wk_uid' = wk_uid \/ \E w \in Workers : handler_ioevent(w)
  <2>1. CASE handler_reply
    BY <2>1 DEF handler_reply
  <2>2. CASE \E w \in Workers : worker_conn_offline(w) \/ \E d \in epev_users[w] : handler_epevent(w, d)
    BY <2>2 DEF worker_conn_offline, handler_epevent
  <2> QED BY <2>1, <2>2, UsersSteps
<1> QED BY <1>1, <1>2, <1>3

LEMMA NextUidsServed ==
  ASSUME TypeOK, Own, Mapped, RepliesRight, UidsServed, [Next]_vars
  PROVE  UidsServed'
<1>1. ASSUME NEW w \in Workers, NEW c \in Conns, c # Logic, Reads(w, c)'
      PROVE  wk_uid'[c] \in Uids
  <2>1. CASE Reads(w, c)
    BY <1>1, <2>1, UidSteps DEF UidsServed
  <2>2. CASE ~Reads(w, c)
    BY <1>1, <2>2, ReadsSteps
  <2> QED BY <2>1, <2>2
<1> QED BY <1>1, NextUidsQueued DEF UidsServed

-----------------------------------------------------------------------------
(* What is told, step by step.                                             *)
LogicInv ==
  /\ GateInv /\ ServiceTypeOK /\ SaidOnly /\ RepliesRight
  /\ LogicStays /\ ClosingKnown /\ UidsServed

(* The Gate's own steps, and those that leave the Gate as it is.           *)
LEMMA StepKinds ==
  ASSUME [GateLogicNext]_allVars
  PROVE  [Next]_vars \/ LogicSends
<1>1. ASSUME NEW w \in Workers, WriteMsgs(w) PROVE Next
  BY <1>1 DEF WriteMsgs, Next, WorkerNext
<1>2. ASSUME LogicHandles PROVE UNCHANGED vars
  BY <1>2 DEF LogicHandles
<1> QED BY <1>1, <1>2, StepCases

LEMMA InitLogicInv ==
  ASSUME GateLogicInit
  PROVE  LogicInv
<1>1. NetInit /\ IOInit /\ WorkerInit /\ Init
  BY DEF GateLogicInit, Init
<1>2. GateInv /\ ServiceTypeOK
  BY InitGateInv
<1>3. SaidOnly
  <2>1. \A c \in Conns : said[c] = <<>> /\ wk_rd[c] = <<>>
    BY <1>1 DEF NetInit, WorkerInit
  <2>2. DOMAIN <<>> = {}
    OBVIOUS
  <2> QED BY <2>1, <2>2 DEF SaidOnly
<1>4. RepliesRight
  BY <1>1 DEF IOInit, RepliesRight
<1>5. LogicStays
  BY <1>1, GateLogicAssumption DEF NetInit, WorkerInit, LogicStays
<1>6. ClosingKnown
  BY <1>1 DEF WorkerInit, ClosingKnown
<1>7. UidsServed
  <2>1. ASSUME NEW w \in Workers PROVE Queue(w) = <<>>
    BY <1>1 DEF WorkerInit, Queue
  <2>2. \A w \in Workers : Connects(w) = {}
    BY <2>1 DEF Connects
  <2>3. ASSUME NEW w \in Workers, NEW c \in Conns, Reads(w, c) PROVE FALSE
    <3>1. /\ \A f \in Fds : users[w].sock[f] = NoConn
          /\ epev_users[w] = {} /\ rd_users[w] = <<>>
      BY <1>1 DEF WorkerInit, NoUsers
    <3> QED BY <2>3, <3>1, UserManagerAssumption DEF Reads, Elements
  <2> QED BY <2>2, <2>3 DEF UidsServed
<1> QED BY <1>2, <1>3, <1>4, <1>5, <1>6, <1>7 DEF LogicInv

LEMMA NextLogicInv ==
  ASSUME KnownFrames, OneLogic, UsersSay, LogicInv, [GateLogicNext]_allVars
  PROVE  LogicInv'
<1>0. /\ GateInv /\ ServiceTypeOK /\ SaidOnly /\ RepliesRight
      /\ LogicStays /\ ClosingKnown /\ UidsServed
      /\ TypeOK /\ Own /\ Authentic /\ Mapped /\ Followed
  BY DEF LogicInv, GateInv
<1>1. GateInv' /\ ServiceTypeOK'
  BY <1>0, GateInvCorrect, ServiceTypeCorrect
<1>2. CASE [Next]_vars
  <2>1. SaidOnly' /\ RepliesRight'
    BY <1>0, <1>2, NextSaid, NextRight
  <2>2. LogicStays' /\ ClosingKnown'
    BY <1>0, <1>2, NextStays, NextClosingKnown
  <2>3. UidsServed'
    BY <1>0, <1>2, NextUidsServed
  <2> QED BY <1>1, <2>1, <2>2, <2>3 DEF LogicInv
<1>3. CASE LogicSends
  <2>1. UNCHANGED <<peer, sfd, openfd, ep, ioVars, queueVars, workVars>>
    BY <1>0, <1>3, AnswerSaid
  <2>2. SaidOnly'
    BY <1>0, <1>3, AnswerSays
  <2>3. RepliesRight'
    BY <1>0, <2>1, RightSame DEF ioVars
  <2>4. LogicStays' /\ ClosingKnown'
    BY <1>0, <2>1 DEF LogicStays, LogicHeld, ClosingKnown, queueVars, workVars
  <2>5. UidsServed'
    BY <1>0, <2>1 DEF UidsServed, Reads, Connects, Queue, Elements, queueVars, workVars
  <2> QED BY <1>1, <2>2, <2>3, <2>4, <2>5 DEF LogicInv
<1> QED BY <1>2, <1>3, StepKinds

LEMMA CountNone ==
  ASSUME NEW S, NEW q, \A x \in S : q[x] = <<>>, NEW kind, NEW u
  PROVE  CountAll(kind, u, q, S) = 0
<1>1. Places(q, S) = {}
  BY DEF Places
<1> QED BY <1>1, FS_EmptySet DEF CountAll

LEMMA InitPresence ==
  ASSUME GateLogicInit
  PROVE  Presence
<1>1. told = <<>> /\ (\A w \in Workers : user_msgs_in[w] = <<>>) /\ (\A c \in Conns : sfd[c] = 0)
  BY DEF GateLogicInit, Init, NetInit, WorkerInit
<1>2. \A kind, u : Telling(kind, u) = 0
  BY <1>1, CountEmpty, CountNone DEF Telling
<1>3. \A u : Present(u) = {}
  BY <1>1 DEF Present, Accepted
<1> QED BY <1>2, <1>3, FS_EmptySet DEF Presence

(* A handed over Logic is none of those that are there.                    *)
LEMMA ReplyPresent ==
  ASSUME TypeOK, TypeOK', Own, RepliesRight, handler_reply
  PROVE  \A u : Present(u)' = Present(u)
<1>1. UNCHANGED <<sfd, wk_uid>>
  BY DEF handler_reply
<1>2. CASE users' = users
  BY <1>1, <1>2, PresentSame
<1>3. CASE users' # users
  <2>1. PICK k \in DOMAIN rsp_msgs, v \in Least(Workers \ Started) :
          /\ rsp_msgs[k].msg.kind = "verifyrsp" /\ rsp_msgs[k].fd \in Fds
          /\ unlogin_users[rsp_msgs[k].fd] # NoConn
          /\ NewWorker(unlogin_users[rsp_msgs[k].fd], rsp_msgs[k].fd, v)
    BY <1>3, ReplyUsers
  <2>2. PICK f, d : f = rsp_msgs[k].fd /\ d = unlogin_users[f]
    OBVIOUS
  <2>3. f \in Fds /\ d = Logic /\ NewWorker(d, f, v)
    BY <2>1, <2>2 DEF RepliesRight
  <2>4. /\ \A g \in Fds : users[v].sock[g] = NoConn
        /\ \A g \in Fds : users'[v].sock[g] = IF g = f THEN Logic ELSE NoConn
        /\ \A x \in Workers \ {v} : users'[x] = users[x]
    BY <2>3, NewWorkerHas, ZenonT(40)
  <2>5. \A w \in Workers : \A g \in Fds :
          \/ users'[w].sock[g] = users[w].sock[g]
          \/ {users'[w].sock[g], users[w].sock[g]} \subseteq {Logic, NoConn}
    BY <2>4
  <2> QED BY <1>1, <2>5, PresentSame
<1> QED BY <1>2, <1>3

(* Only the two steps that also tell the Logic change who is there.        *)
LEMMA PresentSteps ==
  ASSUME TypeOK, TypeOK', Own, RepliesRight, [Next]_vars,
         \A w \in Workers : ~handler_ioevent(w) /\ ~worker_conn_offline(w)
  PROVE  \A u : Present(u)' = Present(u)
<1>1. CASE handler_reply
  BY <1>1, ReplyPresent
<1>2. CASE UNCHANGED <<users, wk_uid>>
  BY <1>2, NumbersStay, PresentSame
<1>3. ASSUME NEW w \in Workers, NEW c \in epev_users[w], handler_epevent(w, c)
      PROVE  UNCHANGED <<users, wk_uid>>
  BY <1>3 DEF handler_epevent
<1> QED BY <1>1, <1>2, <1>3, UsersSteps

LEMMA NextPresence ==
  ASSUME KnownFrames, OneLogic, UsersSay, LogicInv, LogicInv', Presence,
         [GateLogicNext]_allVars
  PROVE  Presence'
<1>0. /\ ServiceTypeOK /\ SaidOnly /\ RepliesRight /\ LogicStays /\ ClosingKnown
      /\ TypeOK /\ Own /\ Mapped /\ TypeOK'
  BY DEF LogicInv, GateInv
<1>1. ASSUME NEW w \in Workers, handler_ioevent(w) \/ worker_conn_offline(w), told' = told
      PROVE  Presence'
  BY <1>0, <1>1, ConnectPresent, OfflinePresent
<1>2. CASE UNCHANGED <<user_msgs_in, told>>
  <2>1. CASE \E w \in Workers : handler_ioevent(w) \/ worker_conn_offline(w)
    BY <1>1, <1>2, <2>1
  <2>2. CASE \A w \in Workers : ~handler_ioevent(w) /\ ~worker_conn_offline(w)
    <3>1. ASSUME [Next]_vars PROVE \A u : Present(u)' = Present(u)
      BY <1>0, <2>2, <3>1, PresentSteps
    <3>2. ASSUME LogicSends PROVE \A u : Present(u)' = Present(u)
      <4>1. UNCHANGED <<sfd, workVars>>
        BY <1>0, <3>2, AnswerSaid
      <4>2. UNCHANGED <<users, wk_uid>>
        BY <4>1 DEF workVars
      <4> QED BY <1>0, <4>1, <4>2, PresentSame
    <3>3. \A u : Present(u)' = Present(u)
      BY <3>1, <3>2, StepKinds
    <3> QED BY <1>2, <3>3, TellingSame, PresenceSame
  <2> QED BY <2>1, <2>2
<1>3. ASSUME NEW w \in Workers, WriteMsgs(w) PROVE Presence'
  <2>1. UNCHANGED <<sfd, users, wk_uid>>
    BY <1>3 DEF WriteMsgs, handler_msgs
  <2>2. \A u : Present(u)' = Present(u)
    BY <1>0, <2>1, PresentSame
  <2>3. TellingOnline
    BY <1>0, <1>3, TellingMoved DEF TellingOnline
  <2> QED BY <2>2, <2>3, PresenceSame
<1>4. ASSUME NEW w \in Workers, NEW i \in DOMAIN rd_users[w], handler_epdata(w, i), told' = told
      PROVE  Presence'
  <2>1. UNCHANGED <<sfd, users, wk_uid>>
    BY <1>4 DEF handler_epdata, netVars
  <2>2. \A u : Present(u)' = Present(u)
    BY <1>0, <2>1, PresentSame
  <2>3. TellingOnline
    BY <1>0, <1>4, EpdataTelling
  <2> QED BY <2>2, <2>3, PresenceSame
<1> QED BY <1>1, <1>2, <1>3, <1>4, TellingSteps

(* The Logic can tell who is there: for a user, the Onlines it is told of  *)
(* exceed the Offlines by the connections workers serve him on.            *)
THEOREM PresenceIsTold ==
  ASSUME KnownFrames, OneLogic, UsersSay
  PROVE  GateLogicSpec => []PresenceTold
<1>1. LogicInv /\ [GateLogicNext]_allVars => LogicInv'
  BY NextLogicInv
<1>2. LogicInv /\ LogicInv' /\ Presence /\ [GateLogicNext]_allVars => Presence'
  BY NextPresence
<1>3. GateLogicInit => LogicInv /\ Presence
  BY InitLogicInv, InitPresence
<1>4. Presence => PresenceTold
  BY DEF Presence, Present, KnownBy, PresenceTold
<1> QED BY <1>1, <1>2, <1>3, <1>4, PTL DEF GateLogicSpec

-----------------------------------------------------------------------------
(* The users whose Online is in a sequence, and the sequences in which no  *)
(* dosth comes before the Online of its user, those of S being online.     *)
OnlinesOf(s) == {u \in Uids : \E i \in DOMAIN s : IsOf(s[i], "online", u)}
OnlineBefore(s, i) == \E j \in DOMAIN s : j < i /\ IsOf(s[j], "online", s[i].uid)
First(s, S) ==
  \A i \in DOMAIN s : s[i].kind = "dosth" =>
    s[i].uid \in Uids /\ (s[i].uid \in S \/ OnlineBefore(s, i))

LEMMA FirstMore ==
  ASSUME NEW s, NEW S, NEW T, S \subseteq T, First(s, S)
  PROVE  First(s, T)
BY DEF First

LEMMA FirstEmpty == OnlinesOf(<<>>) = {} /\ \A S : First(<<>>, S)
<1>1. DOMAIN <<>> = {}
  OBVIOUS
<1> QED BY <1>1 DEF OnlinesOf, First

LEMMA FirstOne ==
  ASSUME NEW m
  PROVE  /\ OnlinesOf(<<m>>) = IF m.kind = "online" /\ m.uid \in Uids THEN {m.uid} ELSE {}
         /\ \A S : m.kind = "dosth" /\ m.uid \in Uids /\ m.uid \in S => First(<<m>>, S)
         /\ \A S : m.kind # "dosth" => First(<<m>>, S)
<1>1. DOMAIN <<m>> = {1} /\ <<m>>[1] = m
  OBVIOUS
<1> QED BY <1>1 DEF OnlinesOf, First, IsOf

LEMMA OnlinesConcat ==
  ASSUME NEW M, NEW s \in Seq(M), NEW t \in Seq(M)
  PROVE  OnlinesOf(s \o t) = OnlinesOf(s) \cup OnlinesOf(t)
<1>1. /\ Len(s) \in Nat /\ Len(t) \in Nat
      /\ DOMAIN s = 1 .. Len(s) /\ DOMAIN t = 1 .. Len(t)
      /\ DOMAIN (s \o t) = 1 .. Len(s) + Len(t)
      /\ \A i \in 1 .. Len(s) + Len(t) :
           (s \o t)[i] = IF i <= Len(s) THEN s[i] ELSE t[i - Len(s)]
  BY ConcatProperties, LenProperties
<1>2. ASSUME NEW u \in OnlinesOf(s \o t) PROVE u \in OnlinesOf(s) \cup OnlinesOf(t)
  <2>1. PICK i \in 1 .. Len(s) + Len(t) : IsOf((s \o t)[i], "online", u)
    BY <1>1 DEF OnlinesOf
  <2>2. \/ i \in 1 .. Len(s) /\ (s \o t)[i] = s[i]
        \/ i - Len(s) \in 1 .. Len(t) /\ (s \o t)[i] = t[i - Len(s)]
    BY <1>1
  <2> QED BY <1>1, <2>1, <2>2 DEF OnlinesOf
<1>3. ASSUME NEW u \in OnlinesOf(s) PROVE u \in OnlinesOf(s \o t)
  <2>1. PICK i \in 1 .. Len(s) : IsOf(s[i], "online", u)
    BY <1>1 DEF OnlinesOf
  <2>2. i \in 1 .. Len(s) + Len(t) /\ (s \o t)[i] = s[i]
    BY <1>1
  <2> QED BY <1>1, <2>1, <2>2 DEF OnlinesOf
<1>4. ASSUME NEW u \in OnlinesOf(t) PROVE u \in OnlinesOf(s \o t)
  <2>1. PICK i \in 1 .. Len(t) : IsOf(t[i], "online", u)
    BY <1>1 DEF OnlinesOf
  <2>2. /\ i + Len(s) \in 1 .. Len(s) + Len(t) /\ ~(i + Len(s) <= Len(s))
        /\ i + Len(s) - Len(s) = i
    BY <1>1
  <2>3. (s \o t)[i + Len(s)] = t[i]
    BY <1>1, <2>2
  <2> QED BY <1>1, <2>1, <2>2, <2>3 DEF OnlinesOf
<1> QED BY <1>2, <1>3, <1>4

LEMMA FirstConcat ==
  ASSUME NEW M, NEW s \in Seq(M), NEW t \in Seq(M), NEW S,
         First(s, S), First(t, S \cup OnlinesOf(s))
  PROVE  First(s \o t, S)
<1>1. /\ Len(s) \in Nat /\ Len(t) \in Nat
      /\ DOMAIN s = 1 .. Len(s) /\ DOMAIN t = 1 .. Len(t)
      /\ DOMAIN (s \o t) = 1 .. Len(s) + Len(t)
      /\ \A i \in 1 .. Len(s) + Len(t) :
           (s \o t)[i] = IF i <= Len(s) THEN s[i] ELSE t[i - Len(s)]
  BY ConcatProperties, LenProperties
<1>2. PICK r : r = s \o t
  OBVIOUS
<1>3. /\ DOMAIN r = 1 .. Len(s) + Len(t)
      /\ \A i \in 1 .. Len(s) : i \in 1 .. Len(s) + Len(t) /\ r[i] = s[i]
      /\ \A i \in 1 .. Len(t) :
           i + Len(s) \in 1 .. Len(s) + Len(t) /\ r[i + Len(s)] = t[i]
  <2>1. ASSUME NEW i \in 1 .. Len(t)
        PROVE  i + Len(s) \in 1 .. Len(s) + Len(t) /\ r[i + Len(s)] = t[i]
    <3>1. /\ i + Len(s) \in 1 .. Len(s) + Len(t) /\ ~(i + Len(s) <= Len(s))
          /\ i + Len(s) - Len(s) = i
      BY <1>1
    <3> QED BY <1>1, <1>2, <3>1
  <2>2. ASSUME NEW i \in 1 .. Len(s)
        PROVE  i \in 1 .. Len(s) + Len(t) /\ r[i] = s[i]
    BY <1>1, <1>2
  <2> QED BY <1>1, <1>2, <2>1, <2>2
<1>4. ASSUME NEW i \in DOMAIN r, r[i].kind = "dosth"
      PROVE  r[i].uid \in Uids /\ (r[i].uid \in S \/ OnlineBefore(r, i))
  <2>1. CASE i \in 1 .. Len(s)
    <3>1. s[i].kind = "dosth" /\ r[i] = s[i]
      BY <1>3, <1>4, <2>1
    <3>2. s[i].uid \in Uids /\ (s[i].uid \in S \/ OnlineBefore(s, i))
      BY <1>1, <2>1, <3>1 DEF First
    <3>3. OnlineBefore(s, i) => OnlineBefore(r, i)
      BY <1>1, <1>3, <3>1 DEF OnlineBefore
    <3> QED BY <3>1, <3>2, <3>3
  <2>2. CASE i \notin 1 .. Len(s)
    <3>1. PICK k \in 1 .. Len(t) : i = k + Len(s)
      <4>1. i - Len(s) \in 1 .. Len(t) /\ i = (i - Len(s)) + Len(s)
        BY <1>1, <1>3, <2>2
      <4> QED BY <4>1
    <3>2. t[k].kind = "dosth" /\ r[i] = t[k]
      BY <1>3, <1>4, <3>1
    <3>3. t[k].uid \in Uids /\ (t[k].uid \in S \cup OnlinesOf(s) \/ OnlineBefore(t, k))
      BY <1>1, <3>2 DEF First
    <3>4. ASSUME t[k].uid \in OnlinesOf(s) PROVE OnlineBefore(r, i)
      <4>1. PICK j \in 1 .. Len(s) : IsOf(s[j], "online", t[k].uid)
        BY <1>1, <3>4 DEF OnlinesOf
      <4>2. j \in DOMAIN r /\ j < i /\ r[j] = s[j]
        BY <1>1, <1>3, <3>1
      <4> QED BY <3>2, <4>1, <4>2 DEF OnlineBefore
    <3>5. ASSUME OnlineBefore(t, k) PROVE OnlineBefore(r, i)
      <4>1. PICK j \in 1 .. Len(t) : j < k /\ IsOf(t[j], "online", t[k].uid)
        BY <1>1, <3>5 DEF OnlineBefore
      <4>2. j + Len(s) \in DOMAIN r /\ r[j + Len(s)] = t[j]
        BY <1>3
      <4>3. j + Len(s) < i
        BY <1>1, <3>1, <4>1
      <4> QED BY <3>2, <4>1, <4>2, <4>3 DEF OnlineBefore
    <3> QED BY <3>2, <3>3, <3>4, <3>5
  <2> QED BY <2>1, <2>2
<1> QED BY <1>2, <1>4 DEF First

LEMMA FirstTail ==
  ASSUME NEW M, NEW s \in Seq(M), s # <<>>, NEW S, First(s, S)
  PROVE  /\ OnlinesOf(s) = OnlinesOf(<<Head(s)>>) \cup OnlinesOf(Tail(s))
         /\ First(Tail(s), S \cup OnlinesOf(<<Head(s)>>))
<1>1. Head(s) \in M /\ Tail(s) \in Seq(M) /\ <<Head(s)>> \in Seq(M)
  BY HeadTailProperties
<1>2. s = <<Head(s)>> \o Tail(s)
  OBVIOUS
<1>3. OnlinesOf(<<Head(s)>> \o Tail(s)) = OnlinesOf(<<Head(s)>>) \cup OnlinesOf(Tail(s))
  BY <1>1, OnlinesConcat, ZenonT(40)
<1>4. PICK t, m : t = Tail(s) /\ m = Head(s)
  OBVIOUS
<1>5. /\ DOMAIN s = 1 .. Len(s) /\ Len(s) \in Nat /\ Len(s) >= 1
      /\ DOMAIN t = 1 .. Len(s) - 1 /\ s[1] = m
      /\ \A i \in 1 .. Len(s) - 1 : i + 1 \in 1 .. Len(s) /\ t[i] = s[i + 1]
  <2>1. Len(s) \in Nat /\ DOMAIN s = 1 .. Len(s) /\ Len(s) # 0
    BY LenProperties, EmptySeq
  <2>2. Len(t) = Len(s) - 1 /\ t \in Seq(M) /\ \A i \in 1 .. Len(t) : t[i] = s[i + 1]
    BY <1>4, HeadTailProperties
  <2> QED BY <1>4, <2>1, <2>2, LenProperties
<1>6. ASSUME NEW i \in DOMAIN t, t[i].kind = "dosth"
      PROVE  /\ t[i].uid \in Uids
             /\ t[i].uid \in S \cup OnlinesOf(<<m>>) \/ OnlineBefore(t, i)
  <2>1. i \in 1 .. Len(s) - 1 /\ i + 1 \in 1 .. Len(s) /\ t[i] = s[i + 1]
    BY <1>5
  <2>2. t[i].uid \in Uids /\ (t[i].uid \in S \/ OnlineBefore(s, i + 1))
    BY <1>5, <1>6, <2>1 DEF First
  <2>3. ASSUME OnlineBefore(s, i + 1) PROVE t[i].uid \in OnlinesOf(<<m>>) \/ OnlineBefore(t, i)
    <3>1. PICK j \in 1 .. Len(s) : j < i + 1 /\ IsOf(s[j], "online", t[i].uid)
      BY <1>5, <2>1, <2>3 DEF OnlineBefore
    <3>2. CASE j = 1
      <4>1. m.kind = "online" /\ m.uid = t[i].uid
        BY <1>5, <3>1, <3>2 DEF IsOf
      <4> QED BY <2>2, <4>1, FirstOne
    <3>3. CASE j # 1
      <4>1. j - 1 \in 1 .. Len(s) - 1 /\ j - 1 < i /\ (j - 1) + 1 = j
        BY <1>5, <2>1, <3>1, <3>3
      <4>2. t[j - 1] = s[j]
        BY <1>5, <4>1
      <4> QED BY <1>5, <3>1, <4>1, <4>2 DEF OnlineBefore
    <3> QED BY <3>2, <3>3
  <2> QED BY <2>2, <2>3
<1> QED BY <1>2, <1>3, <1>4, <1>6 DEF First

LEMMA FirstMapped ==
  ASSUME NEW s \in Seq(Msg), NEW t, t = [i \in DOMAIN s |-> ToService(s[i])]
  PROVE  /\ OnlinesOf(t) = OnlinesOf(s)
         /\ \A S : First(s, S) => First(t, S)
<1>1. DOMAIN t = DOMAIN s
  OBVIOUS
<1>2. \A i \in DOMAIN s : t[i].kind = s[i].kind /\ t[i].uid = s[i].uid
  BY DEF ToService
<1>3. OnlinesOf(t) = OnlinesOf(s)
  BY <1>1, <1>2 DEF OnlinesOf, IsOf
<1>4. ASSUME NEW S, First(s, S) PROVE First(t, S)
  <2>1. ASSUME NEW i \in DOMAIN s, OnlineBefore(s, i) PROVE OnlineBefore(t, i)
    BY <1>1, <1>2, <2>1 DEF OnlineBefore, IsOf
  <2> QED BY <1>1, <1>2, <1>4, <2>1 DEF First
<1> QED BY <1>3, <1>4

(* Whoever is served is online at the Logic, or his Online is under way    *)
(* there, and none of his messages is before it.                           *)
OnlineThere == known \cup OnlinesOf(pending)
Onlined == OnlineThere \cup UNION {OnlinesOf(user_msgs_in[w]) : w \in Workers}

Idle == \A w \in Workers : w_pc[w] = "none" => user_msgs_in[w] = <<>>

OnlineFirst ==
  /\ \A c \in Conns : wk_uid[c] \in Uids => wk_uid[c] \in Onlined
  /\ First(pending, known)
  /\ \A w \in Workers : First(user_msgs_in[w], OnlineThere)
  /\ Idle

LEMMA WorkerStarts ==
  ASSUME TypeOK, [Next]_vars, NEW w \in Workers, w_pc'[w] = "none"
  PROVE  w_pc[w] = "none"
<1>1. w_pc \in [Workers -> {"none", "ioevent", "connect", "epevent"}]
  BY DEF TypeOK, WorkerTypeOK
<1>2. CASE w_pc' = w_pc
  BY <1>2
<1>3. CASE handler_reply
  BY <1>1, <1>3 DEF handler_reply, no_promotion, on_logic_verifyed, on_user_logined, NewWorker
<1>4. CASE \E v \in Workers : WorkerNext(v)
  BY <1>1, <1>4, ZenonT(40) DEF WorkerNext, take_ioevents, handler_ioevent, epoll_wait, handler_epevent,
                    worker_conn_offline, handler_epdata, handler_msgs, Goes, Stays
<1>5. CASE PeerNext
  BY <1>2, <1>5 DEF PeerNext, Connect, Send, PeerClose, workVars
<1>6. CASE IONext
  BY <1>2, <1>3, <1>6 DEF IONext, epoll_one, handler_data, handler_unlogin_msg,
                          notify_workers, workVars
<1> QED BY <1>2, <1>4, <1>5, <1>6 DEF Next, vars, workVars

(* The steps that change what the Logic has and what it is to get.         *)
LEMMA OnlineSteps ==
  ASSUME [GateLogicNext]_allVars
  PROVE  \/ LogicHandles
         \/ UNCHANGED <<pending, known, user_msgs_in>> /\ ([Next]_vars \/ wk_uid' = wk_uid)
         \/ \E w \in Workers :
              \/ WriteMsgs(w)
              \/ /\ UNCHANGED <<pending, known>>
                 /\ \/ handler_ioevent(w) \/ worker_conn_offline(w)
                    \/ \E i \in DOMAIN rd_users[w] : handler_epdata(w, i)
<1>1. CASE GateStep
  <2>1. UNCHANGED <<pending, known>> /\ [Next]_vars
    BY <1>1 DEF GateStep, Next, logicVars
  <2>2. CASE PeerNext
    BY <2>1, <2>2 DEF PeerNext, Connect, Send, PeerClose, workVars
  <2>3. CASE IONext
    BY <2>1, <2>3 DEF IONext, epoll_one, handler_data, handler_unlogin_msg, handler_reply,
                      notify_workers, workVars
  <2>4. ASSUME NEW w \in Workers, WorkerNext(w), ~(EventsDone(w) /\ AllParsedBy(w))
        PROVE  \/ user_msgs_in' = user_msgs_in
               \/ handler_ioevent(w) \/ worker_conn_offline(w)
               \/ \E i \in DOMAIN rd_users[w] : handler_epdata(w, i)
    BY <2>4 DEF WorkerNext, take_ioevents, epoll_wait, handler_epevent, handler_msgs
  <2> QED BY <1>1, <2>1, <2>2, <2>3, <2>4 DEF GateStep
<1>2. CASE LogicSends
  <2>1. UNCHANGED <<pending, known>>
    BY <1>2 DEF LogicSends, Service!Send
  <2> QED BY <1>2, <2>1 DEF LogicSends, workVars
<1>3. CASE UNCHANGED allVars
  BY <1>3 DEF allVars, logicVars, vars, workVars
<1> QED BY <1>1, <1>2, <1>3 DEF GateLogicNext

LEMMA MessagesType ==
  ASSUME TypeOK, ServiceTypeOK
  PROVE  /\ user_msgs_in \in [Workers -> Seq(Msg)]
         /\ pending \in Seq([kind : Kinds, uid : Uid, sth : Kinds])
BY DEF TypeOK, WorkerTypeOK, ServiceTypeOK

(* A worker puts one more message to those for the Logic.                  *)
LEMMA OneMoreFirst ==
  ASSUME TypeOK, ServiceTypeOK, OnlineFirst, UNCHANGED <<pending, known>>,
         NEW w \in Workers, w_pc[w] # "none", w_pc'[w] # "none",
         \A v \in Workers : w_pc'[v] = "none" => w_pc[v] = "none",
         NEW m \in Msg, user_msgs_in' = [user_msgs_in EXCEPT ![w] = Append(@, m)],
         m.kind = "dosth" =>
           m.uid \in Uids /\ m.uid \in OnlineThere \cup OnlinesOf(user_msgs_in[w]),
         \A c \in Conns : \/ wk_uid'[c] = wk_uid[c]
                          \/ m.kind = "online" /\ m.uid \in Uids /\ wk_uid'[c] = m.uid
  PROVE  OnlineFirst'
<1>1. PICK s, t : s = user_msgs_in[w] /\ t = Append(s, m)
  OBVIOUS
<1>2. /\ s \in Seq(Msg) /\ <<m>> \in Seq(Msg) /\ t = s \o <<m>>
      /\ user_msgs_in'[w] = t
      /\ \A v \in Workers \ {w} : user_msgs_in'[v] = user_msgs_in[v]
  BY <1>1, MessagesType, AppendIsConcat
<1>3. OnlineThere' = OnlineThere
  BY DEF OnlineThere
<1>4. OnlinesOf(t) = OnlinesOf(s) \cup OnlinesOf(<<m>>)
  <2>1. OnlinesOf(s \o <<m>>) = OnlinesOf(s) \cup OnlinesOf(<<m>>)
    BY <1>2, OnlinesConcat, ZenonT(40)
  <2> QED BY <1>2, <2>1
<1>5. First(t, OnlineThere)
  <2>1. First(s, OnlineThere)
    BY <1>1 DEF OnlineFirst
  <2>2. First(<<m>>, OnlineThere \cup OnlinesOf(s))
    BY <1>1, FirstOne
  <2>3. First(s \o <<m>>, OnlineThere)
    BY <1>2, <2>1, <2>2, FirstConcat
  <2> QED BY <1>2, <2>3
<1>6. Onlined \subseteq Onlined' /\ OnlinesOf(<<m>>) \subseteq Onlined'
  <2>1. ASSUME NEW v \in Workers PROVE OnlinesOf(user_msgs_in[v]) \subseteq OnlinesOf(user_msgs_in'[v])
    <3>1. CASE v = w
      BY <1>1, <1>2, <1>4, <3>1
    <3>2. CASE v # w
      BY <1>2, <3>2
    <3> QED BY <3>1, <3>2
  <2>2. OnlinesOf(<<m>>) \subseteq OnlinesOf(user_msgs_in'[w])
    BY <1>2, <1>4
  <2> QED BY <1>3, <2>1, <2>2 DEF Onlined
<1>7. ASSUME NEW c \in Conns, wk_uid'[c] \in Uids PROVE wk_uid'[c] \in Onlined'
  <2>1. CASE wk_uid'[c] = wk_uid[c]
    BY <1>6, <1>7, <2>1 DEF OnlineFirst
  <2>2. CASE m.kind = "online" /\ m.uid \in Uids /\ wk_uid'[c] = m.uid
    BY <1>6, <2>2, FirstOne
  <2> QED BY <2>1, <2>2
<1>8. ASSUME NEW v \in Workers PROVE First(user_msgs_in'[v], OnlineThere')
  BY <1>2, <1>3, <1>5 DEF OnlineFirst
<1>9. Idle'
  BY <1>2 DEF OnlineFirst, Idle
<1>10. First(pending, known)'
  BY DEF OnlineFirst, First, OnlineBefore
<1> QED BY <1>7, <1>8, <1>9, <1>10 DEF OnlineFirst

(* What a worker writes comes behind what the Logic has already.           *)
LEMMA WrittenOnlineFirst ==
  ASSUME TypeOK, Own, ServiceTypeOK, LogicStays, OnlineFirst, NEW w \in Workers, WriteMsgs(w)
  PROVE  OnlineFirst'
<1>1. PICK s, t : s = user_msgs_in[w] /\ t = [i \in DOMAIN s |-> ToService(s[i])]
  OBVIOUS
<1>2. Written(w) = s
  <2>1. w_pc[w] = "epevent"
    BY DEF WriteMsgs, handler_msgs, EventsDone
  <2>2. LogicHeld(w)
    BY <2>1 DEF Own, UsersOwn, LogicStays
  <2> QED BY <1>1, <2>2 DEF Written, LogicHeld
<1>3. /\ s \in Seq(Msg)
      /\ t \in Seq([kind : Kinds, uid : Uid, sth : Kinds])
      /\ pending \in Seq([kind : Kinds, uid : Uid, sth : Kinds])
  BY <1>1, <1>2, MessagesType, WrittenType
<1>4. /\ pending' = pending \o t /\ UNCHANGED <<known, wk_uid>>
      /\ w_pc' = [w_pc EXCEPT ![w] = "ioevent"]
      /\ user_msgs_in' = [user_msgs_in EXCEPT ![w] = <<>>]
  BY <1>1, <1>2 DEF WriteMsgs, handler_msgs
<1>5. OnlinesOf(t) = OnlinesOf(s) /\ First(t, OnlineThere)
  BY <1>1, <1>3, FirstMapped DEF OnlineFirst
<1>6. OnlinesOf(pending') = OnlinesOf(pending) \cup OnlinesOf(s)
  BY <1>3, <1>4, <1>5, OnlinesConcat
<1>7. First(pending', known')
  <2>1. First(pending, known) /\ First(t, known \cup OnlinesOf(pending))
    BY <1>5 DEF OnlineFirst, OnlineThere
  <2>2. First(pending \o t, known)
    BY <1>3, <2>1, FirstConcat
  <2> QED BY <1>4, <2>2
<1>8. OnlineThere' = OnlineThere \cup OnlinesOf(s)
  BY <1>4, <1>6 DEF OnlineThere
<1>9. /\ user_msgs_in'[w] = <<>>
      /\ \A v \in Workers \ {w} : user_msgs_in'[v] = user_msgs_in[v]
  BY <1>4, MessagesType
<1>10. ASSUME NEW v \in Workers PROVE First(user_msgs_in'[v], OnlineThere')
  <2>1. CASE v = w
    BY <1>9, <2>1, FirstEmpty
  <2>2. CASE v # w
    <3>1. First(user_msgs_in[v], OnlineThere)
      BY DEF OnlineFirst
    <3>2. First(user_msgs_in[v], OnlineThere')
      BY <1>8, <3>1, FirstMore
    <3> QED BY <1>9, <2>2, <3>2
  <2> QED BY <2>1, <2>2
<1>11. Onlined \subseteq Onlined'
  <2>1. ASSUME NEW v \in Workers PROVE OnlinesOf(user_msgs_in[v]) \subseteq Onlined'
    <3>1. CASE v = w
      BY <1>1, <1>8, <3>1 DEF Onlined
    <3>2. CASE v # w
      BY <1>9, <3>2 DEF Onlined
    <3> QED BY <3>1, <3>2
  <2> QED BY <1>8, <2>1 DEF Onlined
<1>12. \A c \in Conns : wk_uid'[c] \in Uids => wk_uid'[c] \in Onlined'
  BY <1>4, <1>11 DEF OnlineFirst
<1>13. Idle'
  <2>1. w_pc \in [Workers -> {"none", "ioevent", "connect", "epevent"}]
    BY DEF TypeOK, WorkerTypeOK
  <2> QED BY <1>4, <1>9, <2>1 DEF OnlineFirst, Idle
<1> QED BY <1>7, <1>10, <1>12, <1>13 DEF OnlineFirst

(* The Logic notes the Online before it comes to what is behind it.        *)
LEMMA HandledOnlineFirst ==
  ASSUME TypeOK, ServiceTypeOK, OnlineFirst, LogicHandles
  PROVE  OnlineFirst'
<1>1. PICK m : m = Head(pending)
  OBVIOUS
<1>2. /\ pending # <<>> /\ pending' = Tail(pending)
      /\ known' = IF m.kind = "online" /\ m.uid > 0 THEN known \cup {m.uid} ELSE known
      /\ UNCHANGED <<wk_uid, w_pc, user_msgs_in>>
  BY <1>1 DEF LogicHandles, Service!Handle, vars, workVars
<1>3. /\ OnlinesOf(pending) = OnlinesOf(<<m>>) \cup OnlinesOf(pending')
      /\ First(pending', known \cup OnlinesOf(<<m>>))
  BY <1>1, <1>2, MessagesType, FirstTail DEF OnlineFirst
<1>4. known \cup OnlinesOf(<<m>>) \subseteq known'
  <2>1. \A u \in Uids : u > 0
    BY UserManagerAssumption
  <2> QED BY <1>2, <2>1, FirstOne
<1>5. First(pending', known')
  BY <1>3, <1>4, FirstMore
<1>6. OnlineThere \subseteq OnlineThere'
  BY <1>3, <1>4 DEF OnlineThere
<1>7. ASSUME NEW w \in Workers PROVE First(user_msgs_in'[w], OnlineThere')
  <2>1. First(user_msgs_in[w], OnlineThere)
    BY DEF OnlineFirst
  <2>2. First(user_msgs_in[w], OnlineThere')
    BY <1>6, <2>1, FirstMore
  <2> QED BY <1>2, <2>2
<1>8. \A c \in Conns : wk_uid'[c] \in Uids => wk_uid'[c] \in Onlined'
  BY <1>2, <1>6 DEF OnlineFirst, Onlined
<1>9. Idle'
  BY <1>2 DEF OnlineFirst, Idle
<1> QED BY <1>5, <1>7, <1>8, <1>9 DEF OnlineFirst

(* A user's messages go to the Logic under the uid it is served as.        *)
LEMMA EpdataForwards ==
  ASSUME TypeOK, Own, ServiceTypeOK, LogicStays, UidsServed, OnlineFirst,
         NEW w \in Workers, NEW i \in DOMAIN rd_users[w], handler_epdata(w, i),
         user_msgs_in' # user_msgs_in
  PROVE  \E m \in Msg :
           /\ user_msgs_in' = [user_msgs_in EXCEPT ![w] = Append(@, m)]
           /\ m.uid \in Uids /\ m.uid \in OnlineThere \cup OnlinesOf(user_msgs_in[w])
<1>1. PICK c, m : c = rd_users[w][i] /\ m = Head(wk_rd[c])
  OBVIOUS
<1>2. /\ ~IsSystem(w, c) /\ m.uid = wk_uid[c] /\ w_pc[w] = "epevent"
      /\ user_msgs_in' = [user_msgs_in EXCEPT ![w] = Append(@, m)]
  BY <1>1 DEF handler_epdata, EventsDone, Forwardable
<1>3. c \in Conns /\ Reads(w, c)
  <2>1. rd_users[w] \in Seq(Accepted)
    BY DEF TypeOK, WorkerTypeOK
  <2>2. c \in Accepted /\ c \in Elements(rd_users[w])
    BY <1>1, <2>1 DEF Elements
  <2> QED BY <2>2 DEF Accepted, Reads
<1>4. m \in Msg
  <2>1. wk_rd[c] \in Seq(Msg) /\ wk_rd[c] # <<>>
    BY <1>1, <1>3 DEF handler_epdata, NextToParse, HasFrames, TypeOK, WorkerTypeOK
  <2> QED BY <1>1, <2>1, HeadTailProperties
<1>5. c # Logic
  BY <1>2 DEF Own, UsersOwn, LogicStays, LogicHeld, IsSystem
<1>6. wk_uid[c] \in Uids /\ wk_uid[c] \in Onlined
  BY <1>3, <1>5 DEF UidsServed, OnlineFirst
<1>7. \A v \in Workers \ {w} : OnlinesOf(user_msgs_in[v]) = {}
  <2>1. \A v \in Workers \ {w} : w_pc[v] = "none"
    BY <1>2, OnlyWorker
  <2>2. \A v \in Workers \ {w} : user_msgs_in[v] = <<>>
    BY <2>1 DEF OnlineFirst, Idle
  <2> QED BY <2>2, FirstEmpty
<1>8. wk_uid[c] \in OnlineThere \cup OnlinesOf(user_msgs_in[w])
  BY <1>6, <1>7 DEF Onlined
<1> QED BY <1>2, <1>4, <1>6, <1>8

LEMMA StillOnlineFirst ==
  ASSUME OnlineFirst, UNCHANGED <<pending, known, user_msgs_in>>,
         \A c \in Conns : wk_uid'[c] = wk_uid[c],
         \A w \in Workers : w_pc'[w] = "none" => w_pc[w] = "none"
  PROVE  OnlineFirst'
<1>1. UNCHANGED <<OnlineThere, Onlined>>
  BY DEF OnlineThere, Onlined
<1>2. \A c \in Conns : wk_uid'[c] \in Uids => wk_uid'[c] \in Onlined'
  BY <1>1 DEF OnlineFirst
<1>3. First(pending', known') /\ \A w \in Workers : First(user_msgs_in'[w], OnlineThere')
  BY <1>1 DEF OnlineFirst
<1>4. Idle'
  BY DEF OnlineFirst, Idle
<1> QED BY <1>2, <1>3, <1>4 DEF OnlineFirst

LEMMA NextOnlineFirst ==
  ASSUME LogicInv, OnlineFirst, [GateLogicNext]_allVars
  PROVE  OnlineFirst'
<1>0. /\ ServiceTypeOK /\ LogicStays /\ UidsServed /\ TypeOK /\ Own /\ Mapped
  BY DEF LogicInv, GateInv
<1>1. \A w \in Workers : w_pc'[w] = "none" => w_pc[w] = "none"
  <2>1. ASSUME LogicSends PROVE w_pc' = w_pc
    BY <2>1 DEF LogicSends, workVars
  <2> QED BY <1>0, <2>1, WorkerStarts, StepKinds
<1>2. ASSUME NEW w \in Workers, UNCHANGED <<pending, known>>, handler_ioevent(w)
      PROVE  OnlineFirst'
  <2>1. w_pc[w] = "connect" /\ w_pc'[w] = "connect" /\ [Next]_vars
    BY <1>2 DEF handler_ioevent, Stays, Next, WorkerNext
  <2>2. CASE UNCHANGED <<user_msgs_in, wk_uid>>
    BY <1>1, <1>2, <2>2, StillOnlineFirst
  <2>3. CASE on_new_connect(w, Head(w_evs[w])) /\ Head(w_evs[w]).what = "connect"
    <3>1. PICK e : e = Head(w_evs[w])
      OBVIOUS
    <3>2. e \in Event
      BY <1>0, <1>2, <3>1, QueueType, HeadTailProperties DEF handler_ioevent
    <3>3. PICK m : m = [kind |-> "online", uid |-> e.uid]
      OBVIOUS
    <3>4. /\ m \in Msg /\ m.kind = "online" /\ m.uid = e.uid
          /\ user_msgs_in' = [user_msgs_in EXCEPT ![w] = Append(@, m)]
      BY <2>3, <3>1, <3>2, <3>3 DEF on_new_connect, Event, Msg, Kinds
    <3>5. ASSUME NEW c \in Conns, wk_uid'[c] # wk_uid[c]
          PROVE  m.uid \in Uids /\ wk_uid'[c] = m.uid
      <4>1. wk_uid'[c] \in Uids
        BY <1>0, <2>1, <3>5, UidSteps
      <4>2. wk_uid' = [wk_uid EXCEPT ![e.conn] = e.uid]
        BY <2>3, <3>1 DEF on_new_connect
      <4>3. wk_uid'[c] = e.uid
        BY <1>0, <3>5, <4>2 DEF TypeOK, WorkerTypeOK
      <4> QED BY <3>4, <4>1, <4>3
    <3> QED BY <1>0, <1>1, <1>2, <2>1, <3>4, <3>5, OneMoreFirst
  <2> QED BY <1>2, <2>2, <2>3 DEF handler_ioevent
<1>3. ASSUME NEW w \in Workers, UNCHANGED <<pending, known>>, worker_conn_offline(w)
      PROVE  OnlineFirst'
  <2>1. w_pc[w] = "epevent" /\ w_pc'[w] = "epevent" /\ wk_uid' = wk_uid
    BY <1>3 DEF worker_conn_offline, Stays
  <2>2. CASE user_msgs_in' = user_msgs_in
    BY <1>1, <1>3, <2>1, <2>2, StillOnlineFirst
  <2>3. CASE user_msgs_in' # user_msgs_in
    <3>1. PICK c : c = closing[w]
      OBVIOUS
    <3>2. c \in Conns
      <4>1. c # NoConn
        BY <1>3, <3>1 DEF worker_conn_offline
      <4> QED BY <1>0, <3>1, <4>1, WorkerHas DEF Accepted
    <3>3. PICK m : m = [kind |-> "offline", uid |-> wk_uid[c]]
      OBVIOUS
    <3>4. /\ m \in Msg /\ m.kind = "offline"
          /\ user_msgs_in' = [user_msgs_in EXCEPT ![w] = Append(@, m)]
      <4>1. wk_uid[c] \in Uids \cup {0, -1}
        BY <1>0, <3>2 DEF TypeOK, WorkerTypeOK
      <4> QED BY <1>3, <2>3, <3>1, <3>3, <4>1 DEF worker_conn_offline, Msg, Kinds
    <3> QED BY <1>0, <1>1, <1>3, <2>1, <3>4, OneMoreFirst
  <2> QED BY <2>2, <2>3
<1>4. ASSUME NEW w \in Workers, UNCHANGED <<pending, known>>,
             NEW i \in DOMAIN rd_users[w], handler_epdata(w, i)
      PROVE  OnlineFirst'
  <2>1. w_pc[w] = "epevent" /\ w_pc' = w_pc /\ wk_uid' = wk_uid
    BY <1>4 DEF handler_epdata, EventsDone
  <2>2. CASE user_msgs_in' = user_msgs_in
    BY <1>1, <1>4, <2>1, <2>2, StillOnlineFirst
  <2>3. CASE user_msgs_in' # user_msgs_in
    <3>1. PICK m \in Msg :
            /\ user_msgs_in' = [user_msgs_in EXCEPT ![w] = Append(@, m)]
            /\ m.uid \in Uids /\ m.uid \in OnlineThere \cup OnlinesOf(user_msgs_in[w])
      BY <1>0, <1>4, <2>3, EpdataForwards
    <3> QED BY <1>0, <1>1, <1>4, <2>1, <3>1, OneMoreFirst
  <2> QED BY <2>2, <2>3
<1>5. ASSUME UNCHANGED <<pending, known, user_msgs_in>>, [Next]_vars \/ wk_uid' = wk_uid
      PROVE  OnlineFirst'
  <2>1. CASE \E w \in Workers : handler_ioevent(w)
    BY <1>2, <1>5, <2>1
  <2>2. CASE ~\E w \in Workers : handler_ioevent(w)
    <3>1. \A c \in Conns : wk_uid'[c] = wk_uid[c]
      BY <1>0, <1>5, <2>2, UidSteps
    <3> QED BY <1>1, <1>5, <3>1, StillOnlineFirst
  <2> QED BY <2>1, <2>2
<1>6. ASSUME NEW w \in Workers, WriteMsgs(w) PROVE OnlineFirst'
  BY <1>0, <1>6, WrittenOnlineFirst
<1>7. CASE LogicHandles
  BY <1>0, <1>7, HandledOnlineFirst
<1> QED BY <1>2, <1>3, <1>4, <1>5, <1>6, <1>7, OnlineSteps

LEMMA InitOnlineFirst ==
  ASSUME GateLogicInit
  PROVE  OnlineFirst
<1>1. /\ pending = <<>> /\ \A w \in Workers : user_msgs_in[w] = <<>>
      /\ \A c \in Conns : wk_uid[c] = 0
  BY DEF GateLogicInit, Init, WorkerInit
<1>2. 0 \notin Uids
  BY UserManagerAssumption
<1>3. First(pending, known) /\ \A w \in Workers : First(user_msgs_in[w], OnlineThere)
  BY <1>1, FirstEmpty
<1> QED BY <1>1, <1>2, <1>3 DEF OnlineFirst, Idle

(* The Logic drops no user's message (LogicWorker.cpp:122): his Online got *)
(* there before.                                                           *)
THEOREM UsersAreKnown ==
  ASSUME KnownFrames, OneLogic, UsersSay
  PROVE  GateLogicSpec => []NeverUnknown
<1>1. LogicInv /\ [GateLogicNext]_allVars => LogicInv'
  BY NextLogicInv
<1>2. LogicInv /\ OnlineFirst /\ [GateLogicNext]_allVars => OnlineFirst'
  BY NextOnlineFirst
<1>3. GateLogicInit => LogicInv /\ OnlineFirst
  BY InitLogicInv, InitOnlineFirst
<1>4. LogicInv /\ OnlineFirst => NeverUnknown
  <2> SUFFICES ASSUME LogicInv, OnlineFirst, pending # <<>>, Head(pending).kind = "dosth"
               PROVE  Head(pending).uid \in known
    BY DEF NeverUnknown
  <2>1. pending \in Seq([kind : Kinds, uid : Uid, sth : Kinds])
    BY DEF LogicInv, ServiceTypeOK
  <2>2. 1 \in DOMAIN pending /\ pending[1] = Head(pending)
    BY <2>1, LenProperties, EmptySeq
  <2>3. ~OnlineBefore(pending, 1)
    BY <2>1, LenProperties DEF OnlineBefore
  <2> QED BY <2>2, <2>3 DEF OnlineFirst, First
<1> QED BY <1>1, <1>2, <1>3, <1>4, PTL DEF GateLogicSpec

-----------------------------------------------------------------------------
(* What has been read of a connection, and what has not.                   *)

LEMMA CutSeq ==
  ASSUME NEW M, NEW s \in Seq(M), NEW g \in Nat, g <= Len(s)
  PROVE  /\ SubSeq(s, 1, g) \in Seq(M) /\ SubSeq(s, g + 1, Len(s)) \in Seq(M)
         /\ SubSeq(s, 1, g) \o SubSeq(s, g + 1, Len(s)) = s
         /\ SubSeq(s, 1, Len(s)) = s /\ SubSeq(s, Len(s) + 1, Len(s)) = <<>>
<1>1. /\ Len(s) \in Nat
      /\ \A i \in 1 .. g : s[i] \in M
      /\ \A i \in g + 1 .. Len(s) : s[i] \in M
  BY LenProperties
<1>2. SubSeq(s, 1, g) \in Seq(M)
  BY <1>1, SubSeqProperties
<1>3. SubSeq(s, g + 1, Len(s)) \in Seq(M)
  BY <1>1, SubSeqProperties
<1>4. SubSeq(s, 1, Len(s)) = s
  BY SubSeqFull
<1>5. SubSeq(s, 1, g) \o SubSeq(s, g + 1, Len(s)) = SubSeq(s, 1, Len(s))
  <2>1. 1 \in 1 .. Len(s) + 1 /\ g \in 1 - 1 .. Len(s) /\ Len(s) \in g .. Len(s)
    BY <1>1
  <2> QED BY <2>1, ConcatAdjacentSubSeq
<1>6. SubSeq(s, Len(s) + 1, Len(s)) = <<>>
  BY <1>1, SubSeqEmpty
<1> QED BY <1>2, <1>3, <1>4, <1>5, <1>6

LEMMA CutAppend ==
  ASSUME NEW M, NEW s \in Seq(M), NEW g \in Nat, g <= Len(s), NEW m \in M
  PROVE  LET t == Append(s, m) IN
         /\ g <= Len(t)
         /\ SubSeq(t, 1, g) = SubSeq(s, 1, g)
         /\ SubSeq(t, g + 1, Len(t)) = Append(SubSeq(s, g + 1, Len(s)), m)
<1>1. PICK t : t = Append(s, m)
  OBVIOUS
<1>2. /\ t \in Seq(M) /\ Len(t) = Len(s) + 1 /\ Len(s) \in Nat
      /\ \A i \in 1 .. Len(s) : t[i] = s[i]
      /\ t[Len(s) + 1] = m
  BY <1>1, AppendProperties, LenProperties
<1>3. /\ \A i \in 1 .. g : s[i] \in M /\ t[i] \in M
      /\ \A i \in g + 1 .. Len(s) : s[i] \in M
      /\ \A i \in g + 1 .. Len(s) + 1 : t[i] \in M
  BY <1>2, LenProperties
<1>4. SubSeq(t, 1, g) = SubSeq(s, 1, g)
  <2>1. /\ SubSeq(t, 1, g) \in Seq(M) /\ Len(SubSeq(t, 1, g)) = g
        /\ \A i \in 1 .. g : SubSeq(t, 1, g)[i] = t[i]
    BY <1>2, <1>3, SubSeqProperties
  <2>2. /\ SubSeq(s, 1, g) \in Seq(M) /\ Len(SubSeq(s, 1, g)) = g
        /\ \A i \in 1 .. g : SubSeq(s, 1, g)[i] = s[i]
    BY <1>2, <1>3, SubSeqProperties
  <2>3. \A i \in 1 .. g : SubSeq(t, 1, g)[i] = SubSeq(s, 1, g)[i]
    BY <1>2, <2>1, <2>2
  <2> QED BY <2>1, <2>2, <2>3, SeqEqual
<1>5. SubSeq(t, g + 1, Len(s) + 1) = Append(SubSeq(s, g + 1, Len(s)), m)
  <2>1. PICK a, b : a = SubSeq(s, g + 1, Len(s)) /\ b = SubSeq(t, g + 1, Len(s) + 1)
    OBVIOUS
  <2>2. /\ a \in Seq(M) /\ Len(a) = Len(s) - g
        /\ \A i \in 1 .. Len(s) - g : a[i] = s[g + i]
    BY <1>2, <1>3, <2>1, SubSeqProperties
  <2>3. /\ b \in Seq(M) /\ Len(b) = Len(s) - g + 1
        /\ \A i \in 1 .. Len(s) - g + 1 : b[i] = t[g + i]
    BY <1>2, <1>3, <2>1, SubSeqProperties
  <2>4. /\ Append(a, m) \in Seq(M) /\ Len(Append(a, m)) = Len(s) - g + 1
        /\ \A i \in 1 .. Len(s) - g : Append(a, m)[i] = a[i]
        /\ Append(a, m)[Len(s) - g + 1] = m
    BY <2>2, AppendProperties
  <2>5. \A i \in 1 .. Len(s) - g + 1 : Append(a, m)[i] = b[i]
    <3>1. ASSUME NEW i \in 1 .. Len(s) - g PROVE Append(a, m)[i] = b[i]
      <4>1. i \in 1 .. Len(s) - g + 1 /\ g + i \in 1 .. Len(s)
        BY <1>2
      <4>2. Append(a, m)[i] = s[g + i] /\ b[i] = t[g + i]
        BY <2>2, <2>3, <2>4, <4>1
      <4> QED BY <1>2, <4>1, <4>2
    <3>2. Append(a, m)[Len(s) - g + 1] = b[Len(s) - g + 1]
      <4>1. Len(s) - g + 1 \in 1 .. Len(s) - g + 1 /\ g + (Len(s) - g + 1) = Len(s) + 1
        BY <1>2
      <4> QED BY <1>2, <2>3, <2>4, <4>1
    <3>3. \A i \in 1 .. Len(s) - g + 1 : i \in 1 .. Len(s) - g \/ i = Len(s) - g + 1
      BY <1>2
    <3> QED BY <3>1, <3>2, <3>3
  <2>6. Append(a, m) = b
    BY <2>3, <2>4, <2>5, SeqEqual
  <2> QED BY <2>1, <2>6
<1>6. g <= Len(t)
  BY <1>2
<1>7. SubSeq(t, g + 1, Len(t)) = Append(SubSeq(s, g + 1, Len(s)), m)
  BY <1>2, <1>5
<1> QED BY <1>1, <1>4, <1>6, <1>7

(* No more is read than was said.                                          *)
GotSaid == \A c \in Conns : got[c] <= Len(said[c])

LEMMA HasSaid ==
  ASSUME TypeOK, NEW c \in Conns
  PROVE  said[c] \in Seq(Msg) /\ got[c] \in Nat /\ Len(said[c]) \in Nat
BY LenProperties DEF TypeOK, NetTypeOK

LEMMA ReadParts ==
  ASSUME TypeOK, GotSaid, NEW c \in Conns
  PROVE  /\ Read[c] \in Seq(Msg) /\ Unread(c) \in Seq(Msg)
         /\ Read[c] \o Unread(c) = said[c]
<1>1. said[c] \in Seq(Msg) /\ got[c] \in Nat /\ got[c] <= Len(said[c])
  BY HasSaid DEF GotSaid
<1> QED BY <1>1, CutSeq DEF Read, Unread

(* A connection's reading: nothing, one frame more to come, or all read.   *)
NoneRead(c) == Read'[c] = Read[c] /\ Unread(c)' = Unread(c)
OneSaid(c, m) == Read'[c] = Read[c] /\ Unread(c)' = Append(Unread(c), m)
AllRead(c) == Read'[c] = Read[c] \o Unread(c) /\ Unread(c)' = <<>>

LEMMA NoneSaid ==
  ASSUME NEW c \in Conns, said'[c] = said[c], got'[c] = got[c]
  PROVE  NoneRead(c)
BY DEF NoneRead, Read, Unread

LEMMA NothingRead ==
  ASSUME GotSaid, UNCHANGED <<said, got>>
  PROVE  GotSaid' /\ \A c \in Conns : NoneRead(c)
<1>1. GotSaid'
  BY DEF GotSaid
<1>2. ASSUME NEW c \in Conns PROVE NoneRead(c)
  <2>1. said'[c] = said[c] /\ got'[c] = got[c]
    OBVIOUS
  <2> QED BY <2>1, NoneSaid
<1> QED BY <1>1, <1>2

LEMMA SaysMore ==
  ASSUME TypeOK, GotSaid, NEW c \in Conns, NEW m \in Msg, got' = got,
         said' = [said EXCEPT ![c] = Append(@, m)]
  PROVE  /\ GotSaid' /\ OneSaid(c, m)
         /\ \A d \in Conns \ {c} : NoneRead(d)
<1>1. /\ said'[c] = Append(said[c], m)
      /\ \A d \in Conns \ {c} : said'[d] = said[d]
  BY DEF TypeOK, NetTypeOK
<1>2. said[c] \in Seq(Msg) /\ got[c] \in Nat /\ got[c] <= Len(said[c])
  BY HasSaid DEF GotSaid
<1>3. /\ got[c] <= Len(Append(said[c], m))
      /\ SubSeq(Append(said[c], m), 1, got[c]) = SubSeq(said[c], 1, got[c])
      /\ SubSeq(Append(said[c], m), got[c] + 1, Len(Append(said[c], m)))
           = Append(SubSeq(said[c], got[c] + 1, Len(said[c])), m)
  BY <1>2, CutAppend
<1>4. OneSaid(c, m)
  BY <1>1, <1>3 DEF OneSaid, Read, Unread
<1>5. \A d \in Conns \ {c} : NoneRead(d)
  <2> SUFFICES ASSUME NEW d \in Conns \ {c} PROVE NoneRead(d)
    OBVIOUS
  <2>1. said'[d] = said[d] /\ got'[d] = got[d]
    BY <1>1
  <2> QED BY <2>1, NoneSaid
<1>6. GotSaid'
  BY <1>1, <1>3 DEF GotSaid
<1> QED BY <1>4, <1>5, <1>6

LEMMA ReadsAll ==
  ASSUME TypeOK, GotSaid, said' = said, NEW F, DrainedBy(F)
  PROVE  /\ GotSaid'
         /\ \A c \in Conns : IF \E f \in F : openfd[f] = c THEN AllRead(c) ELSE NoneRead(c)
<1>1. \A c \in Conns : got'[c] = IF \E f \in F : openfd[f] = c THEN Len(said[c]) ELSE got[c]
  BY DEF DrainedBy
<1>2. GotSaid'
  BY <1>1, HasSaid DEF GotSaid
<1>3. ASSUME NEW c \in Conns, got'[c] = Len(said[c]) PROVE AllRead(c)
  <2>1. said[c] \in Seq(Msg) /\ got[c] \in Nat /\ got[c] <= Len(said[c])
    BY HasSaid DEF GotSaid
  <2>2. Read'[c] = said[c] /\ Unread(c)' = <<>>
    BY <1>3, <2>1, CutSeq DEF Read, Unread
  <2> QED BY <2>2, ReadParts DEF AllRead
<1>4. ASSUME NEW c \in Conns, got'[c] = got[c] PROVE NoneRead(c)
  BY <1>4, NoneSaid
<1> QED BY <1>1, <1>2, <1>3, <1>4
-----------------------------------------------------------------------------
(* The Logic's answers on their way: in its connection, read by a worker,  *)
(* and gathered by one.                                                    *)
Arriving(u) ==
  CountAll("dosthrsp", u, logic_msgs_in, Workers)
    + Count("dosthrsp", u, wk_rd[Logic]) + Count("dosthrsp", u, Unread(Logic))

LEMMA ArrivingType ==
  ASSUME TypeOK, GotSaid, NEW u
  PROVE  /\ CountAll("dosthrsp", u, logic_msgs_in, Workers) \in Nat
         /\ Count("dosthrsp", u, wk_rd[Logic]) \in Nat
         /\ Count("dosthrsp", u, Unread(Logic)) \in Nat
         /\ Arriving(u) \in Nat
<1>1. CountAll("dosthrsp", u, logic_msgs_in, Workers) \in Nat
  <2>1. \A w \in Workers : logic_msgs_in[w] \in Seq(Msg)
    BY DEF TypeOK, WorkerTypeOK
  <2> QED BY <2>1, WorkersFinite, AllFinite
<1>2. Count("dosthrsp", u, wk_rd[Logic]) \in Nat
  <2>1. wk_rd[Logic] \in Seq(Msg)
    BY GateLogicAssumption DEF TypeOK, WorkerTypeOK
  <2> QED BY <2>1, CountType
<1>3. Count("dosthrsp", u, Unread(Logic)) \in Nat
  BY GateLogicAssumption, ReadParts, CountType
<1> QED BY <1>1, <1>2, <1>3 DEF Arriving

LEMMA ArrivingRead ==
  ASSUME TypeOK, GotSaid, logic_msgs_in' = logic_msgs_in, wk_rd'[Logic] = wk_rd[Logic],
         NEW u,
         \/ NoneRead(Logic) \/ AllRead(Logic)
         \/ \E m \in Msg : m.kind # "dosthrsp" /\ OneSaid(Logic, m)
  PROVE  Arriving(u)' \in 0 .. Arriving(u)
<1>1. PICK r, t : r = Unread(Logic) /\ t = Unread(Logic)'
  OBVIOUS
<1>2. r \in Seq(Msg) /\ Count("dosthrsp", u, r) \in Nat
  BY <1>1, ReadParts, GateLogicAssumption, CountType
<1>3. Count("dosthrsp", u, t) <= Count("dosthrsp", u, r)
  <2>1. CASE NoneRead(Logic)
    BY <1>1, <1>2, <2>1 DEF NoneRead
  <2>2. CASE AllRead(Logic)
    <3>1. t = <<>>
      BY <1>1, <2>2 DEF AllRead
    <3>2. Count("dosthrsp", u, t) = 0
      BY <3>1, CountEmpty
    <3> QED BY <1>2, <3>2
  <2>3. ASSUME NEW m \in Msg, m.kind # "dosthrsp", OneSaid(Logic, m)
        PROVE  Count("dosthrsp", u, t) <= Count("dosthrsp", u, r)
    <3>1. t = Append(r, m) /\ ~IsOf(m, "dosthrsp", u)
      BY <1>1, <2>3 DEF OneSaid, IsOf
    <3>2. Count("dosthrsp", u, t) = Count("dosthrsp", u, r) + 0
      BY <1>2, <3>1, CountAppend
    <3> QED BY <1>2, <3>2
  <2> QED BY <2>1, <2>2, <2>3
<1>4. Count("dosthrsp", u, t) \in Nat
  <2>1. t = r \/ t = <<>> \/ \E m \in Msg : t = Append(r, m)
    BY <1>1 DEF NoneRead, AllRead, OneSaid
  <2>2. t \in Seq(Msg)
    <3>1. \A m \in Msg : Append(r, m) \in Seq(Msg)
      BY <1>2, AppendProperties
    <3>2. <<>> \in Seq(Msg)
      BY EmptySeq
    <3> QED BY <1>2, <2>1, <3>1, <3>2
  <2> QED BY <2>2, CountType
<1>5. Arriving(u)' = CountAll("dosthrsp", u, logic_msgs_in, Workers)
                       + Count("dosthrsp", u, wk_rd[Logic]) + Count("dosthrsp", u, t)
  <2>1. CountAll("dosthrsp", u, logic_msgs_in, Workers)'
          = CountAll("dosthrsp", u, logic_msgs_in, Workers)
    BY DEF CountAll, Places, IsOf
  <2> QED BY <1>1, <2>1 DEF Arriving, Count, IsOf
<1>6. Arriving(u) = CountAll("dosthrsp", u, logic_msgs_in, Workers)
                      + Count("dosthrsp", u, wk_rd[Logic]) + Count("dosthrsp", u, r)
  BY <1>1 DEF Arriving
<1> QED BY <1>2, <1>3, <1>4, <1>5, <1>6, ArrivingType

(* A worker reads the Logic's connection.                                  *)
LEMMA ArrivingTaken ==
  ASSUME TypeOK, GotSaid, logic_msgs_in' = logic_msgs_in, AllRead(Logic), NEW u,
         wk_rd'[Logic] = wk_rd[Logic] \o Unread(Logic)
  PROVE  Arriving(u)' = Arriving(u)
<1>1. wk_rd[Logic] \in Seq(Msg) /\ Unread(Logic) \in Seq(Msg)
  BY ReadParts, GateLogicAssumption DEF TypeOK, WorkerTypeOK
<1>2. Count("dosthrsp", u, wk_rd[Logic] \o Unread(Logic))
        = Count("dosthrsp", u, wk_rd[Logic]) + Count("dosthrsp", u, Unread(Logic))
  BY <1>1, CountConcat
<1>3. Unread(Logic)' = <<>> /\ Count("dosthrsp", u, <<>>) = 0
  BY CountEmpty DEF AllRead
<1>4. CountAll("dosthrsp", u, logic_msgs_in, Workers)'
        = CountAll("dosthrsp", u, logic_msgs_in, Workers)
  BY DEF CountAll, Places, IsOf
<1>5. PICK a, b : a = wk_rd[Logic] \o Unread(Logic) /\ b = Unread(Logic)'
  OBVIOUS
<1>6. /\ Count("dosthrsp", u, wk_rd[Logic])' = Count("dosthrsp", u, a)
      /\ Count("dosthrsp", u, Unread(Logic))' = Count("dosthrsp", u, b)
  BY <1>5 DEF Count, IsOf
<1> QED BY <1>2, <1>3, <1>4, <1>5, <1>6, ArrivingType DEF Arriving

(* One worker's answers are replaced.                                      *)
LEMMA AnswersReplaced ==
  ASSUME TypeOK, NEW w \in Workers, NEW s \in Seq(Msg),
         logic_msgs_in' = [logic_msgs_in EXCEPT ![w] = s], NEW kind, NEW u
  PROVE  /\ CountAll(kind, u, logic_msgs_in, Workers)'
              = CountAll(kind, u, logic_msgs_in, Workers)
                  - Count(kind, u, logic_msgs_in[w]) + Count(kind, u, s)
         /\ CountAll(kind, u, logic_msgs_in, Workers) \in Nat
         /\ Count(kind, u, logic_msgs_in[w]) \in Nat /\ Count(kind, u, s) \in Nat
         /\ Count(kind, u, logic_msgs_in[w]) <= CountAll(kind, u, logic_msgs_in, Workers)
<1>1. PICK q, r : q = logic_msgs_in /\ r = logic_msgs_in'
  OBVIOUS
<1>2. /\ \A v \in Workers : q[v] \in Seq(Msg)
      /\ r[w] = s
      /\ \A v \in Workers \ {w} : r[v] = q[v]
  BY <1>1 DEF TypeOK, WorkerTypeOK
<1>3. \A v \in Workers : r[v] \in Seq(Msg)
  BY <1>2
<1>4. /\ CountAll(kind, u, q, Workers)
           = Count(kind, u, q[w]) + CountAll(kind, u, q, Workers \ {w})
      /\ CountAll(kind, u, r, Workers)
           = Count(kind, u, r[w]) + CountAll(kind, u, q, Workers \ {w})
      /\ CountAll(kind, u, q, Workers \ {w}) \in Nat
  <2>1. IsFiniteSet(Workers) /\ (\A v \in Workers \ {w} : r[v] = q[v])
    BY <1>2, WorkersFinite
  <2>2. (\A v \in Workers : q[v] \in Seq(Msg)) /\ (\A v \in Workers : r[v] \in Seq(Msg))
    BY <1>2, <1>3
  <2> QED BY <2>1, <2>2, CountChanged
<1>5. Count(kind, u, q[w]) \in Nat /\ Count(kind, u, s) \in Nat
  BY <1>2, CountType
<1>6. CountAll(kind, u, logic_msgs_in, Workers)' = CountAll(kind, u, r, Workers)
  BY <1>1 DEF CountAll, Places, IsOf
<1> QED BY <1>1, <1>2, <1>4, <1>5, <1>6

(* A worker parses a frame: the Logic's moves on to what it gathers.       *)
LEMMA ArrivingParsed ==
  ASSUME TypeOK, Own, GotSaid, LogicStays, UNCHANGED <<said, got>>, NEW u,
         NEW w \in Workers, NEW i \in DOMAIN rd_users[w], handler_epdata(w, i)
  PROVE  Arriving(u)' \in 0 .. Arriving(u)
<1>1. PICK c, m : c = rd_users[w][i] /\ m = Head(wk_rd[c])
  OBVIOUS
<1>2. c \in Conns
  <2>1. rd_users[w] \in Seq(Accepted)
    BY DEF TypeOK, WorkerTypeOK
  <2> QED BY <1>1, <2>1 DEF Accepted
<1>3. wk_rd[c] \in Seq(Msg) /\ wk_rd[c] # <<>> /\ m \in Msg /\ Tail(wk_rd[c]) \in Seq(Msg)
  <2>1. wk_rd[c] \in Seq(Msg) /\ wk_rd[c] # <<>>
    BY <1>1, <1>2 DEF handler_epdata, NextToParse, HasFrames, TypeOK, WorkerTypeOK
  <2> QED BY <1>1, <2>1, HeadTailProperties
<1>4. wk_rd'[Logic] = IF c = Logic THEN Tail(wk_rd[c]) ELSE wk_rd[Logic]
  BY <1>1, <1>2, GateLogicAssumption DEF handler_epdata, TypeOK, WorkerTypeOK
<1>5. /\ Count("dosthrsp", u, wk_rd[c])
           = (IF IsOf(m, "dosthrsp", u) THEN 1 ELSE 0) + Count("dosthrsp", u, Tail(wk_rd[c]))
      /\ Count("dosthrsp", u, Tail(wk_rd[c])) \in Nat
  BY <1>1, <1>3, CountTail, CountType
<1>6. /\ Count("dosthrsp", u, Unread(Logic))' = Count("dosthrsp", u, Unread(Logic))
      /\ Count("dosthrsp", u, wk_rd[Logic])'
           = IF c = Logic THEN Count("dosthrsp", u, Tail(wk_rd[c]))
                          ELSE Count("dosthrsp", u, wk_rd[Logic])
  BY <1>4 DEF Count, IsOf, Unread
<1>7. CASE logic_msgs_in' = logic_msgs_in
  <2>1. CountAll("dosthrsp", u, logic_msgs_in, Workers)'
          = CountAll("dosthrsp", u, logic_msgs_in, Workers)
    BY <1>7 DEF CountAll, Places, IsOf
  <2>2. Count("dosthrsp", u, wk_rd[Logic])' <= Count("dosthrsp", u, wk_rd[Logic])
    BY <1>5, <1>6, ArrivingType
  <2>3. Count("dosthrsp", u, wk_rd[Logic])' \in Nat
    BY <1>5, <1>6, ArrivingType
  <2> QED BY <1>6, <2>1, <2>2, <2>3, ArrivingType DEF Arriving
<1>8. CASE /\ IsSystem(w, c)
           /\ logic_msgs_in' = [logic_msgs_in EXCEPT ![w] = Append(@, m)]
  <2>1. c = Logic
    <3>1. logic[w] # NoConn
      BY DEF handler_epdata, EventsDone, Own, UsersOwn
    <3> QED BY <1>8, <3>1 DEF LogicStays, LogicHeld, IsSystem
  <2>2. logic_msgs_in[w] \in Seq(Msg)
    BY DEF TypeOK, WorkerTypeOK
  <2>3. Append(logic_msgs_in[w], m) \in Seq(Msg)
    BY <1>3, <2>2, AppendProperties
  <2>4. Count("dosthrsp", u, Append(logic_msgs_in[w], m))
          = Count("dosthrsp", u, logic_msgs_in[w]) + (IF IsOf(m, "dosthrsp", u) THEN 1 ELSE 0)
    BY <1>3, <2>2, CountAppend
  <2>5. /\ CountAll("dosthrsp", u, logic_msgs_in, Workers)'
             = CountAll("dosthrsp", u, logic_msgs_in, Workers)
                 - Count("dosthrsp", u, logic_msgs_in[w])
                 + Count("dosthrsp", u, Append(logic_msgs_in[w], m))
        /\ Count("dosthrsp", u, logic_msgs_in[w]) \in Nat
    BY <1>8, <2>3, AnswersReplaced
  <2> QED BY <1>5, <1>6, <2>1, <2>4, <2>5, ArrivingType DEF Arriving
<1> QED BY <1>1, <1>7, <1>8 DEF handler_epdata

(* A worker writes what it has gathered.                                   *)
LEMMA ArrivingWritten ==
  ASSUME TypeOK, GotSaid, NEW u, NEW w \in Workers, handler_msgs(w)
  PROVE  /\ Arriving(u)' + Count("dosthrsp", u, logic_msgs_in[w]) = Arriving(u)
         /\ Arriving(u)' \in Nat /\ Count("dosthrsp", u, logic_msgs_in[w]) \in Nat
<1>1. /\ logic_msgs_in' = [logic_msgs_in EXCEPT ![w] = <<>>]
      /\ UNCHANGED <<said, got, wk_rd>>
  BY DEF handler_msgs
<1>2. <<>> \in Seq(Msg) /\ Count("dosthrsp", u, <<>>) = 0
  BY EmptySeq, CountEmpty
<1>3. /\ CountAll("dosthrsp", u, logic_msgs_in, Workers)'
           = CountAll("dosthrsp", u, logic_msgs_in, Workers)
               - Count("dosthrsp", u, logic_msgs_in[w]) + Count("dosthrsp", u, <<>>)
      /\ Count("dosthrsp", u, logic_msgs_in[w]) \in Nat
      /\ Count("dosthrsp", u, logic_msgs_in[w]) <= CountAll("dosthrsp", u, logic_msgs_in, Workers)
  BY <1>1, <1>2, AnswersReplaced
<1>4. /\ Count("dosthrsp", u, wk_rd[Logic])' = Count("dosthrsp", u, wk_rd[Logic])
      /\ Count("dosthrsp", u, Unread(Logic))' = Count("dosthrsp", u, Unread(Logic))
  BY <1>1 DEF Count, Unread, IsOf
<1> QED BY <1>2, <1>3, <1>4, ArrivingType DEF Arriving
(* No step of the Gate's makes answers; each keeps or loses some on their  *)
(* way, and only reads what was said.                                      *)
LEMMA NextArriving ==
  ASSUME UsersSay, TypeOK, Own, LogicStays, GotSaid, [Next]_vars, NEW u
  PROVE  GotSaid' /\ Arriving(u)' \in 0 .. Arriving(u)
<1>1. ASSUME UNCHANGED <<said, got, wk_rd, logic_msgs_in>>
      PROVE  GotSaid' /\ Arriving(u)' \in 0 .. Arriving(u)
  BY <1>1, NothingRead, ArrivingRead, GateLogicAssumption
<1>2. CASE UNCHANGED vars
  BY <1>1, <1>2 DEF vars, netVars, workVars
<1>3. CASE PeerNext
  <2>1. ASSUME NEW c \in Conns, Connect(c) \/ PeerClose(c)
        PROVE  UNCHANGED <<said, got, wk_rd, logic_msgs_in>>
    BY <2>1 DEF Connect, PeerClose, workVars
  <2>2. ASSUME NEW c \in Conns, NEW m \in ClientFrames[c], Send(c, m)
        PROVE  GotSaid' /\ Arriving(u)' \in 0 .. Arriving(u)
    <3>1. /\ m \in Msg /\ m.kind # "dosthrsp"
          /\ UNCHANGED <<got, wk_rd, logic_msgs_in>>
          /\ said' = [said EXCEPT ![c] = Append(@, m)]
      BY <2>2, GateAssumption DEF UsersSay, Send, workVars
    <3>2. GotSaid' /\ OneSaid(c, m) /\ \A d \in Conns \ {c} : NoneRead(d)
      BY <3>1, SaysMore
    <3>3. NoneRead(Logic) \/ OneSaid(Logic, m)
      BY <3>2, GateLogicAssumption
    <3> QED BY <3>1, <3>2, <3>3, ArrivingRead
  <2>3. MayClose \subseteq Conns
    BY GateAssumption
  <2> QED BY <1>1, <1>3, <2>1, <2>2, <2>3 DEF PeerNext
<1>4. CASE handler_data
  <2>1. PICK F : DrainedBy(F)
    BY <1>4 DEF handler_data
  <2>2. UNCHANGED <<said, wk_rd, logic_msgs_in>>
    BY <1>4 DEF handler_data, workVars
  <2>3. GotSaid' /\ (NoneRead(Logic) \/ AllRead(Logic))
    BY <2>1, <2>2, ReadsAll, GateLogicAssumption
  <2> QED BY <2>2, <2>3, ArrivingRead
<1>5. CASE IONext
  <2>1. CASE ~handler_data
    <3>1. UNCHANGED <<said, got, wk_rd, logic_msgs_in>>
      BY <1>5, <2>1 DEF IONext, epoll_one, handler_unlogin_msg, handler_reply,
                        notify_workers, netVars, workVars
    <3> QED BY <1>1, <3>1
  <2> QED BY <1>4, <2>1
<1>6. ASSUME NEW w \in Workers, NEW c \in epev_users[w], handler_epevent(w, c)
      PROVE  GotSaid' /\ Arriving(u)' \in 0 .. Arriving(u)
  <2>1. c \in Conns /\ sfd[c] \in Fds /\ openfd[sfd[c]] = c /\ c # NoConn
    BY WorkerHas, AcceptedHas DEF Own, UsersOwn
  <2>2. /\ UNCHANGED <<said, logic_msgs_in>> /\ DrainedBy({sfd[c]})
        /\ wk_rd' = [wk_rd EXCEPT ![c] = @ \o Unread(c)]
    BY <1>6, <2>1 DEF handler_epevent, ReadFrames
  <2>3. GotSaid' /\ \A d \in Conns : IF d = c THEN AllRead(d) ELSE NoneRead(d)
    BY <2>1, <2>2, ReadsAll
  <2>4. wk_rd'[Logic] = IF c = Logic THEN wk_rd[Logic] \o Unread(Logic) ELSE wk_rd[Logic]
    BY <2>1, <2>2, GateLogicAssumption DEF TypeOK, WorkerTypeOK
  <2>5. CASE c = Logic
    <3>1. Arriving(u)' = Arriving(u)
      BY <2>2, <2>3, <2>4, <2>5, ArrivingTaken, GateLogicAssumption
    <3> QED BY <2>3, <3>1, ArrivingType
  <2>6. CASE c # Logic
    BY <2>2, <2>3, <2>4, <2>6, ArrivingRead, GateLogicAssumption
  <2> QED BY <2>5, <2>6
<1>7. ASSUME NEW w \in Workers, NEW i \in DOMAIN rd_users[w], handler_epdata(w, i)
      PROVE  GotSaid' /\ Arriving(u)' \in 0 .. Arriving(u)
  <2>1. UNCHANGED <<said, got>>
    BY <1>7 DEF handler_epdata, netVars
  <2> QED BY <1>7, <2>1, NothingRead, ArrivingParsed
<1>8. ASSUME NEW w \in Workers, handler_msgs(w)
      PROVE  GotSaid' /\ Arriving(u)' \in 0 .. Arriving(u)
  <2>1. UNCHANGED <<said, got>>
    BY <1>8 DEF handler_msgs
  <2>2. Arriving(u)' \in 0 .. Arriving(u)
    BY <1>8, ArrivingWritten, ArrivingType
  <2> QED BY <2>1, <2>2, NothingRead
<1>9. ASSUME NEW w \in Workers, WorkerNext(w)
      PROVE  GotSaid' /\ Arriving(u)' \in 0 .. Arriving(u)
  <2>1. CASE take_ioevents(w) \/ handler_ioevent(w) \/ epoll_wait(w) \/ worker_conn_offline(w)
    <3>1. UNCHANGED <<said, got, wk_rd, logic_msgs_in>>
      BY <2>1 DEF take_ioevents, handler_ioevent, epoll_wait, worker_conn_offline, netVars
    <3> QED BY <1>1, <3>1
  <2> QED BY <1>6, <1>7, <1>8, <1>9, <2>1 DEF WorkerNext
<1> QED BY <1>2, <1>3, <1>5, <1>9 DEF Next
-----------------------------------------------------------------------------
(* The Logic's answers, and what becomes of them.                          *)

(* What the Logic writes for its answers.                                  *)
Frame(a) == [kind |-> "dosthrsp", uid |-> a.uid]
Framed(s) == [i \in DOMAIN s |-> Frame(s[i])]
AnswerType == [uid : Uid, sth : Kinds]

LEMMA FramedType ==
  ASSUME NEW s \in Seq(AnswerType)
  PROVE  Framed(s) \in Seq(Msg) /\ Len(Framed(s)) = Len(s)
<1>1. Len(s) \in Nat /\ DOMAIN s = 1 .. Len(s) /\ \A i \in 1 .. Len(s) : s[i] \in AnswerType
  BY LenProperties
<1>2. \A i \in 1 .. Len(s) : Frame(s[i]) \in Msg
  BY <1>1 DEF Frame, AnswerType, Msg, Kinds, Uid
<1>3. Framed(s) = [i \in 1 .. Len(s) |-> Frame(s[i])]
  BY <1>1 DEF Framed
<1> QED BY <1>1, <1>2, <1>3

LEMMA FramedAppend ==
  ASSUME NEW s \in Seq(AnswerType), NEW a \in AnswerType
  PROVE  Framed(Append(s, a)) = Append(Framed(s), Frame(a)) /\ Frame(a) \in Msg
<1>1. /\ Append(s, a) \in Seq(AnswerType) /\ Len(Append(s, a)) = Len(s) + 1
      /\ \A i \in 1 .. Len(s) : Append(s, a)[i] = s[i]
      /\ Append(s, a)[Len(s) + 1] = a
      /\ Len(s) \in Nat /\ DOMAIN s = 1 .. Len(s)
      /\ DOMAIN Append(s, a) = 1 .. Len(s) + 1
  BY AppendProperties, LenProperties
<1>2. Frame(a) \in Msg
  BY DEF Frame, AnswerType, Msg, Kinds, Uid
<1>3. Framed(s) \in Seq(Msg) /\ Len(Framed(s)) = Len(s)
  BY FramedType
<1>4. Framed(Append(s, a)) \in Seq(Msg) /\ Len(Framed(Append(s, a))) = Len(s) + 1
  BY <1>1, FramedType
<1>5. PICK t : t = Append(Framed(s), Frame(a))
  OBVIOUS
<1>6. /\ t \in Seq(Msg) /\ Len(t) = Len(s) + 1
      /\ \A i \in 1 .. Len(s) : t[i] = Framed(s)[i]
      /\ t[Len(s) + 1] = Frame(a)
  BY <1>2, <1>3, <1>5, AppendProperties
<1>7. ASSUME NEW i \in 1 .. Len(s) + 1 PROVE Framed(Append(s, a))[i] = t[i]
  <2>1. Framed(Append(s, a))[i] = Frame(Append(s, a)[i])
    BY <1>1 DEF Framed
  <2>2. CASE i = Len(s) + 1
    BY <1>1, <1>6, <2>1, <2>2
  <2>3. CASE i # Len(s) + 1
    <3>1. i \in 1 .. Len(s)
      BY <1>1, <2>3
    <3>2. Framed(s)[i] = Frame(s[i])
      BY <1>1, <3>1 DEF Framed
    <3> QED BY <1>1, <1>6, <2>1, <3>1, <3>2
  <2> QED BY <2>2, <2>3
<1>8. Framed(Append(s, a)) = t
  BY <1>4, <1>6, <1>7, SeqEqual
<1> QED BY <1>2, <1>5, <1>8

LEMMA FramedTail ==
  ASSUME NEW s \in Seq(AnswerType), s # <<>>
  PROVE  /\ Framed(s) # <<>> /\ Head(Framed(s)) = Frame(Head(s))
         /\ Framed(Tail(s)) = Tail(Framed(s))
<1>1. /\ Len(s) \in Nat \ {0} /\ DOMAIN s = 1 .. Len(s) /\ Head(s) = s[1]
      /\ Tail(s) \in Seq(AnswerType) /\ Len(Tail(s)) = Len(s) - 1
      /\ DOMAIN Tail(s) = 1 .. Len(s) - 1
      /\ \A i \in 1 .. Len(s) - 1 : Tail(s)[i] = s[i + 1]
  BY EmptySeq, LenProperties, HeadTailProperties
<1>2. Framed(s) \in Seq(Msg) /\ Len(Framed(s)) = Len(s)
  BY FramedType
<1>3. Framed(s) # <<>>
  BY <1>1, <1>2, EmptySeq
<1>4. Framed(Tail(s)) \in Seq(Msg) /\ Len(Framed(Tail(s))) = Len(s) - 1
  BY <1>1, FramedType
<1>5. PICK t : t = Tail(Framed(s))
  OBVIOUS
<1>6. /\ t \in Seq(Msg) /\ Len(t) = Len(s) - 1 /\ Head(Framed(s)) = Framed(s)[1]
      /\ \A i \in 1 .. Len(s) - 1 : t[i] = Framed(s)[i + 1]
  BY <1>2, <1>3, <1>5, HeadTailProperties
<1>7. ASSUME NEW i \in 1 .. Len(s) - 1 PROVE Framed(Tail(s))[i] = t[i]
  <2>1. Framed(Tail(s))[i] = Frame(Tail(s)[i])
    BY <1>1 DEF Framed
  <2>2. i + 1 \in DOMAIN s
    BY <1>1
  <2>3. Framed(s)[i + 1] = Frame(s[i + 1])
    BY <2>2 DEF Framed
  <2> QED BY <1>1, <1>6, <2>1, <2>3
<1>8. Framed(Tail(s)) = t
  BY <1>4, <1>6, <1>7, SeqEqual
<1>9. Framed(s)[1] = Frame(s[1])
  BY <1>1 DEF Framed
<1> QED BY <1>1, <1>3, <1>5, <1>6, <1>8, <1>9

(* Of a worker's answers for u, each gets to one connection at most.       *)
LEMMA AnswersCounted ==
  ASSUME TypeOK, NEW w \in Workers, NEW u \in Uids
  PROVE  /\ Cardinality(Answers(w, u)) <= Count("dosthrsp", u, logic_msgs_in[w])
         /\ Cardinality(Answers(w, u)) \in Nat
<1>1. logic_msgs_in[w] \in Seq(Msg)
  BY DEF TypeOK, WorkerTypeOK
<1>2. PICK s, o : s = logic_msgs_in[w] /\ o = get_user_by_uid(users[w], u)
  OBVIOUS
<1>3. PICK A, H : A = Answers(w, u) /\ H = Hits("dosthrsp", u, s)
  OBVIOUS
<1>4. IsFiniteSet(H) /\ Count("dosthrsp", u, s) = Cardinality(H)
  BY <1>1, <1>2, <1>3, CountType
<1>5. \A a \in A : a[1] \in H /\ a = <<a[1], openfd[sfd[o]]>>
  BY <1>2, <1>3 DEF Answers, Hits
<1>6. IsFiniteSet(A)
  <2>1. IsFiniteSet(DOMAIN s)
    BY <1>1, <1>2, LenProperties, FS_Interval
  <2>2. IsFiniteSet((DOMAIN s) \X Conns)
    BY <2>1, GateAssumption, FS_Product
  <2>3. A \subseteq (DOMAIN s) \X Conns
    BY <1>2, <1>3 DEF Answers
  <2> QED BY <2>2, <2>3, FS_Subset
<1>7. PICK T : T = {a[1] : a \in A}
  OBVIOUS
<1>8. IsFiniteSet(T) /\ Cardinality(T) = Cardinality(A)
  <2>1. PICK f : f = [a \in A |-> a[1]]
    OBVIOUS
  <2>2. f \in [A -> T] /\ \A y \in T : \E x \in A : f[x] = y
    BY <1>7, <2>1
  <2>3. \A x, y \in A : f[x] = f[y] => x = y
    BY <1>5, <2>1
  <2> QED BY <1>6, <2>2, <2>3, SameSize
<1>9. T \subseteq H
  BY <1>5, <1>7
<1>10. Cardinality(T) <= Cardinality(H)
  BY <1>4, <1>9, FS_Subset
<1>11. Cardinality(A) \in Nat
  BY <1>6, FS_CardinalityType
<1> QED BY <1>2, <1>3, <1>4, <1>8, <1>10, <1>11

(* What is written to the Logic counts for it as it did for the Gate.      *)
LEMMA ServiceCounts ==
  ASSUME TypeOK, NEW w \in Workers, NEW kind, NEW u
  PROVE  Count(kind, u, [i \in DOMAIN Written(w) |-> ToService(Written(w)[i])])
           = Count(kind, u, Written(w))
BY DEF Count, IsOf, ToService

-----------------------------------------------------------------------------
(* No more is answered, in whatever place the answers are, than was asked. *)
Flow(u) == heard[u] + Arriving(u) + Count("dosthrsp", u, Framed(answers)) + Count("dosth", u, pending)
AnswersFlow == \A u \in Uids : Flow(u) <= Count("dosth", u, told)

LEMMA FlowType ==
  ASSUME TypeOK, ServiceTypeOK, GotSaid, NEW u \in Uids
  PROVE  /\ heard[u] \in Nat /\ Arriving(u) \in Nat
         /\ Count("dosthrsp", u, Framed(answers)) \in Nat
         /\ Count("dosth", u, pending) \in Nat /\ Count("dosth", u, told) \in Nat
<1>1. Framed(answers) \in Seq(Msg)
  BY FramedType DEF ServiceTypeOK, AnswerType
<1>2. Count("dosth", u, pending) \in Nat /\ Count("dosth", u, told) \in Nat
  BY CountType DEF ServiceTypeOK
<1>3. heard[u] \in Nat
  BY DEF ServiceTypeOK
<1> QED BY <1>1, <1>2, <1>3, CountType, ArrivingType

LEMMA FlowSame ==
  ASSUME TypeOK, ServiceTypeOK, GotSaid, AnswersFlow, UNCHANGED <<logicVars, told, heard>>,
         NEW u \in Uids, Arriving(u)' \in 0 .. Arriving(u)
  PROVE  Flow(u)' <= Count("dosth", u, told)'
<1>1. UNCHANGED <<pending, answers, told, heard>>
  BY DEF logicVars
<1>2. /\ heard'[u] = heard[u]
      /\ Count("dosthrsp", u, Framed(answers))' = Count("dosthrsp", u, Framed(answers))
      /\ Count("dosth", u, pending)' = Count("dosth", u, pending)
      /\ Count("dosth", u, told)' = Count("dosth", u, told)
  BY <1>1 DEF Count, IsOf, Framed, Frame
<1>3. Flow(u) <= Count("dosth", u, told)
  BY DEF AnswersFlow
<1> QED BY <1>2, <1>3, FlowType DEF Flow

LEMMA FlowWritten ==
  ASSUME TypeOK, Own, ServiceTypeOK, GotSaid, LogicStays, AnswersFlow,
         NEW w \in Workers, WriteMsgs(w), NEW u \in Uids
  PROVE  Flow(u)' <= Count("dosth", u, told)'
<1>1. /\ handler_msgs(w) /\ answers' = answers
      /\ pending' = pending \o [i \in DOMAIN Written(w) |-> ToService(Written(w)[i])]
      /\ told' = told \o Written(w)
      /\ heard'[u] = heard[u] + Cardinality(Answers(w, u))
  BY DEF WriteMsgs
<1>2. PICK s, t : s = Written(w) /\ t = [i \in DOMAIN Written(w) |-> ToService(Written(w)[i])]
  OBVIOUS
<1>3. s \in Seq(Msg) /\ t \in Seq([kind : Kinds, uid : Uid, sth : Kinds])
  BY <1>2, WrittenType
<1>4. Count("dosth", u, t) = Count("dosth", u, s) /\ Count("dosth", u, s) \in Nat
  <2>1. Count("dosth", u, t) = Count("dosth", u, s)
    BY <1>2, ServiceCounts
  <2> QED BY <1>3, <2>1, CountType
<1>5. /\ Count("dosth", u, told \o s) = Count("dosth", u, told) + Count("dosth", u, s)
      /\ Count("dosth", u, pending \o t) = Count("dosth", u, pending) + Count("dosth", u, t)
  BY <1>3, CountConcat DEF ServiceTypeOK
<1>6. /\ Count("dosth", u, told)' = Count("dosth", u, told \o s)
      /\ Count("dosth", u, pending)' = Count("dosth", u, pending \o t)
      /\ Count("dosthrsp", u, Framed(answers))' = Count("dosthrsp", u, Framed(answers))
  BY <1>1, <1>2 DEF Count, IsOf, Framed, Frame
<1>7. /\ Arriving(u)' + Count("dosthrsp", u, logic_msgs_in[w]) = Arriving(u)
      /\ Arriving(u)' \in Nat /\ Count("dosthrsp", u, logic_msgs_in[w]) \in Nat
  BY <1>1, ArrivingWritten
<1>8. /\ Cardinality(Answers(w, u)) <= Count("dosthrsp", u, logic_msgs_in[w])
      /\ Cardinality(Answers(w, u)) \in Nat
  BY AnswersCounted
<1>9. Flow(u) <= Count("dosth", u, told)
  BY DEF AnswersFlow
<1>10. /\ heard[u] \in Nat /\ Arriving(u) \in Nat
       /\ Count("dosthrsp", u, Framed(answers)) \in Nat
       /\ Count("dosth", u, pending) \in Nat /\ Count("dosth", u, told) \in Nat
  BY FlowType
<1>11. /\ Flow(u) = heard[u] + Arriving(u) + Count("dosthrsp", u, Framed(answers))
                      + Count("dosth", u, pending)
       /\ Flow(u)' = heard'[u] + Arriving(u)' + Count("dosthrsp", u, Framed(answers))'
                       + Count("dosth", u, pending)'
  BY DEF Flow
<1>12. /\ heard'[u] = heard[u] + Cardinality(Answers(w, u))
       /\ Count("dosth", u, told)' = Count("dosth", u, told) + Count("dosth", u, s)
       /\ Count("dosth", u, pending)' = Count("dosth", u, pending) + Count("dosth", u, s)
  BY <1>1, <1>4, <1>5, <1>6
<1> QED BY <1>4, <1>6, <1>7, <1>8, <1>9, <1>10, <1>11, <1>12

(* The Logic answers what it handles, once.                                *)
LEMMA FlowHandled ==
  ASSUME TypeOK, ServiceTypeOK, GotSaid, AnswersFlow, LogicHandles, NEW u \in Uids
  PROVE  Flow(u)' <= Count("dosth", u, told)'
<1>1. PICK m : m = Head(pending)
  OBVIOUS
<1>2. /\ pending # <<>> /\ pending' = Tail(pending)
      /\ \/ answers' = answers
         \/ m.kind = "dosth" /\ answers' = Append(answers, Service!Answer(m))
      /\ UNCHANGED <<said, got, wk_rd, logic_msgs_in, told, heard>>
  BY <1>1 DEF LogicHandles, Service!Handle, vars, netVars, workVars
<1>3. m \in [kind : Kinds, uid : Uid, sth : Kinds]
  BY <1>1, <1>2, HeadTailProperties DEF ServiceTypeOK
<1>4. Count("dosth", u, pending)
        = (IF IsOf(m, "dosth", u) THEN 1 ELSE 0) + Count("dosth", u, Tail(pending))
  BY <1>1, <1>2, CountTail DEF ServiceTypeOK
<1>5. PICK p, t : p = Tail(pending) /\ t = Framed(answers)'
  OBVIOUS
<1>6. Count("dosth", u, p) \in Nat
  <2>1. p \in Seq([kind : Kinds, uid : Uid, sth : Kinds])
    BY <1>2, <1>5, HeadTailProperties DEF ServiceTypeOK
  <2> QED BY <2>1, CountType
<1>7. /\ Count("dosthrsp", u, t)
           <= Count("dosthrsp", u, Framed(answers)) + (IF IsOf(m, "dosth", u) THEN 1 ELSE 0)
      /\ Count("dosthrsp", u, t) \in Nat
  <2>1. answers \in Seq(AnswerType)
    BY DEF ServiceTypeOK, AnswerType
  <2>2. Framed(answers) \in Seq(Msg) /\ Count("dosthrsp", u, Framed(answers)) \in Nat
    BY <2>1, FramedType, CountType
  <2>3. CASE answers' = answers
    <3>1. t = Framed(answers)
      BY <1>5, <2>3 DEF Framed, Frame
    <3> QED BY <2>2, <3>1
  <2>4. CASE m.kind = "dosth" /\ answers' = Append(answers, Service!Answer(m))
    <3>1. PICK a : a = Service!Answer(m)
      OBVIOUS
    <3>2. a \in AnswerType /\ a.uid = m.uid
      BY <1>3, <3>1 DEF Service!Answer, AnswerType
    <3>3. t = Append(Framed(answers), Frame(a)) /\ Frame(a) \in Msg
      <4>1. t = Framed(Append(answers, a))
        BY <1>5, <2>4, <3>1 DEF Framed, Frame
      <4> QED BY <2>1, <3>2, <4>1, FramedAppend
    <3>4. IsOf(Frame(a), "dosthrsp", u) <=> IsOf(m, "dosth", u)
      BY <2>4, <3>2 DEF IsOf, Frame
    <3>5. Count("dosthrsp", u, t)
            = Count("dosthrsp", u, Framed(answers)) + (IF IsOf(Frame(a), "dosthrsp", u) THEN 1 ELSE 0)
      BY <2>2, <3>3, CountAppend
    <3> QED BY <2>2, <3>4, <3>5
  <2> QED BY <1>2, <2>3, <2>4
<1>8. /\ heard'[u] = heard[u] /\ Arriving(u)' = Arriving(u)
      /\ Count("dosth", u, told)' = Count("dosth", u, told)
      /\ Count("dosth", u, pending)' = Count("dosth", u, p)
      /\ Count("dosthrsp", u, Framed(answers))' = Count("dosthrsp", u, t)
  BY <1>2, <1>5 DEF Arriving, Count, CountAll, Places, Unread, IsOf
<1>9. Flow(u) <= Count("dosth", u, told)
  BY DEF AnswersFlow
<1> QED BY <1>4, <1>5, <1>6, <1>7, <1>8, <1>9, FlowType DEF Flow

(* An answer that is written arrives.                                      *)
LEMMA FlowSent ==
  ASSUME TypeOK, ServiceTypeOK, GotSaid, AnswersFlow, LogicSends, NEW u \in Uids
  PROVE  Flow(u)' <= Count("dosth", u, told)'
<1>1. PICK a : a = AnswerFrame
  OBVIOUS
<1>2. /\ a \in Msg /\ a = Frame(Head(answers)) /\ answers # <<>>
      /\ answers' = Tail(answers) /\ pending' = pending
      /\ UNCHANGED <<got, wk_rd, logic_msgs_in, told, heard>>
      /\ said' = [said EXCEPT ![Logic] = Append(@, a)]
  <2>1. UNCHANGED <<got, wk_rd, logic_msgs_in, told, heard>> /\ a \in Msg /\ answers # <<>>
    BY <1>1, AnswerSaid DEF workVars
  <2>2. said' = [said EXCEPT ![Logic] = Append(@, a)] /\ a = Frame(Head(answers))
    BY <1>1 DEF LogicSends, AnswerFrame, Frame
  <2> QED BY <2>1, <2>2 DEF LogicSends, Service!Send
<1>3. Unread(Logic)' = Append(Unread(Logic), a)
  BY <1>2, SaysMore, GateLogicAssumption DEF OneSaid
<1>4. Count("dosthrsp", u, Append(Unread(Logic), a))
        = Count("dosthrsp", u, Unread(Logic)) + (IF IsOf(a, "dosthrsp", u) THEN 1 ELSE 0)
  <2>1. Unread(Logic) \in Seq(Msg)
    BY ReadParts, GateLogicAssumption
  <2> QED BY <1>2, <2>1, CountAppend
<1>5. PICK r : r = Append(Unread(Logic), a)
  OBVIOUS
<1>6. Arriving(u)' = Arriving(u) + (IF IsOf(a, "dosthrsp", u) THEN 1 ELSE 0)
  <2>1. /\ CountAll("dosthrsp", u, logic_msgs_in, Workers)' = CountAll("dosthrsp", u, logic_msgs_in, Workers)
        /\ Count("dosthrsp", u, wk_rd[Logic])' = Count("dosthrsp", u, wk_rd[Logic])
        /\ Count("dosthrsp", u, Unread(Logic))' = Count("dosthrsp", u, r)
    BY <1>2, <1>3, <1>5 DEF Count, CountAll, Places, IsOf
  <2> QED BY <1>4, <1>5, <2>1, ArrivingType DEF Arriving
<1>7. PICK t : t = Tail(Framed(answers))
  OBVIOUS
<1>8. /\ Count("dosthrsp", u, Framed(answers))
           = (IF IsOf(a, "dosthrsp", u) THEN 1 ELSE 0) + Count("dosthrsp", u, t)
      /\ Count("dosthrsp", u, t) \in Nat
      /\ Count("dosthrsp", u, Framed(answers))' = Count("dosthrsp", u, t)
  <2>1. answers \in Seq(AnswerType)
    BY DEF ServiceTypeOK, AnswerType
  <2>2. Framed(answers) # <<>> /\ Head(Framed(answers)) = a /\ Framed(Tail(answers)) = t
    BY <1>2, <1>7, <2>1, FramedTail
  <2>3. Framed(answers) \in Seq(Msg)
    BY <2>1, FramedType
  <2>4. t \in Seq(Msg)
    BY <1>7, <2>2, <2>3, HeadTailProperties
  <2>5. Framed(answers)' = t
    BY <1>2, <2>2 DEF Framed, Frame
  <2>6. Count("dosthrsp", u, Framed(answers))
          = (IF IsOf(Head(Framed(answers)), "dosthrsp", u) THEN 1 ELSE 0)
              + Count("dosthrsp", u, Tail(Framed(answers)))
    BY <2>2, <2>3, CountTail
  <2>7. Count("dosthrsp", u, Framed(answers))' = Count("dosthrsp", u, t)
    BY <2>5 DEF Count, IsOf
  <2> QED BY <1>7, <2>2, <2>4, <2>6, <2>7, CountType
<1>9. /\ heard'[u] = heard[u]
      /\ Count("dosth", u, told)' = Count("dosth", u, told)
      /\ Count("dosth", u, pending)' = Count("dosth", u, pending)
  BY <1>2 DEF Count, IsOf
<1>10. Flow(u) <= Count("dosth", u, told)
  BY DEF AnswersFlow
<1> QED BY <1>3, <1>6, <1>8, <1>9, <1>10, FlowType DEF Flow

LEMMA NextGotSaid ==
  ASSUME UsersSay, TypeOK, Own, ServiceTypeOK, LogicStays, GotSaid, [GateLogicNext]_allVars
  PROVE  GotSaid'
<1>1. ASSUME [Next]_vars PROVE GotSaid'
  BY <1>1, NextArriving
<1>2. ASSUME LogicSends PROVE GotSaid'
  <2>1. /\ AnswerFrame \in Msg /\ got' = got
        /\ said' = [said EXCEPT ![Logic] = Append(@, AnswerFrame)]
    BY <1>2, AnswerSaid DEF LogicSends, AnswerFrame
  <2> QED BY <2>1, SaysMore, GateLogicAssumption
<1> QED BY <1>1, <1>2, StepKinds

LEMMA NextFlow ==
  ASSUME UsersSay, TypeOK, TypeOK', Own, ServiceTypeOK, LogicStays, GotSaid, AnswersFlow,
         [GateLogicNext]_allVars
  PROVE  AnswersFlow'
<1> SUFFICES ASSUME NEW u \in Uids PROVE Flow(u)' <= Count("dosth", u, told)'
  BY DEF AnswersFlow
<1>1. ASSUME [Next]_vars, UNCHANGED <<logicVars, told, heard>>
      PROVE  Flow(u)' <= Count("dosth", u, told)'
  <2>1. Arriving(u)' \in 0 .. Arriving(u)
    BY <1>1, NextArriving
  <2> QED BY <1>1, <2>1, FlowSame
<1>2. ASSUME NEW w \in Workers, WriteMsgs(w) PROVE Flow(u)' <= Count("dosth", u, told)'
  BY <1>2, FlowWritten
<1> QED BY <1>1, <1>2, FlowHandled, FlowSent, StepCases
-----------------------------------------------------------------------------
(* To whom the answers get.                                                *)
Answered(u) == [kind |-> "dosthrsp", uid |-> u]
AnsweredRight == \A u \in Uids : \A c \in Conns : Answered(u) \in inbox[c] => SaidLogin(c, u)

(* A worker has no answers among its users' messages.                      *)
UsersAsk == \A w \in Workers : \A i \in DOMAIN user_msgs_in[w] : user_msgs_in[w][i].kind # "dosthrsp"

LEMMA AskMore ==
  ASSUME TypeOK, UsersAsk, NEW w \in Workers, NEW m \in Msg, m.kind # "dosthrsp",
         user_msgs_in' = [user_msgs_in EXCEPT ![w] = Append(@, m)]
  PROVE  UsersAsk'
<1>1. user_msgs_in[w] \in Seq(Msg)
  BY DEF TypeOK, WorkerTypeOK
<1>2. PICK S : S = {n \in Msg : n.kind # "dosthrsp"}
  OBVIOUS
<1>3. \A i \in DOMAIN user_msgs_in[w] : user_msgs_in[w][i] \in S
  <2>1. \A i \in DOMAIN user_msgs_in[w] : user_msgs_in[w][i] \in Msg
    BY <1>1
  <2> QED BY <1>2, <2>1 DEF UsersAsk
<1>4. \A i \in DOMAIN Append(user_msgs_in[w], m) : Append(user_msgs_in[w], m)[i] \in S
  BY <1>1, <1>2, <1>3, AppendOf
<1>5. \A v \in Workers :
        user_msgs_in'[v] = IF v = w THEN Append(user_msgs_in[w], m) ELSE user_msgs_in[v]
  BY DEF TypeOK, WorkerTypeOK
<1> QED BY <1>2, <1>4, <1>5 DEF UsersAsk

LEMMA EpdataAsk ==
  ASSUME UsersSay, TypeOK, Own, LogicStays, SaidOnly, UsersAsk,
         NEW w \in Workers, NEW i \in DOMAIN rd_users[w], handler_epdata(w, i)
  PROVE  UsersAsk'
<1>1. PICK c, m : c = rd_users[w][i] /\ m = Head(wk_rd[c])
  OBVIOUS
<1>2. CASE user_msgs_in' = user_msgs_in
  BY <1>2 DEF UsersAsk
<1>3. CASE /\ ~IsSystem(w, c)
           /\ user_msgs_in' = [user_msgs_in EXCEPT ![w] = Append(@, m)]
  <2>1. c \in Conns
    <3>1. rd_users[w] \in Seq(Accepted)
      BY DEF TypeOK, WorkerTypeOK
    <3> QED BY <1>1, <3>1 DEF Accepted
  <2>2. wk_rd[c] \in Seq(Msg) /\ wk_rd[c] # <<>>
    BY <1>1, <2>1 DEF handler_epdata, NextToParse, HasFrames, TypeOK, WorkerTypeOK
  <2>3. m \in Msg /\ m \in FramesOf(c)
    BY <1>1, <2>1, <2>2, TailOf, HeadTailProperties DEF SaidOnly
  <2>4. c # Logic
    <3>1. logic[w] # NoConn
      BY DEF handler_epdata, EventsDone, Own, UsersOwn
    <3> QED BY <1>3, <3>1 DEF LogicStays, LogicHeld, IsSystem
  <2>5. m.kind # "dosthrsp"
    BY <2>1, <2>3, <2>4 DEF UsersSay, FramesOf
  <2> QED BY <1>3, <2>3, <2>5, AskMore
<1> QED BY <1>1, <1>2, <1>3 DEF handler_epdata

LEMMA NextAsk ==
  ASSUME UsersSay, TypeOK, Own, ServiceTypeOK, LogicStays, SaidOnly, UsersAsk,
         [GateLogicNext]_allVars
  PROVE  UsersAsk'
<1>1. CASE user_msgs_in' = user_msgs_in
  BY <1>1 DEF UsersAsk
<1>2. ASSUME NEW w \in Workers, WriteMsgs(w) PROVE UsersAsk'
  <2>1. \A v \in Workers : user_msgs_in'[v] = IF v = w THEN <<>> ELSE user_msgs_in[v]
    BY <1>2 DEF WriteMsgs, handler_msgs, TypeOK, WorkerTypeOK
  <2> QED BY <2>1 DEF UsersAsk
<1>3. ASSUME NEW w \in Workers, handler_ioevent(w) PROVE UsersAsk'
  <2>1. CASE /\ w_evs[w] # <<>> /\ on_new_connect(w, Head(w_evs[w]))
    <3>1. w_evs[w] \in Seq(Event)
      BY DEF TypeOK, WorkerTypeOK
    <3>2. Head(w_evs[w]).uid \in Uids \cup {0, -1}
      <4>1. Head(w_evs[w]) \in Event
        BY <2>1, <3>1, HeadTailProperties
      <4> QED BY <4>1 DEF Event
    <3>3. PICK m : m = [kind |-> "online", uid |-> Head(w_evs[w]).uid]
      OBVIOUS
    <3>4. m \in Msg /\ m.kind # "dosthrsp"
      BY <3>2, <3>3 DEF Msg, Kinds
    <3>5. user_msgs_in' = [user_msgs_in EXCEPT ![w] = Append(@, m)]
      BY <2>1, <3>3 DEF on_new_connect
    <3> QED BY <3>4, <3>5, AskMore
  <2> QED BY <1>1, <1>3, <2>1 DEF handler_ioevent
<1>4. ASSUME NEW w \in Workers, worker_conn_offline(w) PROVE UsersAsk'
  <2>1. CASE user_msgs_in' = [user_msgs_in EXCEPT ![w] =
               Append(@, [kind |-> "offline", uid |-> wk_uid[closing[w]]])]
    <3>1. wk_uid[closing[w]] \in Uids \cup {0, -1}
      <4>1. closing[w] \in Conns
        BY <1>4, WorkerHas DEF worker_conn_offline, Accepted
      <4> QED BY <4>1 DEF TypeOK, WorkerTypeOK
    <3>2. PICK m : m = [kind |-> "offline", uid |-> wk_uid[closing[w]]]
      OBVIOUS
    <3>3. m \in Msg /\ m.kind # "dosthrsp"
      BY <3>1, <3>2 DEF Msg, Kinds
    <3> QED BY <2>1, <3>2, <3>3, AskMore
  <2> QED BY <1>1, <1>4, <2>1 DEF worker_conn_offline
<1> QED BY <1>1, <1>2, <1>3, <1>4, EpdataAsk, TellingSteps

(* Nothing that was said is taken back, by the Logic neither.              *)
LEMMA SaidKept ==
  ASSUME TypeOK, ServiceTypeOK, [GateLogicNext]_allVars, NEW c \in Conns
  PROVE  Said(c) \subseteq Said(c)'
<1>1. ASSUME said' = said PROVE Said(c) \subseteq Said(c)'
  BY <1>1, SaidSame
<1>2. ASSUME NEW d \in Conns, NEW m \in Msg, said' = [said EXCEPT ![d] = Append(@, m)]
      PROVE  Said(c) \subseteq Said(c)'
  <2> SUFFICES ASSUME NEW i \in DOMAIN said[c]
               PROVE  i \in DOMAIN said'[c] /\ said'[c][i] = said[c][i]
    BY DEF Said
  <2>1. said[c] \in Seq(Msg)
    BY DEF TypeOK, NetTypeOK
  <2>2. said'[c] = said[c] \/ said'[c] = Append(said[c], m)
    BY <1>2 DEF TypeOK, NetTypeOK
  <2>3. i \in 1 .. Len(said[c]) /\ i \in 1 .. Len(said[c]) + 1
    BY <2>1, LenProperties
  <2>4. /\ i \in DOMAIN Append(said[c], m)
        /\ Append(said[c], m)[i] = said[c][i]
    BY <2>1, <2>3, AppendProperties, LenProperties
  <2> QED BY <2>2, <2>4
<1>3. ASSUME LogicSends PROVE Said(c) \subseteq Said(c)'
  <2>1. AnswerFrame \in Msg /\ said' = [said EXCEPT ![Logic] = Append(@, AnswerFrame)]
    BY <1>3, AnswerSaid DEF LogicSends, AnswerFrame
  <2> QED BY <1>2, <2>1, GateLogicAssumption
<1>4. ASSUME [Next]_vars PROVE Said(c) \subseteq Said(c)'
  <2>1. ASSUME NEW d \in Conns, NEW m \in ClientFrames[d], Send(d, m)
        PROVE  Said(c) \subseteq Said(c)'
    BY <1>2, <2>1, GateAssumption DEF Send
  <2>2. said' = said \/ \E d \in Conns : \E m \in ClientFrames[d] : Send(d, m)
    <3>1. CASE UNCHANGED vars
      BY <3>1 DEF vars, netVars
    <3>2. CASE PeerNext
      BY <3>2 DEF PeerNext, Connect, PeerClose
    <3>3. CASE IONext
      BY <3>3 DEF IONext, epoll_one, handler_data, handler_unlogin_msg, handler_reply,
                  notify_workers, netVars
    <3>4. ASSUME NEW w \in Workers, WorkerNext(w) PROVE said' = said
      BY <3>4 DEF WorkerNext, take_ioevents, handler_ioevent, epoll_wait, handler_epevent,
                  worker_conn_offline, handler_epdata, handler_msgs, netVars
    <3> QED BY <1>4, <3>1, <3>2, <3>3, <3>4 DEF Next
  <2> QED BY <1>1, <2>1, <2>2
<1> QED BY <1>3, <1>4, StepKinds

LEMMA AnsweredStill ==
  ASSUME TypeOK, ServiceTypeOK, AnsweredRight, [GateLogicNext]_allVars,
         \A c \in Conns : \A u \in Uids :
           Answered(u) \in inbox'[c] => Answered(u) \in inbox[c] \/ SaidLogin(c, u)
  PROVE  AnsweredRight'
<1> SUFFICES ASSUME NEW u \in Uids, NEW c \in Conns, Answered(u) \in inbox'[c]
             PROVE  SaidLogin(c, u)'
  BY DEF AnsweredRight, Answered
<1>1. SaidLogin(c, u)
  BY DEF AnsweredRight
<1>2. Said(c) \subseteq Said(c)'
  BY SaidKept
<1> QED BY <1>1, <1>2 DEF SaidLogin

(* A worker writes an answer to the connection its user is known by, which *)
(* is the user's own still.                                                *)
LEMMA WrittenRight ==
  ASSUME TypeOK, Own, Authentic, Mapped, UsersAsk, NEW w \in Workers, handler_msgs(w),
         NEW c \in Conns, NEW u \in Uids, Answered(u) \in inbox'[c]
  PROVE  Answered(u) \in inbox[c] \/ SaidLogin(c, u)
<1>1. Answered(u) \in inbox[c] \cup ToLogic(w, c) \cup ToUsers(w, c)
  BY DEF handler_msgs
<1>2. ASSUME Answered(u) \in ToLogic(w, c) PROVE FALSE
  BY <1>2 DEF ToLogic, Elements, UsersAsk, Answered
<1>3. ASSUME Answered(u) \in ToUsers(w, c) PROVE SaidLogin(c, u)
  <2>1. PICK o : /\ o = users[w].uid[u] /\ o # NoConn /\ openfd[sfd[o]] = c
    BY <1>3 DEF ToUsers, get_user_by_uid, Answered
  <2>2. o \in Accepted /\ o \in Conns /\ sfd[o] \in Fds
    <3>1. o \in Accepted \cup {NoConn}
      BY <2>1 DEF TypeOK, WorkerTypeOK, Manager
    <3> QED BY <2>1, <3>1, AcceptedHas
  <2>3. users[w].sock[sfd[o]] = o
    BY <2>1 DEF Mapped, MapsAgree
  <2>4. closing[w] = NoConn
    BY DEF handler_msgs, EventsDone
  <2>5. sfd[o] \in ep[w]
    BY <2>1, <2>2, <2>3, <2>4 DEF Own, UsersOwn
  <2>6. openfd[sfd[o]] = o
    BY <2>3, <2>5 DEF Own, WatchersOwn
  <2> QED BY <2>1, <2>6 DEF Authentic, LoginAuthentic
<1> QED BY <1>1, <1>2, <1>3

(* What the IO thread answers itself is another kind of message.           *)
LEMMA ReplyKinds ==
  ASSUME TypeOK, handler_reply, NEW c \in Conns, NEW u \in Uids, Answered(u) \in inbox'[c]
  PROVE  Answered(u) \in inbox[c]
<1>1. CASE inbox' = inbox
  BY <1>1
<1>2. CASE /\ inbox' = Delivered(Head(rsp_msgs).fd, {Head(rsp_msgs).msg})
           /\ Head(rsp_msgs).msg.kind # "dosthrsp"
  BY <1>2 DEF Delivered, Answered
<1> QED BY <1>1, <1>2 DEF handler_reply

LEMMA NextAnswered ==
  ASSUME TypeOK, Own, Authentic, Mapped, ServiceTypeOK, UsersAsk, AnsweredRight,
         [GateLogicNext]_allVars
  PROVE  AnsweredRight'
<1>1. ASSUME inbox' = inbox PROVE AnsweredRight'
  BY <1>1, AnsweredStill
<1>2. CASE LogicSends
  BY <1>1, <1>2 DEF LogicSends
<1>3. CASE handler_reply
  BY <1>3, ReplyKinds, AnsweredStill
<1>4. ASSUME NEW w \in Workers, handler_msgs(w) PROVE AnsweredRight'
  BY <1>4, WrittenRight, AnsweredStill
<1>5. CASE [Next]_vars
  <2>1. CASE UNCHANGED vars
    BY <1>1, <2>1 DEF vars, netVars
  <2>2. CASE PeerNext
    BY <1>1, <2>2 DEF PeerNext, Connect, Send, PeerClose
  <2>3. CASE IONext
    BY <1>1, <1>3, <2>3 DEF IONext, epoll_one, handler_data, handler_unlogin_msg,
                            notify_workers, netVars
  <2>4. ASSUME NEW w \in Workers, WorkerNext(w) PROVE AnsweredRight'
    BY <1>1, <1>4, <2>4 DEF WorkerNext, take_ioevents, handler_ioevent, epoll_wait,
                            handler_epevent, worker_conn_offline, handler_epdata, netVars
  <2> QED BY <1>5, <2>1, <2>2, <2>3, <2>4 DEF Next
<1> QED BY <1>2, <1>5, StepKinds

AnswersInv == GotSaid /\ AnswersFlow /\ UsersAsk /\ AnsweredRight

LEMMA InitAnswers ==
  ASSUME GateLogicInit
  PROVE  AnswersInv
<1>1. /\ NetInit /\ WorkerInit /\ TypeOK /\ ServiceTypeOK
      /\ pending = <<>> /\ answers = <<>> /\ told = <<>> /\ heard = [u \in Uids |-> 0]
  BY InitGateInv DEF GateLogicInit, Init, GateInv
<1>2. \A c \in Conns : said[c] = <<>> /\ got[c] = 0 /\ inbox[c] = {} /\ wk_rd[c] = <<>>
  BY <1>1 DEF NetInit, WorkerInit
<1>3. \A w \in Workers : user_msgs_in[w] = <<>> /\ logic_msgs_in[w] = <<>>
  BY <1>1 DEF WorkerInit
<1>4. GotSaid
  <2>1. Len(<<>>) = 0
    BY EmptySeq
  <2>2. ASSUME NEW c \in Conns PROVE got[c] <= Len(said[c])
    <3>1. said[c] = <<>> /\ got[c] = 0
      BY <1>2
    <3>2. Len(said[c]) = 0
      BY <2>1, <3>1
    <3> QED BY <3>1, <3>2
  <2> QED BY <2>2 DEF GotSaid
<1>5. UsersAsk /\ AnsweredRight
  BY <1>2, <1>3 DEF UsersAsk, AnsweredRight
<1>6. ASSUME NEW u \in Uids PROVE Flow(u) <= Count("dosth", u, told)
  <2>1. Unread(Logic) = <<>>
    <3>1. said[Logic] = <<>> /\ got[Logic] = 0 /\ Len(<<>>) = 0
      BY <1>2, GateLogicAssumption, EmptySeq
    <3>2. SubSeq(<<>>, 1, 0) = <<>>
      OBVIOUS
    <3> QED BY <3>1, <3>2 DEF Unread
  <2>2. Framed(answers) = <<>>
    BY <1>1 DEF Framed
  <2>3. /\ CountAll("dosthrsp", u, logic_msgs_in, Workers) = 0
        /\ Count("dosthrsp", u, <<>>) = 0 /\ Count("dosth", u, <<>>) = 0
    BY <1>3, CountNone, CountEmpty
  <2> QED BY <1>1, <1>2, <2>1, <2>2, <2>3, GateLogicAssumption DEF Flow, Arriving
<1> QED BY <1>4, <1>5, <1>6 DEF AnswersInv, AnswersFlow

LEMMA NextAnswersInv ==
  ASSUME UsersSay, LogicInv, TypeOK', AnswersInv, [GateLogicNext]_allVars
  PROVE  AnswersInv'
<1>1. /\ TypeOK /\ Own /\ Authentic /\ Mapped /\ ServiceTypeOK /\ SaidOnly /\ LogicStays
      /\ GotSaid /\ AnswersFlow /\ UsersAsk /\ AnsweredRight
  BY DEF LogicInv, GateInv, AnswersInv
<1>2. GotSaid' /\ AnswersFlow'
  BY <1>1, NextGotSaid, NextFlow
<1>3. UsersAsk' /\ AnsweredRight'
  BY <1>1, NextAsk, NextAnswered
<1> QED BY <1>2, <1>3 DEF AnswersInv

(* Who gets an answer logged in as the user it is for, and no more answers *)
(* are there, heard or on their way, than messages of the user were told.  *)
THEOREM AnswersAreOwn ==
  ASSUME KnownFrames, OneLogic, UsersSay
  PROVE  GateLogicSpec => []AnsweredOnce
<1>1. LogicInv /\ [GateLogicNext]_allVars => LogicInv'
  BY NextLogicInv
<1>2. LogicInv /\ LogicInv' /\ AnswersInv /\ [GateLogicNext]_allVars => AnswersInv'
  <2>1. LogicInv' => TypeOK'
    BY DEF LogicInv, GateInv
  <2> QED BY <2>1, NextAnswersInv
<1>3. GateLogicInit => LogicInv /\ AnswersInv
  BY InitLogicInv, InitAnswers
<1>4. LogicInv /\ AnswersInv => AnsweredOnce
  <2> SUFFICES ASSUME LogicInv, AnswersInv, NEW u \in Uids
               PROVE  /\ \A c \in Conns : [kind |-> "dosthrsp", uid |-> u] \in inbox[c] => SaidLogin(c, u)
                      /\ heard[u] + Count("dosthrsp", u, Unread(Logic)) <= Count("dosth", u, told)
    BY DEF AnsweredOnce
  <2>1. TypeOK /\ ServiceTypeOK /\ GotSaid /\ AnsweredRight /\ Flow(u) <= Count("dosth", u, told)
    BY DEF LogicInv, GateInv, AnswersInv, AnswersFlow
  <2>2. \A c \in Conns : [kind |-> "dosthrsp", uid |-> u] \in inbox[c] => SaidLogin(c, u)
    BY <2>1 DEF AnsweredRight, Answered
  <2>3. /\ CountAll("dosthrsp", u, logic_msgs_in, Workers) \in Nat
        /\ Count("dosthrsp", u, wk_rd[Logic]) \in Nat
        /\ Count("dosthrsp", u, Unread(Logic)) \in Nat
    BY <2>1, ArrivingType
  <2>4. /\ heard[u] \in Nat
        /\ Count("dosthrsp", u, Framed(answers)) \in Nat
        /\ Count("dosth", u, pending) \in Nat /\ Count("dosth", u, told) \in Nat
    BY <2>1, FlowType
  <2> QED BY <2>1, <2>2, <2>3, <2>4 DEF Flow, Arriving
<1> QED BY <1>1, <1>2, <1>3, <1>4, PTL DEF GateLogicSpec
-----------------------------------------------------------------------------
(* Of a user whom no worker serves yet nothing waits in a worker, and      *)
(* nothing read is for the Logic: what he said came to the IO thread, who  *)
(* closes his number at the first frame that is no login.                  *)

Silent(s) == \A i \in DOMAIN s : s[i].kind # "dosth"
Fresh(c) == wk_uid[c] = 0 /\ wk_rd[c] = <<>>
Unlogged(c) == \E f \in Fds : unlogin_users[f] = c
Passed(c) == \E w \in Workers : \E i \in Connects(w) : Queue(w)[i].conn = c

Unserved(c) ==
  /\ sfd[c] = 0 => Fresh(c) /\ Read[c] = <<>> /\ io_rd[c] = <<>>
  /\ Unlogged(c) => /\ Fresh(c)
                    /\ Silent(io_rd[c]) => Silent(Read[c])
                    /\ io_rd[c] # <<>> => c \in Elements(unlogin_reads)
  /\ Passed(c) => Fresh(c) /\ Silent(Read[c])

UnservedSilent == wk_uid[Logic] = 0 /\ \A c \in Conns : Unserved(c)

LEMMA SilentConcat ==
  ASSUME NEW s \in Seq(Msg), NEW t \in Seq(Msg)
  PROVE  Silent(s \o t) <=> Silent(s) /\ Silent(t)
<1>1. /\ Len(s) \in Nat /\ Len(t) \in Nat
      /\ DOMAIN s = 1 .. Len(s) /\ DOMAIN t = 1 .. Len(t)
      /\ DOMAIN (s \o t) = 1 .. Len(s) + Len(t)
      /\ \A i \in 1 .. Len(s) + Len(t) :
           (s \o t)[i] = IF i <= Len(s) THEN s[i] ELSE t[i - Len(s)]
  BY ConcatProperties, LenProperties
<1>2. ASSUME Silent(s \o t) PROVE Silent(s) /\ Silent(t)
  <2>1. ASSUME NEW i \in 1 .. Len(s) PROVE s[i].kind # "dosth"
    BY <1>1, <1>2 DEF Silent
  <2>2. ASSUME NEW i \in 1 .. Len(t) PROVE t[i].kind # "dosth"
    <3>1. /\ i + Len(s) \in 1 .. Len(s) + Len(t) /\ ~(i + Len(s) <= Len(s))
          /\ i + Len(s) - Len(s) = i
      BY <1>1
    <3>2. (s \o t)[i + Len(s)] = t[i]
      BY <1>1, <3>1
    <3> QED BY <1>1, <1>2, <3>1, <3>2 DEF Silent
  <2> QED BY <1>1, <2>1, <2>2 DEF Silent
<1>3. ASSUME Silent(s), Silent(t), NEW i \in 1 .. Len(s) + Len(t)
      PROVE  (s \o t)[i].kind # "dosth"
  <2>1. CASE i <= Len(s)
    BY <1>1, <1>3, <2>1 DEF Silent
  <2>2. CASE ~(i <= Len(s))
    <3>1. i - Len(s) \in 1 .. Len(t)
      BY <1>1, <2>2
    <3> QED BY <1>1, <1>3, <2>2, <3>1 DEF Silent
  <2> QED BY <2>1, <2>2
<1> QED BY <1>1, <1>2, <1>3 DEF Silent

LEMMA SilentEmpty == Silent(<<>>)
BY DEF Silent

(* An order of a finite set lists all of it.                               *)
LEMMA OrdersAll ==
  ASSUME NEW S, IsFiniteSet(S), NEW s \in Orders(S), NEW x \in S
  PROVE  \E i \in DOMAIN s : s[i] = x
<1>1. PICK n : n = Cardinality(S)
  OBVIOUS
<1>2. n \in Nat
  BY <1>1, FS_CardinalityType
<1>3. s \in [1 .. n -> S] /\ \A i, j \in 1 .. n : s[i] = s[j] => i = j
  BY <1>1 DEF Orders
<1>4. s \in Injection(1 .. n, S)
  BY <1>3 DEF Injection, IsInjective
<1>5. Cardinality(1 .. n) = n
  BY <1>2, FS_Interval
<1>6. s \in Surjection(1 .. n, S)
  BY <1>1, <1>4, <1>5, FS_Injection
<1> QED BY <1>3, <1>6 DEF Surjection

(* A connection under way to a worker is watched by nobody.                *)
LEMMA PassedOwn ==
  ASSUME TypeOK, Own, NEW c \in Conns, Passed(c)
  PROVE  /\ sfd[c] \in Fds /\ openfd[sfd[c]] = c /\ sfd[c] \notin epio
         /\ \A v \in Workers : sfd[c] \notin ep[v]
<1>1. PICK w \in Workers : \E i \in Connects(w) : Queue(w)[i].conn = c
  BY DEF Passed
<1>0. PICK i \in Connects(w) : Queue(w)[i].conn = c
  BY <1>1
<1>2. Queue(w)[i].fd \in Fds /\ c # NoConn
  BY <1>0, ConnectType
<1>3. /\ openfd[Queue(w)[i].fd] = c /\ Queue(w)[i].fd \notin epio
      /\ \A v \in Workers : Queue(w)[i].fd \notin ep[v]
  BY <1>0 DEF Own, QueuesOwn
<1>4. sfd[c] = Queue(w)[i].fd
  BY <1>2, <1>3 DEF Own, IOOwns
<1> QED BY <1>2, <1>3, <1>4

LEMMA UnloggedOwn ==
  ASSUME TypeOK, Own, NEW c \in Conns, Unlogged(c)
  PROVE  /\ sfd[c] \in Fds /\ openfd[sfd[c]] = c /\ sfd[c] \in epio
         /\ unlogin_users[sfd[c]] = c
<1>1. PICK f \in Fds : unlogin_users[f] = c
  BY DEF Unlogged
<1>2. c # NoConn
  BY UserManagerAssumption
<1>3. openfd[f] = c /\ f \in epio /\ sfd[c] = f
  BY <1>1, <1>2 DEF Own, IOOwns
<1> QED BY <1>1, <1>3

(* The IO thread meets a connection by accepting it.                       *)
LEMMA UnloggedSteps ==
  ASSUME TypeOK, Own, [Next]_vars, NEW c \in Conns, Unlogged(c)'
  PROVE  Unlogged(c) \/ sfd[c] = 0
<1>0. c # NoConn
  BY UserManagerAssumption
<1>1. PICK f \in Fds : unlogin_users'[f] = c
  BY DEF Unlogged
<1>2. CASE unlogin_users'[f] \in {unlogin_users[f], NoConn}
  BY <1>0, <1>1, <1>2 DEF Unlogged
<1>3. CASE epoll_one
  <2>1. CASE AcceptNone
    BY <1>2, <2>1 DEF AcceptNone
  <2>2. ASSUME NEW d \in Pending, NEW g \in FreeFds, Accept(d, g)
        PROVE  Unlogged(c) \/ sfd[c] = 0
    <3>1. unlogin_users'[f] \in {unlogin_users[f], d}
      BY <2>2 DEF Accept, on_accept, PutAbsent, TypeOK, IOTypeOK
    <3> QED BY <1>1, <1>2, <2>2, <3>1 DEF Pending
  <2> QED BY <1>3, <2>1, <2>2 DEF epoll_one
<1>4. CASE UNCHANGED vars \/ PeerNext \/ \E w \in Workers : WorkerNext(w)
  <2>1. unlogin_users' = unlogin_users
    BY <1>4, ZenonT(40) DEF vars, ioVars, PeerNext, Connect, Send, PeerClose, WorkerNext, take_ioevents,
                handler_ioevent, epoll_wait, handler_epevent, worker_conn_offline,
                handler_epdata, handler_msgs
  <2> QED BY <1>2, <2>1
<1>5. CASE handler_data
  BY <1>2, <1>5 DEF handler_data, on_conn_offline_all, Without
<1>6. ASSUME NEW i \in DOMAIN unlogin_reads, handler_unlogin_msg(i)
      PROVE  Unlogged(c) \/ sfd[c] = 0
  <2>1. unlogin_users' = unlogin_users \/ \E F : unlogin_users' = Without(F)
    BY <1>6 DEF handler_unlogin_msg, Dispatch, kick_out
  <2> QED BY <1>2, <2>1 DEF Without
<1>7. CASE handler_reply
  <2>1. unlogin_users' = unlogin_users \/ \E F : unlogin_users' = Without(F)
    BY <1>7 DEF handler_reply, no_promotion, on_logic_verifyed, on_user_logined
  <2> QED BY <1>2, <2>1 DEF Without
<1>8. CASE notify_workers
  BY <1>2, <1>8 DEF notify_workers
<1> QED BY <1>3, <1>4, <1>5, <1>6, <1>7, <1>8 DEF Next, IONext

(* It is on its way to a worker once all it had sent is parsed.            *)
LEMMA PassedSteps ==
  ASSUME TypeOK, Own, NEW c \in Conns, Unserved(c), [Next]_vars, Passed(c)'
  PROVE  Passed(c) \/ (Unlogged(c) /\ io_rd[c] = <<>>)
<1>0. PICK w \in Workers : \E i \in Connects(w)' : Queue(w)'[i].conn = c
  BY DEF Passed
<1>1. PICK i \in Connects(w)' : Queue(w)'[i].conn = c
  BY <1>0
<1>2. CASE \E j \in Connects(w) : Queue(w)'[i] = Queue(w)[j]
  BY <1>1, <1>2 DEF Passed
<1>3. CASE handler_reply /\ JustHanded(Queue(w)'[i])
  <2>1. /\ 1 \in DOMAIN rsp_msgs /\ c = unlogin_users[rsp_msgs[1].fd]
    BY <1>1, <1>3 DEF JustHanded
  <2>2. Unlogged(c)
    BY <2>1, ReplyHas DEF Unlogged
  <2>3. AllParsed
    BY <1>3 DEF handler_reply
  <2>4. c \in Elements(unlogin_reads) => io_rd[c] = <<>>
    BY <2>3, NothingLeft DEF Elements, Own
  <2> QED BY <2>2, <2>4 DEF Unserved
<1> QED BY <1>2, <1>3, QueueSteps

LEMMA ReadsListed ==
  ASSUME TypeOK, [Next]_vars, NEW c \in Elements(unlogin_reads)
  PROVE  c \in Elements(unlogin_reads)'
<1>1. CASE unlogin_reads' = unlogin_reads
  BY <1>1 DEF Elements
<1>2. CASE handler_data
  <2>0. PICK bad : \E s \in Orders(unlogin_events \ bad) : unlogin_reads' = unlogin_reads \o s
    BY <1>2 DEF handler_data
  <2>1. PICK s \in Orders(unlogin_events \ bad) : unlogin_reads' = unlogin_reads \o s
    BY <2>0
  <2>2. s \in Seq(Accepted) /\ unlogin_reads \in Seq(Accepted)
    <3>1. unlogin_events \ bad \subseteq Conns /\ unlogin_events \ bad \subseteq Accepted
      BY DEF TypeOK, IOTypeOK, Accepted
    <3>2. IsFiniteSet(unlogin_events \ bad)
      BY <3>1, FS_Subset, GateAssumption
    <3>3. s \in Seq(unlogin_events \ bad)
      BY <3>2, OrdersType
    <3> QED BY <3>1, <3>3 DEF TypeOK, IOTypeOK
  <2>3. PICK i \in DOMAIN unlogin_reads : unlogin_reads[i] = c
    BY DEF Elements
  <2>4. i \in 1 .. Len(unlogin_reads) /\ Len(unlogin_reads) \in Nat /\ Len(s) \in Nat
    BY <2>2, LenProperties
  <2>5. i \in DOMAIN (unlogin_reads \o s) /\ (unlogin_reads \o s)[i] = c
    BY <2>2, <2>3, <2>4, ConcatProperties, LenProperties
  <2> QED BY <2>1, <2>5 DEF Elements
<1>3. unlogin_reads' = unlogin_reads \/ handler_data
  <2>1. CASE UNCHANGED vars \/ PeerNext \/ \E w \in Workers : WorkerNext(w)
    BY <2>1, ZenonT(40) DEF vars, ioVars, PeerNext, Connect, Send, PeerClose, WorkerNext, take_ioevents,
                handler_ioevent, epoll_wait, handler_epevent, worker_conn_offline,
                handler_epdata, handler_msgs
  <2>2. CASE IONext
    BY <2>2 DEF IONext, epoll_one, handler_unlogin_msg, handler_reply, notify_workers
  <2> QED BY <2>1, <2>2 DEF Next
<1> QED BY <1>1, <1>2, <1>3

(* What a step may change of what Unserved says of a connection.           *)
Untouched(c) ==
  wk_uid'[c] = wk_uid[c] /\ wk_rd'[c] = wk_rd[c] /\ Read'[c] = Read[c]

LEMMA UnservedStill ==
  ASSUME NEW c \in Conns, Unserved(c), Untouched(c), io_rd'[c] = io_rd[c],
         sfd'[c] = 0 => sfd[c] = 0,
         Unlogged(c)' => Unlogged(c) \/ sfd[c] = 0,
         Passed(c)' => Passed(c) \/ (Unlogged(c) /\ io_rd[c] = <<>>),
         c \in Elements(unlogin_reads) => c \in Elements(unlogin_reads)'
  PROVE  Unserved(c)'
<1> USE DEF Untouched
<1>1. Fresh(c) => Fresh(c)'
  BY DEF Fresh
<1>2. Silent(Read[c])' <=> Silent(Read[c])
  BY DEF Silent
<1>3. Silent(io_rd[c])' <=> Silent(io_rd[c])
  BY DEF Silent
<1>4. sfd'[c] = 0 => Fresh(c)' /\ Read'[c] = <<>> /\ io_rd'[c] = <<>>
  BY <1>1 DEF Unserved
<1>5. ASSUME Unlogged(c)'
      PROVE  /\ Fresh(c)' /\ (Silent(io_rd[c])' => Silent(Read[c])')
             /\ io_rd'[c] # <<>> => c \in Elements(unlogin_reads)'
  <2>1. CASE Unlogged(c)
    BY <1>1, <1>2, <1>3, <2>1 DEF Unserved
  <2>2. CASE sfd[c] = 0
    BY <1>1, <1>2, <2>2, SilentEmpty DEF Unserved
  <2> QED BY <1>5, <2>1, <2>2
<1>6. ASSUME Passed(c)' PROVE Fresh(c)' /\ Silent(Read[c])'
  <2>1. CASE Passed(c)
    BY <1>1, <1>2, <2>1 DEF Unserved
  <2>2. CASE Unlogged(c) /\ io_rd[c] = <<>>
    BY <1>1, <1>2, <2>2, SilentEmpty DEF Unserved
  <2> QED BY <1>6, <2>1, <2>2
<1> QED BY <1>4, <1>5, <1>6 DEF Unserved

(* Of a connection that is past all this nothing is said.                  *)
LEMMA NotWaiting ==
  ASSUME TypeOK, Own, [Next]_vars, NEW c \in Conns, Unserved(c),
         sfd[c] # 0, ~Unlogged(c), ~Passed(c)
  PROVE  Unserved(c)'
<1>1. sfd'[c] # 0
  BY NumbersStay DEF Accepted
<1>2. ~Unlogged(c)' /\ ~Passed(c)'
  BY UnloggedSteps, PassedSteps
<1> QED BY <1>1, <1>2 DEF Unserved

(* The IO thread reads.                                                    *)
LEMMA DataUnserved ==
  ASSUME TypeOK, Own, GotSaid, handler_data, NEW c \in Conns, c \in unlogin_events,
         Unserved(c)
  PROVE  AllRead(c) /\ Unlogged(c) /\ Unserved(c)'
<1>0. [Next]_vars
  BY DEF Next, IONext
<1>1. /\ Unlogged(c) /\ sfd[c] \in Fds /\ openfd[sfd[c]] = c /\ c # NoConn
  <2>1. c \in Accepted
    BY DEF TypeOK, IOTypeOK
  <2>2. sfd[c] \in Fds /\ unlogin_users[sfd[c]] = c /\ c # NoConn
    BY <2>1, AcceptedHas DEF Own, ListsFresh
  <2>3. Unlogged(c)
    BY <2>2 DEF Unlogged
  <2> QED BY <2>2, <2>3, UnloggedOwn
<1>2. ~Passed(c)
  BY <1>1, PassedOwn, UnloggedOwn
<1>3. PICK r : r = Unread(c)
  OBVIOUS
<1>4. /\ UNCHANGED <<said, wk_uid, wk_rd, w_evs, ioevs_in, events_io, sfd>>
      /\ io_rd'[c] = io_rd[c] \o r
      /\ DrainedBy({sfd[d] : d \in unlogin_events})
  <2>1. ReadFrames(sfd[c]) = r
    BY <1>1, <1>3 DEF ReadFrames
  <2> QED BY <2>1 DEF handler_data, queueVars, workVars
<1>5. AllRead(c)
  BY <1>1, <1>4, ReadsAll
<1>6. Fresh(c)'
  BY <1>1, <1>4 DEF Unserved, Fresh
<1>7. Silent(io_rd[c])' => Silent(Read[c])'
  <2>1. r \in Seq(Msg) /\ Read[c] \in Seq(Msg) /\ io_rd[c] \in Seq(Msg)
    BY <1>3, ReadParts DEF TypeOK, IOTypeOK
  <2>2. PICK a, b : a = io_rd[c] \o r /\ b = Read[c] \o r
    OBVIOUS
  <2>3. Silent(a) => Silent(b)
    BY <1>1, <2>1, <2>2, SilentConcat DEF Unserved
  <2>4. io_rd'[c] = a /\ Read'[c] = b
    BY <1>3, <1>4, <1>5, <2>2 DEF AllRead
  <2> QED BY <2>3, <2>4 DEF Silent
<1>8. ASSUME Unlogged(c)' PROVE c \in Elements(unlogin_reads)'
  <2>1. PICK bad : bad = {d \in unlogin_events : Failed(d)}
    OBVIOUS
  <2>2. unlogin_users' = Without({sfd[d] : d \in bad})
    BY <2>1 DEF handler_data, on_conn_offline_all
  <2>3. c \notin bad
    <3> SUFFICES ASSUME c \in bad PROVE FALSE
      OBVIOUS
    <3>1. PICK f \in Fds : unlogin_users'[f] = c
      BY <1>8 DEF Unlogged
    <3>2. unlogin_users[f] = c /\ f \notin {sfd[d] : d \in bad}
      BY <1>1, <2>2, <3>1 DEF Without
    <3>3. sfd[c] = f
      BY <1>1, <3>2 DEF Own, IOOwns
    <3> QED BY <3>2, <3>3
  <2>4. PICK s \in Orders(unlogin_events \ bad) : unlogin_reads' = unlogin_reads \o s
    BY <2>1 DEF handler_data
  <2>5. PICK S : S = unlogin_events \ bad
    OBVIOUS
  <2>6. S \subseteq Accepted /\ IsFiniteSet(S) /\ c \in S
    <3>1. S \subseteq Conns /\ S \subseteq Accepted
      BY <2>5 DEF TypeOK, IOTypeOK, Accepted
    <3> QED BY <2>3, <2>5, <3>1, FS_Subset, GateAssumption
  <2>7. s \in Seq(Accepted) /\ unlogin_reads \in Seq(Accepted)
    <3>1. s \in Seq(S)
      BY <2>4, <2>5, <2>6, OrdersType
    <3> QED BY <2>6, <3>1 DEF TypeOK, IOTypeOK
  <2>8. PICK i \in DOMAIN s : s[i] = c
    BY <2>4, <2>5, <2>6, OrdersAll
  <2>9. /\ i \in 1 .. Len(s) /\ Len(s) \in Nat /\ Len(unlogin_reads) \in Nat
        /\ DOMAIN (unlogin_reads \o s) = 1 .. Len(unlogin_reads) + Len(s)
        /\ \A j \in 1 .. Len(unlogin_reads) + Len(s) :
             (unlogin_reads \o s)[j] = IF j <= Len(unlogin_reads) THEN unlogin_reads[j]
                                       ELSE s[j - Len(unlogin_reads)]
    BY <2>7, ConcatProperties, LenProperties
  <2>10. PICK n : n = i + Len(unlogin_reads)
    OBVIOUS
  <2>11. /\ n \in 1 .. Len(unlogin_reads) + Len(s) /\ ~(n <= Len(unlogin_reads))
         /\ n - Len(unlogin_reads) = i
    BY <2>9, <2>10
  <2>12. n \in DOMAIN unlogin_reads' /\ unlogin_reads'[n] = c
    BY <2>4, <2>8, <2>9, <2>11
  <2> QED BY <2>12 DEF Elements
<1>9. ~Passed(c)' /\ sfd'[c] # 0
  <2>1. Passed(c)' => Passed(c)
    BY <1>4 DEF Passed, Connects, Queue
  <2> QED BY <1>1, <1>2, <1>4, <2>1, UserManagerAssumption
<1> QED BY <1>1, <1>5, <1>6, <1>7, <1>8, <1>9 DEF Unserved

(* It parses: a frame that is no login costs the number.                   *)
LEMMA MsgUnserved ==
  ASSUME TypeOK, Own, NEW i \in DOMAIN unlogin_reads, handler_unlogin_msg(i),
         NEW c \in Conns, c = unlogin_reads[i], Unserved(c)
  PROVE  Unserved(c)'
<1>1. io_rd[c] # <<>> /\ io_rd[c] \in Seq(Msg) /\ c # NoConn
  BY UserManagerAssumption DEF handler_unlogin_msg, NextToParse, HasFrames, TypeOK, IOTypeOK
<1>2. /\ UNCHANGED <<said, got, sfd, wk_uid, wk_rd, unlogin_reads,
                     w_evs, ioevs_in, events_io>>
  BY DEF handler_unlogin_msg, queueVars, workVars
<1>3. PICK k \in Stops(io_rd[c]) :
        LET msgs == Parsed(io_rd[c], k)
            left == Unparsed(io_rd[c], k) IN
        /\ io_rd' = [io_rd EXCEPT ![c] = left]
        /\ \/ /\ msgs = <<>>
              /\ UNCHANGED <<openfd, epio, ep, unlogin_users, io_uid, rsp_msgs>>
           \/ Acceptable(msgs, left) /\ Dispatch(c, msgs[1])
           \/ msgs # <<>> /\ ~Acceptable(msgs, left) /\ kick_out(c)
  BY DEF handler_unlogin_msg
<1>4. Unparsed(io_rd[c], k) = <<>> /\ Parsed(io_rd[c], k) = io_rd[c]
  <2>1. \A j \in DOMAIN io_rd[c] : CanGen(io_rd[c][j])
    BY DEF Own, FramesKnown
  <2>2. Len(io_rd[c]) \in Nat /\ DOMAIN io_rd[c] = 1 .. Len(io_rd[c])
    BY <1>1, LenProperties
  <2>3. k = Len(io_rd[c]) + 1
    BY <2>1, <2>2 DEF Stops
  <2>4. Parsed(io_rd[c], k) = SubSeq(io_rd[c], 1, Len(io_rd[c]))
    BY <2>2, <2>3 DEF Parsed
  <2> QED BY <1>1, <2>1, <2>4, AllParsedAtOnce, SubSeqFull
<1>5. /\ io_rd'[c] = <<>>
      /\ \/ Acceptable(io_rd[c], <<>>) /\ unlogin_users' = unlogin_users
         \/ kick_out(c)
  <2>1. io_rd' = [io_rd EXCEPT ![c] = <<>>]
    BY <1>3, <1>4
  <2> QED BY <1>1, <1>3, <1>4, <2>1 DEF Dispatch, TypeOK, IOTypeOK
<1>6. NoneRead(c)
  BY <1>2, NoneSaid
<1>7. Fresh(c) => Fresh(c)'
  BY <1>2 DEF Fresh
<1>8. Silent(Read[c])' <=> Silent(Read[c])
  BY <1>6 DEF NoneRead, Silent
<1>9. ASSUME Unlogged(c)' PROVE Fresh(c)' /\ Silent(Read[c])'
  <2>1. PICK f \in Fds : unlogin_users'[f] = c
    BY <1>9 DEF Unlogged
  <2>2. CASE Acceptable(io_rd[c], <<>>) /\ unlogin_users' = unlogin_users
    <3>1. Unlogged(c)
      BY <2>1, <2>2 DEF Unlogged
    <3>2. Silent(io_rd[c])
      <4>1. Len(io_rd[c]) = 1 /\ io_rd[c][1].kind # "dosth" /\ DOMAIN io_rd[c] = 1 .. 1
        BY <1>1, <2>2, LenProperties DEF Acceptable
      <4> QED BY <4>1 DEF Silent
    <3> QED BY <1>7, <1>8, <3>1, <3>2 DEF Unserved
  <2>3. CASE kick_out(c)
    <3>1. unlogin_users' = Without({sfd[c]})
      BY <2>3 DEF kick_out
    <3>2. unlogin_users[f] = c /\ f # sfd[c]
      BY <1>1, <2>1, <3>1 DEF Without
    <3> QED BY <1>1, <3>2 DEF Own, IOOwns
  <2> QED BY <1>5, <2>2, <2>3
<1>10. Passed(c)' => Passed(c)
  BY <1>2 DEF Passed, Connects, Queue
<1>11. sfd'[c] = 0 => Fresh(c)' /\ Read'[c] = <<>>
  BY <1>2, <1>6, <1>7 DEF Unserved, NoneRead
<1> QED BY <1>5, <1>7, <1>8, <1>9, <1>10, <1>11 DEF Unserved

(* A worker takes a connection over.                                       *)
LEMMA Connecting ==
  ASSUME TypeOK, Own, Mapped, [Next]_vars, NEW c \in Conns, wk_uid'[c] # wk_uid[c]
  PROVE  \E w \in Workers :
           /\ handler_ioevent(w) /\ w_pc[w] = "connect" /\ w_evs[w] # <<>>
           /\ w_evs' = [w_evs EXCEPT ![w] = Tail(@)] /\ UNCHANGED <<ioevs_in, events_io>>
           /\ 1 \in Connects(w) /\ Queue(w)[1].conn = c /\ Queue(w)[1].fd = sfd[c]
           /\ sfd[c] \in Fds /\ openfd[sfd[c]] = c
           /\ \A v \in Workers : sfd[c] \notin ep[v]
           /\ \A d \in Conns \ {c} : wk_uid'[d] = wk_uid[d]
<1>1. wk_uid' = wk_uid \/ \E w \in Workers : handler_ioevent(w)
  <2>1. CASE handler_reply
    BY <2>1 DEF handler_reply
  <2>2. CASE \E w \in Workers : worker_conn_offline(w) \/ \E d \in epev_users[w] : handler_epevent(w, d)
    BY <2>2 DEF worker_conn_offline, handler_epevent
  <2> QED BY <2>1, <2>2, UsersSteps
<1>2. PICK w \in Workers : handler_ioevent(w)
  BY <1>1
<1>3. /\ UNCHANGED <<ioevs_in, events_io>>
      /\ w_pc[w] = "connect" /\ w_evs[w] # <<>>
      /\ w_evs' = [w_evs EXCEPT ![w] = Tail(@)]
      /\ Head(w_evs[w]).what = "connect" /\ on_new_connect(w, Head(w_evs[w]))
  BY <1>2 DEF handler_ioevent, Stays, queueVars
<1>4. PICK e \in Event :
        /\ 1 \in Connects(w) /\ Queue(w)[1] = e
        /\ e.fd \in Fds /\ e.conn \in Conns
        /\ openfd[e.fd] = e.conn /\ sfd[e.conn] = e.fd
        /\ \A v \in Workers : e.fd \notin ep[v]
        /\ \A d \in Conns \ {e.conn} : wk_uid'[d] = wk_uid[d]
  BY <1>3, Connected
<1>5. c = e.conn
  BY <1>4
<1> QED BY <1>2, <1>3, <1>4, <1>5

LEMMA ConnectUnserved ==
  ASSUME TypeOK, Own, Mapped, [Next]_vars, NEW c \in Conns, wk_uid'[c] # wk_uid[c]
  PROVE  Passed(c) /\ Unserved(c)'
<1>1. PICK w \in Workers :
        /\ handler_ioevent(w) /\ w_evs[w] # <<>>
        /\ w_evs' = [w_evs EXCEPT ![w] = Tail(@)] /\ UNCHANGED <<ioevs_in, events_io>>
        /\ 1 \in Connects(w) /\ Queue(w)[1].conn = c /\ Queue(w)[1].fd = sfd[c]
        /\ sfd[c] \in Fds /\ openfd[sfd[c]] = c
  BY Connecting
<1>2. Passed(c)
  BY <1>1 DEF Passed
<1>3. ASSUME NEW v \in Workers, NEW i \in Connects(v)', Queue(v)'[i].conn = c
      PROVE  FALSE
  <2>1. PICK n : n = IF v = w THEN 1 ELSE 0
    OBVIOUS
  <2>2. /\ i \in Nat /\ i + n \in Connects(v) /\ Queue(v)'[i] = Queue(v)[i + n]
        /\ v = w => i # 0
    BY <1>1, <2>1, QueuesShift
  <2>3. PICK k \in Connects(v) : k = i + n
    BY <2>2
  <2>4. Queue(v)[k].conn = c
    BY <1>3, <2>2, <2>3
  <2>5. Queue(v)[k].fd \in Fds /\ c # NoConn
    BY <2>4, ConnectType, UserManagerAssumption
  <2>6. openfd[Queue(v)[k].fd] = c
    BY <2>4 DEF Own, QueuesOwn
  <2>7. sfd[c] = Queue(v)[k].fd
    BY <2>5, <2>6 DEF Own, IOOwns
  <2>8. v = w /\ k = 1
    BY <1>1, <2>7 DEF Own, QueuesOwn
  <2> QED BY <2>1, <2>2, <2>3, <2>8
<1>4. ~Passed(c)'
  BY <1>3 DEF Passed
<1>5. ~Unlogged(c)' /\ sfd'[c] # 0
  <2>1. ~Unlogged(c)
    BY <1>2, PassedOwn, UnloggedOwn
  <2>2. UNCHANGED <<unlogin_users, sfd>>
    BY <1>1 DEF handler_ioevent, ioVars
  <2> QED BY <1>1, <2>1, <2>2, UserManagerAssumption DEF Unlogged
<1> QED BY <1>2, <1>4, <1>5 DEF Unserved

(* The Logic is served as nobody.                                          *)
LEMMA LogicNobody ==
  ASSUME TypeOK, Own, Mapped, LogicStays, [Next]_vars
  PROVE  wk_uid'[Logic] = wk_uid[Logic]
<1> SUFFICES ASSUME wk_uid'[Logic] # wk_uid[Logic] PROVE FALSE
  OBVIOUS
<1>1. PICK w \in Workers : w_pc[w] = "connect" /\ \A v \in Workers : sfd[Logic] \notin ep[v]
  BY GateLogicAssumption, Connecting
<1>2. LogicHeld(w)
  BY <1>1 DEF Own, UsersOwn, LogicStays
<1> QED BY <1>1, <1>2 DEF LogicHeld

(* A worker reads from those it serves.                                    *)
LEMMA EpeventUnserved ==
  ASSUME TypeOK, Own, NEW w \in Workers, NEW c \in epev_users[w], handler_epevent(w, c),
         Unserved(c)
  PROVE  Unserved(c)'
<1>0. [Next]_vars
  BY DEF Next, WorkerNext
<1>1. c \in Conns /\ sfd[c] \in Fds
  BY WorkerHas, AcceptedHas
<1>2. sfd[c] \in ep[w]
  BY DEF Own, UsersOwn
<1>3. sfd[c] \notin epio
  BY <1>2 DEF Own, WatchersOwn
<1>4. ~Unlogged(c) /\ ~Passed(c)
  BY <1>1, <1>2, <1>3, PassedOwn, UnloggedOwn
<1> QED BY <1>0, <1>1, <1>4, NotWaiting, UserManagerAssumption

LEMMA EpdataUnserved ==
  ASSUME TypeOK, Own, NEW w \in Workers, NEW i \in DOMAIN rd_users[w], handler_epdata(w, i),
         NEW c \in Conns, c = rd_users[w][i], Unserved(c)
  PROVE  Unserved(c)'
<1>0. [Next]_vars
  BY DEF Next, WorkerNext
<1>1. wk_rd[c] # <<>>
  BY DEF handler_epdata, NextToParse, HasFrames
<1>2. sfd[c] # 0 /\ ~Unlogged(c) /\ ~Passed(c)
  BY <1>1 DEF Unserved, Fresh
<1> QED BY <1>0, <1>2, NotWaiting

(* What a step does to one connection.                                     *)
ConnStep(c) ==
  \/ /\ Untouched(c)
     /\ \/ io_rd'[c] = io_rd[c]
        \/ \E i \in DOMAIN unlogin_reads : handler_unlogin_msg(i) /\ c = unlogin_reads[i]
  \/ handler_data /\ c \in unlogin_events
  \/ wk_uid'[c] # wk_uid[c]
  \/ \E w \in Workers :
       \/ c \in epev_users[w] /\ handler_epevent(w, c)
       \/ \E i \in DOMAIN rd_users[w] : handler_epdata(w, i) /\ c = rd_users[w][i]

LEMMA StillConn ==
  ASSUME GotSaid, UNCHANGED <<said, got, wk_uid, wk_rd, io_rd>>, NEW c \in Conns
  PROVE  ConnStep(c)
<1>1. NoneRead(c)
  BY NothingRead
<1> QED BY <1>1 DEF ConnStep, Untouched, NoneRead

LEMMA IOConnStep ==
  ASSUME TypeOK, Own, GotSaid, IONext, NEW c \in Conns
  PROVE  ConnStep(c)
<1>1. CASE epoll_one \/ handler_reply \/ notify_workers
  <2>1. UNCHANGED <<said, got, wk_uid, wk_rd, io_rd>>
    BY <1>1 DEF epoll_one, handler_reply, notify_workers, netVars, workVars
  <2> QED BY <2>1, StillConn
<1>2. CASE handler_data /\ c \notin unlogin_events
  <2>1. PICK F : F = {sfd[d] : d \in unlogin_events}
    OBVIOUS
  <2>2. /\ UNCHANGED <<said, wk_uid, wk_rd>> /\ DrainedBy(F)
        /\ io_rd'[c] = io_rd[c]
    BY <1>2, <2>1 DEF handler_data, workVars
  <2>3. ~(\E f \in F : openfd[f] = c)
    <3> SUFFICES ASSUME NEW d \in unlogin_events, openfd[sfd[d]] = c PROVE FALSE
      BY <2>1
    <3>1. d \in Accepted
      BY DEF TypeOK, IOTypeOK
    <3>2. sfd[d] \in Fds /\ unlogin_users[sfd[d]] = d /\ d # NoConn
      BY <3>1, AcceptedHas DEF Own, ListsFresh
    <3>3. openfd[sfd[d]] = d
      BY <3>2 DEF Own, IOOwns
    <3> QED BY <1>2, <3>3
  <2>4. NoneRead(c)
    BY <2>2, <2>3, ReadsAll
  <2> QED BY <2>2, <2>4 DEF ConnStep, Untouched, NoneRead
<1>3. CASE handler_data /\ c \in unlogin_events
  BY <1>3 DEF ConnStep
<1>4. ASSUME NEW i \in DOMAIN unlogin_reads, handler_unlogin_msg(i) PROVE ConnStep(c)
  <2>1. UNCHANGED <<said, got, wk_uid, wk_rd>>
    BY <1>4 DEF handler_unlogin_msg, workVars
  <2>2. NoneRead(c)
    BY <2>1, NothingRead
  <2>3. io_rd'[c] = io_rd[c] \/ c = unlogin_reads[i]
    <3>1. PICK d : d = unlogin_reads[i]
      OBVIOUS
    <3>2. PICK k \in Stops(io_rd[d]) : io_rd' = [io_rd EXCEPT ![d] = Unparsed(io_rd[d], k)]
      BY <1>4, <3>1 DEF handler_unlogin_msg
    <3> QED BY <3>1, <3>2 DEF TypeOK, IOTypeOK
  <2> QED BY <1>4, <2>1, <2>2, <2>3 DEF ConnStep, Untouched, NoneRead
<1> QED BY <1>1, <1>2, <1>3, <1>4 DEF IONext

LEMMA WorkerConnStep ==
  ASSUME TypeOK, Own, GotSaid, NEW w \in Workers, WorkerNext(w), NEW c \in Conns
  PROVE  ConnStep(c)
<1>1. CASE take_ioevents(w) \/ epoll_wait(w) \/ worker_conn_offline(w) \/ handler_msgs(w)
  <2>1. UNCHANGED <<said, got, wk_uid, wk_rd, io_rd>>
    BY <1>1 DEF take_ioevents, epoll_wait, worker_conn_offline, handler_msgs, netVars, ioVars
  <2> QED BY <2>1, StillConn
<1>2. CASE handler_ioevent(w)
  <2>1. UNCHANGED <<said, got, wk_rd, io_rd>>
    BY <1>2 DEF handler_ioevent, ioVars
  <2>2. NoneRead(c)
    BY <2>1, NothingRead
  <2> QED BY <2>1, <2>2 DEF ConnStep, Untouched, NoneRead
<1>3. ASSUME NEW d \in epev_users[w], handler_epevent(w, d), c # d PROVE ConnStep(c)
  <2>1. PICK F : F = {sfd[d]}
    OBVIOUS
  <2>2. /\ UNCHANGED <<said, wk_uid, io_rd>> /\ DrainedBy(F)
        /\ wk_rd'[c] = wk_rd[c]
    BY <1>3, <2>1 DEF handler_epevent, ioVars, TypeOK, WorkerTypeOK
  <2>3. openfd[sfd[d]] = d
    BY DEF Own, UsersOwn
  <2>4. NoneRead(c)
    BY <1>3, <2>1, <2>2, <2>3, ReadsAll
  <2> QED BY <2>2, <2>4 DEF ConnStep, Untouched, NoneRead
<1>4. ASSUME NEW i \in DOMAIN rd_users[w], handler_epdata(w, i), c # rd_users[w][i]
      PROVE  ConnStep(c)
  <2>1. UNCHANGED <<said, got, wk_uid, io_rd>>
    BY <1>4 DEF handler_epdata, netVars, ioVars
  <2>2. NoneRead(c)
    BY <2>1, NothingRead
  <2>3. wk_rd'[c] = wk_rd[c]
    BY <1>4 DEF handler_epdata, TypeOK, WorkerTypeOK
  <2> QED BY <2>1, <2>2, <2>3 DEF ConnStep, Untouched, NoneRead
<1>5. ASSUME c \in epev_users[w], handler_epevent(w, c) PROVE ConnStep(c)
  BY <1>5 DEF ConnStep
<1>6. ASSUME NEW i \in DOMAIN rd_users[w], handler_epdata(w, i), c = rd_users[w][i]
      PROVE  ConnStep(c)
  BY <1>6 DEF ConnStep
<1> QED BY <1>1, <1>2, <1>3, <1>4, <1>5, <1>6 DEF WorkerNext

LEMMA PeerConnStep ==
  ASSUME TypeOK, GotSaid, PeerNext, NEW c \in Conns
  PROVE  ConnStep(c)
<1>1. UNCHANGED <<got, wk_uid, wk_rd, io_rd>>
  BY DEF PeerNext, Connect, Send, PeerClose, ioVars, workVars
<1>2. CASE said' = said
  BY <1>1, <1>2, StillConn
<1>3. ASSUME NEW d \in Conns, NEW m \in ClientFrames[d], Send(d, m) PROVE ConnStep(c)
  <2>1. m \in Msg
    BY GateAssumption
  <2>2. said' = [said EXCEPT ![d] = Append(@, m)]
    BY <1>3 DEF Send
  <2>3. OneSaid(d, m) /\ \A e \in Conns \ {d} : NoneRead(e)
    BY <1>1, <2>1, <2>2, SaysMore
  <2>4. Read'[c] = Read[c]
    BY <2>3 DEF OneSaid, NoneRead
  <2> QED BY <1>1, <2>4 DEF ConnStep, Untouched
<1> QED BY <1>2, <1>3 DEF PeerNext, Connect, PeerClose

LEMMA ConnSteps ==
  ASSUME TypeOK, Own, GotSaid, [Next]_vars, NEW c \in Conns
  PROVE  ConnStep(c)
<1>1. CASE UNCHANGED vars
  <2>1. UNCHANGED <<said, got, wk_uid, wk_rd, io_rd>>
    BY <1>1 DEF vars, netVars, ioVars, workVars
  <2> QED BY <2>1, StillConn
<1> QED BY <1>1, IOConnStep, WorkerConnStep, PeerConnStep DEF Next

LEMMA NextUnserved ==
  ASSUME LogicInv, GotSaid, UnservedSilent, [GateLogicNext]_allVars
  PROVE  UnservedSilent'
<1>0. /\ TypeOK /\ Own /\ Mapped /\ LogicStays /\ ServiceTypeOK
      /\ \A c \in Conns : Unserved(c)
  BY DEF LogicInv, GateInv, UnservedSilent
<1>1. ASSUME [Next]_vars, NEW c \in Conns PROVE Unserved(c)'
  <2>1. ConnStep(c)
    BY <1>0, <1>1, ConnSteps
  <2>2. CASE Untouched(c) /\ io_rd'[c] = io_rd[c]
    <3>1. sfd'[c] = 0 => sfd[c] = 0
      BY <1>0, <1>1, NumbersStay DEF Accepted
    <3>2. /\ Unlogged(c)' => Unlogged(c) \/ sfd[c] = 0
          /\ Passed(c)' => Passed(c) \/ (Unlogged(c) /\ io_rd[c] = <<>>)
          /\ c \in Elements(unlogin_reads) => c \in Elements(unlogin_reads)'
      BY <1>0, <1>1, UnloggedSteps, PassedSteps, ReadsListed
    <3> QED BY <1>0, <2>2, <3>1, <3>2, UnservedStill
  <2>3. CASE handler_data /\ c \in unlogin_events
    BY <1>0, <2>3, DataUnserved
  <2>4. ASSUME NEW i \in DOMAIN unlogin_reads, handler_unlogin_msg(i), c = unlogin_reads[i]
        PROVE  Unserved(c)'
    BY <1>0, <2>4, MsgUnserved
  <2>5. CASE wk_uid'[c] # wk_uid[c]
    BY <1>0, <1>1, <2>5, ConnectUnserved
  <2>6. ASSUME NEW w \in Workers, c \in epev_users[w], handler_epevent(w, c)
        PROVE  Unserved(c)'
    BY <1>0, <2>6, EpeventUnserved
  <2>7. ASSUME NEW w \in Workers, NEW i \in DOMAIN rd_users[w], handler_epdata(w, i),
               c = rd_users[w][i]
        PROVE  Unserved(c)'
    BY <1>0, <2>7, EpdataUnserved
  <2> QED BY <2>1, <2>2, <2>3, <2>4, <2>5, <2>6, <2>7 DEF ConnStep
<1>2. ASSUME LogicSends, NEW c \in Conns PROVE Unserved(c)'
  <2>1. /\ UNCHANGED <<got, sfd, unlogin_users, unlogin_reads, io_rd, w_evs, ioevs_in,
                       events_io, wk_uid, wk_rd>>
    BY <1>2 DEF LogicSends, ioVars, queueVars, workVars
  <2>2. PICK m \in Msg : said' = [said EXCEPT ![Logic] = Append(@, m)]
    BY <1>0, <1>2, AnswerSaid DEF LogicSends, AnswerFrame
  <2>3. OneSaid(Logic, m) /\ \A e \in Conns \ {Logic} : NoneRead(e)
    BY <1>0, <2>1, <2>2, SaysMore, GateLogicAssumption
  <2>4. Read'[c] = Read[c]
    BY <2>3 DEF OneSaid, NoneRead
  <2>5. /\ Unlogged(c)' => Unlogged(c)
        /\ Passed(c)' => Passed(c)
        /\ c \in Elements(unlogin_reads) => c \in Elements(unlogin_reads)'
    BY <2>1 DEF Unlogged, Passed, Connects, Queue, Elements
  <2> QED BY <1>0, <2>1, <2>4, <2>5, UnservedStill DEF Untouched
<1>3. wk_uid'[Logic] = wk_uid[Logic]
  <2>1. CASE LogicSends
    BY <2>1 DEF LogicSends, workVars
  <2> QED BY <1>0, <2>1, LogicNobody, StepKinds
<1> QED BY <1>1, <1>2, <1>3, StepKinds DEF UnservedSilent

LEMMA InitUnserved ==
  ASSUME GateLogicInit
  PROVE  UnservedSilent
<1>1. NetInit /\ IOInit /\ WorkerInit
  BY DEF GateLogicInit, Init
<1>2. wk_uid[Logic] = 0
  BY <1>1, GateLogicAssumption DEF WorkerInit
<1>3. ASSUME NEW c \in Conns PROVE Unserved(c)
  <2>1. Fresh(c) /\ io_rd[c] = <<>>
    BY <1>1 DEF WorkerInit, IOInit, Fresh
  <2>2. Read[c] = <<>>
    <3>1. said[c] = <<>> /\ got[c] = 0
      BY <1>1 DEF NetInit
    <3> QED BY <3>1 DEF Read
  <2>3. ~Unlogged(c)
    BY <1>1, UserManagerAssumption DEF IOInit, Unlogged
  <2>4. ~Passed(c)
    <3>1. ASSUME NEW w \in Workers PROVE Queue(w) = <<>>
      BY <1>1 DEF WorkerInit, Queue
    <3>2. \A w \in Workers : Connects(w) = {}
      BY <3>1 DEF Connects
    <3> QED BY <3>2 DEF Passed
  <2> QED BY <2>1, <2>2, <2>3, <2>4 DEF Unserved
<1> QED BY <1>2, <1>3 DEF UnservedSilent

-----------------------------------------------------------------------------
(* The messages of a user: what was read from those served as him, and     *)
(* what of it waits in a worker.                                           *)
ReadAs(u) == [c \in Conns |-> IF wk_uid[c] = u THEN Read[c] ELSE <<>>]
LeftAs(u) == [c \in Conns |-> IF wk_uid[c] = u THEN wk_rd[c] ELSE <<>>]

Balance(u) ==
  CountAll("dosth", u, ReadAs(u), Conns)
    = Telling("dosth", u) + CountAll("dosth", u, LeftAs(u), Conns)
Balanced == \A u \in Uids : Balance(u)

(* To count in some sequences is to take the others for empty.             *)
LEMMA CountMasked ==
  ASSUME NEW S, NEW A, A \subseteq S, NEW q, NEW r,
         \A x \in S : r[x] = IF x \in A THEN q[x] ELSE <<>>, NEW kind, NEW u
  PROVE  CountAll(kind, u, q, A) = CountAll(kind, u, r, S)
<1>1. ASSUME NEW p \in Places(r, S) PROVE p \in Places(q, A)
  <2>1. PICK x \in S : p \in {x} \X (DOMAIN r[x])
    BY DEF Places
  <2>2. x \in A
    <3> SUFFICES ASSUME x \notin A PROVE FALSE
      OBVIOUS
    <3>1. r[x] = <<>>
      OBVIOUS
    <3>2. DOMAIN r[x] = {}
      BY <3>1
    <3> QED BY <2>1, <3>2
  <2>3. r[x] = q[x]
    BY <2>2
  <2> QED BY <2>1, <2>2, <2>3 DEF Places
<1>2. ASSUME NEW p \in Places(q, A) PROVE p \in Places(r, S) /\ q[p[1]] = r[p[1]]
  <2>1. PICK x \in A : p \in {x} \X (DOMAIN q[x])
    BY DEF Places
  <2>2. x \in S /\ r[x] = q[x]
    OBVIOUS
  <2>3. p[1] = x
    BY <2>1
  <2> QED BY <2>1, <2>2, <2>3 DEF Places
<1>3. Places(q, A) = Places(r, S)
  BY <1>1, <1>2
<1> QED BY <1>2, <1>3 DEF CountAll

AsTypeOK ==
  \A u \in Uids :
    /\ \A c \in Conns : ReadAs(u)[c] \in Seq(Msg) /\ LeftAs(u)[c] \in Seq(Msg)
    /\ Telling("dosth", u) \in Nat

LEMMA AsTyped == TypeOK /\ GotSaid /\ ServiceTypeOK => AsTypeOK
<1> SUFFICES ASSUME TypeOK, GotSaid, ServiceTypeOK, NEW u \in Uids
             PROVE  /\ \A c \in Conns : ReadAs(u)[c] \in Seq(Msg) /\ LeftAs(u)[c] \in Seq(Msg)
                    /\ Telling("dosth", u) \in Nat
  BY DEF AsTypeOK
<1>1. ASSUME NEW c \in Conns
      PROVE  ReadAs(u)[c] \in Seq(Msg) /\ LeftAs(u)[c] \in Seq(Msg)
  <2>1. Read[c] \in Seq(Msg) /\ wk_rd[c] \in Seq(Msg) /\ <<>> \in Seq(Msg)
    BY ReadParts, EmptySeq DEF TypeOK, WorkerTypeOK
  <2> QED BY <2>1 DEF ReadAs, LeftAs
<1> QED BY <1>1, TellingType

LEMMA AsTypedNext == (TypeOK /\ GotSaid /\ ServiceTypeOK)' => AsTypeOK'
BY AsTyped, PTL

(* What a step leaves of the user's.                                       *)
AsSame(u, c) == ReadAs(u)'[c] = ReadAs(u)[c] /\ LeftAs(u)'[c] = LeftAs(u)[c]

LEMMA UntouchedAs ==
  ASSUME NEW u, NEW c \in Conns, Untouched(c)
  PROVE  AsSame(u, c)
BY DEF Untouched, AsSame, ReadAs, LeftAs

LEMMA OthersAs ==
  ASSUME NEW u, NEW c \in Conns, wk_uid[c] # u, wk_uid'[c] # u
  PROVE  AsSame(u, c)
BY DEF AsSame, ReadAs, LeftAs

(* A step changes what is read of one connection of the user's, what is    *)
(* left of it and what is told, by numbers that agree.                     *)
LEMMA BalanceKept ==
  ASSUME AsTypeOK, AsTypeOK', NEW u \in Uids, Balance(u),
         NEW c \in Conns, \A d \in Conns \ {c} : AsSame(u, d),
         Count("dosth", u, ReadAs(u)'[c]) + Telling("dosth", u) + Count("dosth", u, LeftAs(u)[c])
           = Count("dosth", u, ReadAs(u)[c]) + Telling("dosth", u)'
               + Count("dosth", u, LeftAs(u)'[c])
  PROVE  Balance(u)'
<1>1. PICK q, r, q1, r1 : /\ q = ReadAs(u) /\ r = LeftAs(u)
                          /\ q1 = ReadAs(u)' /\ r1 = LeftAs(u)'
  OBVIOUS
<1>2. (\A d \in Conns : q[d] \in Seq(Msg)) /\ (\A d \in Conns : r[d] \in Seq(Msg))
  BY <1>1 DEF AsTypeOK
<1>3. (\A d \in Conns : q1[d] \in Seq(Msg)) /\ (\A d \in Conns : r1[d] \in Seq(Msg))
  BY <1>1 DEF AsTypeOK
<1>4. (\A d \in Conns \ {c} : q1[d] = q[d]) /\ (\A d \in Conns \ {c} : r1[d] = r[d])
  BY <1>1 DEF AsSame
<1>5. /\ CountAll("dosth", u, q, Conns)
           = Count("dosth", u, q[c]) + CountAll("dosth", u, q, Conns \ {c})
      /\ CountAll("dosth", u, q1, Conns)
           = Count("dosth", u, q1[c]) + CountAll("dosth", u, q, Conns \ {c})
      /\ CountAll("dosth", u, q, Conns \ {c}) \in Nat
  <2>1. /\ IsFiniteSet(Conns)
        /\ \A d \in Conns : q[d] \in Seq(Msg)
        /\ \A d \in Conns : q1[d] \in Seq(Msg)
        /\ \A d \in Conns \ {c} : q1[d] = q[d]
    BY <1>2, <1>3, <1>4, GateAssumption
  <2> QED BY <2>1, CountChanged
<1>6. /\ CountAll("dosth", u, r, Conns)
           = Count("dosth", u, r[c]) + CountAll("dosth", u, r, Conns \ {c})
      /\ CountAll("dosth", u, r1, Conns)
           = Count("dosth", u, r1[c]) + CountAll("dosth", u, r, Conns \ {c})
      /\ CountAll("dosth", u, r, Conns \ {c}) \in Nat
  <2>1. /\ IsFiniteSet(Conns)
        /\ \A d \in Conns : r[d] \in Seq(Msg)
        /\ \A d \in Conns : r1[d] \in Seq(Msg)
        /\ \A d \in Conns \ {c} : r1[d] = r[d]
    BY <1>2, <1>3, <1>4, GateAssumption
  <2> QED BY <2>1, CountChanged
<1>7. /\ Count("dosth", u, q[c]) \in Nat /\ Count("dosth", u, q1[c]) \in Nat
      /\ Count("dosth", u, r[c]) \in Nat /\ Count("dosth", u, r1[c]) \in Nat
  BY <1>2, <1>3, CountType
<1>8. Telling("dosth", u) \in Nat /\ Telling("dosth", u)' \in Nat
  BY DEF AsTypeOK
<1>9. PICK t, t1 : t = Telling("dosth", u) /\ t1 = Telling("dosth", u)'
  OBVIOUS
<1>10. CountAll("dosth", u, q, Conns) = t + CountAll("dosth", u, r, Conns)
  BY <1>1, <1>9 DEF Balance
<1>11. Count("dosth", u, q1[c]) + t + Count("dosth", u, r[c])
         = Count("dosth", u, q[c]) + t1 + Count("dosth", u, r1[c])
  BY <1>1, <1>9
<1>12. CountAll("dosth", u, q1, Conns) = t1 + CountAll("dosth", u, r1, Conns)
  BY <1>5, <1>6, <1>7, <1>8, <1>9, <1>10, <1>11
<1> QED BY <1>1, <1>9, <1>12 DEF Balance

LEMMA BalanceStill ==
  ASSUME AsTypeOK, AsTypeOK', NEW u \in Uids, Balance(u), \A c \in Conns : AsSame(u, c),
         Telling("dosth", u)' = Telling("dosth", u)
  PROVE  Balance(u)'
<1>1. AsSame(u, Logic)
  BY GateLogicAssumption
<1>2. \A d \in Conns \ {Logic} : AsSame(u, d)
  OBVIOUS
<1>3. /\ Count("dosth", u, ReadAs(u)[Logic]) \in Nat
      /\ Count("dosth", u, LeftAs(u)[Logic]) \in Nat /\ Telling("dosth", u) \in Nat
  BY CountType, GateLogicAssumption DEF AsTypeOK
<1>4. Count("dosth", u, ReadAs(u)'[Logic]) + Telling("dosth", u) + Count("dosth", u, LeftAs(u)[Logic])
        = Count("dosth", u, ReadAs(u)[Logic]) + Telling("dosth", u)'
            + Count("dosth", u, LeftAs(u)'[Logic])
  BY <1>1, <1>3 DEF AsSame
<1> QED BY <1>2, <1>4, BalanceKept, GateLogicAssumption

(* A message of another kind changes nothing of it.                        *)
LEMMA OtherTold ==
  ASSUME TypeOK, ServiceTypeOK, told' = told, NEW w \in Workers, NEW m \in Msg,
         user_msgs_in' = [user_msgs_in EXCEPT ![w] = Append(@, m)], NEW u \in Uids,
         ~IsOf(m, "dosth", u)
  PROVE  Telling("dosth", u)' = Telling("dosth", u)
<1>1. Telling("dosth", u)' = Telling("dosth", u) + 0
  BY TellingMore
<1> QED BY <1>1, TellingType

LEMMA IoeventTold ==
  ASSUME TypeOK, ServiceTypeOK, told' = told, NEW w \in Workers, handler_ioevent(w),
         NEW u \in Uids
  PROVE  Telling("dosth", u)' = Telling("dosth", u)
<1>1. CASE user_msgs_in' = user_msgs_in
  BY <1>1 DEF Telling
<1>2. CASE on_new_connect(w, Head(w_evs[w]))
  <2>1. w_evs[w] \in Seq(Event) /\ w_evs[w] # <<>>
    BY DEF handler_ioevent, TypeOK, WorkerTypeOK
  <2>2. PICK e : e = Head(w_evs[w])
    OBVIOUS
  <2>3. e \in Event
    BY <2>1, <2>2, HeadTailProperties
  <2>4. PICK m : m = [kind |-> "online", uid |-> e.uid]
    OBVIOUS
  <2>5. m \in Msg /\ m.kind = "online"
    BY <2>3, <2>4 DEF Event, Msg, Kinds
  <2>6. user_msgs_in' = [user_msgs_in EXCEPT ![w] = Append(@, m)]
    BY <1>2, <2>2, <2>4 DEF on_new_connect
  <2> QED BY <2>5, <2>6, OtherTold DEF IsOf
<1> QED BY <1>1, <1>2 DEF handler_ioevent

LEMMA OfflineTold ==
  ASSUME TypeOK, ServiceTypeOK, told' = told, NEW w \in Workers, worker_conn_offline(w),
         NEW u \in Uids
  PROVE  Telling("dosth", u)' = Telling("dosth", u)
<1>1. CASE user_msgs_in' = user_msgs_in
  BY <1>1 DEF Telling
<1>2. CASE user_msgs_in' # user_msgs_in
  <2>1. PICK c : c = closing[w]
    OBVIOUS
  <2>2. c \in Conns
    <3>1. c # NoConn
      BY <2>1 DEF worker_conn_offline
    <3> QED BY <2>1, <3>1, WorkerHas, AcceptedHas
  <2>3. PICK m : m = [kind |-> "offline", uid |-> wk_uid[c]]
    OBVIOUS
  <2>4. m \in Msg /\ m.kind = "offline"
    <3>1. wk_uid[c] \in Uids \cup {0, -1}
      BY <2>2 DEF TypeOK, WorkerTypeOK
    <3> QED BY <2>3, <3>1 DEF Msg, Kinds
  <2>5. user_msgs_in' = [user_msgs_in EXCEPT ![w] = Append(@, m)]
    BY <1>2, <2>1, <2>3 DEF worker_conn_offline
  <2> QED BY <2>4, <2>5, OtherTold DEF IsOf
<1> QED BY <1>1, <1>2

(* A worker reads from a user: what it read is left.                       *)
LEMMA EpeventBalance ==
  ASSUME TypeOK, Own, GotSaid, AsTypeOK, AsTypeOK', NEW u \in Uids, Balance(u),
         UNCHANGED <<told, user_msgs_in>>,
         NEW w \in Workers, NEW c \in epev_users[w], handler_epevent(w, c)
  PROVE  Balance(u)'
<1>1. c \in Conns /\ openfd[sfd[c]] = c /\ c # NoConn
  BY WorkerHas, AcceptedHas DEF Own, UsersOwn
<1>2. PICK n : n = Unread(c)
  OBVIOUS
<1>3. /\ UNCHANGED <<said, wk_uid>> /\ DrainedBy({sfd[c]})
      /\ wk_rd'[c] = wk_rd[c] \o n
      /\ \A d \in Conns \ {c} : wk_rd'[d] = wk_rd[d]
  BY <1>1, <1>2 DEF handler_epevent, ReadFrames, TypeOK, WorkerTypeOK
<1>4. AllRead(c) /\ \A d \in Conns \ {c} : NoneRead(d)
  BY <1>1, <1>3, ReadsAll
<1>5. \A d \in Conns \ {c} : AsSame(u, d)
  BY <1>3, <1>4, UntouchedAs DEF Untouched, NoneRead
<1>6. Telling("dosth", u)' = Telling("dosth", u) /\ Telling("dosth", u) \in Nat
  BY DEF Telling, AsTypeOK
<1>7. PICK a, b : a = ReadAs(u)[c] /\ b = LeftAs(u)[c]
  OBVIOUS
<1>8. a \in Seq(Msg) /\ b \in Seq(Msg) /\ n \in Seq(Msg)
  BY <1>1, <1>2, <1>7, ReadParts DEF AsTypeOK
<1>9. /\ Count("dosth", u, a) \in Nat /\ Count("dosth", u, b) \in Nat
      /\ Count("dosth", u, n) \in Nat
      /\ Count("dosth", u, a \o n) = Count("dosth", u, a) + Count("dosth", u, n)
      /\ Count("dosth", u, b \o n) = Count("dosth", u, b) + Count("dosth", u, n)
  BY <1>8, CountType, CountConcat
<1>10. CASE wk_uid[c] = u
  <2>1. ReadAs(u)'[c] = a \o n /\ LeftAs(u)'[c] = b \o n
    BY <1>1, <1>2, <1>3, <1>4, <1>7, <1>10 DEF ReadAs, LeftAs, AllRead
  <2>2. Count("dosth", u, ReadAs(u)'[c]) + Telling("dosth", u) + Count("dosth", u, LeftAs(u)[c])
          = Count("dosth", u, ReadAs(u)[c]) + Telling("dosth", u)'
              + Count("dosth", u, LeftAs(u)'[c])
    BY <1>6, <1>7, <1>9, <2>1
  <2> QED BY <1>1, <1>5, <2>2, BalanceKept
<1>11. CASE wk_uid[c] # u
  <2>1. \A d \in Conns : AsSame(u, d)
    BY <1>1, <1>3, <1>5, <1>11, OthersAs
  <2> QED BY <1>6, <2>1, BalanceStill
<1> QED BY <1>10, <1>11

(* A worker parses: a message of the user's that is taken from what is     *)
(* left is told to the Logic.                                              *)
LEMMA EpdataBalance ==
  ASSUME TypeOK, Own, ServiceTypeOK, LogicStays, GotSaid, wk_uid[Logic] = 0,
         AsTypeOK, AsTypeOK', NEW u \in Uids, Balance(u), told' = told,
         NEW w \in Workers, NEW i \in DOMAIN rd_users[w], handler_epdata(w, i)
  PROVE  Balance(u)'
<1>1. PICK c : c = rd_users[w][i]
  OBVIOUS
<1>2. c \in Conns
  <2>1. rd_users[w] \in Seq(Accepted)
    BY DEF TypeOK, WorkerTypeOK
  <2> QED BY <1>1, <2>1 DEF Accepted
<1>3. PICK r : r = wk_rd[c]
  OBVIOUS
<1>4. r \in Seq(Msg) /\ r # <<>>
  BY <1>1, <1>2, <1>3 DEF handler_epdata, NextToParse, HasFrames, TypeOK, WorkerTypeOK
<1>5. PICK m \in Msg : m = Head(r)
  BY <1>4, HeadTailProperties
<1>6. /\ UNCHANGED <<said, got, wk_uid>>
      /\ wk_rd'[c] = Tail(r)
      /\ \A d \in Conns \ {c} : wk_rd'[d] = wk_rd[d]
  BY <1>1, <1>2, <1>3 DEF handler_epdata, netVars, TypeOK, WorkerTypeOK
<1>7. \A d \in Conns : NoneRead(d)
  BY <1>6, NothingRead
<1>8. \A d \in Conns \ {c} : AsSame(u, d)
  BY <1>6, <1>7, UntouchedAs DEF Untouched, NoneRead
<1>9. \/ IsSystem(w, c) /\ user_msgs_in' = user_msgs_in
      \/ Forwardable(c, m) /\ user_msgs_in' = [user_msgs_in EXCEPT ![w] = Append(@, m)]
      \/ ~Forwardable(c, m) /\ user_msgs_in' = user_msgs_in
  BY <1>1, <1>3, <1>5 DEF handler_epdata, Forwardable
<1>10. Telling("dosth", u) \in Nat
  BY DEF AsTypeOK
<1>11. CASE wk_uid[c] # u
  <2>1. \A d \in Conns : AsSame(u, d)
    BY <1>6, <1>2, <1>8, <1>11, OthersAs
  <2>2. CASE user_msgs_in' = user_msgs_in
    <3>1. Telling("dosth", u)' = Telling("dosth", u)
      BY <2>2 DEF Telling
    <3> QED BY <2>1, <3>1, BalanceStill
  <2>3. CASE /\ Forwardable(c, m)
             /\ user_msgs_in' = [user_msgs_in EXCEPT ![w] = Append(@, m)]
    <3>1. ~IsOf(m, "dosth", u)
      BY <1>11, <2>3 DEF Forwardable, IsOf
    <3>2. Telling("dosth", u)' = Telling("dosth", u)
      BY <2>3, <3>1, OtherTold
    <3> QED BY <2>1, <3>2, BalanceStill
  <2> QED BY <1>9, <2>2, <2>3
<1>12. CASE wk_uid[c] = u
  <2>1. ~IsSystem(w, c)
    <3>1. u # 0
      BY UserManagerAssumption
    <3>2. logic[w] = Logic
      BY DEF handler_epdata, EventsDone, Own, UsersOwn, LogicStays, LogicHeld
    <3> QED BY <1>12, <3>1, <3>2 DEF IsSystem
  <2>2. PICK n \in Nat : n = IF IsOf(m, "dosth", u) THEN 1 ELSE 0
    OBVIOUS
  <2>3. Telling("dosth", u)' = Telling("dosth", u) + n
    <3>1. CASE user_msgs_in' = user_msgs_in /\ ~Forwardable(c, m)
      <4>1. ~IsOf(m, "dosth", u)
        BY <1>12, <3>1 DEF Forwardable, IsOf
      <4>2. Telling("dosth", u)' = Telling("dosth", u)
        BY <3>1 DEF Telling
      <4> QED BY <1>10, <2>2, <4>1, <4>2
    <3>2. CASE user_msgs_in' = [user_msgs_in EXCEPT ![w] = Append(@, m)]
      BY <2>2, <3>2, TellingMore
    <3> QED BY <1>9, <2>1, <3>1, <3>2
  <2>4. LeftAs(u)[c] = r /\ LeftAs(u)'[c] = Tail(r) /\ ReadAs(u)'[c] = ReadAs(u)[c]
    BY <1>2, <1>3, <1>6, <1>7, <1>12 DEF LeftAs, ReadAs, NoneRead
  <2>5. /\ Count("dosth", u, r) = n + Count("dosth", u, Tail(r))
        /\ Count("dosth", u, Tail(r)) \in Nat
    <3>1. Tail(r) \in Seq(Msg)
      BY <1>4, HeadTailProperties
    <3>2. Count("dosth", u, r)
            = (IF IsOf(Head(r), "dosth", u) THEN 1 ELSE 0) + Count("dosth", u, Tail(r))
      BY <1>4, CountTail
    <3> QED BY <1>5, <2>2, <3>1, <3>2, CountType
  <2>6. Count("dosth", u, ReadAs(u)[c]) \in Nat
    <3>1. ReadAs(u)[c] \in Seq(Msg)
      BY <1>2 DEF AsTypeOK
    <3> QED BY <3>1, CountType
  <2>7. Count("dosth", u, ReadAs(u)'[c]) + Telling("dosth", u) + Count("dosth", u, LeftAs(u)[c])
          = Count("dosth", u, ReadAs(u)[c]) + Telling("dosth", u)'
              + Count("dosth", u, LeftAs(u)'[c])
    BY <1>10, <2>3, <2>4, <2>5, <2>6
  <2> QED BY <1>2, <1>8, <2>7, BalanceKept
<1> QED BY <1>11, <1>12

LEMMA CountSilent ==
  ASSUME NEW s, Silent(s), NEW u
  PROVE  Count("dosth", u, s) = 0
<1>1. {i \in DOMAIN s : IsOf(s[i], "dosth", u)} = {}
  BY DEF Silent, IsOf
<1> QED BY <1>1, FS_EmptySet DEF Count

(* A worker takes over a connection nothing was said on yet.               *)
LEMMA ConnectBalance ==
  ASSUME TypeOK, Own, Mapped, ServiceTypeOK, GotSaid, UnservedSilent, AsTypeOK, AsTypeOK',
         NEW u \in Uids, Balance(u), told' = told, [Next]_vars,
         NEW c \in Conns, wk_uid'[c] # wk_uid[c]
  PROVE  Balance(u)'
<1>1. PICK w \in Workers :
        handler_ioevent(w) /\ \A d \in Conns \ {c} : wk_uid'[d] = wk_uid[d]
  BY Connecting
<1>2. UNCHANGED <<said, got, wk_rd>>
  BY <1>1 DEF handler_ioevent
<1>3. \A d \in Conns : NoneRead(d)
  BY <1>2, NothingRead
<1>4. \A d \in Conns \ {c} : AsSame(u, d)
  BY <1>1, <1>2, <1>3, UntouchedAs DEF Untouched, NoneRead
<1>5. Telling("dosth", u)' = Telling("dosth", u) /\ Telling("dosth", u) \in Nat
  BY <1>1, IoeventTold DEF AsTypeOK
<1>6. Fresh(c) /\ Silent(Read[c]) /\ u # 0
  BY ConnectUnserved, UserManagerAssumption DEF UnservedSilent, Unserved
<1>7. /\ ReadAs(u)[c] = <<>> /\ LeftAs(u)[c] = <<>> /\ LeftAs(u)'[c] = <<>>
      /\ ReadAs(u)'[c] \in {Read[c], <<>>}
  BY <1>2, <1>3, <1>6 DEF ReadAs, LeftAs, Fresh, NoneRead
<1>8. Count("dosth", u, <<>>) = 0 /\ Count("dosth", u, Read[c]) = 0
  BY <1>6, CountEmpty, CountSilent
<1>9. Count("dosth", u, ReadAs(u)'[c]) + Telling("dosth", u) + Count("dosth", u, LeftAs(u)[c])
        = Count("dosth", u, ReadAs(u)[c]) + Telling("dosth", u)'
            + Count("dosth", u, LeftAs(u)'[c])
  BY <1>5, <1>7, <1>8
<1> QED BY <1>4, <1>9, BalanceKept

(* The rest changes neither what is read as a user nor what is told.       *)
LEMMA NextBalance ==
  ASSUME LogicInv, GotSaid, UnservedSilent, AsTypeOK, AsTypeOK', Balanced,
         [GateLogicNext]_allVars
  PROVE  Balanced'
<1>0. /\ TypeOK /\ Own /\ Mapped /\ LogicStays /\ ServiceTypeOK /\ wk_uid[Logic] = 0
      /\ \A c \in Conns : Unserved(c)
  BY DEF LogicInv, GateInv, UnservedSilent
<1> SUFFICES ASSUME NEW u \in Uids PROVE Balance(u)'
  BY DEF Balanced
<1>1. Balance(u)
  BY DEF Balanced
<1>2. CASE LogicSends
  <2>1. UNCHANGED <<got, wk_uid, wk_rd, user_msgs_in, told>>
    BY <1>2 DEF LogicSends, workVars
  <2>2. PICK m \in Msg : said' = [said EXCEPT ![Logic] = Append(@, m)]
    BY <1>0, <1>2, AnswerSaid DEF LogicSends, AnswerFrame
  <2>3. OneSaid(Logic, m) /\ \A e \in Conns \ {Logic} : NoneRead(e)
    BY <1>0, <2>1, <2>2, SaysMore, GateLogicAssumption
  <2>4. \A c \in Conns : AsSame(u, c)
    BY <2>1, <2>3, UntouchedAs DEF OneSaid, NoneRead, Untouched
  <2>5. Telling("dosth", u)' = Telling("dosth", u)
    BY <2>1 DEF Telling
  <2> QED BY <1>1, <2>4, <2>5, BalanceStill
<1>3. CASE [Next]_vars
  <2>1. \A c \in Conns : ConnStep(c)
    BY <1>0, <1>3, ConnSteps
  <2>2. ASSUME NEW w \in Workers, NEW c \in epev_users[w], handler_epevent(w, c)
        PROVE  Balance(u)'
    <3>1. user_msgs_in' = user_msgs_in
      BY <2>2 DEF handler_epevent
    <3>2. UNCHANGED <<told, user_msgs_in>>
      <4>1. ASSUME NEW v \in Workers, handler_msgs(v) PROVE FALSE
        <5>1. epev_users' = [epev_users EXCEPT ![w] = @ \ {c}]
          BY <2>2 DEF handler_epevent
        <5>2. epev_users' = epev_users
          BY <4>1 DEF handler_msgs
        <5> QED BY <1>0, <5>1, <5>2 DEF TypeOK, WorkerTypeOK
      <4>2. \A v \in Workers : ~WriteMsgs(v)
        BY <4>1 DEF WriteMsgs
      <4> QED BY <3>1, <4>2, TellingSteps
    <3> QED BY <1>0, <1>1, <2>1, <2>2, <3>2, EpeventBalance
  <2>3. ASSUME NEW w \in Workers, NEW i \in DOMAIN rd_users[w], handler_epdata(w, i)
        PROVE  Balance(u)'
    <3>1. told' = told
      <4>1. wk_rd' # wk_rd
        <5>1. PICK c : c = rd_users[w][i]
          OBVIOUS
        <5>2. c \in Conns
          <6>1. rd_users[w] \in Seq(Accepted)
            BY <1>0 DEF TypeOK, WorkerTypeOK
          <6> QED BY <5>1, <6>1 DEF Accepted
        <5>3. wk_rd[c] \in Seq(Msg) /\ wk_rd[c] # <<>> /\ wk_rd'[c] = Tail(wk_rd[c])
          BY <1>0, <2>3, <5>1, <5>2
             DEF handler_epdata, NextToParse, HasFrames, TypeOK, WorkerTypeOK
        <5>4. Len(Tail(wk_rd[c])) # Len(wk_rd[c])
          BY <5>3, HeadTailProperties, LenProperties
        <5> QED BY <5>3, <5>4
      <4>2. \A v \in Workers : ~WriteMsgs(v)
        BY <4>1 DEF WriteMsgs, handler_msgs
      <4> QED BY <4>2, TellingSteps
    <3> QED BY <1>0, <1>1, <2>3, <3>1, EpdataBalance
  <2>4. ASSUME NEW c \in Conns, wk_uid'[c] # wk_uid[c] PROVE Balance(u)'
    <3>1. told' = told
      <4>1. \A v \in Workers : ~WriteMsgs(v)
        BY <2>4 DEF WriteMsgs, handler_msgs
      <4> QED BY <4>1, TellingSteps
    <3> QED BY <1>0, <1>1, <1>3, <2>4, <3>1, ConnectBalance
  <2>5. CASE /\ \A c \in Conns : Untouched(c) \/ (handler_data /\ c \in unlogin_events)
             /\ \A w \in Workers : \A i \in DOMAIN rd_users[w] : ~handler_epdata(w, i)
    <3>1. ASSUME NEW c \in Conns PROVE AsSame(u, c)
      <4>1. CASE handler_data /\ c \in unlogin_events
        <5>1. Unlogged(c) /\ wk_uid' = wk_uid
          BY <1>0, <4>1, DataUnserved DEF handler_data, workVars
        <5>2. wk_uid[c] = 0 /\ u # 0
          BY <1>0, <5>1, UserManagerAssumption DEF Unserved, Fresh
        <5> QED BY <5>1, <5>2, OthersAs
      <4> QED BY <2>5, <4>1, UntouchedAs
    <3>2. Telling("dosth", u)' = Telling("dosth", u)
      <4>1. CASE UNCHANGED <<user_msgs_in, told>>
        BY <4>1 DEF Telling
      <4>2. ASSUME NEW w \in Workers, WriteMsgs(w)
            PROVE  Telling("dosth", u)' = Telling("dosth", u)
        BY <1>0, <4>2, TellingMoved
      <4>3. ASSUME NEW w \in Workers, told' = told, handler_ioevent(w) \/ worker_conn_offline(w)
            PROVE  Telling("dosth", u)' = Telling("dosth", u)
        BY <1>0, <4>3, IoeventTold, OfflineTold
      <4> QED BY <2>5, <4>1, <4>2, <4>3, TellingSteps
    <3> QED BY <1>1, <3>1, <3>2, BalanceStill
  <2> QED BY <2>1, <2>2, <2>3, <2>4, <2>5 DEF ConnStep
<1> QED BY <1>2, <1>3, StepKinds

LEMMA InitBalance ==
  ASSUME GateLogicInit
  PROVE  Balanced
<1>1. NetInit /\ WorkerInit /\ told = <<>>
  BY DEF GateLogicInit, Init
<1>2. ASSUME NEW u \in Uids PROVE Balance(u)
  <2>1. ASSUME NEW c \in Conns PROVE ReadAs(u)[c] = <<>> /\ LeftAs(u)[c] = <<>>
    <3>1. Read[c] = <<>> /\ wk_rd[c] = <<>>
      <4>1. said[c] = <<>> /\ got[c] = 0 /\ wk_rd[c] = <<>>
        BY <1>1 DEF NetInit, WorkerInit
      <4> QED BY <4>1 DEF Read
    <3> QED BY <3>1 DEF ReadAs, LeftAs
  <2>2. \A w \in Workers : user_msgs_in[w] = <<>>
    BY <1>1 DEF WorkerInit
  <2>3. Telling("dosth", u) = 0
    BY <1>1, <2>2, CountEmpty, CountNone DEF Telling
  <2>4. CountAll("dosth", u, ReadAs(u), Conns) = 0 /\ CountAll("dosth", u, LeftAs(u), Conns) = 0
    BY <2>1, CountNone
  <2> QED BY <2>3, <2>4 DEF Balance
<1> QED BY <1>2 DEF Balanced

(* What has been read of a served user's messages has been told to the     *)
(* Logic once, or waits in the worker: the IO thread closes the number of  *)
(* whoever speaks before he is handed over, and a worker passes on each    *)
(* message it takes from a user's buffer, whatever becomes of the others.  *)
THEOREM MessagesForwardedOnce ==
  ASSUME KnownFrames, OneLogic, UsersSay
  PROVE  GateLogicSpec => []ForwardedOnce
<1>1. LogicInv /\ [GateLogicNext]_allVars => LogicInv'
  BY NextLogicInv
<1>2. LogicInv /\ GotSaid /\ [GateLogicNext]_allVars => GotSaid'
  BY NextGotSaid DEF LogicInv, GateInv
<1>3. LogicInv /\ GotSaid /\ UnservedSilent /\ [GateLogicNext]_allVars => UnservedSilent'
  BY NextUnserved
<1>4. LogicInv /\ GotSaid => AsTypeOK
  BY AsTyped DEF LogicInv, GateInv
<1>5. LogicInv /\ GotSaid /\ UnservedSilent /\ AsTypeOK /\ AsTypeOK' /\ Balanced
        /\ [GateLogicNext]_allVars => Balanced'
  BY NextBalance
<1>6. GateLogicInit => LogicInv /\ GotSaid /\ UnservedSilent /\ Balanced
  <2>1. GateLogicInit => GotSaid
    BY InitAnswers DEF AnswersInv
  <2> QED BY <2>1, InitLogicInv, InitUnserved, InitBalance
<1>7. Balanced => ForwardedOnce
  <2> SUFFICES ASSUME Balanced, NEW u \in Uids,
                      NEW A, A = {c \in Conns : wk_uid[c] = u}
               PROVE  CountAll("dosth", u, Read, A)
                        = Telling("dosth", u) + CountAll("dosth", u, wk_rd, A)
    BY DEF ForwardedOnce
  <2>1. A \subseteq Conns
    OBVIOUS
  <2>2. CountAll("dosth", u, Read, A) = CountAll("dosth", u, ReadAs(u), Conns)
    <3>1. \A c \in Conns : ReadAs(u)[c] = IF c \in A THEN Read[c] ELSE <<>>
      BY DEF ReadAs
    <3> QED BY <2>1, <3>1, CountMasked
  <2>3. CountAll("dosth", u, wk_rd, A) = CountAll("dosth", u, LeftAs(u), Conns)
    <3>1. \A c \in Conns : LeftAs(u)[c] = IF c \in A THEN wk_rd[c] ELSE <<>>
      BY DEF LeftAs
    <3> QED BY <2>1, <3>1, CountMasked
  <2> QED BY <2>2, <2>3 DEF Balanced, Balance
<1> QED BY <1>1, <1>2, <1>3, <1>4, <1>5, <1>6, <1>7, PTL DEF GateLogicSpec
=============================================================================
