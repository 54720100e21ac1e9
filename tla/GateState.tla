------------------------------ MODULE GateState ------------------------------
(***************************************************************************)
(* The state shared by the Gate's threads, and what is outside them: the   *)
(* peers of the connections and the kernel's descriptor table, epoll sets  *)
(* and sockets.                                                            *)
(*                                                                         *)
(* A connection c connects at most once.  sfd[c] is the number accept gave *)
(* it, which the C++ objects made for c keep; openfd says which connection *)
(* a number denotes now, so an object may outlive its connection and its   *)
(* number may come to denote another one.                                  *)
(***************************************************************************)
EXTENDS UserManager, Sequences, FiniteSets

CONSTANTS
  MaxWorkers,    (* bound: the GateWorkers that can be made               *)
  ClientFrames,  (* ClientFrames[c]: the frames the peer of c may send    *)
  MayClose,      (* the connections whose peer may close                  *)
  MaxSend,       (* bound: MaxSend[c] frames from the peer of c           *)
  MaxQueue       (* bound: events waiting for a worker                    *)

Workers == 1 .. MaxWorkers

(* A message: its id (by name) and the user id of its header.  A LoginReq  *)
(* has there the uid its name and password stand for, -1 if they are wrong.*)
Kinds == {"verify", "login", "register", "dosth", "dosthrsp", "online",
          "offline", "unknown", "verifyrsp", "loginok", "loginfail",
          "registerrsp"}
Msg == [kind : Kinds, uid : Uids \cup {0, -1}]

ASSUME GateAssumption ==
  /\ IsFiniteSet(Conns) /\ IsFiniteSet(Fds)
  /\ MaxWorkers \in Nat
  /\ ClientFrames \in [Conns -> SUBSET Msg]
  /\ MayClose \subseteq Conns
  /\ MaxSend \in [Conns -> Nat]
  /\ MaxQueue \in Nat

VARIABLES
  (* peers and kernel                                                      *)
  peer,      (* peer[c]: "new", "open" or "closed"                         *)
  said,      (* said[c]: every frame the peer has sent                     *)
  got,       (* got[c]: how many of them the Gate has read                 *)
  inbox,     (* inbox[c]: the messages written to the peer                 *)
  sfd,       (* sfd[c]: the descriptor accept returned for c, 0 before     *)
  openfd,    (* openfd[f]: the connection f denotes                        *)
  epio,      (* the descriptors in the GateIO's epoll                      *)
  ep,        (* ep[w]: those in worker w's epoll                           *)
  (* GateIO                                                                *)
  io_pc,           (* where the IO thread is in run()                      *)
  unlogin_users,   (* _unlogin_users: descriptor to user                   *)
  unlogin_events,  (* _unlogin_events: in any order                        *)
  unlogin_reads,   (* _unlogin_reads: never cleared                        *)
  io_idx,          (* how far handler_unlogin_msgs is in it                *)
  io_rd,           (* io_rd[c]: _rd_buff of the IO's user for c            *)
  io_uid,          (* io_uid[c]: its _uid                                  *)
  rsp_msgs,        (* _rsp_msgs                                            *)
  (* GateWorkers                                                           *)
  logic,           (* logic[w]: the connection of _logic; NoConn: no w yet *)
  events_io,       (* _events_io, the IO's side of the event queue         *)
  ioevs_in,        (* _ioevs_in, under _cond->_mutex                       *)
  fd_set,          (* _fd_set                                              *)
  w_pc,            (* where the worker is in thread_loop()                 *)
  w_evs,           (* the events handler_ioevent took                      *)
  users,           (* _users                                               *)
  wk_uid,          (* wk_uid[c]: _uid of the worker's user for c           *)
  wk_rd,           (* wk_rd[c]: its _rd_buff                               *)
  epev_users,      (* _epev_users: in any order                            *)
  closing,         (* the user on_conn_offline is about to be called for   *)
  rd_users,        (* _rd_users: never cleared                             *)
  w_idx,           (* how far handler_epdata is in it                      *)
  user_msgs_in,    (* _user_msgs_in                                        *)
  logic_msgs_in    (* _logic_msgs_in                                       *)

netVars  == <<peer, said, got, inbox, sfd, openfd, epio, ep>>
ioVars   == <<io_pc, unlogin_users, unlogin_events, unlogin_reads, io_idx,
              io_rd, io_uid, rsp_msgs>>
queueVars == <<logic, events_io, ioevs_in, fd_set>>
workVars == <<w_pc, w_evs, users, wk_uid, wk_rd, epev_users, closing,
              rd_users, w_idx, user_msgs_in, logic_msgs_in>>
vars == <<netVars, ioVars, queueVars, workVars>>

(* The connections the Gate has accepted: only of these has it objects.    *)
Accepted == {c \in Conns : sfd[c] # 0}
MaybeAccepted == Accepted \cup {NoConn}

(* Events handed to a worker: the connection they were issued for, and     *)
(* what EventNode carries.                                                 *)
Event == [conn : Accepted, fd : Fds, uid : Uids \cup {0, -1},
          what : {"connect", "read"}]
Rsp == [fd : Fds, msg : Msg]
-----------------------------------------------------------------------------
(* Kernel.                                                                 *)
Unread(c) == SubSeq(said[c], got[c] + 1, Len(said[c]))
Readable(f) == /\ openfd[f] # NoConn
               /\ \/ Unread(openfd[f]) # <<>>
                  \/ peer[openfd[f]] = "closed"
Ready(e) == {f \in e : Readable(f)}
Pending == {c \in Conns : peer[c] # "new" /\ sfd[c] = 0}
FreeFds == {f \in Fds : openfd[f] = NoConn}

(* Closing a number takes it out of every epoll set.                       *)
ClosedFds(F) == /\ openfd' = [f \in Fds |-> IF f \in F THEN NoConn
                                                       ELSE openfd[f]]
                /\ epio' = epio \ F
                /\ ep' = [w \in Workers |-> ep[w] \ F]

(* SocketOp::read drains the socket: what it returns, and the frames that  *)
(* reach _rd_buff even when it returns an error because of the end.        *)
ReadError(f) == openfd[f] = NoConn \/ peer[openfd[f]] = "closed"
ReadFrames(f) == IF openfd[f] = NoConn THEN <<>> ELSE Unread(openfd[f])
DrainedBy(F) ==
  got' = [c \in Conns |-> IF \E f \in F : openfd[f] = c THEN Len(said[c])
                                                        ELSE got[c]]

(* SocketOp::write reaches whatever connection the number denotes.         *)
Delivered(f, M) ==
  [c \in Conns |-> IF openfd[f] = c THEN inbox[c] \cup M ELSE inbox[c]]

(* MsgCenter::parse_package stops behind a frame of unknown id, which it    *)
(* consumes, or at the end of the buffer: the one place where it does.     *)
CanGen(m) == m.kind # "unknown"
Stops(b) == {k \in 1 .. Len(b) + 1 :
               /\ k = Len(b) + 1 \/ ~CanGen(b[k])
               /\ \A j \in 1 .. k - 1 : CanGen(b[j])}
Parsed(b, k)   == SubSeq(b, 1, k - 1)
Unparsed(b, k) == SubSeq(b, k + 1, Len(b))

HasFrames(reads, rd, j) == rd[reads[j]] # <<>>

(* mutant: one user is stepped over                                        *)
NextToParseSkipping(reads, rd, i) ==
  {j \in i + 2 .. Len(reads) :
     /\ HasFrames(reads, rd, j)
     /\ \A k \in i + 2 .. j - 1 : ~HasFrames(reads, rd, k)}

(* The next user of a read list with something to parse after position i:  *)
(* parse_package returns nothing for those in between.                     *)
NextToParse(reads, rd, i) ==
  {j \in i + 1 .. Len(reads) :
     /\ HasFrames(reads, rd, j)
     /\ \A k \in i + 1 .. j - 1 : ~HasFrames(reads, rd, k)}

(* The ways to list a set, and its subsets: epoll_wait reports descriptors  *)
(* in no particular order.                                                 *)
Orders(S) == {s \in [1 .. Cardinality(S) -> S] :
                \A i, j \in DOMAIN s : s[i] = s[j] => i = j}
Listings(S) == UNION {Orders(T) : T \in SUBSET S}
Elements(s) == {s[i] : i \in DOMAIN s}
-----------------------------------------------------------------------------
(* Peers.                                                                  *)
ServerClosed(c) == sfd[c] # 0 /\ openfd[sfd[c]] # c

Connect(c) ==
  /\ peer[c] = "new"
  /\ peer' = [peer EXCEPT ![c] = "open"]
  /\ UNCHANGED <<said, got, inbox, sfd, openfd, epio, ep>>
  /\ UNCHANGED <<ioVars, queueVars, workVars>>

Send(c, m) ==
  /\ peer[c] = "open"
  /\ ~ServerClosed(c)
  /\ Len(said[c]) < MaxSend[c]
  /\ said' = [said EXCEPT ![c] = Append(@, m)]
  /\ UNCHANGED <<peer, got, inbox, sfd, openfd, epio, ep>>
  /\ UNCHANGED <<ioVars, queueVars, workVars>>

PeerClose(c) ==
  /\ c \in MayClose
  /\ peer[c] = "open"
  /\ ~ServerClosed(c)
  /\ peer' = [peer EXCEPT ![c] = "closed"]
  /\ UNCHANGED <<said, got, inbox, sfd, openfd, epio, ep>>
  /\ UNCHANGED <<ioVars, queueVars, workVars>>

PeerNext ==
  \/ \E c \in Conns : Connect(c)
  \/ \E c \in Conns : \E m \in ClientFrames[c] : Send(c, m)
  \/ \E c \in MayClose : PeerClose(c)

NetInit ==
  /\ peer = [c \in Conns |-> "new"]
  /\ said = [c \in Conns |-> <<>>]
  /\ got = [c \in Conns |-> 0]
  /\ inbox = [c \in Conns |-> {}]
  /\ sfd = [c \in Conns |-> 0]
  /\ openfd = [f \in Fds |-> NoConn]
  /\ epio = {}
  /\ ep = [w \in Workers |-> {}]
=============================================================================
