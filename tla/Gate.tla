--------------------------------- MODULE Gate ---------------------------------
(***************************************************************************)
(* The Gate server: one GateIO thread, the GateWorker threads it starts,   *)
(* their peers and the kernel between them, all interleaved.               *)
(***************************************************************************)
EXTENDS GateIO, GateWorker

Init == NetInit /\ IOInit /\ WorkerInit

Next ==
  \/ PeerNext
  \/ IONext
  \/ \E w \in Workers : WorkerNext(w)

(* Every thread runs a loop that never blocks for ever (epoll_wait has a   *)
(* timeout, the locks are held for a copy), so each is weakly fair.        *)
Fairness == WF_vars(IONext) /\ \A w \in Workers : WF_vars(WorkerNext(w))

Spec == Init /\ [][Next]_vars
FairSpec == Spec /\ Fairness
-----------------------------------------------------------------------------
(* Type invariant: the Gate has objects only of connections it accepted,   *)
(* under a real descriptor, whatever thread or queue they have got to.     *)
NetTypeOK ==
  /\ peer \in [Conns -> {"new", "open", "closed"}]
  /\ said \in [Conns -> Seq(Msg)]
  /\ got \in [Conns -> Nat]
  /\ inbox \in [Conns -> SUBSET Msg]
  /\ sfd \in [Conns -> Fds \cup {0}]
  /\ openfd \in [Fds -> MaybeAccepted]
  /\ epio \in SUBSET Fds
  /\ ep \in [Workers -> SUBSET Fds]

IOTypeOK ==
  /\ io_pc \in {"epoll", "data", "msgs"}
  /\ unlogin_users \in [Fds -> MaybeAccepted]
  /\ unlogin_events \in SUBSET Accepted
  /\ unlogin_reads \in Seq(Accepted)
  /\ io_idx \in Nat
  /\ io_rd \in [Conns -> Seq(Msg)]
  /\ io_uid \in [Conns -> Uids \cup {0, -1}]
  /\ rsp_msgs \in Seq(Rsp)

WorkerTypeOK ==
  /\ logic \in [Workers -> MaybeAccepted]
  /\ events_io \in [Workers -> Seq(Event)]
  /\ ioevs_in \in [Workers -> Seq(Event)]
  /\ fd_set \in [Workers -> SUBSET Fds]
  /\ w_pc \in [Workers -> {"none", "ioevent", "connect", "epevent"}]
  /\ w_evs \in [Workers -> Seq(Event)]
  /\ users \in [Workers -> Manager(Accepted)]
  /\ wk_uid \in [Conns -> Uids \cup {0, -1}]
  /\ wk_rd \in [Conns -> Seq(Msg)]
  /\ epev_users \in [Workers -> SUBSET Accepted]
  /\ closing \in [Workers -> MaybeAccepted]
  /\ rd_users \in [Workers -> Seq(Accepted)]
  /\ w_idx \in [Workers -> Nat]
  /\ user_msgs_in \in [Workers -> Seq(Msg)]
  /\ logic_msgs_in \in [Workers -> Seq(Msg)]

TypeOK == NetTypeOK /\ IOTypeOK /\ WorkerTypeOK
-----------------------------------------------------------------------------
Said(c) == {said[c][i] : i \in DOMAIN said[c]}
SaidLogin(c, u) == [kind |-> "login", uid |-> u] \in Said(c)

(* No two threads watch one descriptor: on_user_logined's del_epev and the *)
(* worker's add_epev are steps of two threads with a queue between them.   *)
OneWatcher ==
  \A f \in Fds :
    /\ \A w \in Workers : ~(f \in epio /\ f \in ep[w])
    /\ \A v, w \in Workers : f \in ep[v] /\ f \in ep[w] => v = w

(* No peer sends a frame of an id the protocol does not know.  Behind one, *)
(* parse_package leaves what a connection sent in a buffer that            *)
(* _unlogin_reads, which is never cleared, keeps when the number is another*)
(* connection's, and the answer goes to whoever has the number then.       *)
KnownFrames == \A c \in Conns : \A m \in ClientFrames[c] : CanGen(m)

(* A user is only known under a uid it logged in as itself: the uid goes   *)
(* from on_user_login through GateIO's user and the event to the worker's. *)
(* (It takes KnownFrames.)                                                 *)
LoginAuthentic ==
  \A w \in Workers, u \in Uids :
    users[w].uid[u] # NoConn => SaidLogin(users[w].uid[u], u)

(* The descriptor a thread is about to read through an object of its own   *)
(* still denotes the connection the object was made for, although other    *)
(* threads close and accept descriptors meanwhile.                         *)
ReadsOwn ==
  /\ \A c \in unlogin_events : openfd[sfd[c]] = c
  /\ \A w \in Workers : \A c \in epev_users[w] : openfd[sfd[c]] = c

(* Between two loops of a worker its two maps agree: whoever is known by a *)
(* uid is also known by its socket, so that its end will be noticed.       *)
MapsAgree ==
  \A w \in Workers, u \in Uids :
    LET c == users[w].uid[u] IN
    c # NoConn => users[w].sock[sfd[c]] = c /\ wk_uid[c] = u

(* A user that logged in while there is a worker is never dropped between  *)
(* the two threads: it is in a queue, or served by exactly the worker it   *)
(* was handed to, until its connection ends.                               *)
InQueue(c, q) == \E i \in DOMAIN q : q[i].conn = c /\ q[i].what = "connect"
Queued(c, w) == \/ InQueue(c, events_io[w])
                \/ InQueue(c, ioevs_in[w])
                \/ InQueue(c, w_evs[w])
Served(c, w) == sfd[c] \in ep[w] /\ users[w].sock[sfd[c]] = c
Handed(c) == sfd[c] # 0 /\ openfd[sfd[c]] = c /\ sfd[c] \notin epio

NotStranded ==
  \A c \in Conns :
    Handed(c) /\ io_uid[c] \in Uids =>
      \E w \in Workers : Queued(c, w) \/ Served(c, w)
-----------------------------------------------------------------------------
(* What a comment of the code says, and the code does not do.              *)
(* GateWorker.hpp:22: a worker stands for one Logic connection: what it    *)
(* forwards for its users goes to a connection that verified itself.       *)
ForwardsToLogic ==
  \A c \in Conns : \A m \in inbox[c] :
    m.kind = "dosth" => [kind |-> "verify", uid |-> 0] \in Said(c)
-----------------------------------------------------------------------------
(* Under fairness: a login handed to a worker is served in the end.        *)
HandoverCompletes ==
  \A c \in Conns, w \in Workers : Queued(c, w) ~> Served(c, w)

(* What a served user sends under its own uid reaches the Logic in the end *)
(* if neither goes away.                                                   *)
Dosth(c) == [kind |-> "dosth", uid |-> wk_uid[c]]

ForwardedInTheEnd ==
  \A c \in Conns, w \in Workers :
    Served(c, w) /\ c # logic[w] /\ Dosth(c) \in Said(c)
      ~> \/ logic[w] # NoConn /\ Dosth(c) \in inbox[logic[w]]
         \/ peer[c] = "closed"

(* The end of a served user's connection is told to the Logic in the end.  *)
EndIsTold ==
  \A c \in MayClose, w \in Workers :
    Served(c, w) /\ c # logic[w] /\ peer[c] = "closed"
      ~> /\ logic[w] # NoConn
         /\ [kind |-> "offline", uid |-> wk_uid[c]] \in inbox[logic[w]]
=============================================================================
