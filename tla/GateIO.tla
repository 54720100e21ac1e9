-------------------------------- MODULE GateIO --------------------------------
(***************************************************************************)
(* server/Gate/GateIO: the thread that accepts connections, takes each     *)
(* through login or verification, and hands it to a GateWorker.  run() is  *)
(* epoll_one, handler_data (with handler_unlogin_msgs), handler_replys and *)
(* notify_workers, over and over.                                          *)
(***************************************************************************)
EXTENDS GateState

IOInit ==
  /\ io_pc = "epoll"
  /\ unlogin_users = [f \in Fds |-> NoConn]
  /\ unlogin_events = {}
  /\ unlogin_reads = <<>>
  /\ io_idx = 0
  /\ io_rd = [c \in Conns |-> <<>>]
  /\ io_uid = [c \in Conns |-> 0]
  /\ rsp_msgs = <<>>

(* The workers _wokers lists, in the order of their making.                *)
Started == {w \in Workers : logic[w] # NoConn}
logic_fd(w) == sfd[logic[w]]

(* get_worker: the first worker that has the descriptor, or else the first *)
(* of those with the fewest; none if there is no worker.                   *)
Least(S) == {w \in S : \A v \in S : w <= v}
is_fd_in(w, f) == f \in fd_set[w]
fd_num(w) == Cardinality(fd_set[w])
Having(f) == {w \in Started : is_fd_in(w, f) \/ logic_fd(w) = f}
Idlest == {w \in Started : \A v \in Started : fd_num(w) <= fd_num(v)}
get_worker(f) == IF Having(f) # {} THEN Least(Having(f)) ELSE Least(Idlest)
-----------------------------------------------------------------------------
(* epoll_one.  A connection accepted in this turn is watched from the next *)
(* one on.  A ready descriptor of no unlogged user goes, as a read event,  *)
(* to some worker.                                                         *)
(* map::insert leaves an entry that is there alone.                        *)
on_accept(c, f) == PutAbsent(unlogin_users, f, c)

Accept(c, f) ==
  /\ sfd' = [sfd EXCEPT ![c] = f]
  /\ openfd' = [openfd EXCEPT ![f] = c]
  /\ epio' = epio \cup {f}
  /\ unlogin_users' = on_accept(c, f)

AcceptNone == UNCHANGED <<sfd, openfd, epio, unlogin_users>>

ReadEvent(f) == [conn |-> openfd[f], fd |-> f, uid |-> 0, what |-> "read"]
ReadEvents(s) == [i \in DOMAIN s |-> ReadEvent(s[i])]
get_unlogin_user(f) == unlogin_users[f]
Strays == {f \in Ready(epio) : get_unlogin_user(f) = NoConn}

epoll_one ==
  /\ io_pc = "epoll"
  /\ \A w \in Workers : Len(ioevs_in[w]) <= MaxQueue
  /\ \/ (Pending = {} \/ FreeFds = {}) /\ AcceptNone
     \/ \E c \in Pending : \E f \in FreeFds : Accept(c, f)
  /\ unlogin_events' = {get_unlogin_user(f) : f \in Ready(epio) \ Strays}
  /\ \E q \in [Workers -> Listings(Strays)] :
       /\ \A w \in Workers :
            Elements(q[w]) = {f \in Strays : w \in get_worker(f)}
       /\ events_io' = [w \in Workers |-> events_io[w] \o ReadEvents(q[w])]
  /\ io_pc' = "data"
  /\ UNCHANGED <<peer, said, got, inbox, ep>>
  /\ UNCHANGED <<unlogin_reads, io_idx, io_rd, io_uid, rsp_msgs>>
  /\ UNCHANGED <<logic, ioevs_in, fd_set, workVars>>

(* handler_data: event_op on every user with an event.  A socket at its    *)
(* end is closed and its user forgotten, but for a place in _unlogin_reads.*)
Failed(c) == ReadError(sfd[c])
Without(F) == [f \in Fds |-> IF f \in F THEN NoConn ELSE unlogin_users[f]]

(* mutant: the user of a closed socket stays in _unlogin_users             *)
on_conn_offline_keep(F) == unlogin_users

on_conn_offline_all(F) == Without(F)

handler_data ==
  LET bad == {c \in unlogin_events : Failed(c)}
      badfds == {sfd[c] : c \in bad} IN
  /\ io_pc = "data"
  /\ DrainedBy({sfd[c] : c \in unlogin_events})
  /\ io_rd' = [c \in Conns |-> IF c \in unlogin_events
                                 THEN io_rd[c] \o ReadFrames(sfd[c])
                                 ELSE io_rd[c]]
  /\ ClosedFds(badfds)
  /\ unlogin_users' = on_conn_offline_all(badfds)
  /\ \E s \in Orders(unlogin_events \ bad) :
       unlogin_reads' = unlogin_reads \o s
  /\ unlogin_events' = {}
  /\ io_pc' = "msgs"
  /\ UNCHANGED <<peer, said, inbox, sfd, io_idx, io_uid, rsp_msgs>>
  /\ UNCHANGED <<queueVars, workVars>>
-----------------------------------------------------------------------------
(* handler_unlogin_msgs, one user of _unlogin_reads at a time.  Nothing is *)
(* done for a user without a whole frame.                                  *)
(* mutant: the reply does not carry the descriptor                         *)
ReplyNoFd(c, kind, uid) ==
  Append(rsp_msgs, [fd |-> 0, msg |-> [kind |-> kind, uid |-> uid]])

Reply(c, kind, uid) == Append(rsp_msgs, [fd |-> sfd[c],
                                         msg |-> [kind |-> kind, uid |-> uid]])

on_user_login(c, m) ==
  /\ io_uid' = [io_uid EXCEPT ![c] = m.uid]
  /\ rsp_msgs' = Reply(c, IF m.uid = -1 THEN "loginfail" ELSE "loginok", m.uid)

on_user_register(c, m) ==
  /\ rsp_msgs' = Reply(c, "registerrsp", m.uid)
  /\ UNCHANGED io_uid

on_system_verify(c, m) ==
  /\ rsp_msgs' = Reply(c, "verifyrsp", m.uid)
  /\ UNCHANGED io_uid

Dispatch(c, m) ==
  /\ \/ m.kind = "login" /\ on_user_login(c, m)
     \/ m.kind = "register" /\ on_user_register(c, m)
     \/ m.kind = "verify" /\ on_system_verify(c, m)
  /\ UNCHANGED <<openfd, epio, ep, unlogin_users>>

(* kick_out closes the number the user object has, whatever it denotes now,*)
(* and forgets whoever _unlogin_users has under it.                        *)
kick_out(c) ==
  /\ ClosedFds({sfd[c]})
  /\ unlogin_users' = Without({sfd[c]})
  /\ UNCHANGED <<io_uid, rsp_msgs>>

Acceptable(msgs, left) ==
  /\ Len(msgs) = 1
  /\ left = <<>>
  /\ msgs[1].kind \in {"login", "register", "verify"}

handler_unlogin_msg(i) ==
  LET c == unlogin_reads[i] IN
  /\ io_pc = "msgs"
  /\ i \in NextToParse(unlogin_reads, io_rd, io_idx)
  /\ io_idx' = i
  /\ \E k \in Stops(io_rd[c]) :
       LET msgs == Parsed(io_rd[c], k)
           left == Unparsed(io_rd[c], k) IN
       /\ io_rd' = [io_rd EXCEPT ![c] = left]
       /\ \/ /\ msgs = <<>>
             /\ UNCHANGED <<openfd, epio, ep, unlogin_users, io_uid, rsp_msgs>>
          \/ Acceptable(msgs, left) /\ Dispatch(c, msgs[1])
          \/ msgs # <<>> /\ ~Acceptable(msgs, left) /\ kick_out(c)
  /\ UNCHANGED <<peer, said, got, inbox, sfd>>
  /\ UNCHANGED <<io_pc, unlogin_events, unlogin_reads, queueVars, workVars>>

AllParsed == NextToParse(unlogin_reads, io_rd, io_idx) = {}
-----------------------------------------------------------------------------
(* handler_replys, once all is parsed, one reply at a time.  The user it   *)
(* is for is looked up by descriptor.                                      *)

(* on_logic_verifyed: the connection becomes the logic of a new worker.    *)
(* If the worker's init fails, the connection is in no epoll any more.     *)
NewWorker(c, f, w) ==
  /\ logic' = [logic EXCEPT ![w] = c]
  /\ ep' = [ep EXCEPT ![w] = {f}]
  /\ users' = [users EXCEPT ![w] = add_conn(NoUsers, c, f, 0)]
  /\ w_pc' = [w_pc EXCEPT ![w] = "ioevent"]

on_logic_verifyed(c, f) ==
  /\ unlogin_users' = Without({f})
  /\ epio' = epio \ {f}
  /\ \/ \E w \in Least(Workers \ Started) : NewWorker(c, f, w)
     \/ UNCHANGED <<logic, ep, users, w_pc>>
  /\ UNCHANGED <<events_io, fd_set>>

(* on_user_logined: the connection goes to a worker; without one it is     *)
(* forgotten, yet stays in the IO's epoll.                                 *)
ConnectEvent(c, f) ==
  [conn |-> c, fd |-> f, uid |-> io_uid[c], what |-> "connect"]

(* mutant: the descriptor stays in the IO's epoll                          *)
HandOverWatched(c, f, w) ==
  /\ events_io' = [events_io EXCEPT ![w] = Append(@, ConnectEvent(c, f))]
  /\ fd_set' = [fd_set EXCEPT ![w] = @ \cup {f}]
  /\ epio' = epio

HandOver(c, f, w) ==
  /\ events_io' = [events_io EXCEPT ![w] = Append(@, ConnectEvent(c, f))]
  /\ fd_set' = [fd_set EXCEPT ![w] = @ \cup {f}]
  /\ epio' = epio \ {f}

on_user_logined(c, f) ==
  /\ unlogin_users' = Without({f})
  /\ \/ \E w \in get_worker(f) : HandOver(c, f, w)
     \/ get_worker(f) = {} /\ UNCHANGED <<events_io, fd_set, epio>>
  /\ UNCHANGED <<logic, ep, users, w_pc>>

no_promotion ==
  UNCHANGED <<unlogin_users, epio, ep, logic, events_io, fd_set, users, w_pc>>

handler_reply ==
  LET f == Head(rsp_msgs).fd
      m == Head(rsp_msgs).msg
      c == unlogin_users[f] IN
  /\ io_pc = "msgs"
  /\ AllParsed
  /\ rsp_msgs # <<>>
  /\ rsp_msgs' = Tail(rsp_msgs)
  /\ \/ c = NoConn /\ no_promotion /\ inbox' = inbox
     \/ /\ c # NoConn
        /\ inbox' = Delivered(f, {m})
        /\ \/ m.kind = "verifyrsp" /\ on_logic_verifyed(c, f)
           \/ m.kind = "loginok" /\ on_user_logined(c, f)
           \/ m.kind \in {"loginfail", "registerrsp"} /\ no_promotion
  /\ UNCHANGED <<peer, said, got, sfd, openfd>>
  /\ UNCHANGED <<io_pc, unlogin_events, unlogin_reads, io_idx, io_rd, io_uid>>
  /\ UNCHANGED <<ioevs_in, w_evs, wk_uid, wk_rd, epev_users, closing,
                 rd_users, w_idx, user_msgs_in, logic_msgs_in>>

(* notify_workers, after the last reply: each worker's events move to its  *)
(* side of the queue, under the worker's mutex.                            *)
(* mutant: they replace those the worker has not taken yet                 *)
move_io_event_to_in_over(w) ==
  IF events_io[w] # <<>> THEN events_io[w] ELSE ioevs_in[w]

move_io_event_to_in(w) == ioevs_in[w] \o events_io[w]

notify_workers ==
  /\ io_pc = "msgs"
  /\ AllParsed
  /\ rsp_msgs = <<>>
  /\ ioevs_in' = [w \in Workers |-> move_io_event_to_in(w)]
  /\ events_io' = [w \in Workers |-> <<>>]
  /\ io_idx' = 0
  /\ io_pc' = "epoll"
  /\ UNCHANGED <<unlogin_users, unlogin_events, unlogin_reads, io_rd, io_uid,
                 rsp_msgs>>
  /\ UNCHANGED <<netVars, logic, fd_set, workVars>>

IONext ==
  \/ epoll_one
  \/ handler_data
  \/ \E i \in DOMAIN unlogin_reads : handler_unlogin_msg(i)
  \/ handler_reply
  \/ notify_workers
=============================================================================
