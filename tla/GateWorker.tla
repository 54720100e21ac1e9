------------------------------ MODULE GateWorker ------------------------------
(***************************************************************************)
(* server/Gate/GateWorker: the thread that serves one Logic connection and *)
(* the users handed to it.  thread_loop() is handler_ioevent,              *)
(* handler_epevent, handler_epdata and handler_msgs, over and over.        *)
(***************************************************************************)
EXTENDS GateState

WorkerInit ==
  /\ logic = [w \in Workers |-> NoConn]
  /\ events_io = [w \in Workers |-> <<>>]
  /\ ioevs_in = [w \in Workers |-> <<>>]
  /\ fd_set = [w \in Workers |-> {}]
  /\ w_pc = [w \in Workers |-> "none"]
  /\ w_evs = [w \in Workers |-> <<>>]
  /\ users = [w \in Workers |-> NoUsers]
  /\ wk_uid = [c \in Conns |-> 0]
  /\ wk_rd = [c \in Conns |-> <<>>]
  /\ epev_users = [w \in Workers |-> {}]
  /\ closing = [w \in Workers |-> NoConn]
  /\ rd_users = [w \in Workers |-> <<>>]
  /\ w_idx = [w \in Workers |-> 0]
  /\ user_msgs_in = [w \in Workers |-> <<>>]
  /\ logic_msgs_in = [w \in Workers |-> <<>>]

Goes(w, from, to) == w_pc[w] = from /\ w_pc' = [w_pc EXCEPT ![w] = to]
Stays(w, at) == w_pc[w] = at /\ w_pc' = w_pc

(* mutant: every connection is of CLIENT_TYPE_SYSTEM                       *)
IsSystemAny(w, c) == c # NoConn

(* The Logic's user is the one of CLIENT_TYPE_SYSTEM.                      *)
IsSystem(w, c) == c = logic[w]
-----------------------------------------------------------------------------
(* handler_ioevent: the shared queue is taken whole, under its mutex, and  *)
(* its events handled one after another.                                   *)
take_ioevents(w) ==
  /\ Goes(w, "ioevent", "connect")
  /\ w_evs' = [w_evs EXCEPT ![w] = ioevs_in[w]]
  /\ ioevs_in' = [ioevs_in EXCEPT ![w] = <<>>]
  /\ UNCHANGED <<users, wk_uid, wk_rd, epev_users, closing, rd_users, w_idx,
                 user_msgs_in, logic_msgs_in>>
  /\ UNCHANGED <<netVars, ioVars, logic, events_io, fd_set>>

(* mutant: the socket is not added to the worker's epoll                   *)
on_new_connect_unwatched(w, e) ==
  /\ users' = [users EXCEPT ![w] = add_conn(@, e.conn, e.fd, e.uid)]
  /\ wk_uid' = [wk_uid EXCEPT ![e.conn] = e.uid]
  /\ ep' = ep
  /\ user_msgs_in' = [user_msgs_in EXCEPT ![w] =
                        Append(@, [kind |-> "online", uid |-> e.uid])]

(* on_new_connect makes the worker's own user for the socket, watches it   *)
(* and tells the Logic.                                                    *)
on_new_connect(w, e) ==
  /\ users' = [users EXCEPT ![w] = add_conn(@, e.conn, e.fd, e.uid)]
  /\ wk_uid' = [wk_uid EXCEPT ![e.conn] = e.uid]
  /\ ep' = [ep EXCEPT ![w] = IF openfd[e.fd] = NoConn THEN @ ELSE @ \cup {e.fd}]
  /\ user_msgs_in' = [user_msgs_in EXCEPT ![w] =
                        Append(@, [kind |-> "online", uid |-> e.uid])]

handler_ioevent(w) ==
  LET e == Head(w_evs[w]) IN
  /\ Stays(w, "connect")
  /\ w_evs[w] # <<>>
  /\ w_evs' = [w_evs EXCEPT ![w] = Tail(@)]
  /\ \/ e.what = "connect" /\ on_new_connect(w, e)
     \/ e.what # "connect" /\ UNCHANGED <<users, wk_uid, ep, user_msgs_in>>
  /\ UNCHANGED <<peer, said, got, inbox, sfd, openfd, epio>>
  /\ UNCHANGED <<ioVars, queueVars, wk_rd, epev_users, closing, rd_users,
                 w_idx, logic_msgs_in>>
-----------------------------------------------------------------------------
(* handler_epevent: epoll_wait, the users of the ready descriptors ...     *)
epoll_wait(w) ==
  /\ w_evs[w] = <<>>
  /\ Goes(w, "connect", "epevent")
  /\ epev_users' = [epev_users EXCEPT ![w] =
       {get_user_by_sock(users[w], f) : f \in Ready(ep[w])} \ {NoConn}]
  /\ UNCHANGED <<w_evs, users, wk_uid, wk_rd, closing, rd_users, w_idx,
                 user_msgs_in, logic_msgs_in>>
  /\ UNCHANGED <<netVars, ioVars, queueVars>>

(* ... then event_op on each, which closes the socket at its end.          *)
handler_epevent(w, c) ==
  LET f == sfd[c] IN
  /\ Stays(w, "epevent")
  /\ closing[w] = NoConn
  /\ c \in epev_users[w]
  /\ epev_users' = [epev_users EXCEPT ![w] = @ \ {c}]
  /\ DrainedBy({f})
  /\ wk_rd' = [wk_rd EXCEPT ![c] = @ \o ReadFrames(f)]
  /\ IF ReadError(f)
       THEN /\ ClosedFds({f})
            /\ closing' = [closing EXCEPT ![w] = c]
            /\ rd_users' = rd_users
       ELSE /\ UNCHANGED <<openfd, epio, ep, closing>>
            /\ rd_users' = [rd_users EXCEPT ![w] = Append(@, c)]
  /\ UNCHANGED <<peer, said, inbox, sfd>>
  /\ UNCHANGED <<ioVars, queueVars, w_evs, users, wk_uid, w_idx,
                 user_msgs_in, logic_msgs_in>>

del_fd(w, f) == fd_set' = [fd_set EXCEPT ![w] = @ \ {f}]

(* on_conn_offline, after the close: a user's end is told to the Logic.    *)
worker_conn_offline(w) ==
  LET c == closing[w] IN
  /\ Stays(w, "epevent")
  /\ c # NoConn
  /\ closing' = [closing EXCEPT ![w] = NoConn]
  /\ users' = [users EXCEPT ![w] = del_conn(@, sfd[c], wk_uid)]
  /\ IF IsSystem(w, c)
       THEN UNCHANGED <<user_msgs_in, fd_set>>
       ELSE /\ user_msgs_in' = [user_msgs_in EXCEPT ![w] =
                 Append(@, [kind |-> "offline", uid |-> wk_uid[c]])]
            /\ del_fd(w, sfd[c])
  /\ UNCHANGED <<w_evs, wk_uid, wk_rd, epev_users, rd_users, w_idx,
                 logic_msgs_in>>
  /\ UNCHANGED <<netVars, ioVars, logic, events_io, ioevs_in>>

EventsDone(w) == w_pc[w] = "epevent" /\ epev_users[w] = {} /\ closing[w] = NoConn
-----------------------------------------------------------------------------
(* handler_epdata, after the last event, one user of _rd_users at a time,  *)
(* one frame at a time: the Logic's messages are for the users, a user's   *)
(* go to the Logic if they bear its uid.  A frame of unknown id ends the   *)
(* parsing of this user for now.                                           *)
Forwardable(c, m) == m.kind # "unknown" /\ m.uid = wk_uid[c]

handler_epdata(w, i) ==
  LET c == rd_users[w][i]
      m == Head(wk_rd[c]) IN
  /\ EventsDone(w)
  /\ i \in NextToParse(rd_users[w], wk_rd, w_idx[w])
  /\ w_idx' = [w_idx EXCEPT ![w] = IF m.kind = "unknown" THEN i ELSE i - 1]
  /\ wk_rd' = [wk_rd EXCEPT ![c] = Tail(@)]
  /\ \/ /\ IsSystem(w, c) /\ m.kind # "unknown"
        /\ logic_msgs_in' = [logic_msgs_in EXCEPT ![w] = Append(@, m)]
        /\ UNCHANGED user_msgs_in
     \/ /\ ~IsSystem(w, c) /\ Forwardable(c, m)
        /\ user_msgs_in' = [user_msgs_in EXCEPT ![w] = Append(@, m)]
        /\ UNCHANGED logic_msgs_in
     \/ /\ m.kind = "unknown" \/ ~(IsSystem(w, c) \/ Forwardable(c, m))
        /\ UNCHANGED <<user_msgs_in, logic_msgs_in>>
  /\ UNCHANGED <<w_pc, w_evs, users, wk_uid, epev_users, closing, rd_users>>
  /\ UNCHANGED <<netVars, ioVars, queueVars>>

AllParsedBy(w) == NextToParse(rd_users[w], wk_rd, w_idx[w]) = {}

(* handler_msgs: everything gathered is written, to the Logic's descriptor *)
(* and to the descriptor of the user each message names.                   *)
ToUsers(w, c) ==
  {m \in Elements(logic_msgs_in[w]) :
     LET o == get_user_by_uid(users[w], m.uid)
     IN  o # NoConn /\ openfd[sfd[o]] = c}
ToLogic(w, c) == IF openfd[sfd[logic[w]]] = c THEN Elements(user_msgs_in[w])
                                              ELSE {}

handler_msgs(w) ==
  /\ EventsDone(w)
  /\ AllParsedBy(w)
  /\ w_pc' = [w_pc EXCEPT ![w] = "ioevent"]
  /\ w_idx' = [w_idx EXCEPT ![w] = 0]
  /\ inbox' = [c \in Conns |-> inbox[c] \cup ToLogic(w, c) \cup ToUsers(w, c)]
  /\ user_msgs_in' = [user_msgs_in EXCEPT ![w] = <<>>]
  /\ logic_msgs_in' = [logic_msgs_in EXCEPT ![w] = <<>>]
  /\ UNCHANGED <<peer, said, got, sfd, openfd, epio, ep>>
  /\ UNCHANGED <<ioVars, queueVars, w_evs, users, wk_uid, wk_rd, epev_users,
                 closing, rd_users>>

WorkerNext(w) ==
  \/ take_ioevents(w)
  \/ handler_ioevent(w)
  \/ epoll_wait(w)
  \/ \E c \in epev_users[w] : handler_epevent(w, c)
  \/ worker_conn_offline(w)
  \/ \E i \in DOMAIN rd_users[w] : handler_epdata(w, i)
  \/ handler_msgs(w)
=============================================================================
