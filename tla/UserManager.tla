----------------------------- MODULE UserManager -----------------------------
(***************************************************************************)
(* util/UserManager: the two maps a GateWorker finds its users by.  A      *)
(* manager is a record [sock, uid]: _sock_users and _uid_users as total    *)
(* functions, NoConn where the map has no entry.  A User object is named   *)
(* by the connection it was made for.                                      *)
(***************************************************************************)
EXTENDS Integers

CONSTANTS
  Conns,    (* connections                                                *)
  Fds,      (* file descriptors: positive numbers, 0 is none              *)
  Uids,     (* user ids: positive numbers, 0 is "not logged in"           *)
  NoConn    (* no connection                                              *)

ASSUME UserManagerAssumption ==
  /\ NoConn \notin Conns
  /\ Fds \subseteq Nat \ {0}
  /\ Uids \subseteq Nat \ {0}

(* A manager of users for connections in C.                                *)
Manager(C) == [sock : [Fds -> C \cup {NoConn}], uid : [Uids -> C \cup {NoConn}]]

NoUsers == [sock |-> [f \in Fds |-> NoConn], uid |-> [u \in Uids |-> NoConn]]

get_user_by_sock(m, f) == IF f \in Fds THEN m.sock[f] ELSE NoConn
get_user_by_uid(m, u)  == IF u \in Uids THEN m.uid[u] ELSE NoConn

(* An entry is made only where there is none; uid 0 and -1 make none.      *)
PutAbsent(map, key, c) ==
  [k \in DOMAIN map |-> IF k = key /\ map[k] = NoConn THEN c ELSE map[k]]

(* add_user and add_conn: the user of connection c, on socket f, as uid u. *)
add_conn(m, c, f, u) ==
  [sock |-> PutAbsent(m.sock, f, c), uid |-> PutAbsent(m.uid, u, c)]

(* mutant: del_conn forgets the uid map                                    *)
del_conn_sock_only(m, f, uidOf) ==
  [sock |-> [m.sock EXCEPT ![f] = NoConn], uid |-> m.uid]

(* del_conn: whatever user socket f had, and whoever holds its uid.        *)
del_conn(m, f, uidOf) ==
  LET c == m.sock[f] IN
  [sock |-> [m.sock EXCEPT ![f] = NoConn],
   uid  |-> [u \in Uids |-> IF c # NoConn /\ uidOf[c] = u THEN NoConn
                                                          ELSE m.uid[u]]]
=============================================================================
