-------------------------------- MODULE Accounts --------------------------------
(***************************************************************************)
(* Registration and login: Gate's handlers, which run one at a time in the *)
(* thread of GateIO, and the statements of MysqlDb they are made of.  Any  *)
(* statement can fail, also after it has done its work; the process can    *)
(* end between any two, and a statement it had sent can still reach the    *)
(* database when the next process is running.                              *)
(***************************************************************************)
EXTENDS Integers, Sequences

CONSTANTS
  Names, Passwds,   (* what clients send; names that the database takes    *)
                    (* for equal are one                                   *)
  MaxRequests,      (* bound: how many requests come                       *)
  MaxFaults         (* bound: how many statements fail or processes end    *)

ASSUME AccountsAssumption == MaxRequests \in Nat /\ MaxFaults \in Nat

VARIABLES
  rows,       (* the table register                                        *)
  next_uid,   (* its Auto_increment                                        *)
  orphans,    (* inserts that are still on their way                       *)
  pc,         (* "idle", "down", or the statement that is next: "check",   *)
              (* "insert", "get_uid" of a registration, or "login"         *)
  req,        (* the message being handled                                 *)
  answers,    (* history: the answers, in their order                      *)
  requests,   (* history: how many requests have come                      *)
  faults      (* history: how many faults there were                       *)

dbVars == <<rows, next_uid, orphans>>
vars == <<dbVars, pc, req, answers, requests, faults>>

NoReq == [kind |-> "none"]

(* uid INT(11) Primary Key Auto_increment ... Auto_increment=10000         *)
FirstUid == 10000

Init ==
  /\ rows = {} /\ next_uid = FirstUid /\ orphans = {}
  /\ pc = "idle" /\ req = NoReq
  /\ answers = <<>> /\ requests = 0 /\ faults = 0

Fault == faults < MaxFaults /\ faults' = faults + 1

(* mutant: the message is kept                                             *)
ReplyKeeping(isok, id) ==
  /\ answers' = Append(answers,
       [kind |-> req.kind, isok |-> isok, name |-> req.name, passwd |-> req.passwd, id |-> id])
  /\ pc' = "idle" /\ UNCHANGED req

(* rsp_msgs.push_back                                                      *)
Reply(isok, id) ==
  /\ answers' = Append(answers,
       [kind |-> req.kind, isok |-> isok, name |-> req.name, passwd |-> req.passwd, id |-> id])
  /\ pc' = "idle" /\ req' = NoReq
-----------------------------------------------------------------------------
(* The database.  name Varchar(64) Not Null Unique                         *)
Taken(n) == \E r \in rows : r.name = n
(* mutant: without Unique                                                  *)
InsertRowAnyhow(n, p) ==
  /\ rows' = rows \cup {[uid |-> next_uid, name |-> n, passwd |-> p]}
  /\ next_uid' = next_uid + 1

InsertRow(n, p) ==
  IF Taken(n)
    THEN UNCHANGED <<rows, next_uid>>
    ELSE /\ rows' = rows \cup {[uid |-> next_uid, name |-> n, passwd |-> p]}
         /\ next_uid' = next_uid + 1

(* What get_uid may return when its query does not fail: -1 if there is no *)
(* row.                                                                    *)
Uids(n, p) ==
  LET found == {r.uid : r \in {x \in rows : x.name = n /\ x.passwd = p}} IN
  IF found = {} THEN {-1} ELSE found

(* A message for on_user_login or on_user_register.                        *)
Receive(kind, n, p) ==
  /\ pc = "idle" /\ requests < MaxRequests
  /\ req' = [kind |-> kind, name |-> n, passwd |-> p]
  /\ requests' = requests + 1
  /\ pc' = IF kind = "register" THEN "check" ELSE "login"
  /\ UNCHANGED <<dbVars, answers, faults>>

(* mutant: rowsCount() >= 0                                                *)
CheckAny ==
  /\ pc = "check"
  /\ Reply(FALSE, -1)
  /\ UNCHANGED <<dbVars, requests, faults>>

(* check_name_registered answers with the number of rows.                  *)
Check ==
  /\ pc = "check"
  /\ IF Taken(req.name)
       THEN Reply(FALSE, -1)
       ELSE pc' = "insert" /\ UNCHANGED <<req, answers>>
  /\ UNCHANGED <<dbVars, requests, faults>>

(* Its query fails: that counts as a name that is free.                    *)
CheckFails ==
  /\ pc = "check" /\ Fault
  /\ pc' = "insert"
  /\ UNCHANGED <<dbVars, req, answers, requests>>

(* mutant: -1, which stands for an exception, counts as well               *)
DoneAnyhow(update_ret) == update_ret # 0

(* register_user: what it makes of executeUpdate's result.                 *)
Done(update_ret) == update_ret > 0

AfterInsert(update_ret) ==
  IF Done(update_ret)
    THEN pc' = "get_uid" /\ UNCHANGED <<req, answers>>
    ELSE Reply(FALSE, -2)

(* executeUpdate: one row, or an exception because there is one already.   *)
Insert ==
  /\ pc = "insert"
  /\ InsertRow(req.name, req.passwd)
  /\ AfterInsert(IF Taken(req.name) THEN -1 ELSE 1)
  /\ UNCHANGED <<orphans, requests, faults>>

(* The insert of this request.                                             *)
Sent == [name |-> req.name, passwd |-> req.passwd]

(* An exception for another reason; the row may be there all the same, or  *)
(* may yet come.                                                           *)
InsertFails ==
  /\ pc = "insert" /\ Fault
  /\ orphans' \in {orphans, orphans \cup {Sent}}
  /\ AfterInsert(-1)
  /\ UNCHANGED <<rows, next_uid, requests>>

(* mutant: the password is not compared                                    *)
get_uid_of(name, passwd) == UNION {Uids(name, p) : p \in Passwds}

(* get_uid                                                                 *)
get_uid(name, passwd) == Uids(name, passwd)

(* The end of on_user_register: success whatever get_uid returns.          *)
RegisterDone ==
  /\ pc = "get_uid"
  /\ \/ \E uid \in get_uid(req.name, req.passwd) : Reply(TRUE, uid) /\ UNCHANGED faults
     \/ Fault /\ Reply(TRUE, -1)
  /\ UNCHANGED <<dbVars, requests>>

(* on_user_login                                                           *)
Login ==
  /\ pc = "login"
  /\ \/ \E uid \in get_uid(req.name, req.passwd) : Reply(uid # -1, uid) /\ UNCHANGED faults
     \/ Fault /\ Reply(FALSE, -1)
  /\ UNCHANGED <<dbVars, requests>>

(* The process ends: killed, or by the exception prepareStatement throws   *)
(* outside of every try.  An insert may be on its way.                     *)
Crash ==
  /\ pc # "down" /\ Fault
  /\ pc' = "down" /\ req' = NoReq
  /\ orphans' \in {orphans} \cup (IF pc = "insert" THEN {orphans \cup {Sent}} ELSE {})
  /\ UNCHANGED <<rows, next_uid, answers, requests>>

(* MysqlDb::init: the table is created only if it does not exist.          *)
Restart ==
  /\ pc = "down"
  /\ pc' = "idle"
  /\ UNCHANGED <<dbVars, req, answers, requests, faults>>

(* An insert that was on its way arrives.                                  *)
Arrive(o) ==
  /\ o \in orphans
  /\ orphans' = orphans \ {o}
  /\ InsertRow(o.name, o.passwd)
  /\ UNCHANGED <<pc, req, answers, requests, faults>>

Finished == pc = "idle" /\ requests = MaxRequests /\ UNCHANGED vars

Handler ==
  Check \/ CheckFails \/ Insert \/ InsertFails \/ RegisterDone \/ Login \/ Restart

Next ==
  \/ \E kind \in {"register", "login"}, n \in Names, p \in Passwds : Receive(kind, n, p)
  \/ Handler \/ Crash
  \/ \E o \in orphans : Arrive(o)
  \/ Finished

Spec == Init /\ [][Next]_vars
-----------------------------------------------------------------------------
Request == [kind : {"register", "login"}, name : Names, passwd : Passwds]
Row == [uid : Nat, name : Names, passwd : Passwds]

Service == INSTANCE AccountService WITH accounts <- rows

(* Type invariant.                                                         *)
TypeOK ==
  /\ rows \subseteq Row /\ next_uid \in Nat
  /\ orphans \subseteq [name : Names, passwd : Passwds]
  /\ pc \in {"idle", "down", "check", "insert", "get_uid", "login"}
  /\ req \in Request \cup {NoReq}
  /\ pc \in {"idle", "down"} <=> req = NoReq
  /\ answers \in Seq(Service!AnswerRecord)
  /\ requests \in 0 .. MaxRequests /\ faults \in 0 .. MaxFaults

(* Whatever fails, ends or comes late: a name is registered once, success  *)
(* is answered to the one who made the account, and a login gets the id of *)
(* the account with its name and password (Gate.cpp:102-174).              *)
ImplementsService == Service!Spec

(* Without faults nobody is turned away for nothing: a registration only   *)
(* when the name is taken, with -1, a login only when there is no account. *)
Truthful ==
  [][\A a \in {answers'[i] : i \in Len(answers) + 1 .. Len(answers')} :
       faults' = 0 /\ ~a.isok =>
         IF a.kind = "register" THEN a.id = -1 /\ \E r \in rows : r.name = a.name
                                ELSE \A r \in rows : r.name = a.name => r.passwd # a.passwd]_vars

(* Answers that name an account agree about it: the same id for a name,    *)
(* whoever asks and whenever, and different ids for different names.       *)
OneAccount ==
  \A i, j \in DOMAIN answers :
    LET a == answers[i] b == answers[j] IN
    a.isok /\ b.isok /\ a.id # -1 /\ b.id # -1 => (a.name = b.name <=> a.id = b.id)
=============================================================================
