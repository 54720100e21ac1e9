------------------------------ MODULE AccountsProofs ------------------------------
(***************************************************************************)
(* Theorems about Accounts, for any names, passwords and numbers of        *)
(* requests and faults.                                                    *)
(***************************************************************************)
EXTENDS Accounts, SequenceTheorems, TLAPS

(* The inductive invariant: with the types, that the ids given out are     *)
(* below next_uid, that whose registration was answered with success has a *)
(* row, and that a registration that asks for its id has made the row      *)
(* itself: nobody was told of that name before.                            *)
KindOfStep ==
  /\ pc \in {"check", "insert", "get_uid"} => req.kind = "register"
  /\ pc = "login" => req.kind = "login"
UidsBelow == \A r \in rows : r.uid < next_uid
RegisteredHaveRows ==
  \A i \in DOMAIN answers :
    answers[i].kind = "register" /\ answers[i].isok => Taken(answers[i].name)
OwnRow ==
  pc = "get_uid" =>
    /\ \E r \in rows : r.name = req.name /\ r.passwd = req.passwd
    /\ ~Service!Registered(req.name)

IInv == TypeOK /\ KindOfStep /\ UidsBelow /\ RegisteredHaveRows /\ OwnRow

LEMMA InitIInv == Init => IInv
<1> SUFFICES ASSUME Init PROVE IInv
  OBVIOUS
<1>1. answers = <<>> /\ answers \in Seq(Service!AnswerRecord) /\ DOMAIN answers = {}
  BY DEF Init
<1>2. TypeOK
  BY <1>1, AccountsAssumption DEF Init, TypeOK, FirstUid
<1> QED BY <1>1, <1>2 DEF Init, IInv, KindOfStep, UidsBelow, RegisteredHaveRows, OwnRow, FirstUid

(* What a request is, when there is one.                                   *)
LEMMA ReqType ==
  ASSUME TypeOK, pc \notin {"idle", "down"}
  PROVE  /\ req \in Request
         /\ req.name \in Names /\ req.passwd \in Passwds /\ req.kind \in {"register", "login"}
<1>1. req \in Request
  BY DEF TypeOK
<1> QED BY <1>1 DEF Request

(* An answer is added behind the others, which stay.                       *)
LEMMA ReplyAppends ==
  ASSUME TypeOK, NEW isok \in BOOLEAN, NEW id \in Int, Reply(isok, id),
         pc \notin {"idle", "down"}
  PROVE  /\ answers' \in Seq(Service!AnswerRecord)
         /\ Len(answers') = Len(answers) + 1 /\ answers' # <<>>
         /\ \A i \in DOMAIN answers : i \in DOMAIN answers' /\ answers'[i] = answers[i]
         /\ \A i \in DOMAIN answers' : i \in DOMAIN answers \/ i = Len(answers')
         /\ answers'[Len(answers')] =
              [kind |-> req.kind, isok |-> isok, name |-> req.name,
               passwd |-> req.passwd, id |-> id]
         /\ answers' = Append(answers, answers'[Len(answers')])
         /\ pc' = "idle" /\ req' = NoReq
<1> DEFINE a == [kind |-> req.kind, isok |-> isok, name |-> req.name,
                 passwd |-> req.passwd, id |-> id]
<1>1. a \in Service!AnswerRecord
  BY ReqType DEF Service!AnswerRecord
<1>2. answers' = Append(answers, a) /\ pc' = "idle" /\ req' = NoReq
  BY DEF Reply
<1>3. answers \in Seq(Service!AnswerRecord)
  BY DEF TypeOK
<1> HIDE DEF a
<1>4. /\ answers' \in Seq(Service!AnswerRecord)
      /\ Len(answers') = Len(answers) + 1
      /\ \A i \in 1 .. Len(answers) : answers'[i] = answers[i]
      /\ answers'[Len(answers) + 1] = a
  BY <1>1, <1>2, <1>3, AppendProperties
<1>5. DOMAIN answers = 1 .. Len(answers) /\ DOMAIN answers' = 1 .. Len(answers')
      /\ Len(answers) \in Nat
  BY <1>3, <1>4, LenProperties
<1> QED BY <1>2, <1>4, <1>5 DEF a

(* A row is added under a number of its own, or nothing happens.           *)
LEMMA InsertRowAdds ==
  ASSUME TypeOK, UidsBelow, NEW n \in Names, NEW p \in Passwds, InsertRow(n, p)
  PROVE  /\ rows' \subseteq Row /\ next_uid' \in Nat /\ UidsBelow'
         /\ rows \subseteq rows' /\ Taken(n)'
         /\ Taken(n) => UNCHANGED rows
         /\ ~Taken(n) => /\ Service!Create(n, p, next_uid) \/ answers' # answers
                         /\ [uid |-> next_uid, name |-> n, passwd |-> p] \in rows'
<1>1. CASE Taken(n)
  BY <1>1 DEF InsertRow, TypeOK, UidsBelow, Taken
<1>2. CASE ~Taken(n)
  <2> DEFINE row == [uid |-> next_uid, name |-> n, passwd |-> p]
  <2>1. rows' = rows \cup {row} /\ next_uid' = next_uid + 1
    BY <1>2 DEF InsertRow
  <2>2. row \in Row /\ row.uid = next_uid /\ row.name = n /\ next_uid \in Nat
    BY DEF Row, TypeOK
  <2>3. \A r \in rows : r.uid < next_uid /\ r.uid \in Nat /\ r.name # n
    BY <1>2 DEF UidsBelow, TypeOK, Row, Taken
  <2>4. UidsBelow'
    BY <2>1, <2>2, <2>3 DEF UidsBelow
  <2>5. Service!Create(n, p, next_uid) \/ answers' # answers
    BY <2>1, <2>2, <2>3 DEF Service!Create
  <2> QED BY <1>2, <2>1, <2>2, <2>4, <2>5 DEF TypeOK, Taken
<1> QED BY <1>1, <1>2

(* The ids get_uid may return.                                             *)
LEMMA UidsOfRow ==
  ASSUME TypeOK, NEW n, NEW p, NEW uid \in get_uid(n, p)
  PROVE  /\ uid \in Int
         /\ uid = -1 \/ \E r \in Service!Accounts(n, p) : uid = r.uid
         /\ uid = -1 => \A r \in rows : r.name = n => r.passwd # p
<1> DEFINE found == {r.uid : r \in {x \in rows : x.name = n /\ x.passwd = p}}
<1>1. uid \in (IF found = {} THEN {-1} ELSE found)
  BY DEF get_uid, Uids
<1>2. \A r \in rows : r.uid \in Nat
  BY DEF TypeOK, Row
<1>3. CASE found = {}
  <2>1. \A r \in rows : ~(r.name = n /\ r.passwd = p)
    BY <1>3
  <2> QED BY <1>1, <1>3, <2>1
<1>4. CASE found # {}
  <2>1. PICK r \in rows : r.name = n /\ r.passwd = p /\ uid = r.uid
    BY <1>1, <1>4
  <2> QED BY <1>2, <2>1 DEF Service!Accounts
<1> QED BY <1>3, <1>4
-----------------------------------------------------------------------------
(* A step that answers, for one that Service may answer as well.           *)
LEMMA AnswerStep ==
  ASSUME IInv, NEW isok \in BOOLEAN, NEW id \in Int, pc \notin {"idle", "down"},
         Reply(isok, id), UNCHANGED <<rows, next_uid>>,
         orphans' \subseteq [name : Names, passwd : Passwds],
         requests' \in 0 .. MaxRequests, faults' \in 0 .. MaxFaults,
         NEW a, a = [kind |-> req.kind, isok |-> isok, name |-> req.name,
                     passwd |-> req.passwd, id |-> id],
         \/ Service!RegisterOk(a) \/ Service!RegisterNo(a)
         \/ Service!LoginOk(a) \/ Service!LoginNo(a)
  PROVE  IInv' /\ Service!Next
<1>1. /\ answers' \in Seq(Service!AnswerRecord) /\ answers' # <<>>
      /\ \A i \in DOMAIN answers : answers'[i] = answers[i]
      /\ \A i \in DOMAIN answers' : i \in DOMAIN answers \/ i = Len(answers')
      /\ answers'[Len(answers')] = a /\ answers' = Append(answers, a)
      /\ pc' = "idle" /\ req' = NoReq
  BY ReplyAppends DEF IInv
<1>2. TypeOK' /\ KindOfStep' /\ UidsBelow' /\ OwnRow'
  BY <1>1 DEF IInv, TypeOK, KindOfStep, UidsBelow, OwnRow
<1>3. RegisteredHaveRows'
  <2> SUFFICES ASSUME NEW i \in DOMAIN answers', answers'[i].kind = "register", answers'[i].isok
               PROVE  \E r \in rows : r.name = answers'[i].name
    BY DEF RegisteredHaveRows, Taken
  <2>1. CASE i \in DOMAIN answers
    BY <1>1, <2>1 DEF IInv, RegisteredHaveRows, Taken
  <2>2. CASE i = Len(answers')
    BY <1>1, <2>2 DEF Service!RegisterOk, Service!RegisterNo, Service!LoginOk,
                      Service!LoginNo, Service!Accounts
  <2> QED BY <1>1, <2>1, <2>2
<1>4. Service!Answer(a)
  BY <1>1 DEF Service!Answer
<1> QED BY <1>1, <1>2, <1>3, <1>4 DEF IInv, Service!Next

(* A step that neither answers nor writes.                                 *)
LEMMA QuietStep ==
  ASSUME IInv, UNCHANGED <<rows, next_uid, answers>>, TypeOK', KindOfStep', OwnRow'
  PROVE  IInv' /\ UNCHANGED Service!vars
BY DEF IInv, UidsBelow, RegisteredHaveRows, Taken, Service!vars

(* A step that inserts a row, or finds that it cannot.                     *)
LEMMA InsertStep ==
  ASSUME IInv, NEW n \in Names, NEW p \in Passwds, InsertRow(n, p), UNCHANGED answers,
         TypeOK', KindOfStep', OwnRow'
  PROVE  IInv' /\ (Service!Next \/ UNCHANGED Service!vars)
<1>1. /\ UidsBelow' /\ rows \subseteq rows'
      /\ Taken(n) => UNCHANGED rows
      /\ ~Taken(n) => /\ Service!Create(n, p, next_uid)
                      /\ [uid |-> next_uid, name |-> n, passwd |-> p] \in rows'
  BY InsertRowAdds DEF IInv
<1>2. RegisteredHaveRows'
  BY <1>1 DEF IInv, RegisteredHaveRows, Taken
<1>3. CASE Taken(n)
  BY <1>1, <1>2, <1>3 DEF IInv, Service!vars
<1>4. CASE ~Taken(n)
  <2>1. \E r \in rows' : Service!Create(n, p, r.uid)
    BY <1>1, <1>4
  <2> QED BY <1>1, <1>2, <2>1 DEF IInv, Service!Next
<1> QED BY <1>3, <1>4
-----------------------------------------------------------------------------
(* Every action keeps the invariant, and is a step of Service or none.     *)
Good == IInv' /\ (Service!Next \/ UNCHANGED Service!vars)

LEMMA ReceiveGood ==
  ASSUME IInv, NEW kind \in {"register", "login"}, NEW n \in Names, NEW p \in Passwds,
         Receive(kind, n, p)
  PROVE  Good
<1>1. req' \in Request /\ req'.kind = kind /\ requests' \in 0 .. MaxRequests
      /\ req' # NoReq
  BY AccountsAssumption DEF Receive, Request, IInv, TypeOK, NoReq
<1>2. TypeOK' /\ KindOfStep' /\ OwnRow'
  BY <1>1 DEF Receive, dbVars, IInv, TypeOK, KindOfStep, OwnRow
<1> QED BY <1>2, QuietStep DEF Receive, dbVars, Good

LEMMA CheckGood ==
  ASSUME IInv, Check
  PROVE  Good
<1>1. CASE Taken(req.name)
  <2> DEFINE a == [kind |-> req.kind, isok |-> FALSE, name |-> req.name,
                   passwd |-> req.passwd, id |-> -1]
  <2>1. Reply(FALSE, -1) /\ UNCHANGED <<rows, next_uid>> /\ pc \notin {"idle", "down"}
    BY <1>1 DEF Check, dbVars, Reply
  <2>2. Service!RegisterNo(a) /\ FALSE \in BOOLEAN /\ -1 \in Int
    BY <1>1 DEF Check, IInv, KindOfStep, Taken, Service!RegisterNo
  <2>3. /\ orphans' \subseteq [name : Names, passwd : Passwds]
        /\ requests' \in 0 .. MaxRequests /\ faults' \in 0 .. MaxFaults
    BY DEF Check, dbVars, IInv, TypeOK
  <2> HIDE DEF a
  <2>4. a = [kind |-> req.kind, isok |-> FALSE, name |-> req.name,
             passwd |-> req.passwd, id |-> -1]
    BY DEF a
  <2> QED BY <2>1, <2>2, <2>3, <2>4, AnswerStep DEF Good
<1>2. CASE ~Taken(req.name)
  <2>1. TypeOK' /\ KindOfStep' /\ OwnRow'
    BY <1>2 DEF Check, dbVars, IInv, TypeOK, KindOfStep, OwnRow
  <2> QED BY <1>2, <2>1, QuietStep DEF Check, dbVars, Good
<1> QED BY <1>1, <1>2

LEMMA CheckFailsGood ==
  ASSUME IInv, CheckFails
  PROVE  Good
<1>1. faults' \in 0 .. MaxFaults
  BY AccountsAssumption DEF CheckFails, Fault, IInv, TypeOK
<1>2. TypeOK' /\ KindOfStep' /\ OwnRow'
  BY <1>1 DEF CheckFails, dbVars, IInv, TypeOK, KindOfStep, OwnRow
<1> QED BY <1>2, QuietStep DEF CheckFails, dbVars, Good

(* -2 may be answered to any registration.                                 *)
LEMMA RefuseGood ==
  ASSUME IInv, pc = "insert", Reply(FALSE, -2), UNCHANGED <<rows, next_uid>>,
         orphans' \subseteq [name : Names, passwd : Passwds],
         requests' \in 0 .. MaxRequests, faults' \in 0 .. MaxFaults
  PROVE  Good
<1> DEFINE a == [kind |-> req.kind, isok |-> FALSE, name |-> req.name,
                 passwd |-> req.passwd, id |-> -2]
<1>1. Service!RegisterNo(a) /\ pc \notin {"idle", "down"} /\ FALSE \in BOOLEAN /\ -2 \in Int
  BY DEF IInv, KindOfStep, Service!RegisterNo
<1> HIDE DEF a
<1>2. a = [kind |-> req.kind, isok |-> FALSE, name |-> req.name,
           passwd |-> req.passwd, id |-> -2]
  BY DEF a
<1> QED BY <1>1, <1>2, AnswerStep DEF Good

LEMMA InsertGood ==
  ASSUME IInv, Insert
  PROVE  Good
<1>1. req \in Request /\ req.name \in Names /\ req.passwd \in Passwds
  BY ReqType DEF IInv, Insert
<1>2. CASE Taken(req.name)
  <2>1. Reply(FALSE, -2) /\ UNCHANGED <<rows, next_uid>>
    BY <1>2 DEF Insert, AfterInsert, Done, InsertRow, Reply
  <2>2. /\ orphans' \subseteq [name : Names, passwd : Passwds]
        /\ requests' \in 0 .. MaxRequests /\ faults' \in 0 .. MaxFaults
    BY DEF Insert, IInv, TypeOK
  <2> QED BY <2>1, <2>2, RefuseGood DEF Insert
<1>3. CASE ~Taken(req.name)
  <2>1. /\ pc' = "get_uid" /\ InsertRow(req.name, req.passwd)
        /\ UNCHANGED <<req, answers, orphans, requests, faults>>
    BY <1>3 DEF Insert, AfterInsert, Done
  <2>2. /\ rows' \subseteq Row /\ next_uid' \in Nat
        /\ [uid |-> next_uid, name |-> req.name, passwd |-> req.passwd] \in rows'
    BY <1>1, <1>3, <2>1, InsertRowAdds DEF IInv
  <2>3. TypeOK' /\ KindOfStep'
    BY <2>1, <2>2 DEF Insert, IInv, TypeOK, KindOfStep
  <2>4. ~Service!Registered(req.name)
    BY <1>3 DEF IInv, RegisteredHaveRows, Service!Registered
  <2>5. OwnRow'
    BY <2>1, <2>2, <2>4 DEF OwnRow, Service!Registered
  <2> QED BY <1>1, <2>1, <2>3, <2>5, InsertStep DEF Good
<1> QED BY <1>2, <1>3

LEMMA InsertFailsGood ==
  ASSUME IInv, InsertFails
  PROVE  Good
<1>1. Sent \in [name : Names, passwd : Passwds]
  BY ReqType DEF IInv, InsertFails, Sent
<1>2. /\ orphans' \subseteq [name : Names, passwd : Passwds]
      /\ requests' \in 0 .. MaxRequests /\ faults' \in 0 .. MaxFaults
  BY <1>1, AccountsAssumption DEF InsertFails, Fault, IInv, TypeOK
<1>3. pc = "insert" /\ Reply(FALSE, -2) /\ UNCHANGED <<rows, next_uid>>
  BY DEF InsertFails, AfterInsert, Done, Reply
<1> QED BY <1>2, <1>3, RefuseGood

LEMMA RegisterDoneGood ==
  ASSUME IInv, RegisterDone
  PROVE  Good
<1>1. req.kind = "register" /\ req.name \in Names /\ req.passwd \in Passwds
      /\ pc = "get_uid" /\ ~Service!Registered(req.name)
  BY ReqType DEF IInv, KindOfStep, OwnRow, RegisterDone
<1>2. PICK own \in rows : own.name = req.name /\ own.passwd = req.passwd
  BY <1>1 DEF IInv, OwnRow
<1>3. PICK uid \in Int :
        /\ Reply(TRUE, uid)
        /\ uid = -1 \/ \E r \in Service!Accounts(req.name, req.passwd) : uid = r.uid
  <2>1. CASE \E uid \in get_uid(req.name, req.passwd) : Reply(TRUE, uid) /\ UNCHANGED faults
    BY <2>1, UidsOfRow DEF IInv
  <2>2. CASE Fault /\ Reply(TRUE, -1)
    <3>1. -1 \in Int /\ Reply(TRUE, -1)
      BY <2>2 DEF Reply
    <3> QED BY <3>1
  <2> QED BY <2>1, <2>2 DEF RegisterDone
<1> DEFINE a == [kind |-> req.kind, isok |-> TRUE, name |-> req.name,
                 passwd |-> req.passwd, id |-> uid]
<1>4. Service!RegisterOk(a)
  BY <1>1, <1>2, <1>3 DEF Service!RegisterOk, Service!Accounts
<1>5. /\ orphans' \subseteq [name : Names, passwd : Passwds]
      /\ requests' \in 0 .. MaxRequests /\ faults' \in 0 .. MaxFaults
      /\ UNCHANGED <<rows, next_uid>>
  <2>1. UNCHANGED <<rows, next_uid, orphans, requests>> /\ (faults' = faults \/ Fault)
    BY DEF RegisterDone, dbVars
  <2> QED BY <2>1, AccountsAssumption DEF Fault, IInv, TypeOK
<1> HIDE DEF a
<1>6. a = [kind |-> req.kind, isok |-> TRUE, name |-> req.name,
           passwd |-> req.passwd, id |-> uid]
  BY DEF a
<1> QED BY <1>1, <1>3, <1>4, <1>5, <1>6, AnswerStep DEF Good

LEMMA LoginGood ==
  ASSUME IInv, Login
  PROVE  Good
<1>1. req.kind = "login" /\ pc = "login"
  BY DEF IInv, KindOfStep, Login
<1>2. PICK uid \in Int :
        /\ Reply(uid # -1, uid)
        /\ uid = -1 \/ \E r \in Service!Accounts(req.name, req.passwd) : uid = r.uid
  <2>1. CASE \E uid \in get_uid(req.name, req.passwd) : Reply(uid # -1, uid) /\ UNCHANGED faults
    BY <2>1, UidsOfRow DEF IInv
  <2>2. CASE Fault /\ Reply(FALSE, -1)
    <3>1. Reply(-1 # -1, -1)
      BY <2>2 DEF Reply
    <3> QED BY <3>1
  <2> QED BY <2>1, <2>2 DEF Login
<1> DEFINE a == [kind |-> req.kind, isok |-> uid # -1, name |-> req.name,
                 passwd |-> req.passwd, id |-> uid]
<1>3. Service!LoginOk(a) \/ Service!LoginNo(a)
  BY <1>1, <1>2 DEF Service!LoginOk, Service!LoginNo
<1>4. /\ orphans' \subseteq [name : Names, passwd : Passwds]
      /\ requests' \in 0 .. MaxRequests /\ faults' \in 0 .. MaxFaults
      /\ UNCHANGED <<rows, next_uid>>
  <2>1. UNCHANGED <<rows, next_uid, orphans, requests>> /\ (faults' = faults \/ Fault)
    BY DEF Login, dbVars
  <2> QED BY <2>1, AccountsAssumption DEF Fault, IInv, TypeOK
<1> HIDE DEF a
<1>5. a = [kind |-> req.kind, isok |-> uid # -1, name |-> req.name,
           passwd |-> req.passwd, id |-> uid]
  BY DEF a
<1>6. (uid # -1) \in BOOLEAN
  OBVIOUS
<1> QED BY <1>1, <1>2, <1>3, <1>4, <1>5, <1>6, AnswerStep DEF Good

LEMMA CrashGood ==
  ASSUME IInv, Crash
  PROVE  Good
<1>1. orphans' \subseteq [name : Names, passwd : Passwds]
  <2>1. CASE pc = "insert"
    BY <2>1, ReqType DEF IInv, TypeOK, Crash, Sent
  <2>2. CASE pc # "insert"
    BY <2>2 DEF IInv, TypeOK, Crash
  <2> QED BY <2>1, <2>2
<1>2. faults' \in 0 .. MaxFaults
  BY AccountsAssumption DEF Crash, Fault, IInv, TypeOK
<1>3. TypeOK' /\ KindOfStep' /\ OwnRow'
  BY <1>1, <1>2 DEF Crash, IInv, TypeOK, KindOfStep, OwnRow
<1> QED BY <1>3, QuietStep DEF Crash, Good

LEMMA RestartGood ==
  ASSUME IInv, Restart
  PROVE  Good
<1>1. TypeOK' /\ KindOfStep' /\ OwnRow'
  BY DEF Restart, dbVars, IInv, TypeOK, KindOfStep, OwnRow
<1> QED BY <1>1, QuietStep DEF Restart, dbVars, Good

LEMMA ArriveGood ==
  ASSUME IInv, NEW o \in orphans, Arrive(o)
  PROVE  Good
<1>1. o.name \in Names /\ o.passwd \in Passwds /\ InsertRow(o.name, o.passwd)
  BY DEF IInv, TypeOK, Arrive
<1>2. rows' \subseteq Row /\ next_uid' \in Nat /\ rows \subseteq rows'
  BY <1>1, InsertRowAdds DEF IInv
<1>3. TypeOK' /\ KindOfStep' /\ OwnRow'
  BY <1>2 DEF Arrive, IInv, TypeOK, KindOfStep, OwnRow, Service!Registered
<1> QED BY <1>1, <1>3, InsertStep DEF Arrive, Good

LEMMA NextGood ==
  ASSUME IInv, [Next]_vars
  PROVE  Good
<1>1. CASE UNCHANGED vars
  <2>1. TypeOK' /\ KindOfStep' /\ OwnRow'
    BY <1>1 DEF vars, dbVars, IInv, TypeOK, KindOfStep, OwnRow, Service!Registered
  <2> QED BY <1>1, <2>1, QuietStep DEF vars, dbVars, Good
<1> QED BY <1>1, ReceiveGood, CheckGood, CheckFailsGood, InsertGood, InsertFailsGood,
           RegisterDoneGood, LoginGood, RestartGood, CrashGood, ArriveGood
        DEF Next, Handler, Finished
-----------------------------------------------------------------------------
(* The type invariant holds in every reachable state: an answer is one of  *)
(* AnswerRecord, no row has a field of another kind (Gate.cpp:102-174).    *)
THEOREM TypeCorrect == Spec => []TypeOK
<1>1. IInv /\ [Next]_vars => IInv'
  BY NextGood DEF Good
<1>2. IInv => TypeOK
  BY DEF IInv
<1> QED BY InitIInv, <1>1, <1>2, PTL DEF Spec

(* Whatever fails, ends or comes late, registration and login keep what    *)
(* AccountService promises (Gate.cpp:102-174).                             *)
THEOREM Refinement == Spec => ImplementsService
<1>1. Init => Service!Init
  BY DEF Init, Service!Init
<1>2. IInv /\ [Next]_vars => IInv' /\ [Service!Next]_(Service!vars)
  BY NextGood DEF Good
<1> QED BY InitIInv, <1>1, <1>2, PTL DEF Spec, ImplementsService, Service!Spec
-----------------------------------------------------------------------------
(* What makes the answers agree: every one that names an account names a   *)
(* row, and a row has its name and its number for itself.                  *)
KeysUnique == \A r, s \in rows : r.uid = s.uid <=> r.name = s.name
AnswersHaveRows ==
  \A i \in DOMAIN answers :
    answers[i].isok /\ answers[i].id # -1 =>
      \E r \in rows : r.uid = answers[i].id /\ r.name = answers[i].name

LEMMA AgreementStep ==
  ASSUME TypeOK, KeysUnique, AnswersHaveRows, [Service!Next]_(Service!vars)
  PROVE  KeysUnique' /\ AnswersHaveRows'
<1>1. CASE UNCHANGED Service!vars
  BY <1>1 DEF KeysUnique, AnswersHaveRows, Service!vars
<1>2. CASE \E n \in Names, p \in Passwds : \E r \in rows' : Service!Create(n, p, r.uid)
  <2>1. PICK n \in Names, p \in Passwds, r \in rows' : Service!Create(n, p, r.uid)
    BY <1>2
  <2>2. KeysUnique'
    BY <2>1 DEF Service!Create, KeysUnique
  <2>3. AnswersHaveRows'
    BY <2>1 DEF Service!Create, AnswersHaveRows
  <2> QED BY <2>2, <2>3
<1>3. CASE answers' # <<>> /\ Service!Answer(answers'[Len(answers')])
  <2> DEFINE a == answers'[Len(answers')]
  <2>1. /\ answers' = Append(answers, a) /\ UNCHANGED rows
        /\ Service!RegisterOk(a) \/ Service!RegisterNo(a)
           \/ Service!LoginOk(a) \/ Service!LoginNo(a)
    BY <1>3 DEF Service!Answer
  <2> HIDE DEF a
  <2>2. a.isok /\ a.id # -1 => \E r \in rows : r.uid = a.id /\ r.name = a.name
    BY <2>1 DEF Service!RegisterOk, Service!RegisterNo, Service!LoginOk, Service!LoginNo,
                Service!Accounts
  <2>3. \A i \in DOMAIN answers' :
          \/ i \in DOMAIN answers /\ answers'[i] = answers[i]
          \/ answers'[i] = a
    BY <2>1 DEF TypeOK
  <2> QED BY <2>1, <2>2, <2>3 DEF KeysUnique, AnswersHaveRows
<1> QED BY <1>1, <1>2, <1>3 DEF Service!Next

(* Answers that name an account agree about it, over all clients, faults   *)
(* and restarts: one id for a name and one name for an id                  *)
(* (Gate.cpp:102-174, mysql.sql).                                          *)
THEOREM AccountsAgree == Spec => []OneAccount
<1>1. Init => KeysUnique /\ AnswersHaveRows
  BY DEF Init, KeysUnique, AnswersHaveRows
<1>2. TypeOK /\ KeysUnique /\ AnswersHaveRows /\ [Service!Next]_(Service!vars)
      => KeysUnique' /\ AnswersHaveRows'
  BY AgreementStep
<1>3. TypeOK /\ KeysUnique /\ AnswersHaveRows => OneAccount
  <2> SUFFICES ASSUME KeysUnique, AnswersHaveRows,
                      NEW i \in DOMAIN answers, NEW j \in DOMAIN answers,
                      answers[i].isok, answers[j].isok,
                      answers[i].id # -1, answers[j].id # -1
               PROVE  answers[i].name = answers[j].name <=> answers[i].id = answers[j].id
    BY DEF OneAccount
  <2>1. PICK r \in rows : r.uid = answers[i].id /\ r.name = answers[i].name
    BY DEF AnswersHaveRows
  <2>2. PICK s \in rows : s.uid = answers[j].id /\ s.name = answers[j].name
    BY DEF AnswersHaveRows
  <2> QED BY <2>1, <2>2 DEF KeysUnique
<1> QED BY TypeCorrect, Refinement, <1>1, <1>2, <1>3, PTL DEF Spec, ImplementsService, Service!Spec
-----------------------------------------------------------------------------
(* What there is to say as long as nothing has failed: no insert is on its *)
(* way, and nobody can have taken the name between the check and the       *)
(* insert.                                                                 *)
FaultFree == faults = 0 => orphans = {} /\ (pc = "insert" => ~Taken(req.name))

(* A step that could have been without the fault is none.                  *)
LEMMA FaultCounts ==
  ASSUME TypeOK, Fault
  PROVE  faults' # 0
BY AccountsAssumption DEF Fault, TypeOK

LEMMA FaultFreeStep ==
  ASSUME TypeOK, FaultFree, [Next]_vars
  PROVE  FaultFree'
<1>1. CASE UNCHANGED vars
  BY <1>1 DEF vars, dbVars, FaultFree, Taken
<1>2. ASSUME NEW kind \in {"register", "login"}, NEW n \in Names, NEW p \in Passwds,
             Receive(kind, n, p)
      PROVE  FaultFree'
  BY <1>2 DEF Receive, dbVars, FaultFree
<1>3. CASE Check
  BY <1>3 DEF Check, Reply, dbVars, FaultFree, Taken
<1>4. CASE Insert
  BY <1>4 DEF Insert, AfterInsert, Reply, FaultFree
<1>5. CASE RegisterDone \/ Login
  BY <1>5, FaultCounts DEF RegisterDone, Login, Reply, dbVars, FaultFree
<1>6. CASE Restart
  BY <1>6 DEF Restart, dbVars, FaultFree
<1>7. CASE CheckFails \/ InsertFails \/ Crash
  BY <1>7, FaultCounts DEF CheckFails, InsertFails, Crash, FaultFree
<1>8. ASSUME NEW o \in orphans, Arrive(o)
      PROVE  FaultFree'
  BY <1>8 DEF Arrive, FaultFree
<1> QED BY <1>1, <1>2, <1>3, <1>4, <1>5, <1>6, <1>7, <1>8 DEF Next, Handler, Finished

(* What Truthful says of one answer.                                       *)
TrueAnswer(a) ==
  faults' = 0 /\ ~a.isok =>
    IF a.kind = "register" THEN a.id = -1 /\ \E r \in rows : r.name = a.name
                           ELSE \A r \in rows : r.name = a.name => r.passwd # a.passwd
NewAnswersTrue ==
  \A a \in {answers'[i] : i \in Len(answers) + 1 .. Len(answers')} : TrueAnswer(a)

LEMMA NoNewAnswers ==
  ASSUME TypeOK, answers' = answers
  PROVE  NewAnswersTrue
<1>1. Len(answers) \in Nat
  BY DEF TypeOK
<1>2. Len(answers) + 1 .. Len(answers') = {}
  BY <1>1
<1> QED BY <1>2 DEF NewAnswersTrue

LEMMA OneNewAnswer ==
  ASSUME TypeOK, pc \notin {"idle", "down"}, NEW isok \in BOOLEAN, NEW id \in Int,
         Reply(isok, id),
         TrueAnswer([kind |-> req.kind, isok |-> isok, name |-> req.name,
                     passwd |-> req.passwd, id |-> id])
  PROVE  NewAnswersTrue
<1>1. /\ Len(answers') = Len(answers) + 1
      /\ TrueAnswer(answers'[Len(answers')])
  BY ReplyAppends
<1>2. Len(answers) \in Nat
  BY DEF TypeOK
<1>3. \A i \in Len(answers) + 1 .. Len(answers') : i = Len(answers')
  BY <1>1, <1>2
<1> QED BY <1>1, <1>3 DEF NewAnswersTrue

LEMMA TruthfulStep ==
  ASSUME IInv, FaultFree, Next
  PROVE  NewAnswersTrue
<1> USE DEF IInv
<1>1. ASSUME NEW kind \in {"register", "login"}, NEW n \in Names, NEW p \in Passwds,
             Receive(kind, n, p)
      PROVE  NewAnswersTrue
  BY <1>1, NoNewAnswers DEF Receive
<1>2. CASE Check
  <2>1. CASE Taken(req.name)
    <3>1. Reply(FALSE, -1) /\ pc \notin {"idle", "down"} /\ FALSE \in BOOLEAN /\ -1 \in Int
      BY <1>2, <2>1 DEF Check, Reply
    <3>2. req.kind = "register"
      BY <1>2 DEF Check, KindOfStep
    <3>3. TrueAnswer([kind |-> req.kind, isok |-> FALSE, name |-> req.name,
                      passwd |-> req.passwd, id |-> -1])
      BY <2>1, <3>2 DEF TrueAnswer, Taken
    <3> QED BY <3>1, <3>3, OneNewAnswer
  <2>2. CASE ~Taken(req.name)
    BY <1>2, <2>2, NoNewAnswers DEF Check
  <2> QED BY <2>1, <2>2
<1>3. CASE Insert
  <2>1. CASE faults = 0
    <3>1. ~Taken(req.name) /\ Done(1)
      BY <1>3, <2>1 DEF Insert, FaultFree, Done
    <3>2. answers' = answers
      BY <1>3, <3>1 DEF Insert, AfterInsert
    <3> QED BY <3>2, NoNewAnswers
  <2>2. CASE faults # 0
    <3>1. faults' # 0
      BY <1>3, <2>2 DEF Insert
    <3> QED BY <3>1 DEF NewAnswersTrue, TrueAnswer
  <2> QED BY <2>1, <2>2
<1>4. CASE CheckFails \/ InsertFails \/ Crash
  <2>1. faults' # 0
    BY <1>4, FaultCounts DEF CheckFails, InsertFails, Crash
  <2> QED BY <2>1 DEF NewAnswersTrue, TrueAnswer
<1>5. CASE RegisterDone
  <2>1. CASE Fault
    BY <2>1, FaultCounts DEF NewAnswersTrue, TrueAnswer
  <2>2. CASE \E uid \in get_uid(req.name, req.passwd) : Reply(TRUE, uid) /\ UNCHANGED faults
    <3>1. PICK uid \in get_uid(req.name, req.passwd) : Reply(TRUE, uid)
      BY <2>2
    <3>2. uid \in Int /\ pc \notin {"idle", "down"}
      BY <1>5, <3>1, UidsOfRow DEF RegisterDone
    <3>3. TrueAnswer([kind |-> req.kind, isok |-> TRUE, name |-> req.name,
                      passwd |-> req.passwd, id |-> uid])
      BY DEF TrueAnswer
    <3> QED BY <3>1, <3>2, <3>3, OneNewAnswer
  <2> QED BY <1>5, <2>1, <2>2 DEF RegisterDone
<1>6. CASE Login
  <2>1. CASE Fault
    BY <2>1, FaultCounts DEF NewAnswersTrue, TrueAnswer
  <2>2. CASE \E uid \in get_uid(req.name, req.passwd) : Reply(uid # -1, uid) /\ UNCHANGED faults
    <3>1. PICK uid \in get_uid(req.name, req.passwd) : Reply(uid # -1, uid)
      BY <2>2
    <3>2. /\ uid \in Int /\ (uid # -1) \in BOOLEAN /\ pc \notin {"idle", "down"}
          /\ uid = -1 => \A r \in rows : r.name = req.name => r.passwd # req.passwd
      BY <1>6, <3>1, UidsOfRow DEF Login
    <3>3. req.kind = "login"
      BY <1>6 DEF Login, KindOfStep
    <3>4. TrueAnswer([kind |-> req.kind, isok |-> uid # -1, name |-> req.name,
                      passwd |-> req.passwd, id |-> uid])
      BY <3>2, <3>3 DEF TrueAnswer
    <3> QED BY <3>1, <3>2, <3>4, OneNewAnswer
  <2> QED BY <1>6, <2>1, <2>2 DEF Login
<1>7. CASE Restart \/ Finished
  BY <1>7, NoNewAnswers DEF Restart, Finished, vars
<1>8. ASSUME NEW o \in orphans, Arrive(o)
      PROVE  NewAnswersTrue
  BY <1>8, NoNewAnswers DEF Arrive
<1> QED BY <1>1, <1>2, <1>3, <1>4, <1>5, <1>6, <1>7, <1>8 DEF Next, Handler

(* Without faults nobody is turned away for nothing, however the requests  *)
(* for one name follow each other (Gate.cpp:102-174).                      *)
THEOREM AnswersAreTrue == Spec => Truthful
<1>1. Init => FaultFree
  BY DEF Init, FaultFree
<1>2. IInv /\ [Next]_vars => IInv'
  BY NextGood DEF Good
<1>3. IInv /\ FaultFree /\ [Next]_vars => FaultFree'
  BY FaultFreeStep DEF IInv
<1>4. IInv /\ FaultFree /\ [Next]_vars
      => [\A a \in {answers'[i] : i \in Len(answers) + 1 .. Len(answers')} :
            faults' = 0 /\ ~a.isok =>
              IF a.kind = "register" THEN a.id = -1 /\ \E r \in rows : r.name = a.name
                ELSE \A r \in rows : r.name = a.name => r.passwd # a.passwd]_vars
  BY TruthfulStep DEF NewAnswersTrue, TrueAnswer
<1> QED BY InitIInv, <1>1, <1>2, <1>3, <1>4, PTL DEF Spec, Truthful
=============================================================================
