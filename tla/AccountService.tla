----------------------------- MODULE AccountService -----------------------------
(***************************************************************************)
(* What the Gate's accounts promise to those who register and log in: a    *)
(* name is registered once, an answer of success is given for the account  *)
(* that was made, and a user id belongs to one account.                    *)
(***************************************************************************)
EXTENDS Integers, Sequences

CONSTANTS Names, Passwds

VARIABLES
  accounts,   (* a set of [uid, name, passwd]                              *)
  answers     (* the answers given so far, in their order                  *)

vars == <<accounts, answers>>

Accounts(n, p) == {r \in accounts : r.name = n /\ r.passwd = p}
Registered(n) ==
  \E i \in DOMAIN answers :
    answers[i].kind = "register" /\ answers[i].isok /\ answers[i].name = n

Init == accounts = {} /\ answers = <<>>

Create(n, p, u) ==
  /\ \A r \in accounts : r.name # n /\ r.uid # u
  /\ accounts' = accounts \cup {[uid |-> u, name |-> n, passwd |-> p]}
  /\ UNCHANGED answers

(* Success names the account, or leaves its id out; it is answered once.   *)
RegisterOk(a) ==
  /\ a.kind = "register" /\ a.isok
  /\ \E r \in Accounts(a.name, a.passwd) : a.id \in {r.uid, -1}
  /\ ~Registered(a.name)

(* -1 says that the name is taken; -2 says nothing.                        *)
RegisterNo(a) ==
  /\ a.kind = "register" /\ ~a.isok
  /\ \/ a.id = -1 /\ \E r \in accounts : r.name = a.name
     \/ a.id = -2

LoginOk(a) ==
  /\ a.kind = "login" /\ a.isok
  /\ \E r \in Accounts(a.name, a.passwd) : a.id = r.uid

LoginNo(a) == a.kind = "login" /\ ~a.isok /\ a.id = -1

Answer(a) ==
  /\ RegisterOk(a) \/ RegisterNo(a) \/ LoginOk(a) \/ LoginNo(a)
  /\ answers' = Append(answers, a)
  /\ UNCHANGED accounts

AnswerRecord == [kind : {"register", "login"}, isok : BOOLEAN,
                 name : Names, passwd : Passwds, id : Int]

Next ==
  \/ \E n \in Names, p \in Passwds : \E r \in accounts' : Create(n, p, r.uid)
  \/ answers' # <<>> /\ Answer(answers'[Len(answers')])

Spec == Init /\ [][Next]_vars
=============================================================================
