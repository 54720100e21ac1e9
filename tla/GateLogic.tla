------------------------------- MODULE GateLogic -------------------------------
(***************************************************************************)
(* The Gate with a Logic behind it: what a worker writes to its Logic's    *)
(* connection is what LogicService receives, in that order, and what the   *)
(* service answers is what the worker reads from that connection.  (That   *)
(* the Logic server is such a service is shown in LogicServer.)            *)
(***************************************************************************)
EXTENDS Gate

CONSTANT Logic     (* the connection whose peer is the Logic               *)

ASSUME GateLogicAssumption == Logic \in Conns

(* What the peers are taken to do: the Logic is the one that verifies      *)
(* itself, and it stays; nobody else speaks in its stead or the Gate's;    *)
(* a login has the uid of its user, or -1.                                 *)
OneLogic ==
  /\ Logic \notin MayClose
  /\ \A c \in Conns : \A m \in ClientFrames[c] : m.kind = "verify" => c = Logic

UsersSay ==
  \A c \in Conns : \A m \in ClientFrames[c] :
    /\ m.kind \notin {"online", "offline", "dosthrsp"}
    /\ m.kind = "login" => m.uid # 0

VARIABLES
  pending,   (* written to Logic and not handled by it yet                 *)
  known,     (* the users that came online there                           *)
  answers,   (* its answers that are not written yet                       *)
  replies,   (* its answers that are                                       *)
  told,      (* history: all that was written to Logic                     *)
  heard      (* history: how often an answer for the user u was written    *)
             (* to a connection                                            *)

logicVars == <<pending, known, answers, replies>>
allVars == <<vars, logicVars, told, heard>>

ToService(m) == [kind |-> m.kind, uid |-> m.uid, sth |-> m.kind]
Service ==
  INSTANCE LogicService WITH
    Frames <- {ToService(m) : m \in Msg}, sent <- replies,
    up <- peer[Logic] # "closed", stopping <- peer[Logic] = "stopped"

GateLogicInit ==
  /\ Init
  /\ pending = <<>> /\ known = {} /\ answers = <<>> /\ replies = <<>>
  /\ told = <<>> /\ heard = [u \in Uids |-> 0]

(* mutant: what was gathered is written in the order of its kinds          *)
WrittenByKind(w) ==
  SelectSeq(user_msgs_in[w], LAMBDA m : m.kind = "dosth")
    \o SelectSeq(user_msgs_in[w], LAMBDA m : m.kind # "dosth")

(* mutant: only the first is written                                       *)
WrittenFirst(w) ==
  IF openfd[sfd[logic[w]]] = Logic /\ user_msgs_in[w] # <<>>
    THEN <<Head(user_msgs_in[w])>> ELSE <<>>

(* The loops of handler_msgs: what is written to Logic, and to a user.     *)
Written(w) == IF openfd[sfd[logic[w]]] = Logic THEN user_msgs_in[w] ELSE <<>>

IsOf(m, kind, u) == m.kind = kind /\ m.uid = u

(* mutant: every connection of the user gets the answer                    *)
AnswersToAll(w, u) ==
  {a \in (DOMAIN logic_msgs_in[w]) \X Conns :
     /\ IsOf(logic_msgs_in[w][a[1]], "dosthrsp", u)
     /\ \E f \in Fds : openfd[f] = a[2] /\ users[w].sock[f] = a[2] /\ wk_uid[a[2]] = u}

(* Which of the Logic's messages are answers for u, and to whom they get.  *)
Answers(w, u) ==
  {a \in (DOMAIN logic_msgs_in[w]) \X Conns :
     /\ IsOf(logic_msgs_in[w][a[1]], "dosthrsp", u)
     /\ LET o == get_user_by_uid(users[w], u) IN o # NoConn /\ openfd[sfd[o]] = a[2]}

WriteMsgs(w) ==
  /\ handler_msgs(w)
  /\ pending' = pending \o [i \in DOMAIN Written(w) |-> ToService(Written(w)[i])]
  /\ told' = told \o Written(w)
  /\ heard' = [u \in Uids |-> heard[u] + Cardinality(Answers(w, u))]
  /\ UNCHANGED <<known, answers, replies>>

GateStep ==
  /\ \/ PeerNext \/ IONext
     \/ \E w \in Workers : WorkerNext(w) /\ ~(EventsDone(w) /\ AllParsedBy(w))
  /\ UNCHANGED <<logicVars, told, heard>>

LogicHandles == UNCHANGED <<vars, told, heard>> /\ Service!Handle

(* The Logic writes an answer to its connection.                           *)
LogicSends ==
  /\ UNCHANGED <<peer, got, inbox, sfd, openfd, epio, ep>>
  /\ UNCHANGED <<ioVars, queueVars, workVars, told, heard>>
  /\ Service!Send
  /\ said' = [said EXCEPT ![Logic] =
                Append(@, [kind |-> "dosthrsp", uid |-> Head(answers).uid])]

GateLogicNext ==
  \/ GateStep
  \/ \E w \in Workers : WriteMsgs(w)
  \/ LogicHandles
  \/ LogicSends

GateLogicSpec == GateLogicInit /\ [][GateLogicNext]_allVars
-----------------------------------------------------------------------------
(* How many messages of a kind and a user are in a sequence, and in the    *)
(* sequences q[x] of all x in S.                                           *)
Count(kind, u, s) == Cardinality({i \in DOMAIN s : IsOf(s[i], kind, u)})

Places(q, S) == UNION {{x} \X (DOMAIN q[x]) : x \in S}
CountAll(kind, u, q, S) ==
  Cardinality({p \in Places(q, S) : IsOf(q[p[1]][p[2]], kind, u)})

(* What the Gate has for the Logic, written or not.                        *)
Telling(kind, u) == Count(kind, u, told) + CountAll(kind, u, user_msgs_in, Workers)

(* What has been read from each connection.                                *)
Read == [c \in Conns |-> SubSeq(said[c], 1, got[c])]

(* No message of a user is dropped by the Logic: its Online got there      *)
(* before it, through four lists of two threads (LogicWorker.cpp:122).     *)
NeverUnknown ==
  pending # <<>> /\ Head(pending).kind = "dosth" => Head(pending).uid \in known

(* The Logic can tell who is there: for a user the Onlines it is told      *)
(* exceed the Offlines by the connections a worker serves him on, whoever  *)
(* else had their numbers or comes in as the same user.                    *)
PresenceTold ==
  \A u \in Uids :
    Telling("online", u) - Telling("offline", u)
      = Cardinality({c \in Accepted \ {Logic} :
          wk_uid[c] = u /\ \E w \in Workers : users[w].sock[sfd[c]] = c})

(* What has been read of a served user's messages has been told to the     *)
(* Logic once, or waits in the worker: nothing is lost or doubled between  *)
(* the IO thread's reads, the worker's and _rd_users, which is never       *)
(* cleared, nor at the end of the connection.                              *)
ForwardedOnce ==
  \A u \in Uids :
    LET asUser == {c \in Conns : wk_uid[c] = u} IN
    CountAll("dosth", u, Read, asUser)
      = Telling("dosth", u) + CountAll("dosth", u, wk_rd, asUser)

(* An answer reaches one connection, one logged in as the user whose       *)
(* message it answers; with those on their way no more than were asked.    *)
AnsweredOnce ==
  \A u \in Uids :
    /\ \A c \in Conns : [kind |-> "dosthrsp", uid |-> u] \in inbox[c] => SaidLogin(c, u)
    /\ heard[u] + Count("dosthrsp", u, Unread(Logic)) <= Count("dosth", u, told)
=============================================================================
