------------------------------ MODULE LogicServer ------------------------------
(***************************************************************************)
(* server/Logic: the Logic server.  Three threads: the main thread that    *)
(* runs and stops the server, the LogicIO thread that talks to the Gate,   *)
(* and the one LogicWorker Logic::init makes.  They share _msgs_in (under  *)
(* the mutex of the worker's condition variable), the MutexList of answers *)
(* and the thread flags _quit and _over.  A section under a mutex is one   *)
(* step; what happens before and after it are others.                      *)
(***************************************************************************)
EXTENDS Integers, Sequences

CONSTANTS
  Uids,      (* user ids                                                  *)
  Sths,      (* what users ask for in a dosth                             *)
  Frames,    (* the messages the Gate may send                            *)
  MaxSaid    (* bound: how many it sends                                  *)

Kinds == {"verifyrsp", "online", "offline", "dosth", "other"}
Msg == [kind : Kinds, uid : Uids \cup {0}, sth : Sths]
Rsp == [uid : Uids, sth : Sths]

ASSUME LogicAssumption ==
  /\ Uids \subseteq Nat \ {0}
  /\ Frames \subseteq Msg
  /\ MaxSaid \in Nat

Threads == {"io", "worker"}

VARIABLES
  wire,      (* messages the Gate wrote and LogicIO has not read          *)
  said,      (* how many it wrote                                         *)
  gate,      (* the Gate's end of the connection is open                  *)
  sent,      (* the answers the Gate can read                             *)
  conn,      (* LogicIO's socket is open                                  *)
  io_pc,     (* where the IO thread is                                    *)
  parsed,    (* handler_epevent's msgs                                    *)
  io_msgs,   (* the worker's _io_msgs                                     *)
  io_out,    (* handler_worker_msgs' msgs                                 *)
  w_pc,      (* where the worker thread is                                *)
  msgs_in,   (* _msgs_in                                                  *)
  w_msgs,    (* handler_msgs' msgs                                        *)
  users,     (* users[u]: the _uid of the user _users has under u, or 0   *)
  out_msgs,  (* the worker's _out_msgs                                    *)
  to_io,     (* Logic's _out_msgs, the MutexList                          *)
  quit,      (* quit[t]: thread t's _quit                                 *)
  over,      (* over[t]: its _over                                        *)
  main_pc    (* where the main thread is in run() and stop()              *)

netVars  == <<wire, said, gate, sent, conn>>
ioVars   == <<io_pc, parsed, io_msgs, io_out>>
workVars == <<w_pc, msgs_in, w_msgs, users, out_msgs>>
mainVars == <<quit, over, main_pc>>
vars == <<netVars, ioVars, workVars, to_io, mainVars>>

(* A thread that was not started is over and not told to quit.             *)
IThread ==
  /\ quit = [t \in Threads |-> FALSE]
  /\ over = [t \in Threads |-> TRUE]

Init ==
  /\ wire = <<>> /\ said = 0 /\ gate = TRUE /\ sent = <<>> /\ conn = TRUE
  /\ io_pc = "new" /\ parsed = <<>> /\ io_msgs = <<>> /\ io_out = <<>>
  /\ w_pc = "new" /\ msgs_in = <<>> /\ w_msgs = <<>> /\ out_msgs = <<>>
  /\ users = [u \in Uids |-> 0]
  /\ to_io = <<>>
  /\ IThread
  /\ main_pc = "init"

(* Ending a thread: another one sets its _quit, it sets its _over.         *)
quits(t) == quit' = [quit EXCEPT ![t] = TRUE]
tover(t) == over' = [over EXCEPT ![t] = TRUE]
-----------------------------------------------------------------------------
(* The Gate.                                                               *)
GateSends(m) ==
  /\ gate
  /\ said < MaxSaid
  /\ said' = said + 1
  /\ wire' = Append(wire, m)
  /\ UNCHANGED <<gate, sent, conn, ioVars, workVars, to_io, mainVars>>

GateCloses ==
  /\ gate
  /\ gate' = FALSE
  /\ UNCHANGED <<wire, said, sent, conn, ioVars, workVars, to_io, mainVars>>
-----------------------------------------------------------------------------
(* notify_all: a waiting worker goes on; a notification that finds it      *)
(* elsewhere is lost.                                                      *)
notify_all == w_pc' = IF w_pc = "wait" THEN "woken" ELSE w_pc

(* LogicIO, thread_func: another turn, or the end.                         *)
IOTop ==
  /\ io_pc = "top"
  /\ io_pc' = IF quit["io"] THEN "unit" ELSE "read"
  /\ UNCHANGED <<netVars, parsed, io_msgs, io_out, workVars, to_io, mainVars>>

(* handler_epevent: everything that came is read and parsed; the end of    *)
(* the connection closes the socket, and nobody looks at that result.      *)
IORead ==
  /\ io_pc = "read"
  /\ IF conn /\ (wire # <<>> \/ ~gate)
       THEN /\ parsed' = wire
            /\ wire' = <<>>
            /\ conn' = gate
       ELSE UNCHANGED <<parsed, wire, conn>>
  /\ io_pc' = "dispatch"
  /\ UNCHANGED <<said, gate, sent, io_msgs, io_out, workVars, to_io, mainVars>>

(* It logs the Gate's answer.  Anything else is for the only worker.       *)
on_verify_ret(m) == m.kind = "verifyrsp" /\ UNCHANGED io_msgs
ToWorker(m) == m.kind # "verifyrsp" /\ io_msgs' = Append(io_msgs, m)

IODispatch ==
  /\ io_pc = "dispatch"
  /\ parsed # <<>>
  /\ parsed' = Tail(parsed)
  /\ on_verify_ret(Head(parsed)) \/ ToWorker(Head(parsed))
  /\ UNCHANGED <<netVars, io_pc, io_out, workVars, to_io, mainVars>>

IODispatched ==
  /\ io_pc = "dispatch"
  /\ parsed = <<>>
  /\ io_pc' = IF io_msgs = <<>> THEN "get" ELSE "push"
  /\ UNCHANGED <<netVars, parsed, io_msgs, io_out, workVars, to_io, mainVars>>

(* mutant: _io_msgs is not cleared                                         *)
IOPushKeeping ==
  /\ io_pc = "push"
  /\ msgs_in' = msgs_in \o io_msgs
  /\ io_pc' = "notify"
  /\ UNCHANGED <<netVars, parsed, io_msgs, io_out>>
  /\ UNCHANGED <<w_pc, w_msgs, users, out_msgs, to_io, mainVars>>

(* notify_msg_in: the insertion under the mutex, then the notification.    *)
IOPush ==
  /\ io_pc = "push"
  /\ msgs_in' = msgs_in \o io_msgs
  /\ io_msgs' = <<>>
  /\ io_pc' = "notify"
  /\ UNCHANGED <<netVars, parsed, io_out>>
  /\ UNCHANGED <<w_pc, w_msgs, users, out_msgs, to_io, mainVars>>

IONotify ==
  /\ io_pc = "notify"
  /\ notify_all
  /\ io_pc' = "get"
  /\ UNCHANGED <<netVars, parsed, io_msgs, io_out>>
  /\ UNCHANGED <<msgs_in, w_msgs, users, out_msgs, to_io, mainVars>>

get_more == io_out' = to_io /\ to_io' = <<>>

(* handler_worker_msgs: the list is emptied; then one write each.          *)
IOGet ==
  /\ io_pc = "get"
  /\ get_more
  /\ io_pc' = "write"
  /\ UNCHANGED <<netVars, parsed, io_msgs, workVars, mainVars>>

(* A write to a closed socket or a closed peer fails, which is ignored.    *)
IOWrite ==
  /\ io_pc = "write"
  /\ io_out # <<>>
  /\ io_out' = Tail(io_out)
  /\ sent' = IF gate /\ conn THEN Append(sent, Head(io_out)) ELSE sent
  /\ UNCHANGED <<wire, said, gate, conn, io_pc, parsed, io_msgs>>
  /\ UNCHANGED <<workVars, to_io, mainVars>>

IOWritten ==
  /\ io_pc = "write"
  /\ io_out = <<>>
  /\ io_pc' = "top"
  /\ UNCHANGED <<netVars, parsed, io_msgs, io_out, workVars, to_io, mainVars>>

(* unit, tover                                                             *)
IOUnit ==
  /\ io_pc = "unit"
  /\ conn' = FALSE
  /\ io_pc' = "over"
  /\ tover("io")
  /\ UNCHANGED <<wire, said, gate, sent, parsed, io_msgs, io_out>>
  /\ UNCHANGED <<workVars, to_io, quit, main_pc>>

IONext ==
  \/ IOTop \/ IORead \/ IODispatch \/ IODispatched \/ IOPush \/ IONotify
  \/ IOGet \/ IOWrite \/ IOWritten \/ IOUnit
-----------------------------------------------------------------------------
(* LogicWorker, thread_func.                                               *)
WTop ==
  /\ w_pc = "top"
  /\ w_pc' = IF quit["worker"] THEN "unit" ELSE "enter"
  /\ UNCHANGED <<netVars, ioVars, msgs_in, w_msgs, users, out_msgs>>
  /\ UNCHANGED <<to_io, mainVars>>

(* handler_msgs: it waits without looking at _msgs_in.                     *)
WWait ==
  /\ w_pc = "enter"
  /\ w_pc' = "wait"
  /\ UNCHANGED <<netVars, ioVars, msgs_in, w_msgs, users, out_msgs>>
  /\ UNCHANGED <<to_io, mainVars>>

(* The standard lets a wait end by itself.                                 *)
WSpurious ==
  /\ w_pc = "wait"
  /\ w_pc' = "woken"
  /\ UNCHANGED <<netVars, ioVars, msgs_in, w_msgs, users, out_msgs>>
  /\ UNCHANGED <<to_io, mainVars>>

(* mutant: one message per wakeup                                          *)
WTakeOne ==
  /\ w_pc = "woken"
  /\ IF msgs_in = <<>>
       THEN UNCHANGED <<w_msgs, msgs_in>>
       ELSE w_msgs' = <<Head(msgs_in)>> /\ msgs_in' = Tail(msgs_in)
  /\ w_pc' = "handle"
  /\ UNCHANGED <<netVars, ioVars, users, out_msgs, to_io, mainVars>>

WTake ==
  /\ w_pc = "woken"
  /\ w_msgs' = msgs_in
  /\ msgs_in' = <<>>
  /\ w_pc' = "handle"
  /\ UNCHANGED <<netVars, ioVars, users, out_msgs, to_io, mainVars>>

(* The handlers.  Offline keeps the user and gives it the uid it has.      *)
Known(m) == m.uid \in Uids /\ users[m.uid] # 0

on_user_online(m) ==
  /\ m.kind = "online"
  /\ users' = [u \in Uids |-> IF u = m.uid /\ users[u] = 0 THEN u ELSE users[u]]
  /\ UNCHANGED out_msgs

on_user_offline(m) ==
  /\ m.kind = "offline"
  /\ Known(m)
  /\ users' = [users EXCEPT ![m.uid] = m.uid]
  /\ UNCHANGED out_msgs

on_user_dosth(m) ==
  /\ m.kind = "dosth"
  /\ Known(m)
  /\ out_msgs' = Append(out_msgs, [uid |-> users[m.uid], sth |-> m.sth])
  /\ UNCHANGED users

Handlers == {"online", "offline", "dosth"}

(* No handler, or a message of a user that did not come online.            *)
Dropped(m) ==
  /\ \/ m.kind \notin Handlers
     \/ m.kind # "online" /\ ~Known(m)
  /\ UNCHANGED <<users, out_msgs>>

handler_one_msg ==
  /\ w_pc = "handle"
  /\ w_msgs # <<>>
  /\ w_msgs' = Tail(w_msgs)
  /\ LET m == Head(w_msgs) IN
       on_user_online(m) \/ on_user_offline(m) \/ on_user_dosth(m) \/ Dropped(m)
  /\ UNCHANGED <<netVars, ioVars, w_pc, msgs_in, to_io, mainVars>>

(* mutant: add_more replaces what is there                                 *)
add_more_over(list) == to_io' = list

add_more(list) == to_io' = to_io \o list

(* mutant: _out_msgs is not cleared                                        *)
handler_reply_keeping ==
  /\ w_pc = "handle"
  /\ w_msgs = <<>>
  /\ add_more(out_msgs)
  /\ w_pc' = "top"
  /\ UNCHANGED <<netVars, ioVars, msgs_in, w_msgs, users, out_msgs, mainVars>>

handler_reply ==
  /\ w_pc = "handle"
  /\ w_msgs = <<>>
  /\ add_more(out_msgs)
  /\ out_msgs' = <<>>
  /\ w_pc' = "top"
  /\ UNCHANGED <<netVars, ioVars, msgs_in, w_msgs, users, mainVars>>

(* unit clears the lists, the IO's _io_msgs too; tover                     *)
WUnit ==
  /\ w_pc = "unit"
  /\ msgs_in' = <<>> /\ io_msgs' = <<>> /\ out_msgs' = <<>>
  /\ w_pc' = "over"
  /\ tover("worker")
  /\ UNCHANGED <<netVars, io_pc, parsed, io_out, w_msgs, users, to_io>>
  /\ UNCHANGED <<quit, main_pc>>

WorkerNext ==
  WTop \/ WWait \/ WTake \/ handler_one_msg \/ handler_reply \/ WUnit
-----------------------------------------------------------------------------
(* The main thread.  run() starts the IO thread and then the worker.       *)
Start(t, pc, then) ==
  /\ over' = [over EXCEPT ![t] = FALSE]
  /\ main_pc' = then
  /\ IF t = "io" THEN io_pc' = pc /\ UNCHANGED w_pc
                 ELSE w_pc' = pc /\ UNCHANGED io_pc
  /\ UNCHANGED <<netVars, parsed, io_msgs, io_out>>
  /\ UNCHANGED <<msgs_in, w_msgs, users, out_msgs, to_io, quit>>

run ==
  \/ main_pc = "init" /\ Start("io", "top", "starting")
  \/ main_pc = "starting" /\ Start("worker", "top", "running")

(* stop(), when it is called, ends the IO thread first.                    *)
stop ==
  /\ main_pc = "running"
  /\ quits("io")
  /\ main_pc' = "wait_io"
  /\ UNCHANGED <<netVars, ioVars, workVars, to_io, over>>

(* mutant: the worker is stopped without waiting for the IO thread         *)
StopWorkerEarly ==
  /\ main_pc = "wait_io"
  /\ quits("worker")
  /\ main_pc' = "poke"
  /\ UNCHANGED <<netVars, ioVars, workVars, to_io, over>>

StopWorker ==
  /\ main_pc = "wait_io"
  /\ over["io"]
  /\ quits("worker")
  /\ main_pc' = "poke"
  /\ UNCHANGED <<netVars, ioVars, workVars, to_io, over>>

(* mutant: just_notify is called once                                      *)
PokeOnce ==
  /\ main_pc = "poke"
  /\ ~over["worker"]
  /\ notify_all
  /\ main_pc' = "join"
  /\ UNCHANGED <<netVars, ioVars, msgs_in, w_msgs, users, out_msgs>>
  /\ UNCHANGED <<to_io, quit, over>>

(* just_notify, until is_over                                              *)
Poke ==
  /\ main_pc = "poke"
  /\ ~over["worker"]
  /\ notify_all
  /\ UNCHANGED <<netVars, ioVars, msgs_in, w_msgs, users, out_msgs>>
  /\ UNCHANGED <<to_io, mainVars>>

PokeEnds ==
  /\ main_pc = "poke"
  /\ over["worker"]
  /\ main_pc' = "join"
  /\ UNCHANGED <<netVars, ioVars, workVars, to_io, quit, over>>

join ==
  /\ main_pc = "join"
  /\ over["worker"]
  /\ main_pc' = "done"
  /\ UNCHANGED <<netVars, ioVars, workVars, to_io, quit, over>>

MainNext == run \/ StopWorker \/ Poke \/ PokeEnds \/ join

(* stop() has returned: nothing moves but, maybe, the Gate.                *)
Stopped == main_pc = "done" /\ UNCHANGED vars

Next ==
  \/ \E m \in Frames : GateSends(m)
  \/ GateCloses
  \/ IONext
  \/ WorkerNext
  \/ WSpurious
  \/ MainNext
  \/ stop
  \/ Stopped

(* The scheduler runs every thread that can move.                          *)
Fairness == WF_vars(IONext) /\ WF_vars(WorkerNext) /\ WF_vars(MainNext)

Spec == Init /\ [][Next]_vars /\ Fairness
-----------------------------------------------------------------------------
Msgs == Seq(Frames)
Rsps == Seq(Rsp)

(* Type invariant.  The working lists of a thread are empty between its    *)
(* loops, a user is known as itself, and _over is what the threads did.    *)
TypeOK ==
  /\ wire \in Msgs /\ said \in Nat /\ gate \in BOOLEAN /\ conn \in BOOLEAN
  /\ sent \in Rsps /\ io_out \in Rsps /\ to_io \in Rsps /\ out_msgs \in Rsps
  /\ parsed \in Msgs /\ io_msgs \in Msgs /\ msgs_in \in Msgs /\ w_msgs \in Msgs
  /\ io_pc \in {"new", "top", "read", "dispatch", "push", "notify", "get",
                "write", "unit", "over"}
  /\ w_pc \in {"new", "top", "enter", "wait", "woken", "handle", "unit", "over"}
  /\ main_pc \in {"init", "starting", "running", "wait_io", "poke", "join",
                  "done"}
  /\ users \in [Uids -> Uids \cup {0}]
  /\ \A u \in Uids : users[u] \in {0, u}
  /\ quit \in [Threads -> BOOLEAN]
  /\ over \in [Threads -> BOOLEAN]
  /\ over["io"] <=> io_pc \in {"new", "over"}
  /\ over["worker"] <=> w_pc \in {"new", "over"}
  /\ w_pc # "handle" => w_msgs = <<>> /\ out_msgs = <<>>
  /\ io_pc # "dispatch" => parsed = <<>>
  /\ io_pc \notin {"dispatch", "push"} => io_msgs = <<>>
  /\ io_pc # "write" => io_out = <<>>

(* LogicWorker.hpp:48: only LogicIO may touch _io_msgs, which has no lock. *)
(* The worker's unit() does, when the IO thread has ended.                 *)
IoMsgsOwned == w_pc \in {"unit", "over"} => io_pc = "over"

(* The Logic is the service the Gate takes it for: through four lists, two *)
(* threads and a restless condition variable no message is lost, doubled   *)
(* or overtaken before the server is stopped, and no answer is.            *)
Pending == (w_msgs \o msgs_in) \o io_msgs
Answers == (io_out \o to_io) \o out_msgs

Service == INSTANCE LogicService
  WITH pending <- Pending, known <- {u \in Uids : users[u] # 0},
       answers <- Answers, up <- gate /\ conn, stopping <- quit["io"]

ImplementsService == Service!Spec

(* A notification that finds the worker waiting, or any other wakeup, gets *)
(* everything handled that _msgs_in holds by then, however the IO thread   *)
(* fills it meanwhile.                                                     *)
Handled == said - Len(wire) - Len(parsed) - Len(Pending)

WokenDrains ==
  \A n \in 1 .. MaxSaid :
    w_pc = "woken" /\ Handled + Len(msgs_in) >= n ~> Handled >= n

(* Answers the worker handed over leave for the Gate, unless the server is *)
(* stopped or the connection ends.                                         *)
AnswersGoOut ==
  \A n \in 1 .. MaxSaid :
    Len(sent) + Len(Answers) >= n ~> Len(sent) >= n \/ quit["io"] \/ ~gate

(* stop() returns, wherever the threads are when it is called: the worker  *)
(* may be about to wait, and only a later notification wakes it.           *)
StopCompletes == main_pc = "wait_io" ~> main_pc = "done"
=============================================================================
