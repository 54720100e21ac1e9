------------------------------- MODULE Lifecycle -------------------------------
(***************************************************************************)
(* How a process of ServerMain comes up, runs and goes down: the main      *)
(* thread, the threads of the Gate and of the Logic it may run, and the    *)
(* table of descriptors they share.  Every object remembers the number of  *)
(* its descriptor and never forgets it: unit() closes whatever has it, and *)
(* when an initialization fails it is called again and again.  What the    *)
(* threads do in their loops is in Gate and in LogicServer; here they      *)
(* open and close descriptors.                                             *)
(***************************************************************************)
EXTENDS Naturals, Sequences, FiniteSets

CONSTANTS
  Fds,         (* descriptor numbers                                       *)
  Users,       (* connections of users to the Gate                         *)
  MaxFaults    (* bound: how many system calls fail                        *)

(* The objects with a descriptor: _sock_fd and _epoll_fd of GateIO's,      *)
(* GateWorker's and LogicIO's TcpOp.                                       *)
Objs == {"listen", "gate_epoll", "worker_epoll", "logic_sock", "logic_epoll"}
Threads == {"GateMngr", "GateWorker", "LogicIO", "LogicWorker"}
TheLogic == "logic"      (* the Logic's connection, at the Gate's end      *)
Conns == Users \cup {TheLogic}
NONE == "none"           (* the owner of a number that is not open         *)

(* 0 stands for no number; users are none of the other owners.             *)
ASSUME LifecycleAssumption ==
  /\ Fds \subseteq Nat \ {0} /\ MaxFaults \in Nat
  /\ Users \cap (Objs \cup {TheLogic, NONE}) = {}

VARIABLES
  run_gate, run_logic,   (* _run_gate, _run_logic                          *)
  pc,        (* what the main thread does next                             *)
  command,   (* the command it works on                                    *)
  held,      (* which of _gate and _logic ServerMain holds                 *)
  th,        (* th[t]: "none", "loop", "stopping", "unit", "over", "joined"*)
  quit,      (* quit[t]: its _quit                                         *)
  todo,      (* todo[t]: what unit() still closes; "main" during init      *)
  open,      (* open[f]: the object or connection that has the number f    *)
  num,       (* num[o]: the number o remembers; 0 if none, or not yet      *)
  conn,      (* conn[c]: "none", "waiting" in the backlog, "open" or       *)
             (* "closed", at the Gate's end                                *)
  watch,     (* watch[c]: the thread whose epoll has c                     *)
  left,      (* connections whose other end is closed                      *)
  dropped,   (* history: the Gate gave up the Logic's connection at once   *)
  faults     (* history: how many system calls failed                      *)

fdVars == <<open, num, conn, left>>
thVars == <<th, quit>>
mainVars == <<run_gate, run_logic, pc, command, held>>
vars == <<mainVars, thVars, todo, fdVars, watch, dropped, faults>>
-----------------------------------------------------------------------------
(* Descriptors.                                                            *)
Free == {f \in Fds : open[f] = NONE}
Lowest(S) == CHOOSE f \in S : \A g \in S : f <= g

Fault == faults < MaxFaults /\ faults' = faults + 1
NoFault == faults' = faults

Obtain(o) ==
  /\ Free # {}
  /\ open' = [open EXCEPT ![Lowest(Free)] = o]
  /\ num' = [num EXCEPT ![o] = Lowest(Free)]

(* close(f), whatever it is.  Connections that wait for a listening socket *)
(* end with it.                                                            *)
Close(f) ==
  /\ open' = [open EXCEPT ![f] = NONE]
  /\ conn' = [c \in Conns |->
       IF open[f] = c \/ (open[f] = "listen" /\ conn[c] = "waiting") THEN "closed" ELSE conn[c]]
  /\ left' = IF open[f] = "logic_sock" THEN left \cup {TheLogic} ELSE left

(* What TcpOp::unit and EpollOp::unit do with the number they remember.    *)
close_fd(o) ==
  /\ IF num[o] > 0 THEN Close(num[o]) ELSE UNCHANGED <<open, conn, left>>
  /\ UNCHANGED num

(* mutant: the GateMngr closes what is its worker's, too                   *)
unit_all(t) ==
  CASE t = "GateMngr"   -> <<"listen", "gate_epoll", "worker_epoll">>
    [] t = "GateWorker" -> <<"worker_epoll">>
    [] t = "LogicIO"    -> <<"logic_sock", "logic_epoll">>
    [] OTHER            -> <<>>

unit(t) ==
  CASE t = "GateMngr"   -> <<"listen", "gate_epoll">>
    [] t = "GateWorker" -> <<"worker_epoll">>
    [] t = "LogicIO"    -> <<"logic_sock", "logic_epoll">>
    [] OTHER            -> <<>>
Times(n, s) == [i \in 1 .. n * Len(s) |-> s[((i - 1) % Len(s)) + 1]]

Init ==
  /\ run_gate \in BOOLEAN /\ run_logic \in BOOLEAN /\ (run_gate \/ run_logic)
  /\ pc = "init" /\ command = "none" /\ held = {}
  /\ th = [t \in Threads |-> "none"] /\ quit = [t \in Threads |-> FALSE]
  /\ todo = [t \in Threads \cup {"main"} |-> <<>>]
  /\ open = [f \in Fds |-> NONE] /\ num = [o \in Objs |-> 0]
  /\ conn = [c \in Conns |-> "none"] /\ watch = [c \in Conns |-> "none"]
  /\ left = {} /\ dropped = FALSE /\ faults = 0
-----------------------------------------------------------------------------
(* ServerMain::init.  Nothing but the main thread runs.                    *)
Goto(p) == pc' = p /\ UNCHANGED <<run_gate, run_logic, command>>
InitFails(t, n) ==
  /\ Goto("failing") /\ UNCHANGED held
  /\ todo' = [todo EXCEPT !["main"] = Times(n, unit(t))]
AfterGate == IF run_logic THEN "init_logic" ELSE "run"

(* set_res_limit, and ServerBase::init with its database.                  *)
InitSystem ==
  /\ pc = "init"
  /\ UNCHANGED <<held, thVars, todo, fdVars, watch, dropped>>
  /\ \/ Fault /\ Goto("ended")
     \/ NoFault /\ Goto(IF run_gate THEN "init_gate" ELSE "init_logic")

InitServer ==
  /\ pc \in {"init_gate", "init_logic"}
  /\ held' = held \cup {IF pc = "init_gate" THEN "gate" ELSE "logic"}
  /\ UNCHANGED <<thVars, todo, fdVars, watch, dropped>>
  /\ \/ Fault /\ Goto("ended")
     \/ NoFault /\ Goto(IF pc = "init_gate" THEN "gate_epoll" ELSE "logic_epoll")

(* EpollOp::init.  When it fails, TcpOp::init, GateIO::init and            *)
(* GateMngr::init call unit() one after the other, or TcpOp::init and      *)
(* LogicIO::init do.                                                       *)
InitEpoll ==
  /\ pc \in {"gate_epoll", "logic_epoll"}
  /\ UNCHANGED <<thVars, conn, left, watch, dropped>>
  /\ \/ /\ Obtain(pc) /\ NoFault
        /\ Goto(IF pc = "gate_epoll" THEN "listen" ELSE "connect")
        /\ UNCHANGED <<held, todo>>
     \/ /\ Fault \/ (Free = {} /\ NoFault)
        /\ UNCHANGED <<open, num>>
        /\ IF pc = "gate_epoll" THEN InitFails("GateMngr", 3) ELSE InitFails("LogicIO", 2)

(* TcpOp::init_server.  It calls unit() when it fails, and TcpOp::init,    *)
(* which ignores that, when epoll_add does.                                *)
InitListen ==
  /\ pc = "listen"
  /\ UNCHANGED <<thVars, conn, left, watch, dropped>>
  /\ \/ Obtain("listen") /\ NoFault /\ Goto("gate_add") /\ UNCHANGED <<held, todo>>
     \/ /\ Fault \/ (Free = {} /\ NoFault)
        /\ UNCHANGED <<open, num>>
        /\ InitFails("GateMngr", 4)

(* TcpOp::init_client: up to three times.  The own Gate's socket listens,  *)
(* although nobody accepts yet; another Gate may or may not be there.      *)
InitConnect ==
  /\ pc = "connect"
  /\ UNCHANGED <<thVars, left, watch, dropped>>
  /\ \/ /\ Obtain("logic_sock") /\ NoFault /\ Goto("logic_add")
        /\ conn' = [conn EXCEPT ![TheLogic] = IF run_gate THEN "waiting" ELSE "open"]
        /\ UNCHANGED <<held, todo>>
     \/ /\ Fault \/ (Free = {} /\ NoFault)
        /\ UNCHANGED <<open, num, conn>>
        /\ InitFails("LogicIO", 2)

(* TcpOp::init, epoll_add.                                                 *)
InitAdd ==
  /\ pc \in {"gate_add", "logic_add"}
  /\ UNCHANGED <<thVars, fdVars, watch, dropped>>
  /\ \/ /\ NoFault /\ UNCHANGED <<held, todo>>
        /\ Goto(IF pc = "gate_add" THEN AfterGate ELSE "verify")
     \/ /\ Fault
        /\ IF pc = "gate_add" THEN InitFails("GateMngr", 3) ELSE InitFails("LogicIO", 2)

(* LogicIO::verify_to_gate: it fails unless all is written.  init_net and  *)
(* init both call unit().                                                  *)
InitVerify ==
  /\ pc = "verify"
  /\ UNCHANGED <<thVars, fdVars, watch, dropped>>
  /\ \/ NoFault /\ Goto("run") /\ UNCHANGED <<held, todo>>
     \/ (Fault \/ (conn[TheLogic] = "closed" /\ NoFault)) /\ InitFails("LogicIO", 2)

(* The units of an initialization that failed.                             *)
Failing ==
  /\ pc = "failing"
  /\ UNCHANGED <<held, thVars, watch, dropped, faults>>
  /\ IF todo["main"] = <<>>
       THEN Goto("ended") /\ UNCHANGED <<todo, fdVars>>
       ELSE /\ close_fd(Head(todo["main"]))
            /\ todo' = [todo EXCEPT !["main"] = Tail(@)]
            /\ UNCHANGED mainVars

MainInit ==
  InitSystem \/ InitServer \/ InitEpoll \/ InitListen \/ InitConnect \/ InitAdd
    \/ InitVerify \/ Failing
-----------------------------------------------------------------------------
(* ServerMain::run: Gate::run, Logic::run.                                 *)
start(t) == th' = [th EXCEPT ![t] = "loop"]

Run ==
  /\ pc \in {"run", "run_logic", "run_worker"}
  /\ UNCHANGED <<held, quit, todo, fdVars, watch, dropped, faults>>
  /\ CASE pc = "run" -> /\ IF run_gate THEN start("GateMngr") ELSE UNCHANGED th
                        /\ Goto(IF run_logic THEN "run_logic" ELSE "commands")
       [] pc = "run_logic" -> start("LogicIO") /\ Goto("run_worker")
       [] OTHER -> start("LogicWorker") /\ Goto("commands")

(* server_tests: a line is read.  quit stops the Logic and then the Gate,  *)
(* and releases neither before the process ends.                           *)
ReadCommand(line) ==
  /\ pc = "commands"
  /\ line = "gateoff" => "gate" \in held
  /\ line = "logicoff" => "logic" \in held
  /\ command' = line
  /\ pc' = IF line = "gateoff" THEN "stop_gate" ELSE "stop_logic"
  /\ UNCHANGED <<run_gate, run_logic, held, thVars, todo, fdVars, watch, dropped, faults>>

stop(t) == quit' = [quit EXCEPT ![t] = TRUE] /\ UNCHANGED th

(* mutant: the thread is joined whether or not it was seen to be over      *)
join_unseen(t) == th' = [th EXCEPT ![t] = "joined"] /\ UNCHANGED quit

(* is_over, join.                                                          *)
join(t) == th[t] = "over" /\ th' = [th EXCEPT ![t] = "joined"] /\ UNCHANGED quit

Stopped(server) ==
  IF command = "quit"
    THEN /\ pc' = IF server = "logic" THEN "stop_gate" ELSE "ended"
         /\ UNCHANGED held
    ELSE pc' = "commands" /\ held' = held \ {server}

(* Logic::stop.  (How the worker is woken is in LogicServer.)              *)
StopLogic ==
  /\ CASE pc = "stop_logic" ->
            IF "logic" \in held
              THEN stop("LogicIO") /\ pc' = "join_io" /\ UNCHANGED held
              ELSE Stopped("logic") /\ UNCHANGED thVars
       [] pc = "join_io" -> join("LogicIO") /\ pc' = "stop_worker" /\ UNCHANGED held
       [] pc = "stop_worker" -> stop("LogicWorker") /\ pc' = "join_worker" /\ UNCHANGED held
       [] pc = "join_worker" -> join("LogicWorker") /\ Stopped("logic")
       [] OTHER -> FALSE
  /\ UNCHANGED <<run_gate, run_logic, command, todo, fdVars, watch, dropped, faults>>

(* Gate::stop.  A GateMngr that is held has been started.                  *)
StopGate ==
  /\ CASE pc = "stop_gate" ->
            IF "gate" \in held
              THEN stop("GateMngr") /\ pc' = "join_gate" /\ UNCHANGED held
              ELSE Stopped("gate") /\ UNCHANGED thVars
       [] pc = "join_gate" -> join("GateMngr") /\ Stopped("gate")
       [] OTHER -> FALSE
  /\ UNCHANGED <<run_gate, run_logic, command, todo, fdVars, watch, dropped, faults>>
-----------------------------------------------------------------------------
(* The threads.                                                            *)

(* mutant: unit() is called once more by whoever stops the thread          *)
Leaves_twice(t) ==
  /\ t # "GateMngr" /\ th[t] = "loop" /\ quit[t]
  /\ th' = [th EXCEPT ![t] = "unit"]
  /\ todo' = [todo EXCEPT ![t] = Times(2, unit(t))]
  /\ UNCHANGED <<mainVars, quit, fdVars, watch, dropped, faults>>

(* IThread::thread_func leaves its loop when it sees _quit, a plain bool,  *)
(* in some later turn.                                                     *)
Leaves(t) ==
  /\ t # "GateMngr" /\ th[t] = "loop" /\ quit[t]
  /\ th' = [th EXCEPT ![t] = "unit"]
  /\ todo' = [todo EXCEPT ![t] = unit(t)]
  /\ UNCHANGED <<mainVars, quit, fdVars, watch, dropped, faults>>

(* mutant: the worker is waited for and not stopped                        *)
GateLeaves_only ==
  /\ th["GateMngr"] = "loop" /\ quit["GateMngr"]
  /\ th' = [th EXCEPT !["GateMngr"] = "stopping"]
  /\ UNCHANGED <<mainVars, quit, todo, fdVars, watch, dropped, faults>>

(* GateMngr::unit begins with GateIO::stop: the worker is stopped, ...     *)
GateLeaves ==
  /\ th["GateMngr"] = "loop" /\ quit["GateMngr"]
  /\ th' = [th EXCEPT !["GateMngr"] = "stopping"]
  /\ quit' = [quit EXCEPT !["GateWorker"] = th["GateWorker"] # "none"]
  /\ UNCHANGED <<mainVars, todo, fdVars, watch, dropped, faults>>

(* ... seen to be over, and joined.                                        *)
GateStops ==
  /\ th["GateMngr"] = "stopping"
  /\ th["GateWorker"] \in {"none", "over"}
  /\ th' = [th EXCEPT !["GateMngr"] = "unit",
              !["GateWorker"] = IF @ = "over" THEN "joined" ELSE @]
  /\ todo' = [todo EXCEPT !["GateMngr"] = unit("GateMngr")]
  /\ UNCHANGED <<mainVars, quit, fdVars, watch, dropped, faults>>

(* TcpOp::unit, EpollOp::unit; tover.                                      *)
Unit(t) ==
  /\ th[t] = "unit"
  /\ IF todo[t] = <<>>
       THEN th' = [th EXCEPT ![t] = "over"] /\ UNCHANGED <<todo, fdVars>>
       ELSE /\ close_fd(Head(todo[t]))
            /\ todo' = [todo EXCEPT ![t] = Tail(@)]
            /\ UNCHANGED th
  /\ UNCHANGED <<mainVars, quit, watch, dropped, faults>>

(* TcpOp::accept: it closes the connection again when set_options or       *)
(* epoll_add fails.                                                        *)
Accept(c) ==
  /\ th["GateMngr"] = "loop" /\ conn[c] = "waiting" /\ Free # {}
  /\ \/ /\ open' = [open EXCEPT ![Lowest(Free)] = c]
        /\ conn' = [conn EXCEPT ![c] = "open"] /\ watch' = [watch EXCEPT ![c] = "GateMngr"]
        /\ NoFault /\ UNCHANGED dropped
     \/ /\ Fault
        /\ conn' = [conn EXCEPT ![c] = "closed"]
        /\ dropped' = (dropped \/ c = TheLogic)
        /\ UNCHANGED <<open, watch>>
  /\ UNCHANGED <<mainVars, thVars, todo, num, left>>

(* GateIO::on_logic_verifyed: the connection leaves the IO's epoll; when   *)
(* the worker's init fails it is in none.                                  *)
Verified ==
  /\ th["GateMngr"] = "loop" /\ watch[TheLogic] = "GateMngr"
  /\ \/ /\ Obtain("worker_epoll") /\ NoFault
        /\ start("GateWorker")
        /\ watch' = [watch EXCEPT ![TheLogic] = "GateWorker"]
     \/ /\ Fault \/ (Free = {} /\ NoFault)
        /\ watch' = [watch EXCEPT ![TheLogic] = "nobody"]
        /\ UNCHANGED <<open, num, th>>
  /\ UNCHANGED <<mainVars, quit, todo, conn, left, dropped>>

(* GateIO::on_user_logined, GateWorker::on_new_connect.                    *)
Logined(c) ==
  /\ c \in Users /\ th["GateMngr"] = "loop" /\ th["GateWorker"] = "loop"
  /\ watch[c] = "GateMngr"
  /\ watch' = [watch EXCEPT ![c] = "GateWorker"]
  /\ UNCHANGED <<mainVars, thVars, todo, fdVars, dropped, faults>>

(* A thread of the Gate sees the end of a connection.                      *)
ConnEnds(c) ==
  /\ conn[c] = "open" /\ c \in left
  /\ watch[c] \in Threads /\ th[watch[c]] = "loop"
  /\ \E f \in Fds : open[f] = c /\ Close(f)
  /\ watch' = [watch EXCEPT ![c] = "none"]
  /\ UNCHANGED <<mainVars, thVars, todo, num, dropped, faults>>

(* LogicIO sees the end of its connection: event_op closes the socket, and *)
(* nobody is told.                                                         *)
LogicEnds ==
  /\ th["LogicIO"] = "loop" /\ conn[TheLogic] = "closed"
  /\ \E f \in Fds : f = num["logic_sock"] /\ open[f] = "logic_sock" /\ Close(f)
  /\ UNCHANGED <<mainVars, thVars, todo, num, watch, dropped, faults>>

ThreadNext ==
  \/ \E t \in Threads : Leaves(t) \/ Unit(t)
  \/ GateLeaves \/ GateStops
  \/ \E c \in Conns : Accept(c) \/ Logined(c) \/ ConnEnds(c)
  \/ Verified \/ LogicEnds
-----------------------------------------------------------------------------
(* Those outside: users, a Logic in another process, a Gate in another.    *)
Connects(c) ==
  /\ c = TheLogic => ~run_logic
  /\ conn[c] = "none" /\ \E f \in Fds : open[f] = "listen"
  /\ conn' = [conn EXCEPT ![c] = "waiting"]
  /\ UNCHANGED <<mainVars, thVars, todo, open, num, left, watch, dropped, faults>>

Goes(c) ==
  /\ c = TheLogic => ~run_logic
  /\ conn[c] \in {"waiting", "open"} /\ c \notin left
  /\ left' = left \cup {c}
  /\ UNCHANGED <<mainVars, thVars, todo, open, num, conn, watch, dropped, faults>>

OtherGateGoes ==
  /\ ~run_gate /\ conn[TheLogic] = "open"
  /\ conn' = [conn EXCEPT ![TheLogic] = "closed"]
  /\ UNCHANGED <<mainVars, thVars, todo, open, num, left, watch, dropped, faults>>

Others == OtherGateGoes \/ \E c \in Conns : Connects(c) \/ Goes(c)

Ended == pc = "ended" /\ UNCHANGED vars

MainNext == MainInit \/ Run \/ StopLogic \/ StopGate
Next ==
  \/ MainNext \/ ThreadNext \/ Others \/ Ended
  \/ \E line \in {"gateoff", "logicoff", "quit"} : ReadCommand(line)

(* Every thread goes on; a loop ends its turn and looks at _quit, for      *)
(* epoll_wait returns after 100 ms at the latest.                          *)
Spec ==
  /\ Init /\ [][Next]_vars
  /\ WF_vars(MainNext)
  /\ \A t \in Threads : WF_vars(Leaves(t) \/ Unit(t))
  /\ WF_vars(GateLeaves \/ GateStops)
-----------------------------------------------------------------------------
ThreadOf == [o \in Objs |->
  CASE o \in {"listen", "gate_epoll"} -> "GateMngr"
    [] o = "worker_epoll" -> "GateWorker"
    [] OTHER -> "LogicIO"]
Own(t) == {o \in Objs : ThreadOf[o] = t}

(* What the main thread does: init, run, then commands.                    *)
InitSteps == {"init", "init_gate", "gate_epoll", "listen", "gate_add",
              "init_logic", "logic_epoll", "connect", "logic_add", "verify", "failing"}
RunSteps == {"run", "run_logic", "run_worker"}
LogicSteps == {"stop_logic", "join_io", "stop_worker", "join_worker"}
GateSteps == {"stop_gate", "join_gate"}

(* Type invariant.  A thread has nothing to close but what is its own.     *)
TypeOK ==
  /\ run_gate \in BOOLEAN /\ run_logic \in BOOLEAN
  /\ pc \in InitSteps \cup RunSteps \cup LogicSteps \cup GateSteps \cup {"commands", "ended"}
  /\ command \in {"none", "gateoff", "logicoff", "quit"}
  /\ held \subseteq {"gate", "logic"}
  /\ th \in [Threads -> {"none", "loop", "stopping", "unit", "over", "joined"}]
  /\ quit \in [Threads -> BOOLEAN]
  /\ todo \in [Threads \cup {"main"} -> Seq(Objs)]
  /\ \A t \in Threads : todo[t] \in Seq(Own(t))
  /\ open \in [Fds -> Objs \cup Conns \cup {NONE}]
  /\ num \in [Objs -> Fds \cup {0}]
  /\ conn \in [Conns -> {"none", "waiting", "open", "closed"}]
  /\ watch \in [Conns -> Threads \cup {"none", "nobody"}]
  /\ left \subseteq Conns /\ dropped \in BOOLEAN /\ faults \in 0 .. MaxFaults

(* While an object may still use or close the number it remembers, nobody  *)
(* else has it: however often unit() is called, on whatever is closed      *)
(* already, it closes nothing of others (TcpOp.cpp:121, EpollOp.cpp:99).   *)
(* Only a Gate that gives up the connection of the Logic in its own        *)
(* process makes LogicIO close its socket early, whose number a user's     *)
(* connection may get before LogicIO's unit() closes it again.             *)
MayUse(o) ==
  \/ th[ThreadOf[o]] \in {"loop", "stopping"}
  \/ \E t \in DOMAIN todo : \E i \in DOMAIN todo[t] : todo[t][i] = o
NumbersOwn ==
  ~dropped => \A o \in Objs : MayUse(o) /\ num[o] # 0 => open[num[o]] \in {o, NONE}

(* A server that is released, or left when the process ends, has no thread *)
(* that runs or that nobody has joined, and has closed what is its own;    *)
(* connections of users stay open (Gate.cpp:59, Logic.cpp:103,             *)
(* GateIO.cpp:405).                                                        *)
Down(ts) ==
  /\ \A t \in ts : th[t] \in {"none", "joined"}
  /\ \A o \in Objs : ThreadOf[o] \in ts => \A f \in Fds : open[f] # o
GateThreads == {"GateMngr", "GateWorker"}
CleanlyDown ==
  command # "none" /\ pc \in {"commands", "ended"} =>
    /\ "gate" \notin held => Down(GateThreads)
    /\ "logic" \notin held => Down(Threads \ GateThreads)
    /\ pc = "ended" => Down(Threads)

(* A process that is told to quit ends, and gateoff and logicoff return:   *)
(* no thread waits for ever for another to stop.                           *)
StopCompletes == pc \notin {"commands", "ended"} ~> pc \in {"commands", "ended"}
=============================================================================
