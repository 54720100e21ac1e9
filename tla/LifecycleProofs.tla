---------------------------- MODULE LifecycleProofs ----------------------------
(***************************************************************************)
(* What a process of ServerMain closes, and when it is down, for any       *)
(* number of users and descriptors and any number of system calls that     *)
(* fail.  unit() closes a number it remembers without asking whose it is   *)
(* by now; the proof says who may have it at every step of an              *)
(* initialization, of the threads' turns and of a stop.                    *)
(***************************************************************************)
EXTENDS Lifecycle, WellFoundedInduction, TLAPS

(* Nobody but the main thread has begun, or ever will.                     *)
Failed == pc = "failing" \/ (pc = "ended" /\ command = "none")
Early == pc \in InitSteps \cup {"run"} \/ Failed

ToClose(o) == \E i \in DOMAIN todo[ThreadOf[o]] : todo[ThreadOf[o]][i] = o
Shut(o) == \A f \in Fds : open[f] # o

(* The main thread's way, and what it holds and has obtained on it.        *)
MainWay ==
  /\ run_gate \/ run_logic
  /\ pc \in InitSteps \cup RunSteps => command = "none"
  /\ pc \in LogicSteps => command \in {"logicoff", "quit"}
  /\ pc \in GateSteps => command \in {"gateoff", "quit"}
  /\ pc # "failing" => todo["main"] = <<>>
  /\ pc \in {"init_gate", "gate_epoll", "listen", "gate_add"} => run_gate
  /\ pc \in {"init_logic", "logic_epoll", "connect", "logic_add", "verify",
             "run_logic", "run_worker"} => run_logic
  /\ "gate" \in held => run_gate
  /\ "logic" \in held => run_logic
  /\ run_gate /\ pc \in InitSteps \cup RunSteps => 
       "gate" \in held \/ pc \in {"init", "init_gate", "failing"}
  /\ run_logic /\ pc \in {"logic_epoll", "connect", "logic_add", "verify"} \cup RunSteps =>
       "logic" \in held

Obtained ==
  /\ ~run_gate => num["listen"] = 0 /\ num["gate_epoll"] = 0
  /\ ~run_logic => num["logic_sock"] = 0 /\ num["logic_epoll"] = 0
  /\ pc \in {"init", "init_gate", "gate_epoll"} => num["gate_epoll"] = 0
  /\ pc \in {"init", "init_gate", "gate_epoll", "listen"} => num["listen"] = 0
  /\ pc \in InitSteps \ {"connect", "logic_add", "verify", "failing"} => num["logic_epoll"] = 0
  /\ pc \in InitSteps \ {"logic_add", "verify", "failing"} => num["logic_sock"] = 0

(* Which threads there are, and how far a stop has come.                   *)
Gone(t) == th[t] \in {"none", "joined"}
ThreadsOK ==
  /\ Early => \A t \in Threads : th[t] = "none"
  /\ ~Early => (th["GateMngr"] = "none" <=> ~run_gate)
  /\ ~Early /\ pc # "run_logic" => (th["LogicIO"] = "none" <=> ~run_logic)
  /\ ~Early /\ "gate" \notin held => Gone("GateMngr")
  /\ ~Early /\ "logic" \notin held => Gone("LogicIO") /\ Gone("LogicWorker")
  /\ pc = "run_logic" => th["LogicIO"] = "none"
  /\ pc \in {"run_logic", "run_worker"} => th["LogicWorker"] = "none"
  /\ pc \in {"stop_worker", "join_worker"} => Gone("LogicIO")
  /\ pc = "ended" \/ (pc \in GateSteps /\ command = "quit") =>
       Gone("LogicIO") /\ Gone("LogicWorker")
  /\ pc = "ended" => Gone("GateMngr")

WorkerOK ==
  /\ th["GateMngr"] \in {"none", "unit", "over", "joined"} => Gone("GateWorker")
  /\ th["GateMngr"] = "none" => th["GateWorker"] = "none"
  /\ quit["GateWorker"] => th["GateMngr"] \notin {"none", "loop"}
  /\ th["GateWorker"] \in {"unit", "over", "joined"} => th["GateMngr"] \notin {"none", "loop"}
  /\ \A t \in Threads : th[t] = "stopping" => t = "GateMngr"
  /\ th["GateWorker"] = "none" => num["worker_epoll"] = 0
  /\ th["GateWorker"] # "none" => watch[TheLogic] # "GateMngr"
  /\ th["GateWorker"] # "none" \/ watch[TheLogic] # "none" \/ dropped =>
       conn[TheLogic] \in {"open", "closed"}
  /\ dropped \/ Early => watch[TheLogic] = "none"
  /\ dropped => ~Early

(* A connection of the Logic in the same process.                          *)
LogicHere ==
  run_gate /\ run_logic /\ ~dropped /\ th["LogicIO"] \in {"none", "loop"}
    /\ (th["GateMngr"] = "loop" \/ (Early /\ ~Failed)) =>
    conn[TheLogic] # "closed" /\ TheLogic \notin left

(* An open object remembers its number.  Until its unit() is through with  *)
(* it, it has the number; an initialization that fails takes none anew.    *)
Numbers ==
  /\ \A f \in Fds : open[f] \in Objs => num[open[f]] = f
  /\ Early => \A f \in Fds : open[f] \in Objs \cup {NONE}
  /\ Failed => \A o \in Objs : num[o] # 0 => open[num[o]] \in {o, NONE}
Kept(o) == th[ThreadOf[o]] \in {"none", "loop", "stopping"} \/ ToClose(o)
HasNumber(o) ==
  \/ open[num[o]] = o
  \/ /\ o = "logic_sock" /\ open[num[o]] = NONE
     /\ th["GateMngr"] # "loop" /\ th["LogicIO"] # "none"
NumbersKept ==
  ~dropped /\ ~Failed => \A o \in Objs : Kept(o) /\ num[o] # 0 => HasNumber(o)

(* A unit() closes each object once, and what is not in its list any more  *)
(* is closed.                                                              *)
Once(s) == \A i, j \in DOMAIN s : s[i] = s[j] => i = j
UnitsClose ==
  /\ \A t \in Threads : Once(todo[t]) /\ (th[t] # "unit" => todo[t] = <<>>)
  /\ \A o \in Objs : th[ThreadOf[o]] \in {"unit", "over", "joined"} => ToClose(o) \/ Shut(o)

IInv == TypeOK /\ MainWay /\ Obtained /\ ThreadsOK /\ WorkerOK /\ LogicHere
          /\ Numbers /\ NumbersKept /\ UnitsClose
-----------------------------------------------------------------------------
(* Operators.                                                              *)

(* A set of numbers has a least one, and Lowest is in its set.             *)
LEMMA LowestFree ==
  ASSUME Free # {}
  PROVE  /\ Lowest(Free) \in Fds /\ open[Lowest(Free)] = NONE
         /\ Lowest(Free) \in Nat /\ Lowest(Free) # 0
<1> DEFINE R == {ss \in Nat \X Nat : ss[1] < ss[2]}
<1>1. IsWellFoundedOn(R, Nat)
  BY NatLessThanWellFounded DEF OpToRel
<1> HIDE DEF R
<1>2. Free \subseteq Nat
  BY LifecycleAssumption DEF Free
<1>3. PICK x \in Free : \A y \in Free : <<y, x>> \notin R
  BY <1>1, <1>2, WFMin
<1>4. \A y \in Free : ~(y < x)
  BY <1>2, <1>3 DEF R
<1>5. \A y \in Free : x <= y
  BY <1>2, <1>3, <1>4
<1>6. Lowest(Free) \in Free
  BY <1>3, <1>5 DEF Lowest
<1> QED BY <1>6, LifecycleAssumption DEF Free

(* The owners of numbers are told apart.                                   *)
LEMMA Owners ==
  /\ TheLogic \in Conns
  /\ \A c \in Conns : c \notin Objs /\ c # NONE
  /\ \A o \in Objs : o # NONE /\ ThreadOf[o] \in Threads
  /\ \A t \in Threads : t # "main"
BY LifecycleAssumption DEF Conns, TheLogic, Objs, NONE, ThreadOf, Threads

(* unit() closes each of a thread's objects.                               *)
LEMMA UnitLists ==
  ASSUME NEW t \in Threads
  PROVE  /\ unit(t) \in Seq(Own(t)) /\ Once(unit(t))
         /\ \A o \in Own(t) : \E i \in DOMAIN unit(t) : unit(t)[i] = o
<1>1. CASE t = "GateMngr"
  <2>1. unit(t) = <<"listen", "gate_epoll">> /\ Own(t) = {"listen", "gate_epoll"}
    BY <1>1 DEF unit, Own, Objs, ThreadOf
  <2> QED BY <2>1 DEF Once
<1>2. CASE t = "GateWorker"
  <2>1. unit(t) = <<"worker_epoll">> /\ Own(t) = {"worker_epoll"}
    BY <1>2 DEF unit, Own, Objs, ThreadOf
  <2> QED BY <2>1 DEF Once
<1>3. CASE t = "LogicIO"
  <2>1. unit(t) = <<"logic_sock", "logic_epoll">> /\ Own(t) = {"logic_sock", "logic_epoll"}
    BY <1>3 DEF unit, Own, Objs, ThreadOf
  <2> QED BY <2>1 DEF Once
<1>4. CASE t = "LogicWorker"
  <2>1. unit(t) = <<>> /\ Own(t) = {}
    BY <1>4 DEF unit, Own, Objs, ThreadOf
  <2> QED BY <2>1 DEF Once
<1> QED BY <1>1, <1>2, <1>3, <1>4 DEF Threads

LEMMA FailingLists ==
  ASSUME NEW t \in {"GateMngr", "LogicIO"}, NEW n \in {2, 3, 4}
  PROVE  Times(n, unit(t)) \in Seq(Objs)
<1>1. PICK a \in Objs, b \in Objs : unit(t) = <<a, b>>
  BY DEF unit, Objs
<1>2. Len(unit(t)) = 2
  BY <1>1
<1>3. n * 2 \in Nat /\ \A i \in 1 .. n * 2 : ((i - 1) % 2) + 1 \in 1 .. 2
  OBVIOUS
<1>4. \A i \in 1 .. n * 2 : unit(t)[((i - 1) % 2) + 1] \in Objs
  BY <1>1, <1>3
<1>5. Times(n, unit(t)) = [i \in 1 .. n * 2 |-> unit(t)[((i - 1) % 2) + 1]]
  BY <1>2 DEF Times
<1>6. [i \in 1 .. n * 2 |-> unit(t)[((i - 1) % 2) + 1]] \in [1 .. n * 2 -> Objs]
  BY <1>4
<1> QED BY <1>3, <1>5, <1>6

(* What is left of a list when its head is taken.                          *)
LEMMA HeadTail ==
  ASSUME NEW S, NEW s \in Seq(S), s # <<>>
  PROVE  /\ Head(s) \in S /\ Tail(s) \in Seq(S)
         /\ \A i \in DOMAIN Tail(s) : \E j \in DOMAIN s : s[j] = Tail(s)[i]
         /\ \A j \in DOMAIN s : s[j] = Head(s) \/ \E i \in DOMAIN Tail(s) : Tail(s)[i] = s[j]
         /\ Once(s) => Once(Tail(s)) /\ \A i \in DOMAIN Tail(s) : Tail(s)[i] # Head(s)
<1>1. Len(s) \in Nat /\ Len(s) # 0 /\ DOMAIN s = 1 .. Len(s)
  OBVIOUS
<1>2. Head(s) \in S /\ Tail(s) \in Seq(S) /\ Head(s) = s[1]
  BY <1>1
<1>3. DOMAIN Tail(s) = 1 .. Len(s) - 1 /\ \A i \in 1 .. Len(s) - 1 : Tail(s)[i] = s[i + 1]
  BY <1>1
<1>4. ASSUME NEW i \in DOMAIN Tail(s) PROVE \E j \in DOMAIN s : s[j] = Tail(s)[i]
  <2>1. i + 1 \in DOMAIN s
    BY <1>1, <1>3
  <2> QED BY <1>3, <2>1
<1>5. ASSUME NEW j \in DOMAIN s, s[j] # Head(s)
      PROVE  \E i \in DOMAIN Tail(s) : Tail(s)[i] = s[j]
  <2>1. j - 1 \in 1 .. Len(s) - 1 /\ (j - 1) + 1 = j
    BY <1>1, <1>2, <1>5
  <2> QED BY <1>3, <2>1
<1>6. ASSUME Once(s)
      PROVE  Once(Tail(s)) /\ \A i \in DOMAIN Tail(s) : Tail(s)[i] # Head(s)
  <2>1. \A i \in DOMAIN Tail(s) : i \in Int /\ i + 1 \in DOMAIN s /\ i + 1 # 1 /\ 1 \in DOMAIN s
    BY <1>1, <1>3
  <2> QED BY <1>2, <1>3, <1>6, <2>1 DEF Once
<1> QED BY <1>2, <1>4, <1>5, <1>6

(* One number is opened, or closed.                                        *)
LEMMA Opens ==
  ASSUME TypeOK, NEW o \in Objs, Obtain(o)
  PROVE  \E f \in Fds :
           /\ f # 0 /\ open[f] = NONE
           /\ open' \in [Fds -> Objs \cup Conns \cup {NONE}]
           /\ \A g \in Fds : open'[g] = IF g = f THEN o ELSE open[g]
           /\ num' \in [Objs -> Fds \cup {0}]
           /\ \A p \in Objs : num'[p] = IF p = o THEN f ELSE num[p]
<1>1. PICK f \in Fds : f = Lowest(Free) /\ f # 0 /\ open[f] = NONE
  BY LowestFree DEF Obtain
<1>2. open' = [open EXCEPT ![f] = o] /\ num' = [num EXCEPT ![o] = f]
  BY <1>1 DEF Obtain
<1> QED BY <1>1, <1>2 DEF TypeOK

LEMMA Closes ==
  ASSUME TypeOK, NEW f \in Fds, Close(f)
  PROVE  /\ open' \in [Fds -> Objs \cup Conns \cup {NONE}]
         /\ \A g \in Fds : open'[g] = IF g = f THEN NONE ELSE open[g]
         /\ conn' \in [Conns -> {"none", "waiting", "open", "closed"}]
         /\ \A c \in Conns : /\ conn'[c] \in {conn[c], "closed"}
                             /\ conn'[c] # conn[c] => open[f] \in {c, "listen"}
         /\ left' \subseteq Conns
         /\ TheLogic \in left' => TheLogic \in left \/ open[f] = "logic_sock"
<1>1. /\ open' \in [Fds -> Objs \cup Conns \cup {NONE}]
      /\ \A g \in Fds : open'[g] = IF g = f THEN NONE ELSE open[g]
  BY DEF Close, TypeOK
<1>2. /\ conn' \in [Conns -> {"none", "waiting", "open", "closed"}]
      /\ \A c \in Conns : /\ conn'[c] \in {conn[c], "closed"}
                          /\ conn'[c] # conn[c] => open[f] \in {c, "listen"}
  BY DEF Close, TypeOK
<1>3. left' \subseteq Conns /\ (TheLogic \in left' => TheLogic \in left \/ open[f] = "logic_sock")
  BY Owners DEF Close, TypeOK
<1> QED BY <1>1, <1>2, <1>3

LEMMA ClosesOf ==
  ASSUME TypeOK, NEW o \in Objs, close_fd(o)
  PROVE  /\ open' \in [Fds -> Objs \cup Conns \cup {NONE}]
         /\ \A g \in Fds : open'[g] = IF g = num[o] THEN NONE ELSE open[g]
         /\ conn' \in [Conns -> {"none", "waiting", "open", "closed"}]
         /\ \A c \in Conns : /\ conn'[c] \in {conn[c], "closed"}
                             /\ conn'[c] # conn[c] =>
                                  num[o] # 0 /\ open[num[o]] \in {c, "listen"}
         /\ left' \subseteq Conns
         /\ TheLogic \in left' =>
              TheLogic \in left \/ (num[o] # 0 /\ open[num[o]] = "logic_sock")
         /\ num' = num
<1>1. num[o] = 0 \/ (num[o] \in Fds /\ num[o] > 0)
  <2>1. num[o] \in Fds \cup {0} /\ \A f \in Fds : f \in Nat /\ f # 0
    BY LifecycleAssumption DEF TypeOK
  <2> QED BY <2>1
<1>2. CASE num[o] = 0
  <2>1. UNCHANGED <<open, conn, left, num>>
    BY <1>2 DEF close_fd
  <2>2. \A g \in Fds : g # num[o]
    BY <1>2, LifecycleAssumption
  <2> QED BY <2>1, <2>2 DEF TypeOK
<1>3. CASE num[o] \in Fds /\ num[o] > 0
  <2>1. Close(num[o]) /\ num' = num /\ num[o] # 0
    BY <1>3 DEF close_fd
  <2> QED BY <1>3, <2>1, Closes
<1> QED BY <1>1, <1>2, <1>3

-----------------------------------------------------------------------------
(* Types.                                                                  *)
ListsType ==
  /\ todo \in [Threads \cup {"main"} -> Seq(Objs)]
  /\ \A t \in Threads : todo[t] \in Seq(Own(t))

LEMMA ListSet ==
  ASSUME TypeOK, NEW t \in Threads, NEW s \in Seq(Own(t)),
         todo' = [todo EXCEPT ![t] = s]
  PROVE  /\ ListsType' /\ todo'[t] = s /\ todo'["main"] = todo["main"]
         /\ \A v \in Threads \ {t} : todo'[v] = todo[v]
<1>1. s \in Seq(Objs)
  BY DEF Own
<1> DEFINE Q == Seq(Objs)
<1>2. todo \in [Threads \cup {"main"} -> Q] /\ s \in Q
  BY <1>1 DEF TypeOK
<1>3. \A v \in Threads : todo[v] \in Seq(Own(v))
  BY DEF TypeOK
<1> HIDE DEF Q
<1>4. todo' \in [Threads \cup {"main"} -> Q]
  BY <1>2
<1>5. todo'[t] = s /\ todo'["main"] = todo["main"] /\ \A v \in Threads \ {t} : todo'[v] = todo[v]
  BY <1>2, Owners
<1> QED BY <1>3, <1>4, <1>5 DEF ListsType, Q

LEMMA MainListSet ==
  ASSUME TypeOK, NEW s \in Seq(Objs), todo' = [todo EXCEPT !["main"] = s]
  PROVE  /\ ListsType' /\ todo'["main"] = s
         /\ \A v \in Threads : todo'[v] = todo[v]
<1> DEFINE Q == Seq(Objs)
<1>2. todo \in [Threads \cup {"main"} -> Q] /\ s \in Q
  BY DEF TypeOK
<1>3. \A v \in Threads : todo[v] \in Seq(Own(v))
  BY DEF TypeOK
<1> HIDE DEF Q
<1>4. todo' \in [Threads \cup {"main"} -> Q]
  BY <1>2
<1>5. todo'["main"] = s /\ \A v \in Threads : todo'[v] = todo[v]
  BY <1>2, Owners
<1> QED BY <1>3, <1>4, <1>5 DEF ListsType, Q

(* The lists of units change where an initialization fails, where a thread *)
(* leaves its loop, and where something is closed.                         *)
LEMMA InitFailsLists ==
  ASSUME TypeOK, NEW t \in {"GateMngr", "LogicIO"}, NEW n \in {2, 3, 4}, InitFails(t, n)
  PROVE  ListsType' /\ \A v \in Threads : todo'[v] = todo[v]
BY FailingLists, MainListSet DEF InitFails

LEMMA FailingTail ==
  ASSUME TypeOK, Failing, todo["main"] # <<>>
  PROVE  /\ Head(todo["main"]) \in Objs /\ close_fd(Head(todo["main"]))
         /\ ListsType' /\ \A v \in Threads : todo'[v] = todo[v]
<1>1. todo["main"] \in Seq(Objs)
  BY DEF TypeOK
<1>2. Head(todo["main"]) \in Objs /\ Tail(todo["main"]) \in Seq(Objs)
  BY <1>1, HeadTail
<1>3. todo' = [todo EXCEPT !["main"] = Tail(todo["main"])] /\ close_fd(Head(todo["main"]))
  BY DEF Failing
<1> QED BY <1>2, <1>3, MainListSet

LEMMA UnitTail ==
  ASSUME TypeOK, NEW t \in Threads, Unit(t), todo[t] # <<>>
  PROVE  /\ Head(todo[t]) \in Own(t) /\ close_fd(Head(todo[t]))
         /\ ListsType' /\ \A v \in Threads \ {t} : todo'[v] = todo[v]
         /\ todo'["main"] = todo["main"] /\ todo'[t] = Tail(todo[t])
<1>1. todo[t] \in Seq(Own(t))
  BY DEF TypeOK
<1>2. Head(todo[t]) \in Own(t) /\ Tail(todo[t]) \in Seq(Own(t))
  BY <1>1, HeadTail
<1>3. todo' = [todo EXCEPT ![t] = Tail(todo[t])] /\ close_fd(Head(todo[t]))
  BY DEF Unit
<1> QED BY <1>2, <1>3, ListSet

LEMMA LeavesLists ==
  ASSUME TypeOK, NEW t \in Threads, todo' = [todo EXCEPT ![t] = unit(t)]
  PROVE  /\ ListsType' /\ \A v \in Threads \ {t} : todo'[v] = todo[v]
         /\ todo'["main"] = todo["main"] /\ todo'[t] = unit(t)
BY UnitLists, ListSet

(* The rest of the type, which actions keep one part at a time.             *)
LEMMA TypeStep ==
  ASSUME TypeOK, [Next]_vars
  PROVE  TypeOK'
<1>lists. ASSUME UNCHANGED todo PROVE ListsType'
  BY <1>lists DEF TypeOK, ListsType
<1>fails. ASSUME NEW t \in {"GateMngr", "LogicIO"}, NEW n \in {2, 3, 4}, InitFails(t, n)
          PROVE  /\ ListsType' /\ pc' = "failing"
                 /\ UNCHANGED <<run_gate, run_logic, command, held>>
  BY <1>fails, InitFailsLists DEF InitFails, Goto
<1>fault. ASSUME Fault \/ NoFault PROVE faults' \in 0 .. MaxFaults
  BY <1>fault, LifecycleAssumption DEF Fault, NoFault, TypeOK
<1>opens. ASSUME NEW o \in Objs, Obtain(o)
          PROVE  open' \in [Fds -> Objs \cup Conns \cup {NONE}] /\ num' \in [Objs -> Fds \cup {0}]
  BY <1>opens, Opens
<1>closes. ASSUME NEW o \in Objs, close_fd(o)
           PROVE  /\ open' \in [Fds -> Objs \cup Conns \cup {NONE}]
                  /\ conn' \in [Conns -> {"none", "waiting", "open", "closed"}]
                  /\ left' \subseteq Conns /\ num' = num
  BY <1>closes, ClosesOf
<1>1. CASE InitSystem
  <2>1. Fault \/ NoFault
    BY <1>1 DEF InitSystem
  <2>2. pc' \in {"ended", "init_gate", "init_logic"} /\ UNCHANGED <<run_gate, run_logic, command>>
    BY <1>1 DEF InitSystem, Goto
  <2> QED BY <1>1, <2>1, <2>2, <1>lists, <1>fault DEF InitSystem, TypeOK, ListsType, fdVars, thVars, mainVars, InitSteps, RunSteps, LogicSteps, GateSteps
<1>2. CASE InitServer
  <2>1. Fault \/ NoFault
    BY <1>2 DEF InitServer
  <2>2. pc' \in {"ended", "gate_epoll", "logic_epoll"} /\ UNCHANGED <<run_gate, run_logic, command>>
    BY <1>2 DEF InitServer, Goto
  <2> QED BY <1>2, <2>1, <2>2, <1>lists, <1>fault DEF InitServer, TypeOK, ListsType, fdVars, thVars, mainVars, InitSteps, RunSteps, LogicSteps, GateSteps
<1>3. CASE InitEpoll
  <2>0. pc \in Objs /\ UNCHANGED <<th, quit, conn, left, watch, dropped>>
    BY <1>3 DEF InitEpoll, thVars, Objs
  <2>1. CASE /\ Obtain(pc) /\ NoFault /\ UNCHANGED <<held, todo>>
             /\ Goto(IF pc = "gate_epoll" THEN "listen" ELSE "connect")
    <3>1. pc' \in {"listen", "connect"} /\ UNCHANGED <<run_gate, run_logic, command>>
      BY <2>1 DEF Goto
    <3>2. ListsType' /\ faults' \in 0 .. MaxFaults
      BY <2>1, <1>lists, <1>fault
    <3> QED BY <2>0, <2>1, <3>1, <3>2, <1>opens DEF TypeOK, ListsType, fdVars, thVars, mainVars, InitSteps, RunSteps, LogicSteps, GateSteps
  <2>2. CASE \/ InitFails("GateMngr", 3) /\ UNCHANGED <<open, num>>
             \/ InitFails("LogicIO", 2) /\ UNCHANGED <<open, num>>
    BY <1>3, <2>2, <1>fails, <1>fault DEF InitEpoll, TypeOK, ListsType, fdVars, thVars, mainVars, InitSteps, RunSteps, LogicSteps, GateSteps
  <2> QED BY <1>3, <2>1, <2>2 DEF InitEpoll
<1>4. CASE InitListen
  <2>0. "listen" \in Objs /\ UNCHANGED <<th, quit, conn, left, watch, dropped>>
    BY <1>4 DEF InitListen, thVars, Objs
  <2>1. CASE Obtain("listen") /\ NoFault /\ Goto("gate_add") /\ UNCHANGED <<held, todo>>
    <3>1. pc' = "gate_add" /\ UNCHANGED <<run_gate, run_logic, command>>
      BY <2>1 DEF Goto
    <3>2. ListsType' /\ faults' \in 0 .. MaxFaults
      BY <2>1, <1>lists, <1>fault
    <3> QED BY <2>0, <2>1, <3>1, <3>2, <1>opens DEF TypeOK, ListsType, fdVars, thVars, mainVars, InitSteps, RunSteps, LogicSteps, GateSteps
  <2>2. CASE InitFails("GateMngr", 4) /\ UNCHANGED <<open, num>>
    BY <1>4, <2>2, <1>fails, <1>fault DEF InitListen, TypeOK, ListsType, fdVars, thVars, mainVars, InitSteps, RunSteps, LogicSteps, GateSteps
  <2> QED BY <1>4, <2>1, <2>2 DEF InitListen
<1>5. CASE InitConnect
  <2>0. "logic_sock" \in Objs /\ UNCHANGED <<th, quit, left, watch, dropped>>
    BY <1>5 DEF InitConnect, thVars, Objs
  <2>1. CASE /\ Obtain("logic_sock") /\ NoFault /\ Goto("logic_add") /\ UNCHANGED <<held, todo>>
             /\ conn' = [conn EXCEPT ![TheLogic] = IF run_gate THEN "waiting" ELSE "open"]
    <3>1. pc' = "logic_add" /\ UNCHANGED <<run_gate, run_logic, command>>
      BY <2>1 DEF Goto
    <3>2. ListsType' /\ faults' \in 0 .. MaxFaults
      BY <2>1, <1>lists, <1>fault
    <3>3. conn' \in [Conns -> {"none", "waiting", "open", "closed"}]
      BY <2>1 DEF TypeOK
    <3> QED BY <2>0, <2>1, <3>1, <3>2, <3>3, <1>opens DEF TypeOK, ListsType, fdVars, thVars, mainVars, InitSteps, RunSteps, LogicSteps, GateSteps
  <2>2. CASE InitFails("LogicIO", 2) /\ UNCHANGED <<open, num, conn>>
    BY <1>5, <2>2, <1>fails, <1>fault DEF InitConnect, TypeOK, ListsType, fdVars, thVars, mainVars, InitSteps, RunSteps, LogicSteps, GateSteps
  <2> QED BY <1>5, <2>1, <2>2 DEF InitConnect
<1>6. CASE InitAdd
  <2>1. CASE todo' = todo /\ held' = held /\ Goto(IF pc = "gate_add" THEN AfterGate ELSE "verify")
    BY <1>6, <2>1, <1>lists, <1>fault DEF InitAdd, AfterGate, Goto, TypeOK, ListsType, fdVars, thVars, mainVars, InitSteps, RunSteps, LogicSteps, GateSteps
  <2>2. CASE InitFails("GateMngr", 3) \/ InitFails("LogicIO", 2)
    BY <1>6, <2>2, <1>fails, <1>fault DEF InitAdd, TypeOK, ListsType, fdVars, thVars, mainVars, InitSteps, RunSteps, LogicSteps, GateSteps
  <2> QED BY <1>6, <2>1, <2>2 DEF InitAdd
<1>7. CASE InitVerify
  <2>1. CASE todo' = todo /\ held' = held /\ Goto("run")
    BY <1>7, <2>1, <1>lists, <1>fault DEF InitVerify, Goto, TypeOK, ListsType, fdVars, thVars, mainVars, InitSteps, RunSteps, LogicSteps, GateSteps
  <2>2. CASE InitFails("LogicIO", 2)
    BY <1>7, <2>2, <1>fails, <1>fault DEF InitVerify, TypeOK, ListsType, fdVars, thVars, mainVars, InitSteps, RunSteps, LogicSteps, GateSteps
  <2> QED BY <1>7, <2>1, <2>2 DEF InitVerify
<1>8. CASE Failing
  <2>1. CASE todo["main"] = <<>>
    BY <1>8, <2>1, <1>lists DEF Failing, Goto, TypeOK, ListsType, fdVars, thVars, mainVars, InitSteps, RunSteps, LogicSteps, GateSteps
  <2>2. CASE todo["main"] # <<>>
    BY <1>8, <2>2, FailingTail, <1>closes DEF Failing, TypeOK, ListsType, fdVars, thVars, mainVars, InitSteps, RunSteps, LogicSteps, GateSteps
  <2> QED BY <2>1, <2>2
<1>9. CASE Run
  BY <1>9, <1>lists DEF Run, start, Goto, TypeOK, ListsType, fdVars, thVars, mainVars, InitSteps, RunSteps, LogicSteps, GateSteps
<1>10. CASE StopLogic
  BY <1>10, <1>lists DEF StopLogic, Stopped, stop, join, TypeOK, ListsType, fdVars, thVars, mainVars, InitSteps, RunSteps, LogicSteps, GateSteps
<1>11. CASE StopGate
  BY <1>11, <1>lists DEF StopGate, Stopped, stop, join, TypeOK, ListsType, fdVars, thVars, mainVars, InitSteps, RunSteps, LogicSteps, GateSteps
<1>12. ASSUME NEW t \in Threads, Leaves(t) PROVE TypeOK'
  BY <1>12, LeavesLists DEF Leaves, TypeOK, ListsType, fdVars, thVars, mainVars
<1>13. ASSUME NEW t \in Threads, Unit(t) PROVE TypeOK'
  <2>1. CASE todo[t] = <<>>
    BY <1>13, <2>1, <1>lists DEF Unit, TypeOK, ListsType, fdVars, thVars, mainVars
  <2>2. CASE todo[t] # <<>>
    <3>1. Head(todo[t]) \in Objs
      BY <1>13, <2>2, UnitTail DEF Own
    <3> QED BY <1>13, <2>2, <3>1, UnitTail, <1>closes DEF Unit, TypeOK, ListsType, fdVars, thVars, mainVars
  <2> QED BY <2>1, <2>2
<1>14. CASE GateLeaves
  BY <1>14, <1>lists DEF GateLeaves, TypeOK, ListsType, fdVars, thVars, mainVars
<1>15. CASE GateStops
  BY <1>15, LeavesLists DEF GateStops, Threads, TypeOK, ListsType, fdVars, thVars, mainVars
<1>16. ASSUME NEW c \in Conns, Accept(c) PROVE TypeOK'
  <2>1. open' \in [Fds -> Objs \cup Conns \cup {NONE}]
    <3>1. Lowest(Free) \in Fds
      BY <1>16, LowestFree DEF Accept
    <3>2. open \in [Fds -> Objs \cup Conns \cup {NONE}]
      BY DEF TypeOK
    <3>3. open' = open \/ open' = [open EXCEPT ![Lowest(Free)] = c]
      BY <1>16 DEF Accept
    <3> QED BY <3>1, <3>2, <3>3
  <2>2. conn' \in [Conns -> {"none", "waiting", "open", "closed"}]
    BY <1>16 DEF Accept, TypeOK
  <2>3. watch' \in [Conns -> Threads \cup {"none", "nobody"}]
    BY <1>16 DEF Accept, TypeOK, Threads
  <2>4. Fault \/ NoFault
    BY <1>16 DEF Accept
  <2>5. dropped' \in BOOLEAN
    BY <1>16, <2>4 DEF Accept, TypeOK
  <2>6. ListsType' /\ faults' \in 0 .. MaxFaults /\ UNCHANGED <<mainVars, thVars, num, left>>
    BY <1>16, <2>4, <1>lists, <1>fault DEF Accept
  <2> QED BY <2>1, <2>2, <2>3, <2>5, <2>6 DEF TypeOK, ListsType, fdVars, thVars, mainVars
<1>17. ASSUME NEW c \in Conns, Logined(c) PROVE TypeOK'
  BY <1>17, <1>lists DEF Logined, Threads, TypeOK, ListsType, fdVars, thVars, mainVars
<1>18. ASSUME NEW c \in Conns, ConnEnds(c) PROVE TypeOK'
  BY <1>18, <1>lists, Closes DEF ConnEnds, TypeOK, ListsType, fdVars, thVars, mainVars
<1>19. CASE Verified
  <2>1. \A v \in {"GateWorker", "nobody"} : [watch EXCEPT ![TheLogic] = v]
           \in [Conns -> Threads \cup {"none", "nobody"}]
    BY DEF TypeOK, Threads
  <2>2. CASE Obtain("worker_epoll") /\ start("GateWorker")
    <3>1. /\ UNCHANGED <<mainVars, quit, todo, conn, left, dropped>> /\ (Fault \/ NoFault)
          /\ \E v \in {"GateWorker", "nobody"} : watch' = [watch EXCEPT ![TheLogic] = v]
      BY <1>19 DEF Verified
    <3>2. ListsType' /\ faults' \in 0 .. MaxFaults
      BY <3>1, <1>lists, <1>fault
    <3>3. th' \in [Threads -> {"none", "loop", "stopping", "unit", "over", "joined"}]
      BY <2>2 DEF start, TypeOK
    <3>4. /\ open' \in [Fds -> Objs \cup Conns \cup {NONE}] /\ num' \in [Objs -> Fds \cup {0}]
      BY <2>2, <1>opens DEF Objs
    <3> QED BY <2>1, <3>1, <3>2, <3>3, <3>4 DEF TypeOK, ListsType, mainVars
  <2>3. CASE UNCHANGED <<open, num, th>>
    BY <1>19, <2>1, <2>3, <1>lists, <1>fault DEF Verified, TypeOK, ListsType, fdVars, thVars, mainVars
  <2> QED BY <1>19, <2>2, <2>3 DEF Verified
<1>20. CASE LogicEnds
  BY <1>20, <1>lists, Closes DEF LogicEnds, TypeOK, ListsType, fdVars, thVars, mainVars
<1>21. ASSUME NEW c \in Conns, Connects(c) \/ Goes(c) PROVE TypeOK'
  BY <1>21, <1>lists DEF Connects, Goes, TypeOK, ListsType, fdVars, thVars, mainVars
<1>22. CASE OtherGateGoes
  BY <1>22, <1>lists DEF OtherGateGoes, TypeOK, ListsType, fdVars, thVars, mainVars
<1>23. ASSUME NEW line \in {"gateoff", "logicoff", "quit"}, ReadCommand(line) PROVE TypeOK'
  BY <1>23, <1>lists DEF ReadCommand, TypeOK, ListsType, fdVars, thVars, mainVars, InitSteps, RunSteps, LogicSteps, GateSteps
<1>24. CASE UNCHANGED vars
  BY <1>24, <1>lists DEF vars, TypeOK, ListsType, fdVars, thVars, mainVars, InitSteps, RunSteps, LogicSteps, GateSteps
<1> QED
  BY <1>1, <1>2, <1>3, <1>4, <1>5, <1>6, <1>7, <1>8, <1>9, <1>10, <1>11, <1>12, <1>13,
     <1>14, <1>15, <1>16, <1>17, <1>18, <1>19, <1>20, <1>21, <1>22, <1>23, <1>24
     DEF Next, MainNext, MainInit, ThreadNext, Others, Ended

-----------------------------------------------------------------------------
(* The main thread, before any other.                                      *)
LEMMA ListsSame ==
  ASSUME \A v \in Threads : todo'[v] = todo[v]
  PROVE  \A o \in Objs : ToClose(o)' <=> ToClose(o)
BY Owners DEF ToClose

(* A step that opens nothing: to the next one, to the units, to the end.   *)
LEMMA InitGoesOn ==
  ASSUME IInv, Early, ~Failed, Early',
         UNCHANGED <<run_gate, run_logic, th, quit, open, num, conn, left, watch, dropped>>,
         \A v \in Threads : todo'[v] = todo[v]
  PROVE  ThreadsOK' /\ WorkerOK' /\ LogicHere' /\ Numbers' /\ NumbersKept' /\ UnitsClose'
<1>1. \A t \in Threads : th[t] = "none"
  BY DEF IInv, ThreadsOK
<1>2. ~dropped /\ watch[TheLogic] = "none"
  BY DEF IInv, WorkerOK
<1>3. ThreadsOK'
  BY <1>1 DEF ThreadsOK, Gone, Early, Failed, Threads, InitSteps, RunSteps, LogicSteps, GateSteps
<1>4. WorkerOK'
  BY <1>1 DEF IInv, WorkerOK, Gone
<1>5. LogicHere'
  BY DEF IInv, LogicHere
<1>6. \A o \in Objs : num[o] # 0 => open[num[o]] = o
  BY <1>1, <1>2, Owners DEF IInv, NumbersKept, Kept, HasNumber, Threads
<1>7. Numbers'
  BY <1>6 DEF IInv, Numbers
<1>8. NumbersKept'
  BY <1>6 DEF NumbersKept, HasNumber
<1>9. UnitsClose'
  BY <1>1, Owners DEF IInv, UnitsClose
<1> QED BY <1>3, <1>4, <1>5, <1>7, <1>8, <1>9

(* A step that opens a number for an object that has none.                 *)
LEMMA InitObtains ==
  ASSUME IInv, Early, ~Failed, Early', ~Failed',
         NEW o \in Objs, num[o] = 0, Obtain(o), o # "worker_epoll",
         \A c \in Conns : conn'[c] = conn[c] \/ (c = TheLogic /\ conn'[c] # "closed"),
         UNCHANGED <<run_gate, run_logic, th, quit, left, watch, dropped>>,
         \A v \in Threads : todo'[v] = todo[v]
  PROVE  ThreadsOK' /\ WorkerOK' /\ LogicHere' /\ Numbers' /\ NumbersKept' /\ UnitsClose'
<1>1. \A t \in Threads : th[t] = "none"
  BY DEF IInv, ThreadsOK
<1>2. ~dropped /\ watch[TheLogic] = "none"
  BY DEF IInv, WorkerOK
<1>3. ThreadsOK'
  BY <1>1 DEF ThreadsOK, Gone, Early, Failed, Threads, InitSteps, RunSteps, LogicSteps, GateSteps
<1>o. PICK f \in Fds : /\ f # 0 /\ open[f] = NONE
                       /\ \A g \in Fds : open'[g] = IF g = f THEN o ELSE open[g]
                       /\ \A p \in Objs : num'[p] = IF p = o THEN f ELSE num[p]
  BY Opens DEF IInv
<1>4. WorkerOK'
  <2>1. num'["worker_epoll"] = num["worker_epoll"]
    BY <1>o DEF Objs
  <2> QED BY <1>1, <1>2, <2>1 DEF IInv, WorkerOK, Gone, Threads
<1>5. LogicHere'
  BY Owners DEF IInv, LogicHere
<1>6. \A p \in Objs : num[p] # 0 => num[p] \in Fds /\ open[num[p]] = p
  <2>1. \A p \in Objs : Kept(p)
    BY <1>1, Owners DEF Kept
  <2>2. \A p \in Objs : num[p] # 0 => open[num[p]] = p
    BY <1>1, <1>2, <2>1 DEF IInv, NumbersKept, HasNumber, Threads
  <2>3. \A p \in Objs : num[p] \in Fds \cup {0}
    BY DEF IInv, TypeOK
  <2> QED BY <2>2, <2>3
<1>7. \A p \in Objs : num'[p] # 0 => open'[num'[p]] = p
  BY <1>o, <1>6, Owners
<1>8. Numbers'
  <2>1. \A g \in Fds : g # 0
    BY LifecycleAssumption
  <2>2. \A g \in Fds : open[g] # o
    BY <2>1 DEF IInv, Numbers
  <2> QED BY <1>o, <2>2, Owners DEF IInv, Numbers
<1>9. NumbersKept'
  BY <1>7 DEF NumbersKept, HasNumber
<1>10. UnitsClose'
  BY <1>1, Owners DEF IInv, UnitsClose
<1> QED BY <1>3, <1>4, <1>5, <1>8, <1>9, <1>10

LEMMA InitSystemKeeps ==
  ASSUME IInv, TypeOK', InitSystem
  PROVE  IInv'
<1>1. Early /\ ~Failed /\ Early' /\ \A v \in Threads : todo'[v] = todo[v]
  BY DEF IInv, MainWay, InitSystem, Goto, Early, Failed, InitSteps, RunSteps, LogicSteps, GateSteps
<1>2. UNCHANGED <<run_gate, run_logic, th, quit, open, num, conn, left, watch, dropped>>
  BY DEF InitSystem, Goto, thVars, fdVars
<1>3. MainWay' /\ Obtained'
  BY DEF IInv, TypeOK, MainWay, Obtained, InitSystem, Goto, fdVars, InitSteps, RunSteps, LogicSteps, GateSteps
<1> QED BY <1>1, <1>2, <1>3, InitGoesOn DEF IInv

LEMMA InitServerKeeps ==
  ASSUME IInv, TypeOK', InitServer
  PROVE  IInv'
<1>1. Early /\ ~Failed /\ Early' /\ \A v \in Threads : todo'[v] = todo[v]
  BY DEF IInv, MainWay, InitServer, Goto, Early, Failed, InitSteps, RunSteps, LogicSteps, GateSteps
<1>2. UNCHANGED <<run_gate, run_logic, th, quit, open, num, conn, left, watch, dropped>>
  BY DEF InitServer, Goto, thVars, fdVars
<1>3. MainWay' /\ Obtained'
  BY DEF IInv, MainWay, Obtained, InitServer, Goto, fdVars, InitSteps, RunSteps, LogicSteps, GateSteps
<1> QED BY <1>1, <1>2, <1>3, InitGoesOn DEF IInv

(* An initialization fails.                                                *)
LEMMA FailsKeeps ==
  ASSUME IInv, TypeOK', NEW t \in {"GateMngr", "LogicIO"}, NEW n \in {2, 3, 4},
         InitFails(t, n), Early, ~Failed,
         UNCHANGED <<th, quit, open, num, conn, left, watch, dropped>>
  PROVE  IInv'
<1>1. command = "none" /\ pc' = "failing" /\ UNCHANGED <<run_gate, run_logic, command, held>>
  BY DEF InitFails, Goto, IInv, MainWay, Early, InitSteps, RunSteps, LogicSteps, GateSteps
<1>2. Early' /\ \A v \in Threads : todo'[v] = todo[v]
  BY <1>1, InitFailsLists DEF Early, InitSteps, RunSteps, LogicSteps, GateSteps, IInv
<1>3. MainWay' /\ Obtained'
  BY <1>1 DEF IInv, MainWay, Obtained, InitSteps, RunSteps, LogicSteps, GateSteps
<1> QED BY <1>1, <1>2, <1>3, InitGoesOn DEF IInv

LEMMA InitAddKeeps ==
  ASSUME IInv, TypeOK', InitAdd \/ InitVerify
  PROVE  IInv'
<1>1. Early /\ ~Failed
  BY DEF IInv, MainWay, InitAdd, InitVerify, Early, Failed, InitSteps, RunSteps, LogicSteps, GateSteps
<1>2. UNCHANGED <<th, quit, open, num, conn, left, watch, dropped>>
  BY DEF InitAdd, InitVerify, thVars, fdVars
<1>3. CASE InitFails("GateMngr", 3) \/ InitFails("LogicIO", 2)
  BY <1>1, <1>2, <1>3, FailsKeeps
<1>4. CASE /\ UNCHANGED <<held, todo>>
           /\ \/ pc = "gate_add" /\ Goto(AfterGate)
              \/ pc = "logic_add" /\ Goto("verify")
              \/ pc = "verify" /\ Goto("run")
  <2>1. /\ UNCHANGED <<run_gate, run_logic, command, held, todo>>
        /\ \/ pc = "gate_add" /\ pc' = IF run_logic THEN "init_logic" ELSE "run"
           \/ pc = "logic_add" /\ pc' = "verify"
           \/ pc = "verify" /\ pc' = "run"
    BY <1>4 DEF Goto, AfterGate
  <2>2. Early' /\ \A v \in Threads : todo'[v] = todo[v]
    BY <2>1 DEF Early, InitSteps, RunSteps, LogicSteps, GateSteps
  <2>3. MainWay' /\ Obtained'
    BY <1>2, <2>1 DEF IInv, MainWay, Obtained, InitSteps, RunSteps, LogicSteps, GateSteps
  <2> QED BY <1>1, <1>2, <2>1, <2>2, <2>3, InitGoesOn DEF IInv
<1> QED BY <1>3, <1>4 DEF InitAdd, InitVerify

LEMMA InitOpensKeeps ==
  ASSUME IInv, TypeOK', InitEpoll \/ InitListen \/ InitConnect
  PROVE  IInv'
<1>1. Early /\ ~Failed
  BY DEF IInv, MainWay, InitEpoll, InitListen, InitConnect, Early, Failed, InitSteps, RunSteps, LogicSteps, GateSteps
<1>2. UNCHANGED <<th, quit, left, watch, dropped>>
  BY DEF InitEpoll, InitListen, InitConnect, thVars
<1>3. CASE /\ UNCHANGED <<open, num, conn>>
           /\ InitFails("GateMngr", 3) \/ InitFails("GateMngr", 4) \/ InitFails("LogicIO", 2)
  BY <1>1, <1>2, <1>3, FailsKeeps
<1>4. ASSUME NEW o \in {"gate_epoll", "listen", "logic_epoll", "logic_sock"}, Obtain(o),
             UNCHANGED <<held, todo>>,
             \/ pc = "gate_epoll" /\ o = pc /\ Goto("listen") /\ conn' = conn
             \/ pc = "listen" /\ o = pc /\ Goto("gate_add") /\ conn' = conn
             \/ pc = "logic_epoll" /\ o = pc /\ Goto("connect") /\ conn' = conn
             \/ /\ pc = "connect" /\ o = "logic_sock" /\ Goto("logic_add")
                /\ conn' = [conn EXCEPT ![TheLogic] = IF run_gate THEN "waiting" ELSE "open"]
      PROVE  IInv'
  <2>1. /\ UNCHANGED <<run_gate, run_logic, command, held, todo>>
        /\ \/ pc = "gate_epoll" /\ o = pc /\ pc' = "listen"
           \/ pc = "listen" /\ o = pc /\ pc' = "gate_add"
           \/ pc = "logic_epoll" /\ o = pc /\ pc' = "connect"
           \/ pc = "connect" /\ o = "logic_sock" /\ pc' = "logic_add"
    BY <1>4 DEF Goto
  <2>2. Early' /\ ~Failed' /\ \A v \in Threads : todo'[v] = todo[v]
    BY <2>1 DEF Early, Failed, InitSteps, RunSteps, LogicSteps, GateSteps
  <2>3. num[o] = 0
    BY <2>1 DEF IInv, Obtained, InitSteps, RunSteps, LogicSteps, GateSteps
  <2>4. \A c \in Conns : conn'[c] = conn[c] \/ (c = TheLogic /\ conn'[c] # "closed")
    BY <1>4, Owners DEF IInv, TypeOK
  <2>5. \A p \in Objs \ {o} : num'[p] = num[p]
    BY <1>4, Opens DEF IInv, Objs
  <2>6. MainWay' /\ Obtained'
    BY <2>1, <2>5 DEF IInv, MainWay, Obtained, Objs, InitSteps, RunSteps, LogicSteps, GateSteps
  <2>7. o \in Objs /\ o # "worker_epoll"
    BY DEF Objs
  <2> QED BY <1>1, <1>2, <1>4, <2>1, <2>2, <2>3, <2>4, <2>6, <2>7, InitObtains DEF IInv
<1> QED BY <1>3, <1>4 DEF InitEpoll, InitListen, InitConnect

(* The units of an initialization that failed: nothing is opened any more. *)
LEMMA FailingKeeps ==
  ASSUME IInv, TypeOK', Failing
  PROVE  IInv'
<1>1. Failed /\ Early /\ ~dropped /\ command = "none" /\ \A t \in Threads : th[t] = "none"
  BY DEF Failing, Failed, Early, IInv, MainWay, ThreadsOK, WorkerOK, InitSteps, RunSteps, LogicSteps, GateSteps
<1>2. /\ UNCHANGED <<held, th, quit, watch, dropped, run_gate, run_logic, command, num>>
      /\ pc' = pc \/ pc' = "ended"
      /\ todo'["main"] = <<>> \/ pc' = "failing"
  BY ClosesOf, FailingTail DEF Failing, Goto, mainVars, thVars, fdVars, close_fd, IInv
<1>3. Failed' /\ Early' /\ \A v \in Threads : todo'[v] = todo[v]
  BY <1>1, <1>2, FailingTail DEF Failing, Failed, Early, IInv
<1>4. /\ \A g \in Fds : open'[g] \in {open[g], NONE}
      /\ \A c \in Conns : conn'[c] \in {conn[c], "closed"}
  <2>1. CASE todo["main"] = <<>>
    BY <2>1 DEF Failing, fdVars
  <2>2. CASE todo["main"] # <<>>
    BY <2>2, FailingTail, ClosesOf DEF IInv
  <2> QED BY <2>1, <2>2
<1>5. MainWay' /\ Obtained'
  BY <1>1, <1>2 DEF Failing, IInv, MainWay, Obtained, InitSteps, RunSteps, LogicSteps, GateSteps
<1>6. ThreadsOK' /\ LogicHere'
  BY <1>1, <1>2, <1>3 DEF ThreadsOK, LogicHere, Gone, Threads, InitSteps, RunSteps, LogicSteps, GateSteps
<1>7. WorkerOK'
  BY <1>1, <1>2, <1>3, <1>4, Owners DEF IInv, WorkerOK, Gone, Threads
<1>8. Numbers'
  <2>1. \A o \in Objs : num[o] \in Fds \cup {0}
    BY DEF IInv, TypeOK
  <2> QED BY <1>1, <1>2, <1>3, <1>4, <2>1, Owners DEF IInv, Numbers
<1>9. NumbersKept'
  BY <1>3 DEF NumbersKept
<1>10. UnitsClose'
  BY <1>1, <1>2, <1>3, Owners DEF IInv, UnitsClose, Once
<1> QED BY <1>5, <1>6, <1>7, <1>8, <1>9, <1>10 DEF IInv
-----------------------------------------------------------------------------
(* Run, commands and stops: threads begin and are joined, nothing is       *)
(* opened or closed.                                                       *)
LEMMA NoDescriptors ==
  ASSUME IInv, ~Failed, ~Early', UNCHANGED <<open, num, todo, dropped>>,
         \A t \in Threads : \/ th'[t] = th[t]
                            \/ th[t] = "none" /\ th'[t] = "loop"
                            \/ th[t] = "over" /\ th'[t] = "joined"
                            \/ t = "GateMngr" /\ th[t] = "loop" /\ th'[t] = "stopping",
         th["LogicIO"] # "none" /\ th'["GateMngr"] = "loop" => th["GateMngr"] = "loop"
  PROVE  Numbers' /\ NumbersKept' /\ UnitsClose'
<1>1. \A o \in Objs : (ToClose(o)' <=> ToClose(o)) /\ (Shut(o)' <=> Shut(o))
  BY ListsSame DEF Shut
<1>2. "LogicIO" \in Threads /\ "GateMngr" \in Threads
  BY DEF Threads
<1>3. ~Failed'
  BY DEF Early
<1>4. Numbers'
  BY <1>3 DEF IInv, Numbers
<1>5. \A o \in Objs : Kept(o)' => Kept(o)
  BY <1>1, Owners DEF Kept
<1>6. \A o \in Objs : HasNumber(o) => HasNumber(o)'
  BY <1>2 DEF HasNumber
<1>7. NumbersKept'
  BY <1>5, <1>6 DEF IInv, NumbersKept
<1>8. UnitsClose'
  BY <1>1, Owners DEF IInv, UnitsClose, Once
<1> QED BY <1>4, <1>7, <1>8

LEMMA RunKeeps ==
  ASSUME IInv, TypeOK', Run
  PROVE  IInv'
<1>1. /\ UNCHANGED <<held, quit, todo, open, num, conn, left, watch, dropped>>
      /\ UNCHANGED <<run_gate, run_logic, command>>
      /\ \/ /\ pc = "run" /\ pc' = (IF run_logic THEN "run_logic" ELSE "commands")
            /\ \A t \in Threads : th'[t] = IF t = "GateMngr" /\ run_gate THEN "loop" ELSE th[t]
         \/ /\ pc = "run_logic" /\ pc' = "run_worker"
            /\ \A t \in Threads : th'[t] = IF t = "LogicIO" THEN "loop" ELSE th[t]
         \/ /\ pc = "run_worker" /\ pc' = "commands"
            /\ \A t \in Threads : th'[t] = IF t = "LogicWorker" THEN "loop" ELSE th[t]
  BY DEF Run, start, Goto, fdVars, IInv, TypeOK, InitSteps, RunSteps, LogicSteps, GateSteps
<1>2. /\ ~Failed /\ ~Early' /\ command = "none"
      /\ pc = "run" => Early
      /\ pc # "run" => ~Early
  BY <1>1 DEF Failed, Early, IInv, MainWay, InitSteps, RunSteps, LogicSteps, GateSteps
<1>3. /\ pc = "run" => \A t \in Threads : th[t] = "none"
      /\ pc = "run_logic" => th["LogicIO"] = "none"
      /\ pc \in {"run_logic", "run_worker"} => th["LogicWorker"] = "none"
  BY <1>2 DEF IInv, ThreadsOK
<1>4. MainWay' /\ Obtained'
  BY <1>1, <1>2 DEF IInv, MainWay, Obtained, InitSteps, RunSteps, LogicSteps, GateSteps
<1>5. ThreadsOK'
  BY <1>1, <1>2, <1>3 DEF IInv, MainWay, ThreadsOK, Gone, Threads, InitSteps, RunSteps, LogicSteps, GateSteps
<1>6. WorkerOK'
  BY <1>1, <1>2, <1>3 DEF IInv, WorkerOK, Gone, Threads
<1>7. LogicHere'
  BY <1>1, <1>2, <1>3 DEF IInv, LogicHere, Threads
<1>8. Numbers' /\ NumbersKept' /\ UnitsClose'
  <2>1. \A t \in Threads : th'[t] = th[t] \/ (th[t] = "none" /\ th'[t] = "loop")
    BY <1>1, <1>3
  <2>2. th["LogicIO"] # "none" /\ th'["GateMngr"] = "loop" => th["GateMngr"] = "loop"
    BY <1>1, <1>3 DEF Threads
  <2> QED BY <1>1, <1>2, <2>1, <2>2, NoDescriptors
<1> QED BY <1>4, <1>5, <1>6, <1>7, <1>8 DEF IInv

LEMMA ReadCommandKeeps ==
  ASSUME IInv, TypeOK', NEW line \in {"gateoff", "logicoff", "quit"}, ReadCommand(line)
  PROVE  IInv'
<1>1. /\ UNCHANGED <<run_gate, run_logic, held, th, quit, todo, open, num, conn, left, watch, dropped>>
      /\ pc = "commands" /\ command' = line
      /\ pc' = IF line = "gateoff" THEN "stop_gate" ELSE "stop_logic"
  BY DEF ReadCommand, thVars, fdVars
<1>2. ~Early /\ ~Failed /\ ~Early'
  BY <1>1 DEF Early, Failed, InitSteps, RunSteps, LogicSteps, GateSteps
<1>3. MainWay' /\ Obtained'
  BY <1>1 DEF IInv, MainWay, Obtained, InitSteps, RunSteps, LogicSteps, GateSteps
<1>4. ThreadsOK' /\ WorkerOK' /\ LogicHere'
  BY <1>1, <1>2 DEF IInv, ThreadsOK, WorkerOK, LogicHere, Gone, InitSteps, RunSteps, LogicSteps, GateSteps
<1>5. Numbers' /\ NumbersKept' /\ UnitsClose'
  BY <1>1, <1>2, NoDescriptors
<1> QED BY <1>3, <1>4, <1>5 DEF IInv

LEMMA StopKeeps ==
  ASSUME IInv, TypeOK', StopLogic \/ StopGate
  PROVE  IInv'
<1>1. UNCHANGED <<run_gate, run_logic, command, todo, open, num, conn, left, watch, dropped>>
  BY DEF StopLogic, StopGate, fdVars
<1>2. \/ /\ pc = "stop_logic" /\ "logic" \in held /\ pc' = "join_io"
         /\ quit' = [quit EXCEPT !["LogicIO"] = TRUE] /\ UNCHANGED <<held, th>>
      \/ pc = "stop_logic" /\ "logic" \notin held /\ Stopped("logic") /\ UNCHANGED <<th, quit>>
      \/ pc = "join_io" /\ join("LogicIO") /\ pc' = "stop_worker" /\ UNCHANGED held
      \/ /\ pc = "stop_worker" /\ pc' = "join_worker"
         /\ quit' = [quit EXCEPT !["LogicWorker"] = TRUE] /\ UNCHANGED <<held, th>>
      \/ pc = "join_worker" /\ join("LogicWorker") /\ Stopped("logic")
      \/ /\ pc = "stop_gate" /\ "gate" \in held /\ pc' = "join_gate"
         /\ quit' = [quit EXCEPT !["GateMngr"] = TRUE] /\ UNCHANGED <<held, th>>
      \/ pc = "stop_gate" /\ "gate" \notin held /\ Stopped("gate") /\ UNCHANGED <<th, quit>>
      \/ pc = "join_gate" /\ join("GateMngr") /\ Stopped("gate")
  BY DEF StopLogic, StopGate, stop, thVars
<1>3. /\ quit'["GateWorker"] = quit["GateWorker"]
      /\ \A t \in Threads : \/ th'[t] = th[t]
                            \/ th[t] = "over" /\ th'[t] = "joined" /\ t # "GateWorker"
  BY <1>2 DEF join, IInv, TypeOK, Threads
<1>4. /\ pc \in LogicSteps \cup GateSteps /\ command # "none"
      /\ pc' \in LogicSteps \cup GateSteps \cup {"commands", "ended"}
  BY <1>2 DEF Stopped, IInv, MainWay, InitSteps, RunSteps, LogicSteps, GateSteps
<1>5. ~Early /\ ~Failed /\ ~Early' /\ ~Failed'
  BY <1>1, <1>4 DEF Early, Failed, InitSteps, RunSteps, LogicSteps, GateSteps
<1>6. MainWay' /\ Obtained'
  BY <1>1, <1>2, <1>4 DEF Stopped, IInv, MainWay, Obtained, InitSteps, RunSteps, LogicSteps, GateSteps
<1>7. ThreadsOK'
  <2>1. \A t \in Threads : Gone(t) => th'[t] = th[t]
    BY <1>3 DEF Gone
  <2>2. \A t \in Threads : Gone(t) => Gone(t)'
    BY <2>1 DEF Gone
  <2>3. \A t \in Threads : th'[t] = "none" <=> th[t] = "none"
    BY <1>3
  <2>4. ASSUME NEW t \in Threads, join(t) PROVE Gone(t)'
    BY <2>4 DEF join, Gone, IInv, TypeOK
  <2>5. /\ "gate" \notin held' => Gone("GateMngr")'
        /\ "logic" \notin held' => Gone("LogicIO")' /\ Gone("LogicWorker")'
    BY <1>2, <1>4, <1>5, <2>2, <2>4 DEF Stopped, IInv, ThreadsOK, Threads, InitSteps, RunSteps, LogicSteps, GateSteps
  <2>6. pc' \in {"stop_worker", "join_worker"} => Gone("LogicIO")'
    BY <1>2, <1>4, <1>5, <2>2, <2>4 DEF Stopped, IInv, ThreadsOK, Threads, InitSteps, RunSteps, LogicSteps, GateSteps
  <2>7. pc' = "ended" \/ (pc' \in GateSteps /\ command = "quit") =>
          Gone("LogicIO")' /\ Gone("LogicWorker")'
    BY <1>2, <1>4, <1>5, <2>2, <2>4 DEF Stopped, IInv, ThreadsOK, Threads, InitSteps, RunSteps, LogicSteps, GateSteps
  <2>8. pc' = "ended" => Gone("GateMngr")'
    BY <1>2, <1>4, <1>5, <2>2, <2>4 DEF Stopped, IInv, MainWay, ThreadsOK, Threads, InitSteps, RunSteps, LogicSteps, GateSteps
  <2> QED BY <1>1, <1>4, <1>5, <2>3, <2>5, <2>6, <2>7, <2>8 DEF IInv, ThreadsOK, Threads, InitSteps, RunSteps, LogicSteps, GateSteps
<1>8. WorkerOK'
  BY <1>1, <1>3, <1>5 DEF IInv, WorkerOK, Gone, Threads
<1>9. LogicHere'
  BY <1>1, <1>3, <1>5 DEF IInv, LogicHere, Threads
<1>10. Numbers' /\ NumbersKept' /\ UnitsClose'
  BY <1>1, <1>3, <1>5, NoDescriptors DEF Threads
<1> QED BY <1>6, <1>7, <1>8, <1>9, <1>10 DEF IInv

-----------------------------------------------------------------------------
(* The threads.  None runs before the main thread starts it.               *)
LEMMA NotEarly ==
  ASSUME IInv, NEW t \in Threads, th[t] # "none", UNCHANGED <<pc, command>>
  PROVE  ~Early /\ ~Failed /\ ~Early' /\ ~Failed'
BY DEF IInv, ThreadsOK, Early, Failed

(* The main thread does not move while another one does.                   *)
LEMMA MainStays ==
  ASSUME IInv, UNCHANGED <<mainVars, num>>, todo'["main"] = todo["main"],
         ~Early, \A t \in Threads : (th[t] # "none" /\ th'[t] # "none") \/ th'[t] = th[t],
         \A t \in Threads \ {"GateWorker"} : Gone(t) => Gone(t)'
  PROVE  MainWay' /\ Obtained' /\ ThreadsOK'
<1>1. ~Early'
  BY DEF Early, Failed, mainVars
<1>2. MainWay' /\ Obtained'
  BY DEF IInv, MainWay, Obtained, mainVars
<1>3. ThreadsOK'
  BY <1>1 DEF IInv, ThreadsOK, mainVars, Threads
<1> QED BY <1>2, <1>3

LEMMA LeavesKeeps ==
  ASSUME IInv, TypeOK', NEW t \in Threads, Leaves(t)
  PROVE  IInv'
<1>1. /\ UNCHANGED <<mainVars, quit, open, num, conn, left, watch, dropped>>
      /\ t # "GateMngr" /\ th[t] = "loop" /\ quit[t] /\ th'[t] = "unit"
      /\ \A v \in Threads \ {t} : th'[v] = th[v] /\ todo'[v] = todo[v]
      /\ todo'["main"] = todo["main"] /\ todo'[t] = unit(t)
  BY LeavesLists DEF Leaves, fdVars, IInv, TypeOK
<1>2. ~Early /\ ~Failed /\ ~Early' /\ ~Failed'
  BY <1>1, NotEarly DEF mainVars
<1>3. MainWay' /\ Obtained' /\ ThreadsOK'
  BY <1>1, <1>2, MainStays DEF Gone
<1>4. WorkerOK' /\ LogicHere'
  BY <1>1, <1>2 DEF IInv, WorkerOK, LogicHere, Gone, Threads, mainVars
<1>5. Numbers'
  BY <1>1, <1>2 DEF IInv, Numbers
<1>6. \A o \in Objs : ThreadOf[o] # t => (ToClose(o)' <=> ToClose(o))
  BY <1>1, Owners DEF ToClose
<1>7. NumbersKept'
  <2>1. \A o \in Objs : Kept(o)' => Kept(o)
    BY <1>1, <1>6, Owners DEF Kept
  <2>2. \A o \in Objs : HasNumber(o) => HasNumber(o)'
    BY <1>1 DEF HasNumber, Threads
  <2> QED BY <1>1, <1>2, <2>1, <2>2 DEF IInv, NumbersKept
<1>8. UnitsClose'
  <2>1. ASSUME NEW o \in Objs, ThreadOf[o] = t PROVE ToClose(o)'
    <3>1. \E i \in DOMAIN unit(t) : unit(t)[i] = o
      BY <2>1, UnitLists DEF Own
    <3> QED BY <1>1, <2>1, <3>1 DEF ToClose
  <2>2. \A o \in Objs : Shut(o)' <=> Shut(o)
    BY <1>1 DEF Shut
  <2>3. \A v \in Threads : Once(todo'[v]) /\ (th'[v] # "unit" => todo'[v] = <<>>)
    BY <1>1, UnitLists DEF IInv, UnitsClose
  <2> QED BY <1>1, <1>6, <2>1, <2>2, <2>3, Owners DEF IInv, UnitsClose
<1> QED BY <1>3, <1>4, <1>5, <1>7, <1>8 DEF IInv

LEMMA GateLeavesKeeps ==
  ASSUME IInv, TypeOK', GateLeaves
  PROVE  IInv'
<1>1. /\ UNCHANGED <<mainVars, todo, open, num, conn, left, watch, dropped>>
      /\ th["GateMngr"] = "loop" /\ th'["GateMngr"] = "stopping"
      /\ \A v \in Threads \ {"GateMngr"} : th'[v] = th[v]
  BY DEF GateLeaves, fdVars, IInv, TypeOK, Threads
<1>2. ~Early /\ ~Failed /\ ~Early' /\ ~Failed'
  BY <1>1, NotEarly DEF mainVars, Threads
<1>3. MainWay' /\ Obtained' /\ ThreadsOK'
  BY <1>1, <1>2, MainStays DEF Gone
<1>4. WorkerOK' /\ LogicHere'
  BY <1>1, <1>2 DEF IInv, WorkerOK, LogicHere, Gone, Threads, mainVars
<1>5. Numbers' /\ NumbersKept' /\ UnitsClose'
  BY <1>1, <1>2, NoDescriptors
<1> QED BY <1>3, <1>4, <1>5 DEF IInv

LEMMA GateStopsKeeps ==
  ASSUME IInv, TypeOK', GateStops
  PROVE  IInv'
<1>1. /\ UNCHANGED <<mainVars, quit, open, num, conn, left, watch, dropped>>
      /\ th["GateMngr"] = "stopping" /\ th'["GateMngr"] = "unit"
      /\ \/ th["GateWorker"] = "none" /\ th'["GateWorker"] = "none"
         \/ th["GateWorker"] = "over" /\ th'["GateWorker"] = "joined"
      /\ \A v \in {"LogicIO", "LogicWorker"} : th'[v] = th[v]
  BY DEF GateStops, fdVars, IInv, TypeOK, Threads
<1>2. /\ \A v \in Threads \ {"GateMngr"} : todo'[v] = todo[v]
      /\ todo'["main"] = todo["main"] /\ todo'["GateMngr"] = unit("GateMngr")
  BY LeavesLists DEF GateStops, IInv, Threads
<1>3. ~Early /\ ~Failed /\ ~Early' /\ ~Failed'
  BY <1>1, NotEarly DEF mainVars, Threads
<1>4. MainWay' /\ Obtained' /\ ThreadsOK'
  <2>1. \A t \in Threads : (th[t] # "none" /\ th'[t] # "none") \/ th'[t] = th[t]
    BY <1>1 DEF Threads
  <2>2. \A t \in Threads \ {"GateWorker"} : Gone(t) => Gone(t)'
    BY <1>1 DEF Threads, Gone
  <2> QED BY <1>1, <1>2, <1>3, <2>1, <2>2, MainStays
<1>5. WorkerOK' /\ LogicHere'
  BY <1>1, <1>3 DEF IInv, WorkerOK, LogicHere, Gone, Threads, mainVars
<1>6. Numbers'
  BY <1>1, <1>3 DEF IInv, Numbers
<1>7. \A o \in Objs : ThreadOf[o] # "GateMngr" => (ToClose(o)' <=> ToClose(o))
  BY <1>2, Owners DEF ToClose
<1>8. NumbersKept'
  <2>1. \A o \in Objs : Kept(o)' => Kept(o)
    BY <1>1, <1>7, Owners DEF Kept, Threads
  <2>2. \A o \in Objs : HasNumber(o) => HasNumber(o)'
    BY <1>1 DEF HasNumber
  <2> QED BY <1>1, <1>3, <2>1, <2>2 DEF IInv, NumbersKept
<1>9. UnitsClose'
  <2>1. \A o \in Objs : ThreadOf[o] = "GateMngr" => ToClose(o)'
    BY <1>2, UnitLists DEF ToClose, Own, Threads
  <2>2. \A o \in Objs : Shut(o)' <=> Shut(o)
    BY <1>1 DEF Shut
  <2>3. \A v \in Threads : Once(todo'[v]) /\ (th'[v] # "unit" => todo'[v] = <<>>)
    BY <1>1, <1>2, UnitLists DEF IInv, UnitsClose, Threads
  <2> QED BY <1>1, <1>7, <2>1, <2>2, <2>3, Owners DEF IInv, UnitsClose, Threads
<1> QED BY <1>4, <1>5, <1>6, <1>8, <1>9 DEF IInv

(* tover: nothing is left to close.                                        *)
LEMMA UnitOverKeeps ==
  ASSUME IInv, TypeOK', NEW t \in Threads, Unit(t), todo[t] = <<>>
  PROVE  IInv'
<1>1. /\ UNCHANGED <<mainVars, quit, todo, open, num, conn, left, watch, dropped>>
      /\ th[t] = "unit" /\ th'[t] = "over" /\ \A v \in Threads \ {t} : th'[v] = th[v]
  BY DEF Unit, fdVars, IInv, TypeOK
<1>2. ~Early /\ ~Failed /\ ~Early' /\ ~Failed'
  BY <1>1, NotEarly DEF mainVars
<1>3. MainWay' /\ Obtained' /\ ThreadsOK'
  BY <1>1, <1>2, MainStays DEF Gone
<1>4. WorkerOK' /\ LogicHere'
  BY <1>1, <1>2 DEF IInv, WorkerOK, LogicHere, Gone, Threads, mainVars
<1>5. Numbers'
  BY <1>1, <1>2 DEF IInv, Numbers
<1>6. \A o \in Objs : (ToClose(o)' <=> ToClose(o)) /\ (Shut(o)' <=> Shut(o))
  BY <1>1, ListsSame DEF Shut
<1>7. NumbersKept'
  <2>1. \A o \in Objs : Kept(o)' => Kept(o)
    BY <1>1, <1>6, Owners DEF Kept
  <2>2. \A o \in Objs : HasNumber(o) => HasNumber(o)'
    BY <1>1 DEF HasNumber, Threads
  <2> QED BY <1>1, <1>2, <2>1, <2>2 DEF IInv, NumbersKept
<1>8. UnitsClose'
  BY <1>1, <1>6, Owners DEF IInv, UnitsClose
<1> QED BY <1>3, <1>4, <1>5, <1>7, <1>8 DEF IInv

(* One more of a thread's objects is closed, and only that one.            *)
LEMMA UnitClosesKeeps ==
  ASSUME IInv, TypeOK', NEW t \in Threads, Unit(t), todo[t] # <<>>
  PROVE  IInv'
<1>o. PICK o \in Objs : o = Head(todo[t])
  BY UnitTail DEF Own, IInv
<1>1. /\ ThreadOf[o] = t /\ close_fd(o)
      /\ todo'[t] = Tail(todo[t]) /\ todo'["main"] = todo["main"]
      /\ \A v \in Threads \ {t} : todo'[v] = todo[v]
  BY <1>o, UnitTail DEF Own, IInv
<1>2. /\ UNCHANGED <<mainVars, quit, th, num, watch, dropped>>
      /\ th[t] = "unit"
      /\ \A g \in Fds : open'[g] = IF g = num[o] THEN NONE ELSE open[g]
      /\ \A c \in Conns : conn'[c] \in {conn[c], "closed"}
      /\ num[o] \in Fds \cup {0} /\ \A g \in Fds : g # 0
  BY <1>1, ClosesOf, LifecycleAssumption DEF Unit, IInv, TypeOK
<1>3. ~Early /\ ~Failed /\ ~Early' /\ ~Failed'
  BY <1>2, NotEarly DEF mainVars
<1>4. MainWay' /\ Obtained' /\ ThreadsOK'
  BY <1>1, <1>2, <1>3, MainStays DEF Gone
<1>5. WorkerOK'
  BY <1>2, <1>3, Owners DEF IInv, WorkerOK, Gone, mainVars
<1>6. LogicHere'
  <2>1. t # "LogicWorker"
    BY <1>1 DEF Objs, ThreadOf
  <2> QED BY <1>2, <1>3, <2>1 DEF IInv, LogicHere, WorkerOK, Threads
<1>7. Numbers'
  BY <1>2, <1>3, Owners DEF IInv, Numbers
<1>8. /\ ~ToClose(o)' /\ ToClose(o)
      /\ \A p \in Objs \ {o} : ToClose(p)' <=> ToClose(p)
  <2>1. todo[t] \in Seq(Own(t)) /\ Once(todo[t])
    BY DEF IInv, TypeOK, UnitsClose
  <2>2. /\ \A i \in DOMAIN Tail(todo[t]) : Tail(todo[t])[i] # o
        /\ \A i \in DOMAIN Tail(todo[t]) : \E j \in DOMAIN todo[t] : todo[t][j] = Tail(todo[t])[i]
        /\ \A j \in DOMAIN todo[t] : todo[t][j] = o \/
             \E i \in DOMAIN Tail(todo[t]) : Tail(todo[t])[i] = todo[t][j]
    BY <1>o, <2>1, HeadTail
  <2>3. 1 \in DOMAIN todo[t] /\ todo[t][1] = o
    BY <1>o, <2>1
  <2>4. ~ToClose(o)'
    BY <1>1, <2>2 DEF ToClose
  <2>5. ToClose(o)
    BY <1>1, <2>3 DEF ToClose
  <2>6. ASSUME NEW p \in Objs \ {o} PROVE ToClose(p)' <=> ToClose(p)
    <3>1. CASE ThreadOf[p] = t
      <4>1. todo'[ThreadOf[p]] = Tail(todo[t]) /\ todo[ThreadOf[p]] = todo[t]
        BY <1>1, <3>1
      <4> QED BY <2>2, <4>1 DEF ToClose
    <3>2. CASE ThreadOf[p] # t
      BY <1>1, <3>2, Owners DEF ToClose
    <3> QED BY <3>1, <3>2
  <2> QED BY <2>4, <2>5, <2>6
<1>9. NumbersKept'
  <2> SUFFICES ASSUME ~dropped, NEW p \in Objs, Kept(p)', num[p] # 0
               PROVE  HasNumber(p)'
    BY <1>2 DEF NumbersKept
  <2>1. p # o /\ Kept(p) /\ Kept(o)
    BY <1>1, <1>2, <1>8 DEF Kept
  <2>2. HasNumber(p) /\ (num[o] # 0 => HasNumber(o))
    BY <1>1, <1>2, <1>3, <2>1 DEF IInv, NumbersKept
  <2>3. num[p] \in Fds
    BY DEF IInv, TypeOK
  <2> QED BY <1>2, <2>1, <2>2, <2>3, Owners DEF HasNumber
<1>10. UnitsClose'
  <2>1. \A v \in Threads : Once(todo'[v]) /\ (th'[v] # "unit" => todo'[v] = <<>>)
    <3>1. todo[t] \in Seq(Own(t)) /\ Once(todo[t])
      BY DEF IInv, TypeOK, UnitsClose
    <3>2. Once(todo'[t])
      BY <1>1, <3>1, HeadTail
    <3> QED BY <1>1, <1>2, <3>2 DEF IInv, UnitsClose
  <2>2. Shut(o)' /\ \A p \in Objs : Shut(p) => Shut(p)'
    BY <1>1, <1>2, Owners DEF Shut, IInv, Numbers
  <2> QED BY <1>2, <1>8, <2>1, <2>2, Owners DEF IInv, UnitsClose
<1> QED BY <1>4, <1>5, <1>6, <1>7, <1>9, <1>10 DEF IInv

-----------------------------------------------------------------------------
(* Connections.                                                            *)
LEMMA ThreadsStay ==
  ASSUME IInv, UNCHANGED <<mainVars, th, todo>>
  PROVE  /\ MainWay' /\ ThreadsOK' /\ (num' = num => Obtained')
         /\ (Early' <=> Early) /\ (Failed' <=> Failed)
         /\ \A o \in Objs : ToClose(o)' <=> ToClose(o)
<1>1. (Early' <=> Early) /\ (Failed' <=> Failed)
  BY DEF Early, Failed, mainVars
<1>2. MainWay' /\ ThreadsOK' /\ (num' = num => Obtained')
  BY <1>1 DEF IInv, MainWay, ThreadsOK, Obtained, Gone, mainVars
<1> QED BY <1>1, <1>2, ListsSame

LEMMA AcceptKeeps ==
  ASSUME IInv, TypeOK', NEW c \in Conns, Accept(c)
  PROVE  IInv'
<1>1. /\ UNCHANGED <<mainVars, th, quit, todo, num, left>>
      /\ th["GateMngr"] = "loop" /\ conn[c] = "waiting"
  BY DEF Accept, thVars
<1>2. ~Early /\ ~Failed /\ ~Early' /\ ~Failed'
  BY <1>1, NotEarly DEF mainVars, Threads
<1>3. \/ /\ UNCHANGED <<open, watch>> /\ conn' = [conn EXCEPT ![c] = "closed"]
         /\ dropped' = (dropped \/ c = TheLogic)
      \/ /\ \E f \in Fds : /\ open[f] = NONE
                           /\ \A g \in Fds : open'[g] = IF g = f THEN c ELSE open[g]
         /\ conn' = [conn EXCEPT ![c] = "open"] /\ watch' = [watch EXCEPT ![c] = "GateMngr"]
         /\ dropped' = dropped
  <2>1. Lowest(Free) \in Fds /\ open[Lowest(Free)] = NONE
    BY LowestFree DEF Accept
  <2> QED BY <2>1 DEF Accept, IInv, TypeOK
<1>4. MainWay' /\ ThreadsOK' /\ Obtained'
  BY <1>1, ThreadsStay
<1>5. WorkerOK'
  <2>1. /\ \A d \in Conns \ {c} : conn'[d] = conn[d] /\ watch'[d] = watch[d]
        /\ conn'[c] \in {"open", "closed"}
    BY <1>3 DEF IInv, TypeOK
  <2>2. CASE c # TheLogic
    <3>1. conn'[TheLogic] = conn[TheLogic] /\ watch'[TheLogic] = watch[TheLogic] /\ dropped' = dropped
      BY <1>3, <2>1, <2>2, Owners DEF IInv, TypeOK
    <3> QED BY <1>1, <1>2, <3>1 DEF IInv, WorkerOK, Gone
  <2>3. CASE c = TheLogic
    <3>1. th["GateWorker"] = "none" /\ watch[TheLogic] = "none" /\ ~dropped
      BY <1>1, <2>3 DEF IInv, WorkerOK
    <3>2. dropped' => watch'[TheLogic] = "none"
      BY <1>3, <3>1
    <3> QED BY <1>1, <1>2, <2>1, <2>3, <3>1, <3>2 DEF IInv, WorkerOK, Gone
  <2> QED BY <2>2, <2>3
<1>6. LogicHere'
  <2>1. (dropped' \/ conn'[TheLogic] # "closed" \/ conn[TheLogic] = "closed") /\ (dropped => dropped')
    BY <1>3, Owners DEF IInv, TypeOK
  <2> QED BY <1>1, <1>2, <2>1 DEF IInv, LogicHere, mainVars
<1>7. Numbers'
  BY <1>1, <1>2, <1>3, Owners DEF IInv, Numbers
<1>8. NumbersKept'
  <2> SUFFICES ASSUME ~dropped', NEW p \in Objs, Kept(p)', num[p] # 0
               PROVE  HasNumber(p)'
    BY <1>1 DEF NumbersKept
  <2>0. \A o \in Objs : ToClose(o)' <=> ToClose(o)
    BY <1>1, ThreadsStay
  <2>d. ~dropped
    BY <1>3
  <2>1. Kept(p)
    BY <1>1, <2>0 DEF Kept
  <2>2. open[num[p]] = p /\ num[p] \in Fds
    BY <1>1, <1>2, <2>d, <2>1 DEF IInv, NumbersKept, HasNumber, TypeOK
  <2> QED BY <1>1, <1>3, <2>2, Owners DEF HasNumber
<1>9. UnitsClose'
  <2>1. \A o \in Objs : Shut(o) => Shut(o)'
    BY <1>3, Owners DEF Shut
  <2> QED BY <1>1, <2>1, ListsSame DEF IInv, UnitsClose
<1> QED BY <1>4, <1>5, <1>6, <1>7, <1>8, <1>9 DEF IInv

LEMMA LoginedKeeps ==
  ASSUME IInv, TypeOK', NEW c \in Conns, Logined(c)
  PROVE  IInv'
<1>1. /\ UNCHANGED <<mainVars, th, quit, todo, open, num, conn, left, dropped>>
      /\ watch'[TheLogic] = watch[TheLogic]
  BY Owners, LifecycleAssumption DEF Logined, thVars, fdVars, IInv, TypeOK
<1>2. /\ MainWay' /\ ThreadsOK' /\ Obtained' /\ (Early' <=> Early) /\ (Failed' <=> Failed)
      /\ \A o \in Objs : ToClose(o)' <=> ToClose(o)
  BY <1>1, ThreadsStay
<1>3. WorkerOK' /\ LogicHere' /\ Numbers'
  BY <1>1, <1>2 DEF IInv, WorkerOK, LogicHere, Numbers, Gone, mainVars
<1>4. NumbersKept' /\ UnitsClose'
  BY <1>1, <1>2 DEF IInv, NumbersKept, Kept, HasNumber, UnitsClose, Shut
<1> QED BY <1>2, <1>3, <1>4 DEF IInv

(* A number that is closed outside of unit(): by its owner.                *)
LEMMA OwnerCloses ==
  ASSUME IInv, NEW f \in Fds, NEW a \in Conns \cup {"logic_sock"}, open[f] = a, Close(f), ~Early,
         UNCHANGED <<mainVars, th, todo, num, dropped>>,
         a = "logic_sock" => dropped \/ (th["GateMngr"] # "loop" /\ th["LogicIO"] # "none")
  PROVE  Numbers' /\ NumbersKept' /\ UnitsClose'
<1>1. /\ \A g \in Fds : open'[g] = IF g = f THEN NONE ELSE open[g]
      /\ ~Early' /\ (Failed' <=> Failed)
      /\ \A o \in Objs : ToClose(o)' <=> ToClose(o)
  BY Closes, ThreadsStay DEF IInv
<1>2. Numbers'
  BY <1>1, Owners DEF IInv, Numbers, Early
<1>3. NumbersKept'
  <2> SUFFICES ASSUME ~dropped, ~Failed, NEW p \in Objs, Kept(p)', num[p] # 0
               PROVE  HasNumber(p)'
    BY <1>1 DEF NumbersKept
  <2>1. Kept(p)
    BY <1>1 DEF Kept
  <2>2. HasNumber(p) /\ num[p] \in Fds
    BY <2>1 DEF IInv, NumbersKept, TypeOK
  <2> QED BY <1>1, <2>2, Owners DEF HasNumber
<1>4. UnitsClose'
  <2>1. \A o \in Objs : Shut(o) => Shut(o)'
    BY <1>1, Owners DEF Shut
  <2> QED BY <1>1, <2>1 DEF IInv, UnitsClose
<1> QED BY <1>2, <1>3, <1>4

LEMMA ConnEndsKeeps ==
  ASSUME IInv, TypeOK', NEW c \in Conns, ConnEnds(c)
  PROVE  IInv'
<1>1. PICK f \in Fds : open[f] = c /\ Close(f)
  BY DEF ConnEnds
<1>2. /\ UNCHANGED <<mainVars, th, quit, todo, num, dropped>>
      /\ conn[c] = "open" /\ c \in left /\ watch[c] \in Threads /\ th[watch[c]] # "none"
      /\ watch' = [watch EXCEPT ![c] = "none"]
  BY DEF ConnEnds, thVars
<1>3. ~Early /\ ~Early'
  BY <1>2, NotEarly DEF mainVars
<1>4. MainWay' /\ ThreadsOK' /\ Obtained'
  BY <1>2, ThreadsStay
<1>5. /\ \A d \in Conns : conn'[d] \in {conn[d], "closed"} /\ (conn'[d] # conn[d] => d = c)
      /\ TheLogic \in left' => TheLogic \in left
  BY <1>1, Closes, Owners DEF IInv, Objs
<1>6. WorkerOK'
  <2>1. watch'[TheLogic] \in {watch[TheLogic], "none"}
    BY <1>2, Owners DEF IInv, TypeOK
  <2> QED BY <1>2, <1>3, <1>5, <2>1, Owners DEF IInv, WorkerOK, Gone, Threads
<1>7. LogicHere'
  BY <1>2, <1>3, <1>5, Owners DEF IInv, LogicHere, mainVars
<1>8. Numbers' /\ NumbersKept' /\ UnitsClose'
  <2>1. c # "logic_sock"
    BY Owners DEF Objs
  <2> QED BY <1>1, <1>2, <1>3, <2>1, OwnerCloses
<1> QED BY <1>4, <1>6, <1>7, <1>8 DEF IInv

LEMMA LogicEndsKeeps ==
  ASSUME IInv, TypeOK', LogicEnds
  PROVE  IInv'
<1>1. PICK f \in Fds : open[f] = "logic_sock" /\ Close(f)
  BY DEF LogicEnds
<1>2. /\ UNCHANGED <<mainVars, th, quit, todo, num, watch, dropped>>
      /\ th["LogicIO"] = "loop" /\ conn[TheLogic] = "closed"
  BY DEF LogicEnds, thVars
<1>3. ~Early /\ ~Failed /\ ~Early'
  BY <1>2, NotEarly DEF mainVars, Threads
<1>4. MainWay' /\ ThreadsOK' /\ Obtained'
  BY <1>2, ThreadsStay
<1>5. \A d \in Conns : conn'[d] \in {conn[d], "closed"}
  BY <1>1, Closes DEF IInv
<1>6. ~dropped => th["GateMngr"] # "loop"
  BY <1>2, <1>3 DEF IInv, LogicHere, ThreadsOK, TypeOK
<1>7. WorkerOK'
  BY <1>2, <1>3, <1>5, Owners DEF IInv, WorkerOK, Gone
<1>8. LogicHere'
  BY <1>2, <1>3, <1>6 DEF LogicHere
<1>9. Numbers' /\ NumbersKept' /\ UnitsClose'
  BY <1>1, <1>2, <1>3, <1>6, OwnerCloses
<1> QED BY <1>4, <1>7, <1>8, <1>9 DEF IInv

LEMMA VerifiedKeeps ==
  ASSUME IInv, TypeOK', Verified
  PROVE  IInv'
<1>1. /\ UNCHANGED <<mainVars, quit, todo, conn, left, dropped>>
      /\ th["GateMngr"] = "loop" /\ watch[TheLogic] = "GateMngr"
      /\ watch'[TheLogic] \in {"GateWorker", "nobody"}
  BY Owners DEF Verified, IInv, TypeOK
<1>2. ~Early /\ ~Failed /\ ~Early' /\ ~Failed'
  BY <1>1, NotEarly DEF mainVars, Threads
<1>3. th["GateWorker"] = "none" /\ num["worker_epoll"] = 0 /\ ~dropped
  BY <1>1 DEF IInv, WorkerOK, TypeOK
<1>4. conn[TheLogic] \in {"open", "closed"}
  BY <1>1 DEF IInv, WorkerOK
<1>5. CASE UNCHANGED <<open, num, th>>
  <2>1. MainWay' /\ ThreadsOK' /\ Obtained' /\ \A o \in Objs : ToClose(o)' <=> ToClose(o)
    BY <1>1, <1>5, ThreadsStay
  <2>2. WorkerOK' /\ LogicHere' /\ Numbers'
    BY <1>1, <1>2, <1>3, <1>4, <1>5 DEF IInv, WorkerOK, LogicHere, Numbers, Gone, mainVars
  <2>3. NumbersKept' /\ UnitsClose'
    BY <1>1, <1>2, <1>5, <2>1 DEF IInv, NumbersKept, Kept, HasNumber, UnitsClose, Shut
  <2> QED BY <2>1, <2>2, <2>3 DEF IInv
<1>6. CASE Obtain("worker_epoll") /\ start("GateWorker")
  <2>1. PICK f \in Fds :
          /\ f # 0 /\ open[f] = NONE
          /\ \A g \in Fds : open'[g] = IF g = f THEN "worker_epoll" ELSE open[g]
          /\ \A p \in Objs : num'[p] = IF p = "worker_epoll" THEN f ELSE num[p]
    BY <1>6, Opens DEF IInv, Objs
  <2>2. th'["GateWorker"] = "loop" /\ \A t \in Threads \ {"GateWorker"} : th'[t] = th[t]
    BY <1>6 DEF start, IInv, TypeOK, Threads
  <2>3. MainWay' /\ Obtained'
    BY <1>1, <2>1 DEF IInv, MainWay, Obtained, Objs, mainVars
  <2>4. ThreadsOK'
    BY <1>1, <1>2, <2>2 DEF IInv, ThreadsOK, Gone, Threads, mainVars
  <2>5. WorkerOK' /\ LogicHere'
    BY <1>1, <1>2, <1>3, <1>4, <2>2 DEF IInv, WorkerOK, LogicHere, Gone, Threads, mainVars
  <2>6. \A g \in Fds : open[g] # "worker_epoll" /\ g # 0
    BY <1>3, LifecycleAssumption DEF IInv, Numbers, Objs
  <2>7. Numbers'
    BY <1>2, <2>1, <2>6, Owners DEF IInv, Numbers, Objs
  <2>8. \A o \in Objs : ToClose(o)' <=> ToClose(o)
    BY <1>1, ListsSame
  <2>9. ASSUME NEW p \in Objs, Kept(p)', num'[p] # 0 PROVE HasNumber(p)'
    <3>1. CASE p = "worker_epoll"
      BY <2>1, <3>1 DEF HasNumber
    <3>2. CASE p # "worker_epoll"
      <4>1. ThreadOf[p] # "GateWorker" /\ num'[p] = num[p]
        BY <2>1, <3>2 DEF ThreadOf, Objs
      <4>2. Kept(p)
        BY <2>2, <2>8, <2>9, <4>1, Owners DEF Kept
      <4>3. open[num[p]] = p /\ num[p] \in Fds
        BY <1>1, <1>2, <1>3, <2>9, <4>1, <4>2 DEF IInv, NumbersKept, HasNumber, TypeOK
      <4> QED BY <2>1, <4>1, <4>3, Owners DEF HasNumber
    <3> QED BY <3>1, <3>2
  <2>10. NumbersKept'
    BY <2>9 DEF NumbersKept
  <2>11. UnitsClose'
    <3>1. \A o \in Objs \ {"worker_epoll"} : Shut(o) => Shut(o)'
      BY <2>1 DEF Shut
    <3>2. \A v \in Threads : th'[v] \in {"unit", "over", "joined"} => th'[v] = th[v]
      BY <2>2
    <3>3. ThreadOf["worker_epoll"] = "GateWorker" /\ "worker_epoll" \in Objs
      BY DEF ThreadOf, Objs
    <3>4. \A v \in Threads : Once(todo'[v]) /\ (th'[v] # "unit" => todo'[v] = <<>>)
      BY <1>1, <1>3, <2>2 DEF IInv, UnitsClose, Threads
    <3> QED BY <2>2, <2>8, <3>1, <3>2, <3>3, <3>4, Owners DEF IInv, UnitsClose
  <2> QED BY <2>3, <2>4, <2>5, <2>7, <2>10, <2>11 DEF IInv
<1> QED BY <1>5, <1>6 DEF Verified

(* Those outside; nothing of the process changes.                          *)
LEMMA OthersKeep ==
  ASSUME IInv, TypeOK', Others
  PROVE  IInv'
<1>1. UNCHANGED <<mainVars, th, quit, todo, open, num, watch, dropped>>
  BY DEF Others, OtherGateGoes, Connects, Goes, thVars
<1>2. /\ MainWay' /\ ThreadsOK' /\ Obtained' /\ (Early' <=> Early) /\ (Failed' <=> Failed)
      /\ \A o \in Objs : ToClose(o)' <=> ToClose(o)
  BY <1>1, ThreadsStay
<1>3. conn[TheLogic] \in {"open", "closed"} => conn'[TheLogic] \in {"open", "closed"}
  BY Owners DEF Others, OtherGateGoes, Connects, Goes, IInv, TypeOK
<1>4. run_gate /\ run_logic =>
        conn'[TheLogic] = conn[TheLogic] /\ (TheLogic \in left' <=> TheLogic \in left)
  BY Owners DEF Others, OtherGateGoes, Connects, Goes, IInv, TypeOK
<1>5. WorkerOK' /\ LogicHere' /\ Numbers'
  BY <1>1, <1>2, <1>3, <1>4 DEF IInv, WorkerOK, LogicHere, Numbers, Gone, mainVars
<1>6. NumbersKept' /\ UnitsClose'
  BY <1>1, <1>2 DEF IInv, NumbersKept, Kept, HasNumber, UnitsClose, Shut
<1> QED BY <1>2, <1>5, <1>6 DEF IInv
-----------------------------------------------------------------------------
LEMMA InitInv == ASSUME Init PROVE IInv
<1>1. TypeOK
  <2>1. <<>> \in Seq(Objs) /\ \A t \in Threads : <<>> \in Seq(Own(t))
    OBVIOUS
  <2>2. todo \in [Threads \cup {"main"} -> Seq(Objs)] /\ \A t \in Threads : todo[t] = <<>>
    BY <2>1 DEF Init
  <2>3. 0 \in 0 .. MaxFaults
    BY LifecycleAssumption
  <2>4. /\ run_gate \in BOOLEAN /\ run_logic \in BOOLEAN /\ pc \in InitSteps
        /\ command = "none" /\ held = {} /\ left = {} /\ dropped = FALSE /\ faults = 0
    BY DEF Init, InitSteps
  <2>5. /\ th \in [Threads -> {"none", "loop", "stopping", "unit", "over", "joined"}]
        /\ quit \in [Threads -> BOOLEAN]
        /\ open \in [Fds -> Objs \cup Conns \cup {NONE}] /\ num \in [Objs -> Fds \cup {0}]
        /\ conn \in [Conns -> {"none", "waiting", "open", "closed"}]
        /\ watch \in [Conns -> Threads \cup {"none", "nobody"}]
    BY DEF Init
  <2> QED BY <2>1, <2>2, <2>3, <2>4, <2>5 DEF TypeOK
<1>s. /\ pc = "init" /\ command = "none" /\ (run_gate \/ run_logic) /\ held = {} /\ left = {}
      /\ todo["main"] = <<>> /\ (\A t \in Threads : th[t] = "none")
      /\ (\A o \in Objs : num[o] = 0) /\ conn[TheLogic] = "none"
  BY Owners DEF Init
<1>2. MainWay /\ Obtained /\ ThreadsOK /\ LogicHere
  <2>1. MainWay
    BY <1>s DEF MainWay, InitSteps, RunSteps, LogicSteps, GateSteps
  <2>2. Obtained
    BY <1>s DEF Obtained, Objs
  <2>3. ThreadsOK
    BY <1>s DEF ThreadsOK, Gone, Threads, Early, Failed, InitSteps, RunSteps, LogicSteps, GateSteps
  <2>4. LogicHere
    BY <1>s DEF LogicHere
  <2> QED BY <2>1, <2>2, <2>3, <2>4
<1>3. WorkerOK /\ Numbers
  BY Owners DEF Init, WorkerOK, Numbers, Gone, Threads, Objs
<1>4. NumbersKept
  BY DEF Init, NumbersKept
<1>5. UnitsClose
  BY Owners DEF Init, UnitsClose, Once, Threads
<1> QED BY <1>1, <1>2, <1>3, <1>4, <1>5 DEF IInv

LEMMA NextInv == ASSUME IInv, [Next]_vars PROVE IInv'
<1>1. TypeOK'
  BY TypeStep DEF IInv
<1>2. CASE MainNext
  BY <1>1, <1>2, InitSystemKeeps, InitServerKeeps, InitAddKeeps, InitOpensKeeps,
     FailingKeeps, RunKeeps, StopKeeps DEF MainNext, MainInit
<1>3. CASE \E t \in Threads : Leaves(t) \/ Unit(t)
  BY <1>1, <1>3, LeavesKeeps, UnitOverKeeps, UnitClosesKeeps
<1>4. CASE GateLeaves \/ GateStops \/ Verified \/ LogicEnds
  BY <1>1, <1>4, GateLeavesKeeps, GateStopsKeeps, VerifiedKeeps, LogicEndsKeeps
<1>5. CASE \E c \in Conns : Accept(c) \/ Logined(c) \/ ConnEnds(c)
  BY <1>1, <1>5, AcceptKeeps, LoginedKeeps, ConnEndsKeeps
<1>6. CASE Others
  BY <1>1, <1>6, OthersKeep
<1>7. CASE \E line \in {"gateoff", "logicoff", "quit"} : ReadCommand(line)
  BY <1>1, <1>7, ReadCommandKeeps
<1>8. CASE UNCHANGED vars
  <2>1. UNCHANGED <<mainVars, th, quit, todo, open, num, conn, left, watch, dropped>>
    BY <1>8 DEF vars, thVars, fdVars
  <2>2. /\ MainWay' /\ ThreadsOK' /\ Obtained' /\ (Early' <=> Early) /\ (Failed' <=> Failed)
        /\ \A o \in Objs : ToClose(o)' <=> ToClose(o)
    BY <2>1, ThreadsStay
  <2>3. WorkerOK' /\ LogicHere' /\ Numbers'
    BY <2>1, <2>2 DEF IInv, WorkerOK, LogicHere, Numbers, Gone, mainVars
  <2>4. NumbersKept' /\ UnitsClose'
    BY <2>1, <2>2 DEF IInv, NumbersKept, Kept, HasNumber, UnitsClose, Shut
  <2> QED BY <1>1, <2>2, <2>3, <2>4 DEF IInv
<1> QED BY <1>2, <1>3, <1>4, <1>5, <1>6, <1>7, <1>8 DEF Next, ThreadNext, Ended

LEMMA Invariant == Spec => []IInv
<1> QED BY InitInv, NextInv, PTL DEF Spec

(* Every variable keeps its type; a thread's unit() has only objects of    *)
(* its own to close (TcpOp.cpp:121, EpollOp.cpp:99).                       *)
THEOREM TypeCorrect == Spec => []TypeOK
<1>1. IInv => TypeOK
  BY DEF IInv
<1> QED BY <1>1, Invariant, PTL

(* However often unit() is called on what is closed already, the number it *)
(* closes is its object's or nobody's, unless the Gate gave up the Logic's *)
(* connection at once: numbers are taken only while nobody who closed his  *)
(* own early may close again.                                              *)
THEOREM NumbersAreOwn == Spec => []NumbersOwn
<1>1. ASSUME IInv PROVE NumbersOwn
  <2> SUFFICES ASSUME ~dropped, NEW o \in Objs, MayUse(o), num[o] # 0
               PROVE  open[num[o]] \in {o, NONE}
    BY DEF NumbersOwn
  <2>1. CASE Failed
    BY <1>1, <2>1 DEF IInv, Numbers
  <2>2. CASE ~Failed
    <3>1. todo["main"] = <<>>
      BY <1>1, <2>2 DEF IInv, MainWay, Failed
    <3>2. ASSUME NEW t \in Threads, NEW i \in DOMAIN todo[t], todo[t][i] = o
          PROVE  ThreadOf[o] = t
      <4>1. todo[t] \in Seq(Own(t))
        BY <1>1 DEF IInv, TypeOK
      <4>2. todo[t][i] \in Own(t)
        BY <4>1
      <4> QED BY <3>2, <4>2 DEF Own
    <3>3. DOMAIN todo = Threads \cup {"main"}
      BY <1>1 DEF IInv, TypeOK
    <3>4. Kept(o)
      BY <3>1, <3>2, <3>3 DEF MayUse, Kept, ToClose
    <3> QED BY <1>1, <2>2, <3>4 DEF IInv, NumbersKept, HasNumber
  <2> QED BY <2>1, <2>2
<1> QED BY <1>1, Invariant, PTL

(* A server that is released, and every server when the process ends, has  *)
(* no thread that runs or was never joined, and has closed its own: the    *)
(* listening socket, both ends' epolls, the Logic's connection             *)
(* (Gate.cpp:59, Logic.cpp:103, GateIO.cpp:405).                           *)
THEOREM StopsCleanly == Spec => []CleanlyDown
<1>1. ASSUME IInv PROVE CleanlyDown
  <2> SUFFICES ASSUME command # "none", pc \in {"commands", "ended"} PROVE CleanlyDown
    BY DEF CleanlyDown
  <2>1. ~Early /\ pc # "run_logic"
    BY DEF Early, Failed, InitSteps, RunSteps, LogicSteps, GateSteps
  <2>2. ASSUME NEW o \in Objs, Gone(ThreadOf[o]) PROVE \A f \in Fds : open[f] # o
    <3>1. CASE th[ThreadOf[o]] = "none"
      <4>1. num[o] = 0
        BY <1>1, <2>1, <3>1 DEF IInv, ThreadsOK, Obtained, WorkerOK, ThreadOf, Objs
      <4> QED BY <1>1, <4>1, LifecycleAssumption DEF IInv, Numbers
    <3>2. CASE th[ThreadOf[o]] = "joined"
      <4>1. todo[ThreadOf[o]] = <<>>
        BY <1>1, <3>2, Owners DEF IInv, UnitsClose
      <4>2. ~ToClose(o)
        BY <4>1 DEF ToClose
      <4> QED BY <1>1, <3>2, <4>2 DEF IInv, UnitsClose, Shut
    <3> QED BY <2>2, <3>1, <3>2 DEF Gone
  <2>3. Gone("GateMngr") => Gone("GateWorker")
    BY <1>1 DEF IInv, WorkerOK, Gone
  <2>4. Gone("GateMngr") => Down(GateThreads)
    BY <2>2, <2>3 DEF Down, GateThreads, Gone
  <2>5. Gone("LogicIO") /\ Gone("LogicWorker") => Down(Threads \ GateThreads)
    BY <2>2 DEF Down, GateThreads, Threads, Gone
  <2>6. Gone("GateMngr") /\ Gone("LogicIO") /\ Gone("LogicWorker") => Down(Threads)
    BY <2>2, <2>3 DEF Down, Threads, Gone
  <2> QED BY <1>1, <2>1, <2>4, <2>5, <2>6 DEF IInv, ThreadsOK, CleanlyDown
<1> QED BY <1>1, Invariant, PTL
=============================================================================
