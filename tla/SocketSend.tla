------------------------------- MODULE SocketSend -------------------------------
(***************************************************************************)
(* util/SocketOp, TcpOp, EpollOp: how one connection's bytes are written.  *)
(* A message is written at once, in pieces; what the socket refuses goes   *)
(* to the node's _wt_buff and is tried again when the node has an event.   *)
(* One thread owns the node; the peer and the kernel's buffer move between *)
(* any two of its calls to ::write.                                        *)
(***************************************************************************)
EXTENDS Integers, Sequences, Functions

CONSTANTS
  Chunk,     (* WRITE_DATA_MAX                                            *)
  Room,      (* how many bytes the kernel keeps for the peer              *)
  Lens,      (* lengths of messages                                       *)
  MaxMsgs    (* bound: how many are written                               *)

ASSUME SendAssumption ==
  /\ Chunk \in Nat \ {0} /\ Room \in Nat \ {0} /\ MaxMsgs \in Nat
  /\ Lens \subseteq Nat \ {0}

(* FD_EVENT is an int and its values are bits.                             *)
FD_EVENT_NONE  == 0
FD_EVENT_WRITE == 2
FD_EVENT_ERROR == 8
And(ret, bit) == IF (ret \div bit) % 2 = 1 THEN bit ELSE 0

VARIABLES
  written,   (* how many messages were written                            *)
  stream,    (* their bytes; byte i of message n is <<n, i>>              *)
  kern,      (* bytes the kernel took and the peer has not read           *)
  got,       (* bytes the peer read                                       *)
  wt_buff,   (* the node's _wt_buff                                       *)
  can_wt,    (* its _can_wt                                               *)
  out,       (* its epoll events have EPOLLOUT                            *)
  pc,        (* "idle", or who called send: "msg", or event_op with or    *)
             (* without FD_EVENT_WRITE, "out" or "in"                     *)
  data,      (* data + wt_len of send                                     *)
  spoke,     (* there is something to read                                *)
  gone,      (* the peer has ended the connection                         *)
  closed,    (* close_op was called                                       *)
  trouble    (* history: what happened to the stream so far               *)

peerVars == <<got, spoke, gone>>
nodeVars == <<wt_buff, can_wt, out, closed>>
sendVars == <<pc, data>>
vars == <<written, stream, kern, peerVars, nodeVars, sendVars, trouble>>

Init ==
  /\ written = 0 /\ stream = <<>> /\ kern = <<>> /\ got = <<>>
  /\ wt_buff = <<>> /\ can_wt = TRUE /\ out = FALSE
  /\ pc = "idle" /\ data = <<>>
  /\ spoke = FALSE /\ gone = FALSE /\ closed = FALSE
  /\ trouble = {}
-----------------------------------------------------------------------------
(* The peer and the kernel.                                                *)
PeerReads ==
  /\ kern # <<>> /\ ~gone
  /\ got' = Append(got, Head(kern))
  /\ kern' = Tail(kern)
  /\ UNCHANGED <<written, stream, spoke, gone, nodeVars, sendVars, trouble>>

PeerSpeaks ==
  /\ ~spoke /\ ~gone
  /\ spoke' = TRUE
  /\ UNCHANGED <<written, stream, kern, got, gone, nodeVars, sendVars, trouble>>

PeerEnds ==
  /\ ~gone
  /\ gone' = TRUE
  /\ trouble' = trouble \cup {"gone"}
  /\ UNCHANGED <<written, stream, kern, got, spoke, nodeVars, sendVars>>

WriteReady == gone \/ (out /\ Len(kern) < Room)
ReadReady == gone \/ spoke
-----------------------------------------------------------------------------
(* write(node, msg): the message is composed and sent.  Nobody looks at    *)
(* what send returns.                                                      *)
Bytes(n, len) == [i \in 1 .. len |-> <<n, i>>]

write_msg(len) ==
  /\ pc = "idle" /\ ~closed
  /\ written < MaxMsgs
  /\ written' = written + 1
  /\ LET bytes == Bytes(written + 1, len) IN
       /\ stream' = stream \o bytes
       /\ IF can_wt
            THEN pc' = "msg" /\ data' = bytes /\ UNCHANGED wt_buff
            ELSE wt_buff' = wt_buff \o bytes /\ UNCHANGED sendVars
  /\ trouble' = IF wt_buff = <<>> \/ ~can_wt
                  THEN trouble ELSE trouble \cup {"overtaken"}
  /\ UNCHANGED <<kern, peerVars, can_wt, out, closed>>

(* mutant: read_begin where read_del_begin should be                       *)
flush_keeping(caller) == pc' = caller /\ data' = wt_buff /\ UNCHANGED wt_buff

(* write(node): all of _wt_buff is taken out and sent.                     *)
flush(caller) == pc' = caller /\ data' = wt_buff /\ wt_buff' = <<>>

(* mutant: _wt_buff is looked at only when the socket is writable          *)
event_op_read_only ==
  /\ pc = "idle" /\ ~closed
  /\ WriteReady \/ ReadReady
  /\ spoke' = FALSE
  /\ IF WriteReady /\ wt_buff # <<>>
       THEN can_wt' = TRUE /\ flush("out") /\ UNCHANGED <<out, closed>>
       ELSE /\ closed' = gone
            /\ out' = (out /\ ~WriteReady)
            /\ can_wt' = (can_wt \/ WriteReady)
            /\ UNCHANGED <<wt_buff, sendVars>>
  /\ UNCHANGED <<written, stream, kern, got, gone, trouble>>

(* event_op: what there is to read is read; an error closes the node, but  *)
(* first _wt_buff is sent, if there is something in it.                    *)
event_op ==
  /\ pc = "idle" /\ ~closed
  /\ WriteReady \/ ReadReady
  /\ spoke' = FALSE
  /\ IF wt_buff # <<>>
       THEN /\ can_wt' = TRUE
            /\ flush(IF WriteReady THEN "out" ELSE "in")
            /\ UNCHANGED <<out, closed>>
       ELSE /\ closed' = gone
            /\ out' = (out /\ ~WriteReady)
            /\ can_wt' = (can_wt \/ WriteReady)
            /\ UNCHANGED <<wt_buff, sendVars>>
  /\ UNCHANGED <<written, stream, kern, got, gone, trouble>>

(* What the caller of send does with its result.  A bit is compared with   *)
(* true, which is 1: epoll_out is never called.                            *)
Returned(ret) ==
  /\ pc' = "idle"
  /\ data' = <<>>
  /\ closed' = (pc # "msg" /\ And(ret, FD_EVENT_ERROR) # 0)
  /\ out' = CASE pc = "out" /\ And(ret, FD_EVENT_WRITE) = 0 -> FALSE
              [] pc = "in" /\ And(ret, FD_EVENT_WRITE) = 1 -> TRUE
              [] OTHER -> out

(* send: one call to ::write.  However many bytes the kernel takes, send   *)
(* goes on behind the piece it offered.                                    *)
one_len == IF Len(data) > Chunk THEN Chunk ELSE Len(data)
Taken == IF Room - Len(kern) < one_len THEN Room - Len(kern) ELSE one_len

Send ==
  /\ pc # "idle" /\ ~gone
  /\ Taken > 0
  /\ kern' = kern \o SubSeq(data, 1, Taken)
  /\ IF one_len < Len(data)
       THEN /\ data' = SubSeq(data, one_len + 1, Len(data))
            /\ UNCHANGED <<pc, closed, out>>
       ELSE Returned(FD_EVENT_NONE)
  /\ trouble' = IF Taken < one_len THEN trouble \cup {"short"} ELSE trouble
  /\ UNCHANGED <<written, stream, peerVars, wt_buff, can_wt>>

(* mutant: the rest is not kept                                            *)
SendRefusedDropping ==
  /\ pc # "idle" /\ ~gone
  /\ Taken = 0
  /\ Returned(FD_EVENT_WRITE)
  /\ UNCHANGED <<written, stream, kern, peerVars, wt_buff, can_wt, trouble>>

(* EAGAIN: the rest goes to _wt_buff.                                      *)
SendRefused ==
  /\ pc # "idle" /\ ~gone
  /\ Taken = 0
  /\ wt_buff' = wt_buff \o data
  /\ Returned(FD_EVENT_WRITE)
  /\ UNCHANGED <<written, stream, kern, peerVars, can_wt, trouble>>

SendFails ==
  /\ pc # "idle" /\ gone
  /\ Returned(FD_EVENT_ERROR)
  /\ UNCHANGED <<written, stream, kern, peerVars, wt_buff, can_wt, trouble>>

Closed == closed /\ UNCHANGED vars

ThreadNext == event_op \/ Send \/ SendRefused \/ SendFails

Next ==
  \/ \E len \in Lens : write_msg(len)
  \/ ThreadNext
  \/ PeerReads \/ PeerSpeaks \/ PeerEnds
  \/ Closed

(* The thread runs, and the peer reads what came.                          *)
Spec == Init /\ [][Next]_vars /\ WF_vars(ThreadNext) /\ WF_vars(PeerReads)
-----------------------------------------------------------------------------
Kept == (got \o kern) \o (data \o wt_buff)

(* No byte is ever written twice, whatever is refused, buffered, taken in  *)
(* part and tried again.                                                   *)
NothingTwice == IsInjective(Kept)

(* A byte is lost only when the kernel takes a part of a piece, or the     *)
(* peer goes: what is refused is kept.  And the order is lost only when a  *)
(* message is written while _wt_buff holds the rest of another.            *)
KeptInOrder ==
  /\ {"short", "gone"} \cap trouble = {} => Range(Kept) = Range(stream)
  /\ trouble = {} => Kept = stream

(* A byte that was refused reaches the peer if it speaks again and again:  *)
(* only its own messages make the server look at _wt_buff.                 *)
ReachesPeer ==
  []<>spoke =>
    \A b \in (1 .. MaxMsgs) \X UNION {1 .. len : len \in Lens} :
      b \in Range(wt_buff) ~> b \in Range(got) \/ trouble \cap {"short", "gone"} # {}
=============================================================================
