----------------------------- MODULE LogicService -----------------------------
(***************************************************************************)
(* What the Logic server promises the Gate: messages are handled one at a  *)
(* time in the order they came, each once; every dosth of a user that came *)
(* online is answered, and the answers leave in that order.  Stopping may  *)
(* forget messages, the end of the connection may lose answers.            *)
(***************************************************************************)
EXTENDS Naturals, Sequences

CONSTANT Frames   (* the messages, records [kind, uid, sth]               *)

VARIABLES
  pending,   (* messages received and not yet handled, oldest first       *)
  known,     (* the users that came online                                *)
  answers,   (* answers not yet written to the Gate, oldest first         *)
  sent,      (* answers the Gate can read, oldest first                   *)
  up,        (* the connection to the Gate stands                         *)
  stopping   (* the server was told to stop                               *)

vars == <<pending, known, answers, sent, up, stopping>>

Init ==
  /\ pending = <<>> /\ known = {}
  /\ answers = <<>> /\ sent = <<>>
  /\ up = TRUE /\ stopping = FALSE

Receive(m) ==
  /\ pending' = Append(pending, m)
  /\ UNCHANGED <<known, answers, sent, up, stopping>>

Answer(m) == [uid |-> m.uid, sth |-> m.sth]

Handle ==
  /\ pending # <<>>
  /\ pending' = Tail(pending)
  /\ LET m == Head(pending) IN
       /\ known' = IF m.kind = "online" /\ m.uid > 0 THEN known \cup {m.uid}
                                                     ELSE known
       /\ answers' = IF m.kind = "dosth" /\ m.uid \in known
                       THEN Append(answers, Answer(m)) ELSE answers
  /\ UNCHANGED <<sent, up, stopping>>

Send ==
  /\ answers # <<>>
  /\ answers' = Tail(answers)
  /\ sent' = IF up THEN Append(sent, Head(answers)) ELSE sent
  /\ UNCHANGED <<pending, known, up, stopping>>

Cut == up' = FALSE /\ UNCHANGED <<pending, known, answers, sent, stopping>>

Stop == stopping' = TRUE /\ UNCHANGED <<pending, known, answers, sent, up>>

Forget ==
  /\ stopping
  /\ pending' = <<>>
  /\ UNCHANGED <<known, answers, sent, up, stopping>>

Next == (\E m \in Frames : Receive(m)) \/ Handle \/ Send \/ Cut \/ Stop \/ Forget

Spec == Init /\ [][Next]_vars
=============================================================================
