----------------------------- MODULE MessageChannel -----------------------------
(***************************************************************************)
(* What the framing of a connection promises: of the messages written to   *)
(* it, in their order and each of them once, those of a known id arrive;   *)
(* a message whose length makes no sense ends it.                          *)
(***************************************************************************)
EXTENDS Naturals, Sequences, Functions

CONSTANTS
  Conns,            (* connections                                         *)
  WellFormed(_),    (* its length is one a receiver accepts                *)
  Known(_),         (* its id is one of the protocol                       *)
  Arrives(_, _)     (* what a message may be when it has arrived           *)

VARIABLES
  sent,   (* sent[c]: the messages written to c                            *)
  taken,  (* taken[c]: how many of them have been looked at                *)
  got     (* got[c]: what has arrived                                      *)

vars == <<sent, taken, got>>

Init ==
  /\ taken = [c \in Conns |-> 0]
  /\ got = [c \in Conns |-> <<>>]

Take(c) ==
  /\ taken[c] < Len(sent[c])
  /\ LET m == sent[c][taken[c] + 1] IN
       /\ WellFormed(m)
       /\ taken' = [taken EXCEPT ![c] = @ + 1]
       /\ IF Known(m)
            THEN \E g \in Range(got'[c]) :
                   Arrives(m, g) /\ got' = [got EXCEPT ![c] = Append(@, g)]
            ELSE UNCHANGED got
  /\ UNCHANGED sent

Next == \E c \in Conns : Take(c)
Spec == Init /\ [][Next]_vars
=============================================================================
