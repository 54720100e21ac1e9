------------------------------- MODULE MCMessages -------------------------------
(***************************************************************************)
(* A small instance of Messages: two objects of each class, a string of    *)
(* the user, and addresses enough for all of them.  The objects are alike. *)
(***************************************************************************)
EXTENDS Messages

CONSTANTS m1, m2, h1

SmallStrings == {<<>>, <<97>>}
EdgeNumbers == {-1, 128}
Alike == Permutations({m1, m2})
=============================================================================
