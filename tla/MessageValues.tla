----------------------------- MODULE MessageValues -----------------------------
(***************************************************************************)
(* What a message object promises whoever uses it: it is a value, a        *)
(* partial function from the members that are set to what they hold, and   *)
(* reads as the defaults where nothing is set.  Objects share nothing:     *)
(* copies are copies, and a string is handed over whole, by the message to *)
(* its user or by the user to the message.                                 *)
(***************************************************************************)
EXTENDS Functions

CONSTANTS
  Hands,     (* places where the user keeps strings                        *)
  NULL

VARIABLES
  defaults,  (* what the members of an empty message read                  *)
  val,       (* val[m]: the members set in the object m, if there is one   *)
  strings    (* strings[h]: a string of the user, or NULL                  *)

Over(f, g) == [x \in DOMAIN f \cup DOMAIN g |-> IF x \in DOMAIN f THEN f[x] ELSE g[x]]
Put(f, x, v) == [y \in DOMAIN f \cup {x} |-> IF y = x THEN v ELSE f[y]]

Empty == Restrict(defaults, {})
Reads(m) == Over(val[m], defaults)
Without(v, S) == Restrict(v, DOMAIN v \ S)

Init ==
  /\ strings = [h \in Hands |-> NULL]
  /\ val = Restrict(strings, {})

Become(v) == val' = v /\ UNCHANGED strings
Becomes(m, v) == Become(Put(val, m, v))

Construct(m) == Becomes(m, Empty)
Copy(m, n) == Becomes(m, val[n])
Delete(m) == Become(Without(val, {m}))
Set(m, f, x) == Becomes(m, Put(val[m], f, x))
ClearField(m, f) == Becomes(m, Without(val[m], {f}))
Clear(m) == Becomes(m, Empty)
MergeFrom(m, n) == Becomes(m, Over(val[n], val[m]))
CopyFrom(m, n) == Becomes(m, val[n])
Swap(m, n) == Become([val EXCEPT ![m] = val[n], ![n] = val[m]])
Parse(m, v) == Becomes(m, v)

(* A member that is not set may give away nothing, or an empty string.     *)
Release(m, f, h, nothing) ==
  /\ val' = [val EXCEPT ![m] = Without(@, {f})]
  /\ strings' = [strings EXCEPT ![h] =
       IF f \in DOMAIN val[m] THEN val[m][f] ELSE IF nothing THEN NULL ELSE defaults[f]]

SetAllocated(m, f, h) ==
  /\ val' = [val EXCEPT ![m] =
       IF strings[h] = NULL THEN Without(@, {f}) ELSE Put(@, f, strings[h])]
  /\ strings' = [strings EXCEPT ![h] = NULL]

UserString(h, x) == strings' = [strings EXCEPT ![h] = x] /\ UNCHANGED val
=============================================================================
