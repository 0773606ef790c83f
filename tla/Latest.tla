------------------------------- MODULE Latest -------------------------------
(***************************************************************************)
(* What a channel promises that may drop all but the newest of the values  *)
(* put into it: what comes out is never older than what came out before,   *)
(* and the newest value, or one after it, comes out at last.  Values are   *)
(* numbered in the order they are put in.                                  *)
(***************************************************************************)
EXTENDS Naturals

VARIABLES
  newest, \* the number of the last value put in
  sent    \* and of the last value that came out

chan == <<newest, sent>>

Init == newest = 0 /\ sent = 0

Put  == newest' \in Nat /\ newest' > newest /\ UNCHANGED sent
Send == sent' \in sent + 1 .. newest /\ UNCHANGED newest

\* A value that comes out in the step that puts it in.
Pass == newest' \in Nat /\ newest' > newest /\ sent' \in sent + 1 .. newest'

Spec == Init /\ [][Put \/ Send \/ Pass]_chan /\ WF_chan(Send)
=============================================================================
