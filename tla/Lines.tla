------------------------------- MODULE Lines --------------------------------
(***************************************************************************)
(* What a terminal promises: whoever writes to it, the system among them, has  *)
(* a text of its own, and the screen gets the lines of those texts one at a    *)
(* time, whole and unmixed, and those of one writer in the order they were     *)
(* written. A fork gives the child a copy of what its parent has not shown     *)
(* yet, and the system may say so.                                            *)
(***************************************************************************)
EXTENDS Naturals, Sequences, SequencesExt

CONSTANTS
  Writer, System,      (* System is one of the writers *)
  Newline

VARIABLES
  pending,   (* for each writer the text it has written and not shown *)
  line       (* the line that appeared last, <<>> after a step that shows none *)
vars == <<pending, line>>

-----------------------------------------------------------------------------

Init ==
  /\ pending = [w \in Writer |-> <<>>]
  /\ line = <<>>

Say(w) ==
  /\ line' = <<>>
  /\ \E text \in {pending'[w]} :
       /\ IsPrefix(pending[w], text)
       /\ pending' = [pending EXCEPT ![w] = text]

(* The first line of a text is shown. *)
Show(w) ==
  /\ \E n \in DOMAIN pending[w] :
       /\ pending[w][n] = Newline
       /\ \A m \in 1 .. n - 1 : pending[w][m] # Newline
       /\ line' = SubSeq(pending[w], 1, n)
       /\ pending' = [pending EXCEPT ![w] = SubSeq(@, n + 1, Len(@))]

Fork(w, child) ==
  /\ line' = <<>>
  /\ pending[child] = <<>>
  /\ \E said \in {pending'[System]} :
       /\ IsPrefix(pending[System], said)
       /\ pending' = [pending EXCEPT ![child] = pending[w], ![System] = said]

Quiet ==
  /\ line' = <<>>
  /\ UNCHANGED pending

Next ==
  \/ \E w \in Writer : Say(w) \/ Show(w)
  \/ \E w, child \in Writer \ {System} : Fork(w, child)
  \/ Quiet

Spec == Init /\ [][Next]_vars

=============================================================================
