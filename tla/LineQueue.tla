----------------------------- MODULE LineQueue -----------------------------
(***************************************************************************)
(* What a connection promises of the lines handed to it: they leave it      *)
(* once, whole and in the order they were handed over, sooner or later.     *)
(***************************************************************************)
EXTENDS Naturals, Sequences

CONSTANT Line
VARIABLES asked, out      \* lines handed over, lines that left

Init == asked = <<>> /\ out = <<>>

Ask == /\ \E l \in Line : asked' = Append(asked, l)
       /\ UNCHANGED out

Leave == /\ Len(out) < Len(asked)
         /\ out' = Append(out, asked[Len(out) + 1])
         /\ UNCHANGED asked

\* a line handed over while none waits may leave at once
AskAndLeave == /\ out = asked
               /\ \E l \in Line : asked' = Append(asked, l)
               /\ out' = asked'

Next == Ask \/ Leave \/ AskAndLeave

Spec == Init /\ [][Next]_<<asked, out>> /\ WF_<<asked, out>>(Leave)
============================================================================
