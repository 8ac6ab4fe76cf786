------------------------------ MODULE VaStack -------------------------------
(***************************************************************************)
(* What STOREMA and LOADMA with SP promise: a last-in first-out stack of   *)
(* register values, and registers that get back what was pushed.  The      *)
(* stack pointer itself is not visible.                                    *)
(***************************************************************************)
EXTENDS Naturals, Sequences

CONSTANTS
  Visible,  \* the registers a program pushes and pops: an interval
  Values    \* what a register holds

VARIABLES
  stack,    \* the pushed values, the top last
  file      \* the visible registers

Init == stack = << >> /\ file \in [Visible -> Values]

\* Push the registers s .. e, s first.
Push(s, e) ==
  /\ s .. e \subseteq Visible
  /\ stack' = stack \o [k \in 1 .. e - s + 1 |-> file[s + k - 1]]
  /\ UNCHANGED file

\* Pop as many values, the top to e.
Pop(s, e) ==
  LET left == Len(stack) - (e - s + 1)
  IN  /\ s .. e \subseteq Visible /\ left >= 0
      /\ stack' = SubSeq(stack, 1, left)
      /\ file' = [r \in Visible |-> IF r \in s .. e THEN stack[left + 1 + r - s]
                                    ELSE file[r]]

\* Any other instruction.
Compute == file' \in [Visible -> Values] /\ UNCHANGED stack

Next == \/ \E s, e \in Visible : s <= e /\ (Push(s, e) \/ Pop(s, e))
        \/ Compute

Spec == Init /\ [][Next]_<<stack, file>>
=============================================================================
