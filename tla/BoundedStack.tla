---------------------------- MODULE BoundedStack ----------------------------
(***************************************************************************)
(* What the three producer-consumer programs of chapter 3 promise of the    *)
(* vector they share: numbers are pushed one at a time while there is room  *)
(* and taken one at a time while there are any, the youngest first, each by *)
(* one consumer.                                                            *)
(***************************************************************************)
EXTENDS Integers, Sequences

CONSTANTS Numbers, Capacity

VARIABLE stack

Init == stack = << >>

Put(n) ==
  /\ Len(stack) < Capacity
  /\ stack' = Append(stack, n)

Pop ==
  /\ stack # << >>
  /\ stack' = SubSeq(stack, 1, Len(stack) - 1)

Next == Pop \/ \E n \in Numbers : Put(n)

Spec == Init /\ [][Next]_stack
=============================================================================
