---------------------------- MODULE RewindStack ----------------------------
(***************************************************************************)
(* What the rewind buffer promises: a stack of savestates that may forget  *)
(* its oldest ones, never the newest, and gives each back as it was.       *)
(***************************************************************************)
EXTENDS Integers, Sequences

CONSTANT States
VARIABLES stack,    \* savestates, the newest last
          loaded    \* the savestate the core was last given

vars == <<stack, loaded>>

Init == stack = <<>> /\ loaded \in States

Free == stack' = <<>> /\ UNCHANGED loaded

(* the new state on top of what is kept of the old ones *)
Push(s) == /\ \/ stack = <<>> /\ stack' = <<s>>
              \/ \E n \in 1..Len(stack) :
                   stack' = Append(SubSeq(stack, n, Len(stack)), s)
           /\ UNCHANGED loaded

Pop == /\ stack # <<>>
       /\ loaded' = stack[Len(stack)]
       /\ stack' = SubSeq(stack, 1, Len(stack) - 1)

Next == (\E s \in States : Push(s)) \/ Free \/ Pop

Spec == Init /\ [][Next]_vars

=============================================================================
