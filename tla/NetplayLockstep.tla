-------------------------- MODULE NetplayLockstep --------------------------
(***************************************************************************)
(* What network/netplay/README promises: "it should be impossible for them *)
(* to become de-synced, since each input event always happens at the       *)
(* correct frame".  There is one game.  Its frames are determined by the   *)
(* inputs of all players, and each peer has seen some first part of it.    *)
(***************************************************************************)
EXTENDS Naturals, Sequences

CONSTANTS Player, Input, Zero

VARIABLES input,   \* [player -> its inputs, frame by frame]
          history  \* [peer -> the frames it will never take back]

Init == /\ input = [p \in Player |-> <<Zero>>]
        /\ history = [p \in Player |-> <<[c \in Player |-> Zero]>>]

(* A player gives the input of its next frame. *)
Press(p, i) == /\ input' = [input EXCEPT ![p] = Append(@, i)]
               /\ UNCHANGED history

(* A peer moves on over n frames whose inputs are all there. *)
Advance(p, n) ==
  LET done == Len(history[p]) IN
  /\ \A c \in Player : done + n <= Len(input[c])
  /\ history' = [history EXCEPT ![p] =
       @ \o [k \in 1..n |-> [c \in Player |-> input[c][done + k]]]]
  /\ UNCHANGED input

Next == \E p \in Player :
          \/ \E i \in Input : Press(p, i)
          \/ \E n \in 1..Len(input[p]) : Advance(p, n)

Spec == Init /\ [][Next]_<<input, history>>

=============================================================================
