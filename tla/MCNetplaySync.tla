--------------------------- MODULE MCNetplaySync ---------------------------
(***************************************************************************)
(* Instances of NetplaySync for TLC: two peers, with fairness, and three,  *)
(* where the server forwards.                                              *)
(***************************************************************************)
EXTENDS NetplaySync

(* Each player presses an input of its own, so the first guess, zero, is   *)
(* wrong, and no two players can be mixed up.                              *)
Pads == [p \in Player |-> {<<p, p + 1>>}]

(* No peer has to delay its input, and only clients may, by one frame. *)
NoLatency == [p \in Player |-> 0]
ClientLatency == [p \in Player |-> IF p = Server THEN 0 ELSE 1]

=============================================================================
