--------------------------- MODULE MCMessageQueue ---------------------------
EXTENDS MessageQueue, TLC

(* The messages differ only in name. *)
Symmetry == Permutations(Msg)
=============================================================================
