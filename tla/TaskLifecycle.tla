--------------------------- MODULE TaskLifecycle ---------------------------
(***************************************************************************)
(* What the task system promises to the code that pushes tasks             *)
(* (libretro-common/include/queues/task_queue.h): a task that was accepted *)
(* stays accepted until its handler says it is finished; only then does    *)
(* the main loop deliver it, once, by running its callback and freeing it. *)
(* How the task is stored, which thread runs its handler and how often the *)
(* two implementations replace each other is not visible here.             *)
(*                                                                         *)
(* The promise has one hole.  A callback that re-initialises the task      *)
(* system as threaded leaves the gather that runs it without the lock of   *)
(* the list it goes on to empty; from then on a finished task may be lost, *)
(* that is, drop out of the list with its callback never run.              *)
(***************************************************************************)
CONSTANT Task

VARIABLES phase, reinited

Init == phase = [t \in Task |-> "new"] /\ reinited = FALSE

Move(t, from, to) == /\ phase[t] = from
                     /\ phase' = [phase EXCEPT ![t] = to]
                     /\ UNCHANGED reinited

(* task_queue_push returned true *)
Accept(t) == Move(t, "new", "accepted")
(* the handler called task_set_finished *)
Finish(t) == Move(t, "accepted", "finished")
(* the main loop runs the callback *)
Deliver(t) == Move(t, "finished", "delivering")
(* callback and cleanup returned, the task is freed *)
Free(t) == Move(t, "delivering", "freed")
(* the callback of t starts a new worker *)
Reinit(t) == /\ phase[t] = "delivering"
             /\ reinited' = TRUE
             /\ UNCHANGED phase
(* the task is unlinked with the one in front of it *)
Lose(t) == reinited /\ Move(t, "finished", "lost")

Next == \E t \in Task : \/ Accept(t) \/ Finish(t) \/ Deliver(t) \/ Free(t)
                       \/ Reinit(t) \/ Lose(t)

Spec == Init /\ [][Next]_<<phase, reinited>>
=============================================================================
