----------------------------- MODULE TaskQueue -----------------------------
(***************************************************************************)
(* libretro-common/queues/task_queue.c: the task system of the frontend.   *)
(*                                                                         *)
(* Two implementations share the lists tasks_running and tasks_finished.   *)
(* "regular" runs every handler on the main thread, inside                 *)
(* task_queue_check.  "threaded" runs them on a worker thread and leaves   *)
(* callbacks to the main thread.  task_queue_check replaces one by the     *)
(* other when the setting changed.                                         *)
(*                                                                         *)
(* A linked list is a sequence.  Two threads run: "main" and "worker".     *)
(* A critical section that takes no second lock is one action, enabled     *)
(* when its lock is free; a lock held across several actions is a variable *)
(* that names its holder.  queue_lock is only ever taken for one such      *)
(* section, so it needs no variable.  In regular mode the locks are NULL   *)
(* and slock_lock(NULL) does nothing.                                      *)
(***************************************************************************)
EXTENDS Naturals, SequencesExt

CONSTANTS Task,         \* the tasks the program may create
          Blocking,     \* those of type TASK_TYPE_BLOCKING
          SameUrl,      \* HTTP transfers of one URL (task_http.c)
          LoadsContent, \* tasks whose callback loads content and, by
                        \* retroarch_main_init, re-initialises the queue
          NoTask,       \* NULL
          MaxReconfig   \* bound on the (de)initialisations and mode changes

ASSUME TaskAssumption == /\ Blocking \subseteq Task
                         /\ SameUrl \subseteq Task
                         /\ LoadsContent \subseteq Task
                         /\ NoTask \notin Task
ASSUME BoundAssumption == MaxReconfig \in Nat

VARIABLES
  tasks_running,        \* the list of tasks to run
  tasks_finished,       \* the list of tasks whose callback is due
  fresh,                \* tasks made by task_init and not pushed yet
  finished,             \* task->finished
  cancelled,            \* task->cancelled
  impl_current,         \* "none" (NULL), "regular" or "threaded"
  task_threaded_enable, \* what task_queue_check should switch to
  worker_continue,      \* cleared to stop the worker
  running_lock, property_lock, finished_lock,   \* their holder, or "free"
  pend,                 \* [thread -> task it is pushing, past the checks]
  mpc, mtask, mqueue,   \* main: where it is, task in callback, gather's queue
  mgather,              \* main: the implementation whose gather it runs
  mcont,                \* main: what follows a deinit
  mwait,                \* main: is this gather called by task_queue_wait?
  wpc, wtask, wfinished,\* worker: where it is, its task, its local "finished"
  reconfigs,            \* bounded by MaxReconfig
  reinited,             \* history: a callback started a new worker
  lost                  \* history: finished tasks that dropped out of the list

queues == <<tasks_running, tasks_finished, fresh, lost>>
flags  == <<finished, cancelled>>
config == <<impl_current, task_threaded_enable, reconfigs, reinited>>
locks  == <<running_lock, property_lock, finished_lock>>
mlocal == <<mtask, mqueue, mgather, mcont, mwait>>
main   == <<mpc, mlocal>>
wlocal == <<wtask, wfinished>>
worker == <<wpc, wlocal, worker_continue>>
vars   == <<queues, flags, config, locks, pend, main, worker>>

Thread == {"main", "worker"}
TaskOrNull == Task \cup {NoTask}

(***************************************************************************)
(* The places a task can be in after it was accepted.                      *)
(***************************************************************************)
InHand == IF wpc \in {"update", "put"} THEN {wtask} ELSE {}
Held == {pend[th] : th \in Thread} \ {NoTask}
Queued == ToSet(tasks_running) \cup InHand \cup ToSet(mqueue)
InCallback == {mtask} \ {NoTask}
Live == Queued \cup ToSet(tasks_finished) \cup InCallback

Init ==
  /\ tasks_running = <<>> /\ tasks_finished = <<>> /\ fresh = Task
  /\ finished = [t \in Task |-> FALSE]
  /\ cancelled = [t \in Task |-> FALSE]
  /\ lost = {} /\ reinited = FALSE
  /\ impl_current = "none" /\ task_threaded_enable = FALSE /\ reconfigs = 0
  /\ running_lock = "free" /\ property_lock = "free" /\ finished_lock = "free"
  /\ pend = [th \in Thread |-> NoTask]
  /\ mpc = "idle" /\ mtask = NoTask /\ mqueue = <<>>
  /\ mgather = "none" /\ mcont = "none" /\ mwait = FALSE
  /\ wpc = "none" /\ wtask = NoTask /\ wfinished = FALSE
  /\ worker_continue = TRUE

-----------------------------------------------------------------------------
(* List operations *)

(* mutant: the task is put at the front *)
task_queue_put_Front(queue, task) == <<task>> \o queue

task_queue_put(queue, task) == Append(queue, task)

(* mutant: a task at the front stays linked *)
task_queue_remove_Linked(queue, task) == queue

(* Unlinks the first element, or searches the rest of the list for it. *)
task_queue_remove(queue, task) ==
  IF queue # <<>> /\ Head(queue) = task
    THEN Tail(queue)
    ELSE SelectSeq(queue, LAMBDA t : t # task)

(* scond_signal(worker_cond): wakes the worker if it waits, else is lost *)
Signalled(pc) == IF pc = "wait" THEN "woken" ELSE pc

HasBlocking(queue) == \E i \in 1..Len(queue) : queue[i] \in Blocking
HasUrl(queue) == \E i \in 1..Len(queue) : queue[i] \in SameUrl

-----------------------------------------------------------------------------
(* Pushing.  A handler pushes from the thread that runs it, a callback and *)
(* the rest of the program from main.                                      *)

CanCall(th) ==
  /\ impl_current # "none"
  /\ pend[th] = NoTask
  /\ \/ th = "worker" /\ wpc = "handler"
     \/ th = "main" /\ \/ mpc \in {"idle", "callback"}
                       \/ mpc = "handlers" /\ mqueue # <<>>

(* The scan of task_queue_push under queue_lock; for a transfer, the call  *)
(* of task_queue_find under running_lock that precedes it.                 *)
MayPush(task) == /\ task \in Blocking => ~HasBlocking(tasks_running)
                 /\ task \in SameUrl => ~HasUrl(tasks_running)

(* No handler of the repository pushes a blocking task: they belong to     *)
(* save states, screenshots and scans that a command starts on main.       *)
task_queue_push(th, task) ==
  /\ CanCall(th)
  /\ task \in fresh
  /\ task \in Blocking => th = "main" /\ mpc # "handlers"
  /\ task \in SameUrl => running_lock = "free"
  /\ MayPush(task)
  /\ pend' = [pend EXCEPT ![th] = task]
  /\ fresh' = fresh \ {task}
  /\ UNCHANGED <<tasks_running, tasks_finished, lost, flags, config, locks, main, worker>>

(* mutant: the worker is not signalled *)
push_running_NoSignal(th) ==
  /\ pend[th] # NoTask
  /\ running_lock = "free"
  /\ tasks_running' = task_queue_put(tasks_running, pend[th])
  /\ pend' = [pend EXCEPT ![th] = NoTask]
  /\ UNCHANGED <<tasks_finished, fresh, lost, flags, config, locks, main, worker>>

(* impl_current->push_running; threaded also signals the worker. *)
push_running(th) ==
  /\ pend[th] # NoTask
  /\ running_lock = "free"
  /\ tasks_running' = task_queue_put(tasks_running, pend[th])
  /\ pend' = [pend EXCEPT ![th] = NoTask]
  /\ wpc' = Signalled(wpc)
  /\ UNCHANGED <<tasks_finished, fresh, lost, flags, config, locks, main,
                 wlocal, worker_continue>>

-----------------------------------------------------------------------------
(* Cancelling.  The regular implementation marks the task it is given, the *)
(* threaded one only a task it finds in tasks_running.                     *)

task_queue_cancel_task(task) ==
  /\ CanCall("main")
  /\ task \in (Live \ InCallback)
  /\ running_lock = "free"
  /\ cancelled' = IF impl_current = "regular" \/ task \in ToSet(tasks_running)
                    THEN [cancelled EXCEPT ![task] = TRUE]
                    ELSE cancelled
  /\ UNCHANGED <<queues, finished, config, locks, pend, main, worker>>

(* mutant: the loop ends after the first task *)
task_queue_reset_First ==
  /\ CanCall("main")
  /\ mpc = "idle"
  /\ running_lock = "free"
  /\ cancelled' = [t \in Task |-> cancelled[t]
                     \/ (tasks_running # <<>> /\ t = Head(tasks_running))]
  /\ UNCHANGED <<queues, finished, config, locks, pend, main, worker>>

task_queue_reset ==
  /\ CanCall("main")
  /\ mpc = "idle"
  /\ running_lock = "free"
  /\ cancelled' = [t \in Task |-> cancelled[t] \/ t \in ToSet(tasks_running)]
  /\ UNCHANGED <<queues, finished, config, locks, pend, main, worker>>

(* task_queue_retrieve holds running_lock while the retriever of           *)
(* task_http.c calls task_get_progress, which takes property_lock.         *)
RetrieveBegin ==
  /\ CanCall("main") /\ mpc = "idle" /\ impl_current = "threaded"
  /\ running_lock = "free"
  /\ running_lock' = "main" /\ mpc' = "retrieve"
  /\ UNCHANGED <<queues, flags, config, property_lock, finished_lock, pend,
                 mlocal, worker>>

RetrieveEnd ==
  /\ mpc = "retrieve" /\ property_lock = "free"
  /\ running_lock' = "free" /\ mpc' = "idle"
  /\ UNCHANGED <<queues, flags, config, property_lock, finished_lock, pend,
                 mlocal, worker>>

-----------------------------------------------------------------------------
(* The worker thread *)

(* Where the worker's locals die, at the end of a turn of its loop. *)
EndOfTurn == wpc' = "loop" /\ wtask' = NoTask /\ wfinished' = FALSE

(* What a lock may be after th unlocked it.  Only main ever unlocks a lock *)
(* it does not hold (GatherEnd); that is undefined, and a mutex either     *)
(* becomes free whoever holds it or refuses the call.                      *)
Unlocked(lock, th) == IF lock = th THEN {"free"} ELSE {lock, "free"}

(* reads worker_continue without running_lock *)
WorkerLoop ==
  /\ wpc = "loop"
  /\ wpc' = IF worker_continue THEN "fetch" ELSE "exited"
  /\ UNCHANGED <<queues, flags, config, locks, pend, main, wlocal,
                 worker_continue>>

WorkerFetch ==
  /\ wpc = "fetch" /\ running_lock = "free"
  /\ IF tasks_running = <<>>
       THEN wpc' = "wait" /\ UNCHANGED wtask
       ELSE wpc' = "handler" /\ wtask' = Head(tasks_running)
  /\ UNCHANGED <<queues, flags, config, locks, pend, main, wfinished,
                 worker_continue>>

(* a condition variable may wake without a signal *)
WorkerSpuriousWakeup ==
  /\ wpc = "wait"
  /\ wpc' = "woken"
  /\ UNCHANGED <<queues, flags, config, locks, pend, main, wlocal,
                 worker_continue>>

WorkerWoken ==
  /\ wpc = "woken" /\ running_lock = "free"
  /\ wpc' = "loop"
  /\ UNCHANGED <<queues, flags, config, locks, pend, main, wlocal,
                 worker_continue>>

(* A handler reads task->cancelled under running_lock and obeys it; a task *)
(* that is not cancelled may need more calls.                              *)
HandlerDecides(task, done) == cancelled[task] => done

WorkerHandler ==
  /\ wpc = "handler" /\ pend["worker"] = NoTask /\ running_lock = "free"
  /\ \E done \in BOOLEAN :
       /\ HandlerDecides(wtask, done)
       /\ wpc' = IF done THEN "setfinished" ELSE "readfinished"
  /\ UNCHANGED <<queues, flags, config, locks, pend, main, wlocal,
                 worker_continue>>

(* The handler in task_set_finished, then the worker itself: each takes    *)
(* property_lock for task->finished.                                       *)
WorkerLockProperty ==
  /\ wpc \in {"setfinished", "readfinished"} /\ property_lock = "free"
  /\ property_lock' = "worker"
  /\ wpc' = IF wpc = "setfinished" THEN "setting" ELSE "reading"
  /\ UNCHANGED <<queues, flags, config, running_lock, finished_lock, pend,
                 main, wlocal, worker_continue>>

task_set_finished ==
  /\ wpc = "setting"
  /\ finished' = [finished EXCEPT ![wtask] = TRUE]
  /\ property_lock' \in Unlocked(property_lock, "worker")
  /\ wpc' = "readfinished"
  /\ UNCHANGED <<queues, cancelled, config, running_lock, finished_lock, pend,
                 main, wlocal, worker_continue>>

WorkerReadFinished ==
  /\ wpc = "reading"
  /\ wfinished' = finished[wtask]
  /\ property_lock' \in Unlocked(property_lock, "worker")
  /\ wpc' = "remove"
  /\ UNCHANGED <<queues, flags, config, running_lock, finished_lock, pend,
                 main, wtask, worker_continue>>

WorkerRemove ==
  /\ wpc = "remove" /\ running_lock = "free"
  /\ tasks_running' = task_queue_remove(tasks_running, wtask)
  /\ wpc' = "update"
  /\ UNCHANGED <<tasks_finished, fresh, lost, flags, config, locks, pend,
                 main, wlocal, worker_continue>>

WorkerRequeue ==
  /\ wpc = "update" /\ ~wfinished /\ running_lock = "free"
  /\ tasks_running' = task_queue_put(tasks_running, wtask)
  /\ EndOfTurn
  /\ UNCHANGED <<tasks_finished, fresh, lost, flags, config, locks, pend,
                 main, worker_continue>>

WorkerLockFinished ==
  /\ wpc = "update" /\ wfinished /\ finished_lock = "free"
  /\ finished_lock' = "worker"
  /\ wpc' = "put"
  /\ UNCHANGED <<queues, flags, config, running_lock, property_lock, pend,
                 main, wlocal, worker_continue>>

(* mutant: the finished task is dropped *)
WorkerPut_Dropped ==
  /\ wpc = "put"
  /\ wpc' = "unlock"
  /\ UNCHANGED <<queues, flags, config, locks, pend, main, wlocal,
                 worker_continue>>

WorkerPut ==
  /\ wpc = "put"
  /\ tasks_finished' = task_queue_put(tasks_finished, wtask)
  /\ wpc' = "unlock"
  /\ UNCHANGED <<tasks_running, fresh, lost, flags, config, locks, pend,
                 main, wlocal, worker_continue>>

WorkerUnlockFinished ==
  /\ wpc = "unlock"
  /\ finished_lock' \in Unlocked(finished_lock, "worker")
  /\ EndOfTurn
  /\ UNCHANGED <<queues, flags, config, running_lock, property_lock, pend,
                 main, worker_continue>>

Worker ==
  \/ WorkerLoop \/ WorkerFetch \/ WorkerWoken \/ WorkerHandler
  \/ WorkerLockProperty \/ task_set_finished \/ WorkerReadFinished
  \/ WorkerRemove \/ WorkerRequeue
  \/ WorkerLockFinished \/ WorkerPut \/ WorkerUnlockFinished

-----------------------------------------------------------------------------
(* Gathering: run callbacks of finished tasks; in regular mode run every   *)
(* handler first.                                                          *)

GatherStart == IF impl_current = "threaded" THEN "lockproperty" ELSE "take"

(* retro_task_regular_gather takes the list apart, which reverses it ... *)
RegularTake ==
  /\ mpc = "take"
  /\ mqueue' = Reverse(tasks_running)
  /\ tasks_running' = <<>>
  /\ mgather' = "regular"
  /\ mpc' = "handlers"
  /\ UNCHANGED <<tasks_finished, fresh, lost, flags, config, locks, pend,
                 mtask, mcont, mwait, worker>>

(* ... and runs each handler once: done or back to tasks_running *)
RegularHandler ==
  /\ mpc = "handlers" /\ mqueue # <<>> /\ pend["main"] = NoTask
  /\ \E done \in BOOLEAN :
       LET task == Head(mqueue) IN
       /\ HandlerDecides(task, done)
       /\ finished' = [finished EXCEPT ![task] = @ \/ done]
       /\ IF finished'[task]
            THEN /\ tasks_finished' = task_queue_put(tasks_finished, task)
                 /\ UNCHANGED tasks_running
            ELSE /\ tasks_running' = task_queue_put(tasks_running, task)
                 /\ UNCHANGED tasks_finished
  /\ mqueue' = Tail(mqueue)
  /\ UNCHANGED <<fresh, lost, cancelled, config, locks, pend, mpc, mtask,
                 mgather, mcont, mwait, worker>>

RegularHandled ==
  /\ mpc = "handlers" /\ mqueue = <<>>
  /\ mpc' = "gather"
  /\ UNCHANGED <<queues, flags, config, locks, pend, mlocal, worker>>

(* retro_task_threaded_gather: property_lock is held to the end ... *)
GatherLockProperty ==
  /\ mpc = "lockproperty" /\ property_lock = "free"
  /\ property_lock' = "main"
  /\ mgather' = "threaded"
  /\ mpc' = "progress"
  /\ UNCHANGED <<queues, flags, config, running_lock, finished_lock, pend,
                 mtask, mqueue, mcont, mwait, worker>>

(* ... the running tasks report their progress under running_lock, then    *)
(* finished_lock is taken and held while the callbacks run.                *)
GatherProgress ==
  /\ mpc = "progress" /\ running_lock = "free"
  /\ mpc' = "lockfinished"
  /\ UNCHANGED <<queues, flags, config, locks, pend, mlocal, worker>>

GatherLockFinished ==
  /\ mpc = "lockfinished" /\ finished_lock = "free"
  /\ finished_lock' = "main"
  /\ mpc' = "gather"
  /\ UNCHANGED <<queues, flags, config, running_lock, property_lock, pend,
                 mlocal, worker>>

(* retro_task_internal_gather unlinks the first finished task and calls    *)
(* its callback.  The worker's put cannot disturb the task_queue_get when  *)
(* main holds finished_lock and the worker is not past it, when there is   *)
(* no worker, or when the element unlinked is not the last one, behind     *)
(* which put links the next.                                               *)
GetUndisturbed ==
  \/ finished_lock = "main" /\ wpc # "put"
  \/ impl_current # "threaded"
  \/ Tail(tasks_finished) # <<>>

Callback ==
  /\ mpc = "gather" /\ tasks_finished # <<>> /\ GetUndisturbed
  /\ mtask' = Head(tasks_finished)
  /\ tasks_finished' = Tail(tasks_finished)
  /\ mpc' = "callback"
  /\ UNCHANGED <<tasks_running, fresh, lost, flags, config, locks, pend,
                 mqueue, mgather, mcont, mwait, worker>>

(* Otherwise, after a callback started a new worker whose locks main does  *)
(* not hold, the get is two steps: main reads that the last element has no *)
(* successor ... (a put that reads queue->front before the second step and *)
(* links its task later has the same outcome as one in between)            *)
GetFront ==
  /\ mpc = "gather" /\ tasks_finished # <<>> /\ ~GetUndisturbed
  /\ mpc' = "unlink"
  /\ UNCHANGED <<queues, flags, config, locks, pend, mlocal, worker>>

(* ... and sets queue->front and task->next to NULL, which drops what the  *)
(* worker linked behind it meanwhile.                                      *)
GetUnlink ==
  /\ mpc = "unlink"
  /\ mtask' = Head(tasks_finished)
  /\ tasks_finished' = <<>>
  /\ lost' = lost \cup ToSet(Tail(tasks_finished))
  /\ mpc' = "callback"
  /\ UNCHANGED <<tasks_running, fresh, flags, config, locks, pend, mqueue,
                 mgather, mcont, mwait, worker>>

(* the callback returns; cleanup, free *)
CallbackReturn ==
  /\ mpc = "callback" /\ pend["main"] = NoTask
  /\ cancelled' = [cancelled EXCEPT ![mtask] = FALSE] \* freed with the task
  /\ mtask' = NoTask
  /\ mpc' = "gather"
  /\ UNCHANGED <<queues, finished, config, locks, pend, mqueue, mgather,
                 mcont, mwait, worker>>

(* No task is left.  A threaded gather unlocks finished_lock and           *)
(* property_lock as they are now: NULL when a callback made the system     *)
(* regular, those of the new worker when it started one.                   *)
GatherEnd ==
  /\ mpc = "gather" /\ tasks_finished = <<>>
  /\ IF mgather = "threaded"
       THEN /\ property_lock' \in Unlocked(property_lock, "main")
            /\ finished_lock' \in Unlocked(finished_lock, "main")
       ELSE UNCHANGED <<property_lock, finished_lock>>
  /\ mgather' = "none"
  /\ mpc' = IF mwait THEN "waittest" ELSE "idle"
  /\ UNCHANGED <<queues, flags, config, running_lock, pend, mtask, mqueue,
                 mcont, mwait, worker>>

-----------------------------------------------------------------------------
(* task_queue_wait: gather until tasks_running is empty (or the caller's   *)
(* condition fails).  The regular loop tests before it gathers.            *)

task_queue_wait ==
  /\ mpc = "idle" /\ CanCall("main")
  /\ mwait' = TRUE
  /\ mpc' = IF impl_current = "threaded" THEN GatherStart ELSE "waittest"
  /\ UNCHANGED <<queues, flags, config, locks, pend, mtask, mqueue, mgather,
                 mcont, worker>>

WaitTest ==
  /\ mpc = "waittest" /\ running_lock = "free"
  /\ \/ /\ tasks_running # <<>> /\ mpc' = GatherStart /\ UNCHANGED mwait
     \/ /\ tasks_running # <<>> /\ mpc' = "idle" /\ mwait' = FALSE \* cond()
     \/ /\ tasks_running = <<>> /\ mpc' = "waited" /\ mwait' = FALSE
  /\ UNCHANGED <<queues, flags, config, locks, pend, mtask, mqueue, mgather,
                 mcont, worker>>

WaitReturn ==
  /\ mpc = "waited"
  /\ mpc' = "idle"
  /\ UNCHANGED <<queues, flags, config, locks, pend, mlocal, worker>>

-----------------------------------------------------------------------------
(* Choosing the implementation *)

(* task_queue_set_threaded, task_queue_unset_threaded *)
SetThreaded(threaded) ==
  /\ mpc = "idle" /\ pend["main"] = NoTask /\ reconfigs < MaxReconfig
  /\ task_threaded_enable' = threaded
  /\ reconfigs' = reconfigs + 1
  /\ UNCHANGED <<queues, flags, impl_current, reinited, locks, pend, main,
                 worker>>

(* Where a call that re-initialised the queue returns to. *)
Caller == IF mtask = NoTask THEN "idle" ELSE "callback"

(* The first step of task_queue_deinit; the regular one has no other. *)
DeinitStart(then) == IF impl_current = "threaded" THEN "deinit"
                     ELSE IF then = "none" THEN Caller ELSE "init"

task_queue_deinit(then) ==
  /\ mcont' = then
  /\ mpc' = DeinitStart(then)
  /\ impl_current' = IF impl_current = "threaded" THEN "threaded" ELSE "none"

(* RARCH_CTL_TASK_INIT: deinit, then init with the setting.  Also reached  *)
(* from netplay_crc_scan_callback, which loads content.  Inside            *)
(* task_queue_wait it keeps the implementation: the only caller of that,   *)
(* frontend/drivers/platform_wiiu.c:421-424, is built without threads.     *)
TaskInit(threaded) ==
  /\ mpc = "callback" =>
       /\ mtask \in LoadsContent
       /\ mwait => threaded = (impl_current = "threaded")
  /\ mpc \in {"idle", "callback"} /\ pend["main"] = NoTask
  /\ reconfigs < MaxReconfig
  /\ reconfigs' = reconfigs + 1
  /\ task_queue_deinit(IF threaded THEN "threaded" ELSE "regular")
  /\ UNCHANGED <<queues, flags, task_threaded_enable, reinited, locks, pend,
                 mtask, mqueue, mgather, mwait, worker>>

(* RARCH_CTL_DATA_DEINIT *)
DataDeinit ==
  /\ mpc = "idle" /\ pend["main"] = NoTask /\ reconfigs < MaxReconfig
  /\ reconfigs' = reconfigs + 1
  /\ task_queue_deinit("none")
  /\ UNCHANGED <<queues, flags, task_threaded_enable, reinited, locks, pend,
                 mtask, mqueue, mgather, mwait, worker>>

(* mutant: worker_continue stays set *)
DeinitSignal_NoStop ==
  /\ mpc = "deinit" /\ running_lock = "free"
  /\ wpc' = Signalled(wpc)
  /\ mpc' = "join"
  /\ UNCHANGED <<queues, flags, config, locks, pend, mlocal, wlocal,
                 worker_continue>>

(* retro_task_threaded_deinit: stop the worker ... *)
DeinitSignal ==
  /\ mpc = "deinit" /\ running_lock = "free"
  /\ worker_continue' = FALSE
  /\ wpc' = Signalled(wpc)
  /\ mpc' = "join"
  /\ UNCHANGED <<queues, flags, config, locks, pend, mlocal, wlocal>>

(* ... join it and free the locks, those that gather holds too *)
DeinitJoin ==
  /\ mpc = "join" /\ wpc = "exited"
  /\ wpc' = "none"
  /\ impl_current' = "none"
  /\ mpc' = IF mcont = "none" THEN Caller ELSE "init"
  /\ property_lock' = "free" /\ finished_lock' = "free"
  /\ UNCHANGED <<queues, flags, task_threaded_enable, reconfigs, reinited,
                 running_lock, pend, mlocal, wlocal, worker_continue>>

WantThreaded == IF mcont = "check" THEN task_threaded_enable
                                   ELSE mcont = "threaded"

(* task_queue_init; a check goes on to gather *)
task_queue_init ==
  /\ mpc = "init"
  /\ impl_current' = IF WantThreaded THEN "threaded" ELSE "regular"
  /\ task_threaded_enable' = (task_threaded_enable \/ WantThreaded)
  /\ IF WantThreaded THEN wpc' = "loop" /\ worker_continue' = TRUE
                     ELSE UNCHANGED <<wpc, worker_continue>>
  /\ reinited' = (reinited \/ (WantThreaded /\ mtask # NoTask))
  /\ mpc' = IF mcont # "check" THEN Caller
            ELSE IF WantThreaded THEN "lockproperty" ELSE "take"
  /\ mcont' = "none"
  /\ UNCHANGED <<queues, flags, reconfigs, locks, pend, mtask, mqueue,
                 mgather, mwait, wlocal>>

(* mutant: nothing is gathered while no task runs *)
task_queue_check_WhenRunning ==
  /\ mpc = "idle" /\ pend["main"] = NoTask
  /\ IF impl_current = "none"
          \/ task_threaded_enable # (impl_current = "threaded")
       THEN task_queue_deinit("check")
       ELSE /\ tasks_running # <<>>
            /\ mpc' = GatherStart /\ UNCHANGED <<mcont, impl_current>>
  /\ UNCHANGED <<queues, flags, task_threaded_enable, reconfigs, reinited,
                 locks, pend, mtask, mqueue, mgather, mwait, worker>>

(* task_queue_check: switch if wanted (or not initialised), then gather *)
task_queue_check ==
  /\ mpc = "idle" /\ pend["main"] = NoTask
  /\ IF impl_current = "none"
          \/ task_threaded_enable # (impl_current = "threaded")
       THEN task_queue_deinit("check")
       ELSE mpc' = GatherStart /\ UNCHANGED <<mcont, impl_current>>
  /\ UNCHANGED <<queues, flags, task_threaded_enable, reconfigs, reinited,
                 locks, pend, mtask, mqueue, mgather, mwait, worker>>

-----------------------------------------------------------------------------
Gather ==
  \/ RegularTake \/ RegularHandler \/ RegularHandled
  \/ GatherLockProperty \/ GatherProgress \/ GatherLockFinished
  \/ Callback \/ GetFront \/ GetUnlink \/ CallbackReturn \/ GatherEnd

(* the steps main takes inside a call of the task system *)
MainGoesOn ==
  \/ Gather \/ push_running("main") \/ RetrieveEnd \/ WaitTest \/ WaitReturn
  \/ DeinitSignal \/ DeinitJoin \/ task_queue_init

(* the calls the rest of the program makes *)
MainCalls ==
  \/ \E t \in Task : task_queue_push("main", t) \/ task_queue_cancel_task(t)
  \/ task_queue_reset \/ RetrieveBegin \/ task_queue_wait
  \/ \E b \in BOOLEAN : SetThreaded(b) \/ TaskInit(b)
  \/ DataDeinit \/ task_queue_check

(* the worker in its loop, or in a push of the handler it runs *)
WorkerGoesOn == Worker \/ push_running("worker")

WorkerCalls == \E t \in Task : task_queue_push("worker", t)

Next == MainGoesOn \/ MainCalls \/ WorkerGoesOn \/ WorkerCalls
          \/ WorkerSpuriousWakeup

Spec == Init /\ [][Next]_vars

(***************************************************************************)
(* Fairness.  The run loop calls task_queue_check after every iteration    *)
(* and finishes what it calls.  The worker is scheduled, and each thread   *)
(* gets a lock that the other releases again and again.  Nothing is        *)
(* assumed about spurious wakeups or about handlers that are not           *)
(* cancelled.                                                              *)
(***************************************************************************)
Fairness == /\ SF_vars(MainGoesOn)
            /\ SF_vars(task_queue_check)
            /\ SF_vars(WorkerGoesOn)

FairSpec == Spec /\ Fairness

-----------------------------------------------------------------------------
(* Properties *)

MainPlace == {"idle", "retrieve", "take", "handlers", "lockproperty",
              "progress", "lockfinished", "gather", "unlink", "callback",
              "waittest", "waited", "deinit", "join", "init"}
WorkerPlace == {"none", "loop", "fetch", "wait", "woken", "handler",
                "setfinished", "setting", "readfinished", "reading", "remove",
                "update", "put", "unlock", "exited"}

WorkerHasTask == wpc \in {"handler", "setfinished", "setting", "readfinished",
                          "reading", "remove", "update", "put", "unlock"}

(* Every variable has its type.  Main holds a lock only in the part of     *)
(* gather or retrieve that holds it (or in the callback of that gather),   *)
(* the worker only where it may be inside, and the locals of a thread are  *)
(* set where they are used.                                                *)
TypeOK ==
  /\ tasks_running \in Seq(Task) /\ tasks_finished \in Seq(Task)
  /\ mqueue \in Seq(Task) /\ fresh \in SUBSET Task /\ lost \in SUBSET Task
  /\ finished \in [Task -> BOOLEAN] /\ cancelled \in [Task -> BOOLEAN]
  /\ impl_current \in {"none", "regular", "threaded"}
  /\ task_threaded_enable \in BOOLEAN /\ worker_continue \in BOOLEAN
  /\ reinited \in BOOLEAN /\ mgather \in {"none", "regular", "threaded"}
  /\ running_lock \in {"free", "main"}
  /\ running_lock = "main" => mpc = "retrieve"
  /\ property_lock \in {"free", "main", "worker"}
  /\ property_lock = "main" =>
       mpc \in {"progress", "lockfinished", "gather", "unlink"} \/ mtask # NoTask
  /\ property_lock = "worker" => wpc \in {"setting", "reading"}
  /\ finished_lock \in {"free", "main", "worker"}
  /\ finished_lock = "main" => mpc \in {"gather", "unlink"} \/ mtask # NoTask
  /\ finished_lock = "worker" => wpc \in {"put", "unlock"}
  /\ pend \in [Thread -> TaskOrNull]
  /\ mpc \in MainPlace /\ mtask \in TaskOrNull /\ mwait \in BOOLEAN
  /\ mtask # NoTask => mpc \in {"callback", "deinit", "join", "init"}
  /\ mcont \in {"none", "check", "regular", "threaded"}
  /\ wpc \in WorkerPlace /\ wtask \in TaskOrNull /\ wfinished \in BOOLEAN
  /\ WorkerHasTask => wtask \in Task
  /\ reconfigs \in 0..MaxReconfig

(* The worker unlocks running_lock while a handler runs, and comes back    *)
(* for its task later: the task is still the first of tasks_running then,  *)
(* whatever main pushed meanwhile, so the branch of task_queue_remove that *)
(* would leave queue->back dangling is never taken.                        *)
WorkerTaskIsFront ==
  wpc \in {"handler", "setfinished", "setting", "readfinished", "reading",
           "remove"} =>
    tasks_running # <<>> /\ Head(tasks_running) = wtask

(* No task is in two places: not in both lists, not twice in one, not in a *)
(* list and in a thread's hands; a lost one is in none.  So main frees     *)
(* what only it can reach.                                                 *)
TaskInOnePlace ==
  /\ IsInjective(tasks_running) /\ IsInjective(tasks_finished)
  /\ IsInjective(mqueue)
  /\ pend["main"] # NoTask => pend["main"] # pend["worker"]
  /\ fresh \cap (Held \cup Live) = {}
  /\ Held \cap Live = {}
  /\ Queued \cap (ToSet(tasks_finished) \cup InCallback) = {}
  /\ ToSet(tasks_finished) \cap InCallback = {}
  /\ ToSet(tasks_running) \cap (InHand \cup ToSet(mqueue)) = {}
  /\ InHand \cap ToSet(mqueue) = {}
  /\ lost \cap (fresh \cup Held \cup Live) = {}

(* A handler is never called on a task that reported it was finished, and  *)
(* a callback only on one that did; the worker's local copy of the flag,   *)
(* read before it unlinks the task, is still right when it is used.        *)
FinishedFlagAgrees ==
  /\ wpc = "handler" => ~finished[wtask]
  /\ \A t \in ToSet(mqueue) : ~finished[t]
  /\ \A t \in ToSet(tasks_running) :
       finished[t] => t = wtask /\ wpc \in {"readfinished", "reading", "remove"}
  /\ wpc \in {"remove", "update"} => wfinished = finished[wtask]
  /\ wpc = "put" => finished[wtask]
  /\ \A t \in ToSet(tasks_finished) \cup InCallback : finished[t]

(* While the system is deinitialised every task is on hold in one of the   *)
(* two lists, where the next implementation finds it: the worker never     *)
(* exits with a task in its hands.                                         *)
TasksStayOnHold ==
  impl_current # "threaded" => wpc = "none" /\ pend["worker"] = NoTask

(* When task_queue_wait returns because nothing runs, the only unfinished  *)
(* task it can have missed is the one the worker has just unlinked.        *)
WaitMissesOnlyHand ==
  [][mpc = "waittest" /\ mpc' = "waited"
       => /\ Queued \subseteq InHand
          /\ pend["worker"] = NoTask]_vars

(* "Signals a task to end", "Sends a signal to terminate all the tasks":   *)
(* a call of cancel or reset, at whatever point of the worker's cycle, can *)
(* miss only the unfinished task the worker has unlinked and not yet       *)
(* re-queued.                                                              *)
CancelMissesOnlyHand ==
  [][\A t \in Task :
       task_queue_cancel_task(t) \/ (task_queue_reset /\ t \in Live) =>
         \/ cancelled'[t] \/ finished[t]
         \/ t \in InHand /\ impl_current = "threaded"]_vars

TaskFreed(t) == t \notin (fresh \cup Held \cup Live \cup lost)

(* What the worker linked behind a task that main is about to unlink with  *)
(* the successor it read before.                                           *)
Doomed == IF mpc = "unlink" THEN ToSet(Tail(tasks_finished)) ELSE {}

(* What the header promises of one task: TaskLifecycle. *)
phase == [t \in Task |->
            IF t \in fresh \cup Held THEN "new"
            ELSE IF t \in InCallback THEN "delivering"
            ELSE IF t \in lost \cup Doomed THEN "lost"
            ELSE IF t \notin Live THEN "freed"
            ELSE IF finished[t] THEN "finished"
            ELSE "accepted"]

Lifecycle == INSTANCE TaskLifecycle

(* Both implementations, and every switch from one to the other, treat     *)
(* each task as TaskLifecycle says: accepted, finished, delivered once,    *)
(* freed.  Only after a callback started a new worker, which the gather    *)
(* that runs the callback shares tasks_finished with, without its lock,    *)
(* can a finished task be lost.                                            *)
ImplementsLifecycle == Lifecycle!Spec

(* Two ways to hang in task_queue_deinit.  Either it came while the worker *)
(* had nothing to run and just went to sleep: the run deinit_lost_wakeup   *)
(* shows that it never returns.  Or a callback loads content, and main     *)
(* joins a worker that needs property_lock, which gather holds.            *)
DeinitHangs == mpc = "join" /\ tasks_running = <<>> /\ wpc = "wait"
ReinitHangs ==
  /\ mpc = "join" /\ mtask # NoTask
  /\ wpc \in {"setfinished", "readfinished", "update"}

(* A finished task's callback runs, whichever implementation gathers it    *)
(* and however often it is replaced, unless deinit hangs or the task is    *)
(* lost in the race that TaskLifecycle names.                              *)
FinishedIsDelivered ==
  \/ <>[](DeinitHangs \/ ReinitHangs)
  \/ \A t \in Task : finished[t] ~> TaskFreed(t) \/ t \in lost

HandlerRuns(t) ==
  \/ wpc \in {"handler", "setfinished", "setting"} /\ wtask = t
  \/ mpc = "handlers" /\ mqueue # <<>> /\ Head(mqueue) = t

(* Re-queueing is fair: a task that waits in tasks_running gets its turn   *)
(* while others, unfinished, keep taking theirs.                           *)
EveryTaskGetsItsTurn ==
  <>[]ReinitHangs \/ \A t \in Task :
    t \in ToSet(tasks_running) /\ ~finished[t] ~> HandlerRuns(t)

(* A call main makes into the task system returns, so no lock order and no *)
(* wait for the worker can block it: a task_queue_deinit that comes while  *)
(* tasks are running, or finds the worker awake, always succeeds           *)
(* (task_queue_wait itself may wait for a task that never finishes).       *)
CallsReturn ==
  <>[](DeinitHangs \/ ReinitHangs) \/ (mpc # "idle" /\ ~mwait ~> mpc = "idle")

-----------------------------------------------------------------------------
(* A statement of the header that the code does not keep                   *)

(* task_queue_deinit returns, leaving the tasks on hold. *)
DeinitReturns == mpc = "join" ~> mpc # "join"

=============================================================================
