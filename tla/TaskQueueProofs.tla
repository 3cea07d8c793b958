-------------------------- MODULE TaskQueueProofs --------------------------
(***************************************************************************)
(* Proofs about TaskQueue for any set of tasks and any number of           *)
(* reconfigurations.                                                       *)
(***************************************************************************)
EXTENDS TaskQueue, SequenceTheorems, TLAPS

(* Taking the first element off a list of distinct elements. *)
LEMMA HeadTailSet ==
  ASSUME NEW S, NEW s \in Seq(S), s # <<>>
  PROVE  /\ Head(s) \in S /\ Tail(s) \in Seq(S)
         /\ ToSet(s) = {Head(s)} \cup ToSet(Tail(s))
         /\ IsInjective(s) => /\ IsInjective(Tail(s))
                              /\ Head(s) \notin ToSet(Tail(s))
<1>1. /\ Len(s) \in Nat \ {0} /\ DOMAIN s = 1..Len(s) /\ Head(s) = s[1]
      /\ Head(s) \in S /\ Tail(s) \in Seq(S) /\ Len(Tail(s)) = Len(s) - 1
      /\ DOMAIN Tail(s) = 1..(Len(s) - 1)
  BY HeadTailProperties, LenProperties, EmptySeq
<1>2. \A i \in 1..(Len(s) - 1) : Tail(s)[i] = s[i+1]
  BY HeadTailProperties, <1>1
<1>3. ASSUME NEW x \in ToSet(s) PROVE x \in {Head(s)} \cup ToSet(Tail(s))
  <2>1. PICK i \in 1..Len(s) : x = s[i]
    BY <1>1 DEF ToSet
  <2>2. CASE i = 1
    BY <2>1, <2>2, <1>1
  <2>3. CASE i # 1
    <3>1. i - 1 \in 1..(Len(s) - 1) /\ Tail(s)[i-1] = s[i]
      BY <1>1, <1>2, <2>3
    <3> QED BY <3>1, <2>1, <1>1 DEF ToSet
  <2> QED BY <2>2, <2>3
<1>4. ASSUME NEW x \in {Head(s)} \cup ToSet(Tail(s)) PROVE x \in ToSet(s)
  <2>1. CASE x = Head(s)
    BY <2>1, <1>1 DEF ToSet
  <2>2. CASE x \in ToSet(Tail(s))
    <3>1. PICK i \in 1..(Len(s) - 1) : x = Tail(s)[i]
      BY <2>2, <1>1 DEF ToSet
    <3>2. i + 1 \in 1..Len(s) /\ x = s[i+1]
      BY <3>1, <1>1, <1>2
    <3> QED BY <3>2, <1>1 DEF ToSet
  <2> QED BY <2>1, <2>2
<1>5. ASSUME IsInjective(s)
      PROVE  IsInjective(Tail(s)) /\ Head(s) \notin ToSet(Tail(s))
  <2>1. ASSUME NEW i \in 1..(Len(s) - 1), NEW j \in 1..(Len(s) - 1),
               Tail(s)[i] = Tail(s)[j]
        PROVE  i = j
    <3>1. i + 1 \in DOMAIN s /\ j + 1 \in DOMAIN s /\ s[i+1] = s[j+1]
      BY <2>1, <1>1, <1>2
    <3>2. i + 1 = j + 1
      BY <3>1, <1>5 DEF IsInjective
    <3> QED BY <3>2
  <2>2. ASSUME NEW i \in 1..(Len(s) - 1), Tail(s)[i] = Head(s) PROVE FALSE
    <3>1. i + 1 \in DOMAIN s /\ 1 \in DOMAIN s /\ s[i+1] = s[1]
      BY <2>2, <1>1, <1>2
    <3>2. i + 1 = 1
      BY <3>1, <1>5 DEF IsInjective
    <3> QED BY <3>2
  <2> QED BY <2>1, <2>2, <1>1 DEF IsInjective, ToSet
<1> QED BY <1>1, <1>3, <1>4, <1>5

(* Adding a new element at the end of a list of distinct elements. *)
LEMMA AppendSet ==
  ASSUME NEW S, NEW s \in Seq(S), NEW e \in S
  PROVE  /\ Append(s, e) \in Seq(S) /\ Append(s, e) # <<>>
         /\ ToSet(Append(s, e)) = ToSet(s) \cup {e}
         /\ s # <<>> => Head(Append(s, e)) = Head(s)
         /\ IsInjective(s) /\ e \notin ToSet(s) => IsInjective(Append(s, e))
<1> DEFINE a == Append(s, e)
<1>1. /\ Len(s) \in Nat /\ DOMAIN s = 1..Len(s)
      /\ a \in Seq(S) /\ Len(a) = Len(s) + 1 /\ DOMAIN a = 1..(Len(s) + 1)
      /\ \A i \in 1..Len(s) : a[i] = s[i]
      /\ a[Len(s) + 1] = e
  BY LenProperties, AppendProperties
<1>2. a # <<>>
  BY <1>1, EmptySeq
<1>3. ToSet(a) = ToSet(s) \cup {e}
  <2>1. ASSUME NEW x \in ToSet(a) PROVE x \in ToSet(s) \cup {e}
    <3>1. PICK i \in 1..(Len(s) + 1) : x = a[i]
      BY <1>1 DEF ToSet
    <3>2. CASE i \in 1..Len(s)
      BY <3>1, <3>2, <1>1 DEF ToSet
    <3>3. CASE i = Len(s) + 1
      BY <3>1, <3>3, <1>1
    <3> QED BY <3>2, <3>3, <1>1
  <2>2. ASSUME NEW x \in ToSet(s) PROVE x \in ToSet(a)
    <3>1. PICK i \in 1..Len(s) : x = s[i]
      BY <1>1 DEF ToSet
    <3>2. i \in DOMAIN a /\ x = a[i]
      BY <3>1, <1>1
    <3> QED BY <3>2 DEF ToSet
  <2>3. e \in ToSet(a)
    BY <1>1 DEF ToSet
  <2> QED BY <2>1, <2>2, <2>3
<1>4. ASSUME s # <<>> PROVE Head(a) = Head(s)
  <2>1. Len(s) \in Nat \ {0}
    BY <1>4, EmptySeq
  <2>2. 1 \in 1..Len(s) /\ a[1] = s[1]
    BY <2>1, <1>1
  <2> QED BY <2>2, <1>1, <1>2, <1>4
<1>5. ASSUME IsInjective(s), e \notin ToSet(s) PROVE IsInjective(a)
  <2>1. ASSUME NEW i \in 1..(Len(s) + 1), NEW j \in 1..(Len(s) + 1),
               a[i] = a[j]
        PROVE  i = j
    <3>1. CASE i \in 1..Len(s) /\ j \in 1..Len(s)
      BY <3>1, <2>1, <1>1, <1>5 DEF IsInjective
    <3>2. CASE i = Len(s) + 1 /\ j \in 1..Len(s)
      BY <3>2, <2>1, <1>1, <1>5 DEF ToSet
    <3>3. CASE j = Len(s) + 1 /\ i \in 1..Len(s)
      BY <3>3, <2>1, <1>1, <1>5 DEF ToSet
    <3> QED BY <3>1, <3>2, <3>3, <1>1
  <2> QED BY <2>1, <1>1 DEF IsInjective
<1> QED BY <1>1, <1>2, <1>3, <1>4, <1>5

(* Reversing a list keeps its elements and their distinctness. *)
LEMMA ReverseSet ==
  ASSUME NEW S, NEW s \in Seq(S)
  PROVE  /\ Reverse(s) \in Seq(S)
         /\ ToSet(Reverse(s)) = ToSet(s)
         /\ IsInjective(s) => IsInjective(Reverse(s))
<1> DEFINE n == Len(s)
           r == Reverse(s)
<1>1. n \in Nat /\ DOMAIN s = 1..n /\ \A i \in 1..n : s[i] \in S
  BY LenProperties, ElementOfSeq
<1>2. r = [i \in 1..n |-> s[(n - i) + 1]]
  BY DEF Reverse
<1>3. \A i \in 1..n : (n - i) + 1 \in 1..n
  BY <1>1
<1>4. r \in [1..n -> S]
  BY <1>1, <1>2, <1>3
<1>5. r \in Seq(S)
  BY <1>4, <1>1, SeqDef
<1>6. DOMAIN r = 1..n /\ \A i \in 1..n : r[i] = s[(n - i) + 1]
  BY <1>2
<1>7. \A i \in 1..n : s[i] = r[(n - i) + 1]
  BY <1>6, <1>3, <1>1
<1> HIDE DEF n, r
<1>8. ToSet(r) = ToSet(s)
  BY <1>1, <1>3, <1>6, <1>7 DEF ToSet
<1>9. IsInjective(s) => IsInjective(r)
  <2> SUFFICES ASSUME IsInjective(s), NEW i \in 1..n, NEW j \in 1..n,
                      r[i] = r[j]
               PROVE  i = j
    BY <1>6 DEF IsInjective
  <2>1. (n - i) + 1 = (n - j) + 1
    BY <1>1, <1>3, <1>6 DEF IsInjective
  <2> QED BY <2>1, <1>1
<1> QED BY <1>5, <1>8, <1>9 DEF r

-----------------------------------------------------------------------------
(* Which implementation is current where main is, who may be pushing, and  *)
(* that only accepted tasks finish.                                        *)
ThreadsAgree ==
  /\ mpc \in {"take", "handlers"} => impl_current = "regular"
  /\ mpc \in {"deinit", "join"} => impl_current = "threaded"
  /\ mpc = "init" => impl_current = "none"
  /\ mpc = "callback" => mtask # NoTask
  /\ mcont = "check" => mtask = NoTask /\ mpc \in {"deinit", "join", "init"}
  /\ mpc = "waittest" => mwait
  /\ mwait =>
       IF mpc \in {"deinit", "join", "init"}
         THEN mtask # NoTask /\ mcont # "none"
         ELSE /\ impl_current # "none"
              /\ mpc \in {"take", "handlers", "lockproperty", "progress",
                          "lockfinished", "gather", "unlink", "callback",
                          "waittest"}
  /\ mqueue # <<>> => mpc = "handlers"
  /\ pend["main"] # NoTask => \/ mpc \in {"idle", "callback"}
                              \/ mpc = "handlers" /\ mqueue # <<>>
  /\ pend["worker"] # NoTask => wpc = "handler"
  /\ wpc # "none" => impl_current = "threaded"
  /\ \A t \in fresh \cup Held : ~finished[t]

(* Until a callback starts a new worker, each thread holds finished_lock   *)
(* where it uses tasks_finished; so only then is a get disturbed.  Main    *)
(* has a lock from a threaded gather only.                                 *)
FinishedLocked ==
  /\ mpc \in {"gather", "callback"} /\ impl_current = "threaded" =>
       finished_lock = "main" \/ reinited
  /\ wpc \in {"put", "unlock"} => finished_lock = "worker" \/ reinited
  /\ mpc = "unlink" => reinited /\ tasks_finished # <<>>
  /\ mpc \in {"progress", "lockfinished"} => mgather = "threaded"
  /\ "main" \in {property_lock, finished_lock} => mgather = "threaded"

(* The inductive invariant.  TaskInOnePlace and FinishedFlagAgrees need    *)
(* each other: a task is re-queued or delivered by the flag the worker     *)
(* read, and the flag is only stable because no one else has the task.     *)
IInv == /\ TypeOK
        /\ ThreadsAgree
        /\ FinishedLocked
        /\ WorkerTaskIsFront
        /\ TaskInOnePlace
        /\ FinishedFlagAgrees

USE TaskAssumption, BoundAssumption

placed == <<tasks_running, tasks_finished, fresh, lost, finished, pend, mqueue,
            mtask>>

LEMMA InitIInv == Init => IInv
<1> SUFFICES ASSUME Init PROVE IInv
  OBVIOUS
<1> USE DEF Init
<1>1. TypeOK
  <2>1. <<>> \in Seq(Task)
    BY EmptySeq
  <2>2. /\ finished \in [Task -> BOOLEAN] /\ cancelled \in [Task -> BOOLEAN]
        /\ pend \in [Thread -> TaskOrNull] /\ reconfigs \in 0..MaxReconfig
    BY DEF TaskOrNull
  <2> QED BY <2>1, <2>2
          DEF TypeOK, MainPlace, WorkerPlace, WorkerHasTask, TaskOrNull
<1>2. Held = {} /\ InHand = {} /\ InCallback = {} /\ ToSet(<<>>) = {}
  BY EmptySeq DEF Held, InHand, InCallback, ToSet, Thread
<1>3. ThreadsAgree /\ FinishedLocked
  BY <1>2 DEF ThreadsAgree, FinishedLocked, Thread
<1>4. WorkerTaskIsFront /\ FinishedFlagAgrees
  BY <1>2 DEF WorkerTaskIsFront, FinishedFlagAgrees
<1>5. TaskInOnePlace
  BY <1>2 DEF TaskInOnePlace, IsInjective, Queued, Live, Thread
<1> QED BY <1>1, <1>3, <1>4, <1>5 DEF IInv

(* Steps that move no task and set no flag, and take the worker from one   *)
(* place where it has no task to another.                                  *)
LEMMA Unmoved ==
  ASSUME WorkerTaskIsFront, TaskInOnePlace, FinishedFlagAgrees,
         UNCHANGED placed,
         \/ UNCHANGED <<wpc, wtask, wfinished>>
         \/ ~WorkerHasTask /\ ~WorkerHasTask'
  PROVE  WorkerTaskIsFront' /\ TaskInOnePlace' /\ FinishedFlagAgrees'
<1>1. Held' = Held /\ InHand' = InHand /\ InCallback' = InCallback
  BY DEF placed, Held, InHand, InCallback, WorkerHasTask
<1>2. Queued' = Queued /\ Live' = Live
  BY <1>1 DEF placed, Queued, Live
<1>3. TaskInOnePlace'
  BY <1>1, <1>2 DEF placed, TaskInOnePlace
<1>4. WorkerTaskIsFront'
  BY DEF placed, WorkerTaskIsFront, WorkerHasTask
<1>5. FinishedFlagAgrees'
  BY <1>1 DEF placed, FinishedFlagAgrees, WorkerHasTask
<1> QED BY <1>3, <1>4, <1>5

(***************************************************************************)
(* One lemma per kind of step.                                             *)
(***************************************************************************)

(* What was accepted is a task. *)
LEMMA LiveTyped ==
  ASSUME TypeOK
  PROVE  Live \subseteq Task /\ Held \subseteq Task
<1>1. /\ ToSet(tasks_running) \subseteq Task /\ ToSet(mqueue) \subseteq Task
      /\ ToSet(tasks_finished) \subseteq Task
  BY ElementOfSeq, LenProperties DEF TypeOK, ToSet
<1>2. InHand \subseteq Task /\ InCallback \subseteq Task /\ Held \subseteq Task
  BY DEF TypeOK, InHand, InCallback, Held, WorkerHasTask, TaskOrNull
<1> QED BY <1>1, <1>2 DEF Live, Queued

(* The steps that only move main, or the worker between two tasks. *)
LEMMA ControlStep ==
  ASSUME IInv, NEW t, NEW b \in BOOLEAN,
         \/ RetrieveBegin \/ RetrieveEnd \/ RegularHandled
         \/ GatherLockProperty \/ GatherProgress \/ GatherLockFinished
         \/ GetFront \/ GatherEnd \/ task_queue_wait \/ WaitTest \/ WaitReturn
         \/ task_queue_reset \/ DataDeinit \/ task_queue_check
         \/ t \in Task /\ task_queue_cancel_task(t)
         \/ SetThreaded(b) \/ TaskInit(b)
         \/ WorkerLoop \/ WorkerSpuriousWakeup \/ WorkerWoken
         \/ DeinitSignal \/ DeinitJoin \/ task_queue_init
  PROVE  IInv'
<1> USE DEF IInv, queues, flags, config, locks, main, mlocal, worker, wlocal
<1>0. UNCHANGED placed => Held' = Held
  BY DEF placed, Held
<1>1. CASE RetrieveBegin
  <2>1. UNCHANGED placed
    BY <1>1 DEF RetrieveBegin, placed
  <2>2. TypeOK'
    BY <1>1 DEF TypeOK, MainPlace, WorkerPlace, WorkerHasTask, RetrieveBegin, CanCall
  <2>3. ThreadsAgree'
    BY <1>1, <2>1, <1>0 DEF TypeOK, ThreadsAgree, placed, RetrieveBegin, CanCall
  <2>4. \/ UNCHANGED <<wpc, wtask, wfinished>>
        \/ ~WorkerHasTask /\ ~WorkerHasTask'
    BY <1>1 DEF WorkerHasTask, ThreadsAgree, RetrieveBegin, CanCall
  <2>5. FinishedLocked'
    BY <1>1, <2>1 DEF TypeOK, ThreadsAgree, FinishedLocked, placed, RetrieveBegin, CanCall
  <2> QED BY <2>1, <2>2, <2>3, <2>4, <2>5, Unmoved
<1>2. CASE RetrieveEnd
  <2>1. UNCHANGED placed
    BY <1>2 DEF RetrieveEnd, placed
  <2>2. TypeOK'
    BY <1>2 DEF TypeOK, MainPlace, WorkerPlace, WorkerHasTask, RetrieveEnd
  <2>3. ThreadsAgree'
    BY <1>2, <2>1, <1>0 DEF TypeOK, ThreadsAgree, placed, RetrieveEnd
  <2>4. \/ UNCHANGED <<wpc, wtask, wfinished>>
        \/ ~WorkerHasTask /\ ~WorkerHasTask'
    BY <1>2 DEF WorkerHasTask, ThreadsAgree, RetrieveEnd
  <2>5. FinishedLocked'
    BY <1>2, <2>1 DEF TypeOK, ThreadsAgree, FinishedLocked, placed, RetrieveEnd
  <2> QED BY <2>1, <2>2, <2>3, <2>4, <2>5, Unmoved
<1>3. CASE RegularHandled
  <2>1. UNCHANGED placed
    BY <1>3 DEF RegularHandled, placed
  <2>2. TypeOK'
    BY <1>3 DEF TypeOK, MainPlace, WorkerPlace, WorkerHasTask, RegularHandled
  <2>3. ThreadsAgree'
    BY <1>3, <2>1, <1>0 DEF TypeOK, ThreadsAgree, placed, RegularHandled
  <2>4. \/ UNCHANGED <<wpc, wtask, wfinished>>
        \/ ~WorkerHasTask /\ ~WorkerHasTask'
    BY <1>3 DEF WorkerHasTask, ThreadsAgree, RegularHandled
  <2>5. FinishedLocked'
    BY <1>3, <2>1 DEF TypeOK, ThreadsAgree, FinishedLocked, placed, RegularHandled
  <2> QED BY <2>1, <2>2, <2>3, <2>4, <2>5, Unmoved
<1>4. CASE GatherLockProperty
  <2>1. UNCHANGED placed
    BY <1>4 DEF GatherLockProperty, placed
  <2>2. TypeOK'
    BY <1>4 DEF TypeOK, MainPlace, WorkerPlace, WorkerHasTask, GatherLockProperty
  <2>3. ThreadsAgree'
    BY <1>4, <2>1, <1>0 DEF TypeOK, ThreadsAgree, placed, GatherLockProperty
  <2>4. \/ UNCHANGED <<wpc, wtask, wfinished>>
        \/ ~WorkerHasTask /\ ~WorkerHasTask'
    BY <1>4 DEF WorkerHasTask, ThreadsAgree, GatherLockProperty
  <2>5. FinishedLocked'
    BY <1>4, <2>1 DEF TypeOK, ThreadsAgree, FinishedLocked, placed, GatherLockProperty
  <2> QED BY <2>1, <2>2, <2>3, <2>4, <2>5, Unmoved
<1>5. CASE GatherProgress
  <2>1. UNCHANGED placed
    BY <1>5 DEF GatherProgress, placed
  <2>2. TypeOK'
    BY <1>5 DEF TypeOK, MainPlace, WorkerPlace, WorkerHasTask, GatherProgress
  <2>3. ThreadsAgree'
    BY <1>5, <2>1, <1>0 DEF TypeOK, ThreadsAgree, placed, GatherProgress
  <2>4. \/ UNCHANGED <<wpc, wtask, wfinished>>
        \/ ~WorkerHasTask /\ ~WorkerHasTask'
    BY <1>5 DEF WorkerHasTask, ThreadsAgree, GatherProgress
  <2>5. FinishedLocked'
    BY <1>5, <2>1 DEF TypeOK, ThreadsAgree, FinishedLocked, placed, GatherProgress
  <2> QED BY <2>1, <2>2, <2>3, <2>4, <2>5, Unmoved
<1>6. CASE GatherLockFinished
  <2>1. UNCHANGED placed
    BY <1>6 DEF GatherLockFinished, placed
  <2>2. TypeOK'
    BY <1>6 DEF TypeOK, MainPlace, WorkerPlace, WorkerHasTask, GatherLockFinished
  <2>3. ThreadsAgree'
    BY <1>6, <2>1, <1>0 DEF TypeOK, ThreadsAgree, placed, GatherLockFinished
  <2>4. \/ UNCHANGED <<wpc, wtask, wfinished>>
        \/ ~WorkerHasTask /\ ~WorkerHasTask'
    BY <1>6 DEF WorkerHasTask, ThreadsAgree, GatherLockFinished
  <2>5. FinishedLocked'
    BY <1>6, <2>1 DEF TypeOK, ThreadsAgree, FinishedLocked, placed, GatherLockFinished
  <2> QED BY <2>1, <2>2, <2>3, <2>4, <2>5, Unmoved
<1>7. CASE GatherEnd
  <2>1. UNCHANGED placed
    BY <1>7 DEF GatherEnd, placed
  <2>2. TypeOK'
    <3>1. /\ UNCHANGED <<queues, flags, config, running_lock, pend, mtask, mqueue,
                        mcont, mwait, worker>>
          /\ mgather' = "none" /\ mpc = "gather" /\ mpc' \in {"waittest", "idle"}
      BY <1>7 DEF GatherEnd
    <3>2. mtask = NoTask
      BY <3>1 DEF TypeOK
    <3>3. \/ /\ property_lock' \in {property_lock, "free"} \ {"main"}
             /\ finished_lock' \in {finished_lock, "free"} \ {"main"}
          \/ /\ UNCHANGED <<property_lock, finished_lock>>
             /\ mgather # "threaded"
      BY <1>7 DEF GatherEnd, Unlocked
    <3>4. property_lock' # "main" /\ finished_lock' # "main"
      BY <3>3 DEF FinishedLocked
    <3>5. /\ mpc' \in MainPlace /\ WorkerHasTask' = WorkerHasTask
          /\ property_lock' \in {property_lock, "free"}
          /\ finished_lock' \in {finished_lock, "free"}
      BY <3>1, <3>3 DEF MainPlace, WorkerHasTask
    <3> HIDE DEF WorkerHasTask
    <3> QED BY <3>1, <3>2, <3>4, <3>5 DEF TypeOK
  <2>3. ThreadsAgree'
    BY <1>7, <2>1, <1>0 DEF TypeOK, ThreadsAgree, placed, GatherEnd
  <2>4. \/ UNCHANGED <<wpc, wtask, wfinished>>
        \/ ~WorkerHasTask /\ ~WorkerHasTask'
    BY <1>7 DEF WorkerHasTask, ThreadsAgree, GatherEnd
  <2>5. FinishedLocked'
    BY <1>7, <2>1 DEF TypeOK, ThreadsAgree, FinishedLocked, placed, GatherEnd,
                        Unlocked
  <2> QED BY <2>1, <2>2, <2>3, <2>4, <2>5, Unmoved
<1>8. CASE task_queue_wait
  <2>1. UNCHANGED placed
    BY <1>8 DEF task_queue_wait, placed
  <2>2. TypeOK'
    BY <1>8 DEF TypeOK, MainPlace, WorkerPlace, WorkerHasTask, task_queue_wait, CanCall, GatherStart
  <2>3. ThreadsAgree'
    BY <1>8, <2>1, <1>0 DEF TypeOK, ThreadsAgree, placed, task_queue_wait, CanCall, GatherStart
  <2>4. \/ UNCHANGED <<wpc, wtask, wfinished>>
        \/ ~WorkerHasTask /\ ~WorkerHasTask'
    BY <1>8 DEF WorkerHasTask, ThreadsAgree, task_queue_wait, CanCall, GatherStart
  <2>5. FinishedLocked'
    BY <1>8, <2>1 DEF TypeOK, ThreadsAgree, FinishedLocked, placed, task_queue_wait, CanCall, GatherStart
  <2> QED BY <2>1, <2>2, <2>3, <2>4, <2>5, Unmoved
<1>9. CASE WaitTest
  <2>1. UNCHANGED placed
    BY <1>9 DEF WaitTest, placed
  <2>2. TypeOK'
    <3>1. mwait' \in BOOLEAN /\ mpc' \in {"lockproperty", "take", "idle", "waited"}
      BY <1>9 DEF TypeOK, WaitTest, GatherStart
    <3> QED BY <1>9, <3>1 DEF TypeOK, MainPlace, WorkerPlace, WorkerHasTask, WaitTest
  <2>3. ThreadsAgree'
    BY <1>9, <2>1, <1>0 DEF TypeOK, ThreadsAgree, placed, WaitTest, GatherStart
  <2>4. \/ UNCHANGED <<wpc, wtask, wfinished>>
        \/ ~WorkerHasTask /\ ~WorkerHasTask'
    BY <1>9 DEF WorkerHasTask, ThreadsAgree, WaitTest, GatherStart
  <2>5. FinishedLocked'
    BY <1>9, <2>1 DEF TypeOK, ThreadsAgree, FinishedLocked, placed, WaitTest, GatherStart
  <2> QED BY <2>1, <2>2, <2>3, <2>4, <2>5, Unmoved
<1>10. CASE WaitReturn
  <2>1. UNCHANGED placed
    BY <1>10 DEF WaitReturn, placed
  <2>2. TypeOK'
    BY <1>10 DEF TypeOK, MainPlace, WorkerPlace, WorkerHasTask, WaitReturn
  <2>3. ThreadsAgree'
    BY <1>10, <2>1, <1>0 DEF TypeOK, ThreadsAgree, placed, WaitReturn
  <2>4. \/ UNCHANGED <<wpc, wtask, wfinished>>
        \/ ~WorkerHasTask /\ ~WorkerHasTask'
    BY <1>10 DEF WorkerHasTask, ThreadsAgree, WaitReturn
  <2>5. FinishedLocked'
    BY <1>10, <2>1 DEF TypeOK, ThreadsAgree, FinishedLocked, placed, WaitReturn
  <2> QED BY <2>1, <2>2, <2>3, <2>4, <2>5, Unmoved
<1>11. CASE task_queue_reset
  <2>1. UNCHANGED placed
    BY <1>11 DEF task_queue_reset, placed
  <2>2. TypeOK'
    <3>1. cancelled' \in [Task -> BOOLEAN]
      BY <1>11 DEF TypeOK, task_queue_reset
    <3> QED BY <1>11, <3>1 DEF TypeOK, WorkerHasTask, task_queue_reset
  <2>3. ThreadsAgree'
    BY <1>11, <2>1, <1>0 DEF TypeOK, ThreadsAgree, placed, task_queue_reset, CanCall
  <2>4. \/ UNCHANGED <<wpc, wtask, wfinished>>
        \/ ~WorkerHasTask /\ ~WorkerHasTask'
    BY <1>11 DEF WorkerHasTask, ThreadsAgree, task_queue_reset, CanCall
  <2>5. FinishedLocked'
    BY <1>11, <2>1 DEF TypeOK, ThreadsAgree, FinishedLocked, placed, task_queue_reset, CanCall
  <2> QED BY <2>1, <2>2, <2>3, <2>4, <2>5, Unmoved
<1>12. CASE DataDeinit
  <2>1. UNCHANGED placed
    BY <1>12 DEF DataDeinit, placed
  <2>2. TypeOK'
    BY <1>12 DEF TypeOK, MainPlace, WorkerPlace, WorkerHasTask, DataDeinit, task_queue_deinit, DeinitStart, Caller
  <2>3. ThreadsAgree'
    BY <1>12, <2>1, <1>0 DEF TypeOK, ThreadsAgree, placed, DataDeinit, task_queue_deinit, DeinitStart, Caller
  <2>4. \/ UNCHANGED <<wpc, wtask, wfinished>>
        \/ ~WorkerHasTask /\ ~WorkerHasTask'
    BY <1>12 DEF WorkerHasTask, ThreadsAgree, DataDeinit, task_queue_deinit, DeinitStart, Caller
  <2>5. FinishedLocked'
    BY <1>12, <2>1 DEF TypeOK, ThreadsAgree, FinishedLocked, placed, DataDeinit, task_queue_deinit, DeinitStart, Caller
  <2> QED BY <2>1, <2>2, <2>3, <2>4, <2>5, Unmoved
<1>13. CASE task_queue_check
  <2>1. UNCHANGED placed
    BY <1>13 DEF task_queue_check, placed
  <2>2. TypeOK'
    BY <1>13 DEF TypeOK, MainPlace, WorkerPlace, WorkerHasTask, task_queue_check, task_queue_deinit, DeinitStart, Caller, GatherStart
  <2>3. ThreadsAgree'
    BY <1>13, <2>1, <1>0 DEF TypeOK, ThreadsAgree, placed, task_queue_check, task_queue_deinit, DeinitStart, Caller, GatherStart
  <2>4. \/ UNCHANGED <<wpc, wtask, wfinished>>
        \/ ~WorkerHasTask /\ ~WorkerHasTask'
    BY <1>13 DEF WorkerHasTask, ThreadsAgree, task_queue_check, task_queue_deinit, DeinitStart, Caller, GatherStart
  <2>5. FinishedLocked'
    BY <1>13, <2>1 DEF TypeOK, ThreadsAgree, FinishedLocked, placed, task_queue_check, task_queue_deinit, DeinitStart, Caller, GatherStart
  <2> QED BY <2>1, <2>2, <2>3, <2>4, <2>5, Unmoved
<1>14. CASE t \in Task /\ task_queue_cancel_task(t)
  <2>1. UNCHANGED placed
    BY <1>14 DEF task_queue_cancel_task, placed
  <2>2. TypeOK'
    BY <1>14 DEF TypeOK, MainPlace, WorkerPlace, WorkerHasTask, task_queue_cancel_task, CanCall
  <2>3. ThreadsAgree'
    BY <1>14, <2>1, <1>0 DEF TypeOK, ThreadsAgree, placed, task_queue_cancel_task, CanCall
  <2>4. \/ UNCHANGED <<wpc, wtask, wfinished>>
        \/ ~WorkerHasTask /\ ~WorkerHasTask'
    BY <1>14 DEF WorkerHasTask, ThreadsAgree, task_queue_cancel_task, CanCall
  <2>5. FinishedLocked'
    BY <1>14, <2>1 DEF TypeOK, ThreadsAgree, FinishedLocked, placed, task_queue_cancel_task, CanCall
  <2> QED BY <2>1, <2>2, <2>3, <2>4, <2>5, Unmoved
<1>15. CASE SetThreaded(b)
  <2>1. UNCHANGED placed
    BY <1>15 DEF SetThreaded, placed
  <2>2. TypeOK'
    BY <1>15 DEF TypeOK, MainPlace, WorkerPlace, WorkerHasTask, SetThreaded
  <2>3. ThreadsAgree'
    BY <1>15, <2>1, <1>0 DEF TypeOK, ThreadsAgree, placed, SetThreaded
  <2>4. \/ UNCHANGED <<wpc, wtask, wfinished>>
        \/ ~WorkerHasTask /\ ~WorkerHasTask'
    BY <1>15 DEF WorkerHasTask, ThreadsAgree, SetThreaded
  <2>5. FinishedLocked'
    BY <1>15, <2>1 DEF TypeOK, ThreadsAgree, FinishedLocked, placed, SetThreaded
  <2> QED BY <2>1, <2>2, <2>3, <2>4, <2>5, Unmoved
<1>16. CASE TaskInit(b)
  <2>1. UNCHANGED placed
    BY <1>16 DEF TaskInit, placed
  <2>2. TypeOK'
    BY <1>16 DEF TypeOK, MainPlace, WorkerPlace, WorkerHasTask, TaskInit, task_queue_deinit, DeinitStart, Caller
  <2>3. ThreadsAgree'
    BY <1>16, <2>1, <1>0 DEF TypeOK, ThreadsAgree, placed, TaskInit, task_queue_deinit, DeinitStart, Caller
  <2>4. \/ UNCHANGED <<wpc, wtask, wfinished>>
        \/ ~WorkerHasTask /\ ~WorkerHasTask'
    BY <1>16 DEF WorkerHasTask, ThreadsAgree, TaskInit, task_queue_deinit, DeinitStart, Caller
  <2>5. FinishedLocked'
    BY <1>16, <2>1 DEF TypeOK, ThreadsAgree, FinishedLocked, placed, TaskInit, task_queue_deinit, DeinitStart, Caller
  <2> QED BY <2>1, <2>2, <2>3, <2>4, <2>5, Unmoved
<1>17. CASE WorkerLoop
  <2>1. UNCHANGED placed
    BY <1>17 DEF WorkerLoop, placed
  <2>2. TypeOK'
    BY <1>17 DEF TypeOK, MainPlace, WorkerPlace, WorkerHasTask, WorkerLoop
  <2>3. ThreadsAgree'
    BY <1>17, <2>1, <1>0 DEF TypeOK, ThreadsAgree, placed, WorkerLoop
  <2>4. \/ UNCHANGED <<wpc, wtask, wfinished>>
        \/ ~WorkerHasTask /\ ~WorkerHasTask'
    BY <1>17 DEF WorkerHasTask, ThreadsAgree, WorkerLoop
  <2>5. FinishedLocked'
    BY <1>17, <2>1 DEF TypeOK, ThreadsAgree, FinishedLocked, placed, WorkerLoop
  <2> QED BY <2>1, <2>2, <2>3, <2>4, <2>5, Unmoved
<1>18. CASE WorkerSpuriousWakeup
  <2>1. UNCHANGED placed
    BY <1>18 DEF WorkerSpuriousWakeup, placed
  <2>2. TypeOK'
    BY <1>18 DEF TypeOK, MainPlace, WorkerPlace, WorkerHasTask, WorkerSpuriousWakeup
  <2>3. ThreadsAgree'
    BY <1>18, <2>1, <1>0 DEF TypeOK, ThreadsAgree, placed, WorkerSpuriousWakeup
  <2>4. \/ UNCHANGED <<wpc, wtask, wfinished>>
        \/ ~WorkerHasTask /\ ~WorkerHasTask'
    BY <1>18 DEF WorkerHasTask, ThreadsAgree, WorkerSpuriousWakeup
  <2>5. FinishedLocked'
    BY <1>18, <2>1 DEF TypeOK, ThreadsAgree, FinishedLocked, placed, WorkerSpuriousWakeup
  <2> QED BY <2>1, <2>2, <2>3, <2>4, <2>5, Unmoved
<1>19. CASE WorkerWoken
  <2>1. UNCHANGED placed
    BY <1>19 DEF WorkerWoken, placed
  <2>2. TypeOK'
    BY <1>19 DEF TypeOK, MainPlace, WorkerPlace, WorkerHasTask, WorkerWoken
  <2>3. ThreadsAgree'
    BY <1>19, <2>1, <1>0 DEF TypeOK, ThreadsAgree, placed, WorkerWoken
  <2>4. \/ UNCHANGED <<wpc, wtask, wfinished>>
        \/ ~WorkerHasTask /\ ~WorkerHasTask'
    BY <1>19 DEF WorkerHasTask, ThreadsAgree, WorkerWoken
  <2>5. FinishedLocked'
    BY <1>19, <2>1 DEF TypeOK, ThreadsAgree, FinishedLocked, placed, WorkerWoken
  <2> QED BY <2>1, <2>2, <2>3, <2>4, <2>5, Unmoved
<1>20. CASE DeinitSignal
  <2>1. UNCHANGED placed
    BY <1>20 DEF DeinitSignal, placed
  <2>2. TypeOK'
    <3>1. /\ wpc' \in WorkerPlace /\ worker_continue' \in BOOLEAN /\ mpc' \in MainPlace
          /\ WorkerHasTask' => WorkerHasTask
      BY <1>20 DEF TypeOK, MainPlace, WorkerPlace, WorkerHasTask, DeinitSignal, Signalled
    <3>2. /\ UNCHANGED <<queues, flags, config, locks, pend, mlocal, wlocal>>
          /\ mpc = "deinit" /\ mpc' = "join"
          /\ wpc' = wpc \/ (wpc = "wait" /\ wpc' = "woken")
      BY <1>20 DEF DeinitSignal, Signalled
    <3> HIDE DEF WorkerHasTask
    <3> QED BY <3>1, <3>2 DEF TypeOK
  <2>3. ThreadsAgree'
    BY <1>20, <2>1, <1>0 DEF TypeOK, ThreadsAgree, placed, DeinitSignal, Signalled
  <2>4. \/ UNCHANGED <<wpc, wtask, wfinished>>
        \/ ~WorkerHasTask /\ ~WorkerHasTask'
    BY <1>20 DEF WorkerHasTask, ThreadsAgree, DeinitSignal, Signalled
  <2>5. FinishedLocked'
    BY <1>20, <2>1 DEF TypeOK, ThreadsAgree, FinishedLocked, placed, DeinitSignal, Signalled
  <2> QED BY <2>1, <2>2, <2>3, <2>4, <2>5, Unmoved
<1>21. CASE DeinitJoin
  <2>1. UNCHANGED placed
    BY <1>21 DEF DeinitJoin, placed
  <2>2. TypeOK'
    BY <1>21 DEF TypeOK, MainPlace, WorkerPlace, WorkerHasTask, DeinitJoin, Caller
  <2>3. ThreadsAgree'
    BY <1>21, <2>1, <1>0 DEF TypeOK, ThreadsAgree, placed, DeinitJoin, Caller
  <2>4. \/ UNCHANGED <<wpc, wtask, wfinished>>
        \/ ~WorkerHasTask /\ ~WorkerHasTask'
    BY <1>21 DEF WorkerHasTask, ThreadsAgree, DeinitJoin, Caller
  <2>5. FinishedLocked'
    BY <1>21, <2>1 DEF TypeOK, ThreadsAgree, FinishedLocked, placed, DeinitJoin, Caller
  <2> QED BY <2>1, <2>2, <2>3, <2>4, <2>5, Unmoved
<1>22. CASE task_queue_init
  <2>1. UNCHANGED placed
    BY <1>22 DEF task_queue_init, placed
  <2>2. TypeOK'
    <3>1. /\ task_threaded_enable' \in BOOLEAN /\ worker_continue' \in BOOLEAN
          /\ impl_current' \in {"regular", "threaded"}
      BY <1>22 DEF TypeOK, task_queue_init, WantThreaded
    <3>2. wpc' \in WorkerPlace /\ (WorkerHasTask' => WorkerHasTask)
      BY <1>22 DEF TypeOK, WorkerPlace, WorkerHasTask, task_queue_init
    <3>3. /\ mpc' \in {"idle", "callback", "lockproperty", "take"}
          /\ mtask # NoTask => mpc' = "callback"
      BY <1>22 DEF TypeOK, ThreadsAgree, task_queue_init, Caller
    <3>4. /\ UNCHANGED <<queues, flags, reconfigs, locks, pend, mtask, mqueue,
                        mgather, mwait, wlocal>>
          /\ mpc = "init" /\ mcont' = "none" /\ reinited' \in BOOLEAN
          /\ wpc = "none"
      BY <1>22 DEF TypeOK, ThreadsAgree, task_queue_init, WantThreaded
    <3>5. /\ property_lock # "worker" /\ finished_lock # "worker"
          /\ mpc' \in MainPlace
      BY <3>3, <3>4 DEF TypeOK, MainPlace
    <3> HIDE DEF WorkerHasTask
    <3> QED BY <3>1, <3>2, <3>3, <3>4, <3>5 DEF TypeOK
  <2>3. ThreadsAgree'
    BY <1>22, <2>1, <1>0 DEF TypeOK, ThreadsAgree, placed, task_queue_init, Caller, WantThreaded
  <2>4. \/ UNCHANGED <<wpc, wtask, wfinished>>
        \/ ~WorkerHasTask /\ ~WorkerHasTask'
    BY <1>22 DEF WorkerHasTask, ThreadsAgree, task_queue_init, Caller, WantThreaded
  <2>5. FinishedLocked'
    BY <1>22, <2>1 DEF TypeOK, ThreadsAgree, FinishedLocked, placed, task_queue_init, Caller, WantThreaded
  <2> QED BY <2>1, <2>2, <2>3, <2>4, <2>5, Unmoved
<1>23. CASE GetFront
  <2>1. UNCHANGED placed
    BY <1>23 DEF GetFront, placed
  <2>2. TypeOK'
    BY <1>23 DEF TypeOK, MainPlace, WorkerPlace, WorkerHasTask, GetFront
  <2>3. ThreadsAgree'
    BY <1>23, <2>1, <1>0 DEF TypeOK, ThreadsAgree, placed, GetFront
  <2>4. \/ UNCHANGED <<wpc, wtask, wfinished>>
        \/ ~WorkerHasTask /\ ~WorkerHasTask'
    BY <1>23 DEF WorkerHasTask, GetFront
  <2>5. FinishedLocked'
    BY <1>23, <2>1 DEF ThreadsAgree, FinishedLocked, placed, GetFront, GetUndisturbed
  <2> QED BY <2>1, <2>2, <2>3, <2>4, <2>5, Unmoved
<1> QED BY <1>1, <1>2, <1>3, <1>4, <1>5, <1>6, <1>7, <1>8, <1>9, <1>10, <1>11, <1>12, <1>13, <1>14, <1>15, <1>16, <1>17, <1>18, <1>19, <1>20, <1>21, <1>22, <1>23

(* The worker's steps with its task. *)
LEMMA WorkerFetchStep == ASSUME IInv, WorkerFetch PROVE IInv'
<1> USE DEF IInv, queues, flags, config, locks, main, mlocal, worker, wlocal
<1>1. UNCHANGED placed /\ Held' = Held /\ InCallback' = InCallback
  BY DEF WorkerFetch, placed, Held, InCallback
<1>2. CASE tasks_running = <<>>
  <2>1. ~WorkerHasTask /\ ~WorkerHasTask' /\ wpc' = "wait" /\ wtask' = wtask
    BY <1>2 DEF WorkerFetch, WorkerHasTask
  <2>2. TypeOK'
    BY <2>1 DEF TypeOK, WorkerPlace, WorkerHasTask, WorkerFetch
  <2>3. ThreadsAgree'
    BY <2>1, <1>1 DEF ThreadsAgree, WorkerFetch
  <2>4. FinishedLocked'
    BY <2>1, <1>1 DEF FinishedLocked, WorkerFetch, placed
  <2> QED BY <1>1, <2>1, <2>2, <2>3, <2>4, Unmoved
<1>3. CASE tasks_running # <<>>
  <2>1. /\ Head(tasks_running) \in Task
        /\ Head(tasks_running) \in ToSet(tasks_running)
    BY <1>3, HeadTailSet DEF TypeOK
  <2>2. wpc = "fetch" /\ wpc' = "handler" /\ wtask' = Head(tasks_running)
    BY <1>3 DEF WorkerFetch
  <2>3. TypeOK'
    BY <2>1, <2>2 DEF TypeOK, WorkerPlace, WorkerHasTask, WorkerFetch, TaskOrNull
  <2>4. ThreadsAgree'
    BY <2>2, <1>1 DEF ThreadsAgree, WorkerFetch
  <2>5. WorkerTaskIsFront'
    BY <2>2, <1>1, <1>3 DEF WorkerTaskIsFront, placed
  <2>6. InHand' = InHand
    BY <2>2 DEF InHand
  <2>7. TaskInOnePlace'
    BY <2>6, <1>1 DEF TaskInOnePlace, Queued, Live, placed
  <2>8. ~finished[Head(tasks_running)]
    BY <2>1, <2>2 DEF FinishedFlagAgrees
  <2>9. FinishedFlagAgrees'
    BY <2>2, <2>8, <1>1 DEF FinishedFlagAgrees, placed
  <2>10. FinishedLocked'
    BY <2>2, <1>1 DEF FinishedLocked, WorkerFetch, placed
  <2> QED BY <2>3, <2>4, <2>5, <2>7, <2>9, <2>10
<1> QED BY <1>2, <1>3

LEMMA WorkerHandlerStep == ASSUME IInv, WorkerHandler PROVE IInv'
<1> USE DEF IInv, queues, flags, config, locks, main, mlocal, worker, wlocal
<1>1. UNCHANGED placed /\ Held' = Held /\ InCallback' = InCallback
  BY DEF WorkerHandler, placed, Held, InCallback
<1>2. /\ wpc = "handler" /\ wpc' \in {"setfinished", "readfinished"}
      /\ UNCHANGED <<wtask, wfinished>> /\ pend["worker"] = NoTask
  BY DEF WorkerHandler
<1>3. TypeOK'
  BY <1>2 DEF TypeOK, WorkerPlace, WorkerHasTask, WorkerHandler
<1>4. ThreadsAgree'
  BY <1>1, <1>2 DEF ThreadsAgree, WorkerHandler
<1>5. WorkerTaskIsFront'
  BY <1>1, <1>2 DEF WorkerTaskIsFront, placed
<1>6. InHand' = InHand
  BY <1>2 DEF InHand
<1>7. TaskInOnePlace'
  BY <1>1, <1>6 DEF TaskInOnePlace, Queued, Live, placed
<1>8. FinishedFlagAgrees'
  BY <1>1, <1>2 DEF FinishedFlagAgrees, placed
<1>9. FinishedLocked'
  BY <1>1, <1>2 DEF FinishedLocked, WorkerHandler, placed
<1> QED BY <1>3, <1>4, <1>5, <1>7, <1>8, <1>9

(* Only the worker's own task, the first of tasks_running, changes. *)
LEMMA SetFinishedStep == ASSUME IInv, task_set_finished PROVE IInv'
<1> USE DEF IInv, queues, flags, config, locks, main, mlocal, worker, wlocal
<1>1. /\ UNCHANGED <<tasks_running, tasks_finished, fresh, lost, pend, mqueue,
                     mtask>>
      /\ Held' = Held /\ InCallback' = InCallback
  BY DEF task_set_finished, Held, InCallback
<1>2. /\ wpc = "setting" /\ wpc' = "readfinished"
      /\ UNCHANGED <<wtask, wfinished>>
      /\ finished' = [finished EXCEPT ![wtask] = TRUE]
  BY DEF task_set_finished
<1>3. wtask \in Task /\ tasks_running # <<>> /\ Head(tasks_running) = wtask
  BY <1>2 DEF TypeOK, WorkerHasTask, WorkerTaskIsFront
<1>4. wtask \in ToSet(tasks_running)
  BY <1>3, HeadTailSet DEF TypeOK
<1>5. TypeOK'
  BY <1>2, <1>3
     DEF TypeOK, WorkerPlace, WorkerHasTask, task_set_finished, Unlocked
<1>6. wtask \notin fresh \cup Held \cup ToSet(mqueue)
  BY <1>4 DEF TaskInOnePlace, Live, Queued
<1>7. /\ finished'[wtask]
      /\ \A t \in Task : t # wtask => finished'[t] = finished[t]
  BY <1>2, <1>3 DEF TypeOK
<1>8. /\ fresh \cup Held \subseteq Task /\ ToSet(mqueue) \subseteq Task
      /\ ToSet(tasks_running) \subseteq Task
      /\ ToSet(tasks_finished) \cup InCallback \subseteq Task
  BY LiveTyped DEF TypeOK, Live, Queued
<1>9. ThreadsAgree'
  BY <1>1, <1>2, <1>6, <1>7, <1>8 DEF ThreadsAgree, task_set_finished
<1>10. WorkerTaskIsFront'
  BY <1>1, <1>2 DEF WorkerTaskIsFront
<1>11. InHand' = InHand
  BY <1>2 DEF InHand
<1>12. TaskInOnePlace'
  BY <1>1, <1>11 DEF TaskInOnePlace, Queued, Live
<1>13. FinishedFlagAgrees'
  BY <1>1, <1>2, <1>6, <1>7, <1>8 DEF FinishedFlagAgrees
<1>14. FinishedLocked'
  BY <1>1, <1>2 DEF FinishedLocked, task_set_finished, Unlocked
<1> QED BY <1>5, <1>9, <1>10, <1>12, <1>13, <1>14

LEMMA ReadFinishedStep == ASSUME IInv, WorkerReadFinished PROVE IInv'
<1> USE DEF IInv, queues, flags, config, locks, main, mlocal, worker, wlocal
<1>1. UNCHANGED placed /\ Held' = Held /\ InCallback' = InCallback
  BY DEF WorkerReadFinished, placed, Held, InCallback
<1>2. /\ wpc = "reading" /\ wpc' = "remove" /\ wtask' = wtask
      /\ wfinished' = finished[wtask] /\ wtask \in Task
  BY DEF WorkerReadFinished, TypeOK, WorkerHasTask
<1>3. wfinished' \in BOOLEAN
  BY <1>2 DEF TypeOK
<1>4. TypeOK'
  BY <1>2, <1>3 DEF TypeOK, WorkerPlace, WorkerHasTask, WorkerReadFinished,
                        Unlocked
<1>5. ThreadsAgree'
  BY <1>1, <1>2 DEF ThreadsAgree, WorkerReadFinished
<1>6. WorkerTaskIsFront'
  BY <1>1, <1>2 DEF WorkerTaskIsFront, placed
<1>7. InHand' = InHand
  BY <1>2 DEF InHand
<1>8. TaskInOnePlace'
  BY <1>1, <1>7 DEF TaskInOnePlace, Queued, Live, placed
<1>9. FinishedFlagAgrees'
  BY <1>1, <1>2 DEF FinishedFlagAgrees, placed
<1>10. FinishedLocked'
  BY <1>1, <1>2 DEF FinishedLocked, WorkerReadFinished, Unlocked, placed
<1> QED BY <1>4, <1>5, <1>6, <1>8, <1>9, <1>10

(* The first task leaves tasks_running for the worker's hands. *)
LEMMA WorkerRemoveStep == ASSUME IInv, WorkerRemove PROVE IInv'
<1> USE DEF IInv, queues, flags, config, locks, main, mlocal, worker, wlocal
<1>1. /\ UNCHANGED <<tasks_finished, fresh, lost, finished, pend, mqueue, mtask>>
      /\ Held' = Held /\ InCallback' = InCallback
  BY DEF WorkerRemove, Held, InCallback
<1>2. /\ wpc = "remove" /\ wpc' = "update" /\ UNCHANGED <<wtask, wfinished>>
  BY DEF WorkerRemove
<1>3. wtask \in Task /\ tasks_running # <<>> /\ Head(tasks_running) = wtask
  BY <1>2 DEF TypeOK, WorkerHasTask, WorkerTaskIsFront
<1>4. tasks_running' = Tail(tasks_running)
  BY <1>3 DEF WorkerRemove, task_queue_remove
<1>5. /\ Tail(tasks_running) \in Seq(Task)
      /\ ToSet(tasks_running) = {wtask} \cup ToSet(Tail(tasks_running))
      /\ IsInjective(Tail(tasks_running))
      /\ wtask \notin ToSet(Tail(tasks_running))
  BY <1>3, HeadTailSet DEF TypeOK, TaskInOnePlace
<1>6. InHand = {} /\ InHand' = {wtask}
  BY <1>2 DEF InHand
<1>7. TypeOK'
  BY <1>2, <1>3, <1>4, <1>5
     DEF TypeOK, WorkerPlace, WorkerHasTask, WorkerRemove
<1>8. ThreadsAgree'
  BY <1>1, <1>2 DEF ThreadsAgree, WorkerRemove
<1>9. WorkerTaskIsFront'
  BY <1>2 DEF WorkerTaskIsFront
<1>10. Queued' = Queued /\ Live' = Live
  BY <1>1, <1>4, <1>5, <1>6 DEF Queued, Live
<1>11. TaskInOnePlace'
  BY <1>1, <1>4, <1>5, <1>6, <1>10 DEF TaskInOnePlace
<1>12. FinishedFlagAgrees'
  BY <1>1, <1>2, <1>4, <1>5 DEF FinishedFlagAgrees
<1>13. FinishedLocked'
  BY <1>1, <1>2 DEF FinishedLocked, WorkerRemove
<1> QED BY <1>7, <1>8, <1>9, <1>11, <1>12, <1>13

(* ... and from there goes back to the end of tasks_running ... *)
LEMMA WorkerRequeueStep == ASSUME IInv, WorkerRequeue PROVE IInv'
<1> USE DEF IInv, queues, flags, config, locks, main, mlocal, worker, wlocal
<1>1. /\ UNCHANGED <<tasks_finished, fresh, lost, finished, pend, mqueue, mtask>>
      /\ Held' = Held /\ InCallback' = InCallback
  BY DEF WorkerRequeue, Held, InCallback
<1>2. /\ wpc = "update" /\ wpc' = "loop" /\ wtask' = NoTask /\ wfinished' = FALSE
      /\ ~wfinished /\ tasks_running' = Append(tasks_running, wtask)
  BY DEF WorkerRequeue, task_queue_put, EndOfTurn
<1>3. InHand = {wtask} /\ InHand' = {} /\ wtask \in Task
  BY <1>2 DEF InHand, TypeOK, WorkerHasTask
<1>4. /\ tasks_running' \in Seq(Task)
      /\ ToSet(tasks_running') = ToSet(tasks_running) \cup {wtask}
      /\ IsInjective(tasks_running')
  BY <1>2, <1>3, AppendSet DEF TypeOK, TaskInOnePlace
<1>5. TypeOK'
  <2>1. /\ ~WorkerHasTask' /\ wpc' \in WorkerPlace /\ wtask' \in TaskOrNull
        /\ property_lock # "worker" /\ finished_lock # "worker"
        /\ wfinished' \in BOOLEAN
    BY <1>2 DEF TypeOK, TaskOrNull, WorkerPlace, WorkerHasTask
  <2>2. UNCHANGED <<flags, config, locks, main, worker_continue>>
    BY DEF WorkerRequeue
  <2> HIDE DEF WorkerHasTask
  <2> QED BY <1>1, <1>4, <2>1, <2>2 DEF TypeOK
<1>6. ThreadsAgree'
  BY <1>1, <1>2 DEF ThreadsAgree, WorkerRequeue
<1>7. WorkerTaskIsFront'
  BY <1>2 DEF WorkerTaskIsFront
<1>8. Queued' = Queued /\ Live' = Live
  BY <1>1, <1>3, <1>4 DEF Queued, Live
<1>9. TaskInOnePlace'
  BY <1>1, <1>3, <1>4, <1>8 DEF TaskInOnePlace
<1>10. FinishedFlagAgrees'
  BY <1>1, <1>2, <1>4 DEF FinishedFlagAgrees
<1>11. FinishedLocked'
  BY <1>1, <1>2 DEF FinishedLocked, WorkerRequeue
<1> QED BY <1>5, <1>6, <1>7, <1>9, <1>10, <1>11

(* ... or to tasks_finished. *)
LEMMA WorkerPutStep == ASSUME IInv, WorkerPut PROVE IInv'
<1> USE DEF IInv, queues, flags, config, locks, main, mlocal, worker, wlocal
<1>1. /\ UNCHANGED <<tasks_running, fresh, lost, finished, pend, mqueue, mtask>>
      /\ Held' = Held /\ InCallback' = InCallback
  BY DEF WorkerPut, Held, InCallback
<1>2. /\ wpc = "put" /\ wpc' = "unlock" /\ UNCHANGED <<wtask, wfinished>>
      /\ tasks_finished' = Append(tasks_finished, wtask)
  BY DEF WorkerPut, task_queue_put
<1>3. InHand = {wtask} /\ InHand' = {} /\ wtask \in Task
  BY <1>2 DEF InHand, TypeOK, WorkerHasTask
<1>4. wtask \notin ToSet(tasks_finished)
  BY <1>3 DEF TaskInOnePlace, Queued
<1>5. /\ tasks_finished' \in Seq(Task) /\ tasks_finished' # <<>>
      /\ ToSet(tasks_finished') = ToSet(tasks_finished) \cup {wtask}
      /\ IsInjective(tasks_finished')
  BY <1>2, <1>3, <1>4, AppendSet DEF TypeOK, TaskInOnePlace
<1>6. TypeOK'
  BY <1>2, <1>5 DEF TypeOK, WorkerPlace, WorkerHasTask, WorkerPut
<1>7. ThreadsAgree'
  BY <1>1, <1>2 DEF ThreadsAgree, WorkerPut
<1>8. WorkerTaskIsFront'
  BY <1>2 DEF WorkerTaskIsFront
<1>9. Queued' = Queued \ {wtask} /\ Live' = Live
  BY <1>1, <1>3, <1>5 DEF Queued, Live, TaskInOnePlace
<1>10. TaskInOnePlace'
  BY <1>1, <1>3, <1>5, <1>9 DEF TaskInOnePlace, Queued
<1>11. FinishedFlagAgrees'
  BY <1>1, <1>2, <1>5 DEF FinishedFlagAgrees
<1>12. FinishedLocked'
  BY <1>1, <1>2, <1>5 DEF FinishedLocked, WorkerPut
<1> QED BY <1>6, <1>7, <1>8, <1>10, <1>11, <1>12

(* Between these steps the worker takes and releases the two locks. *)
LEMMA WorkerLockStep ==
  ASSUME IInv, WorkerLockProperty \/ WorkerLockFinished
  PROVE  IInv'
<1> USE DEF IInv, queues, flags, config, locks, main, mlocal, worker, wlocal
<1>1. UNCHANGED placed /\ Held' = Held /\ InCallback' = InCallback
  BY DEF WorkerLockProperty, WorkerLockFinished, placed, Held, InCallback
<1>2. /\ UNCHANGED <<wtask, wfinished, mpc, impl_current, reinited>>
      /\ \/ wpc = "setfinished" /\ wpc' = "setting"
         \/ wpc = "readfinished" /\ wpc' = "reading"
         \/ /\ wpc = "update" /\ wpc' = "put" /\ wfinished
            /\ finished_lock = "free" /\ finished_lock' = "worker"
      /\ wpc # "update" => finished_lock' = finished_lock
      /\ UNCHANGED mgather /\ property_lock' \in {property_lock, "worker"}
  BY DEF WorkerLockProperty, WorkerLockFinished
<1>3. TypeOK'
  <2>1. WorkerHasTask /\ WorkerHasTask' /\ wpc' \in WorkerPlace
    BY <1>2 DEF WorkerHasTask, WorkerPlace
  <2>2. CASE WorkerLockProperty
    BY <1>2, <2>1, <2>2 DEF TypeOK, WorkerLockProperty
  <2>3. CASE WorkerLockFinished
    BY <1>2, <2>1, <2>3 DEF TypeOK, WorkerLockFinished
  <2> QED BY <2>2, <2>3
<1>4. ThreadsAgree'
  BY <1>1, <1>2 DEF ThreadsAgree, WorkerLockProperty, WorkerLockFinished
<1>5. WorkerTaskIsFront'
  BY <1>1, <1>2 DEF WorkerTaskIsFront, placed
<1>6. InHand' = InHand
  BY <1>2 DEF InHand
<1>7. TaskInOnePlace'
  BY <1>1, <1>6 DEF TaskInOnePlace, Queued, Live, placed
<1>8. FinishedFlagAgrees'
  BY <1>1, <1>2 DEF FinishedFlagAgrees, placed
<1>9. FinishedLocked'
  BY <1>1, <1>2 DEF FinishedLocked, placed
<1> QED BY <1>3, <1>4, <1>5, <1>7, <1>8, <1>9

LEMMA WorkerUnlockStep == ASSUME IInv, WorkerUnlockFinished PROVE IInv'
<1> USE DEF IInv, queues, flags, config, locks, main, mlocal, worker, wlocal
<1>1. UNCHANGED placed /\ Held' = Held /\ InCallback' = InCallback
  BY DEF WorkerUnlockFinished, placed, Held, InCallback
<1>2. /\ wpc = "unlock" /\ wpc' = "loop" /\ wtask' = NoTask
      /\ wfinished' = FALSE /\ finished_lock' \in {finished_lock, "free"}
      /\ finished_lock = "worker" => finished_lock' = "free"
  BY DEF WorkerUnlockFinished, EndOfTurn, Unlocked
<1>3. TypeOK'
  <2>1. /\ ~WorkerHasTask' /\ wpc' \in WorkerPlace /\ wtask' \in TaskOrNull
        /\ property_lock # "worker" /\ finished_lock' # "worker"
        /\ wfinished' \in BOOLEAN
        /\ finished_lock' \in {finished_lock, "free"}
    BY <1>2 DEF TypeOK, TaskOrNull, WorkerPlace, WorkerHasTask
  <2>2. UNCHANGED <<queues, flags, config, running_lock, property_lock, pend,
                    main, worker_continue>>
    BY DEF WorkerUnlockFinished
  <2> HIDE DEF WorkerHasTask
  <2> QED BY <2>1, <2>2 DEF TypeOK
<1>4. ThreadsAgree'
  BY <1>1, <1>2 DEF ThreadsAgree, WorkerUnlockFinished
<1>5. WorkerTaskIsFront'
  BY <1>2 DEF WorkerTaskIsFront
<1>6. InHand' = InHand
  BY <1>2 DEF InHand
<1>7. TaskInOnePlace'
  BY <1>1, <1>6 DEF TaskInOnePlace, Queued, Live, placed
<1>8. FinishedFlagAgrees'
  BY <1>1, <1>2 DEF FinishedFlagAgrees, placed
<1>9. FinishedLocked'
  BY <1>1, <1>2 DEF FinishedLocked, WorkerUnlockFinished, placed
<1> QED BY <1>3, <1>4, <1>5, <1>7, <1>8, <1>9

(* A push takes a new task, past the checks, into the thread's hands ... *)

LEMMA PushStep ==
  ASSUME IInv, NEW th \in Thread, NEW task \in Task, task_queue_push(th, task)
  PROVE  IInv'
<1> USE DEF IInv, queues, flags, config, locks, main, mlocal, worker, wlocal
<1>1. /\ UNCHANGED <<tasks_running, tasks_finished, lost, finished, mqueue, mtask>>
      /\ UNCHANGED <<wpc, wtask, wfinished>>
      /\ InHand' = InHand /\ InCallback' = InCallback
      /\ Queued' = Queued /\ Live' = Live
  BY DEF task_queue_push, InHand, InCallback, Queued, Live
<1>2. /\ pend[th] = NoTask /\ task \in fresh /\ fresh' = fresh \ {task}
      /\ pend' = [pend EXCEPT ![th] = task]
  BY DEF task_queue_push, CanCall
<1>3. task # NoTask
  OBVIOUS
<1>4. Held' = Held \cup {task} /\ task \notin Held
  BY <1>2, <1>3 DEF Held, Thread, TypeOK, TaskInOnePlace
<1>5. TypeOK'
  BY <1>2 DEF TypeOK, TaskOrNull, WorkerHasTask, task_queue_push
<1>6. ThreadsAgree'
  BY <1>1, <1>2, <1>4 DEF ThreadsAgree, task_queue_push, CanCall, Thread, TypeOK
<1>7. WorkerTaskIsFront' /\ FinishedFlagAgrees'
  BY <1>1 DEF WorkerTaskIsFront, FinishedFlagAgrees
<1>8. pend'["main"] # NoTask => pend'["main"] # pend'["worker"]
  BY <1>2, <1>3, <1>4 DEF TypeOK, TaskInOnePlace, Thread, Held
<1>9. TaskInOnePlace'
  BY <1>1, <1>2, <1>4, <1>8 DEF TaskInOnePlace
<1>10. FinishedLocked'
  BY <1>1 DEF FinishedLocked, task_queue_push
<1> QED BY <1>5, <1>6, <1>7, <1>9, <1>10

(* ... and from there to the end of tasks_running. *)
LEMMA PushRunningStep ==
  ASSUME IInv, NEW th \in Thread, push_running(th)
  PROVE  IInv'
<1> USE DEF IInv, queues, flags, config, locks, main, mlocal, worker, wlocal
<1> DEFINE task == pend[th]
<1>1. /\ UNCHANGED <<tasks_finished, fresh, lost, finished, mqueue, mtask>>
      /\ UNCHANGED <<wtask, wfinished>> /\ wpc' = Signalled(wpc)
      /\ task # NoTask /\ pend' = [pend EXCEPT ![th] = NoTask]
      /\ tasks_running' = Append(tasks_running, task)
  BY DEF push_running, task_queue_put
<1>2. task \in Task /\ task \in Held /\ Held' = Held \ {task}
  BY <1>1 DEF TypeOK, TaskOrNull, Held, Thread, TaskInOnePlace
<1>3. InHand' = InHand /\ InCallback' = InCallback
  BY <1>1 DEF InHand, InCallback, Signalled
<1>4. task \notin ToSet(tasks_running)
  BY <1>2 DEF TaskInOnePlace, Live, Queued
<1>5. /\ tasks_running' \in Seq(Task)
      /\ ToSet(tasks_running') = ToSet(tasks_running) \cup {task}
      /\ IsInjective(tasks_running') /\ tasks_running' # <<>>
      /\ tasks_running # <<>> => Head(tasks_running') = Head(tasks_running)
  BY <1>1, <1>2, <1>4, AppendSet DEF TypeOK, TaskInOnePlace
<1>6. TypeOK'
  BY <1>1, <1>5
     DEF TypeOK, TaskOrNull, WorkerHasTask, WorkerPlace, push_running, Signalled
<1>7. ThreadsAgree'
  BY <1>1, <1>2 DEF ThreadsAgree, push_running, Signalled, Thread, TypeOK
<1>8. WorkerTaskIsFront'
  BY <1>1, <1>5 DEF WorkerTaskIsFront, Signalled
<1>9. Queued' = Queued \cup {task} /\ Live' = Live \cup {task}
  BY <1>1, <1>3, <1>5 DEF Queued, Live
<1>10. pend'["main"] # NoTask => pend'["main"] # pend'["worker"]
  BY <1>1 DEF TypeOK, TaskInOnePlace, Thread
<1>11. TaskInOnePlace'
  BY <1>1, <1>2, <1>3, <1>5, <1>9, <1>10 DEF TaskInOnePlace, Live, Queued
<1>12. ~finished[task]
  BY <1>2 DEF ThreadsAgree
<1>13. FinishedFlagAgrees'
  BY <1>1, <1>3, <1>5, <1>12 DEF FinishedFlagAgrees, Signalled
<1>14. FinishedLocked'
  BY <1>1 DEF FinishedLocked, push_running, Signalled
<1> QED BY <1>6, <1>7, <1>8, <1>11, <1>13, <1>14

(* Regular mode: the list moves to gather's queue, reversed ... *)
LEMMA RegularTakeStep == ASSUME IInv, RegularTake PROVE IInv'
<1> USE DEF IInv, queues, flags, config, locks, main, mlocal, worker, wlocal
<1>1. /\ UNCHANGED <<tasks_finished, fresh, lost, finished, pend, mtask>>
      /\ UNCHANGED <<wpc, wtask, wfinished>>
      /\ mpc = "take" /\ mpc' = "handlers" /\ tasks_running' = <<>>
      /\ mqueue' = Reverse(tasks_running)
      /\ Held' = Held /\ InCallback' = InCallback /\ InHand' = InHand
  BY DEF RegularTake, Held, InCallback, InHand
<1>2. mqueue = <<>> /\ wpc = "none" /\ pend["main"] = NoTask
  BY <1>1 DEF ThreadsAgree
<1>3. /\ mqueue' \in Seq(Task) /\ ToSet(mqueue') = ToSet(tasks_running)
      /\ IsInjective(mqueue')
  BY <1>1, ReverseSet DEF TypeOK, TaskInOnePlace
<1>4. /\ <<>> \in Seq(Task) /\ ToSet(<<>>) = {} /\ IsInjective(<<>>)
  BY EmptySeq DEF ToSet, IsInjective
<1>5. TypeOK'
  BY <1>1, <1>3, <1>4 DEF TypeOK, MainPlace, WorkerHasTask, RegularTake
<1>6. ThreadsAgree'
  BY <1>1, <1>2 DEF ThreadsAgree, RegularTake
<1>7. WorkerTaskIsFront'
  BY <1>1, <1>2 DEF WorkerTaskIsFront
<1>8. Queued' = Queued /\ Live' = Live
  BY <1>1, <1>2, <1>3, <1>4 DEF Queued, Live
<1>9. InHand = {}
  BY <1>2 DEF InHand
<1>10. TaskInOnePlace'
  BY <1>1, <1>3, <1>4, <1>8, <1>9 DEF TaskInOnePlace
<1>11. FinishedFlagAgrees'
  BY <1>1, <1>2, <1>3, <1>4 DEF FinishedFlagAgrees
<1>12. FinishedLocked'
  BY <1>1 DEF TypeOK, FinishedLocked, RegularTake
<1> QED BY <1>5, <1>6, <1>7, <1>10, <1>11, <1>12

(* ... and each task from there to one of the two lists. *)
LEMMA RegularHandlerStep == ASSUME IInv, RegularHandler PROVE IInv'
<1> USE DEF IInv, queues, flags, config, locks, main, mlocal, worker, wlocal
<1> DEFINE task == Head(mqueue)
<1>1. /\ UNCHANGED <<fresh, lost, pend, mtask, mpc>>
      /\ UNCHANGED <<wpc, wtask, wfinished>>
      /\ mpc = "handlers" /\ mqueue # <<>> /\ pend["main"] = NoTask
      /\ mqueue' = Tail(mqueue)
      /\ Held' = Held /\ InCallback' = InCallback /\ InHand' = InHand
  BY DEF RegularHandler, Held, InCallback, InHand
<1>2. wpc = "none" /\ impl_current = "regular"
  BY <1>1 DEF ThreadsAgree
<1>3. InHand = {}
  BY <1>2 DEF InHand
<1>4. /\ task \in Task /\ Tail(mqueue) \in Seq(Task)
      /\ ToSet(mqueue) = {task} \cup ToSet(Tail(mqueue))
      /\ IsInjective(Tail(mqueue)) /\ task \notin ToSet(Tail(mqueue))
  BY <1>1, HeadTailSet DEF TypeOK, TaskInOnePlace
<1>5. /\ finished' \in [Task -> BOOLEAN]
      /\ \A t \in Task : t # task => finished'[t] = finished[t]
  BY <1>4 DEF RegularHandler, TypeOK
<1>6. /\ task \notin fresh \cup Held
      /\ task \notin ToSet(tasks_running) \cup ToSet(tasks_finished)
      /\ task \notin InCallback
  BY <1>4 DEF TaskInOnePlace, Live, Queued
<1>7. /\ fresh \cup Held \subseteq Task /\ ToSet(mqueue) \subseteq Task
      /\ ToSet(tasks_running) \subseteq Task
      /\ ToSet(tasks_finished) \cup InCallback \subseteq Task
  BY LiveTyped DEF TypeOK, Live, Queued
<1>8. FinishedLocked'
  BY <1>1, <1>2 DEF FinishedLocked, RegularHandler
<1>9. CASE finished'[task]
  <2>1. /\ tasks_running' = tasks_running
        /\ tasks_finished' = Append(tasks_finished, task)
    BY <1>9 DEF RegularHandler, task_queue_put
  <2>2. /\ tasks_finished' \in Seq(Task)
        /\ ToSet(tasks_finished') = ToSet(tasks_finished) \cup {task}
        /\ IsInjective(tasks_finished')
    BY <2>1, <1>4, <1>6, AppendSet DEF TypeOK, TaskInOnePlace
  <2>3. TypeOK'
    BY <1>1, <1>4, <1>5, <2>1, <2>2 DEF TypeOK, WorkerHasTask, RegularHandler
  <2>4. ThreadsAgree'
    BY <1>1, <1>2, <1>5, <1>6, <1>7 DEF ThreadsAgree, RegularHandler
  <2>5. WorkerTaskIsFront'
    BY <1>1, <1>2 DEF WorkerTaskIsFront
  <2>6. Queued' = Queued \ {task} /\ Live' = Live
    BY <1>1, <1>3, <1>4, <1>6, <2>1, <2>2 DEF Queued, Live
  <2>7. TaskInOnePlace'
    BY <1>1, <1>3, <1>4, <1>6, <2>1, <2>2, <2>6 DEF TaskInOnePlace, Queued
  <2>8. FinishedFlagAgrees'
    BY <1>1, <1>2, <1>4, <1>5, <1>6, <1>7, <1>9, <2>1, <2>2
       DEF FinishedFlagAgrees
  <2> QED BY <2>3, <2>4, <2>5, <2>7, <2>8, <1>8
<1>10. CASE ~finished'[task]
  <2>1. /\ tasks_finished' = tasks_finished
        /\ tasks_running' = Append(tasks_running, task)
    BY <1>10 DEF RegularHandler, task_queue_put
  <2>2. /\ tasks_running' \in Seq(Task)
        /\ ToSet(tasks_running') = ToSet(tasks_running) \cup {task}
        /\ IsInjective(tasks_running')
    BY <2>1, <1>4, <1>6, AppendSet DEF TypeOK, TaskInOnePlace
  <2>3. TypeOK'
    BY <1>1, <1>4, <1>5, <2>1, <2>2 DEF TypeOK, WorkerHasTask, RegularHandler
  <2>4. ThreadsAgree'
    BY <1>1, <1>2, <1>5, <1>6, <1>7 DEF ThreadsAgree, RegularHandler
  <2>5. WorkerTaskIsFront'
    BY <1>1, <1>2 DEF WorkerTaskIsFront
  <2>6. Queued' = Queued /\ Live' = Live
    BY <1>1, <1>3, <1>4, <2>1, <2>2 DEF Queued, Live
  <2>7. TaskInOnePlace'
    BY <1>1, <1>3, <1>4, <2>1, <2>2, <2>6 DEF TaskInOnePlace
  <2>8. FinishedFlagAgrees'
    BY <1>1, <1>2, <1>4, <1>5, <1>6, <1>7, <1>10, <2>1, <2>2
       DEF FinishedFlagAgrees
  <2> QED BY <2>3, <2>4, <2>5, <2>7, <2>8, <1>8
<1> QED BY <1>9, <1>10

(* A finished task leaves its list for the callback ... *)
LEMMA CallbackStep == ASSUME IInv, Callback PROVE IInv'
<1> USE DEF IInv, queues, flags, config, locks, main, mlocal, worker, wlocal
<1> DEFINE task == Head(tasks_finished)
<1>1. /\ UNCHANGED <<tasks_running, fresh, lost, finished, pend, mqueue>>
      /\ UNCHANGED <<wpc, wtask, wfinished>>
      /\ mpc = "gather" /\ mpc' = "callback" /\ tasks_finished # <<>>
      /\ mtask' = task /\ tasks_finished' = Tail(tasks_finished)
      /\ Held' = Held /\ InHand' = InHand
  BY DEF Callback, Held, InHand
<1>2. /\ task \in Task /\ Tail(tasks_finished) \in Seq(Task)
      /\ ToSet(tasks_finished) = {task} \cup ToSet(Tail(tasks_finished))
      /\ IsInjective(Tail(tasks_finished))
      /\ task \notin ToSet(Tail(tasks_finished))
  BY <1>1, HeadTailSet DEF TypeOK, TaskInOnePlace
<1>3. InCallback = {} /\ InCallback' = {task}
  BY <1>1, <1>2 DEF InCallback, TypeOK
<1>4. TypeOK'
  BY <1>1, <1>2 DEF TypeOK, MainPlace, TaskOrNull, WorkerHasTask, Callback
<1>5. ThreadsAgree'
  BY <1>1, <1>2 DEF ThreadsAgree, Callback
<1>6. WorkerTaskIsFront'
  BY <1>1 DEF WorkerTaskIsFront
<1>7. Queued' = Queued /\ Live' = Live
  BY <1>1, <1>2, <1>3 DEF Queued, Live
<1>8. TaskInOnePlace'
  BY <1>1, <1>2, <1>3, <1>7 DEF TaskInOnePlace
<1>9. FinishedFlagAgrees'
  BY <1>1, <1>2, <1>3 DEF FinishedFlagAgrees
<1>10. FinishedLocked'
  BY <1>1 DEF FinishedLocked, Callback
<1> QED BY <1>4, <1>5, <1>6, <1>8, <1>9, <1>10

(* ... alone, or with those the worker linked behind it. *)
LEMMA GetUnlinkStep == ASSUME IInv, GetUnlink PROVE IInv'
<1> USE DEF IInv, queues, flags, config, locks, main, mlocal, worker, wlocal
<1> DEFINE task == Head(tasks_finished)
           rest == ToSet(Tail(tasks_finished))
<1>1. /\ UNCHANGED <<tasks_running, fresh, finished, pend, mqueue>>
      /\ UNCHANGED <<wpc, wtask, wfinished>>
      /\ mpc = "unlink" /\ mpc' = "callback"
      /\ mtask' = task /\ tasks_finished' = <<>> /\ lost' = lost \cup rest
      /\ Held' = Held /\ InHand' = InHand
  BY DEF GetUnlink, Held, InHand
<1>2. /\ task \in Task /\ rest \subseteq Task
      /\ ToSet(tasks_finished) = {task} \cup rest /\ task \notin rest
  BY <1>1, HeadTailSet, LiveTyped
     DEF TypeOK, TaskInOnePlace, FinishedLocked, Live
<1>3. InCallback = {} /\ InCallback' = {task}
  BY <1>1, <1>2 DEF InCallback, TypeOK
<1>4. /\ <<>> \in Seq(Task) /\ ToSet(<<>>) = {} /\ IsInjective(<<>>)
  BY EmptySeq DEF ToSet, IsInjective
<1> HIDE DEF task, rest
<1>5. TypeOK'
  BY <1>1, <1>2, <1>4 DEF TypeOK, MainPlace, TaskOrNull, WorkerHasTask, GetUnlink
<1>6. ThreadsAgree'
  BY <1>1, <1>2 DEF ThreadsAgree, GetUnlink
<1>7. WorkerTaskIsFront'
  BY <1>1 DEF WorkerTaskIsFront
<1>8. Queued' = Queued /\ Live' = Live \ rest /\ rest \subseteq Live
  BY <1>1, <1>2, <1>3, <1>4 DEF Queued, Live, TaskInOnePlace
<1>9. TaskInOnePlace'
  BY <1>1, <1>2, <1>3, <1>4, <1>8 DEF TaskInOnePlace
<1>10. FinishedFlagAgrees'
  BY <1>1, <1>2, <1>3, <1>4 DEF FinishedFlagAgrees
<1>11. FinishedLocked'
  BY <1>1 DEF FinishedLocked, GetUnlink
<1> QED BY <1>5, <1>6, <1>7, <1>9, <1>10, <1>11

(* ... after which it is freed. *)
LEMMA CallbackReturnStep == ASSUME IInv, CallbackReturn PROVE IInv'
<1> USE DEF IInv, queues, flags, config, locks, main, mlocal, worker, wlocal
<1>1. /\ UNCHANGED <<tasks_running, tasks_finished, fresh, lost, finished, pend, mqueue>>
      /\ UNCHANGED <<wpc, wtask, wfinished>>
      /\ mpc = "callback" /\ mpc' = "gather" /\ mtask' = NoTask
      /\ pend["main"] = NoTask
      /\ Held' = Held /\ InHand' = InHand /\ InCallback' = {}
  BY DEF CallbackReturn, Held, InHand, InCallback
<1>2. TypeOK'
  <2>1. cancelled' \in [Task -> BOOLEAN]
    BY DEF CallbackReturn, TypeOK
  <2> QED BY <1>1, <2>1
          DEF TypeOK, MainPlace, TaskOrNull, WorkerHasTask, CallbackReturn
<1>3. ThreadsAgree'
  BY <1>1 DEF ThreadsAgree, CallbackReturn
<1>4. WorkerTaskIsFront'
  BY <1>1 DEF WorkerTaskIsFront
<1>5. Queued' = Queued /\ Live' = Live \ InCallback
  BY <1>1 DEF Queued, Live, TaskInOnePlace
<1>6. TaskInOnePlace'
  BY <1>1, <1>5 DEF TaskInOnePlace
<1>7. FinishedFlagAgrees'
  BY <1>1 DEF FinishedFlagAgrees
<1>8. FinishedLocked'
  BY <1>1 DEF FinishedLocked, CallbackReturn
<1> QED BY <1>2, <1>3, <1>4, <1>6, <1>7, <1>8

(***************************************************************************)
(* Every step keeps the invariant.                                         *)
(***************************************************************************)
LEMMA NextIInv == IInv /\ [Next]_vars => IInv'
<1> SUFFICES ASSUME IInv, [Next]_vars PROVE IInv'
  OBVIOUS
<1> TRUE \in BOOLEAN /\ "main" \in Thread /\ "worker" \in Thread
  BY DEF Thread
<1>1. CASE Gather
  BY <1>1, ControlStep, RegularTakeStep, RegularHandlerStep, CallbackStep,
     GetUnlinkStep, CallbackReturnStep DEF Gather
<1>2. CASE MainGoesOn
  BY <1>1, <1>2, ControlStep, PushRunningStep DEF MainGoesOn
<1>3. CASE MainCalls
  BY <1>3, ControlStep, PushStep DEF MainCalls
<1>4. CASE WorkerGoesOn
  BY <1>4, ControlStep, WorkerFetchStep, WorkerHandlerStep, SetFinishedStep,
     ReadFinishedStep, WorkerRemoveStep, WorkerRequeueStep, WorkerLockStep,
     WorkerPutStep, WorkerUnlockStep, PushRunningStep
  DEF WorkerGoesOn, Worker
<1>5. CASE WorkerCalls
  BY <1>5, PushStep DEF WorkerCalls
<1>6. CASE WorkerSpuriousWakeup
  BY <1>6, ControlStep
<1>7. CASE UNCHANGED vars
  <2> USE <1>7 DEF vars, queues, flags, config, locks, main, mlocal, worker, wlocal
  <2>1. UNCHANGED placed
    BY DEF placed
  <2>2. Held' = Held /\ TypeOK'
    BY DEF IInv, TypeOK, Held, WorkerHasTask
  <2>3. ThreadsAgree'
    BY <2>2 DEF IInv, ThreadsAgree
  <2>4. FinishedLocked'
    BY DEF IInv, FinishedLocked
  <2> QED BY <2>1, <2>2, <2>3, <2>4, Unmoved DEF IInv
<1> QED BY <1>2, <1>3, <1>4, <1>5, <1>6, <1>7 DEF Next

(* The invariant holds in every reachable state. *)
LEMMA Inductive == Spec => []IInv
BY InitIInv, NextIInv, PTL DEF Spec

(* Types hold, and each lock is held only in the section that takes it,    *)
(* for any tasks and any number of switches of implementation.             *)
THEOREM TypesHold == Spec => []TypeOK
<1>1. IInv => TypeOK
  BY DEF IInv
<1> QED BY <1>1, Inductive, PTL

(* The task a handler ran for is still the first of tasks_running when the *)
(* worker unlinks it, whatever main did while running_lock was free.       *)
THEOREM WorkerTaskStaysFront == Spec => []WorkerTaskIsFront
<1>1. IInv => WorkerTaskIsFront
  BY DEF IInv
<1> QED BY <1>1, Inductive, PTL

(* Pushes, handlers, callbacks and changes of implementation never leave a *)
(* task in two places, so the callback and free of gather are safe.        *)
THEOREM NoTaskInTwoPlaces == Spec => []TaskInOnePlace
<1>1. IInv => TaskInOnePlace
  BY DEF IInv
<1> QED BY <1>1, Inductive, PTL

(* No handler runs after its task finished, no callback before, and the    *)
(* worker's early copy of task->finished is never stale.                   *)
THEOREM NoStaleFinishedFlag == Spec => []FinishedFlagAgrees
<1>1. IInv => FinishedFlagAgrees
  BY DEF IInv
<1> QED BY <1>1, Inductive, PTL

(* task_queue_deinit leaves no task in the hands of a worker.              *)
THEOREM DeinitKeepsTasks == Spec => []TasksStayOnHold
<1>1. IInv => TasksStayOnHold
  BY DEF IInv, ThreadsAgree, TasksStayOnHold
<1> QED BY <1>1, Inductive, PTL

(* While main tests whether to wait on, only that test moves it.           *)
LEMMA OnlyWaitTestLeavesIt ==
  ASSUME Next, mpc = "waittest", mpc' # "waittest" PROVE WaitTest
<1> USE DEF queues, flags, config, locks, main, mlocal, worker, wlocal
<1>1. ~WorkerGoesOn /\ ~WorkerCalls /\ ~WorkerSpuriousWakeup
  BY DEF WorkerGoesOn, Worker, WorkerCalls, WorkerSpuriousWakeup,
     task_queue_push, push_running, WorkerLoop, WorkerFetch, WorkerWoken,
     WorkerHandler, WorkerLockProperty, task_set_finished, WorkerReadFinished,
     WorkerRemove, WorkerRequeue, WorkerLockFinished, WorkerPut,
     WorkerUnlockFinished
<1>2. ~MainCalls
  BY DEF MainCalls, task_queue_push, task_queue_cancel_task, CanCall,
     task_queue_reset, RetrieveBegin, task_queue_wait, SetThreaded, TaskInit,
     DataDeinit, task_queue_check
<1>3. MainGoesOn => WaitTest
  BY DEF MainGoesOn, Gather, push_running, RetrieveEnd, WaitReturn,
     DeinitSignal, DeinitJoin, task_queue_init, RegularTake, RegularHandler,
     RegularHandled, GatherLockProperty, GatherProgress, GatherLockFinished,
     Callback, GetFront, GetUnlink, CallbackReturn, GatherEnd
<1> QED BY <1>1, <1>2, <1>3 DEF Next

(* task_queue_wait misses at most the task the worker has just unlinked.   *)
THEOREM WaitMissesAtMostOne == Spec => WaitMissesOnlyHand
<1>1. IInv /\ [Next]_vars =>
        [mpc = "waittest" /\ mpc' = "waited"
           => /\ Queued \subseteq InHand
              /\ pend["worker"] = NoTask]_vars
  <2> SUFFICES ASSUME IInv, Next, mpc = "waittest", mpc' = "waited"
               PROVE  Queued \subseteq InHand /\ pend["worker"] = NoTask
    OBVIOUS
  <2>1. WaitTest
    BY OnlyWaitTestLeavesIt
  <2>2. tasks_running = <<>> /\ mqueue = <<>>
    BY <2>1 DEF WaitTest, GatherStart, IInv, ThreadsAgree
  <2>3. ToSet(<<>>) = {}
    BY EmptySeq DEF ToSet
  <2> QED BY <2>2, <2>3 DEF Queued, IInv, ThreadsAgree, WorkerTaskIsFront
<1> QED BY <1>1, Inductive, PTL DEF Spec, WaitMissesOnlyHand

(* A cancel or reset misses at most the task the worker has just unlinked: *)
(* every other task that is alive gets the mark or has finished.           *)
THEOREM CancelMissesAtMostOne == Spec => CancelMissesOnlyHand
<1>1. IInv /\ [Next]_vars =>
        [\A t \in Task :
           task_queue_cancel_task(t) \/ (task_queue_reset /\ t \in Live) =>
             \/ cancelled'[t] \/ finished[t]
             \/ t \in InHand /\ impl_current = "threaded"]_vars
  <2> SUFFICES ASSUME IInv, NEW t \in Task,
                      task_queue_cancel_task(t) \/ (task_queue_reset /\ t \in Live),
                      ~finished[t], ~(t \in InHand /\ impl_current = "threaded")
               PROVE  cancelled'[t]
    OBVIOUS
  <2>1. InHand # {} => impl_current = "threaded"
    BY DEF InHand, IInv, ThreadsAgree
  <2>2. ToSet(<<>>) = {}
    BY EmptySeq DEF ToSet
  <2>3. ASSUME t \in Live, mqueue = <<>> \/ impl_current # "regular"
        PROVE  t \in ToSet(tasks_running)
    BY <2>1, <2>2, <2>3
       DEF Live, Queued, IInv, ThreadsAgree, FinishedFlagAgrees
  <2>4. CASE task_queue_reset /\ t \in Live
    <3>1. mqueue = <<>>
      BY <2>4 DEF task_queue_reset, IInv, ThreadsAgree
    <3>2. t \in ToSet(tasks_running)
      BY <3>1, <2>3, <2>4
    <3> QED BY <3>2, <2>4 DEF task_queue_reset
  <2>5. CASE task_queue_cancel_task(t)
    <3>1. t \in Live /\ cancelled \in [Task -> BOOLEAN]
      BY <2>5 DEF task_queue_cancel_task, IInv, TypeOK
    <3>2. impl_current = "regular" \/ t \in ToSet(tasks_running)
      BY <3>1, <2>3
    <3> QED BY <2>5, <3>1, <3>2 DEF task_queue_cancel_task
  <2> QED BY <2>4, <2>5
<1> QED BY <1>1, Inductive, PTL DEF Spec, CancelMissesOnlyHand

(***************************************************************************)
(* The refinement: what each step does to the phases of the tasks.         *)
(***************************************************************************)

(* A step that TaskLifecycle does not see. *)
Unseen == UNCHANGED <<phase, reinited>>

(* A task that stays where it is, as TaskLifecycle sees it. *)
LEMMA SamePhase ==
  ASSUME NEW u \in Task,
         u \in (fresh \cup Held)' <=> u \in (fresh \cup Held),
         u \in InCallback' <=> u \in InCallback,
         u \in (lost \cup Doomed)' <=> u \in (lost \cup Doomed),
         (u \in Live' <=> u \in Live) \/ u \in lost \cup Doomed,
         finished'[u] = finished[u]
  PROVE  phase'[u] = phase[u]
BY DEF phase

(* No task moves. *)
LEMMA SamePhases ==
  ASSUME (fresh \cup Held)' = fresh \cup Held, InCallback' = InCallback,
         (lost \cup Doomed)' = lost \cup Doomed,
         Live' = Live, finished' = finished, reinited' = reinited
  PROVE  Unseen
BY DEF phase, Unseen

(* One task moves and the others stay. *)
LEMMA OneMoves ==
  ASSUME NEW t \in Task, NEW from, NEW to, phase[t] = from, phase'[t] = to,
         \A u \in Task \ {t} : phase'[u] = phase[u], reinited' = reinited
  PROVE  Lifecycle!Move(t, from, to)
<1>1. phase' = [phase EXCEPT ![t] = to]
  <2>1. phase = [u \in Task |-> phase[u]] /\ phase' = [u \in Task |-> phase'[u]]
    BY DEF phase
  <2> HIDE DEF phase
  <2> QED BY <2>1
<1> QED BY <1>1 DEF Lifecycle!Move

(* No task is doomed but while main unlinks. *)
LEMMA SameDoomed ==
  ASSUME tasks_finished' = tasks_finished,
         \/ mpc' = mpc
         \/ mpc # "unlink" /\ (mpc' = "unlink" => Tail(tasks_finished) = <<>>)
  PROVE  Doomed' = Doomed
<1>1. ToSet(<<>>) = {}
  BY EmptySeq DEF ToSet
<1> QED BY <1>1 DEF Doomed

(* Steps of control move nothing. *)
LEMMA ControlPhases ==
  ASSUME IInv, NEW t, NEW b \in BOOLEAN,
         \/ RetrieveBegin \/ RetrieveEnd \/ RegularHandled
         \/ GatherLockProperty \/ GatherProgress \/ GatherLockFinished
         \/ GetFront \/ GatherEnd \/ task_queue_wait \/ WaitTest \/ WaitReturn
         \/ task_queue_reset \/ DataDeinit \/ task_queue_check
         \/ task_queue_cancel_task(t)
         \/ SetThreaded(b) \/ TaskInit(b)
         \/ WorkerLoop \/ WorkerSpuriousWakeup \/ WorkerWoken
         \/ DeinitSignal \/ DeinitJoin
         \/ WorkerFetch \/ WorkerHandler \/ WorkerReadFinished
         \/ WorkerLockProperty \/ WorkerLockFinished \/ WorkerUnlockFinished
         \/ UNCHANGED vars
  PROVE  Unseen
<1> USE DEF queues, flags, config, locks, main, mlocal, worker, wlocal
<1>1. UNCHANGED placed
  BY DEF placed, RetrieveBegin, RetrieveEnd, RegularHandled,
     GatherLockProperty, GatherProgress, GatherLockFinished, GetFront,
     GatherEnd, task_queue_wait, WaitTest, WaitReturn, task_queue_reset,
     DataDeinit, task_queue_check, task_queue_cancel_task, SetThreaded,
     TaskInit, WorkerLoop, WorkerSpuriousWakeup, WorkerWoken, DeinitSignal,
     DeinitJoin, WorkerFetch, WorkerHandler, WorkerReadFinished,
     WorkerLockProperty, WorkerLockFinished, WorkerUnlockFinished, vars
<1>2. \/ wpc' = wpc /\ wtask' = wtask
      \/ wpc \notin {"update", "put"} /\ wpc' \notin {"update", "put"}
      \/ wpc = "update" /\ wpc' = "put" /\ wtask' = wtask
  BY DEF RetrieveBegin, RetrieveEnd, RegularHandled,
     GatherLockProperty, GatherProgress, GatherLockFinished, GetFront,
     GatherEnd, task_queue_wait, WaitTest, WaitReturn, task_queue_reset,
     DataDeinit, task_queue_check, task_queue_cancel_task, SetThreaded,
     TaskInit, WorkerLoop, WorkerSpuriousWakeup, WorkerWoken, DeinitSignal,
     DeinitJoin, WorkerFetch, WorkerHandler, WorkerReadFinished,
     WorkerLockProperty, WorkerLockFinished, WorkerUnlockFinished, EndOfTurn, vars, Signalled
<1>3. Held' = Held /\ InCallback' = InCallback /\ InHand' = InHand
  BY <1>1, <1>2 DEF placed, Held, InCallback, InHand
<1>4. Live' = Live
  BY <1>1, <1>3 DEF placed, Live, Queued
<1>5. \/ mpc' = mpc
      \/ mpc # "unlink" /\ (mpc' = "unlink" => Tail(tasks_finished) = <<>>)
  BY DEF RetrieveBegin, RetrieveEnd, RegularHandled,
     GatherLockProperty, GatherProgress, GatherLockFinished, GetFront,
     GatherEnd, task_queue_wait, WaitTest, WaitReturn, task_queue_reset,
     DataDeinit, task_queue_check, task_queue_cancel_task, SetThreaded,
     TaskInit, WorkerLoop, WorkerSpuriousWakeup, WorkerWoken, DeinitSignal,
     DeinitJoin, WorkerFetch, WorkerHandler, WorkerReadFinished,
     WorkerLockProperty, WorkerLockFinished, WorkerUnlockFinished, vars, CanCall, GatherStart, Caller,
     task_queue_deinit, DeinitStart, GetUndisturbed
<1>6. Doomed' = Doomed
  BY <1>1, <1>5, SameDoomed DEF placed
<1>7. reinited' = reinited
  BY DEF RetrieveBegin, RetrieveEnd, RegularHandled,
     GatherLockProperty, GatherProgress, GatherLockFinished, GetFront,
     GatherEnd, task_queue_wait, WaitTest, WaitReturn, task_queue_reset,
     DataDeinit, task_queue_check, task_queue_cancel_task, SetThreaded,
     TaskInit, WorkerLoop, WorkerSpuriousWakeup, WorkerWoken, DeinitSignal,
     DeinitJoin, WorkerFetch, WorkerHandler, WorkerReadFinished,
     WorkerLockProperty, WorkerLockFinished, WorkerUnlockFinished, vars
<1> QED BY <1>1, <1>3, <1>4, <1>6, <1>7, SamePhases DEF placed

(* Starting a worker in the callback of a task is the step Reinit. *)
LEMMA InitPhases ==
  ASSUME IInv, task_queue_init
  PROVE  Unseen \/ \E t \in Task : Lifecycle!Reinit(t)
<1> USE DEF queues, flags, config, locks, main, mlocal, worker, wlocal
<1>1. UNCHANGED placed /\ wtask' = wtask
  BY DEF placed, task_queue_init
<1>2. wpc \notin {"update", "put"} /\ wpc' \notin {"update", "put"}
  BY DEF task_queue_init, IInv, ThreadsAgree
<1>3. Held' = Held /\ InCallback' = InCallback /\ InHand' = InHand
  BY <1>1, <1>2 DEF placed, Held, InCallback, InHand
<1>4. Live' = Live
  BY <1>1, <1>3 DEF placed, Live, Queued
<1>5. mpc # "unlink" /\ mpc' # "unlink"
  BY DEF task_queue_init, Caller
<1>6. Doomed' = Doomed
  BY <1>1, <1>5, SameDoomed DEF placed
<1>7. phase' = phase
  BY <1>1, <1>3, <1>4, <1>6 DEF placed, phase
<1>8. CASE reinited' = reinited
  BY <1>7, <1>8 DEF Unseen
<1>9. CASE reinited' # reinited
  <2>1. reinited' = TRUE /\ mtask # NoTask
    <3>1. /\ reinited \in BOOLEAN
          /\ reinited' = (reinited \/ (WantThreaded /\ mtask # NoTask))
      BY DEF task_queue_init, IInv, TypeOK
    <3> QED BY <1>9, <3>1, Zenon
  <2>2. mtask \in Task /\ InCallback = {mtask}
    BY <2>1 DEF IInv, TypeOK, TaskOrNull, InCallback
  <2>3. phase[mtask] = "delivering"
    BY <2>2 DEF phase, IInv, TaskInOnePlace, Live
  <2> QED BY <1>7, <2>1, <2>2, <2>3 DEF Lifecycle!Reinit
<1> QED BY <1>8, <1>9

(* The worker's operations on tasks_running keep its task as it is. *)
LEMMA WorkerListPhases ==
  ASSUME IInv, WorkerRemove \/ WorkerRequeue
  PROVE  Unseen
<1> USE DEF queues, flags, config, locks, main, mlocal, worker, wlocal
<1>1. /\ UNCHANGED <<tasks_finished, fresh, lost, pend, mtask, mqueue, finished>>
      /\ UNCHANGED <<mpc, reinited>>
  BY DEF WorkerRemove, WorkerRequeue
<1>2. Held' = Held /\ InCallback' = InCallback /\ Doomed' = Doomed
  BY <1>1, SameDoomed DEF Held, InCallback
<1>3. CASE WorkerRemove
  <2>1. wtask \in Task /\ tasks_running # <<>> /\ Head(tasks_running) = wtask
    BY <1>3 DEF IInv, TypeOK, WorkerHasTask, WorkerTaskIsFront, WorkerRemove
  <2>2. tasks_running' = Tail(tasks_running)
    BY <1>3, <2>1 DEF WorkerRemove, task_queue_remove
  <2>3. ToSet(tasks_running) = {wtask} \cup ToSet(tasks_running')
    BY <2>1, <2>2, HeadTailSet DEF IInv, TypeOK
  <2>4. InHand = {} /\ InHand' = {wtask}
    BY <1>3 DEF WorkerRemove, InHand
  <2>5. Live' = Live
    BY <1>1, <1>2, <2>3, <2>4 DEF Live, Queued
  <2> QED BY <1>1, <1>2, <2>5, SamePhases
<1>4. CASE WorkerRequeue
  <2>1. wtask \in Task /\ tasks_running' = Append(tasks_running, wtask)
    BY <1>4 DEF IInv, TypeOK, WorkerHasTask, WorkerRequeue, task_queue_put
  <2>2. ToSet(tasks_running') = ToSet(tasks_running) \cup {wtask}
    BY <2>1, AppendSet DEF IInv, TypeOK
  <2>3. InHand = {wtask} /\ InHand' = {}
    BY <1>4 DEF WorkerRequeue, InHand, EndOfTurn
  <2>4. Live' = Live
    BY <1>1, <1>2, <2>2, <2>3 DEF Live, Queued
  <2> QED BY <1>1, <1>2, <2>4, SamePhases
<1> QED BY <1>3, <1>4

(* What is behind the first element after an append. *)
LEMMA TailAppendSet ==
  ASSUME NEW S, NEW s \in Seq(S), s # <<>>, NEW e \in S
  PROVE  ToSet(Tail(Append(s, e))) = ToSet(Tail(s)) \cup {e}
<1>1. Tail(s) \in Seq(S) /\ Tail(Append(s, e)) = Append(Tail(s), e)
  <2>1. Tail(s) \in Seq(S)
    BY HeadTailProperties
  <2>2. Tail(Append(s, e)) = Append(Tail(s), e)
    BY HeadTailAppend, Zenon
  <2> QED BY <2>1, <2>2
<1>2. PICK rest \in Seq(S) : rest = Tail(s)
  BY <1>1
<1>3. ToSet(Append(rest, e)) = ToSet(rest) \cup {e}
  BY AppendSet
<1> QED BY <1>1, <1>2, <1>3

(* A task put in tasks_finished behind one that main is unlinking is lost; *)
(* otherwise it stays finished.                                            *)
LEMMA WorkerPutPhases ==
  ASSUME IInv, WorkerPut
  PROVE  Unseen \/ \E t \in Task : Lifecycle!Lose(t)
<1> USE DEF queues, flags, config, locks, main, mlocal, worker, wlocal
<1>1. /\ UNCHANGED <<tasks_running, fresh, lost, pend, mtask, mqueue, finished>>
      /\ UNCHANGED <<mpc, reinited, wtask>> /\ wpc = "put" /\ wpc' = "unlock"
      /\ tasks_finished' = Append(tasks_finished, wtask)
  BY DEF WorkerPut, task_queue_put
<1>2. Held' = Held /\ InCallback' = InCallback
  BY <1>1 DEF Held, InCallback
<1>3. InHand = {wtask} /\ InHand' = {} /\ wtask \in Task
  BY <1>1 DEF IInv, TypeOK, WorkerHasTask, InHand
<1>4. ToSet(tasks_finished') = ToSet(tasks_finished) \cup {wtask}
  BY <1>1, <1>3, AppendSet DEF IInv, TypeOK
<1>5. Live' = Live
  BY <1>1, <1>2, <1>3, <1>4 DEF Live, Queued
<1>6. CASE mpc # "unlink"
  <2>1. Doomed' = Doomed
    BY <1>1, <1>6 DEF Doomed
  <2> QED BY <1>1, <1>2, <1>5, <2>1, SamePhases
<1>7. CASE mpc = "unlink"
  <2>1. tasks_finished # <<>> /\ reinited
    BY <1>7 DEF IInv, FinishedLocked
  <2>2. Doomed' = Doomed \cup {wtask}
    BY <1>1, <1>3, <1>7, <2>1, TailAppendSet DEF Doomed, IInv, TypeOK
  <2>3. Doomed \subseteq ToSet(tasks_finished)
    BY <1>7, <2>1, HeadTailSet DEF Doomed, IInv, TypeOK
  <2>4. /\ wtask \in Live /\ wtask \notin fresh \cup Held \cup InCallback
        /\ wtask \notin lost \cup Doomed /\ finished[wtask]
    BY <1>1, <1>3, <2>3
       DEF IInv, TaskInOnePlace, FinishedFlagAgrees, Live, Queued
  <2>5. phase[wtask] = "finished" /\ phase'[wtask] = "lost"
    BY <1>1, <1>2, <1>3, <2>2, <2>4 DEF phase
  <2>6. \A u \in Task \ {wtask} : phase'[u] = phase[u]
    BY <1>1, <1>2, <1>5, <2>2, SamePhase
  <2>7. Lifecycle!Lose(wtask)
    BY <1>1, <1>3, <2>1, <2>5, <2>6, OneMoves DEF Lifecycle!Lose
  <2> QED BY <1>3, <2>7
<1> QED BY <1>6, <1>7

(* The doomed tasks are still linked. *)
LEMMA DoomedFinished == ASSUME IInv PROVE Doomed \subseteq ToSet(tasks_finished)
BY HeadTailSet DEF IInv, TypeOK, FinishedLocked, Doomed

(* task_set_finished is the step Finish. *)
LEMMA SetFinishedPhases ==
  ASSUME IInv, task_set_finished
  PROVE  Lifecycle!Finish(wtask) /\ wtask \in Task
<1> USE DEF queues, flags, config, locks, main, mlocal, worker, wlocal
<1>1. /\ UNCHANGED <<tasks_running, tasks_finished, fresh, pend, mqueue, mtask>>
      /\ wpc = "setting" /\ wpc' = "readfinished"
      /\ finished' = [finished EXCEPT ![wtask] = TRUE]
      /\ UNCHANGED <<lost, mpc, reinited>>
  BY DEF task_set_finished
<1>2. /\ Held' = Held /\ InCallback' = InCallback
      /\ InHand = {} /\ InHand' = {} /\ Doomed' = Doomed
  BY <1>1, SameDoomed DEF Held, InCallback, InHand
<1>3. Live' = Live
  BY <1>1, <1>2 DEF Live, Queued
<1>4. wtask \in Task /\ tasks_running # <<>> /\ Head(tasks_running) = wtask
  BY <1>1 DEF IInv, TypeOK, WorkerHasTask, WorkerTaskIsFront
<1>5. wtask \in ToSet(tasks_running)
  BY <1>4, HeadTailSet DEF IInv, TypeOK
<1>6. wtask \in Live /\ wtask \notin fresh \cup Held /\ wtask \notin InCallback
  BY <1>5 DEF IInv, TaskInOnePlace, Live, Queued
<1>7. ~finished[wtask] /\ finished'[wtask]
  BY <1>1, <1>4, <1>5 DEF IInv, TypeOK, FinishedFlagAgrees
<1>8. wtask \notin lost \cup Doomed
  BY <1>5, <1>6, DoomedFinished DEF IInv, TaskInOnePlace, Queued
<1>9. phase[wtask] = "accepted" /\ phase'[wtask] = "finished"
  BY <1>1, <1>2, <1>3, <1>4, <1>6, <1>7, <1>8 DEF phase
<1>10. \A u \in Task \ {wtask} : phase'[u] = phase[u]
  BY <1>1, <1>2, <1>3, SamePhase DEF IInv, TypeOK
<1> QED BY <1>1, <1>4, <1>9, <1>10, OneMoves DEF Lifecycle!Finish

(* task_queue_push checks; the task is accepted by push_running. *)
LEMMA PushPhases ==
  ASSUME IInv, NEW th \in Thread, NEW task \in Task, task_queue_push(th, task)
  PROVE  Unseen
<1> USE DEF queues, flags, config, locks, main, mlocal, worker, wlocal
<1>1. /\ UNCHANGED <<tasks_running, tasks_finished, lost, finished, mqueue, mtask>>
      /\ UNCHANGED <<wpc, wtask, mpc, reinited>>
      /\ pend[th] = NoTask /\ task \in fresh /\ fresh' = fresh \ {task}
      /\ pend' = [pend EXCEPT ![th] = task] /\ task # NoTask
  BY DEF task_queue_push, CanCall
<1>2. Held' = Held \cup {task}
  BY <1>1 DEF IInv, TypeOK, Held, Thread
<1>3. InHand' = InHand /\ InCallback' = InCallback /\ Live' = Live
  BY <1>1 DEF InHand, InCallback, Queued, Live
<1>4. (fresh \cup Held)' = fresh \cup Held
  BY <1>1, <1>2
<1>5. Doomed' = Doomed
  BY <1>1, SameDoomed
<1> QED BY <1>1, <1>3, <1>4, <1>5, SamePhases

LEMMA PushRunningPhases ==
  ASSUME IInv, NEW th \in Thread, push_running(th)
  PROVE  Lifecycle!Accept(pend[th]) /\ pend[th] \in Task
<1> USE DEF queues, flags, config, locks, main, mlocal, worker, wlocal
<1> DEFINE task == pend[th]
<1>1. /\ UNCHANGED <<tasks_finished, fresh, lost, finished, mqueue, mtask>>
      /\ UNCHANGED <<wtask, mpc, reinited>> /\ wpc' = Signalled(wpc)
      /\ task # NoTask /\ pend' = [pend EXCEPT ![th] = NoTask]
      /\ tasks_running' = Append(tasks_running, task)
  BY DEF push_running, task_queue_put
<1>2. task \in Task /\ task \in Held /\ Held' = Held \ {task}
  BY <1>1 DEF IInv, TypeOK, TaskOrNull, Held, Thread, TaskInOnePlace
<1>3. InHand' = InHand /\ InCallback' = InCallback /\ Doomed' = Doomed
  BY <1>1, SameDoomed DEF InHand, InCallback, Signalled
<1>4. ToSet(tasks_running') = ToSet(tasks_running) \cup {task}
  BY <1>1, <1>2, AppendSet DEF IInv, TypeOK
<1>5. Live' = Live \cup {task}
  BY <1>1, <1>3, <1>4 DEF Live, Queued
<1>6. /\ ~finished[task] /\ task \notin fresh /\ task \notin InCallback
      /\ task \notin Live /\ task \notin lost \cup Doomed
  BY <1>2, DoomedFinished DEF IInv, ThreadsAgree, TaskInOnePlace, Live
<1> HIDE DEF task
<1>7. phase[task] = "new" /\ phase'[task] = "accepted"
  BY <1>1, <1>2, <1>3, <1>5, <1>6 DEF phase
<1>8. \A u \in Task \ {task} : phase'[u] = phase[u]
  BY <1>1, <1>2, <1>3, <1>5, SamePhase
<1>9. Lifecycle!Accept(task)
  BY <1>1, <1>2, <1>7, <1>8, OneMoves DEF Lifecycle!Accept
<1> QED BY <1>2, <1>9 DEF task

(* The regular gather takes the list apart and finishes or re-queues. *)
LEMMA RegularTakePhases == ASSUME IInv, RegularTake PROVE Unseen
<1> USE DEF queues, flags, config, locks, main, mlocal, worker, wlocal
<1>1. /\ UNCHANGED <<tasks_finished, fresh, lost, finished, pend, mtask>>
      /\ UNCHANGED <<wpc, wtask, reinited>>
      /\ mpc = "take" /\ mpc' = "handlers" /\ tasks_running' = <<>>
      /\ mqueue' = Reverse(tasks_running)
  BY DEF RegularTake
<1>2. /\ Held' = Held /\ InCallback' = InCallback /\ InHand' = InHand
      /\ Doomed' = Doomed
  BY <1>1, SameDoomed DEF Held, InCallback, InHand
<1>3. mqueue = <<>> /\ ToSet(<<>>) = {}
  BY <1>1, EmptySeq DEF IInv, ThreadsAgree, ToSet
<1>4. ToSet(mqueue') = ToSet(tasks_running)
  BY <1>1, ReverseSet DEF IInv, TypeOK
<1>5. Live' = Live
  BY <1>1, <1>2, <1>3, <1>4 DEF Live, Queued
<1> QED BY <1>1, <1>2, <1>5, SamePhases

LEMMA RegularHandlerPhases ==
  ASSUME IInv, RegularHandler
  PROVE  Unseen \/ \E t \in Task : Lifecycle!Finish(t)
<1> USE DEF queues, flags, config, locks, main, mlocal, worker, wlocal
<1> DEFINE task == Head(mqueue)
<1>1. /\ UNCHANGED <<fresh, lost, pend, mtask, wpc, wtask, reinited>>
      /\ mpc = "handlers" /\ mpc' = mpc
      /\ mqueue # <<>> /\ mqueue' = Tail(mqueue)
      /\ Held' = Held /\ InCallback' = InCallback /\ InHand' = InHand
      /\ Doomed = {} /\ Doomed' = {}
  BY DEF RegularHandler, Held, InCallback, InHand, Doomed
<1>2. /\ task \in Task /\ ToSet(mqueue) = {task} \cup ToSet(mqueue')
  BY <1>1, HeadTailSet DEF IInv, TypeOK
<1>3. PICK done \in BOOLEAN :
        /\ finished' = [finished EXCEPT ![task] = @ \/ done]
        /\ IF finished'[task]
             THEN /\ tasks_finished' = Append(tasks_finished, task)
                  /\ UNCHANGED tasks_running
             ELSE /\ tasks_running' = Append(tasks_running, task)
                  /\ UNCHANGED tasks_finished
  BY DEF RegularHandler, task_queue_put
<1>4. ~finished[task] /\ finished \in [Task -> BOOLEAN]
  BY <1>2 DEF IInv, FinishedFlagAgrees, TypeOK
<1>5. /\ task \in Live /\ task \notin fresh \cup Held
      /\ task \notin InCallback /\ task \notin lost
  BY <1>2 DEF IInv, TaskInOnePlace, Live, Queued
<1>6. /\ ToSet(Append(tasks_running, task)) = ToSet(tasks_running) \cup {task}
      /\ ToSet(Append(tasks_finished, task)) = ToSet(tasks_finished) \cup {task}
  BY <1>2, AppendSet DEF IInv, TypeOK
<1> HIDE DEF task
<1>7. Live' = Live
  BY <1>1, <1>2, <1>3, <1>6 DEF Live, Queued
<1>8. CASE done
  <2>1. finished'[task]
    BY <1>2, <1>3, <1>4, <1>8
  <2>2. phase[task] = "accepted" /\ phase'[task] = "finished"
    BY <1>1, <1>2, <1>4, <1>5, <1>7, <2>1 DEF phase
  <2>3. \A u \in Task \ {task} : phase'[u] = phase[u]
    BY <1>1, <1>3, <1>4, <1>7, SamePhase
  <2> QED BY <1>1, <1>2, <2>2, <2>3, OneMoves DEF Lifecycle!Finish
<1>9. CASE ~done
  <2>1. finished' = finished
    BY <1>2, <1>3, <1>4, <1>9
  <2> QED BY <1>1, <1>7, <2>1, SamePhases
<1> QED BY <1>8, <1>9

(* Gathering one finished task is the step Deliver, returning from its     *)
(* callback the step Free.                                                 *)
LEMMA CallbackPhases ==
  ASSUME IInv, Callback PROVE \E t \in Task : Lifecycle!Deliver(t)
<1> USE DEF queues, flags, config, locks, main, mlocal, worker, wlocal
<1> DEFINE task == Head(tasks_finished)
<1>1. /\ UNCHANGED <<tasks_running, fresh, lost, finished, pend, mqueue>>
      /\ UNCHANGED <<wpc, wtask, reinited>>
      /\ mpc = "gather" /\ tasks_finished # <<>>
      /\ mtask' = task /\ tasks_finished' = Tail(tasks_finished)
      /\ Held' = Held /\ InHand' = InHand
      /\ Doomed = {} /\ Doomed' = {}
  BY DEF Callback, Held, InHand, Doomed
<1>2. /\ task \in Task /\ task \notin ToSet(tasks_finished')
      /\ ToSet(tasks_finished) = {task} \cup ToSet(tasks_finished')
  BY <1>1, HeadTailSet DEF IInv, TypeOK, TaskInOnePlace
<1>3. InCallback = {} /\ InCallback' = {task}
  BY <1>1, <1>2 DEF IInv, TypeOK, InCallback
<1>4. /\ finished[task] /\ task \in Live
      /\ task \notin fresh \cup Held \cup lost
  BY <1>2 DEF IInv, FinishedFlagAgrees, TaskInOnePlace, Live
<1> HIDE DEF task
<1>5. Live' = Live
  BY <1>1, <1>2, <1>3 DEF Live, Queued
<1>6. phase[task] = "finished" /\ phase'[task] = "delivering"
  BY <1>1, <1>2, <1>3, <1>4, <1>5 DEF phase
<1>7. \A u \in Task \ {task} : phase'[u] = phase[u]
  BY <1>1, <1>3, <1>5, SamePhase
<1> QED BY <1>1, <1>2, <1>6, <1>7, OneMoves DEF Lifecycle!Deliver

(* So is unlinking one whose successors are lost. *)
LEMMA GetUnlinkPhases ==
  ASSUME IInv, GetUnlink PROVE \E t \in Task : Lifecycle!Deliver(t)
<1> USE DEF queues, flags, config, locks, main, mlocal, worker, wlocal
<1> DEFINE task == Head(tasks_finished)
<1>1. /\ UNCHANGED <<tasks_running, fresh, finished, pend, mqueue>>
      /\ UNCHANGED <<wpc, wtask, reinited>>
      /\ mpc = "unlink" /\ mtask' = task /\ tasks_finished' = <<>>
      /\ lost' = lost \cup Doomed /\ Doomed' = {}
      /\ Held' = Held /\ InHand' = InHand
  BY DEF GetUnlink, Held, InHand, Doomed
<1>2. /\ task \in Task /\ task \notin Doomed
      /\ ToSet(tasks_finished) = {task} \cup Doomed
  BY <1>1, HeadTailSet DEF IInv, TypeOK, TaskInOnePlace, FinishedLocked, Doomed
<1>3. InCallback = {} /\ InCallback' = {task}
  BY <1>1, <1>2 DEF IInv, TypeOK, InCallback
<1>4. /\ finished[task] /\ task \in Live
      /\ task \notin fresh \cup Held \cup lost
  BY <1>2 DEF IInv, FinishedFlagAgrees, TaskInOnePlace, Live
<1>5. ToSet(<<>>) = {}
  BY EmptySeq DEF ToSet
<1> HIDE DEF task
<1>6. \A u \in Task : u \notin Doomed => (u \in Live' <=> u \in Live)
  BY <1>1, <1>2, <1>3, <1>5 DEF Live, Queued
<1>7. phase[task] = "finished" /\ phase'[task] = "delivering"
  BY <1>1, <1>2, <1>3, <1>4 DEF phase
<1>8. \A u \in Task \ {task} : phase'[u] = phase[u]
  BY <1>1, <1>3, <1>6, SamePhase
<1> QED BY <1>1, <1>2, <1>7, <1>8, OneMoves DEF Lifecycle!Deliver

LEMMA CallbackReturnPhases ==
  ASSUME IInv, CallbackReturn PROVE \E t \in Task : Lifecycle!Free(t)
<1> USE DEF queues, flags, config, locks, main, mlocal, worker, wlocal
<1>1. /\ UNCHANGED <<tasks_running, tasks_finished, fresh, lost, finished, pend,
                     mqueue, wpc, wtask, reinited>>
      /\ mpc = "callback" /\ mtask' = NoTask
      /\ Held' = Held /\ InHand' = InHand /\ InCallback' = {}
      /\ Doomed = {} /\ Doomed' = {}
  BY DEF CallbackReturn, Held, InHand, InCallback, Doomed
<1>2. mtask \in Task /\ InCallback = {mtask}
  BY <1>1 DEF IInv, ThreadsAgree, TypeOK, TaskOrNull, InCallback
<1>3. Queued' = Queued /\ Live' = Live \ {mtask}
  BY <1>1, <1>2 DEF IInv, TaskInOnePlace, Live, Queued
<1>4. mtask \notin fresh \cup Held \cup lost
  BY <1>2 DEF IInv, TaskInOnePlace, Live
<1>5. phase[mtask] = "delivering" /\ phase'[mtask] = "freed"
  BY <1>1, <1>2, <1>3, <1>4 DEF phase
<1>6. \A u \in Task \ {mtask} : phase'[u] = phase[u]
  BY <1>1, <1>2, <1>3, SamePhase
<1> QED BY <1>1, <1>2, <1>5, <1>6, OneMoves DEF Lifecycle!Free

LEMMA StepPhases == IInv /\ [Next]_vars => [Lifecycle!Next]_<<phase, reinited>>
<1> SUFFICES ASSUME IInv, [Next]_vars
             PROVE  \/ Unseen
                    \/ \E t \in Task : \/ Lifecycle!Accept(t)
                                       \/ Lifecycle!Finish(t)
                                       \/ Lifecycle!Deliver(t)
                                       \/ Lifecycle!Free(t)
                                       \/ Lifecycle!Reinit(t)
                                       \/ Lifecycle!Lose(t)
  BY DEF Lifecycle!Next, Unseen
<1> TRUE \in BOOLEAN /\ "main" \in Thread /\ "worker" \in Thread
  BY DEF Thread
<1>1. CASE Gather
  BY <1>1, ControlPhases, RegularTakePhases, RegularHandlerPhases,
     CallbackPhases, GetUnlinkPhases, CallbackReturnPhases DEF Gather
<1>2. CASE MainGoesOn
  BY <1>1, <1>2, ControlPhases, InitPhases, PushRunningPhases DEF MainGoesOn
<1>3. CASE MainCalls
  BY <1>3, ControlPhases, PushPhases DEF MainCalls
<1>4. CASE WorkerGoesOn
  BY <1>4, ControlPhases, WorkerListPhases, SetFinishedPhases,
     WorkerPutPhases, PushRunningPhases DEF WorkerGoesOn, Worker
<1>5. CASE WorkerCalls
  BY <1>5, PushPhases DEF WorkerCalls
<1>6. CASE WorkerSpuriousWakeup \/ UNCHANGED vars
  BY <1>6, ControlPhases
<1> QED BY <1>2, <1>3, <1>4, <1>5, <1>6 DEF Next

(* Both implementations of the task system and every switch between them   *)
(* implement TaskLifecycle: a task pushed is accepted, finished, delivered *)
(* to its callback once and then freed, in this order, and is lost only    *)
(* when a callback has started a new worker.                               *)
THEOREM TaskQueueRefinesLifecycle == Spec => ImplementsLifecycle
<1>1. Init => Lifecycle!Init
  BY DEF Init, Lifecycle!Init, phase
<1> QED BY <1>1, StepPhases, Inductive, PTL
        DEF Spec, ImplementsLifecycle, Lifecycle!Spec

=============================================================================
