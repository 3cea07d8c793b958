SPECIFICATION FairSpec
CONSTANTS
  Task = {t1, t2, t3}
  Blocking = {t1}
  SameUrl = {t2,t3}
  LoadsContent = {t1}
  NoTask = NoTask
  MaxReconfig = 2
INVARIANTS WorkerTaskIsFront TaskInOnePlace
PROPERTIES  ImplementsLifecycle
PROPERTIES FinishedIsDelivered EveryTaskGetsItsTurn
PROPERTIES CallsReturn
CHECK_DEADLOCK FALSE
