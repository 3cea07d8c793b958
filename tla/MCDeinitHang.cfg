SPECIFICATION FairSpec
CONSTANTS
  Task = {t1, t2}
  Blocking = {}
  SameUrl = {}
  LoadsContent = {}
  NoTask = NoTask
  MaxReconfig = 2
PROPERTY DeinitReturns
