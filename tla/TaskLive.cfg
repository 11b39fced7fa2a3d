SPECIFICATION FairSpec
CONSTANTS
  t1 = t1
  t2 = t2
  Tasks = {t1, t2}
  Msgs = {m1}
  Hot <- First
  Closing <- Second
  Restoring <- NoTasks
  Nobody = Nobody
PROPERTIES UpdateReturns DisposalEnds MainReturns
