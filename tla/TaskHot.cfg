SPECIFICATION Spec
CONSTANTS
  t1 = t1
  t2 = t2
  Tasks = {t1}
  Msgs = {m1}
  Hot <- First
  Closing <- First
  Restoring <- NoTasks
  Nobody = Nobody
INVARIANTS AwaitedWillCome
