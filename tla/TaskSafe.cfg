SPECIFICATION Spec
CONSTANTS
  t1 = t1
  t2 = t2
  Tasks = {t1, t2}
  Msgs = {m1, m2, m3}
  Hot <- First
  Closing <- Second
  Restoring <- Second
  Nobody = Nobody
SYMMETRY Symmetry
INVARIANTS TypeOK NoLostWakeup NoLostGrant OnePlace FreedIsForgotten NotStoppedInHandler AwaitedWillCome
