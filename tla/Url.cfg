SPECIFICATION Spec
CONSTANTS
  Urls = {u1, u2}
  Posts <- NoPosts
  Kept = {u1}
  Expiring = {u1}
  Loads <- Views
  Prefs <- Both
  MaxDisk = 1
  MaxLoads = 2
  MaxFailures = 0
  MaxHops = 3
PROPERTIES StuckHasReason
INVARIANTS TypeOK OneTransfer OneOwner NoOrphans
CHECK_DEADLOCK FALSE
