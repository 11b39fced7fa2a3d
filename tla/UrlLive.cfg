SPECIFICATION FairSpec
CONSTANTS
  Urls = {u1, u2, u3, u4}
  Posts = {u3, u4}
  Kept = {u1}
  Expiring = {}
  Loads <- OtherLoads
  Prefs <- Slow
  MaxDisk = 1
  MaxLoads = 1
  MaxFailures = 1
  MaxHops = 3
PROPERTIES RedirectionsEnd StuckHasReason
INVARIANTS OneOwner
CHECK_DEADLOCK FALSE
