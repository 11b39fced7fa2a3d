SPECIFICATION Spec
CONSTANTS
  Fetches = {f1, f2}
  Loads <- NetLoads
  MaxLimit = 1
  WaitRequests <- NoWaits
  Updates <- AllUpdates
PROPERTIES CancelledIsDisposed
