SPECIFICATION FairSpec
CONSTANTS
  Fetches = {f1, f2, f3}
  Loads <- PageLoads
  MaxLimit = 1
  WaitRequests <- NoWaits
  Updates = {"postnogood"}
PROPERTIES QueuedDocumentStarts DisposedIsFreed ImplementsPool
