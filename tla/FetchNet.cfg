SPECIFICATION Spec
CONSTANTS
  Fetches = {f1, f2, f3}
  Loads <- NetLoads
  MaxLimit = 2
  WaitRequests <- DocWaits
  Updates = {"data", "notmodified"}
SYMMETRY Symmetry
INVARIANTS
  TypeOK SlotAccounting DocumentsFirst QueueNeverStuck
  OneList OwnerNeverDangles NoneForgotten WaitsHaveReason
PROPERTIES NeverOverLimit
