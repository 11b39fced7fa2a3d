SPECIFICATION Spec
CONSTANTS
  Urls = {u1, u2}
  Expiring = {u2}
  MaxNr = 2
  Nrchkpt = 1
  MaxFailures = 2
INVARIANTS TypeOK NeverCorrupt WritesOwnFile ReadsWhatIsRegistered
PROPERTIES StaysReadable StaysRegistered
