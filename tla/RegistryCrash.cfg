SPECIFICATION Spec
CONSTANTS
  Urls = {u1, u2}
  Expiring = {u2}
  MaxNr = 3
  Nrchkpt = 1
  MaxFailures = 0
PROPERTY KeepsItsFile
