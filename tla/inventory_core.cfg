\* Three holds on two units, two sweepers, no admin.
CONSTANTS
  Keep = Keep
  Holds = {h1, h2, h3}
  Sweepers = {w1, w2}
  Admins = {}
  Capacity = 3
  PreBooked = 1
  MaxQty = 2
  TTLs = {1, 2}
  MaxTime = 4
  BatchSize = 1
  MaxCrashes = 1
  PolicyTotals = {}
SPECIFICATION Spec
INVARIANTS
  TypeOK
  BookedMatchesCaptures
  OversellOnlyByLateCaptures
PROPERTY
  ImplementsContract
SYMMETRY Symmetry
CHECK_DEADLOCK FALSE
