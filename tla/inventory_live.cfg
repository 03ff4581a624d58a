\* Liveness, with an admin who changes the policy meanwhile: no symmetry.
CONSTANTS
  Keep = Keep
  Holds = {h1, h2}
  Sweepers = {w1}
  Admins = {a1}
  Capacity = 2
  PreBooked = 0
  MaxQty = 1
  TTLs = {1, 2}
  MaxTime = 3
  BatchSize = 1
  MaxCrashes = 1
  PolicyTotals = {1, 2}
SPECIFICATION FairSpec
PROPERTY HoldsAreEventuallySettled
CHECK_DEADLOCK FALSE
