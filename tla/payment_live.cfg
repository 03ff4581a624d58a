\* One event of each kind, two deliveries, a death of the server half way; no
\* symmetry, because a liveness property is checked.
CONSTANTS
  Captures = {c1}
  Failures = {f1}
  Spurious = {s1}
  Deliveries = {d1, d2}
  Viewers = {v1}
  Sweepers = {w1}
  Cancellers = {x1}
  Receipts = {}
  Reviewers = {}
  Keys = {}
  Price = 1
  MaxBalance = 0
  MaxFaults = 1
  NoEvent = NoEvent
SPECIFICATION FairPaymentSpec
PROPERTY EventsSettle
CHECK_DEADLOCK FALSE
