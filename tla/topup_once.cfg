\* One paid event in one delivery and one browser return, nothing dies.
CONSTANTS
  Successes = {e1}
  Failures = {}
  Spurious = {}
  Echoed = {}
  Nameless = {}
  Deliveries = {d1}
  Returns = {b1}
  Return = Return
  NoReport = NoReport
  MaxStops = 0
SPECIFICATION TopUpSpec
INVARIANT CreditedAtMostOnce
CHECK_DEADLOCK FALSE
