\* A capture and a page view of the same booking.
CONSTANTS
  Captures = {c1}
  Failures = {}
  Spurious = {}
  Deliveries = {d1}
  Viewers = {v1}
  Sweepers = {}
  Cancellers = {}
  Receipts = {}
  Reviewers = {}
  Keys = {}
  Price = 1
  MaxBalance = 0
  MaxFaults = 0
  NoEvent = NoEvent
SPECIFICATION PaymentSpec
INVARIANT ExpiredIsUnpaid
CHECK_DEADLOCK FALSE
