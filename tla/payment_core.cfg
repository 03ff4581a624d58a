\* Two gateway captures and a failure report in two deliveries at once, beside a
\* receipt and its clerk, a wallet, a page view, both sweepers and a cancellation.
\* A booking that everybody is done with rests: no deadlock check.
CONSTANTS
  Captures = {c1, c2}
  Failures = {f1}
  Spurious = {}
  Deliveries = {d1, d2}
  Viewers = {v1}
  Sweepers = {w1}
  Cancellers = {x1}
  Receipts = {r1}
  Reviewers = {m1}
  Keys = {k1}
  Price = 1
  MaxBalance = 2
  MaxFaults = 0
  NoEvent = NoEvent
SPECIFICATION PaymentSpec
INVARIANTS
  PaymentTypeOK
  ConfirmedIsPaid
  HoldsFollowMoney
  SecondPaymentsExplained
  PaidExpiredOnlyIfReopened
  LedgerFollowsMoney
SYMMETRY Symmetry
CHECK_DEADLOCK FALSE
