\* A top-up with two paid events and two browser returns; a refund under the key
\* of a request and the key of an exception, with three requests at once; two
\* rules, one of high value that may expire or be withdrawn, and two evaluations of
\* them at once.
\* Three requests for a draft under one key; two bookings that carry a code
\* for one use; three bookings, and two clerks who settle their leader's reward;
\* two carts that want the last room and the last seat, in opposite order.
\* Three receipts for one transfer and two bookings, and two clerks; a group
\* with two payments and two reviews under way.
\* What is interchangeable in one scene bears the names of what is in another.
\* Everything may come to rest: no deadlock check.
CONSTANTS
  Successes = {e1, e2}
  Failures = {f1}
  Spurious = {x1}
  Echoed = {e2}
  Nameless = {f1}
  Deliveries = {a1, a2}
  Returns = {b1, b2}
  Return = Return
  NoReport = NoReport
  MaxStops = 1
  Keys = {k1, k2}
  Remedies = {k2}
  Channels = {"WALLET", "BANK"}
  Requests = {q1, q2, q3}
  Cancels = {c1}
  NoKey = NoKey
  MaxAborts = 1
  Rules = {r1, r2}
  HighValue = {r2}
  Expiring = {r2}
  Unwanted = {r2}
  Evaluators = {a1, a2}
  Budget = 1
  Funds = 2
  MaxTrips = 2
  MaxTroubles = 1
  NoRule = NoRule
  c1 = c1
  c2 = c2
  c3 = c3
  here = here
  key = key
  planA = planA
  planB = planB
  Calls = {c1, c2, c3}
  Entries = {key}
  Processes = {here}
  EntryOf <- MetEntry
  ProcessOf <- KeptBy
  PayloadOf <- Plan
  TTL = 1
  MaxTime = 3
  MaxDeaths = 1
  NoCall = NoCall
  Drafts = {t1, t2}
  MaxUses = 1
  Nobody = Nobody
  Bookings = {t1, t2, t3}
  Quota = 1
  Settlers = {a1, a2}
  MaxVouchers = 2
  m1 = m1
  m2 = m2
  room = room
  flight = flight
  Carts = {m1, m2}
  Items = {room, flight}
  Contents <- Baskets
  Units = 1
  MaxMishaps = 1
  Receipts = {i1, i2, i3}
  Transfers = {h1}
  Orders = {b1, b2}
  Clerks = {a1, a2}
  Nothing = Nothing
  Movers = {b1, b2}
  Payers = {a1, a2}
  Total = 3
  Deposit = 1
  Grants = {0, 1}
  MaxCharges = 2
  MaxBreakdowns = 1
SPECIFICATION RequestsSpec
INVARIANTS
  RequestsTypeOK
  SecondCreditsAreExplained
  CapturedIsCredited
  RefundedOnce
  OnePurchasePerRule
  OverrunsAreExplained
  KeyMakesOneDraft
  AnswersAreOwn
  UsesWithinLimit
  SettledOnce
  CartsKeepAllOrNothing
  SoldUnitsAreBooked
  TransfersPayOnce
  ChargedOncePerKind
SYMMETRY Symmetry
CHECK_DEADLOCK FALSE
