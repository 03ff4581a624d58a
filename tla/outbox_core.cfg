\* Two cycles overtake each other on two events, one of unknown type, while two
\* requeues race for the dead ones.
CONSTANTS
  Events = {e1, e2}
  Unknown = {e2}
  Unchecked = {e1}
  Workers = {c1, c2}
  Requeuers = {q1, q2}
  Batch = 2
  MaxAttempts = 2
  RequeueCap = 3
  Stale = 1
  MaxFaults = 1
SPECIFICATION OutboxSpec
INVARIANTS
  ProcessedWasDelivered
  DeadLettersFailedEnough
  DuplicatesAreExplained
PROPERTY UnhandledStayDead
SYMMETRY Symmetry
