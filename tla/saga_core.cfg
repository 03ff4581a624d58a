\* One booking's saga with a worker that finds it while it runs, three attempts
\* and two faults.
CONSTANTS
  Starts <- Various
  Workers = {w1}
  MaxAttempts = 3
  MaxFaults = 2
SPECIFICATION FairSagaSpec
INVARIANTS
  SagaTypeOK
  ConfirmedIsComplete
  FailedLeavesNothing
  RefundedTicketsAreVoid
PROPERTIES
  ImplementsContract
  OpenSagasAreClosed
CHECK_DEADLOCK FALSE
