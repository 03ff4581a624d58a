\* One attempt in which nothing stops; the supplier may refuse.
CONSTANTS
  Starts <- BooksOnly
  Workers = {}
  MaxAttempts = 1
  MaxFaults = 0
SPECIFICATION SagaSpec
INVARIANT FailedEarnsNothing
CHECK_DEADLOCK FALSE
