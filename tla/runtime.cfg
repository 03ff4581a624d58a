\* The worker may die with the lease and the event, or one statement may fail.
CONSTANTS
  c1 = c1
  c2 = c2
  worker = worker
  web = web
  NoHolder = NoHolder
  Events = {e1}
  Unknown = {}
  Unchecked = {}
  Workers = {c1, c2}
  Requeuers = {}
  Batch = 1
  MaxAttempts = 1
  RequeueCap = 2
  Stale = 1
  MaxFaults = 1
  Procs = {worker, web}
  ProcOf <- OneEach
  SharedIds = {worker}
  Mortal = {worker}
  TTL = 1
  MaxDbErrors = 1
  MaxTrouble = 1
SPECIFICATION FairRuntimeSpec
INVARIANT OneCycleAtWork
PROPERTY EventsSurviveWorkerDeath
