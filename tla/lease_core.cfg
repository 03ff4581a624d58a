\* The dedicated worker with two overlapping cycles, next to a web process.
CONSTANTS
  a1 = a1
  a2 = a2
  a3 = a3
  worker = worker
  web = web
  NoHolder = NoHolder
  Cycles = {a1, a2, a3}
  Procs = {worker, web}
  ProcOf <- WorkerAndWeb
  SharedIds = {worker}
  Mortal = {worker}
  TTL = 2
  MaxDbErrors = 1
SPECIFICATION LeaseSpec
INVARIANTS
  ExclusionUnlessMishap
  NoOrphanLease
