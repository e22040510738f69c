CONSTANTS
  v1 = v1  builtin = builtin  i1 = i1  i2 = i2  r1 = r1  r2 = r2  e1 = e1  e2 = e2
  VersionId = {v1, builtin}
  Instance = {i1, i2}
  IdOf <- EachIdOf
  Boot = {i1, i2}
  WorkerCount <- TwoWorkers
  Removable = {}
  Request = {r1}
  MaxEvent = 0
  Row = {e1, e2}
  MaxPublish = 2
  MaxFaults = 1
  NoInst = NoInst
  NoJob = NoJob
SPECIFICATION OutboxSpec
INVARIANT DuplicatesOnlyByFaults
PROPERTY ImplementsDelivery
