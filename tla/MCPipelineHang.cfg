CONSTANTS
  v1 = v1  v2 = v2  i1 = i1  i2 = i2  r1 = r1  r2 = r2
  VersionId = {v1}
  Instance = {i1}
  IdOf <- OneIdOf
  Boot = {i1}
  WorkerCount <- OneWorker
  Removable = {v1}
  Request = {r1}
  MaxEvent = 0
  MaxPublish = 4
  NoInst = NoInst
  NoJob = NoJob
SPECIFICATION LiveSpec
PROPERTY ReplacedInstancesEnd
