CONSTANTS
  v1 = v1  v2 = v2  i1 = i1  i2 = i2  r1 = r1  r2 = r2
  VersionId = {v1}
  Instance = {i1, i2}
  IdOf <- SameIdOf
  Boot = {i1}
  WorkerCount <- OneWorker
  Removable = {}
  Request = {r1}
  MaxEvent = 1
  MaxPublish = 2
  NoInst = NoInst
  NoJob = NoJob
SPECIFICATION LiveSpec
PROPERTIES RequestsResolved ReplacedEndUnlessJammed EventsAreTaken
