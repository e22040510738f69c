CONSTANTS
  v1 = v1  v2 = v2  i1 = i1  i2 = i2  r1 = r1  r2 = r2
  VersionId = {v1}
  Instance = {i1, i2}
  IdOf <- SameIdOf
  Boot = {i1}
  WorkerCount <- TwoWorkers
  Removable = {v1}
  Request = {r1, r2}
  MaxEvent = 1
  MaxPublish = 0
  NoInst = NoInst
  NoJob = NoJob
SPECIFICATION Spec
SYMMETRY SymRequests
INVARIANTS JobInOnePlace EndsDrained RoutedAcceptsJobs AbortedOnlyByFailure IInv
PROPERTY RoutedOnlyWhenReady
