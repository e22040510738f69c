CONSTANTS
  v1 = v1  v2 = v2  a1 = a1  a2 = a2  a3 = a3  A = A  B = B  C = C  d1 = d1
  \* ControlPlane
  VersionId = {v1, v2}
  TypeName = {A, B}
  Apply = {a1, a2, a3}
  VersionOf <- Versions
  TypesOf <- Models
  Forced = {a1}
  Delete = {d1}
  DeleteOf <- Deletes
  MaxCalls = 3
  MaxFaults = 1
  NoTable = NoTable
  NoApply = NoApply
  NoVersion = NoVersion
  \* Secrets
  Applier = {a1, a2}
  MaxEdit = 2
  MaxFail = 2
  OnlyOnce = FALSE
  Period = 1
  Factor = 2
  MaxDelay = 3
  Refresh = Refresh
  \* Schema
  Model = {A, B, C}
  FieldName = {"f"}
  Scalar = {"text"}
  FieldDefs <- Fields
  Sqlite = TRUE
  MaxModels = 3
  Null = Null
  \* Populate
  PModel = {A, B}
  PVersions <- Evolutions
  PId = {1, 2}
  PMaxStore = 1
  \* MetaMigration
  Release = {"empty", "foreign", "0", "0.7", "0.9", "0.10", "0.11", "1", "2", "4", "later"}
  SourceSets <- SourcePaths
  NoRelease = NoRelease
SPECIFICATION AdminSpec
INVARIANTS
  AdminInv
  OneMigration AppliesKeepInStep ServesWhatIsPersisted
  LoadsUnlessChained ModelsMatchTables DataFits
  CopiedModelsAreComplete CopiesAreReadable
  ServesLatestSchema MigrationSucceeds
PROPERTIES
  AppliesEnd SecretsConverge
