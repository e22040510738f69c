CONSTANTS
  v1 = v1   a1 = a1  a2 = a2   A = A  B = B  d1 = d1
  VersionId = {v1}
  TypeName = {A, B}
  Apply = {a1}
  VersionOf <- OneVersion
  TypesOf <- Models
  Forced = {}
  Delete = {d1}
  DeleteOf <- Deletes
  MaxCalls = 1
  MaxFaults = 0
  NoTable = NoTable
  NoApply = NoApply
  NoVersion = NoVersion
SPECIFICATION ControlSpec
INVARIANT CanStart
