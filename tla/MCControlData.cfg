CONSTANTS
  v1 = v1   a1 = a1  a2 = a2   A = A  B = B  d1 = d1
  VersionId = {v1}
  TypeName = {A, B}
  Apply = {a1, a2}
  VersionOf <- OneVersion
  TypesOf <- Models
  Forced = {}
  Delete = {}
  DeleteOf <- Deletes
  MaxCalls = 1
  MaxFaults = 0
  NoTable = NoTable
  NoApply = NoApply
  NoVersion = NoVersion
SPECIFICATION ControlSpec
PROPERTY NoDataLoss
