CONSTANTS
  u1 = u1  u2 = u2  GET = GET  PUT = PUT
  \* Authorization
  None = None
  AConfigs <- Configs
  ARequests <- AuthRequests
  ASecrets <- SecretValues
  AUsers <- UserTables
  \* Routing
  RTrees <- Trees
  RNames <- Names
  RMaps = {"export", "inner"}
  RRequests <- RoutedRequests
  RMaxNext = 2
  \* Transactions
  MaxJob = 2
  MaxOp = 2
  Connections = 1
  \* Queries
  Null = Null
  Undefined = Undefined
  Thrown = Thrown
  Anon = Anon
  MaxChain = 3
  QSetups <- Setups
  QOps <- ChainOps
  QRestrictions <- Restrictions
  SqlFilter <- SqlOf
  JsFilter <- evalFilter
  \* Crud
  Missing = Missing
  MaxWrites = 2
  CIds = {1, 2, 3, 4}
  CRows <- CrudTables
  CRequests <- PageRequests
  CPayloads <- Bodies
  \* Policies
  PNull = PNull
  Mask = Mask
  PPolicies <- EntityPolicies
  PTables <- EntityTables
  PContexts <- Contexts
  PNumbers = {0, 1}
  SkipFilter <- where_conds
  Selects <- SqlSelects
  Call <- Exec
SPECIFICATION RequestsSpec
PROPERTY MasksAreNotWritten
