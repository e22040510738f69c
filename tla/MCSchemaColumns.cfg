CONSTANTS
  A = A  B = B
  Model = {A, B}
  FieldName = {"f"}
  Scalar = {"text", "double"}
  FieldDefs <- Fields
  Sqlite = TRUE
  MaxModels = 2
  Null = Null
SPECIFICATION SchemaSpec
INVARIANT ColumnsMatchFields
CHECK_DEADLOCK FALSE
