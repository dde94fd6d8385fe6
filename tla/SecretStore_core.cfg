SPECIFICATION Spec
CONSTANTS
  NULL = NULL
  text = text
  json = json
  mk = mk
  Requests = {r1, r2, r3}
  Segments <- MCSegments
  Valid <- MCValid
  Lower <- MCLower
  Paths <- MCPaths
  Values = {text, json}
  JsonTexts = {json}
  Calls <- CallsCore
  Callers <- MCCallers
  MasterKey = mk
  InitStores <- StoresFilled
  SqlFaults = FALSE
SYMMETRY Symmetry
INVARIANTS
  TypeOK
  RowsOpen
  AuditIsExact
PROPERTIES
  StoreImplementsMap
