SPECIFICATION ServerSpec
CONSTANTS
  NULL = NULL
  root = root
  ops = ops
  ci = ci
  bot = bot
  pepper = pepper
  text = text
  mk = mk
  Requests = {r1, r2}
  Names <- MCNames
  Calls <- CallsServer
  InitTables <- TablesServer
  IssuedKeys = 4
  KeyPepper = pepper
  FirstTime = 1
  MaxTime = 1
  I64Max = 5
  U64Max = 9
  SqlFaults = FALSE
  SecretRequests = {s1}
  SecretCalls <- CallsOnSecret
  Callers <- MCCallers
  Segments <- MCSegments
  Valid <- MCSegments
  Lower <- MCLower
  Paths <- ThePath
  Values = {text}
  JsonTexts = {}
  MasterKey = mk
  InitStores <- StoreWithKey
SYMMETRY Symmetry
INVARIANTS
  ServerTypeOK
  DeadKeyOpensNothing
  ServedAsEntitled
  KeysActAsIssued
