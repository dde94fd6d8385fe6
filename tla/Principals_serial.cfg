SPECIFICATION SerialSpec
CONSTANTS
  NULL = NULL
  root = root
  ops = ops
  ci = ci
  bot = bot
  pepper = pepper
  Requests = {r1, r2}
  Names <- MCNames
  Calls <- CallsSerial
  InitTables <- TablesSerial
  IssuedKeys = 3
  KeyPepper = pepper
  FirstTime = 1
  MaxTime = 2
  I64Max = 5
  U64Max = 9
  SqlFaults = FALSE
SYMMETRY Symmetry
INVARIANTS
  NonAdminsRotateThemselves
PROPERTIES
  OnlyTimeTakesAdmins
  SerialImplementsApi
