SPECIFICATION Spec
CONSTANTS
  NULL = NULL
  root = root
  ops = ops
  ci = ci
  bot = bot
  pepper = pepper
  Requests = {r1, r2, r3}
  Names <- MCNames
  Calls <- CallsRaces
  InitTables <- TablesCore
  IssuedKeys = 4
  KeyPepper = pepper
  FirstTime = 1
  MaxTime = 1
  I64Max = 5
  U64Max = 9
  SqlFaults = FALSE
SYMMETRY Symmetry
PROPERTY
  DemoteKeepsAnAdmin
