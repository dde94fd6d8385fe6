SPECIFICATION Spec
CONSTANTS
  NULL = NULL
  root = root
  ops = ops
  ci = ci
  bot = bot
  pepper = pepper
  Requests = {r1, r2}
  Names <- MCNames
  Calls <- CallsExpiry
  InitTables <- TablesExpiry
  IssuedKeys = 2
  KeyPepper = pepper
  FirstTime = 1
  MaxTime = 3
  I64Max = 5
  U64Max = 9
  SqlFaults = TRUE
SYMMETRY Symmetry
INVARIANTS
  ManagedWithAuthority
  RevocationsAudited
PROPERTIES
  RevokeKeepsAnAdmin
  KeysImplementRegistry
