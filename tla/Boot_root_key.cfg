SPECIFICATION Spec
CONSTANTS
  NULL = NULL
  p1 = p1
  p2 = p2
  v1 = v1
  v2 = v2
  right = right
  wrong = wrong
  oldSalt = oldSalt
  newSalt = newSalt
  Paths = {p1, p2}
  Values = {v1, v2}
  Phrases = {right}
  Salts = {oldSalt, newSalt}
  NewSalt = newSalt
  InitDatabases <- NewDatabase
  MaxCrashes = 3
INVARIANT
  RootKeyWasPrinted
