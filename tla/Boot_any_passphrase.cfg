SPECIFICATION FairSpec
CONSTANTS
  NULL = NULL
  p1 = p1
  p2 = p2
  v1 = v1
  v2 = v2
  right = right
  wrong = wrong
  oldSalt = oldSalt
  newSalt = newSalt
  Paths = {p1, p2}
  Values = {v1, v2}
  Phrases = {right, wrong}
  Salts = {oldSalt, newSalt}
  NewSalt = newSalt
  InitDatabases <- AnyDatabase
  MaxCrashes = 3
INVARIANTS
  TypeOK
  ServedRowsOpen
  OnePassphraseOpensAll
PROPERTIES
  StartsKeepSecrets
  OpeningPhraseIsServed
  ComesUp
