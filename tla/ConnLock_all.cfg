SPECIFICATION FairSpec
CONSTANTS
  Requests = {r1, r2, r3}
INVARIANTS
  TypeOK
  HoldsExclude
  NobodyWaitsInVain
PROPERTIES
  NoOvertaking
  EveryRequestEnds
