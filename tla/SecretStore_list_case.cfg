SPECIFICATION Spec
CONSTANTS
  NULL = NULL
  text = text
  json = json
  mk = mk
  Requests = {r1, r2}
  Segments <- MCSegments
  Valid <- MCValid
  Lower <- MCLower
  Paths <- MCPaths
  Values = {text, json}
  JsonTexts = {json}
  Calls <- CallsFaults
  Callers <- MCCallers
  MasterKey = mk
  InitStores <- StoresBoth
  SqlFaults = FALSE
SYMMETRY Symmetry
INVARIANT
  ListingsKeepToTheirProject
