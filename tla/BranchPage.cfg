SPECIFICATION Spec
CONSTANTS
  f = f
  g = g
  i = i
  Branches = {f, g, i}
  Integrations = {i}
  Worlds <- MCWorlds
  Entries <- MCEntries
  UpstreamLimit = 1
  MaxEvents = 3
INVARIANTS
  TypeOK
  PageSurvives
PROPERTIES
  RefreshKeepsChoice
  GraphCompletes
  RecommendationsCatchUp
  OfferedConflictsAreCurrent
CHECK_DEADLOCK FALSE
