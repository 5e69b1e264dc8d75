SPECIFICATION SiteSpec
CONSTANTS
  Data <- MCData
  PerNode = 1
  MaxUnknown = 2
  Tolerance = 6
  MaxUpdates = 3
  Heat = 2
  MaxActs = 5
  Selections <- MCSelections
  StandsFor <- MCStandsFor
  ConflictLists <- MCConflictLists
  Links <- MCLinks
  MaxChoices = 3
  MaxFetches = 1
INVARIANTS
  TypeOK
  LinksJoinTheirBranches
  NodesAreLimited
  HierarchyIsCurrent
  OneFrameAtATime
  MovingNodesAreDrawn
  DroppedNodesAreFree
  LastChoiceIsShown
PROPERTIES
  AnimationEnds
  PageComesToRest
CHECK_DEADLOCK FALSE
