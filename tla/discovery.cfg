SPECIFICATION GraphSpec
CONSTANTS
  None = None
  Unknown = Unknown
  Tables <- MCTables
  Columns <- MCColumns
  Projects <- MCProjects
  Callers = {"all", "some"}
  VisibleTo <- MCVisibleTo
  MaxSteps = 3
INVARIANTS
  TypeOK
  AllShortestPaths
  ServedAsStated
  StatedJoinsFound
