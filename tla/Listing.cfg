SPECIFICATION Spec
CONSTANTS
  PageSize = 3
  Directories <- MCDirectories
  Sorts = {name, size}
  MaxGenerations = 2
  MaxSortChanges = 1
  MaxFailures = 1
INVARIANTS
  TypeOK
  ShownBelongsToDirectory
  OnePageAtATime
PROPERTIES
  ImplementsView
  LoadingEnds
  ListingSettles
  OrderReachesTable
CHECK_DEADLOCK FALSE
