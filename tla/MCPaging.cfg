CONSTANTS
  UserRow <- SomeUsers
  GroupRow <- SomeGroups
  SeedRows <- Seed
  Endpoints = {"users", "root", "sorted"}
  MaxResults = 4
  MaxInt = 9
  Places <- Orders
  Counts = {0, 1, 2, 3, 5, 10}
  CursorTimeout = 1
  MaxWrites = 2
  MaxFaults = 1
  MaxTime = 1
  NoCursor = NoCursor
SPECIFICATION Spec
INVARIANTS PageBounded WalkComplete DeletionsNeverRepeat PreviousIsPageBefore
PROPERTY WalkEnds
