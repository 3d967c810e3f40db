CONSTANTS
  g1 = g1
  g2 = g2
  u1 = u1
  u2 = u2
  n1 = n1
  n2 = n2
  n3 = n3
  Req = {r1, r2}
  GroupId = {g1, g2, g3, g4}
  UserId = {u1, u2}
  Name = {n1, n2, n3}
  Keep = Keep
  Nobody = Nobody
  SeedGroups = {g1, g2}
  SeedUsers = {u1, u2}
  SeedNames <- SomeNames
  SeedMembers <- SomeMembers
  Inputs <- AllRequests
SPECIFICATION Spec
INVARIANTS TypeOK FailedLeavesNothing ETagDeterminesName
PROPERTIES PutRaisesVersion EveryoneAnswered
