CONSTANTS
  UserName = {n1}
  Text = {a}
  Word = {a, b}
  Person = {p1, p2}
  Collections = {"emails", "phoneNumbers", "addresses", "ims", "photos", "entitlements", "roles", "x509Certificates", "none"}
  Paths = {"userName", "title", "active", "password", "name", "name.familyName", "manager", "manager.value", "manager.$ref", "id"}
  Lists <- SomeLists
  Updates <- SomeUpdates
  Filters <- SomeFilters
  Maps <- SomeMaps
  MaxOps <- TwoOps
  MaxItems = 3
  Null = Null
  Absent = Absent
  Other = Other
  Opaque = Opaque
  a = a
  b = b
  p1 = p1
  p2 = p2
SPECIFICATION Spec
INVARIANTS ItemsSound OthersKept RetryChangesNothing NoManagerLeftOver ReadBackUnchanged
