CONSTANTS
  a = a
  b = b
  c = c
  g = g
  u = u
  BulkId = {a, b, c}
  NoId = NoId
  OldId = {g, u}
  OldKind <- Kinds
  Text = Text
  Inputs <- Some
  FailOnErrors = {0, 1}
  MaxOperations = 4
  MaxOthers = 1
  MaxFaults = 1
SPECIFICATION Spec
INVARIANTS OrderSound ErrorCountExact FailureIsComplete SuccessIsComplete ReportedVersionCurrent
PROPERTY EventuallyAnswered
