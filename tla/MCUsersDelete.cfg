CONSTANTS
  u1 = u1
  n1 = n1
  n2 = n2
  n3 = n3
  a1 = a1
  a2 = a2
  d1 = d1
  Req = {r1, r2}
  UserId = {u1, u2, u3}
  Name = {n1, n2, n3}
  Attr = {a1, a2}
  Display = {d1, d2}
  Keep = Keep
  Seed = {u1, u2}
  Start <- SomeContent
  Inputs <- SomeInputs
SYMMETRY Interchangeable
SPECIFICATION Spec
PROPERTIES DeleteHonoursIfMatch
