SPECIFICATION Spec
CONSTANTS
  q1 = q1  q2 = q2  q3 = q3  r1 = r1  r2 = r2  a = a  b = b  c = c  d = d
  Requests = {q1, q2, q3}
  Repos = {r1}
  Contents = {a, b, c, d}
  Targets = {1, 2, 3, 4}
  Slots = {w1}
  ClaimOf <- OneRepo
  BodyOf <- Repeated
  DepsOf <- Deps
  Malformed = {d}
  Losable = {b}
  Inferred = {1, 4}
  SeedLimit = 7
  MaxSeedRuns = 1
  NoJob = NoJob
  NoRow = NoRow
PROPERTIES ImplementsLedger
CHECK_DEADLOCK FALSE
