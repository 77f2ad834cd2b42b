SPECIFICATION SeedSpec
CONSTANTS
  q1 = q1  q2 = q2  q3 = q3  r1 = r1  r2 = r2  a = a  b = b  c = c  d = d
  Requests = {q1, q2}
  Repos = {r1}
  Contents = {a, b, c, d}
  Targets = {1, 2, 3, 4}
  Slots = {w1}
  ClaimOf <- OneRepo
  BodyOf <- Distinct
  DepsOf <- Deps
  Malformed = {d}
  Losable = {a}
  Inferred = {1, 4}
  SeedLimit = 7
  MaxSeedRuns = 1
  NoJob = NoJob
  NoRow = NoRow
INVARIANTS QueuedIsCarried
CHECK_DEADLOCK FALSE
