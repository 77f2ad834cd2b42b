SPECIFICATION FairServeSpec
CONSTANTS
  q1 = q1  q2 = q2  q3 = q3  r1 = r1  r2 = r2  a = a  b = b  c = c  d = d
  Requests = {q1, q2, q3}
  Repos = {r1, r2}
  Contents = {a, b, c, d}
  Targets = {1, 2, 3, 4}
  Slots = {w1, w2}
  ClaimOf <- TwoRepos
  BodyOf <- Repeated
  DepsOf <- Deps
  Malformed = {d}
  Losable = {a}
  Inferred = {1, 4}
  SeedLimit = 7
  MaxSeedRuns = 0
  NoJob = NoJob
  NoRow = NoRow
INVARIANTS TypeOK QueuedIsCarried ProcessedWasApplied
PROPERTIES QueuedIsSettled QueueDrains
CHECK_DEADLOCK FALSE
