SPECIFICATION Spec
CONSTANTS
  r1 = r1 r2 = r2 r3 = r3 r4 = r4 r5 = r5 P = P Q = Q O = O D = D c1 = c1 c2 = c2 n1 = n1 d1 = d1 p1 = p1 m1 = m1 y1 = y1 x = x y = y z = z
  s1 = s1 s2 = s2 Elsewhere = Elsewhere NoUrl = NoUrl None = None Unknown = Unknown
  NewestWindow = 2
  Published <- Registry
  MaxRetries = 2
  MaxPages = 2
  MaxDependents = 2
  Jobs <- Work
  Selections <- Bootstraps
  Slots = {s1, s2}
  Repos = {r1, r2, r3, r4, r5}
  ProjectOf <- Owners
  StatusOf <- Statuses
  Projects = {P, Q, O, D}
  Stars <- Popularity
  Forks <- Copies
  Stored <- Before
  Faults = 0
INVARIANT DownloadsAreMerged
CHECK_DEADLOCK FALSE
