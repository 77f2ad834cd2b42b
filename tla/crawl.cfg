SPECIFICATION FairSpec
CONSTANTS
  s1 = s1 s2 = s2 d1 = d1 d2 = d2 g1 = g1 A = A B = B E = E o1 = o1 o2 = o2 r1 = r1 r2 = r2 r3 = r3
  None = None Invalid = Invalid NoName = NoName
  Listing <- Projects
  Pools <- Rounds
  OverrideFiles <- Patches
  MaxRetries = 2
  OwnerRepos <- Publics
  Mapped <- MappedRows
  Manifests <- ManifestRows
  PageSize = 1
  Versions <- VersionRows
  Declares <- Acyclic
  MaxReleases = 1
  Scoped <- ScopedB
  RegistryRequires <- OneListed
  DependentsEnabled = TRUE
  DependentsAllowlist = {r1, Malformed}
  Everything = Everything
  Malformed = Malformed
  Externals = {}
  Selections <- OneByOne
  Slots = {s1, s2, d1, d2, g1}
  QueueOf <- QueueOfSlot
  Weeks = 2
  Faults = 1
INVARIANTS TypeOK RoundsSuffice LinksSurvive TwinsAreUnfinished NothingForgotten
PROPERTIES BootstrapEnds
CHECK_DEADLOCK FALSE
