SPECIFICATION FairSpec
CONSTANTS
  s1 = s1  d1 = d1  d2 = d2  p1 = p1  p2 = p2  p3 = p3
  Attempts = {a1, a2, a3}
  Sources = {s1}
  SourceOf <- OneSource
  Dependents = {d1, d2}
  Packages = {p1, p2}
  Snapshots <- Walks
  Sites <- AllSites
  PagesCap = 2
  EntryCap = 2
  PackagesCap = 2
  RatelimitRetries = 2
  RatelimitWait = 60
  NoPackage = NoPackage  NoPage = NoPage  Unreadable = Unreadable
  NoRun = NoRun
  NoSnapshot = NoSnapshot
INVARIANTS TypeOK OutcomeIsDurable SupersededIsOlder DisplayIsCurrent CompleteIsWhole
PROPERTIES OutcomeIsFinal ImplementsView AttemptsEnd
CHECK_DEADLOCK FALSE
