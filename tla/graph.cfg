SPECIFICATION FairSpec
CONSTANTS
  j1 = j1 j2 = j2 j3 = j3 r1 = r1 r2 = r2 p1 = p1 p2 = p2 p3 = p3 v0 = v0 v1 = v1 v2 = v2
  Jobs = {j1, j2, j3}
  Names = {p1, p2, p3, r1, r2}
  Order <- Sorted
  Versions = {v0, v1, v2}
  NoVersion = NoVersion
  NoAssertion = NoAssertion
  Document = "SPDXRef-DOCUMENT"
  Lower <- LowerCase
  Scenarios <- Shared
INVARIANTS TypeOK OnlyRootsDeadlock
PROPERTIES SbomIsApplied AbsorptionContracts VerifiedEdgesStay ReposStay JobsEnd
CHECK_DEADLOCK FALSE
