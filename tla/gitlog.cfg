SPECIFICATION FairSpec
CONSTANTS
  r1 = r1 r2 = r2 r3 = r3 P = P Q = Q Unset = Unset s1 = s1 s2 = s2
  Commits <- History
  Window = 2
  BotNames = {"ci[bot]"}
  BotEmails = {}
  MaxRetries = 1
  Repos <- InOrder
  ProjectOf <- Belongs
  OutsideUrls = {r3}
  Dates = {0, 1}
  RecentRuns = 0
  K = 2
  BatchSize = 2
  Slots = {s1, s2}
  Runs = 3
  Faults = 1
INVARIANTS TypeOK ProcessedIsPersisted HiddenIsTerminal DormantReturn PonyIsFresh
PROPERTIES RunsEnd
CHECK_DEADLOCK FALSE
