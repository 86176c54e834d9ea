SPECIFICATION FairSpec
CONSTANTS
  s1 = s1
  s2 = s2
  u1 = u1
  u2 = u2
  Sectors = {s1, s2}
  Units = {u1, u2}
  RunSectors <- TwoRuns
  RunUnits <- TwoRunsUnits
  MaxLevel = 3
  MaxTicks = 2
  MaxEpochs = 2
  MayFail = TRUE
INVARIANTS RecommendedAreKnown
PROPERTIES Converges AgentsNeverGoBack
