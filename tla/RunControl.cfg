SPECIFICATION FairSpec
CONSTANTS
  res1 = res1
  res2 = res2
  prov1 = prov1
  prov2 = prov2
  Resource <- TwoResources
  Provider <- TwoProviders
  ProviderOf <- EachItsOwn
  MaxWalks = 2
INVARIANTS OnlyInterruptsStopProviders RunEndsBeforeUnlock
PROPERTIES NothingTakenUpDuringStop StopReachesCalls CommandEnds ForcedStopEnds
