SPECIFICATION Spec
CONSTANTS
  Count = 3
  MaxHandles = 10
  MaxId = 4
  MaxCuts = 2
INVARIANTS StoresOpen PoolSuffices InItsSlot RestartCostsOnePerCard
