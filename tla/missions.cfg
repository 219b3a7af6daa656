SPECIFICATION Spec
CONSTANTS
  Budgets = {1, 3}
  MaxCost = 2
  MaxNews = 3
  Requests = {r1, r2}
INVARIANTS OneCall OverspendsOnce EntitiesAreRecorded
PROPERTIES NewsIsHeard
