\* Two delays, batches of two steps, one callback that may come after its cancellation.
SPECIFICATION FairSpec
CONSTANTS
  Delays = {1, 2}
  BatchSize = 2
  Slots = {"s1", "s2"}
  MaxLate = 1
  MaxCost = 2
  MaxLag = 2
  MaxChanges = 2
INVARIANTS
  OneCallback
  PacedRun
PROPERTIES
  AdvancesAsAsked
  RunKeepsGoing
