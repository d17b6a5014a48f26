\* Three resolvers of which two must stay, two sizes, one recheck slot.
CONSTANTS
  Conns = {r1, r2, r3}
  MaxMTU = 2
  Caps = {1, 2}
  KeepActive = 2
  EarlyTarget = 2
  SlotCap = 1
  Duplicates = 3
SYMMETRY Symmetry
SPECIFICATION Spec
INVARIANTS ActiveCarrySyncedMTU DisabledIsInactive InFlightIsRunning PlanIsActive SearchIsRight StrategiesAreRight
PROPERTY KeepsEnough
