\* Two slots, two signatures of one client, two cookies.
CONSTANTS
  Clients = {c1}
  MaxSlot = 2
  Cookies = {k1, k2}
  Workers = {w1}
  BusySets = {{}}
  MaxInits = 2
SPECIFICATION Spec
INVARIANTS TypeOK StoreIsConsistent RestartIsSignalled
