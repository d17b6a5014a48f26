\* One slot, taken and given back under two cookies by one client's two lives,
\* which always has something to send, or only pings.
CONSTANTS
  Clients = {c1}
  MaxSlot = 1
  Cookies = {k1, k2}
  Workers = {w1}
  BusySets = {{}, {c1}}
  MaxInits = 2
SPECIFICATION LiveSpec
PROPERTIES DeadSessionIsNoticed GetsSession
