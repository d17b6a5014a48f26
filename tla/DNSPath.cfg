\* Two queries under way for one name, two fragments each way, a hedged lookup.
CONSTANTS
  Queries = {q1, q2}
  UpFrags = {f1, f2}
  DownFrags = {g1, g2}
  Upstreams = 2
  MaxFaults = 2
SPECIFICATION Spec
INVARIANTS OneTaskPerQuery EntryHasLeader
PROPERTY AskedIsAnswered
