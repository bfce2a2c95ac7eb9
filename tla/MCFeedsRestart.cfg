\* Refuted: the first flush after a restart removes no entry.
SPECIFICATION FairSpec
CONSTANTS
  Clients = {c1, c2}
  Items = {i1, i2}
  HomeItems = {i1}
  FirstItems = {i1}
  Values = {v1, v2}
  Absent = Absent
  NoList = NoList
  Kinds <- MCEntries
  MaxChanges = 2
  MaxDrops = 1
  MaxFlips = 1
INVARIANT UnregisteredAreRemoved
\* Nothing moves when nobody does anything any more.
CHECK_DEADLOCK FALSE
