\* Two pages and two items of every feed.
SPECIFICATION FairSpec
CONSTANTS
  Clients = {c1, c2}
  Items = {i1, i2}
  HomeItems = {i1}
  FirstItems = {i1}
  Values = {v1, v2}
  Absent = Absent
  NoList = NoList
  Kinds <- MCKinds
  MaxChanges = 2
  MaxDrops = 1
  MaxFlips = 1
INVARIANT DriftHasACause
PROPERTY PagesCatchUp
\* Nothing moves when nobody does anything any more.
CHECK_DEADLOCK FALSE
