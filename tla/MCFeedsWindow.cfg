\* Refuted: a user who is gone for a moment is missed by who subscribes in it.
SPECIFICATION FairSpec
CONSTANTS
  Clients = {c1, c2}
  Items = {i1, i2}
  HomeItems = {i1}
  FirstItems = {i1}
  Values = {v1, v2}
  Absent = Absent
  NoList = NoList
  Kinds <- MCOnline
  MaxChanges = 2
  MaxDrops = 1
  MaxFlips = 1
INVARIANT SubscribersMissNothing
\* Nothing moves when nobody does anything any more.
CHECK_DEADLOCK FALSE
