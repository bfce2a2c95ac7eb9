CONSTANTS
  u1 = u1
  u2 = u2
  r1 = r1
  r2 = r2
  Users = {u1, u2}
  Rooms = {r1, r2}
  None = None
  MaxUsers = 3
\* No symmetry: it is not sound for liveness.
SPECIFICATION FairSpec
INVARIANT ClockFollowsState
PROPERTIES
  InterruptionsResolve
  AbsentSeatsAreFreed
  GamesAreFinished
