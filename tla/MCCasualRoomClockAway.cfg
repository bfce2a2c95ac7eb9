CONSTANTS
  u1 = u1
  u2 = u2
  u3 = u3
  r1 = r1
  Users = {u1, u2, u3}
  Rooms = {r1}
  None = None
  MaxUsers = 3
SYMMETRY MCSymmetry
SPECIFICATION Spec
INVARIANT PausedWhileAway
