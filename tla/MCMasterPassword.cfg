SPECIFICATION Spec
CONSTANTS
  Keys = {k1, k2}
  Vals = {v1, v2}
  Passwords = {p1, p2, p3}
  NoPw = NoPw
  Absent = Absent
  NoVal = NoVal
  Callers = {c1}
  Rings = {r1, r2}
  NoRing = NoRing
  NoCall = NoCall
  MaxChanges = 2
  MaxInterrupts = 2
SYMMETRY Symmetry
INVARIANTS ItemsFollowTheHash RetryCompletes
PROPERTIES GetReturnsStored
