SPECIFICATION Spec
CONSTANTS
  Keys = {k1, k2}
  Vals = {v1}
  Passwords = {p1, p2}
  NoPw = NoPw
  Absent = Absent
  NoVal = NoVal
  Callers = {c1}
  Rings = {r1, r2}
  NoRing = NoRing
  NoCall = NoCall
  MaxChanges = 1
  MaxInterrupts = 0
SYMMETRY Symmetry
INVARIANTS ChangedMeansReadable
