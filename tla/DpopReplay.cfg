SPECIFICATION Spec
CONSTANTS
  Key = {k1, k2, k3}
  Id = {i1}
  IssuedAt = {0, 2}
  Absent = Absent
  Call = {c1, c2}
  MaxAge = 1
  ClockSkew = 1
  MaxEntries = 2
  minimumSweepThreshold = 1
  MaxTime = 3
INVARIANTS
  ReplayIsLate
  HoldsAtMostMaxEntries
PROPERTIES
  FullOfLiveProofs
