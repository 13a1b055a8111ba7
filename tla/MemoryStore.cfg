\* Two rotations at once, of tokens of two grants, with the account being locked.
SPECIFICATION Spec
CONSTANTS
  Account = {x1}
  Grant = {g1, g2}
  RefreshToken = {t1, t2, t3}
  Absent = Absent
  Call = {c1, c2}
  RefreshTokenLifetime = 1
  MaxTime = 1
PROPERTIES
  LockedAccountIsNotRenewed
  KeepsPromise
