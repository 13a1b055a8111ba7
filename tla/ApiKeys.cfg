\* Mints, revocations, sign-outs and locks by two requests at once, over the whole
\* time an assertion is remembered, while sign-ins run out and are replaced.
SPECIFICATION Spec
CONSTANTS
  Account = {x1}
  Key = {k1}
  Jti = {j1, j2, j3}
  Authentication = {a1, a2, a3}
  AssertionExp = {2}
  KeyExpiry = {}
  Absent = Absent
  Never = Never
  Call = {c1, c2}
  Lifetime = 1
  Leeway = 1
  AuthenticationLifetime = 1
  TokenLifetime = 2
  MaxTime = 3
SYMMETRY Symmetry
INVARIANTS
  RevokedKeyHasNoSignIn
  OneSignInPerKey
  AssertionReplayIsLate
  RowHeldByWriter
PROPERTIES
  LockedAccountMintsNothing
