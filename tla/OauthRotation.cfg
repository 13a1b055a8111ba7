\* One grant, renewed, reused and revoked by two handlers at once, while accounts
\* are locked, resources withdrawn and the grant runs out.
SPECIFICATION Spec
CONSTANTS
  Account = {x1}
  Client = {p1}
  Resource = {s1, s2}
  Scope = {"read"}
  Scopes <- ReadOnly
  Unnamed = Unnamed
  AuthorizationRequest = {q1}
  Code = {c1}
  Grant = {g1}
  RefreshToken = {t1, t2, t3, t4}
  Absent = Absent
  NoOne = NoOne
  Request = {r1, r2}
  Connections = 6
  RequestLifetime = 1
  CodeLifetime = 1
  RefreshTokenLifetime = 2
  GrantLifetime = 1
  MaxTime = 2
SYMMETRY Symmetry
INVARIANTS
  ReuseEndsGrant
PROPERTIES
  RevokedGrantIsDead
  KeepsPromise
  InactiveAccountGetsNone
  GrantIsOver
