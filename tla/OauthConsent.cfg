\* From a request to the access tokens, answered by two users at once, with two handlers
\* and the fewest connections with which none waits for good.
SPECIFICATION FairSpec
CONSTANTS
  Account = {x1, x2}
  Client = {p1}
  Resource = {s1}
  Scope = {"read"}
  Scopes <- ReadOnly
  Unnamed = Unnamed
  AuthorizationRequest = {q1}
  Code = {c1}
  Grant = {g1, g2}
  RefreshToken = {t1, t2, t3}
  Absent = Absent
  NoOne = NoOne
  Request = {r1, r2}
  Connections = 3
  RequestLifetime = 1
  CodeLifetime = 1
  RefreshTokenLifetime = 1
  GrantLifetime = 1
  MaxTime = 0
INVARIANTS
  TokensRestOnConsent
  OneGrantPerConsent
PROPERTIES
  EveryRequestIsAnswered
