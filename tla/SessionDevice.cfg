\* Signing in, device keys and their challenges by two handlers at once, against
\* ending, locking and deleting.
SPECIFICATION Spec
CONSTANTS
  Account = {x1}
  AccountRow <- LockableRows
  Role <- AllRoles
  Tenant <- AllTenants
  Auth = {a1, a2}
  IdToken = {t1}
  Challenge = {c1, c2, c3}
  Key = {k1, k2}
  NoKey = NoKey
  Absent = Absent
  Request = {r1, r2}
  InitialSessionDuration = 1
  SessionDuration = 1
  AuthenticationDuration = 2
  IdleDuration = 0
  ChallengeDuration = 1
  SuperAdminRoles = {}
  AllowedRoles = {}
  AllowedTenants = {}
  MaxTime = 1
SYMMETRY Symmetry
INVARIANTS
  ChallengeSpentOnce
  DeviceTokenHasRegisteredKey
PROPERTIES
  RevocationIsFinal
  LockStopsIssue
  SsoSessionStaysDeviceBound
\* The clock and the ids run out.
CHECK_DEADLOCK FALSE
