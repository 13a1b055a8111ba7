\* Renewals over time, while roles, tenants and locks change and sessions are left
\* idle.
SPECIFICATION Spec
CONSTANTS
  Account = {x1}
  AccountRow <- ChangingRows
  Role <- AllRoles
  Tenant <- AllTenants
  Auth = {a1}
  IdToken = {t1}
  Challenge = {c1}
  Key = {}
  NoKey = NoKey
  Absent = Absent
  Request = {r1}
  InitialSessionDuration = 1
  SessionDuration = 1
  AuthenticationDuration = 4
  IdleDuration = 1
  ChallengeDuration = 1
  SuperAdminRoles = {"admin"}
  AllowedRoles = {"member"}
  AllowedTenants = {"t1"}
  MaxTime = 4
SYMMETRY Symmetry
INVARIANTS
  TokensWithinAuthentication
PROPERTIES
  RolesFollowAccount
  IdleSessionIsOver
\* The clock and the ids run out.
CHECK_DEADLOCK FALSE
