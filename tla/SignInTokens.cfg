\* Two tokens presented by two requests at once, accounts that change addresses,
\* and time for a link to run out.
SPECIFICATION Spec
CONSTANTS
  Account = {x1, x2}
  Address = {e1, e2}
  Token = {t1, t2}
  Authentication = {a1, a2}
  Call = {c1, c2}
  Absent = Absent
  LinkExpiration = 1
  IdTokenLifetime = 1
  MaxTime = 2
SYMMETRY Symmetry
INVARIANTS
  SecondSessionOnlyAfterDeletion
PROPERTIES
  GoneIsGone
CHECK_DEADLOCK FALSE
