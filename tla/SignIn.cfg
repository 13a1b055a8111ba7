\* Two browsers, links opened in either, two callbacks at once, a sign-in that is
\* restarted.
SPECIFICATION Spec
CONSTANTS
  Browser = {b1, b2}
  Flow = {f1, f2}
  User = {u1, u2}
  Admitted = {u1}
  Code = {k1, k2}
  Call = {c1, c2}
  Absent = Absent
  NoCookie = NoCookie
  Declined = Declined
  OauthFlowDuration = 1
  LoginPath = TRUE
  MaxTime = 2
SYMMETRY Symmetry
INVARIANTS
  SessionInBrowserThatBegan
  FlowEndsOnce
  SessionByOwnAnswer
  RestartsTakeTime
PROPERTIES
  LiveFlowKept
