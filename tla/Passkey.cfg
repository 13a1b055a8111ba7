\* Two credentials, two sign-ins and two registrations of which two requests at once
\* present what was made and signed.
SPECIFICATION Spec
CONSTANTS
  User = {u1, u2}
  Challenge = {h1, h2, h3}
  Credential = {k1, k2}
  Call = {c1, c2}
  Absent = Absent
  MaxCount = 2
SYMMETRY Symmetry
INVARIANTS
  ChallengeOpensOneSession
  ChallengeRegistersOneCredential
  SessionOfRegisteredUser
PROPERTIES
  ExpiredChallengeIsOver
