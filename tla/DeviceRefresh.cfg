\* Two requests of the browser at once, and challenges enough for one never to wait.
SPECIFICATION Spec
CONSTANTS
  Challenge = {h1, h2, h3}
  Request = {r1, r2}
  NoChallenge = NoChallenge
PROPERTIES
  RefreshEnds
CHECK_DEADLOCK FALSE
