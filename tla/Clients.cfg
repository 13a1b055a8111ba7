\* Two requests at once. A second is two instants, and a max-age of two seconds is more
\* than a Duration holds.
SPECIFICATION ClientsSpec
CONSTANTS
  web1 = web1
  port1 = port1
  port2 = port2
  Uri = {web1, port1, port2}
  Loopback = {port1, port2}
  Long = {port2}
  k1 = k1
  k2 = k2
  Key = {k1, k2}
  Configuration <- Configurations
  ConsentLifetime = 1
  Document <- Documents
  Call = {c1, c2}
  None = None
  Second = 2
  DefaultTtl = 1
  MaxTtl = 1
  MaxAge = {1, 2, 4}
  Half = 4
  MaxIds = 1
  MaxClock = 1
SYMMETRY Symmetry
INVARIANTS
  WithdrawnWithinMaxTtl
PROPERTIES
  RegisteredWithinRules
