CONSTANTS
  Logouts = {"l1"}
  MaxSessions = 2
  MaxMishaps = 2
SPECIFICATION Spec
INVARIANT SessionIsWhole
