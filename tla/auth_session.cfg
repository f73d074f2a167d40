CONSTANTS
  Logouts = {"l1", "l2"}
  MaxSessions = 2
  MaxMishaps = 3
SPECIFICATION FairSpec
INVARIANTS TypeOK AuthedIsStored MetaIsOldest LogoutErases WholeUnlessCutTwice BusyHasCall
PROPERTIES BootEnds SubmittingEnds
