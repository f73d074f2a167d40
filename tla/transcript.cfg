CONSTANTS
  Recordings = {"r1", "r2"}
  MaxSegments = 2
  Calls = {"c1", "c2", "c3"}
SPECIFICATION FairSpec
INVARIANTS TypeOK LoadingHasCall EditsStayWithRecording
PROPERTIES EditsLeaveSaved LoadingEnds
