CONSTANTS
  r1 = r1
  r2 = r2
  r3 = r3
  d1 = d1
  d2 = d2
  NoSession = NoSession
  Items <- ThreeItems
  Recordings <- ThreeRecordings
  RecordingOf <- ThreeDistinct
  Registered <- OnlyThird
  Checksummed <- ThreeRecordings
  SessionIds = {1}
  Drains = {d1}
  MAX_UPLOAD_ATTEMPTS = 1
  MAX_CONCURRENT_UPLOADS = 2
  Refusable = {}
  MaxCrashes = 0
  MaxResubmits = 0
SPECIFICATION FairPickSpec
PROPERTIES
  ReadyRowIsPicked
