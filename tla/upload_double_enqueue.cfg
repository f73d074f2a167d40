CONSTANTS
  r1 = r1
  r2 = r2
  r3 = r3
  d1 = d1
  d2 = d2
  NoSession = NoSession
  Items <- ThreeItems
  Recordings <- TwoRecordings
  RecordingOf <- FirstThenTwice
  Registered <- TwoRecordings
  Checksummed <- OnlySecond
  SessionIds = {1, 2}
  Drains = {d1}
  MAX_UPLOAD_ATTEMPTS = 1
  MAX_CONCURRENT_UPLOADS = 2
  Refusable = {}
  MaxCrashes = 0
  MaxResubmits = 1
SPECIFICATION Spec
INVARIANTS
  OneUploadPerRecording
  WorkerOwnsRow
PROPERTIES
  OutboxSpec
