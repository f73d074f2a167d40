CONSTANTS
  r1 = r1
  r2 = r2
  r3 = r3
  d1 = d1
  d2 = d2
  NoSession = NoSession
  Items <- OneItem
  Recordings <- OneRecording
  RecordingOf <- Single
  Registered <- OneRecording
  Checksummed <- OneRecording
  SessionIds = {1}
  Drains = {d1}
  MAX_UPLOAD_ATTEMPTS = 2
  MAX_CONCURRENT_UPLOADS = 1
  Refusable = {}
  MaxCrashes = 1
  MaxResubmits = 0
SPECIFICATION FairNetworkSpec
PROPERTIES
  InterruptedUploadResumes
