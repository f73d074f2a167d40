CONSTANTS
  Meetings = {"m1"}
  Loads = {"l1", "l2"}
  Polls = {"p1", "p2"}
  Edits = {"star", "title"}
  Progress = {"processing", "completed", "failed"}
SPECIFICATION ListFairSpec
INVARIANTS ListTypeOK SpinnerHasLoad
PROPERTIES OnlyLoadsRevive TitleSurvivesPolls PollSettles
