CONSTANTS
  Meetings = {"m1", "m2"}
  Loads = {"l1"}
  Polls = {}
  Edits = {}
  Progress = {}
  Screens = {"s1"}
  Saves = {"u1"}
SPECIFICATION Spec
PROPERTIES SaveOnlyAdds
