CONSTANTS
  Meetings = {m1, m2}
  Loads = {"l1"}
  Polls = {}
  Edits = {}
  Progress = {}
  Screens = {s1, s2}
  Saves = {u1, u2}
SYMMETRY Symmetry
SPECIFICATION Spec
INVARIANTS TypeOK NoDuplicates OneMeetingPerSave SavingHasUpload
PROPERTIES ListSpec
