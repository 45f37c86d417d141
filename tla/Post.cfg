SPECIFICATION MCSpec
CONSTANTS
  Groups = {g1, g2}
  Strategy = "balanced"
  ParCheck = "auto"
  Features = {"parRename", "rarRename", "cleanup", "move", "rename", "directUnpack"}
  HasPars = {g1, g2}
  HasArchives = {g1}
  Healths = {"full", "damaged", "critical"}
  MaxEdits = 2
  Scripts <- MCScripts
  NoItem = NoItem
  g1 = g1
  g2 = g2
INVARIANTS JobsCounted StagesWithinStrategy ScriptsBeforeStages LockedByResumeOnly
PROPERTIES ReachesHistory
CHECK_DEADLOCK FALSE
