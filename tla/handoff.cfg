SPECIFICATION FairHandoff
CONSTANTS
  Shots <- TwoShots
  Phones = {p}
  Polls = {poll}
  Final = final
  MaxDialogs = 2
  MaxTakes = 2
  MaxEdits = 1
  MaxMishaps = 1
  Own = Own
  Blank = Blank
INVARIANTS
  HandoffTypeOK
  HandoffWhole
PROPERTIES
  RemovedStaysRemoved
  PhotosArrive
CHECK_DEADLOCK FALSE
