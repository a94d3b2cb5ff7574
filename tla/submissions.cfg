CONSTANTS
  t1 = t1
  v1 = v1
  v2 = v2
  v3 = v3
  j1 = j1
  j2 = j2
  None = None
  Tabs = {t1}
  Visits = {v1, v2, v3}
  Journeys = {j1, j2}
  MaxAttempt = 2
  MaxPhotos = 1
SPECIFICATION Spec
SYMMETRY Symmetry
INVARIANTS TypeOK SubmittedOnce ResultIsOfThisJourney
CHECK_DEADLOCK FALSE
