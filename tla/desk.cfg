CONSTANTS
  c1 = c1
  c2 = c2
  c3 = c3
  pat = pat
  quin = quin
  other = other
  m1 = m1
  m2 = m2
  a1 = a1
  a2 = a2
  foreign = foreign
  k1 = k1
  k2 = k2
  k3 = k3
  low = low
  high = high
  ref1 = ref1
  ref2 = ref2
  None = None
  Claims = {m1, m2}
  Applications = {a1, a2, foreign}
  Ours = {m1, m2, a1, a2}
  Late = {a2}
  Clerks = {pat, quin}
  Patient = {pat}
  Others = {other}
  Calls = {c1, c2, c3}
  Asks <- MCAsks
  Codes = {k1, k2, k3}
  Issued = {k1}
  Rates = {low, high}
  NCD_CODE_ATTEMPTS = 2
  MaxMishaps = 1
SPECIFICATION MCSpec
SYMMETRY Symmetry
INVARIANTS TypeOK OneCodePerApproval RepeatAnswersFirst HistoriesAreChains ReloadShowsChange
PROPERTIES AppliedWhileActive
CHECK_DEADLOCK FALSE
