CONSTANTS
  c1 = c1
  c2 = c2
  c3 = c3
  ann = ann
  bob = bob
  staff = staff
  p1 = p1
  p2 = p2
  w = w
  a1 = a1
  a2 = a2
  q1 = q1
  q2 = q2
  k1 = k1
  k2 = k2
  d1 = d1
  d2 = d2
  m1 = m1
  m2 = m2
  None = None
  Docs = {p1, p2, w, a1, a2, q1, q2, k1, k2}
  Calls = {c1, c2, c3}
  Principals = {ann, bob, staff}
  Parents = {d1, d2, m1, m2}
  Asks <- MCAsks
  DocId <- MCDocId
  Kind <- MCKind
  Uploader <- MCUploader
  Late = {a1}
  ActsFor <- MCActsFor
SPECIFICATION MCSpec
INVARIANTS TypeOK NoDeadlock
PROPERTY ImplementsEvidence
CHECK_DEADLOCK FALSE
