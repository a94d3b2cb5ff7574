CONSTANTS
  t1 = t1
  t2 = t2
  ann = ann
  bob = bob
  zoe = zoe
  s0 = s0
  s1 = s1
  s2 = s2
  s3 = s3
  None = None
  Anonymous = Anonymous
  Tabs = {t1}
  Users = {ann, bob, zoe}
  Staff = {zoe}
  Newcomers = {bob}
  SignIns <- MCSignIns
  Sessions = {s0, s1, s2, s3}
  MaxActs = 2
  MaxMishaps = 1
SPECIFICATION FairSpec
PROPERTY JourneySurvivesOwnSignIn
CHECK_DEADLOCK FALSE
