CONSTANTS
  c1 = c1
  c2 = c2
  c3 = c3
  ann = ann
  bob = bob
  zig = zig
  madison = madison
  p = p
  u1 = u1
  u2 = u2
  None = None
  Customers = {ann, bob}
  Insurers = {zig, madison}
  Policies = {p}
  Users = {u1, u2}
  Calls = {c1, c2, c3}
  Asks <- MCAsks
  Replies <- AnswerReplies
  Changes <- InsurerChanges
  PolicyOwner <- MCPolicyOwner
  Listing <- MCListing
  LicenceExpiry <- MCLicenceExpiry
  Validity = 1
  MaxTime = 2
SPECIFICATION MCSpec
INVARIANTS TypeOK RivalsSettled NoDeadlock AuditFollowsStatus
PROPERTY ImplementsMarket
CHECK_DEADLOCK FALSE
