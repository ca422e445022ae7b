SPECIFICATION MCSpec
CONSTANTS
  r1 = r1  r2 = r2  w1 = w1  w2 = w2
  a = a  b = b
  NoRelease = NoRelease
  MaxOp = 2
  Releases = {r1, r2}
  Workers = {w1, w2}
  Commits = {a, b}
  First = a
  Gone = Gone
  Processes = {w1}
  Nobody = Nobody
  MaxPushes = 2
  MaxChanges = 2
  MaxAttempts = 2
  MaxLinks = 3
  ImportLimit = 2
  KeepEvents = 1
INVARIANTS
  PortalFollowsRuntime
  NeededIsRetained
  NewestIsNotSuperseded
  SiteFollowsBranch
PROPERTIES
  DeploymentsSettle
  LateLinkLoses
  GitHubSettles
CHECK_DEADLOCK FALSE
