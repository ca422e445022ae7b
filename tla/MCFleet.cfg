SPECIFICATION MCSpec
CONSTANTS
  r1 = r1  r2 = r2
  NoRelease = NoRelease
  MaxJobs = 2  MaxCalls = 2
  Releases = {r1, r2}
  Images = {r1, r2}
  NoImage = NoImage
  MaxRevisions = 3
  MaxFleetStops = 3
INVARIANTS
  FailedNeverActivates
  PortalFollowsDeployer
  SentOnceInOrder
PROPERTY
  DeploymentsSettle
CHECK_DEADLOCK FALSE
