SPECIFICATION FairSpec
CONSTANTS
  r1 = r1  r2 = r2
  NoRelease = NoRelease
  MaxJobs = 3  MaxCalls = 1
  Releases = {r1}
PROPERTY
  RejectedIsRetryable
