SPECIFICATION MCSpec
CONSTANTS
  b1 = b1  b2 = b2
  w1 = w1  w2 = w2
  x1 = x1  x2 = x2
  Builds = {b1, b2}
  Workers = {w1, w2}
  NoBuild = NoBuild
  MaxReleases = 1
  Executions = {x1, x2}
  NoExecution = NoExecution
  MaxReboots = 1
INVARIANTS
  OneLiveExecution
  OutputSurvivesStops
PROPERTIES
  BuildsSettle
  ImplementsContract
  ExecutionsRetire
