SPECIFICATION MCSpec
CONSTANTS
  MaxCheckouts = 2
  BillingWorkers = {1, 2}
  MaxChanges = 2
  MaxBillingFaults = 1
  Orders = {"first", "second"}
  Names = {"org", "net"}
  ListLimit = 1
  MaxDomainFaults = 1
  Websites = {"first", "second"}
  FleetMax = 1
  MaxRemovalFaults = 1
INVARIANTS
  BilledOnce
  AccessHeedsSignals
  DomainBoughtOnce
  NothingOutlivesItsRecord
PROPERTIES
  AccessFollowsProvider
  PaymentsAreAnswered
  RemovalsComplete
CHECK_DEADLOCK FALSE
