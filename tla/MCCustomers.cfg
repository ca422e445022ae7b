SPECIFICATION MCSpec
CONSTANTS
  ann = ann  bob = bob  b1 = b1  b2 = b2  w1 = w1  w2 = w2
  NoUser = NoUser
  NoWorker = NoWorker
  Users = {ann, bob}
  Founder = ann
  Established = {ann}
  Browsers = {b1, b2}
  Purposes = {"verify", "reset"}
  Roles = {"owner"}
  MaxLinks = 1
  MaxClients = 0
  MaxPending = 1
  Workers = {w1, w2}
  MaxAttempts = 2
  MaxMerchantFaults = 1
INVARIANTS
  CredentialsAreCurrent
  UsableLinkIsMailed
  MerchantActsOnce
PROPERTIES
  ObservationsAdvance
  MailSettles
  OutcomesAreRecorded
CHECK_DEADLOCK FALSE
