SPECIFICATION Spec
CONSTANTS
  ann = ann  bob = bob  eve = eve  b1 = b1
  NoUser = NoUser
  Users = {ann, bob, eve}
  Founder = ann
  Established = {ann, bob}
  Browsers = {b1}
  Purposes = {"verify", "reset", "invite", "client-invite"}
  Roles = {"owner", "developer"}
  MaxLinks = 3
  MaxClients = 1
  MaxPending = 1
INVARIANTS
  InvitationsAreSound
PROPERTIES
  ActiveOwnerRemains
CHECK_DEADLOCK FALSE
