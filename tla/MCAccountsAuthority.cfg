SPECIFICATION Spec
CONSTANTS
  ann = ann  bob = bob  eve = eve  b1 = b1
  NoUser = NoUser
  Users = {ann, bob, eve}
  Founder = ann
  Established = {ann, bob, eve}
  Browsers = {b1}
  Purposes = {"invite", "client-invite"}
  Roles = {"owner", "developer"}
  MaxLinks = 2
  MaxClients = 1
  MaxPending = 1
SYMMETRY Symmetry
PROPERTIES
  ClientInvitationDiesWithAuthority
CHECK_DEADLOCK FALSE
