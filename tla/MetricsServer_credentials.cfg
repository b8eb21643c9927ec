\* A text that names the user, and no password.
CONSTANTS
  c1 = c1
  c2 = c2
  home = home
  abroad = abroad
  banned = banned
  None = None
  Keys <- MCPeers
  Clients = {c1, c2}
  Chatty = {}
  Offers <- MCMentionOffers
  Denied = {banned}
  Allowed = {home, banned}
  AllowEmpty = FALSE
  UserConfigured = TRUE
  PublicHealthz = TRUE
  Limits = {0}
  Window = 2
  MaxTime = 3
  Lines = {"good", "torn", "junk"}
  Good = {"good", "torn"}
  Refused = {}
  Torn = "torn"
  MaxLate = 1
CHECK_DEADLOCK FALSE
SPECIFICATION Spec
INVARIANT CredentialsGate
