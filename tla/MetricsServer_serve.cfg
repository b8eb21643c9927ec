\* Two clients, one of which may write headers without end.  The daemon stops.
CONSTANTS
  c1 = c1
  c2 = c2
  home = home
  abroad = abroad
  banned = banned
  None = None
  Keys <- MCPeers
  Clients = {c1, c2}
  Chatty = {c2}
  Offers <- MCOffers
  Denied = {banned}
  Allowed = {home, banned}
  AllowEmpty = FALSE
  UserConfigured = TRUE
  PublicHealthz = TRUE
  Limits = {1}
  Window = 1
  MaxTime = 2
  Lines = {"good", "torn", "junk"}
  Good = {"good", "torn"}
  Refused = {}
  Torn = "torn"
  MaxLate = 1
CHECK_DEADLOCK FALSE
SPECIFICATION FairSpec
INVARIANTS RefusalHasNoEffect OnlyPermittedWrite PromptAnswerIsRight WindowBound StopLeavesNothing
PROPERTIES EveryConnectionEnds StopReturns
