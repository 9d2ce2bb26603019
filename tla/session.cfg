CONSTANTS
  Users = {ann, bob}
  Logins = {l1, l2}
  Requests = {r1, r2}
  Hydration = me
  MaxRefreshes = 2
  MaxReloads = 1
  NoUser = NoUser
  NoTokens = NoTokens
  NoRefresh = NoRefresh
  NoReply = NoReply
SPECIFICATION Spec
SYMMETRY Alike
INVARIANTS UserOwnsTokens LogoutClears
PROPERTIES NoVainFailure KeepsGoodTokens
CHECK_DEADLOCK FALSE
