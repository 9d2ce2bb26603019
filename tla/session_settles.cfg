CONSTANTS
  Users = {ann}
  Logins = {l1, l2}
  Requests = {r1, r2}
  Hydration = me
  MaxRefreshes = 1
  MaxReloads = 1
  NoUser = NoUser
  NoTokens = NoTokens
  NoRefresh = NoRefresh
  NoReply = NoReply
SPECIFICATION FairSpec
PROPERTIES CallsSettle
CHECK_DEADLOCK FALSE
