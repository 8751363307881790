CONSTANTS
  u1 = u1
  u2 = u2
  Users = {u1, u2}
  Wallets = {1, 2}
  Members <- MCMembers
  Requests = {r1, r2}
  Amounts = {1, 2}
  MaxRows = 3
  Seeds <- MCSeedsSmall
  MaxRequests = 2
  MaxFlips = 0
  Nobody = Nobody
SPECIFICATION Spec
CHECK_DEADLOCK FALSE
PROPERTY EveryRequestEnds
