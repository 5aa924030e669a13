SPECIFICATION FairSpec
CHECK_DEADLOCK FALSE
CONSTANTS
  s1 = s1
  s2 = s2
  s3 = s3
  u1 = u1
  None = None
  Subs = {s1, s2}
  Users = {u1}
  UserOf <- OneUser
  OrderSubs = {s1}
  Cap = 1
  MaxOrders = 1
  MaxTrades = 2
PROPERTIES
  DispatchFinishes
  FeedSpec
