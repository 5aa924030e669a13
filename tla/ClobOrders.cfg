SPECIFICATION Spec
CHECK_DEADLOCK FALSE
CONSTANTS
  c1 = c1
  c2 = c2
  o1 = o1
  o2 = o2
  NoId = NoId
  Calls = {c1, c2}
  Old = {o1, o2}
  MaxOrders = 3
  Arguments <- ArgumentsOf
  Requests <- RequestsOf
  OrderSigners = {c1}
  RefuseCodes = {404, 422}
  StopCodes = {403, 503}
  Tick = 10
  Fine = 4
  Wrap = 65536
INVARIANTS
  TypeOK
  CancelledAsReported
  ReplaceWhole
  EveryItemAnswered
  OrdersVerify
  LimitKept
PROPERTIES
  PromiseKept
