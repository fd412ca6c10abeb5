\* A lease that always outlives its holder (5s TTL, short statements).
SPECIFICATION Spec
CONSTANTS
  Requests = {r1, r2, r3}
  NoToken = NoToken
  MaxQty = 2
  InitialStock = 3
  Retries = 1
  MayOverrun = FALSE
INVARIANTS OneHolder StockMatchesOrders SoldTwiceOnlyIfMissed
PROPERTY LedgerSpec
CHECK_DEADLOCK FALSE
