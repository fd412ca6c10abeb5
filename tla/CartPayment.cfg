\* One order, two items, and two gateways that repeat their callbacks, one of
\* which also sends the buyer's browser back.
SPECIFICATION FairSpec
CONSTANTS
  Items = {i1, i2}
  Orders = {o1}
  Gateways = {g1, g2}
  Redirecting = {g1}
  MaxQty = 1
INVARIANTS OneReceipt UnchargedOnlyByReturn
PROPERTIES CartLossesExplained LedgerSpec ChargeIsAnswered
CHECK_DEADLOCK FALSE
