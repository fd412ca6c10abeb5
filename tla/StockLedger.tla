----------------------------- MODULE StockLedger -----------------------------
(***************************************************************************)
(* What the stock of a pinned product promises: it starts at InitialStock, *)
(* a sale takes 1..MaxQty units that are there, atomically, and nothing    *)
(* else ever changes it; once the product is unpinned nothing is sold.     *)
(* (The contract PlaceLiveOrder implements with a lock, a read, a check    *)
(* and an unguarded UPDATE.)                                               *)
(***************************************************************************)
EXTENDS Integers

CONSTANTS MaxQty, InitialStock

VARIABLES left, closed

ledger == <<left, closed>>

LedgerInit == left = InitialStock /\ closed = FALSE

Sell(q) ==
  /\ ~closed
  /\ left >= q
  /\ left' = left - q
  /\ UNCHANGED closed

Close == closed' = TRUE /\ UNCHANGED left

LedgerNext == (\E q \in 1..MaxQty : Sell(q)) \/ Close

Spec == LedgerInit /\ [][LedgerNext]_ledger
==============================================================================
