------------------------------ MODULE LiveStock ------------------------------
(***************************************************************************)
(* One-tap orders of a live product: OrderService.PlaceLiveOrder under the *)
(* Redis lock "product:<id>:stock" (cache.AcquireLock / Lock.Release).     *)
(*                                                                         *)
(* One row of live_session_products is modelled: the lock key and the row  *)
(* are per product, so requests for other products never touch them.  Each *)
(* member of Requests is one POST /api/orders; a request takes one step    *)
(* per Redis or Postgres round trip, and other requests run in between.    *)
(*                                                                         *)
(* Each round trip may also fail, on its own.  A failed read, coupon check *)
(* or INSERT ends the request with an error; the error of the UPDATE of    *)
(* the stock and of the release script is discarded, and the request goes  *)
(* on as if they had worked.  `missed` records the orders this leaves in   *)
(* live_orders whose units were never taken off the stock.                 *)
(*                                                                         *)
(* A request may be abandoned at any step.  That stands both for the death *)
(* of the API process and for a cancelled request context: in the latter   *)
(* the remaining statements fail, and the deferred Release (which uses the *)
(* same context) fails too, so in either case nothing more is written and  *)
(* the key stays until its TTL.                                            *)
(***************************************************************************)
EXTENDS Integers, FiniteSets

CONSTANTS
  Requests,       \* the order requests
  NoToken,        \* the lock key is absent
  MaxQty,         \* bound on the quantity of one request
  InitialStock,   \* stock_left when the host pinned the product
  Retries,        \* LockOptions.Retries
  MayOverrun      \* may a holder still be running when its TTL elapses?

ASSUME LiveStockAssumption ==
  /\ IsFiniteSet(Requests)
  /\ NoToken \notin Requests
  /\ MaxQty \in Nat \ {0}
  /\ InitialStock \in Nat
  /\ Retries \in Nat
  /\ MayOverrun \in BOOLEAN

VARIABLES
  lock,        \* value of the Redis key: the token of a request, or NoToken
  pc,          \* next step of each request
  attempts,    \* SETNX attempts of a request that found the key taken
  qty,         \* requested quantity (0 before the request arrives)
  present,     \* does the live_session_products row still exist?
  stock_left,  \* its two counters
  sold_count,
  placed,      \* requests whose live_orders row is inserted
  missed       \* (history) those of placed whose units never leave the stock

vars ==
  <<lock, pc, attempts, qty, present, stock_left, sold_count, placed, missed>>
orders == <<placed, missed>>
row == <<present, stock_left, sold_count>>

\* Steps at which a request believes that it holds the lock.
InSection == {"read", "coupon", "insert", "decrement", "release"}
Ended == {"done", "abandoned"}
Steps == {"idle", "acquire"} \cup InSection \cup Ended

TypeOK ==
  /\ lock \in Requests \cup {NoToken}
  /\ pc \in [Requests -> Steps]
  /\ attempts \in [Requests -> 0..Retries]
  /\ qty \in [Requests -> 0..MaxQty]
  /\ \A r \in Requests : pc[r] # "idle" => qty[r] > 0
  /\ present \in BOOLEAN
  /\ stock_left \in Int
  /\ sold_count \in Nat
  /\ placed \in SUBSET Requests
  /\ missed \in SUBSET Requests

Init ==
  /\ lock = NoToken
  /\ pc = [r \in Requests |-> "idle"]
  /\ attempts = [r \in Requests |-> 0]
  /\ qty = [r \in Requests |-> 0]
  /\ present = TRUE
  /\ stock_left = InitialStock
  /\ sold_count = 0
  /\ placed = {}
  /\ missed = {}

------------------------------------------------------------------------------
GoTo(r, step) == pc' = [pc EXCEPT ![r] = step]

\* placeOrder binds quantity with min=1 before it calls the service.
Arrive(r, q) ==
  /\ pc[r] = "idle"
  /\ qty' = [qty EXCEPT ![r] = q]
  /\ GoTo(r, "acquire")
  /\ UNCHANGED <<lock, attempts, row, orders>>

\* Mutant: SET without NX.
AcquireNoNX(r) ==
  /\ pc[r] = "acquire"
  /\ lock' = r
  /\ GoTo(r, "read")
  /\ UNCHANGED <<attempts, qty, row, orders>>

\* SET NX succeeds.
Acquire(r) ==
  /\ pc[r] = "acquire"
  /\ lock = NoToken
  /\ lock' = r
  /\ GoTo(r, "read")
  /\ UNCHANGED <<attempts, qty, row, orders>>

\* SET NX finds another token; after attempt number Retries the caller gets
\* ErrLockHeld, which PlaceLiveOrder reports as a conflict.
AcquireBusy(r) ==
  /\ pc[r] = "acquire"
  /\ lock # NoToken
  /\ IF attempts[r] = Retries
       THEN GoTo(r, "done") /\ UNCHANGED attempts
       ELSE attempts' = [attempts EXCEPT ![r] = @ + 1] /\ UNCHANGED pc
  /\ UNCHANGED <<lock, qty, row, orders>>

\* SET NX fails: AcquireLock gives up at once, and nobody will release the key
\* that the lost command may have set.
AcquireFails(r) ==
  /\ pc[r] = "acquire"
  /\ \/ UNCHANGED lock
     \/ lock = NoToken /\ lock' = r
  /\ GoTo(r, "done")
  /\ UNCHANGED <<attempts, qty, row, orders>>

\* Mutant: checks that some unit is left, not that enough are.
ReadStockAnyLeft(r) ==
  /\ pc[r] = "read"
  /\ \/ present /\ stock_left > 0 /\ GoTo(r, "coupon")
     \/ GoTo(r, "release")
  /\ UNCHANGED <<lock, attempts, qty, row, orders>>

\* SELECT of the row, then the stock check on what it returned.  Too little
\* stock, no row and a failed statement all end in an error.
ReadStock(r) ==
  /\ pc[r] = "read"
  /\ \/ present /\ stock_left >= qty[r] /\ GoTo(r, "coupon")
     \/ GoTo(r, "release")
  /\ UNCHANGED <<lock, attempts, qty, row, orders>>

\* ApplyCoupon accepts the code (or none was given), or returns its error.
CheckCoupon(r) ==
  /\ pc[r] = "coupon"
  /\ \/ GoTo(r, "insert")
     \/ GoTo(r, "release")
  /\ UNCHANGED <<lock, attempts, qty, row, orders>>

\* INSERT INTO live_orders; product_id references the row, so the statement
\* fails once the row is gone.  It may fail before, without effect or with its
\* reply lost after the commit: the request then ends without the UPDATE.
InsertOrder(r) ==
  /\ pc[r] = "insert"
  /\ \/ present /\ placed' = placed \cup {r} /\ GoTo(r, "decrement") /\ UNCHANGED missed
     \/ UNCHANGED orders /\ GoTo(r, "release")
     \/ /\ present /\ GoTo(r, "release")
        /\ placed' = placed \cup {r} /\ missed' = missed \cup {r}
  /\ UNCHANGED <<lock, attempts, qty, row>>

\* Mutants: sold_count counts orders, not units; and the statement reaches a
\* product that is no longer pinned.
DecrementStockByOrder(r) ==
  /\ pc[r] = "decrement"
  /\ \/ /\ present
        /\ stock_left' = stock_left - qty[r] /\ sold_count' = sold_count + 1
        /\ UNCHANGED missed
     \/ missed' = missed \cup {r} /\ UNCHANGED <<stock_left, sold_count>>
  /\ GoTo(r, "release")
  /\ UNCHANGED <<lock, attempts, qty, present, placed>>

DecrementStockUnpinned(r) ==
  /\ pc[r] = "decrement"
  /\ stock_left' = stock_left - qty[r]
  /\ sold_count' = sold_count + qty[r]
  /\ GoTo(r, "release")
  /\ UNCHANGED <<lock, attempts, qty, present, orders>>

\* The unconditional UPDATE of both counters.  It has no effect when the row is
\* gone or the statement fails; its result is discarded, and the request goes on
\* to its answer 201 either way.  RecordUsage and the order.created event follow;
\* they do not touch this state.
DecrementStock(r) ==
  /\ pc[r] = "decrement"
  /\ \/ /\ present
        /\ stock_left' = stock_left - qty[r] /\ sold_count' = sold_count + qty[r]
        /\ UNCHANGED missed
     \/ missed' = missed \cup {r} /\ UNCHANGED <<stock_left, sold_count>>
  /\ GoTo(r, "release")
  /\ UNCHANGED <<lock, attempts, qty, present, placed>>

\* Mutant: DEL without comparing the token.
ReleaseAny(r) ==
  /\ pc[r] = "release"
  /\ lock' = NoToken
  /\ GoTo(r, "done")
  /\ UNCHANGED <<attempts, qty, row, orders>>

\* The release script deletes the key only while it holds the caller's token;
\* its error is discarded.
Release(r) ==
  /\ pc[r] = "release"
  /\ \/ lock' = IF lock = r THEN NoToken ELSE lock
     \/ UNCHANGED lock
  /\ GoTo(r, "done")
  /\ UNCHANGED <<attempts, qty, row, orders>>

\* Crash of the process or cancellation of the request context.
Abandon(r) ==
  /\ pc[r] \notin Ended \cup {"idle"}
  /\ GoTo(r, "abandoned")
  /\ missed' = IF pc[r] = "decrement" THEN missed \cup {r} ELSE missed
  /\ UNCHANGED <<lock, attempts, qty, row, placed>>

\* Mutant: the key is set without a TTL, so it goes only by Release.
ExpireNever ==
  /\ lock # NoToken
  /\ pc[lock] = "done"
  /\ lock' = NoToken
  /\ UNCHANGED <<pc, attempts, qty, row, orders>>

\* The key's TTL elapses.
Expire ==
  /\ lock # NoToken
  /\ MayOverrun \/ pc[lock] \notin InSection
  /\ lock' = NoToken
  /\ UNCHANGED <<pc, attempts, qty, row, orders>>

\* The host unpins the product (RemoveProduct), or ReplaceProducts deletes the
\* row and inserts the list again under fresh ids.
RemoveRow ==
  /\ present
  /\ present' = FALSE
  /\ UNCHANGED <<lock, pc, attempts, qty, stock_left, sold_count, orders>>

Step(r) ==
  \/ Acquire(r) \/ AcquireBusy(r) \/ AcquireFails(r) \/ ReadStock(r)
  \/ CheckCoupon(r) \/ InsertOrder(r) \/ DecrementStock(r) \/ Release(r)

Next ==
  \/ \E r \in Requests : Step(r) \/ Abandon(r) \/ \E q \in 1..MaxQty : Arrive(r, q)
  \/ Expire
  \/ RemoveRow

Spec == Init /\ [][Next]_vars

\* The scheduler keeps running a request that is not abandoned, and Redis
\* removes a key whose TTL is over.  Clients and hosts promise nothing.
FairSpec == Spec /\ WF_vars(Expire) /\ \A r \in Requests : WF_vars(Step(r))

------------------------------------------------------------------------------
\* The units that the requests R ask for when r asks for ask[r], numbered from 1
\* within each request, and their number.
AskedBy(ask, R) == {u \in R \X (1..MaxQty) : u[2] <= ask[u[1]]}
Units(R) == Cardinality(AskedBy(qty, R))

\* The lock does its job: at most one request is between its stock check and
\* its decrement (OrderService.PlaceLiveOrder relies on this and nothing else).
OneHolder == \A r \in Requests : pc[r] \in InSection => lock = r

\* The unguarded UPDATE never takes the stock of a live product below zero.
NoOversell == stock_left >= 0

\* Accounting, exact: the units that left the stock are the units of the orders
\* in live_orders, but for the one whose decrement is still to come and for those
\* whose decrement was lost (the discarded error of the UPDATE in PlaceLiveOrder).
StockMatchesOrders ==
  /\ stock_left + sold_count = InitialStock
  /\ sold_count = Units({r \in placed \ missed : pc[r] # "decrement"})

\* The orders in live_orders ask for more than the host offered by at most the
\* units of the orders whose decrement was lost: the check and the decrement of
\* PlaceLiveOrder never promise a unit twice, and a lost decrement puts its own
\* units on sale again, once.
SoldTwiceOnlyIfMissed == Units(placed) <= InitialStock + Units(missed)

\* A request never deletes a lock that another request holds, even when its own
\* lease ran out long ago (the token comparison of the release script).
ForeignLockKept ==
  [][\A r \in Requests : pc'[r] # pc[r] /\ lock \notin {r, NoToken}
                           => lock' = lock]_vars

\* A holder that dies does not block the product forever.
LockIsFreed == (lock # NoToken) ~> (lock = NoToken)

\* The counters as an abstract ledger: see StockLedger.
Ledger == INSTANCE StockLedger WITH left <- stock_left, closed <- ~present
LedgerSpec == Ledger!Spec
==============================================================================
