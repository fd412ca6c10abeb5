--------------------------- MODULE LiveStockProofs ---------------------------
(***************************************************************************)
(* Theorems about LiveStock for any number of requests, any stock and any  *)
(* retry bound, under the assumption that a lease outlives its holder.     *)
(***************************************************************************)
EXTENDS LiveStock, FiniteSetTheorems, TLAPS

\* What every step needs about the others: the holder's token is in the key,
\* and a request that passed the stock check still has its units there.
ChecksHold ==
  \A r \in Requests :
    pc[r] \in {"coupon", "insert", "decrement"} => qty[r] <= stock_left

IInv == TypeOK /\ OneHolder /\ NoOversell /\ ChecksHold

USE DEF GoTo, row, orders, Ended, InSection, Steps

\* One step keeps the types.
LEMMA TypingStep == ASSUME TypeOK, [Next]_vars PROVE TypeOK'
<1> USE LiveStockAssumption DEF TypeOK
<1>1. ASSUME NEW r \in Requests, NEW q \in 1..MaxQty, Arrive(r, q) PROVE TypeOK'
  BY <1>1 DEF Arrive
<1>2. ASSUME NEW r \in Requests, Acquire(r) PROVE TypeOK'
  BY <1>2 DEF Acquire
<1>3. ASSUME NEW r \in Requests, AcquireBusy(r) PROVE TypeOK'
  <2>1. CASE attempts[r] = Retries
    BY <1>3, <2>1 DEF AcquireBusy
  <2>2. CASE attempts[r] # Retries
    <3>1. attempts[r] + 1 \in 0..Retries
      BY <2>2
    <3>2. QED
      BY <1>3, <2>2, <3>1 DEF AcquireBusy
  <2>3. QED
    BY <2>1, <2>2
<1>0. ASSUME NEW r \in Requests, AcquireFails(r) PROVE TypeOK'
  BY <1>0 DEF AcquireFails
<1>4. ASSUME NEW r \in Requests, ReadStock(r) PROVE TypeOK'
  BY <1>4 DEF ReadStock
<1>5. ASSUME NEW r \in Requests, CheckCoupon(r) PROVE TypeOK'
  BY <1>5 DEF CheckCoupon
<1>6. ASSUME NEW r \in Requests, InsertOrder(r) PROVE TypeOK'
  BY <1>6 DEF InsertOrder
<1>7. ASSUME NEW r \in Requests, DecrementStock(r) PROVE TypeOK'
  BY <1>7 DEF DecrementStock
<1>8. ASSUME NEW r \in Requests, Release(r) PROVE TypeOK'
  BY <1>8 DEF Release
<1>9. ASSUME NEW r \in Requests, Abandon(r) PROVE TypeOK'
  BY <1>9 DEF Abandon
<1>10. CASE Expire
  BY <1>10 DEF Expire
<1>11. CASE RemoveRow
  BY <1>11 DEF RemoveRow
<1>12. CASE UNCHANGED vars
  BY <1>12 DEF vars
<1>13. QED
  BY <1>0, <1>1, <1>2, <1>3, <1>4, <1>5, <1>6, <1>7, <1>8, <1>9, <1>10, <1>11, <1>12
     DEF Next, Step

\* The variables keep their types whatever the leases do.
THEOREM Typing == Spec => []TypeOK
<1>1. Init => TypeOK
  BY LiveStockAssumption DEF Init, TypeOK
<1>2. TypeOK /\ [Next]_vars => TypeOK'
  BY TypingStep
<1>3. QED
  BY <1>1, <1>2, PTL DEF Spec

\* One step keeps the mutual exclusion of the section (PlaceLiveOrder's lock).
LEMMA OneHolderStep ==
  ASSUME ~MayOverrun, TypeOK, OneHolder, [Next]_vars
  PROVE  OneHolder'
<1> USE LiveStockAssumption DEF TypeOK, OneHolder
<1>1. ASSUME NEW r \in Requests, NEW q \in 1..MaxQty, Arrive(r, q) PROVE OneHolder'
  BY <1>1 DEF Arrive
<1>2. ASSUME NEW r \in Requests, Step(r) PROVE OneHolder'
  BY <1>2 DEF Step, Acquire, AcquireBusy, AcquireFails, ReadStock, CheckCoupon,
              InsertOrder, DecrementStock, Release
<1>3. ASSUME NEW r \in Requests, Abandon(r) PROVE OneHolder'
  BY <1>3 DEF Abandon
<1>4. CASE Expire
  BY <1>4 DEF Expire
<1>5. CASE RemoveRow
  BY <1>5 DEF RemoveRow
<1>6. CASE UNCHANGED vars
  BY <1>6 DEF vars
<1>7. QED
  BY <1>1, <1>2, <1>3, <1>4, <1>5, <1>6 DEF Next

\* One step keeps the stock above zero and every passed check true: only the
\* request inside the section may deduct, and it checked the same counter.
LEMMA StockStep ==
  ASSUME TypeOK, OneHolder, NoOversell, ChecksHold, [Next]_vars
  PROVE  NoOversell' /\ ChecksHold'
<1> USE LiveStockAssumption DEF TypeOK, NoOversell, ChecksHold
<1>1. ASSUME NEW r \in Requests, NEW q \in 1..MaxQty, Arrive(r, q)
      PROVE  NoOversell' /\ ChecksHold'
  BY <1>1 DEF Arrive
<1>2. ASSUME NEW r \in Requests, Acquire(r) \/ AcquireBusy(r) \/ AcquireFails(r)
      PROVE  NoOversell' /\ ChecksHold'
  BY <1>2 DEF Acquire, AcquireBusy, AcquireFails
<1>3. ASSUME NEW r \in Requests, ReadStock(r)
      PROVE  NoOversell' /\ ChecksHold'
  BY <1>3 DEF ReadStock
<1>4. ASSUME NEW r \in Requests, CheckCoupon(r) \/ InsertOrder(r)
      PROVE  NoOversell' /\ ChecksHold'
  BY <1>4 DEF CheckCoupon, InsertOrder
<1>5. ASSUME NEW r \in Requests, DecrementStock(r)
      PROVE  NoOversell' /\ ChecksHold'
  <2>1. \A s \in Requests \ {r} : pc[s] \notin InSection
    BY <1>5 DEF OneHolder, DecrementStock
  <2>2. stock_left' >= 0
    BY <1>5 DEF DecrementStock
  <2>3. QED
    BY <1>5, <2>1, <2>2 DEF DecrementStock
<1>6. ASSUME NEW r \in Requests, Release(r) \/ Abandon(r)
      PROVE  NoOversell' /\ ChecksHold'
  BY <1>6 DEF Release, Abandon
<1>7. CASE Expire \/ RemoveRow \/ UNCHANGED vars
  BY <1>7 DEF Expire, RemoveRow, vars
<1>8. QED
  BY <1>1, <1>2, <1>3, <1>4, <1>5, <1>6, <1>7 DEF Next, Step

\* The strengthening is inductive: a passed check stays true until its decrement.
LEMMA Inductive == ASSUME ~MayOverrun PROVE Spec => []IInv
<1>1. Init => IInv
  BY LiveStockAssumption DEF Init, IInv, TypeOK, OneHolder, NoOversell, ChecksHold
<1>2. IInv /\ TypeOK' /\ [Next]_vars => IInv'
  BY OneHolderStep, StockStep DEF IInv
<1>3. QED
  BY <1>1, <1>2, Typing, PTL DEF Spec

\* At most one request is ever between its stock check and its decrement, for
\* any number of requests, when leases outlive their holders.
THEOREM MutualExclusion == ASSUME ~MayOverrun PROVE Spec => []OneHolder
<1>1. IInv => OneHolder
  BY DEF IInv
<1>2. QED
  BY <1>1, Inductive, PTL

\* The live product is never oversold although the UPDATE has no guard of its
\* own, when leases outlive their holders.
THEOREM NeverOversold == ASSUME ~MayOverrun PROVE Spec => []NoOversell
<1>1. IInv => NoOversell
  BY DEF IInv
<1>2. QED
  BY <1>1, Inductive, PTL

\* Whatever the leases do, no step of a request removes or takes over a lock that
\* another one holds.
THEOREM ForeignLocksStay == Spec => ForeignLockKept
<1> DEFINE Kept == \A r \in Requests : pc'[r] # pc[r] /\ lock \notin {r, NoToken}
                                        => lock' = lock
<1>1. TypeOK /\ [Next]_vars => [Kept]_vars
  <2> SUFFICES ASSUME TypeOK, Next PROVE Kept
    BY DEF vars
  <2> USE DEF TypeOK
  <2>1. ASSUME NEW r \in Requests,
               Acquire(r) \/ AcquireBusy(r) \/ AcquireFails(r) \/ ReadStock(r)
                 \/ CheckCoupon(r) \/ InsertOrder(r) \/ DecrementStock(r)
                 \/ Release(r) \/ Abandon(r)
        PROVE  Kept
    BY <2>1 DEF Acquire, AcquireBusy, AcquireFails, ReadStock, CheckCoupon,
                InsertOrder, DecrementStock, Release, Abandon
  <2>2. ASSUME NEW r \in Requests, NEW q \in 1..MaxQty, Arrive(r, q)
        PROVE  Kept
    BY <2>2 DEF Arrive
  <2>3. CASE Expire \/ RemoveRow
    BY <2>3 DEF Expire, RemoveRow
  <2> QED
    BY <2>1, <2>2, <2>3 DEF Next, Step
<1> QED
  BY <1>1, Typing, PTL DEF Spec, ForeignLockKept

\* PlaceLiveOrder implements the stock ledger: every step sells units that are
\* there in one go, closes the ledger, or leaves it alone.
THEOREM ImplementsLedger == ASSUME ~MayOverrun PROVE Spec => LedgerSpec
<1> USE DEF Ledger!LedgerInit, Ledger!LedgerNext, Ledger!Sell, Ledger!Close,
            Ledger!ledger
<1>1. Init => Ledger!LedgerInit
  BY DEF Init
<1>2. IInv /\ [Next]_vars => [Ledger!LedgerNext]_(Ledger!ledger)
  <2> SUFFICES ASSUME IInv, [Next]_vars
               PROVE  [Ledger!LedgerNext]_(Ledger!ledger)
    OBVIOUS
  <2> USE LiveStockAssumption DEF IInv, TypeOK
  <2>1. ASSUME NEW r \in Requests, DecrementStock(r)
        PROVE  [Ledger!LedgerNext]_(Ledger!ledger)
    <3>1. CASE present /\ stock_left' = stock_left - qty[r]
      <4>1. qty[r] \in 1..MaxQty
        BY <2>1 DEF DecrementStock
      <4>2. Ledger!Sell(qty[r])
        BY <2>1, <3>1, <4>1 DEF DecrementStock, ChecksHold
      <4>3. QED
        BY <4>1, <4>2
    <3>2. CASE UNCHANGED stock_left
      BY <2>1, <3>2 DEF DecrementStock
    <3>3. QED
      BY <2>1, <3>1, <3>2 DEF DecrementStock
  <2>2. ASSUME NEW r \in Requests, NEW q \in 1..MaxQty, Arrive(r, q)
        PROVE  UNCHANGED Ledger!ledger
    BY <2>2 DEF Arrive
  <2>3. ASSUME NEW r \in Requests,
               Acquire(r) \/ AcquireBusy(r) \/ AcquireFails(r) \/ ReadStock(r)
                 \/ CheckCoupon(r) \/ InsertOrder(r) \/ Release(r) \/ Abandon(r)
        PROVE  UNCHANGED Ledger!ledger
    BY <2>3 DEF Acquire, AcquireBusy, AcquireFails, ReadStock, CheckCoupon,
                InsertOrder, Release, Abandon
  <2>4. CASE Expire \/ UNCHANGED vars
    BY <2>4 DEF Expire, vars
  <2>5. CASE RemoveRow
    BY <2>5 DEF RemoveRow
  <2>6. QED
    BY <2>1, <2>2, <2>3, <2>4, <2>5 DEF Next, Step
<1>3. QED
  BY <1>1, <1>2, Inductive, PTL DEF Spec, LedgerSpec, Ledger!Spec

------------------------------------------------------------------------------
(* Accounting of units. *)

\* What the requests of a set ask for is a finite set, so that Units is a number.
LEMMA AskedIsFinite ==
  ASSUME NEW R \in SUBSET Requests, NEW ask
  PROVE  IsFiniteSet(AskedBy(ask, R)) /\ Cardinality(AskedBy(ask, R)) \in Nat
<1>1. IsFiniteSet(R) /\ IsFiniteSet(1..MaxQty)
  BY LiveStockAssumption, FS_Subset, FS_Interval
<1>2. IsFiniteSet(R \X (1..MaxQty))
  BY <1>1, FS_Product
<1>3. AskedBy(ask, R) \in SUBSET (R \X (1..MaxQty))
  BY DEF AskedBy
<1>4. QED
  BY <1>2, <1>3, FS_Subset, FS_CardinalityType

\* More requests ask for no fewer units.
LEMMA AskedMonotone ==
  ASSUME NEW R \in SUBSET Requests, NEW S \in SUBSET R, NEW ask
  PROVE  Cardinality(AskedBy(ask, S)) <= Cardinality(AskedBy(ask, R))
<1>1. AskedBy(ask, S) \in SUBSET AskedBy(ask, R)
  BY DEF AskedBy
<1>2. QED
  BY <1>1, AskedIsFinite, FS_Subset

\* A further request adds exactly the units it asks for.
LEMMA AskedAdds ==
  ASSUME NEW R \in SUBSET Requests, NEW r \in Requests \ R,
         NEW ask \in [Requests -> 0..MaxQty]
  PROVE  Cardinality(AskedBy(ask, R \cup {r})) = Cardinality(AskedBy(ask, R)) + ask[r]
<1> DEFINE own == {r} \X (1..ask[r])
<1>1. ask[r] \in 0..MaxQty /\ MaxQty \in Nat
  BY LiveStockAssumption
<1>2. AskedBy(ask, R \cup {r}) = AskedBy(ask, R) \cup own
  BY <1>1 DEF AskedBy
<1>3. AskedBy(ask, R) \cap own = {}
  BY DEF AskedBy
<1>4. IsFiniteSet(own) /\ Cardinality(own) = ask[r]
  <2>1. IsFiniteSet({r}) /\ Cardinality({r}) = 1
    BY FS_Singleton
  <2>2. IsFiniteSet(1..ask[r]) /\ Cardinality(1..ask[r]) = ask[r]
    BY <1>1, FS_Interval
  <2>3. QED
    BY <1>1, <2>1, <2>2, FS_Product
<1>5. IsFiniteSet(AskedBy(ask, R)) /\ Cardinality(AskedBy(ask, R)) \in Nat
  BY AskedIsFinite
<1>6. Cardinality({}) = 0
  BY FS_EmptySet
<1>7. Cardinality(AskedBy(ask, R) \cup own)
        = Cardinality(AskedBy(ask, R)) + Cardinality(own) - Cardinality({})
  BY <1>3, <1>4, <1>5, FS_Union
<1> HIDE DEF own
<1>8. Cardinality(AskedBy(ask, R \cup {r})) = Cardinality(AskedBy(ask, R)) + ask[r] - 0
  BY <1>2, <1>4, <1>6, <1>7
<1>9. QED
  BY <1>1, <1>5, <1>8

Settled == {r \in placed \ missed : pc[r] # "decrement"}

\* Where a request stands tells whether its order is inserted, and only an order
\* that is past its decrement has missed it.
PlacedByNow ==
  \A r \in Requests :
    /\ pc[r] \in {"idle", "acquire", "read", "coupon", "insert"} => r \notin placed
    /\ pc[r] = "decrement" => r \in placed
    /\ r \in missed => r \in placed /\ pc[r] # "decrement"

AccountInv == PlacedByNow /\ StockMatchesOrders

\* One step keeps the accounts, whatever the leases do: the units of a request
\* enter sold_count in the step that ends its decrement, and no other way.
LEMMA AccountStep ==
  ASSUME TypeOK, AccountInv, [Next]_vars
  PROVE  AccountInv'
<1> USE LiveStockAssumption DEF TypeOK
<1>0. TypeOK'
  BY TypingStep
<1>1. PlacedByNow'
  <2> USE DEF AccountInv, PlacedByNow
  <2>1. ASSUME NEW r \in Requests, NEW q \in 1..MaxQty, Arrive(r, q) PROVE PlacedByNow'
    BY <2>1 DEF Arrive
  <2>2. ASSUME NEW r \in Requests,
               Acquire(r) \/ AcquireBusy(r) \/ AcquireFails(r) \/ ReadStock(r)
                 \/ CheckCoupon(r) \/ Release(r)
        PROVE  PlacedByNow'
    BY <2>2 DEF Acquire, AcquireBusy, AcquireFails, ReadStock, CheckCoupon, Release
  <2>3. ASSUME NEW r \in Requests, InsertOrder(r) \/ DecrementStock(r) \/ Abandon(r)
        PROVE  PlacedByNow'
    BY <2>3 DEF InsertOrder, DecrementStock, Abandon
  <2>4. CASE Expire \/ RemoveRow \/ UNCHANGED vars
    BY <2>4 DEF Expire, RemoveRow, vars
  <2> QED
    BY <2>1, <2>2, <2>3, <2>4 DEF Next, Step
<1>2. StockMatchesOrders'
  <2>1. /\ stock_left + sold_count = InitialStock
        /\ sold_count = Cardinality(AskedBy(qty, Settled))
    BY DEF AccountInv, StockMatchesOrders, Units, Settled
  <2>2. Settled \in SUBSET Requests /\ Settled' \in SUBSET Requests
    BY <1>0 DEF Settled
  <2>3. ASSUME stock_left' + sold_count' = InitialStock,
               sold_count' = Cardinality(AskedBy(qty', Settled'))
        PROVE  StockMatchesOrders'
    BY <2>3 DEF StockMatchesOrders, Units, AskedBy, Settled
  <2>4. ASSUME NEW r \in Requests, DecrementStock(r), sold_count' = sold_count + qty[r],
               stock_left' = stock_left - qty[r], missed' = missed
        PROVE  StockMatchesOrders'
    <3>1. r \in placed \ missed /\ pc[r] = "decrement" /\ qty' = qty /\ qty[r] \in 0..MaxQty
      BY <2>4 DEF DecrementStock, AccountInv, PlacedByNow
    <3>2. Settled' = Settled \cup {r} /\ r \in Requests \ Settled
      BY <2>4, <3>1 DEF DecrementStock, Settled
    <3>3. Cardinality(AskedBy(qty, Settled')) = Cardinality(AskedBy(qty, Settled)) + qty[r]
      BY <2>2, <3>2, AskedAdds
    <3> QED
      BY <2>1, <2>3, <2>4, <3>1, <3>3
  <2>5. ASSUME NEW r \in Requests, NEW q \in 1..MaxQty, Arrive(r, q)
        PROVE  StockMatchesOrders'
    <3>1. r \notin placed /\ \A s \in placed : qty'[s] = qty[s] /\ pc'[s] = pc[s]
      BY <2>5 DEF Arrive, AccountInv, PlacedByNow
    <3>2. UNCHANGED <<placed, missed, stock_left, sold_count>>
      BY <2>5 DEF Arrive
    <3>3. Settled' = Settled
      BY <3>1, <3>2 DEF Settled
    <3>4. AskedBy(qty', Settled) = AskedBy(qty, Settled)
      BY <3>1 DEF AskedBy, Settled
    <3> QED
      BY <2>1, <2>3, <3>2, <3>3, <3>4
  <2>6. ASSUME NEW r \in Requests,
               Acquire(r) \/ AcquireBusy(r) \/ AcquireFails(r) \/ ReadStock(r)
                 \/ CheckCoupon(r) \/ Release(r)
        PROVE  StockMatchesOrders'
    <3>1. UNCHANGED <<qty, stock_left, sold_count, placed, missed>>
      BY <2>6 DEF Acquire, AcquireBusy, AcquireFails, ReadStock, CheckCoupon, Release
    <3>2. \A s \in placed : pc[s] # "decrement" <=> pc'[s] # "decrement"
      BY <2>6 DEF Acquire, AcquireBusy, AcquireFails, ReadStock, CheckCoupon, Release
    <3> QED
      BY <2>1, <2>3, <3>1, <3>2 DEF Settled
  <2>7. ASSUME NEW r \in Requests, InsertOrder(r) \/ Abandon(r)
        PROVE  StockMatchesOrders'
    <3>1. UNCHANGED <<qty, stock_left, sold_count>>
      BY <2>7 DEF InsertOrder, Abandon
    <3>2. \A s \in Requests \ {r} :
            /\ pc'[s] = pc[s] /\ (s \in placed' <=> s \in placed)
            /\ s \in missed' <=> s \in missed
      BY <2>7 DEF InsertOrder, Abandon
    <3>3. r \in Settled' <=> r \in Settled
      BY <2>7 DEF InsertOrder, Abandon, Settled, AccountInv, PlacedByNow
    <3>4. Settled' = Settled
      BY <1>0, <3>2, <3>3 DEF Settled
    <3> QED
      BY <2>1, <2>3, <3>1, <3>4
  <2>8. ASSUME NEW r \in Requests, DecrementStock(r)
        PROVE  StockMatchesOrders'
    <3>1. \/ sold_count' = sold_count + qty[r] /\ stock_left' = stock_left - qty[r]
             /\ missed' = missed
          \/ UNCHANGED <<stock_left, sold_count>> /\ missed' = missed \cup {r}
      BY <2>8 DEF DecrementStock
    <3>2. CASE UNCHANGED <<stock_left, sold_count>> /\ missed' = missed \cup {r}
      <4>1. Settled' = Settled /\ qty' = qty
        BY <2>8, <3>2 DEF DecrementStock, Settled
      <4> QED
        BY <2>1, <2>3, <3>2, <4>1
    <3> QED
      BY <2>4, <2>8, <3>1, <3>2
  <2>9. CASE Expire \/ RemoveRow \/ UNCHANGED vars
    BY <2>1, <2>3, <2>9 DEF Expire, RemoveRow, vars, Settled
  <2>10. ASSUME NEW r \in Requests, Step(r) PROVE StockMatchesOrders'
    BY <2>6, <2>7, <2>8, <2>10 DEF Step
  <2> QED
    BY <2>5, <2>7, <2>9, <2>10 DEF Next
<1> QED
  BY <1>1, <1>2 DEF AccountInv

\* The accounts hold in every state, with no assumption on the leases.
LEMMA Accounts == Spec => [](TypeOK /\ AccountInv)
<1>1. Init => AccountInv
  <2> SUFFICES ASSUME Init PROVE AccountInv
    OBVIOUS
  <2>1. AskedBy(qty, {r \in placed \ missed : pc[r] # "decrement"}) = {}
    BY DEF Init, AskedBy
  <2>2. QED
    BY <2>1, FS_EmptySet, LiveStockAssumption
       DEF Init, AccountInv, PlacedByNow, StockMatchesOrders, Units
<1>2. TypeOK /\ AccountInv /\ [Next]_vars => AccountInv'
  BY AccountStep
<1>3. QED
  BY <1>1, <1>2, Typing, PTL DEF Spec

\* sold_count and stock_left agree with the rows of live_orders: the units that
\* left the stock are exactly those of the orders whose decrement took effect, for
\* any number of requests, any failed statements and any loss of leases.
THEOREM StockIsAccounted == Spec => []StockMatchesOrders
<1>1. AccountInv => StockMatchesOrders
  BY DEF AccountInv
<1>2. QED
  BY <1>1, Accounts, PTL

\* The orders that did not miss their decrement ask for no more than the host
\* offered, the one between INSERT and UPDATE included.
Honoured == placed \ missed
WithinStock == Units(Honoured) <= InitialStock

\* When leases outlive their holders, a request inserts its order while nobody else
\* is between the check and the decrement, so that every order placed before it is
\* in sold_count or has missed its decrement.
LEMMA WithinStockHolds == ASSUME ~MayOverrun PROVE Spec => []WithinStock
<1> DEFINE Inv == IInv /\ AccountInv
<1>1. Init => WithinStock
  <2> SUFFICES ASSUME Init PROVE WithinStock
    OBVIOUS
  <2>1. AskedBy(qty, Honoured) = {}
    BY DEF Init, AskedBy, Honoured
  <2>2. QED
    BY <2>1, FS_EmptySet, LiveStockAssumption DEF Init, WithinStock, Units
<1>2. Inv /\ WithinStock /\ [Next]_vars => WithinStock'
  <2> SUFFICES ASSUME Inv, WithinStock, [Next]_vars
               PROVE  Cardinality(AskedBy(qty', Honoured')) <= InitialStock
    BY DEF WithinStock, Units, AskedBy
  <2> USE LiveStockAssumption DEF IInv, TypeOK
  <2>1. TypeOK'
    BY TypingStep
  <2>2. Honoured \in SUBSET Requests /\ Honoured' \in SUBSET Requests
    BY <2>1 DEF Honoured
  <2>3. Cardinality(AskedBy(qty, Honoured)) <= InitialStock
    BY DEF WithinStock, Units
  <2>4. ASSUME UNCHANGED qty, Honoured' \in SUBSET Honoured
        PROVE  Cardinality(AskedBy(qty', Honoured')) <= InitialStock
    <3>1. Cardinality(AskedBy(qty, Honoured')) <= Cardinality(AskedBy(qty, Honoured))
      BY <2>2, <2>4, AskedMonotone
    <3>2. /\ Cardinality(AskedBy(qty, Honoured)) \in Nat
          /\ Cardinality(AskedBy(qty, Honoured')) \in Nat
      BY <2>2, AskedIsFinite
    <3>3. QED
      BY <2>3, <2>4, <3>1, <3>2
  <2>5. ASSUME NEW r \in Requests, InsertOrder(r), Honoured' # Honoured
        PROVE  Cardinality(AskedBy(qty', Honoured')) <= InitialStock
    <3>1. qty' = qty /\ qty[r] <= stock_left /\ qty[r] \in 0..MaxQty
      BY <2>5 DEF InsertOrder, ChecksHold
    <3>2. \A s \in Requests : pc[s] # "decrement"
      BY <2>5 DEF InsertOrder, OneHolder
    <3>3. {s \in placed \ missed : pc[s] # "decrement"} = Honoured
      BY <3>2 DEF Honoured
    <3>4. Honoured' = Honoured \cup {r} /\ r \in Requests \ Honoured
      BY <2>5 DEF InsertOrder, Honoured, AccountInv, PlacedByNow
    <3>5. Cardinality(AskedBy(qty, Honoured')) = Cardinality(AskedBy(qty, Honoured)) + qty[r]
      BY <2>2, <3>4, AskedAdds
    <3>6. /\ sold_count = Cardinality(AskedBy(qty, Honoured))
          /\ stock_left + sold_count = InitialStock
      BY <3>3 DEF AccountInv, StockMatchesOrders, Units
    <3>7. QED
      BY <3>1, <3>5, <3>6
  <2>6. ASSUME NEW r \in Requests, NEW q \in 1..MaxQty, Arrive(r, q)
        PROVE  Cardinality(AskedBy(qty', Honoured')) <= InitialStock
    <3>1. r \notin placed /\ \A s \in placed : qty'[s] = qty[s]
      BY <2>6 DEF Arrive, AccountInv, PlacedByNow
    <3>2. Honoured' = Honoured
      BY <2>6 DEF Arrive, Honoured
    <3>3. AskedBy(qty', Honoured) = AskedBy(qty, Honoured)
      BY <3>1 DEF AskedBy, Honoured
    <3>4. QED
      BY <2>3, <3>2, <3>3
  <2>7. ASSUME NEW r \in Requests,
               Acquire(r) \/ AcquireBusy(r) \/ AcquireFails(r) \/ ReadStock(r)
                 \/ CheckCoupon(r) \/ DecrementStock(r) \/ Release(r) \/ Abandon(r)
        PROVE  UNCHANGED qty /\ Honoured' \in SUBSET Honoured
    BY <2>7 DEF Acquire, AcquireBusy, AcquireFails, ReadStock, CheckCoupon,
                DecrementStock, Release, Abandon, Honoured
  <2>8. ASSUME Expire \/ RemoveRow \/ UNCHANGED vars
        PROVE  UNCHANGED qty /\ Honoured' \in SUBSET Honoured
    BY <2>8 DEF Expire, RemoveRow, vars, Honoured
  <2>9. ASSUME NEW r \in Requests, InsertOrder(r)
        PROVE  UNCHANGED qty
    BY <2>9 DEF InsertOrder
  <2>10. QED
    BY <2>4, <2>5, <2>6, <2>7, <2>8, <2>9 DEF Next, Step
<1>3. QED
  BY <1>1, <1>2, Inductive, Accounts, PTL DEF Spec

\* The orders placed exceed the offer by at most the units of the orders that missed
\* their decrement, for any finite set of requests, when leases outlive their holders.
THEOREM ExcessIsMissed == ASSUME ~MayOverrun PROVE Spec => []SoldTwiceOnlyIfMissed
<1>1. TypeOK /\ AccountInv /\ WithinStock => SoldTwiceOnlyIfMissed
  <2> SUFFICES ASSUME TypeOK, AccountInv, WithinStock
               PROVE  Cardinality(AskedBy(qty, placed))
                        <= InitialStock + Cardinality(AskedBy(qty, missed))
    BY DEF SoldTwiceOnlyIfMissed, Units
  <2>1. /\ Honoured \in SUBSET Requests /\ missed \in SUBSET Requests
        /\ placed = Honoured \cup missed /\ Honoured \cap missed = {}
    BY DEF TypeOK, AccountInv, PlacedByNow, Honoured
  <2>2. AskedBy(qty, placed) = AskedBy(qty, Honoured) \cup AskedBy(qty, missed)
    BY <2>1 DEF AskedBy
  <2>3. AskedBy(qty, Honoured) \cap AskedBy(qty, missed) = {}
    BY <2>1 DEF AskedBy
  <2>4. /\ IsFiniteSet(AskedBy(qty, Honoured)) /\ IsFiniteSet(AskedBy(qty, missed))
        /\ Cardinality(AskedBy(qty, Honoured)) \in Nat
        /\ Cardinality(AskedBy(qty, missed)) \in Nat
    BY <2>1, AskedIsFinite
  <2>5. Cardinality(AskedBy(qty, Honoured) \cup AskedBy(qty, missed))
          = Cardinality(AskedBy(qty, Honoured)) + Cardinality(AskedBy(qty, missed))
              - Cardinality({})
    BY <2>3, <2>4, FS_Union
  <2>6. Cardinality({}) = 0 /\ InitialStock \in Nat
    BY FS_EmptySet, LiveStockAssumption
  <2>7. Cardinality(AskedBy(qty, Honoured)) <= InitialStock
    BY DEF WithinStock, Units
  <2>8. QED
    BY <2>2, <2>4, <2>5, <2>6, <2>7
<1>2. QED
  BY <1>1, Accounts, WithinStockHolds, PTL
==============================================================================
