-------------------------- MODULE CartPaymentProofs --------------------------
(***************************************************************************)
(* Theorems about CartPayment for any items, orders, gateways and bound.   *)
(***************************************************************************)
EXTENDS CartPayment, TLAPS

\* What a ConfirmPayment call rests on: the charge of the gateway that called, or the
\* word of a browser that returned from a gateway whose return confirms.
Backed(o) ==
  \/ caller[o] = payer[o] /\ payer[o] \in charged[o]
  \/ caller[o] = "browser" /\ payer[o] \in Redirecting

\* The order row and the ConfirmPayment call that works on it agree: a call runs
\* only on an inserted unpaid row, and is backed; it is over for the publisher
\* exactly when the row is paid, by the gateway that it was to record; the event
\* counts that call.
ConfirmSound ==
  \A o \in Orders :
    /\ pc[o] \in {"new", "listed", "failed"} => status[o] = "none"
    /\ status[o] = "none" => confirm[o] = "none"
    /\ confirm[o] \in {"open", "committed"} => Backed(o)
    /\ confirm[o] = "open" => status[o] = "pending"
    /\ status[o] = "paid" <=> confirm[o] \in {"committed", "published", "lost"}
    /\ status[o] = "paid" => method[o] = payer[o] /\ Backed(o)
    /\ receipts[o] = IF confirm[o] = "published" THEN 1 ELSE 0

USE DEF basket, order, payment, confirmation, Methods

\* Deleting rows keeps the types of the cart.
LEMMA DeleteType ==
  ASSUME TypeOK, NEW S, DeleteRows(S)
  PROVE  /\ cart' \in [Items -> 0..MaxQty]
         /\ selected' \in SUBSET InCart'
         /\ older' \in [Orders -> SUBSET Items]
BY CartPaymentAssumption DEF TypeOK, DeleteRows, InCart

\* What a handler of the cart may do: change the buyer's rows, nothing else.
CartOnly ==
  /\ cart' \in [Items -> 0..MaxQty]
  /\ selected' \in SUBSET InCart'
  /\ older' \in [Orders -> SUBSET Items]
  /\ UNCHANGED <<order, payment, confirmation>>

\* What the buyer does to the cart leaves orders and payments alone.
LEMMA CartStep ==
  ASSUME TypeOK, Cart
  PROVE  CartOnly
<1>1. ASSUME NEW i \in Items, AddItem(i) PROVE CartOnly
  <2>1. cart[i] + 1 \in 0..MaxQty
    BY <1>1, CartPaymentAssumption DEF AddItem, TypeOK
  <2>2. QED
    BY <1>1, <2>1, CartPaymentAssumption DEF AddItem, TypeOK, InCart, CartOnly
<1>2. ASSUME NEW i \in Items, NEW q \in 1..MaxQty, UpdateQty(i, q) PROVE CartOnly
  BY <1>2, CartPaymentAssumption DEF UpdateQty, TypeOK, InCart, CartOnly
<1>3. ASSUME NEW S \in SUBSET Items, NEW on \in BOOLEAN, Select(S, on) PROVE CartOnly
  BY <1>3 DEF Select, TypeOK, InCart, CartOnly
<1>4. ASSUME NEW S \in SUBSET Items, Remove(S) PROVE CartOnly
  BY <1>4, DeleteType DEF Remove, CartOnly
<1>5. \A S \in {{i} : i \in Items} \cup {Items, selected} : S \in SUBSET Items
  BY DEF TypeOK, InCart
<1>6. QED
  BY <1>1, <1>2, <1>3, <1>4, <1>5 DEF Cart

\* The reply goes to a gateway.
LEMMA AckType ==
  ASSUME TypeOK, NEW o \in Orders, Ack(o)
  PROVE  acked' \in [Orders -> SUBSET Gateways]
BY DEF Ack, TypeOK

\* The variables keep their types; a reply goes to the gateway that called.
LEMMA TypeStep ==
  ASSUME TypeOK, ConfirmSound, [Next]_vars
  PROVE  TypeOK'
<1> USE CartPaymentAssumption DEF TypeOK, InCart
<1>1. CASE Cart
  BY <1>1, CartStep DEF CartOnly
<1>2. ASSUME NEW o \in Orders, NEW m \in Methods, ListSelected(o, m) PROVE TypeOK'
  BY <1>2 DEF ListSelected
<1>3. ASSUME NEW o \in Orders, InsertOrder(o) PROVE TypeOK'
  BY <1>3 DEF InsertOrder
<1>4. ASSUME NEW o \in Orders, CleanCart(o) PROVE TypeOK'
  BY <1>4, DeleteType DEF CleanCart
<1>5. ASSUME NEW o \in Orders, PlaceLiveOrder(o) PROVE TypeOK'
  BY <1>5 DEF PlaceLiveOrder
<1>6. ASSUME NEW o \in Orders, FailOrder(o) PROVE TypeOK'
  BY <1>6 DEF FailOrder
<1>7. ASSUME NEW o \in Orders, NEW g \in Gateways, InitPayment(o, g) PROVE TypeOK'
  BY <1>7 DEF InitPayment
<1>8. ASSUME NEW o \in Orders, NEW g \in Gateways, Charge(o, g) PROVE TypeOK'
  BY <1>8 DEF Charge
<1>9. ASSUME NEW o \in Orders, NEW g \in Gateways, BeginConfirm(o, g) PROVE TypeOK'
  BY <1>9 DEF BeginConfirm
<1>10. ASSUME NEW o \in Orders, NEW g \in Gateways,
              RepeatCallback(o, g) \/ BrowserReturn(o, g)
       PROVE  TypeOK'
  BY <1>10 DEF RepeatCallback, BrowserReturn
<1>11. ASSUME NEW o \in Orders, CommitConfirm(o) PROVE TypeOK'
  BY <1>11, DeleteType DEF CommitConfirm
<1>12. ASSUME NEW o \in Orders, FailConfirm(o) PROVE TypeOK'
  BY <1>12, AckType DEF FailConfirm
<1>13. ASSUME NEW o \in Orders, CrashConfirm(o) PROVE TypeOK'
  BY <1>13 DEF CrashConfirm
<1>14. ASSUME NEW o \in Orders, PublishSuccess(o) PROVE TypeOK'
  <2>1. receipts[o] + 1 \in Nat
    OBVIOUS
  <2>2. QED
    BY <1>14, <2>1, AckType DEF PublishSuccess
<1>15. ASSUME NEW o \in Orders, LoseSuccess(o) PROVE TypeOK'
  BY <1>15, AckType DEF LoseSuccess
<1>16. CASE UNCHANGED vars
  BY <1>16 DEF vars
<1>17. QED
  BY <1>1, <1>2, <1>3, <1>4, <1>5, <1>6, <1>7, <1>8, <1>9, <1>10, <1>11, <1>12,
     <1>13, <1>14, <1>15, <1>16 DEF Next, Request, Callback

\* What each step of the order and payment handlers does to the one order it is
\* about; the others are untouched.
LEMMA ConfirmStep ==
  ASSUME TypeOK, ConfirmSound, [Next]_vars
  PROVE  ConfirmSound'
<1> USE CartPaymentAssumption DEF TypeOK, ConfirmSound, Backed
<1>1. CASE Cart
  BY <1>1, CartStep DEF CartOnly
<1>2. ASSUME NEW o \in Orders, NEW m \in Methods, ListSelected(o, m) PROVE ConfirmSound'
  BY <1>2 DEF ListSelected
<1>3. ASSUME NEW o \in Orders, InsertOrder(o) PROVE ConfirmSound'
  BY <1>3 DEF InsertOrder
<1>4. ASSUME NEW o \in Orders, CleanCart(o) PROVE ConfirmSound'
  BY <1>4 DEF CleanCart
<1>5. ASSUME NEW o \in Orders, PlaceLiveOrder(o) PROVE ConfirmSound'
  BY <1>5 DEF PlaceLiveOrder
<1>6. ASSUME NEW o \in Orders, FailOrder(o) PROVE ConfirmSound'
  BY <1>6 DEF FailOrder
<1>7. ASSUME NEW o \in Orders, NEW g \in Gateways, InitPayment(o, g) PROVE ConfirmSound'
  BY <1>7 DEF InitPayment
<1>8. ASSUME NEW o \in Orders, NEW g \in Gateways, Charge(o, g) PROVE ConfirmSound'
  BY <1>8 DEF Charge
<1>9. ASSUME NEW o \in Orders, NEW g \in Gateways, BeginConfirm(o, g) PROVE ConfirmSound'
  BY <1>9 DEF BeginConfirm
<1>10. ASSUME NEW o \in Orders, NEW g \in Gateways,
              RepeatCallback(o, g) \/ BrowserReturn(o, g)
       PROVE  ConfirmSound'
  BY <1>10 DEF RepeatCallback, BrowserReturn
<1>11. ASSUME NEW o \in Orders, CommitConfirm(o) PROVE ConfirmSound'
  BY <1>11 DEF CommitConfirm
<1>12. ASSUME NEW o \in Orders, FailConfirm(o) \/ CrashConfirm(o) PROVE ConfirmSound'
  BY <1>12 DEF FailConfirm, CrashConfirm
<1>13. ASSUME NEW o \in Orders, PublishSuccess(o) \/ LoseSuccess(o) PROVE ConfirmSound'
  <2>1. /\ UNCHANGED <<pc, status, method, payer, caller, charged>>
        /\ confirm[o] = "committed"
        /\ \/ confirm'[o] = "published" /\ receipts'[o] = receipts[o] + 1
           \/ confirm'[o] = "lost" /\ receipts'[o] = receipts[o]
        /\ \A p \in Orders \ {o} : confirm'[p] = confirm[p] /\ receipts'[p] = receipts[p]
    BY <1>13 DEF PublishSuccess, LoseSuccess
  <2>2. receipts[o] = 0
    BY <2>1
  <2>3. QED
    BY <2>1, <2>2
<1>14. CASE UNCHANGED vars
  BY <1>14 DEF vars
<1>15. QED
  BY <1>1, <1>2, <1>3, <1>4, <1>5, <1>6, <1>7, <1>8, <1>9, <1>10, <1>11, <1>12,
     <1>13, <1>14 DEF Next, Request, Callback

\* The inductive invariant holds in every behaviour.
LEMMA Inductive == Spec => [](TypeOK /\ ConfirmSound)
<1>1. Init => TypeOK /\ ConfirmSound
  BY CartPaymentAssumption DEF Init, TypeOK, ConfirmSound, Backed, Nothing, InCart
<1>2. QED
  BY <1>1, TypeStep, ConfirmStep, PTL DEF Spec

\* The variables keep their types.
THEOREM Typing == Spec => []TypeOK
BY Inductive, PTL

\* At most one payment.success per order, and only for a paid order, however
\* callbacks of any number of gateways are repeated, interleaved and cut off.
THEOREM AtMostOneReceipt == Spec => []OneReceipt
<1>1. ConfirmSound => OneReceipt
  BY DEF ConfirmSound, OneReceipt
<1>2. QED
  BY <1>1, Inductive, PTL

\* The method recorded for a paid order is a gateway that collected the money, but
\* for the gateways whose return in the browser confirms, and after such a return.
THEOREM UnchargedByReturn == Spec => []UnchargedOnlyByReturn
<1>1. ConfirmSound => UnchargedOnlyByReturn
  BY DEF ConfirmSound, Backed, UnchargedOnlyByReturn
<1>2. QED
  BY <1>1, Inductive, PTL

\* Few handlers write the row's status or method: those that insert it, when it has
\* no status yet, and the commit, which finds it pending.
LEMMA RowWriters ==
  ASSUME TypeOK, ConfirmSound, [Next]_vars, ~UNCHANGED <<status, method>>
  PROVE  \E o \in Orders :
           /\ status[o] \in {"none", "pending"}
           /\ \A p \in Orders \ {o} : status'[p] = status[p] /\ method'[p] = method[p]
<1>1. ~Cart /\ ~UNCHANGED vars
  BY CartStep DEF CartOnly, vars
<1>2. ASSUME NEW o \in Orders, NEW g \in Gateways
      PROVE  /\ ~InitPayment(o, g) /\ ~Charge(o, g)
             /\ ~BeginConfirm(o, g) /\ ~RepeatCallback(o, g) /\ ~BrowserReturn(o, g)
  BY DEF InitPayment, Charge, BeginConfirm, RepeatCallback, BrowserReturn
<1>3. ASSUME NEW o \in Orders
      PROVE  /\ \A m \in Methods : ~ListSelected(o, m)
             /\ ~CleanCart(o) /\ ~FailOrder(o) /\ ~FailConfirm(o)
             /\ ~CrashConfirm(o) /\ ~PublishSuccess(o) /\ ~LoseSuccess(o)
  BY DEF ListSelected, CleanCart, FailOrder, FailConfirm, CrashConfirm, PublishSuccess,
         LoseSuccess
<1>4. PICK o \in Orders : InsertOrder(o) \/ PlaceLiveOrder(o) \/ CommitConfirm(o)
  BY <1>1, <1>2, <1>3 DEF Next, Request, Callback
<1>5. \A p \in Orders \ {o} : status'[p] = status[p] /\ method'[p] = method[p]
  BY <1>4 DEF InsertOrder, PlaceLiveOrder, CommitConfirm, TypeOK
<1>6. status[o] \in {"none", "pending"}
  BY <1>4 DEF InsertOrder, PlaceLiveOrder, CommitConfirm, ConfirmSound
<1>7. QED
  BY <1>5, <1>6

\* No callback changes a paid order.
THEOREM PaidStays == Spec => PaidIsFinal
<1>1. ASSUME TypeOK, ConfirmSound, [Next]_vars, NEW p \in Orders, status[p] = "paid"
      PROVE  status'[p] = "paid" /\ method'[p] = method[p]
  BY <1>1, RowWriters
<1>2. TypeOK /\ ConfirmSound /\ [Next]_vars =>
        [\A o \in Orders : status[o] = "paid" =>
           status'[o] = "paid" /\ method'[o] = method[o]]_vars
  BY <1>1
<1>3. QED
  BY <1>2, Inductive, PTL DEF Spec, PaidIsFinal

\* The three reasons for which a cart row may go, of the step to the next state.
Explained(i) ==
  \/ UNCHANGED <<order, payment, confirmation>>
  \/ \E o \in Orders : /\ asked[o] = "cod" /\ pc[o] = "clean" /\ pc'[o] = "made"
                       /\ i \in selected
  \/ \E o \in Orders : /\ status[o] = "pending" /\ status'[o] = "paid"
                       /\ i \in selected \cap older[o]

\* Only a cash checkout is ever about to clean the cart.
CleanIsCod == \A o \in Orders : pc[o] = "clean" => asked[o] = "cod"

\* The request reaches the cleaning step from InsertOrder of a cash order only.
LEMMA CleanStep ==
  ASSUME TypeOK, CleanIsCod, [Next]_vars
  PROVE  CleanIsCod'
<1> USE DEF TypeOK, CleanIsCod
<1>1. CASE Cart
  BY <1>1, CartStep DEF CartOnly
<1>2. ASSUME NEW o \in Orders, Request(o) PROVE CleanIsCod'
  BY <1>2 DEF Request, ListSelected, InsertOrder, CleanCart, PlaceLiveOrder, FailOrder
<1>3. ASSUME NEW o \in Orders, NEW g \in Gateways, InitPayment(o, g) \/ Charge(o, g)
      PROVE  CleanIsCod'
  BY <1>3 DEF InitPayment, Charge
<1>4. ASSUME NEW o \in Orders, Callback(o) PROVE CleanIsCod'
  BY <1>4 DEF Callback, BeginConfirm, RepeatCallback, BrowserReturn, CommitConfirm,
              FailConfirm, CrashConfirm, PublishSuccess, LoseSuccess
<1>5. CASE UNCHANGED vars
  BY <1>5 DEF vars
<1>6. QED
  BY <1>1, <1>2, <1>3, <1>4, <1>5 DEF Next

\* Cart rows are deleted by the buyer, by a cash checkout, or by the payment of
\* an order younger than the row, for any number of items and orders.
THEOREM CartLosses == Spec => CartLossesExplained
<1>1. TypeOK /\ ConfirmSound /\ CleanIsCod /\ [Next]_vars =>
        [\A i \in Items : (cart[i] > 0 /\ cart'[i] = 0) => Explained(i)]_vars
  <2> SUFFICES ASSUME TypeOK, ConfirmSound, CleanIsCod, [Next]_vars,
                      NEW i \in Items, cart[i] > 0, cart'[i] = 0
               PROVE  Explained(i)
    OBVIOUS
  <2> USE DEF Explained
  <2>1. CASE Cart
    BY <2>1, CartStep DEF CartOnly
  <2>2. ASSUME NEW o \in Orders, CleanCart(o) PROVE Explained(i)
    <3>1. i \in selected
      BY <2>2 DEF CleanCart, DeleteRows
    <3>2. /\ asked[o] = "cod"
          /\ pc[o] = "clean"
          /\ pc'[o] = "made"
      BY <2>2 DEF CleanCart, CleanIsCod, TypeOK
    <3>3. QED
      BY <3>1, <3>2
  <2>3. ASSUME NEW o \in Orders,
               (\E m \in Methods : ListSelected(o, m)) \/ InsertOrder(o)
                 \/ PlaceLiveOrder(o) \/ FailOrder(o)
        PROVE  cart' = cart
    BY <2>3 DEF ListSelected, InsertOrder, PlaceLiveOrder, FailOrder
  <2>4. ASSUME NEW o \in Orders, NEW g \in Gateways, InitPayment(o, g) \/ Charge(o, g)
        PROVE  cart' = cart
    BY <2>4 DEF InitPayment, Charge
  <2>5. ASSUME NEW o \in Orders, CommitConfirm(o) PROVE Explained(i)
    <3>1. i \in selected \cap older[o]
      BY <2>5 DEF CommitConfirm, DeleteRows
    <3>2. status[o] = "pending" /\ status'[o] = "paid"
      BY <2>5 DEF CommitConfirm, ConfirmSound, TypeOK
    <3>3. QED
      BY <3>1, <3>2
  <2>6. ASSUME NEW o \in Orders,
               (\E g \in Gateways :
                  BeginConfirm(o, g) \/ RepeatCallback(o, g) \/ BrowserReturn(o, g))
                 \/ FailConfirm(o) \/ CrashConfirm(o)
                 \/ PublishSuccess(o) \/ LoseSuccess(o)
        PROVE  cart' = cart
    BY <2>6 DEF BeginConfirm, RepeatCallback, BrowserReturn, FailConfirm, CrashConfirm,
                PublishSuccess, LoseSuccess
  <2>7. CASE UNCHANGED vars
    BY <2>7 DEF vars
  <2>8. cart' # cart
    OBVIOUS
  <2>9. QED
    BY <2>1, <2>2, <2>3, <2>4, <2>5, <2>6, <2>7, <2>8 DEF Next, Request, Callback
<1>2. Init => CleanIsCod
  BY DEF Init, CleanIsCod
<1>3. Spec => []CleanIsCod
  BY <1>2, CleanStep, Inductive, PTL DEF Spec
<1>4. QED
  BY <1>1, <1>3, Inductive, PTL DEF Spec, CartLossesExplained, Explained

------------------------------------------------------------------------------
(* The ledger. *)

\* A step that leaves the row and the replies alone is none of the ledger's.
LEMMA LedgerRests ==
  ASSUME UNCHANGED <<status, method, payment, receipts>>
  PROVE  UNCHANGED Ledger!ledger
BY DEF Ledger!ledger, PaidBy

\* A call of a gateway that has collected may be answered at any time.
LEMMA ReplyAnswers ==
  ASSUME TypeOK, ConfirmSound, NEW o \in Orders, NEW g \in Gateways, g \in charged[o],
         acked' = [acked EXCEPT ![o] = @ \cup {g}],
         UNCHANGED <<status, method, initiated, charged, receipts>>
  PROVE  Ledger!LedgerNext
<1>1. Ledger!Answer(o, g)
  BY DEF Ledger!Answer, PaidBy
<1>2. QED
  BY <1>1 DEF Ledger!LedgerNext

\* The reply to a call answers its gateway, or nobody when a browser called.
LEMMA AckAnswers ==
  ASSUME TypeOK, ConfirmSound, NEW o \in Orders, confirm[o] \in {"open", "committed"},
         Ack(o), UNCHANGED <<status, method, initiated, charged, receipts>>
  PROVE  Ledger!LedgerNext \/ UNCHANGED Ledger!ledger
<1>1. CASE caller[o] = payer[o] /\ payer[o] \in charged[o]
  <2>1. payer[o] \in Gateways /\ {payer[o]} \cap Gateways = {payer[o]}
    BY <1>1 DEF TypeOK
  <2>2. acked' = [acked EXCEPT ![o] = @ \cup {payer[o]}]
    BY <1>1, <2>1 DEF Ack
  <2>3. QED
    BY <1>1, <2>1, <2>2, ReplyAnswers
<1>2. CASE caller[o] = "browser"
  <2>1. {caller[o]} \cap Gateways = {}
    BY <1>2, CartPaymentAssumption
  <2>2. acked' = acked
    BY <2>1 DEF Ack, TypeOK
  <2>3. QED
    BY <2>2, LedgerRests
<1>3. QED
  BY <1>1, <1>2 DEF ConfirmSound, Backed

\* The handlers implement the ledger: opening, charging and answering are its own
\* steps, the commit settles, the event announces, and all else, a transaction
\* that is rolled back or killed included, leaves it alone.
THEOREM ImplementsLedger == Spec => LedgerSpec
<1>1. Init => Ledger!LedgerInit
  BY DEF Init, Ledger!LedgerInit, PaidBy
<1>2. TypeOK /\ ConfirmSound /\ [Next]_vars => [Ledger!LedgerNext]_(Ledger!ledger)
  <2> SUFFICES ASSUME TypeOK, ConfirmSound, [Next]_vars
               PROVE  [Ledger!LedgerNext]_(Ledger!ledger)
    OBVIOUS
  <2>1. CASE Cart
    BY <2>1, CartStep, LedgerRests DEF CartOnly
  <2>2. ASSUME NEW o \in Orders,
               (\E m \in Methods : ListSelected(o, m)) \/ CleanCart(o) \/ FailOrder(o)
        PROVE  UNCHANGED Ledger!ledger
    BY <2>2, LedgerRests DEF ListSelected, CleanCart, FailOrder
  <2>3. ASSUME NEW o \in Orders, InsertOrder(o) \/ PlaceLiveOrder(o)
        PROVE  UNCHANGED Ledger!ledger
    <3>1. pc[o] \in {"new", "listed"} /\ UNCHANGED <<payment, receipts>>
      BY <2>3 DEF InsertOrder, PlaceLiveOrder
    <3>2. status[o] = "none" /\ status' = [status EXCEPT ![o] = "pending"]
      BY <2>3, <3>1 DEF InsertOrder, PlaceLiveOrder, ConfirmSound
    <3>3. \A p \in Orders \ {o} : method'[p] = method[p]
      BY <2>3 DEF InsertOrder, PlaceLiveOrder, TypeOK
    <3>4. PaidBy' = PaidBy
      BY <3>2, <3>3 DEF PaidBy, TypeOK
    <3>5. QED
      BY <3>1, <3>4 DEF Ledger!ledger
  <2>4. ASSUME NEW o \in Orders, NEW g \in Gateways, InitPayment(o, g)
        PROVE  Ledger!LedgerNext
    <3>1. Ledger!Open(o, g)
      BY <2>4 DEF InitPayment, Ledger!Open, PaidBy
    <3>2. QED
      BY <3>1 DEF Ledger!LedgerNext
  <2>5. ASSUME NEW o \in Orders, NEW g \in Gateways, Charge(o, g)
        PROVE  Ledger!LedgerNext
    <3>1. Ledger!Collect(o, g)
      BY <2>5 DEF Charge, Ledger!Collect, PaidBy
    <3>2. QED
      BY <3>1 DEF Ledger!LedgerNext
  <2>6. ASSUME NEW o \in Orders,
               (\E g \in Gateways : BeginConfirm(o, g) \/ BrowserReturn(o, g))
                 \/ CrashConfirm(o)
        PROVE  UNCHANGED Ledger!ledger
    BY <2>6, LedgerRests DEF BeginConfirm, BrowserReturn, CrashConfirm
  <2>7. ASSUME NEW o \in Orders, CommitConfirm(o) PROVE Ledger!LedgerNext
    <3>1. /\ confirm[o] = "open"
          /\ status' = [status EXCEPT ![o] = "paid"]
          /\ method' = [method EXCEPT ![o] = payer[o]]
          /\ UNCHANGED <<payment, receipts>>
      BY <2>7 DEF CommitConfirm
    <3>2. /\ status[o] = "pending" /\ payer[o] \in Gateways
          /\ payer[o] \in charged[o] \cup Redirecting
      BY <3>1, CartPaymentAssumption DEF ConfirmSound, Backed, TypeOK
    <3>3. PaidBy' = [PaidBy EXCEPT ![o] = payer[o]]
      BY <3>1 DEF PaidBy, TypeOK
    <3>4. Ledger!Settle(o, payer[o])
      BY <3>1, <3>2, <3>3 DEF Ledger!Settle, PaidBy
    <3>5. QED
      BY <3>2, <3>4 DEF Ledger!LedgerNext
  <2>8. ASSUME NEW o \in Orders, FailConfirm(o)
        PROVE  Ledger!LedgerNext \/ UNCHANGED Ledger!ledger
    BY <2>8, AckAnswers DEF FailConfirm
  <2>9. ASSUME NEW o \in Orders, PublishSuccess(o) PROVE Ledger!LedgerNext
    <3>1. /\ confirm[o] = "committed"
          /\ receipts' = [receipts EXCEPT ![o] = @ + 1]
          /\ Ack(o)
          /\ UNCHANGED <<status, method, initiated, charged>>
      BY <2>9 DEF PublishSuccess
    <3>2. /\ status[o] = "paid" /\ Backed(o)
          /\ method[o] = payer[o] /\ payer[o] \in Gateways
          /\ receipts[o] = 0
      BY <3>1, CartPaymentAssumption DEF ConfirmSound, Backed, TypeOK
    <3>3. PaidBy[o] = payer[o] /\ payer[o] # "none" /\ PaidBy' = PaidBy
      BY <3>1, <3>2, CartPaymentAssumption DEF PaidBy
    <3>4. \/ /\ payer[o] \in charged[o]
             /\ acked' = [acked EXCEPT ![o] = @ \cup {payer[o]}]
          \/ payer[o] \in Redirecting /\ UNCHANGED acked
      <4>1. {payer[o]} \cap Gateways = {payer[o]} /\ {"browser"} \cap Gateways = {}
        BY <3>2, CartPaymentAssumption
      <4>2. QED
        BY <3>1, <3>2, <4>1 DEF Ack, Backed, TypeOK
    <3>5. Ledger!Announce(o)
      BY <3>1, <3>2, <3>3, <3>4 DEF Ledger!Announce
    <3>6. QED
      BY <3>5 DEF Ledger!LedgerNext
  <2>10. ASSUME NEW o \in Orders, LoseSuccess(o)
         PROVE  Ledger!LedgerNext \/ UNCHANGED Ledger!ledger
    <3>1. CASE Ack(o)
      BY <2>10, <3>1, AckAnswers DEF LoseSuccess
    <3>2. CASE UNCHANGED acked
      BY <2>10, <3>2, LedgerRests DEF LoseSuccess
    <3>3. QED
      BY <2>10, <3>1, <3>2 DEF LoseSuccess
  <2>11. ASSUME NEW o \in Orders, NEW g \in Gateways, RepeatCallback(o, g)
         PROVE  Ledger!LedgerNext
    BY <2>11, ReplyAnswers DEF RepeatCallback
  <2>12. CASE UNCHANGED vars
    BY <2>12, LedgerRests DEF vars
  <2>13. QED
    BY <2>1, <2>2, <2>3, <2>4, <2>5, <2>6, <2>7, <2>8, <2>9, <2>10, <2>11, <2>12
       DEF Next, Request, Callback
<1>3. QED
  BY <1>1, <1>2, Inductive, PTL DEF Spec, LedgerSpec, Ledger!Spec
==============================================================================
