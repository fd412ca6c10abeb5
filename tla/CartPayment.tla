----------------------------- MODULE CartPayment -----------------------------
(***************************************************************************)
(* One buyer's cart, the orders made from it and their payment: the cart   *)
(* handlers, OrderService.CheckoutCart, the payment handlers, and          *)
(* OrderService.ConfirmPayment with the MarkPaid transaction.              *)
(*                                                                         *)
(* Orders of other buyers never meet this state.  An order is either a     *)
(* checkout of the cart or a one-tap live order (LiveStock), which is not  *)
(* made from the cart at all but is paid through the same handlers.        *)
(*                                                                         *)
(* Timestamps are compared in one place only, MarkPaid's guard added_at <= *)
(* created_at; older[o] is the set of rows that satisfy it for order o.    *)
(***************************************************************************)
EXTENDS Integers, FiniteSets

CONSTANTS
  Items,      \* variants the buyer may put in the cart
  Orders,     \* the checkout requests, each of which makes at most one order
  Gateways,   \* momo, vnpay, zalopay
  Redirecting,  \* those whose browser redirect confirms as well (momo)
  MaxQty      \* bound on the quantity of a row (the API's own bound is 999)

ASSUME CartPaymentAssumption ==
  /\ MaxQty \in Nat \ {0}
  /\ "cod" \notin Gateways
  /\ {"none", "browser"} \cap Gateways = {}
  /\ Redirecting \subseteq Gateways

VARIABLES
  cart,       \* quantity of each cart row, 0 if there is no row
  selected,   \* rows with is_selected
  pc,         \* progress of each order's request
  asked,      \* payment method that the request asks for
  method,     \* live_orders.payment_method
  older,      \* rows of the cart with added_at <= created_at
  status,     \* live_orders.payment_status, or "none" before the INSERT
  initiated,  \* gateways at which a payment of the order was opened
  charged,    \* gateways that collected the money
  acked,      \* gateways whose callback got a success reply
  confirm,    \* progress of the ConfirmPayment call that holds the row
  payer,      \* gateway that call is to record, or "none"
  caller,     \* who waits for its reply: that gateway, or the buyer's "browser"
  receipts    \* payment.success events published for the order

basket == <<cart, selected>>
order == <<pc, asked, method>>
payment == <<initiated, charged, acked>>
confirmation == <<status, confirm, payer, caller, receipts>>
vars == <<basket, order, older, payment, confirmation>>

Nothing == [i \in Items |-> 0]
Methods == Gateways \cup {"cod"}
InCart == {i \in Items : cart[i] > 0}

TypeOK ==
  /\ cart \in [Items -> 0..MaxQty]
  /\ selected \in SUBSET InCart
  /\ pc \in [Orders -> {"new", "listed", "clean", "made", "failed"}]
  /\ asked \in [Orders -> Methods \cup {"none"}]
  /\ method \in [Orders -> Methods \cup {"none"}]
  /\ older \in [Orders -> SUBSET Items]
  /\ status \in [Orders -> {"none", "pending", "paid"}]
  /\ initiated \in [Orders -> SUBSET Gateways]
  /\ charged \in [Orders -> SUBSET Gateways]
  /\ acked \in [Orders -> SUBSET Gateways]
  /\ confirm \in [Orders -> {"none", "open", "committed", "published", "lost"}]
  /\ payer \in [Orders -> Gateways \cup {"none"}]
  /\ caller \in [Orders -> Gateways \cup {"none", "browser"}]
  /\ receipts \in [Orders -> Nat]

Init ==
  /\ cart = Nothing
  /\ selected = {}
  /\ pc = [o \in Orders |-> "new"]
  /\ asked = [o \in Orders |-> "none"]
  /\ method = [o \in Orders |-> "none"]
  /\ older = [o \in Orders |-> {}]
  /\ status = [o \in Orders |-> "none"]
  /\ initiated = [o \in Orders |-> {}]
  /\ charged = [o \in Orders |-> {}]
  /\ acked = [o \in Orders |-> {}]
  /\ confirm = [o \in Orders |-> "none"]
  /\ payer = [o \in Orders |-> "none"]
  /\ caller = [o \in Orders |-> "none"]
  /\ receipts = [o \in Orders |-> 0]

------------------------------------------------------------------------------
\* The cart handlers.  Each is one statement on the buyer's own rows.

\* DELETE of a set of rows.
DeleteRows(S) ==
  /\ cart' = [i \in Items |-> IF i \in S THEN 0 ELSE cart[i]]
  /\ selected' = selected \ S
  /\ older' = [o \in Orders |-> older[o] \ S]

\* Upsert: a new row, or quantity + n on the old one; either way the row is
\* selected and added_at is now.
AddItem(i) ==
  /\ cart[i] < MaxQty
  /\ cart' = [cart EXCEPT ![i] = @ + 1]
  /\ selected' = selected \cup {i}
  /\ older' = [o \in Orders |-> older[o] \ {i}]
  /\ UNCHANGED <<order, payment, confirmation>>

\* UpdateQty does not touch added_at.
UpdateQty(i, q) ==
  /\ i \in InCart
  /\ cart' = [cart EXCEPT ![i] = q]
  /\ UNCHANGED <<selected, older, order, payment, confirmation>>

\* UpdateSelected, and SelectAll of all rows.
Select(S, on) ==
  /\ selected' = IF on THEN selected \cup (S \cap InCart) ELSE selected \ S
  /\ UNCHANGED <<cart, older, order, payment, confirmation>>

\* Remove, and RemoveSelected on the buyer's request.
Remove(S) ==
  /\ DeleteRows(S \cap InCart)
  /\ UNCHANGED <<order, payment, confirmation>>

------------------------------------------------------------------------------
\* The order requests.

\* CheckoutCart reads the selected rows; with none it is a validation error.
ListSelected(o, m) ==
  /\ pc[o] = "new"
  /\ selected # {}
  /\ pc' = [pc EXCEPT ![o] = "listed"]
  /\ asked' = [asked EXCEPT ![o] = m]
  /\ UNCHANGED <<basket, method, older, payment, confirmation>>

\* Mutant: every checkout cleans the cart.
InsertOrderAlwaysCleans(o) ==
  /\ pc[o] = "listed"
  /\ pc' = [pc EXCEPT ![o] = "clean"]
  /\ method' = [method EXCEPT ![o] = asked[o]]
  /\ status' = [status EXCEPT ![o] = "pending"]
  /\ older' = [older EXCEPT ![o] = InCart]
  /\ UNCHANGED <<basket, asked, payment, confirm, payer, caller, receipts>>

\* INSERT with payment_status 'pending'; created_at is now.
InsertOrder(o) ==
  /\ pc[o] = "listed"
  /\ pc' = [pc EXCEPT ![o] = IF asked[o] = "cod" THEN "clean" ELSE "made"]
  /\ method' = [method EXCEPT ![o] = asked[o]]
  /\ status' = [status EXCEPT ![o] = "pending"]
  /\ older' = [older EXCEPT ![o] = InCart]
  /\ UNCHANGED <<basket, asked, payment, confirm, payer, caller, receipts>>

\* A cash order removes the selected rows; its error is discarded.
CleanCart(o) ==
  /\ pc[o] = "clean"
  /\ pc' = [pc EXCEPT ![o] = "made"]
  /\ \/ DeleteRows(selected)
     \/ UNCHANGED <<basket, older>>
  /\ UNCHANGED <<asked, method, payment, confirmation>>

\* PlaceLiveOrder inserts a cash order for a product that is not in the cart.
PlaceLiveOrder(o) ==
  /\ pc[o] = "new"
  /\ pc' = [pc EXCEPT ![o] = "made"]
  /\ method' = [method EXCEPT ![o] = "cod"]
  /\ status' = [status EXCEPT ![o] = "pending"]
  /\ older' = [older EXCEPT ![o] = InCart]
  /\ UNCHANGED <<basket, asked, payment, confirm, payer, caller, receipts>>

\* The request dies, or the INSERT fails.
FailOrder(o) ==
  /\ pc[o] \in {"listed", "clean"}
  /\ pc' = [pc EXCEPT ![o] = IF @ = "listed" THEN "failed" ELSE "made"]
  /\ UNCHANGED <<basket, asked, method, older, payment, confirmation>>

------------------------------------------------------------------------------
\* Payment.

\* Mutant: a payment may be opened for an order that is paid.
InitPaymentAgain(o, g) ==
  /\ status[o] # "none"
  /\ initiated' = [initiated EXCEPT ![o] = @ \cup {g}]
  /\ UNCHANGED <<basket, order, older, charged, acked, confirmation>>

\* initMoMo, initVNPay, initZaloPay: any unpaid order, whatever its method,
\* any number of times.
InitPayment(o, g) ==
  /\ status[o] = "pending"
  /\ initiated' = [initiated EXCEPT ![o] = @ \cup {g}]
  /\ UNCHANGED <<basket, order, older, charged, acked, confirmation>>

\* The buyer pays at the gateway (external).
Charge(o, g) ==
  /\ g \in initiated[o]
  /\ charged' = [charged EXCEPT ![o] = @ \cup {g}]
  /\ UNCHANGED <<basket, order, older, initiated, acked, confirmation>>

\* Mutants of the callback: MarkPaid without its payment_status guard; a
\* callback that reports a failed payment taken for a success.
BeginConfirmAgain(o, g) ==
  /\ g \in charged[o]
  /\ status[o] # "none"
  /\ confirm[o] # "open"
  /\ confirm' = [confirm EXCEPT ![o] = "open"]
  /\ payer' = [payer EXCEPT ![o] = g]
  /\ caller' = [caller EXCEPT ![o] = g]
  /\ UNCHANGED <<basket, order, older, payment, status, receipts>>

BeginConfirmAnyResult(o, g) ==
  /\ g \in initiated[o]
  /\ status[o] = "pending"
  /\ confirm[o] = "none"
  /\ confirm' = [confirm EXCEPT ![o] = "open"]
  /\ payer' = [payer EXCEPT ![o] = g]
  /\ caller' = [caller EXCEPT ![o] = g]
  /\ UNCHANGED <<basket, order, older, payment, status, receipts>>

\* A signed callback of gateway g (momoIPN, vnpayReturn, zaloPayCallback), the
\* first or a repeated one, reports the payment of an order that is not paid:
\* MarkPaid updates, and so locks, the row.  What it wrote shows only after the
\* commit.
BeginConfirm(o, g) ==
  /\ g \in charged[o]
  /\ status[o] = "pending"
  /\ confirm[o] = "none"
  /\ confirm' = [confirm EXCEPT ![o] = "open"]
  /\ payer' = [payer EXCEPT ![o] = g]
  /\ caller' = [caller EXCEPT ![o] = g]
  /\ UNCHANGED <<basket, order, older, payment, status, receipts>>

\* The browser returns from gateway g with a result code of success.  The handler
\* takes the query as it is: it carries no signature, and the order need not have
\* been charged, nor a payment opened for it.
BrowserReturn(o, g) ==
  /\ g \in Redirecting
  /\ status[o] = "pending"
  /\ confirm[o] = "none"
  /\ confirm' = [confirm EXCEPT ![o] = "open"]
  /\ payer' = [payer EXCEPT ![o] = g]
  /\ caller' = [caller EXCEPT ![o] = "browser"]
  /\ UNCHANGED <<basket, order, older, payment, status, receipts>>

\* DELETE of the rows that satisfy the guard now, and commit.
CommitConfirm(o) ==
  /\ confirm[o] = "open"
  /\ confirm' = [confirm EXCEPT ![o] = "committed"]
  /\ status' = [status EXCEPT ![o] = "paid"]
  /\ method' = [method EXCEPT ![o] = payer[o]]
  /\ DeleteRows(selected \cap older[o])
  /\ UNCHANGED <<pc, asked, payment, payer, caller, receipts>>

\* The reply; a browser is redirected to the result page instead.
Ack(o) == acked' = [acked EXCEPT ![o] = @ \cup ({caller[o]} \cap Gateways)]

\* A statement of MarkPaid fails: the transaction rolls back, the handler
\* discards the error and reports success.
FailConfirm(o) ==
  /\ confirm[o] = "open"
  /\ confirm' = [confirm EXCEPT ![o] = "none"]
  /\ Ack(o)
  /\ UNCHANGED <<basket, order, older, initiated, charged, status, payer, caller,
                 receipts>>

\* The process dies inside the transaction.
CrashConfirm(o) ==
  /\ confirm[o] = "open"
  /\ confirm' = [confirm EXCEPT ![o] = "none"]
  /\ UNCHANGED <<basket, order, older, payment, status, payer, caller, receipts>>

\* The payment.success event, then the reply to the gateway.
PublishSuccess(o) ==
  /\ confirm[o] = "committed"
  /\ confirm' = [confirm EXCEPT ![o] = "published"]
  /\ receipts' = [receipts EXCEPT ![o] = @ + 1]
  /\ Ack(o)
  /\ UNCHANGED <<basket, order, older, initiated, charged, status, payer, caller>>

\* Publish fails (its error is discarded), or the process dies before it.
LoseSuccess(o) ==
  /\ confirm[o] = "committed"
  /\ confirm' = [confirm EXCEPT ![o] = "lost"]
  /\ Ack(o) \/ UNCHANGED acked
  /\ UNCHANGED <<basket, order, older, initiated, charged, status, payer, caller,
                 receipts>>

\* Mutant: a callback for a paid order is an error, not a success.
RepeatCallbackRefused(o, g) ==
  /\ g \in charged[o]
  /\ status[o] = "paid"
  /\ UNCHANGED vars

\* A callback for an order that is paid already: nothing but the reply, and for a
\* browser that returns not even that.
RepeatCallback(o, g) ==
  /\ g \in charged[o]
  /\ status[o] = "paid"
  /\ acked' = [acked EXCEPT ![o] = @ \cup {g}]
  /\ UNCHANGED <<basket, order, older, initiated, charged, confirmation>>

Cart ==
  \/ \E i \in Items : AddItem(i) \/ \E q \in 1..MaxQty : UpdateQty(i, q)
  \/ \E S \in {{i} : i \in Items} \cup {Items} : \E on \in BOOLEAN : Select(S, on)
  \/ \E S \in {{i} : i \in Items} \cup {selected} : Remove(S)

Request(o) ==
  \/ \E m \in Methods : ListSelected(o, m)
  \/ InsertOrder(o) \/ CleanCart(o) \/ PlaceLiveOrder(o) \/ FailOrder(o)

Callback(o) ==
  \/ \E g \in Gateways :
       BeginConfirm(o, g) \/ RepeatCallback(o, g) \/ BrowserReturn(o, g)
  \/ CommitConfirm(o) \/ FailConfirm(o) \/ CrashConfirm(o)
  \/ PublishSuccess(o) \/ LoseSuccess(o)

Next ==
  \/ Cart
  \/ \E o \in Orders :
       \/ Request(o)
       \/ \E g \in Gateways : InitPayment(o, g) \/ Charge(o, g)
       \/ Callback(o)

Spec == Init /\ [][Next]_vars

\* A gateway (MoMo, ZaloPay) repeats its callback until it gets a success reply,
\* which VNPay's browser return does not; Postgres grants the row lock in turn, so
\* a waiting callback is not passed over for ever; and the callbacks of a gateway
\* are not cut off by a crash every time.  A browser returns from a gateway if it
\* likes, and what it began ends, if only by a crash.
FairSpec ==
  /\ Spec
  /\ \A o \in Orders :
       /\ WF_vars(PublishSuccess(o) \/ LoseSuccess(o))
       /\ WF_vars(caller[o] = "browser" /\ (CommitConfirm(o) \/ CrashConfirm(o)))
       /\ \A g \in Gateways :
            /\ SF_vars(caller[o] = g /\ (CommitConfirm(o) \/ FailConfirm(o)))
            /\ SF_vars(g \notin acked[o] /\ (BeginConfirm(o, g) \/ RepeatCallback(o, g)))

------------------------------------------------------------------------------
\* A paid order stays paid, by the gateway that paid it first: neither a
\* repeated nor a second gateway's callback changes it (MarkPaid's guard).
PaidIsFinal ==
  [][\A o \in Orders : status[o] = "paid" =>
       status'[o] = "paid" /\ method'[o] = method[o]]_vars

\* However callbacks are repeated, lost and interleaved, at most one receipt
\* event is published, for a paid order only.
OneReceipt ==
  \A o \in Orders : /\ receipts[o] <= 1
                    /\ receipts[o] = 1 => status[o] = "paid"

\* An order that no gateway collected for is paid in one way only, by a browser's
\* return from a gateway whose return confirms (momoCallback): every other callback
\* that pays an order, repeated, late or crossing another one, follows the charge.
UnchargedOnlyByReturn ==
  \A o \in Orders : status[o] = "paid" =>
    \/ method[o] \in charged[o]
    \/ caller[o] = "browser" /\ method[o] \in Redirecting

\* Cart rows go for three reasons only: the buyer removes them, a cash checkout
\* takes the selection, or an order that is younger than the row's added_at is
\* paid.  In particular an unpaid online order leaves the cart alone, and what
\* the buyer adds during the payment survives it.
CartLossesExplained ==
  [][\A i \in Items : (cart[i] > 0 /\ cart'[i] = 0) =>
       \/ UNCHANGED <<order, payment, confirmation>>
       \/ \E o \in Orders : /\ asked[o] = "cod" /\ pc[o] = "clean" /\ pc'[o] = "made"
                            /\ i \in selected
       \/ \E o \in Orders : /\ status[o] = "pending" /\ status'[o] = "paid"
                            /\ i \in selected \cap older[o]]_vars

\* Every gateway that collected money gets an answer in the end, also when the
\* process died after the commit and before the reply ("idempotent").
ChargeIsAnswered ==
  \A o \in Orders, g \in Gateways : g \in charged[o] ~> g \in acked[o]

\* The gateway that an order is paid by; a call that holds the row has paid nothing
\* before it commits.
PaidBy == [o \in Orders |-> IF status[o] = "paid" THEN method[o] ELSE "none"]

\* However the callbacks of several gateways are repeated, interleaved and cut off,
\* orders, replies and events keep an atomic ledger: see PaymentLedger.
Ledger == INSTANCE PaymentLedger WITH
  opened <- initiated, collected <- charged, answered <- acked,
  settledBy <- PaidBy, announced <- receipts
LedgerSpec == Ledger!Spec
==============================================================================
