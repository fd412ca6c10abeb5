----------------------------- MODULE PaymentLedger -----------------------------
(***************************************************************************)
(* What the payment of an order promises.  Payments may be opened at any   *)
(* gateways until one has settled the order, and each of them may collect, *)
(* also afterwards.  One gateway settles the order, once and for good: one *)
(* that has collected, or one of Redirecting, whose word is a browser's.   *)
(* The settlement is announced at most once, together with the reply to    *)
(* that gateway if it called; replies go to gateways that collected.       *)
(* (The contract the payment handlers and MarkPaid implement with repeated *)
(* callbacks, a row lock and a transaction that may fail.)                 *)
(***************************************************************************)
EXTENDS Integers

CONSTANTS Orders, Gateways, Redirecting

VARIABLES
  opened, collected, answered,  \* gateways, of each order
  settledBy,                    \* a gateway, or "none"
  announced                     \* how often the settlement was announced

ledger == <<opened, collected, answered, settledBy, announced>>

LedgerInit ==
  /\ opened = [o \in Orders |-> {}]
  /\ collected = [o \in Orders |-> {}]
  /\ answered = [o \in Orders |-> {}]
  /\ settledBy = [o \in Orders |-> "none"]
  /\ announced = [o \in Orders |-> 0]

Open(o, g) ==
  /\ settledBy[o] = "none"
  /\ opened' = [opened EXCEPT ![o] = @ \cup {g}]
  /\ UNCHANGED <<collected, answered, settledBy, announced>>

Collect(o, g) ==
  /\ g \in opened[o]
  /\ collected' = [collected EXCEPT ![o] = @ \cup {g}]
  /\ UNCHANGED <<opened, answered, settledBy, announced>>

Settle(o, g) ==
  /\ settledBy[o] = "none"
  /\ g \in collected[o] \cup Redirecting
  /\ settledBy' = [settledBy EXCEPT ![o] = g]
  /\ UNCHANGED <<opened, collected, answered, announced>>

Answer(o, g) ==
  /\ g \in collected[o]
  /\ answered' = [answered EXCEPT ![o] = @ \cup {g}]
  /\ UNCHANGED <<opened, collected, settledBy, announced>>

Announce(o) ==
  /\ settledBy[o] # "none"
  /\ announced[o] = 0
  /\ announced' = [announced EXCEPT ![o] = 1]
  /\ \/ settledBy[o] \in collected[o]
        /\ answered' = [answered EXCEPT ![o] = @ \cup {settledBy[o]}]
     \/ settledBy[o] \in Redirecting /\ UNCHANGED answered
  /\ UNCHANGED <<opened, collected, settledBy>>

LedgerNext ==
  \E o \in Orders :
    \/ \E g \in Gateways : Open(o, g) \/ Collect(o, g) \/ Settle(o, g) \/ Answer(o, g)
    \/ Announce(o)

Spec == LedgerInit /\ [][LedgerNext]_ledger
==============================================================================
