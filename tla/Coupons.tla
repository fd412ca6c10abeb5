------------------------------- MODULE Coupons -------------------------------
(***************************************************************************)
(* Redemption of coupons by concurrent checkouts: ApplyCoupon validates a  *)
(* code and prices the order, the order is inserted, and only then         *)
(* RecordUsage claims the use, in a transaction of its own whose error the *)
(* order service discards.                                                 *)
(*                                                                         *)
(* A checkout is one call of CheckoutCart, or of PlaceLiveOrder when it    *)
(* brings a single code.  Codes are spellings: FindByCode upper-cases the  *)
(* code, so several spellings may name one coupon (CouponOf).  The row     *)
(* (coupon, user, order) of coupon_usages is the member `order' of         *)
(* usages[coupon]; its user is always the buyer of that order.             *)
(***************************************************************************)
EXTENDS Integers, FiniteSets, Sequences

CONSTANTS
  Checkouts,   \* the checkout requests
  Buyers,
  Coupons,
  Codes,       \* spellings of coupon codes
  CouponOf,    \* the coupon FindByCode returns for a spelling
  MaxUses,     \* coupons.max_uses, or Unlimited (NULL)
  Unlimited,
  MaxCodes     \* bound on the codes one checkout sends

ASSUME CouponsAssumption ==
  /\ IsFiniteSet(Checkouts)
  /\ CouponOf \in [Codes -> Coupons]
  /\ MaxUses \in [Coupons -> Nat \cup {Unlimited}]
  /\ Unlimited \notin Nat
  /\ MaxCodes \in Nat \ {0}

VARIABLES
  pc,          \* next step of each checkout
  buyer,       \* its buyer
  codes,       \* codes still to be validated
  seen,        \* codes already validated
  applied,     \* coupons whose discount is in the order (appliedCouponIDs)
  unrecorded,  \* those of them that RecordUsage was not yet called for
  placed,      \* checkouts whose live_orders row is inserted
  lost,        \* checkouts that died, were cancelled or saw a statement fail
  open,        \* coupons that are active and not expired
  used_count,  \* coupons.used_count
  usages       \* coupon_usages

vars == <<pc, buyer, codes, seen, applied, unrecorded, placed, lost, open,
          used_count, usages>>
coupons == <<open, used_count, usages>>

Steps == {"idle", "apply", "record", "done"}

TypeOK ==
  /\ pc \in [Checkouts -> Steps]
  /\ buyer \in [Checkouts -> Buyers]
  /\ codes \in [Checkouts -> Seq(Codes)]
  /\ seen \in [Checkouts -> SUBSET Codes]
  /\ applied \in [Checkouts -> Seq(Coupons)]
  /\ unrecorded \in [Checkouts -> Seq(Coupons)]
  /\ placed \in SUBSET Checkouts
  /\ lost \in SUBSET Checkouts
  /\ open \in SUBSET Coupons
  /\ used_count \in [Coupons -> Nat]
  /\ usages \in [Coupons -> SUBSET Checkouts]

Init ==
  /\ pc = [k \in Checkouts |-> "idle"]
  /\ buyer \in [Checkouts -> Buyers]
  /\ codes = [k \in Checkouts |-> << >>]
  /\ seen = [k \in Checkouts |-> {}]
  /\ applied = [k \in Checkouts |-> << >>]
  /\ unrecorded = [k \in Checkouts |-> << >>]
  /\ placed = {}
  /\ lost = {}
  /\ open = Coupons
  /\ used_count = [c \in Coupons |-> 0]
  /\ usages = [c \in Coupons |-> {}]

------------------------------------------------------------------------------
GoTo(k, step) == pc' = [pc EXCEPT ![k] = step]

\* The statement's WHERE clause: max_uses IS NULL OR used_count < max_uses.
HasRoom(c) == MaxUses[c] # Unlimited => used_count[c] < MaxUses[c]

RequestCodes == UNION {[1..n -> Codes] : n \in 1..MaxCodes}

\* The request arrives with the codes of its body.
Start(k, cs) ==
  /\ pc[k] = "idle"
  /\ codes' = [codes EXCEPT ![k] = cs]
  /\ GoTo(k, "apply")
  /\ UNCHANGED <<buyer, seen, applied, unrecorded, placed, lost, coupons>>

\* One turn of the loop over the codes.  A spelling met before is skipped;
\* one that ApplyCoupon accepts adds its discount to the order.
ApplyCode(k) ==
  /\ pc[k] = "apply"
  /\ codes[k] # << >>
  /\ LET code == Head(codes[k])
         c == CouponOf[code]
     IN IF code \in seen[k]
          THEN UNCHANGED <<seen, applied>>
          ELSE /\ c \in open
               /\ HasRoom(c)
               /\ seen' = [seen EXCEPT ![k] = @ \cup {code}]
               /\ applied' = [applied EXCEPT ![k] = Append(@, c)]
  /\ codes' = [codes EXCEPT ![k] = Tail(@)]
  /\ UNCHANGED <<pc, buyer, unrecorded, placed, lost, coupons>>

\* ApplyCoupon rejects a code and the checkout fails: no such coupon, coupon
\* closed or used up, or (a fact of the cart, not modelled) a subtotal below
\* the coupon's minimum.
RejectCode(k) ==
  /\ pc[k] = "apply"
  /\ codes[k] # << >>
  /\ Head(codes[k]) \notin seen[k]
  /\ GoTo(k, "done")
  /\ UNCHANGED <<buyer, codes, seen, applied, unrecorded, placed, lost, coupons>>

\* Mutant: goes on although the INSERT failed.
InsertOrderUnchecked(k) ==
  /\ pc[k] = "apply"
  /\ codes[k] = << >>
  /\ UNCHANGED placed
  /\ unrecorded' = [unrecorded EXCEPT ![k] = applied[k]]
  /\ GoTo(k, IF applied[k] = << >> THEN "done" ELSE "record")
  /\ UNCHANGED <<buyer, codes, seen, applied, lost, coupons>>

\* INSERT INTO live_orders with the summed discount.
InsertOrder(k) ==
  /\ pc[k] = "apply"
  /\ codes[k] = << >>
  /\ placed' = placed \cup {k}
  /\ unrecorded' = [unrecorded EXCEPT ![k] = applied[k]]
  /\ GoTo(k, IF applied[k] = << >> THEN "done" ELSE "record")
  /\ UNCHANGED <<buyer, codes, seen, applied, lost, coupons>>

\* UNIQUE (coupon_id, user_id): the buyer has a usage row of c already.
HasUsage(b, c) == \E j \in usages[c] : buyer[j] = b

\* The loop over appliedCouponIDs moves on, whatever RecordUsage returned.
NextRecord(k) ==
  /\ unrecorded' = [unrecorded EXCEPT ![k] = Tail(@)]
  /\ GoTo(k, IF Tail(unrecorded[k]) = << >> THEN "done" ELSE "record")
  /\ UNCHANGED <<buyer, codes, seen, applied, placed, open>>

\* Mutants of the transaction: the unconditional increment of the earlier
\* schema; the usage row kept when the cap refuses the increment; a cap that is
\* reached one use early.
RecordUsageUncapped(k) ==
  /\ pc[k] = "record"
  /\ LET c == Head(unrecorded[k]) IN
       IF HasUsage(buyer[k], c)
         THEN UNCHANGED <<used_count, usages>>
         ELSE /\ usages' = [usages EXCEPT ![c] = @ \cup {k}]
              /\ used_count' = [used_count EXCEPT ![c] = @ + 1]
  /\ NextRecord(k)
  /\ UNCHANGED lost

RecordUsageNoRollback(k) ==
  /\ pc[k] = "record"
  /\ LET c == Head(unrecorded[k]) IN
       IF HasUsage(buyer[k], c)
         THEN UNCHANGED <<used_count, usages>>
         ELSE /\ usages' = [usages EXCEPT ![c] = @ \cup {k}]
              /\ used_count' = [used_count EXCEPT ![c] = IF HasRoom(c) THEN @ + 1 ELSE @]
  /\ NextRecord(k)
  /\ UNCHANGED lost

RecordUsageOneEarly(k) ==
  /\ pc[k] = "record"
  /\ LET c == Head(unrecorded[k]) IN
       IF \/ HasUsage(buyer[k], c)
          \/ MaxUses[c] # Unlimited /\ used_count[c] + 1 >= MaxUses[c]
         THEN UNCHANGED <<used_count, usages>>
         ELSE /\ usages' = [usages EXCEPT ![c] = @ \cup {k}]
              /\ used_count' = [used_count EXCEPT ![c] = @ + 1]
  /\ NextRecord(k)
  /\ UNCHANGED lost

\* The transaction of RecordUsage.  The unique index and the row lock on the
\* coupon make it atomic; a duplicate row, or an UPDATE without effect, rolls
\* back both statements.
RecordUsage(k) ==
  /\ pc[k] = "record"
  /\ LET c == Head(unrecorded[k]) IN
       IF HasUsage(buyer[k], c) \/ ~HasRoom(c)
         THEN UNCHANGED <<used_count, usages>>
         ELSE /\ usages' = [usages EXCEPT ![c] = @ \cup {k}]
              /\ used_count' = [used_count EXCEPT ![c] = @ + 1]
  /\ NextRecord(k)
  /\ UNCHANGED lost

\* The transaction fails for another reason (connection lost, timeout); the
\* caller discards the error and goes on.
RecordUsageFails(k) ==
  /\ pc[k] = "record"
  /\ NextRecord(k)
  /\ lost' = lost \cup {k}
  /\ UNCHANGED <<used_count, usages>>

\* The process dies, the request is cancelled, or the INSERT fails.
Abandon(k) ==
  /\ pc[k] \in {"apply", "record"}
  /\ GoTo(k, "done")
  /\ lost' = lost \cup {k}
  /\ UNCHANGED <<buyer, codes, seen, applied, unrecorded, placed, coupons>>

\* The coupon expires or is deactivated.
Close(c) ==
  /\ c \in open
  /\ open' = open \ {c}
  /\ UNCHANGED <<pc, buyer, codes, seen, applied, unrecorded, placed, lost,
                 used_count, usages>>

Next ==
  \/ \E k \in Checkouts :
       \/ \E cs \in RequestCodes : Start(k, cs)
       \/ ApplyCode(k) \/ RejectCode(k) \/ InsertOrder(k)
       \/ RecordUsage(k) \/ RecordUsageFails(k) \/ Abandon(k)
  \/ \E c \in Coupons : Close(c)

Spec == Init /\ [][Next]_vars

------------------------------------------------------------------------------
Has(s, c) == \E n \in 1..Len(s) : s[n] = c

\* "replaces the unconditional increment which let used_count exceed max_uses
\* under load": the counter of a limited coupon never passes its cap.
CapHolds ==
  \A c \in Coupons : MaxUses[c] # Unlimited => used_count[c] <= MaxUses[c]

\* The counter and the usage rows are two tables; they always tell the same
\* number of redemptions ("no phantom coupon_usages").
UsageCounted == \A c \in Coupons : used_count[c] = Cardinality(usages[c])

\* Every usage row is backed by an inserted order that carries the discount,
\* and no buyer has two rows of one coupon.
UsageRowsSound ==
  \A c \in Coupons : \A k \in usages[c] :
    /\ k \in placed
    /\ Has(applied[k], c)
    /\ \A j \in usages[c] : buyer[j] = buyer[k] => j = k

\* A discounted order that went through without a failure has its redemption
\* recorded, unless the buyer had redeemed the coupon before or others used it
\* up in the meantime.
NoRedemptionLost ==
  \A k \in placed \ lost : \A n \in 1..Len(applied[k]) :
    LET c == applied[k][n] IN
      \/ Has(unrecorded[k], c)
      \/ HasUsage(buyer[k], c)
      \/ ~HasRoom(c)

\* Comment on ApplyCoupon: abuse of a coupon "is bounded by the now-mandatory
\* max_uses total cap": no more orders carry its discount than the cap allows.
DiscountsWithinCap ==
  \A c \in Coupons :
    MaxUses[c] # Unlimited =>
      Cardinality({k \in placed : Has(applied[k], c)}) <= MaxUses[c]
==============================================================================
