------------------------------ MODULE MCCoupons ------------------------------
(***************************************************************************)
(* TLC instances of Coupons: coupon X has fewer uses than the checkouts    *)
(* want, coupon Y has no cap; X is known under two spellings.             *)
(***************************************************************************)
EXTENDS Coupons, TLC

CONSTANTS X, Y, xUpper, xLower, yUpper

MCCouponOf == [code \in Codes |-> IF code = yUpper THEN Y ELSE X]
TwoUses == [c \in Coupons |-> IF c = X THEN 2 ELSE Unlimited]

Symmetry == Permutations(Checkouts) \cup Permutations(Buyers)
==============================================================================
