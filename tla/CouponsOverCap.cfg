\* The discounts that orders carry against the cap.
SPECIFICATION Spec
CONSTANTS
  X = X
  Y = Y
  xUpper = xUpper
  xLower = xLower
  yUpper = yUpper
  Checkouts = {k1, k2, k3}
  Buyers = {b1, b2}
  Coupons = {X}
  Codes = {xUpper, xLower}
  CouponOf <- MCCouponOf
  MaxUses <- TwoUses
  Unlimited = Unlimited
  MaxCodes = 1
SYMMETRY Symmetry
INVARIANT DiscountsWithinCap
CHECK_DEADLOCK FALSE
