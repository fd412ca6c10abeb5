\* Three checkouts of up to three buyers compete for two uses of coupon X.
SPECIFICATION Spec
CONSTANTS
  X = X
  Y = Y
  xUpper = xUpper
  xLower = xLower
  yUpper = yUpper
  Checkouts = {k1, k2, k3}
  Buyers = {b1, b2, b3}
  Coupons = {X}
  Codes = {xUpper, xLower}
  CouponOf <- MCCouponOf
  MaxUses <- TwoUses
  Unlimited = Unlimited
  MaxCodes = 2
SYMMETRY Symmetry
INVARIANTS CapHolds UsageCounted UsageRowsSound NoRedemptionLost
CHECK_DEADLOCK FALSE
