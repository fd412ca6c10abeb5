----------------------------- MODULE Placement -----------------------------
(***************************************************************************)
(* Where the pictures of a replay are laid over the video: the size each   *)
(* is drawn in, the place overlayExpr gives it, the lanes of the gifts and *)
(* the lines of the chat, which libass scales from the 1080 by 1920 the    *)
(* worker leaves Bake to assume.                                           *)
(*                                                                         *)
(* The pictures come and go in any order; a second coupon or pin would     *)
(* cover the first and is not told apart from it.                          *)
(***************************************************************************)
EXTENDS Integers, FiniteSets

CONSTANTS
  Frames,        \* sizes of the video: <<width, height>>
  MaxProducts,   \* bound: cards in the product list, the most that fit above the chat
  MaxStack       \* ChatMaxStack: 6

VARIABLES
  frame,
  cards,         \* products of the session, listed for the whole video
  shown,         \* pictures shown now
  rows           \* chat lines shown now

vars == <<frame, cards, shown, rows>>

GiftMaxLane == 4

Gift(lane) == [type |-> "gift", lane |-> lane]
Alone(type) == [type |-> type, lane |-> 0]
Pictures == {Alone(t) : t \in {"pin", "coupon", "bot"}} \cup {Gift(l) : l \in 0..GiftMaxLane}
Products == Alone("products")

TypeOK ==
  /\ frame \in Frames /\ cards \in 0..MaxProducts
  /\ shown \subseteq Pictures /\ rows \in 0..MaxStack

Init == frame \in Frames /\ cards \in {0, MaxProducts} /\ shown = {} /\ rows = 0

-----------------------------------------------------------------------------
(* Sizes and places, in pixels *)

PinBanner == [w |-> 540, h |-> 88]
CouponBanner == [w |-> 360, h |-> 56]
BotChip == [w |-> 140, h |-> 44]
GiftBanner == [w |-> 380, h |-> 72]
GiftLaneStep == GiftBanner.h + 8

\* One card under the other, with a gap.
ProductList == [w |-> 280, h |-> cards * 76 + (cards - 1) * 8]

Size(p) ==
  CASE p.type = "pin" -> PinBanner
    [] p.type = "coupon" -> CouponBanner
    [] p.type = "bot" -> BotChip
    [] p.type = "gift" -> GiftBanner
    [] p.type = "products" -> ProductList

OverlayExpr(p) ==
  LET W == frame[1] H == frame[2] w == Size(p).w IN
  CASE p.type = "pin" -> <<(W - w) \div 2, 80>>
    [] p.type = "coupon" -> <<W - w - 24, 180>>
    [] p.type = "bot" -> <<W - w - 24, 32>>
    [] p.type = "products" -> <<24, (3 * H) \div 10>>
    [] p.type = "gift" -> <<W - w - 16, 280 + p.lane * GiftLaneStep>>

\* The lane of the next gift: the lowest free one, the last when none is.
NextLane ==
  LET free == {l \in 0..GiftMaxLane : Gift(l) \notin shown}
  IN  IF free = {} THEN GiftMaxLane ELSE CHOOSE l \in free : \A k \in free : l <= k

\* The font is 1920 / 60 = 32 high, and the line k above the lowest one has its
\* foot 500 + 48 * k above the bottom.
ChatTop(k) == frame[2] - ((500 + 48 * k + 32) * frame[2]) \div 1920

-----------------------------------------------------------------------------
Appear(p) ==
  /\ p \notin shown
  /\ p.type = "gift" => p.lane = NextLane
  /\ shown' = shown \cup {p}
  /\ UNCHANGED <<frame, cards, rows>>

Disappear(p) == p \in shown /\ shown' = shown \ {p} /\ UNCHANGED <<frame, cards, rows>>

\* The stack of lines grows up to its limit.
ChatLine == rows < MaxStack /\ rows' = rows + 1 /\ UNCHANGED <<frame, cards, shown>>

Next == ChatLine \/ \E p \in Pictures : Appear(p) \/ Disappear(p)

Spec == Init /\ [][Next]_vars

-----------------------------------------------------------------------------
(* Properties *)

Laid == shown \cup (IF cards > 0 THEN {Products} ELSE {})

Box(p) ==
  LET at == OverlayExpr(p) size == Size(p)
  IN  [left |-> at[1], right |-> at[1] + size.w, top |-> at[2], bottom |-> at[2] + size.h]

Apart(a, b) ==
  a.right <= b.left \/ b.right <= a.left \/ a.bottom <= b.top \/ b.bottom <= a.top

\* No two pictures shown at one moment lie over each other, every one is inside
\* the video, and none reaches down into the chat, however many lines it has
\* and however many gifts are shown: the sizes, places and lanes fit together
\* on every frame the hosts send (the comments of overlayExpr and giftMaxLane).
PicturesApart ==
  /\ \A p, q \in Laid : p # q => Apart(Box(p), Box(q))
  /\ \A p \in Laid :
       /\ Box(p).left >= 0 /\ Box(p).right <= frame[1]
       /\ rows > 0 => Box(p).bottom <= ChatTop(rows - 1)
=============================================================================
