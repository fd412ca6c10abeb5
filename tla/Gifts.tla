------------------------------- MODULE Gifts -------------------------------
(***************************************************************************)
(* Loyalty points and the gifts they buy in one live session.  SendGift is *)
(* one transaction: it locks the sender's row, and what it wrote is seen   *)
(* at the commit or never.  An admin credits points meanwhile, and the     *)
(* session ends whenever its host likes.                                   *)
(*                                                                         *)
(* credited and told are history.                                          *)
(***************************************************************************)
EXTENDS Integers, FiniteSets

CONSTANTS
  Calls,         \* gift/send requests
  Users,         \* who may send; the host is none of them
  Nobody,
  Catalog,       \* live_gift_catalog: point_cost of each gift
  Quantities,    \* quantities a request may name
  MaxQuantity,   \* 99
  Credits,       \* points an admin adds at once
  MaxCredit,     \* bound: points of one user
  NoAccount      \* no row in user_loyalty

VARIABLES
  live,          \* is the session live?
  active,        \* gifts of the catalog that are for sale
  points,        \* user_loyalty
  rowLock,       \* the call that holds the row FOR UPDATE, or Nobody
  gifts,         \* live_gifts: sender, total_points and call
  giftChats,     \* chat_messages of type gift: the call
  banners,       \* live_events of type gift: the call
  credited,
  request,       \* each call's sender, gift and quantity
  balance,       \* what each call read
  told,          \* points_remaining each call was answered with
  step

tables == <<points, rowLock, gifts, giftChats, banners>>
callVars == <<request, balance, told, step>>
vars == <<live, active, tables, credited, callVars>>

Steps == {"idle", "send", "locked", "sent", "done", "refused"}

Points == 0..MaxCredit

TypeOK ==
  /\ live \in BOOLEAN /\ active \in SUBSET DOMAIN Catalog
  /\ points \in [Users -> Points \cup {NoAccount}] /\ credited \in [Users -> Points]
  /\ rowLock \in [Users -> Calls \cup {Nobody}]
  /\ gifts \subseteq [sender : Users, total : Nat, call : Calls]
  /\ giftChats \in SUBSET Calls /\ banners \in SUBSET Calls
  /\ step \in [Calls -> Steps]

Idle == [sender |-> Nobody, gift |-> Nobody, quantity |-> 0]

Init ==
  /\ live = TRUE /\ active = DOMAIN Catalog
  /\ points = [u \in Users |-> NoAccount] /\ credited = [u \in Users |-> 0]
  /\ rowLock = [u \in Users |-> Nobody]
  /\ gifts = {} /\ giftChats = {} /\ banners = {}
  /\ request = [c \in Calls |-> Idle]
  /\ balance = [c \in Calls |-> 0] /\ told = [c \in Calls |-> NoAccount]
  /\ step = [c \in Calls |-> "idle"]

Sender(c) == request[c].sender

TotalPoints(c) == Catalog[request[c].gift] * request[c].quantity

\* Mutant: any account will do.
HasAccount(c) == points[Sender(c)] # NoAccount

Affords(c) ==
  points[Sender(c)] # NoAccount /\ points[Sender(c)] >= TotalPoints(c)

GoTo(c, s) == step' = [step EXCEPT ![c] = s]

------------------------------------------------------------------------------
(* The session, the catalog and the admin. *)

EndSession ==
  /\ live /\ live' = FALSE
  /\ UNCHANGED <<active, tables, credited, callVars>>

RetireGift(g) ==
  /\ g \in active /\ active' = active \ {g}
  /\ UNCHANGED <<live, tables, credited, callVars>>

\* An upsert of its own; it waits for the row of a gift under way.
UpsertPoints(u, delta) ==
  /\ rowLock[u] = Nobody
  /\ points' = [points EXCEPT ![u] = IF @ = NoAccount THEN delta ELSE @ + delta]

AddLoyalty(u, delta) ==
  /\ credited[u] + delta <= MaxCredit
  /\ UpsertPoints(u, delta)
  /\ credited' = [credited EXCEPT ![u] = @ + delta]
  /\ UNCHANGED <<live, active, rowLock, gifts, giftChats, banners, callVars>>

------------------------------------------------------------------------------
(* gift/send. *)

\* The handler's clamp: at least one, at most 99.
Clamped(n) == IF n <= 0 THEN 1 ELSE IF n > MaxQuantity THEN MaxQuantity ELSE n

\* The session's status is read before the transaction: it may end in between.
SpecGiftSend(c, u, g, n) ==
  /\ step[c] = "idle"
  /\ request' = [request EXCEPT ![c] = [sender |-> u, gift |-> g, quantity |-> Clamped(n)]]
  /\ GoTo(c, IF live THEN "send" ELSE "refused")
  /\ UNCHANGED <<live, active, tables, credited, balance, told>>

\* ErrGiftNotFound, ErrNoLoyaltyAccount, ErrInsufficientPoint: nothing was written.
Refuse(c) ==
  /\ step[c] = "send" /\ rowLock[Sender(c)] = Nobody
  /\ \/ request[c].gift \notin active
     \/ ~Affords(c)
  /\ GoTo(c, "refused")
  /\ UNCHANGED <<live, active, tables, credited, request, balance, told>>

\* SELECT points ... FOR UPDATE, and enough of them.
LockRow(c) ==
  /\ step[c] = "send" /\ request[c].gift \in active
  /\ rowLock[Sender(c)] = Nobody
  /\ Affords(c)
  /\ rowLock' = [rowLock EXCEPT ![Sender(c)] = c]
  /\ balance' = [balance EXCEPT ![c] = points[Sender(c)]]
  /\ GoTo(c, "locked")
  /\ UNCHANGED <<live, active, points, gifts, giftChats, banners, credited, request, told>>

\* The deduction, the gift and its line of chat are seen together.
Commit(c) ==
  /\ step[c] = "locked"
  /\ points' = [points EXCEPT ![Sender(c)] = @ - TotalPoints(c)]
  /\ gifts' = gifts \cup {[sender |-> Sender(c), total |-> TotalPoints(c), call |-> c]}
  /\ giftChats' = giftChats \cup {c}
  /\ rowLock' = [rowLock EXCEPT ![Sender(c)] = Nobody]
  /\ told' = [told EXCEPT ![c] = balance[c] - TotalPoints(c)]
  /\ GoTo(c, "sent")
  /\ UNCHANGED <<live, active, banners, credited, request, balance>>

\* Mutant: the deduction is a statement of its own, kept when a later one fails.
RollbackKeepsCharge(c) ==
  /\ step[c] = "locked"
  /\ rowLock' = [rowLock EXCEPT ![Sender(c)] = Nobody]
  /\ points' = [points EXCEPT ![Sender(c)] = @ - TotalPoints(c)]
  /\ GoTo(c, "refused")
  /\ UNCHANGED <<live, active, gifts, giftChats, banners, credited, request, balance, told>>

\* An error of any statement, or the end of the process: the transaction never was.
Rollback(c) ==
  /\ step[c] = "locked"
  /\ rowLock' = [rowLock EXCEPT ![Sender(c)] = Nobody]
  /\ GoTo(c, "refused")
  /\ UNCHANGED <<live, active, points, gifts, giftChats, banners, credited, request,
                 balance, told>>

\* The replay's banner is logged in the background; it may be lost.
LogGift(c) ==
  /\ step[c] = "sent" /\ GoTo(c, "done")
  /\ banners' = banners \cup {c} \/ UNCHANGED banners
  /\ UNCHANGED <<live, active, points, rowLock, gifts, giftChats, credited, request,
                 balance, told>>

------------------------------------------------------------------------------
GiftRequest(c) ==
  \/ \E u \in Users, g \in DOMAIN Catalog, n \in Quantities : SpecGiftSend(c, u, g, n)
  \/ Refuse(c) \/ LockRow(c) \/ Commit(c) \/ Rollback(c)
  \/ LogGift(c)

Next ==
  \/ EndSession
  \/ \E g \in DOMAIN Catalog : RetireGift(g)
  \/ \E u \in Users, delta \in Credits : AddLoyalty(u, delta)
  \/ \E c \in Calls : GiftRequest(c)

Spec == Init /\ [][Next]_vars

------------------------------------------------------------------------------
\* The points the gifts of G have cost, one by one.
PointsOf(G) == {p \in G \X (1..MaxCredit) : p[2] <= p[1].total}

SpentBy(u) == Cardinality(PointsOf({g \in gifts : g.sender = u}))

\* Every point credited is in the balance or in a gift, whatever gifts of the
\* same sender, credits and rollbacks interleave; every gift has its line of
\* chat, and a banner in the replay only if it was paid for.
GiftsArePaid ==
  /\ \A u \in Users : points[u] # NoAccount => points[u] + SpentBy(u) = credited[u]
  /\ {g.call : g \in gifts} = giftChats /\ banners \subseteq giftChats
==============================================================================
