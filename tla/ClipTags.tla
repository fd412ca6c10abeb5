------------------------------ MODULE ClipTags ------------------------------
(***************************************************************************)
(* The cards of one clip.  Its poster chooses products of the catalog in   *)
(* display order; those that may be tagged are selected and linked one by  *)
(* one in the transaction that creates the clip, and the feed shows the    *)
(* linked ones that are for sale at that moment.  Coupons are linked and   *)
(* shown in the same way.                                                  *)
(***************************************************************************)
EXTENDS Integers, FiniteSets, SequencesExt

CONSTANTS
  Items,       \* products, or coupons
  Own,         \* those of the poster's shop
  Selections   \* the lists a client may send; an item may be in one twice

VARIABLES
  active,      \* for sale, or neither expired nor switched off
  selection,   \* the list the request brought
  anyShop,     \* the poster is an admin without a shop
  allowed,     \* what the SELECT of the transaction returned
  turn,        \* where the loop over the list is
  tags,        \* rows of the join table: id and sort_order
  clip         \* "none", "select", "link", "created" or "failed"

vars == <<active, selection, anyShop, allowed, turn, tags, clip>>

TypeOK ==
  /\ active \subseteq Items /\ allowed \subseteq Items
  /\ selection \in Selections \cup {<<>>} /\ anyShop \in BOOLEAN
  /\ turn \in 1..(Len(selection) + 1)
  /\ \A t \in tags : t.id \in Items /\ t.order \in Nat
  /\ clip \in {"none", "select", "link", "created", "failed"}

Init ==
  /\ active = Items /\ selection = <<>> /\ anyShop = FALSE
  /\ allowed = {} /\ turn = 1 /\ tags = {} /\ clip = "none"

------------------------------------------------------------------------------
Deactivate(i) ==
  /\ i \in active /\ active' = active \ {i}
  /\ UNCHANGED <<selection, anyShop, allowed, turn, tags, clip>>

Activate(i) ==
  /\ i \notin active /\ active' = active \cup {i}
  /\ UNCHANGED <<selection, anyShop, allowed, turn, tags, clip>>

\* The video's row is inserted; an empty list ends the transaction.
Create(s, admin) ==
  /\ clip = "none"
  /\ selection' = s /\ anyShop' = admin
  /\ clip' = IF s = <<>> THEN "created" ELSE "select"
  /\ UNCHANGED <<active, allowed, turn, tags>>

\* Unknown, foreign and inactive ids fall out here.
SelectAllowed ==
  /\ clip = "select"
  /\ allowed' = {i \in ToSet(selection) \cap active : anyShop \/ i \in Own}
  /\ clip' = "link"
  /\ UNCHANGED <<active, selection, anyShop, turn, tags>>

Tagged == {t.id : t \in tags}

\* Mutant: the loop runs over the map of allowed ids, in the map's order.
LinkInMapOrder ==
  /\ clip = "link" /\ turn <= Len(selection)
  /\ turn' = turn + 1
  /\ IF allowed \subseteq Tagged THEN UNCHANGED tags
     ELSE \E i \in allowed \ Tagged : tags' = tags \cup {[id |-> i, order |-> Cardinality(tags)]}
  /\ UNCHANGED <<active, selection, anyShop, allowed, clip>>

\* One turn of the loop: what is not allowed or was linked before is skipped.
\* The counter `order` is the number of rows so far.
Link ==
  /\ clip = "link" /\ turn <= Len(selection)
  /\ turn' = turn + 1
  /\ LET i == selection[turn] IN
       tags' = IF i \in allowed \ Tagged
                 THEN tags \cup {[id |-> i, order |-> Cardinality(tags)]} ELSE tags
  /\ UNCHANGED <<active, selection, anyShop, allowed, clip>>

Commit ==
  /\ clip = "link" /\ turn > Len(selection)
  /\ clip' = "created"
  /\ UNCHANGED <<active, selection, anyShop, allowed, turn, tags>>

\* Any statement fails: neither clip nor rows are left.
Rollback ==
  /\ clip \in {"select", "link"}
  /\ clip' = "failed" /\ tags' = {}
  /\ UNCHANGED <<active, selection, anyShop, allowed, turn>>

\* The rows joined with what is for sale now, and where sort_order puts them.
Shown == {t \in tags : t.id \in active}
Place(t) == 1 + Cardinality({u \in Shown : u.order < t.order})

\* fillProducts, fillCoupons: the cards of the clip in the order of its rows.
Cards == [n \in 1..Cardinality(Shown) |-> (CHOOSE t \in Shown : Place(t) = n).id]

Next ==
  \/ \E i \in Items : Deactivate(i) \/ Activate(i)
  \/ \E s \in Selections, admin \in BOOLEAN : Create(s, admin)
  \/ SelectAllowed \/ Link \/ Commit \/ Rollback

Spec == Init /\ [][Next]_vars

------------------------------------------------------------------------------
\* Where i comes first in the selection.
Rank(i) == CHOOSE n \in DOMAIN selection :
  selection[n] = i /\ \A m \in 1..(n - 1) : selection[m] # i

\* The cards of a clip are those of the chosen items that could be tagged and
\* are for sale now, each once, in the order they were chosen in, whatever was
\* chosen twice or skipped (attachProducts, productsForVideos).
CardsAsChosen ==
  clip = "created" =>
    /\ ToSet(Cards) = allowed \cap active
    /\ \A m, n \in DOMAIN Cards : m < n => Rank(Cards[m]) < Rank(Cards[n])
==============================================================================
