------------------------------- MODULE Market -------------------------------
(***************************************************************************)
(* What a product costs on the feed card and what it costs in the cart.    *)
(* Admins run flash sales, whose slots carry a price for a product while   *)
(* the sale's window is open; sellers change the product's status; a buyer *)
(* adds to the cart in three statements: the variant, the cheapest open    *)
(* slot, the row of the cart.  Card and cart share the slots; without one, *)
(* the card shows the sale price of the product and the cart charges the   *)
(* price of the variant, which is a column of another table and may differ *)
(* (two kilos cost more than the one the card is about).                   *)
(*                                                                         *)
(* result is history: what each finished request charges per unit, what    *)
(* the card showed and the cheapest slot was when the request looked for   *)
(* slots, whether that query failed, and whether it made the row.          *)
(***************************************************************************)
EXTENDS Integers, FiniteSets, FiniteSetsExt

CONSTANTS
  Calls,        \* requests to add to the cart
  Sales,        \* flash sales
  Sale,         \* sale price of the product
  VariantPrice, \* sale price, or else price, of the variant that is bought
  FlashPrices,  \* the prices admins give a slot
  LivePrice,    \* sale price of the product in a live session
  MaxTime,      \* bound: the clock of the windows
  MaxEdits,     \* bound: what admins and sellers do
  None

VARIABLES
  now,
  sales,        \* flash_sales: the window and is_active, or None
  slot,         \* flash_sale_products: the product's price in each sale
  status,       \* products.status
  line,         \* cart_items: unit price and quantity of the variant, or None
  liveLine,     \* the same of the product in the session
  quote,        \* what each call has read
  step, result, edits

saleVars == <<now, sales, slot, status>>
cartVars == <<line, liveLine, quote, step, result>>
vars == <<saleVars, cartVars, edits>>

Times == 0..MaxTime
Windows == {w \in [starts : Times, ends : Times, active : BOOLEAN] : w.starts < w.ends}
Statuses == {"draft", "active", "inactive", "deleted"}
Prices == FlashPrices \cup {Sale, VariantPrice, LivePrice}
Lines == [unit : Prices, quantity : Nat \ {0}]
Quotes ==
  [unit : Prices, shown : Prices \cup {None}, flash : FlashPrices \cup {None},
   failed : BOOLEAN]
Results == [quote : Quotes, unit : Prices, fresh : BOOLEAN]

TypeOK ==
  /\ now \in Times
  /\ sales \in [Sales -> Windows \cup {None}]
  /\ slot \in [Sales -> FlashPrices \cup {None}]
  /\ status \in Statuses
  /\ {line, liveLine} \subseteq Lines \cup {None}
  /\ quote \in [Calls -> Quotes]
  /\ step \in [Calls -> {"idle", "slots", "update", "insert", "done"}]
  /\ result \in [Calls -> Results \cup {None}]

\* What a request knows of the price before it reads.
Unread == [unit |-> VariantPrice, shown |-> None, flash |-> None, failed |-> FALSE]

Init ==
  /\ now = 0 /\ edits = 0
  /\ sales = [s \in Sales |-> None] /\ slot = [s \in Sales |-> None]
  /\ status = "active"
  /\ line = None /\ liveLine = None
  /\ quote = [c \in Calls |-> Unread]
  /\ step = [c \in Calls |-> "idle"]
  /\ result = [c \in Calls |-> None]

------------------------------------------------------------------------------
(* Prices. *)

\* The slots of sales whose window covers now.  sold_count is never raised, so
\* that a slot's stock_limit never closes it.
OpenSlots ==
  {slot[s] : s \in {t \in Sales : /\ sales[t] # None /\ slot[t] # None
                                  /\ sales[t].active
                                  /\ sales[t].starts <= now /\ now < sales[t].ends}}

\* The cheapest of them.
FlashPrice == IF OpenSlots # {} THEN Min(OpenSlots) ELSE None

\* The card of an active product: the cheapest slot, else the product's sale price.
CardPrice ==
  IF status # "active" THEN None
    ELSE IF OpenSlots # {} THEN FlashPrice ELSE Sale

\* Mutant: the variant's price, compared the wrong way round.
DearestPrice == Max(OpenSlots \cup {VariantPrice})

\* The cart's price of a new row: the cheapest slot if it is below the variant's own.
CartPrice == Min(OpenSlots \cup {VariantPrice})

------------------------------------------------------------------------------
(* Admins and sellers. *)

Edit == edits < MaxEdits /\ edits' = edits + 1

\* attachProducts links a product only while it is active.
Attached(p) == IF status = "active" THEN p ELSE None

CreateSale(s, w, p) ==
  /\ Edit /\ sales[s] = None
  /\ sales' = [sales EXCEPT ![s] = w]
  /\ slot' = [slot EXCEPT ![s] = Attached(p)]
  /\ UNCHANGED <<now, status, cartVars>>

\* Update patches the window and is_active, under the window's CHECK.
UpdateSale(s, w) ==
  /\ Edit /\ sales[s] # None
  /\ sales' = [sales EXCEPT ![s] = w]
  /\ UNCHANGED <<now, slot, status, cartVars>>

\* SetProducts replaces the slots.
SetProducts(s, p) ==
  /\ Edit /\ sales[s] # None
  /\ slot' = [slot EXCEPT ![s] = Attached(p)]
  /\ UNCHANGED <<now, sales, status, cartVars>>

RemoveProduct(s) ==
  /\ Edit /\ slot[s] # None
  /\ slot' = [slot EXCEPT ![s] = None]
  /\ UNCHANGED <<now, sales, status, cartVars>>

\* The slots go with their sale.
DeleteSale(s) ==
  /\ Edit /\ sales[s] # None
  /\ sales' = [sales EXCEPT ![s] = None]
  /\ slot' = [slot EXCEPT ![s] = None]
  /\ UNCHANGED <<now, status, cartVars>>

\* UpdateStatus, of a deleted product as well.
UpdateStatus(t) ==
  /\ Edit /\ t \in {"draft", "active", "inactive"} \ {status}
  /\ status' = t
  /\ UNCHANGED <<now, sales, slot, cartVars>>

SoftDelete ==
  /\ Edit /\ status # "deleted"
  /\ status' = "deleted"
  /\ UNCHANGED <<now, sales, slot, cartVars>>

Tick == now < MaxTime /\ now' = now + 1 /\ UNCHANGED <<sales, slot, status, cartVars, edits>>

------------------------------------------------------------------------------
(* The cart. *)

GoTo(c, s) == step' = [step EXCEPT ![c] = s]

\* addItem reads the variant, whatever the product's status.
ReadVariant(c) ==
  /\ step[c] = "idle" /\ GoTo(c, "slots")
  /\ UNCHANGED <<saleVars, line, liveLine, quote, result, edits>>

\* Then the slots; an error of this query leaves the variant's own price, whatever
\* the card shows.
ReadSlots(c) ==
  /\ step[c] = "slots" /\ GoTo(c, "update")
  /\ \E failed \in BOOLEAN :
       quote' = [quote EXCEPT ![c] =
         [unit |-> IF failed THEN VariantPrice ELSE CartPrice,
          shown |-> CardPrice, flash |-> FlashPrice, failed |-> failed]]
  /\ UNCHANGED <<saleVars, line, liveLine, result, edits>>

Finish(c, unit, fresh) ==
  result' = [result EXCEPT ![c] = [quote |-> quote[c], unit |-> unit, fresh |-> fresh]]

\* Upsert, first statement: a row that is there grows, at its own price.
UpdateLine(c) ==
  /\ step[c] = "update"
  /\ IF line # None
       THEN /\ line' = [line EXCEPT !.quantity = @ + 1]
            /\ Finish(c, line.unit, FALSE) /\ GoTo(c, "done")
       ELSE GoTo(c, "insert") /\ UNCHANGED <<line, result>>
  /\ UNCHANGED <<saleVars, liveLine, quote, edits>>

\* Second statement; the key (user, variant) refuses a second row.
InsertLine(c) ==
  /\ step[c] = "insert" /\ GoTo(c, "done")
  /\ IF line = None
       THEN line' = [unit |-> quote[c].unit, quantity |-> 1] /\ Finish(c, quote[c].unit, TRUE)
       ELSE UNCHANGED <<line, result>>
  /\ UNCHANGED <<saleVars, liveLine, quote, edits>>

\* addItemFromLive: the session's price, and the same Upsert.
AddFromLive(c) ==
  /\ step[c] = "idle" /\ GoTo(c, "done")
  /\ liveLine' = IF liveLine = None THEN [unit |-> LivePrice, quantity |-> 1]
                                    ELSE [liveLine EXCEPT !.quantity = @ + 1]
  /\ UNCHANGED <<saleVars, line, quote, result, edits>>

\* remove, removeSelected, and a checkout that cleans the cart.
RemoveLine ==
  /\ line # None /\ line' = None
  /\ UNCHANGED <<saleVars, liveLine, quote, step, result, edits>>

------------------------------------------------------------------------------
AdminEdit ==
  \/ \E s \in Sales : \/ \E w \in Windows : UpdateSale(s, w)
                                            \/ \E p \in FlashPrices : CreateSale(s, w, p)
                      \/ \E p \in FlashPrices : SetProducts(s, p)
                      \/ RemoveProduct(s) \/ DeleteSale(s)
  \/ SoftDelete
  \/ \E t \in {"draft", "active", "inactive"} : UpdateStatus(t)

Add == \E c \in Calls :
  ReadVariant(c) \/ ReadSlots(c) \/ UpdateLine(c) \/ InsertLine(c) \/ AddFromLive(c)

Next == Tick \/ AdminEdit \/ Add \/ RemoveLine

Spec == Init /\ [][Next]_vars

------------------------------------------------------------------------------
\* With a slot open and found a unit costs no more than the slot and no more than the
\* card shows; with none open, or when the query failed, exactly what the variant
\* costs, whatever the card shows.
IsHonest(unit, q) ==
  IF q.failed \/ q.flash = None
    THEN unit = VariantPrice
    ELSE unit <= q.flash /\ (q.shown = None \/ unit <= q.shown)

\* A row is made at an honest price, of the moment its request looked for slots, and
\* its price stays what it was made at, however the sales go on.
NewRowIsHonest ==
  /\ \A c \in Calls : result[c] # None /\ result[c].fresh =>
                        IsHonest(result[c].unit, result[c].quote)
  /\ line # None => \E c \in Calls : /\ result[c] # None /\ result[c].fresh
                                     /\ result[c].unit = line.unit
==============================================================================
