---------------------------- MODULE CouponsProofs ----------------------------
(***************************************************************************)
(* Theorems about Coupons for any checkouts, buyers, coupons and caps.     *)
(***************************************************************************)
EXTENDS Coupons, FiniteSetTheorems, TLAPS

USE DEF GoTo, coupons, Steps

\* A checkout that is still to record has something left to record.
RecordsLeft == \A k \in Checkouts : pc[k] = "record" => unrecorded[k] # << >>

\* What is left to record is in the order, and the order is inserted.
LeftIsApplied ==
  \A k \in Checkouts :
    /\ pc[k] \in {"idle", "apply"} => k \notin placed
    /\ pc[k] = "record" =>
         /\ k \in placed
         /\ \A n \in 1..Len(unrecorded[k]) : Has(applied[k], unrecorded[k][n])

TInv == TypeOK /\ RecordsLeft

\* The tail of a sequence keeps its type and loses no element but the first.
LEMMA TailFacts ==
  ASSUME NEW S, NEW s \in Seq(S), s # << >>
  PROVE  /\ Tail(s) \in Seq(S)
         /\ Head(s) \in S
         /\ Head(s) = s[1]
         /\ Len(Tail(s)) = Len(s) - 1
         /\ Len(s) \in Nat \ {0}
         /\ \A n \in 1..Len(Tail(s)) : Tail(s)[n] = s[n + 1]
OBVIOUS

\* RecordUsage moves to the next coupon whatever becomes of the current one.
LEMMA NextRecordType ==
  ASSUME NEW k \in Checkouts, TInv, pc[k] = "record", NextRecord(k)
  PROVE  /\ pc' \in [Checkouts -> Steps]
         /\ unrecorded' \in [Checkouts -> Seq(Coupons)]
         /\ RecordsLeft'
<1>1. unrecorded[k] # << >> /\ unrecorded[k] \in Seq(Coupons)
  BY DEF TInv, TypeOK, RecordsLeft
<1>2. Tail(unrecorded[k]) \in Seq(Coupons)
  BY <1>1, TailFacts
<1>3. QED
  BY <1>1, <1>2 DEF TInv, TypeOK, NextRecord, RecordsLeft

\* RecordUsage either leaves both tables alone or adds one row and one count.
Redeems(k, c) ==
  /\ ~HasUsage(buyer[k], c)
  /\ HasRoom(c)
  /\ usages' = [usages EXCEPT ![c] = @ \cup {k}]
  /\ used_count' = [used_count EXCEPT ![c] = @ + 1]

\* The transaction redeems, or it rolls back and says why.
LEMMA RecordUsageEffect ==
  ASSUME NEW k \in Checkouts, RecordUsage(k)
  PROVE  \/ /\ UNCHANGED <<used_count, usages>>
            /\ HasUsage(buyer[k], Head(unrecorded[k])) \/ ~HasRoom(Head(unrecorded[k]))
         \/ Redeems(k, Head(unrecorded[k]))
BY DEF RecordUsage, Redeems

\* Typing, with the loop condition that RecordUsage relies on.
LEMMA TypingInv == Spec => []TInv
<1>1. Init => TInv
  BY DEF Init, TInv, TypeOK, RecordsLeft
<1>2. TInv /\ [Next]_vars => TInv'
  <2> SUFFICES ASSUME TInv, [Next]_vars PROVE TInv'
    OBVIOUS
  <2> USE CouponsAssumption DEF TInv, TypeOK, RecordsLeft
  <2>1. ASSUME NEW k \in Checkouts, NEW cs \in RequestCodes, Start(k, cs)
        PROVE  TInv'
    <3>1. cs \in Seq(Codes)
      BY DEF RequestCodes
    <3>2. QED
      BY <2>1, <3>1 DEF Start
  <2>2. ASSUME NEW k \in Checkouts, ApplyCode(k) PROVE TInv'
    <3>1. /\ codes[k] \in Seq(Codes) /\ codes[k] # << >>
          /\ applied[k] \in Seq(Coupons)
      BY <2>2 DEF ApplyCode
    <3>2. /\ Tail(codes[k]) \in Seq(Codes)
          /\ Head(codes[k]) \in Codes
      BY <3>1, TailFacts
    <3>3. Append(applied[k], CouponOf[Head(codes[k])]) \in Seq(Coupons)
      BY <3>1, <3>2
    <3>4. applied' \in [Checkouts -> Seq(Coupons)]
      BY <2>2, <3>3 DEF ApplyCode
    <3>5. seen' \in [Checkouts -> SUBSET Codes]
      <4>1. seen' \in {seen, [seen EXCEPT ![k] = @ \cup {Head(codes[k])}]}
        BY <2>2 DEF ApplyCode
      <4>2. seen[k] \cup {Head(codes[k])} \in SUBSET Codes
        BY <3>2
      <4>3. QED
        BY <4>1, <4>2
    <3>6. codes' \in [Checkouts -> Seq(Codes)]
      BY <2>2, <3>2 DEF ApplyCode
    <3>7. UNCHANGED <<pc, buyer, unrecorded, placed, lost, open, used_count, usages>>
      BY <2>2 DEF ApplyCode
    <3>8. QED
      BY <3>4, <3>5, <3>6, <3>7
  <2>3. ASSUME NEW k \in Checkouts, RejectCode(k) PROVE TInv'
    BY <2>3 DEF RejectCode
  <2>4. ASSUME NEW k \in Checkouts, InsertOrder(k) PROVE TInv'
    BY <2>4 DEF InsertOrder
  <2>5. ASSUME NEW k \in Checkouts, RecordUsage(k) PROVE TInv'
    <3>1. pc[k] = "record" /\ NextRecord(k)
      BY <2>5 DEF RecordUsage
    <3>2. Head(unrecorded[k]) \in Coupons
      BY <3>1, TailFacts
    <3>3. used_count' \in [Coupons -> Nat] /\ usages' \in [Coupons -> SUBSET Checkouts]
      <4>1. CASE UNCHANGED <<used_count, usages>>
        BY <4>1
      <4>2. CASE Redeems(k, Head(unrecorded[k]))
        <5>1. usages[Head(unrecorded[k])] \cup {k} \in SUBSET Checkouts
          BY <3>2
        <5>2. used_count[Head(unrecorded[k])] + 1 \in Nat
          BY <3>2
        <5>3. QED
          BY <4>2, <5>1, <5>2 DEF Redeems
      <4>3. QED
        BY <2>5, <4>1, <4>2, RecordUsageEffect
    <3>4. QED
      BY <2>5, <3>1, <3>3, NextRecordType DEF RecordUsage, NextRecord
  <2>6. ASSUME NEW k \in Checkouts, RecordUsageFails(k) PROVE TInv'
    <3>1. pc[k] = "record" /\ NextRecord(k)
      BY <2>6 DEF RecordUsageFails
    <3>2. QED
      BY <2>6, <3>1, NextRecordType DEF RecordUsageFails, NextRecord
  <2>7. ASSUME NEW k \in Checkouts, Abandon(k) PROVE TInv'
    BY <2>7 DEF Abandon
  <2>8. ASSUME NEW c \in Coupons, Close(c) PROVE TInv'
    BY <2>8 DEF Close
  <2>9. CASE UNCHANGED vars
    BY <2>9 DEF vars
  <2>10. QED
    BY <2>1, <2>2, <2>3, <2>4, <2>5, <2>6, <2>7, <2>8, <2>9 DEF Next
<1>3. QED
  BY <1>1, <1>2, PTL DEF Spec

\* The variables keep their types.
THEOREM Typing == Spec => []TypeOK
<1>1. TInv => TypeOK
  BY DEF TInv
<1>2. QED
  BY <1>1, TypingInv, PTL

\* The tables of one step: RecordUsage may redeem, every other step leaves them.
LEMMA TablesStep ==
  ASSUME TInv, [Next]_vars
  PROVE  \/ UNCHANGED <<used_count, usages>>
         \/ \E k \in Checkouts :
              pc[k] = "record" /\ RecordUsage(k) /\ Redeems(k, Head(unrecorded[k]))
<1>1. ASSUME NEW k \in Checkouts, RecordUsage(k), UNCHANGED <<used_count, usages>>
      PROVE  UNCHANGED <<used_count, usages>>
  BY <1>1
<1>2. ASSUME NEW k \in Checkouts, RecordUsage(k), Redeems(k, Head(unrecorded[k]))
      PROVE  \E j \in Checkouts :
               pc[j] = "record" /\ RecordUsage(j) /\ Redeems(j, Head(unrecorded[j]))
  BY <1>2 DEF RecordUsage
<1>3. ASSUME NEW k \in Checkouts,
             \/ \E cs \in RequestCodes : Start(k, cs)
             \/ ApplyCode(k) \/ RejectCode(k) \/ InsertOrder(k)
             \/ RecordUsageFails(k) \/ Abandon(k)
      PROVE  UNCHANGED <<used_count, usages>>
  BY <1>3 DEF Start, ApplyCode, RejectCode, InsertOrder, RecordUsageFails, Abandon
<1>4. ASSUME NEW c \in Coupons, Close(c) PROVE UNCHANGED <<used_count, usages>>
  BY <1>4 DEF Close
<1>5. CASE UNCHANGED vars
  BY <1>5 DEF vars
<1>6. QED
  BY <1>1, <1>2, <1>3, <1>4, <1>5, RecordUsageEffect DEF Next

\* A redemption stays within the cap and counts exactly the row it adds.
LEMMA RedeemStep ==
  ASSUME TInv, CapHolds, UsageCounted,
         NEW k \in Checkouts, NEW c \in Coupons, Redeems(k, c)
  PROVE  CapHolds' /\ UsageCounted'
<1> USE CouponsAssumption DEF TInv, TypeOK
<1>1. CapHolds'
  <2> SUFFICES ASSUME NEW d \in Coupons, MaxUses[d] # Unlimited
               PROVE  used_count'[d] <= MaxUses[d]
    BY DEF CapHolds
  <2>1. MaxUses[d] \in Nat /\ used_count[d] \in Nat /\ used_count[d] <= MaxUses[d]
    BY DEF CapHolds
  <2>2. CASE d = c
    <3>1. used_count[d] < MaxUses[d] /\ used_count'[d] = used_count[d] + 1
      BY <2>2 DEF Redeems, HasRoom
    <3>2. QED
      BY <2>1, <3>1
  <2>3. CASE d # c
    BY <2>1, <2>3 DEF Redeems
  <2>4. QED
    BY <2>2, <2>3
<1>2. UsageCounted'
  <2> SUFFICES ASSUME NEW d \in Coupons
               PROVE  used_count'[d] = Cardinality(usages'[d])
    BY DEF UsageCounted
  <2>1. usages[d] \in SUBSET Checkouts /\ used_count[d] = Cardinality(usages[d])
    BY DEF UsageCounted
  <2>2. IsFiniteSet(usages[d])
    BY <2>1, FS_Subset
  <2>3. CASE d = c
    <3>1. k \notin usages[d]
      BY <2>3 DEF Redeems, HasUsage
    <3>2. Cardinality(usages[d] \cup {k}) = Cardinality(usages[d]) + 1
      BY <2>2, <3>1, FS_AddElement
    <3>3. usages'[d] = usages[d] \cup {k} /\ used_count'[d] = used_count[d] + 1
      BY <2>3 DEF Redeems
    <3>4. QED
      BY <2>1, <3>2, <3>3
  <2>4. CASE d # c
    BY <2>1, <2>4 DEF Redeems
  <2>5. QED
    BY <2>3, <2>4
<1>3. QED
  BY <1>1, <1>2

\* The cap of a limited coupon is never passed, and its counter agrees with the
\* usage rows, however many checkouts race (the transaction of RecordUsage).
THEOREM CapAndCount == Spec => [](CapHolds /\ UsageCounted)
<1> DEFINE I == TInv /\ CapHolds /\ UsageCounted
<1>1. Init => I
  <2> SUFFICES ASSUME Init PROVE I
    OBVIOUS
  <2>1. TInv
    BY DEF Init, TInv, TypeOK, RecordsLeft
  <2>2. CapHolds
    BY CouponsAssumption DEF Init, CapHolds
  <2>3. UsageCounted
    BY FS_EmptySet DEF Init, UsageCounted
  <2>4. QED
    BY <2>1, <2>2, <2>3
<1>2. I /\ TInv' /\ [Next]_vars => I'
  <2> SUFFICES ASSUME I, TInv', [Next]_vars PROVE CapHolds' /\ UsageCounted'
    OBVIOUS
  <2>1. CASE UNCHANGED <<used_count, usages>>
    BY <2>1 DEF CapHolds, UsageCounted
  <2>2. ASSUME NEW k \in Checkouts, pc[k] = "record",
               Redeems(k, Head(unrecorded[k]))
        PROVE  CapHolds' /\ UsageCounted'
    <3>1. Head(unrecorded[k]) \in Coupons
      BY <2>2, TailFacts DEF TInv, TypeOK, RecordsLeft
    <3>2. QED
      BY <2>2, <3>1, RedeemStep
  <2>3. QED
    BY <2>1, <2>2, TablesStep
<1>3. QED
  BY <1>1, <1>2, TypingInv, PTL DEF Spec

\* The counter of every coupon is the number of its usage rows.
THEOREM CounterIsRows == Spec => []UsageCounted
<1>1. QED
  BY CapAndCount, PTL

Orders == LeftIsApplied /\ UsageRowsSound /\ NoRedemptionLost

\* Steps of checkout k before its order is inserted touch neither table nor any
\* order, so what is known of the inserted orders stays known.
LEMMA EarlyStep ==
  ASSUME TInv, Orders, NEW k \in Checkouts,
         \/ \E cs \in RequestCodes : Start(k, cs)
         \/ ApplyCode(k) \/ RejectCode(k)
  PROVE  Orders'
<1>1. /\ pc[k] \in {"idle", "apply"}
      /\ UNCHANGED <<buyer, unrecorded, placed, lost, used_count, usages>>
      /\ \A j \in Checkouts \ {k} : applied'[j] = applied[j] /\ pc'[j] = pc[j]
      /\ pc'[k] \in {"apply", "done"}
  BY DEF Start, ApplyCode, RejectCode, TInv, TypeOK
<1>2. k \notin placed
  BY <1>1 DEF Orders, LeftIsApplied
<1>3. LeftIsApplied'
  <2> SUFFICES ASSUME NEW j \in Checkouts
               PROVE  /\ pc'[j] \in {"idle", "apply"} => j \notin placed
                      /\ pc'[j] = "record" =>
                           /\ j \in placed
                           /\ \A n \in 1..Len(unrecorded[j]) :
                                Has(applied'[j], unrecorded[j][n])
    BY <1>1 DEF LeftIsApplied, Has
  <2>1. CASE j = k
    BY <1>1, <1>2, <2>1
  <2>2. CASE j # k
    BY <1>1, <2>2 DEF Orders, LeftIsApplied
  <2>3. QED
    BY <2>1, <2>2
<1>4. UsageRowsSound'
  <2> SUFFICES ASSUME NEW d \in Coupons, NEW j \in usages[d]
               PROVE  /\ j \in placed
                      /\ Has(applied'[j], d)
                      /\ \A i \in usages[d] : buyer[i] = buyer[j] => i = j
    BY <1>1 DEF UsageRowsSound, Has
  <2>1. j \in placed /\ j # k /\ j \in Checkouts
    BY <1>2 DEF Orders, UsageRowsSound, TInv, TypeOK
  <2>2. QED
    BY <1>1, <2>1 DEF Orders, UsageRowsSound
<1>5. NoRedemptionLost'
  <2> SUFFICES ASSUME NEW j \in placed \ lost, NEW n \in 1..Len(applied'[j])
               PROVE  \/ Has(unrecorded[j], applied'[j][n])
                      \/ HasUsage(buyer[j], applied'[j][n])
                      \/ ~HasRoom(applied'[j][n])
    BY <1>1 DEF NoRedemptionLost, Has, HasUsage, HasRoom
  <2>1. applied'[j] = applied[j]
    BY <1>1, <1>2 DEF TInv, TypeOK
  <2>2. QED
    BY <2>1 DEF Orders, NoRedemptionLost
<1>6. QED
  BY <1>3, <1>4, <1>5 DEF Orders

\* The order enters live_orders with everything it applies left to record.
LEMMA InsertStep ==
  ASSUME TInv, Orders, NEW k \in Checkouts, InsertOrder(k)
  PROVE  Orders'
<1> USE DEF Has, HasUsage, HasRoom
<1>1. /\ placed' = placed \cup {k}
      /\ unrecorded' = [unrecorded EXCEPT ![k] = applied[k]]
      /\ pc' = [pc EXCEPT ![k] = IF applied[k] = << >> THEN "done" ELSE "record"]
      /\ UNCHANGED <<buyer, applied, lost, used_count, usages>>
  BY DEF InsertOrder
<1>2. LeftIsApplied'
  BY <1>1 DEF Orders, LeftIsApplied, TInv, TypeOK
<1>3. UsageRowsSound'
  BY <1>1 DEF Orders, UsageRowsSound, TInv, TypeOK
<1>4. NoRedemptionLost'
  <2> SUFFICES ASSUME NEW j \in placed' \ lost', NEW n \in 1..Len(applied'[j])
               PROVE  \/ Has(unrecorded'[j], applied'[j][n])
                      \/ (HasUsage(buyer[j], applied[j][n]))'
                      \/ (~HasRoom(applied[j][n]))'
    BY DEF NoRedemptionLost
  <2>1. CASE j = k
    <3>1. unrecorded'[k] = applied[k]
      BY <1>1 DEF TInv, TypeOK
    <3>2. QED
      BY <1>1, <2>1, <3>1
  <2>2. CASE j # k
    <3>1. unrecorded'[j] = unrecorded[j] /\ j \in placed \ lost
      BY <1>1, <2>2 DEF TInv, TypeOK
    <3>2. QED
      BY <1>1, <2>2, <3>1 DEF Orders, NoRedemptionLost
  <2>3. QED
    BY <2>1, <2>2
<1>5. QED
  BY <1>2, <1>3, <1>4 DEF Orders

\* A turn of the recording loop: what leaves the list is redeemed now, was
\* redeemed by this buyer before, or met an exhausted coupon.
LEMMA RecordStep ==
  ASSUME TInv, Orders, NEW k \in Checkouts, RecordUsage(k),
         NEW c \in Coupons, c = Head(unrecorded[k])
  PROVE  Orders'
<1>1. /\ pc[k] = "record"
      /\ NextRecord(k)
      /\ UNCHANGED <<buyer, applied, placed, lost>>
  BY DEF RecordUsage, NextRecord
<1>2. unrecorded[k] \in Seq(Coupons) /\ unrecorded[k] # << >>
  BY <1>1 DEF TInv, TypeOK, RecordsLeft
<1>3. /\ Tail(unrecorded[k]) \in Seq(Coupons)
      /\ c = unrecorded[k][1]
      /\ Len(unrecorded[k]) \in Nat \ {0}
      /\ Len(Tail(unrecorded[k])) = Len(unrecorded[k]) - 1
      /\ \A n \in 1..Len(Tail(unrecorded[k])) :
           Tail(unrecorded[k])[n] = unrecorded[k][n + 1]
  BY <1>2, TailFacts
<1>4. /\ unrecorded' = [unrecorded EXCEPT ![k] = Tail(unrecorded[k])]
      /\ unrecorded'[k] = Tail(unrecorded[k])
      /\ pc' = [pc EXCEPT ![k] = IF Tail(unrecorded[k]) = << >> THEN "done" ELSE "record"]
  BY <1>1 DEF NextRecord, TInv, TypeOK
<1>5. k \in placed /\ Has(applied[k], c)
  <2>1. k \in placed /\ \A n \in 1..Len(unrecorded[k]) : Has(applied[k], unrecorded[k][n])
    BY <1>1 DEF Orders, LeftIsApplied
  <2>2. 1 \in 1..Len(unrecorded[k])
    BY <1>3
  <2>3. QED
    BY <1>3, <2>1, <2>2
<1>6. LeftIsApplied'
  <2> SUFFICES ASSUME NEW j \in Checkouts
               PROVE  /\ pc'[j] \in {"idle", "apply"} => j \notin placed
                      /\ pc'[j] = "record" =>
                           /\ j \in placed
                           /\ \A n \in 1..Len(unrecorded'[j]) :
                                Has(applied[j], unrecorded'[j][n])
    BY <1>1 DEF LeftIsApplied, Has
  <2>1. CASE j = k
    <3>1. pc'[j] \in {"done", "record"}
      BY <1>4, <2>1 DEF TInv, TypeOK
    <3>2. ASSUME NEW n \in 1..Len(Tail(unrecorded[k]))
          PROVE  Has(applied[k], Tail(unrecorded[k])[n])
      <4>1. n + 1 \in 1..Len(unrecorded[k])
        BY <1>3
      <4>2. Tail(unrecorded[k])[n] = unrecorded[k][n + 1]
        BY <1>3
      <4>3. QED
        BY <1>1, <4>1, <4>2 DEF Orders, LeftIsApplied
    <3>3. QED
      BY <1>4, <1>5, <2>1, <3>1, <3>2
  <2>2. CASE j # k
    <3>1. pc'[j] = pc[j] /\ unrecorded'[j] = unrecorded[j]
      BY <1>4, <2>2 DEF TInv, TypeOK
    <3>2. QED
      BY <3>1 DEF Orders, LeftIsApplied
  <2>3. QED
    BY <2>1, <2>2
<1>7. \A d \in Coupons : usages[d] \subseteq usages'[d]
  <2>1. CASE UNCHANGED <<used_count, usages>>
    BY <2>1
  <2>2. CASE Redeems(k, c)
    BY <1>3, <2>2 DEF Redeems, TInv, TypeOK
  <2>3. QED
    BY <2>1, <2>2, RecordUsageEffect
<1>8. \A d \in Coupons : ~HasRoom(d) => (~HasRoom(d))'
  <2>1. CASE UNCHANGED <<used_count, usages>>
    BY <2>1 DEF HasRoom
  <2>2. CASE Redeems(k, c)
    <3>1. HasRoom(c) /\ used_count' = [used_count EXCEPT ![c] = @ + 1]
      BY <2>2 DEF Redeems
    <3>2. QED
      BY <1>3, <3>1 DEF HasRoom, TInv, TypeOK
  <2>3. QED
    BY <2>1, <2>2, RecordUsageEffect
<1>9. (\E i \in usages'[c] : buyer[i] = buyer[k]) \/ (~HasRoom(c))'
  <2>1. CASE HasUsage(buyer[k], c) \/ ~HasRoom(c)
    BY <1>7, <1>8, <2>1 DEF HasUsage
  <2>2. CASE Redeems(k, c)
    BY <2>2 DEF Redeems, TInv, TypeOK
  <2>3. QED
    BY <2>1, <2>2, RecordUsageEffect
<1>10. UsageRowsSound'
  <2>1. CASE UNCHANGED <<used_count, usages>>
    BY <1>1, <2>1 DEF Orders, UsageRowsSound, Has
  <2>2. CASE Redeems(k, c)
    <3>1. /\ \A j \in usages[c] : buyer[j] # buyer[k]
          /\ usages'[c] = usages[c] \cup {k}
          /\ \A d \in Coupons \ {c} : usages'[d] = usages[d]
      BY <1>3, <2>2 DEF Redeems, HasUsage, TInv, TypeOK
    <3>2. QED
      BY <1>1, <1>5, <3>1 DEF Orders, UsageRowsSound, Has
  <2>3. QED
    BY <2>1, <2>2, RecordUsageEffect
<1>11. NoRedemptionLost'
  <2> SUFFICES ASSUME NEW j \in placed \ lost, NEW n \in 1..Len(applied[j]),
                      NEW d, d = applied[j][n]
               PROVE  \/ Has(unrecorded'[j], d)
                      \/ (\E i \in usages'[d] : buyer[i] = buyer[j])
                      \/ (~HasRoom(d))'
    BY <1>1 DEF NoRedemptionLost, Has, HasUsage, HasRoom
  <2>1. d \in Coupons
    BY DEF TInv, TypeOK
  <2>2. CASE HasUsage(buyer[j], d) \/ ~HasRoom(d)
    BY <1>7, <1>8, <2>1, <2>2 DEF HasUsage
  <2>3. CASE Has(unrecorded[j], d)
    <3>1. CASE j # k
      <4>1. unrecorded'[j] = unrecorded[j]
        BY <1>4, <3>1 DEF TInv, TypeOK
      <4>2. QED
        BY <2>3, <4>1 DEF Has
    <3>2. CASE j = k /\ d = c
      BY <1>9, <3>2
    <3>3. CASE j = k /\ d # c
      <4>1. PICK m \in 1..Len(unrecorded[k]) : unrecorded[k][m] = d
        BY <2>3, <3>3 DEF Has
      <4>2. m - 1 \in 1..Len(Tail(unrecorded[k]))
        BY <1>3, <3>3, <4>1
      <4>3. Tail(unrecorded[k])[m - 1] = d
        BY <1>3, <4>1, <4>2
      <4>4. Has(Tail(unrecorded[k]), d)
        BY <4>2, <4>3 DEF Has
      <4>5. QED
        BY <1>4, <3>3, <4>4
    <3>4. QED
      BY <3>1, <3>2, <3>3
  <2>4. Has(unrecorded[j], d) \/ HasUsage(buyer[j], d) \/ ~HasRoom(d)
    BY DEF Orders, NoRedemptionLost
  <2>5. QED
    BY <2>2, <2>3, <2>4
<1>12. QED
  BY <1>6, <1>10, <1>11 DEF Orders

\* Closing the request, or losing one transaction, only takes orders out of
\* what the invariant speaks about.
LEMMA LossStep ==
  ASSUME TInv, Orders, NEW k \in Checkouts, RecordUsageFails(k) \/ Abandon(k)
  PROVE  Orders'
<1>1. /\ pc[k] \in {"apply", "record"}
      /\ pc'[k] \in {"done", "record"}
      /\ pc'[k] = "record" => /\ pc[k] = "record"
                              /\ unrecorded'[k] = Tail(unrecorded[k])
                              /\ unrecorded[k] # << >>
      /\ \A j \in Checkouts \ {k} : pc'[j] = pc[j] /\ unrecorded'[j] = unrecorded[j]
      /\ lost' = lost \cup {k}
      /\ UNCHANGED <<buyer, applied, placed, used_count, usages>>
  BY DEF RecordUsageFails, NextRecord, Abandon, TInv, TypeOK, RecordsLeft
<1>2. LeftIsApplied'
  <2> SUFFICES ASSUME NEW j \in Checkouts
               PROVE  /\ pc'[j] \in {"idle", "apply"} => j \notin placed
                      /\ pc'[j] = "record" =>
                           /\ j \in placed
                           /\ \A n \in 1..Len(unrecorded'[j]) :
                                Has(applied[j], unrecorded'[j][n])
    BY <1>1 DEF LeftIsApplied, Has
  <2>1. CASE j = k /\ pc'[k] = "record"
    <3>1. unrecorded[k] \in Seq(Coupons) /\ unrecorded[k] # << >>
      BY <1>1, <2>1 DEF TInv, TypeOK
    <3>2. ASSUME NEW n \in 1..Len(Tail(unrecorded[k]))
          PROVE  Has(applied[k], Tail(unrecorded[k])[n])
      <4>1. n + 1 \in 1..Len(unrecorded[k])
        BY <3>1, TailFacts
      <4>2. Tail(unrecorded[k])[n] = unrecorded[k][n + 1]
        BY <3>1, TailFacts
      <4>3. QED
        BY <1>1, <2>1, <4>1, <4>2 DEF Orders, LeftIsApplied
    <3>3. QED
      BY <1>1, <2>1, <3>2 DEF Orders, LeftIsApplied
  <2>2. CASE j = k /\ pc'[k] = "done"
    BY <2>2
  <2>3. CASE j # k
    BY <1>1, <2>3 DEF Orders, LeftIsApplied
  <2>4. QED
    BY <1>1, <2>1, <2>2, <2>3
<1>3. UsageRowsSound'
  BY <1>1 DEF Orders, UsageRowsSound, Has
<1>4. NoRedemptionLost'
  <2> SUFFICES ASSUME NEW j \in placed \ (lost \cup {k}), NEW n \in 1..Len(applied[j])
               PROVE  \/ Has(unrecorded'[j], applied[j][n])
                      \/ HasUsage(buyer[j], applied[j][n])
                      \/ ~HasRoom(applied[j][n])
    BY <1>1 DEF NoRedemptionLost, Has, HasUsage, HasRoom
  <2>1. unrecorded'[j] = unrecorded[j]
    BY <1>1 DEF TInv, TypeOK
  <2>2. QED
    BY <2>1 DEF Orders, NoRedemptionLost
<1>5. QED
  BY <1>2, <1>3, <1>4 DEF Orders

\* What holds of the inserted orders holds in every behaviour.
LEMMA OrdersInv == Spec => []Orders
<1>1. Init => Orders
  BY DEF Init, Orders, LeftIsApplied, UsageRowsSound, NoRedemptionLost
<1>2. Orders /\ TInv /\ [Next]_vars => Orders'
  <2> SUFFICES ASSUME Orders, TInv, [Next]_vars PROVE Orders'
    OBVIOUS
  <2>1. ASSUME NEW k \in Checkouts, RecordUsage(k) PROVE Orders'
    <3>1. unrecorded[k] # << >> /\ unrecorded[k] \in Seq(Coupons)
      BY <2>1 DEF RecordUsage, TInv, TypeOK, RecordsLeft
    <3>2. Head(unrecorded[k]) \in Coupons
      BY <3>1, TailFacts
    <3>3. QED
      BY <2>1, <3>2, RecordStep
  <2>2. ASSUME NEW c \in Coupons, Close(c) PROVE Orders'
    BY <2>2 DEF Close, Orders, LeftIsApplied, UsageRowsSound, NoRedemptionLost,
                Has, HasUsage, HasRoom
  <2>3. CASE UNCHANGED vars
    BY <2>3 DEF vars, Orders, LeftIsApplied, UsageRowsSound, NoRedemptionLost,
                Has, HasUsage, HasRoom
  <2>4. QED
    BY <2>1, <2>2, <2>3, EarlyStep, InsertStep, LossStep DEF Next
<1>3. QED
  BY <1>1, <1>2, TypingInv, PTL DEF Spec

\* Every usage row belongs to an inserted order that carries the discount, and
\* no buyer has two rows of one coupon.
THEOREM UsagesBacked == Spec => []UsageRowsSound
<1>1. Orders => UsageRowsSound
  BY DEF Orders
<1>2. QED
  BY <1>1, OrdersInv, PTL

\* An order that met no failure has its redemptions recorded, unless the buyer
\* used the coupon before or others exhausted it.
THEOREM RedemptionsKept == Spec => []NoRedemptionLost
<1>1. Orders => NoRedemptionLost
  BY DEF Orders
<1>2. QED
  BY <1>1, OrdersInv, PTL
==============================================================================
