---------------------------- MODULE ChatHubProofs ----------------------------
(***************************************************************************)
(* Theorems about ChatHub for any clients, publishers, feeds and buffers.  *)
(***************************************************************************)
EXTENDS ChatHub, TLAPS

\* Who may be listed: only connected clients, and none that is closed or about
\* to be closed; audiences consist of connected clients of the message's feed.
Listed ==
  /\ \A c \in Clients : feed[c] = NoFeed <=> pc[c] = "idle"
  /\ \A c \in subscribed : feed[c] # NoFeed
  /\ \A c \in Clients : target[c] = {c}
  /\ \A p \in Publishers : pc[p] = "idle" => audience[p] = {}
  /\ \A p \in Publishers : snap[p] \cup dropped[p] \cup target[p] \subseteq audience[p]
  /\ \A p \in Publishers : \A c \in audience[p] : feed[c] = topic[p] /\ topic[p] # NoFeed
  /\ \A a \in Actors :
       pc[a] \in {"check", "closeDone", "closeSend"} => target[a] \cap subscribed = {}
  /\ \A c \in doneClosed \cup sendClosed : c \notin subscribed /\ feed[c] # NoFeed

\* What is in a channel: each message once, put there by a publisher that had the
\* client in its snapshot and does not serve it again.
Queued ==
  \A c \in Clients :
    /\ \A n \in 1..Len(sent[c]) : c \in audience[sent[c][n]] \ snap[sent[c][n]]
    /\ \A m, n \in 1..Len(sent[c]) : sent[c][m] = sent[c][n] => m = n

\* A listed client of a snapshot is still to be served, served, or about to be
\* dropped; at the end of Publish nobody is left to be served or dropped.
Served ==
  \A p \in Publishers :
    /\ \A c \in audience[p] \cap subscribed :
         \/ c \in snap[p] \cup dropped[p]
         \/ Got(c, p)
         \/ pc[p] = "delete" /\ c \in target[p]
    /\ pc[p] = "done" => snap[p] = {} /\ dropped[p] = {}

Inv == TypeOK /\ Listed /\ Queued /\ Served

USE ChatHubAssumption DEF Actors, channels, sockets, publishing

\* The variables keep their types.
LEMMA TypeStep ==
  ASSUME TypeOK, Listed, [Next]_vars
  PROVE  TypeOK'
<1> USE DEF TypeOK, GoTo, Panic, Return, Buffered, Steps, Disconnecting
<1>1. ASSUME NEW c \in Clients, NEW f \in Feeds, Connect(c, f) PROVE TypeOK'
  BY <1>1 DEF Connect
<1>2. ASSUME NEW c \in Clients, Leave(c) PROVE TypeOK'
  BY <1>2 DEF Leave
<1>3. ASSUME NEW c \in Clients, Write(c) PROVE TypeOK'
  <2>1. taken' \in [Clients -> Nat]
    BY <1>3 DEF Write
  <2>2. ASSUME NEW d \in Clients PROVE Buffered(d)' \in 0..BufSize
    <3>1. Len(sent[d]) \in Nat /\ taken[d] \in Nat /\ Len(sent[d]) - taken[d] \in 0..BufSize
      OBVIOUS
    <3>2. taken'[d] = IF d = c THEN taken[d] + 1 ELSE taken[d]
      BY <1>3 DEF Write
    <3>3. d = c => Len(sent[d]) - taken[d] > 0
      BY <1>3 DEF Write
    <3>4. sent' = sent
      BY <1>3 DEF Write
    <3>5. QED
      BY <3>1, <3>2, <3>3, <3>4
  <2>3. QED
    BY <1>3, <2>1, <2>2 DEF Write
<1>4. ASSUME NEW c \in Clients, StopWriting(c) PROVE TypeOK'
  BY <1>4 DEF StopWriting
<1>5. ASSUME NEW c \in Clients, ReadFails(c) PROVE TypeOK'
  BY <1>5 DEF ReadFails
<1>6. ASSUME NEW p \in Publishers, NEW f \in Feeds, Snapshot(p, f) PROVE TypeOK'
  BY <1>6 DEF Snapshot
<1>7. ASSUME NEW p \in Publishers, NEW c \in Clients, Send(p, c) PROVE TypeOK'
  <2>1. CASE Buffered(c) < BufSize
    <3>1. sent' = [sent EXCEPT ![c] = Append(@, p)] /\ UNCHANGED dropped
      BY <1>7, <2>1 DEF Send
    <3>2. sent' \in [Clients -> Seq(Publishers)]
      BY <3>1
    <3>3. ASSUME NEW d \in Clients PROVE Buffered(d)' \in 0..BufSize
      <4>1. Len(sent[d]) \in Nat /\ taken[d] \in Nat /\ Len(sent[d]) - taken[d] \in 0..BufSize
        OBVIOUS
      <4>2. Len(sent'[d]) = IF d = c THEN Len(sent[d]) + 1 ELSE Len(sent[d])
        BY <3>1
      <4>3. taken' = taken
        BY <1>7 DEF Send
      <4>4. QED
        BY <2>1, <4>1, <4>2, <4>3
    <3>4. QED
      BY <1>7, <3>1, <3>2, <3>3 DEF Send
  <2>2. CASE ~(Buffered(c) < BufSize)
    <3>1. dropped' = [dropped EXCEPT ![p] = @ \cup {c}] /\ UNCHANGED sent
      BY <1>7, <2>2 DEF Send
    <3>2. QED
      BY <1>7, <3>1 DEF Send
  <2>3. QED
    BY <2>1, <2>2
<1>8. ASSUME NEW p \in Publishers, NEW c \in Clients, SendPanics(p, c) PROVE TypeOK'
  BY <1>8 DEF SendPanics
<1>9. ASSUME NEW p \in Publishers, NEW c \in Clients, Drop(p, c) PROVE TypeOK'
  BY <1>9 DEF Drop
<1>10. ASSUME NEW p \in Publishers, Finish(p) PROVE TypeOK'
  BY <1>10 DEF Finish
<1>11. ASSUME NEW a \in Actors, Disconnect(a) PROVE TypeOK'
  BY <1>11 DEF Disconnect, Delete, Check, CloseDone, CloseDonePanics, CloseSend
<1>12. CASE UNCHANGED vars
  BY <1>12 DEF vars
<1>13. QED
  BY <1>1, <1>2, <1>3, <1>4, <1>5, <1>6, <1>7, <1>8, <1>9, <1>10, <1>11, <1>12
     DEF Next, Read, Publish

\* Delete precedes every close, and only connected clients are deleted.
LEMMA ListedStep ==
  ASSUME TypeOK, Listed, [Next]_vars
  PROVE  Listed'
<1> USE DEF TypeOK, Listed, GoTo, Panic, Return, Steps, Disconnecting
<1>1. ASSUME NEW c \in Clients, NEW f \in Feeds, Connect(c, f) PROVE Listed'
  BY <1>1 DEF Connect
<1>2. ASSUME NEW c \in Clients, Leave(c) \/ Write(c) \/ StopWriting(c) PROVE Listed'
  BY <1>2 DEF Leave, Write, StopWriting
<1>3. ASSUME NEW c \in Clients, ReadFails(c) PROVE Listed'
  BY <1>3 DEF ReadFails
<1>4. ASSUME NEW p \in Publishers, NEW f \in Feeds, Snapshot(p, f) PROVE Listed'
  <2>1. /\ pc[p] = "idle"
        /\ pc' = [pc EXCEPT ![p] = "send"]
        /\ topic' = [topic EXCEPT ![p] = f]
        /\ snap' = [snap EXCEPT ![p] = {c \in subscribed : feed[c] = f}]
        /\ audience' = [audience EXCEPT ![p] = {c \in subscribed : feed[c] = f}]
        /\ UNCHANGED <<feed, subscribed, target, dropped, sendClosed, doneClosed>>
    BY <1>4 DEF Snapshot
  <2>2. dropped[p] = {} /\ target[p] = {}
    BY <2>1
  <2>3. \A c \in Clients : pc'[c] = pc[c]
    BY <2>1
  <2>4. QED
    BY <2>1, <2>2, <2>3
<1>5. ASSUME NEW p \in Publishers, NEW c \in Clients, Send(p, c) PROVE Listed'
  BY <1>5 DEF Send
<1>6. ASSUME NEW p \in Publishers, NEW c \in Clients, SendPanics(p, c) PROVE Listed'
  BY <1>6 DEF SendPanics
<1>7. ASSUME NEW p \in Publishers, NEW c \in Clients, Drop(p, c) PROVE Listed'
  BY <1>7 DEF Drop
<1>8. ASSUME NEW p \in Publishers, Finish(p) PROVE Listed'
  BY <1>8 DEF Finish
<1>9. ASSUME NEW a \in Actors, Delete(a) PROVE Listed'
  BY <1>9 DEF Delete
<1>10. ASSUME NEW a \in Actors, Check(a) PROVE Listed'
  <2>1. /\ UNCHANGED <<feed, subscribed, target, audience, snap, dropped, topic, sendClosed,
                       doneClosed>>
        /\ pc[a] = "check"
        /\ \E s \in {"closeDone", IF a \in Clients THEN "done" ELSE "send"} :
             pc' = [pc EXCEPT ![a] = s]
    BY <1>10 DEF Check
  <2>2. QED
    BY <2>1
<1>11. ASSUME NEW a \in Actors, CloseDone(a) PROVE Listed'
  <2>1. ASSUME NEW c \in target[a] PROVE c \in Clients /\ c \notin subscribed /\ feed[c] # NoFeed
    <3>1. CASE a \in Clients
      BY <1>11, <3>1 DEF CloseDone
    <3>2. CASE a \in Publishers
      BY <1>11, <3>2 DEF CloseDone
    <3>3. QED
      BY <3>1, <3>2
  <2>2. /\ UNCHANGED <<feed, subscribed, target, audience, snap, dropped, topic, sendClosed>>
        /\ doneClosed' = doneClosed \cup target[a]
        /\ pc' = [pc EXCEPT ![a] = "closeSend"]
        /\ pc[a] = "closeDone"
    BY <1>11 DEF CloseDone
  <2>3. QED
    BY <2>1, <2>2
<1>12. ASSUME NEW a \in Actors, CloseDonePanics(a)  PROVE Listed'
  BY <1>12 DEF CloseDonePanics
<1>13. ASSUME NEW a \in Actors, CloseSend(a) PROVE Listed'
  BY <1>13 DEF CloseSend
<1>14. CASE UNCHANGED vars
  BY <1>14 DEF vars
<1>15. QED
  BY <1>1, <1>2, <1>3, <1>4, <1>5, <1>6, <1>7, <1>8, <1>9, <1>10, <1>11, <1>12, <1>13, <1>14
     DEF Next, Read, Publish, Disconnect

\* Only Send touches a channel's contents, once per client of the snapshot.
LEMMA QueuedStep ==
  ASSUME TypeOK, Listed, Queued, [Next]_vars
  PROVE  Queued'
<1> USE DEF TypeOK, Listed, Queued
<1>1. ASSUME NEW c \in Clients, NEW f \in Feeds, Connect(c, f) PROVE Queued'
  BY <1>1 DEF Connect
<1>2. ASSUME NEW c \in Clients, Leave(c) \/ Write(c) \/ StopWriting(c) PROVE Queued'
  BY <1>2 DEF Leave, Write, StopWriting
<1>3. ASSUME NEW c \in Clients, ReadFails(c) PROVE Queued'
  BY <1>3 DEF ReadFails
<1>4. ASSUME NEW p \in Publishers, NEW f \in Feeds, Snapshot(p, f) PROVE Queued'
  BY <1>4 DEF Snapshot
<1>5. ASSUME NEW p \in Publishers, NEW c \in Clients, Send(p, c) PROVE Queued'
  <2> DEFINE new == [sent EXCEPT ![c] = Append(@, p)]
  <2>1. UNCHANGED audience /\ snap' = [snap EXCEPT ![p] = @ \ {c}] /\ c \in snap[p]
    BY <1>5 DEF Send
  <2>2. CASE sent' = sent
    BY <2>1, <2>2
  <2>3. CASE sent' = new
    <3>1. ASSUME NEW d \in Clients, d # c PROVE sent'[d] = sent[d]
      BY <2>3, <3>1
    <3>2. /\ Len(sent'[c]) = Len(sent[c]) + 1
          /\ Len(sent[c]) \in Nat
          /\ sent'[c][Len(sent[c]) + 1] = p
          /\ \A n \in 1..Len(sent[c]) : sent'[c][n] = sent[c][n] /\ sent[c][n] \in Publishers
      BY <2>3
    <3>3. \A n \in 1..Len(sent[c]) : sent[c][n] # p
      BY <2>1
    <3>4. /\ \A n \in 1..Len(sent'[c]) : c \in audience'[sent'[c][n]] \ snap'[sent'[c][n]]
          /\ \A m, n \in 1..Len(sent'[c]) : sent'[c][m] = sent'[c][n] => m = n
      <4>1. c \in audience[p] \ snap'[p]
        BY <2>1
      <4>2. \A n \in 1..Len(sent[c]) : c \in audience[sent[c][n]] \ snap'[sent[c][n]]
        BY <2>1, <3>2
      <4>3. \A n \in 1..Len(sent'[c]) : n \in 1..Len(sent[c]) \/ n = Len(sent[c]) + 1
        BY <3>2
      <4>4. \A m, n \in 1..Len(sent[c]) : sent[c][m] = sent[c][n] => m = n
        OBVIOUS
      <4>5. UNCHANGED audience
        BY <2>1
      <4>6. ASSUME NEW n \in 1..Len(sent'[c])
            PROVE  c \in audience'[sent'[c][n]] \ snap'[sent'[c][n]]
        BY <3>2, <4>1, <4>2, <4>3, <4>5
      <4>7. ASSUME NEW m \in 1..Len(sent'[c]), NEW n \in 1..Len(sent'[c]),
                   sent'[c][m] = sent'[c][n]
            PROVE  m = n
        BY <3>2, <3>3, <4>3, <4>4, <4>7
      <4>8. QED
        BY <4>6, <4>7
    <3>5. ASSUME NEW d \in Clients, d # c
          PROVE  /\ \A n \in 1..Len(sent'[d]) : d \in audience'[sent'[d][n]] \ snap'[sent'[d][n]]
                 /\ \A m, n \in 1..Len(sent'[d]) : sent'[d][m] = sent'[d][n] => m = n
      <4>1. \A n \in 1..Len(sent[d]) : sent[d][n] \in Publishers
        OBVIOUS
      <4>2. QED
        BY <2>1, <3>1, <3>5, <4>1
    <3>6. ASSUME NEW d \in Clients
          PROVE  /\ \A n \in 1..Len(sent'[d]) : d \in audience'[sent'[d][n]] \ snap'[sent'[d][n]]
                 /\ \A m, n \in 1..Len(sent'[d]) : sent'[d][m] = sent'[d][n] => m = n
      <4>1. CASE d = c
        BY <3>4, <4>1
      <4>2. CASE d # c
        BY <3>5, <4>2
      <4>3. QED
        BY <4>1, <4>2
    <3>7. QED
      BY <3>6
  <2>4. QED
    BY <1>5, <2>2, <2>3 DEF Send
<1>6. ASSUME NEW p \in Publishers, NEW c \in Clients, SendPanics(p, c) PROVE Queued'
  BY <1>6 DEF SendPanics
<1>7. ASSUME NEW p \in Publishers, NEW c \in Clients, Drop(p, c) PROVE Queued'
  BY <1>7 DEF Drop
<1>8. ASSUME NEW p \in Publishers, Finish(p) PROVE Queued'
  BY <1>8 DEF Finish
<1>9. ASSUME NEW a \in Actors, Delete(a) PROVE Queued'
  BY <1>9 DEF Delete
<1>10. ASSUME NEW a \in Actors, Check(a) PROVE Queued'
  BY <1>10 DEF Check
<1>11. ASSUME NEW a \in Actors, CloseDone(a) PROVE Queued'
  BY <1>11 DEF CloseDone
<1>12. ASSUME NEW a \in Actors, CloseDonePanics(a)  PROVE Queued'
  BY <1>12 DEF CloseDonePanics
<1>13. ASSUME NEW a \in Actors, CloseSend(a) PROVE Queued'
  BY <1>13 DEF CloseSend
<1>14. CASE UNCHANGED vars
  BY <1>14 DEF vars
<1>15. QED
  BY <1>1, <1>2, <1>3, <1>4, <1>5, <1>6, <1>7, <1>8, <1>9, <1>10, <1>11, <1>12, <1>13, <1>14
     DEF Next, Read, Publish, Disconnect

\* A client leaves snap into the channel or onto the list of full clients, and
\* that list through Delete.
LEMMA ServedStep ==
  ASSUME Inv, [Next]_vars
  PROVE  Served'
<1> USE DEF Inv, TypeOK, Listed, Served, Got, GoTo, Panic, Return, Steps, Disconnecting
<1>1. ASSUME NEW c \in Clients, NEW f \in Feeds, Connect(c, f) PROVE Served'
  BY <1>1 DEF Connect
<1>2. ASSUME NEW c \in Clients, Leave(c) \/ Write(c) \/ StopWriting(c) PROVE Served'
  <2>1. UNCHANGED <<subscribed, sent, pc, publishing>>
    BY <1>2 DEF Leave, Write, StopWriting
  <2>2. QED
    BY <2>1
<1>3. ASSUME NEW c \in Clients, ReadFails(c) PROVE Served'
  BY <1>3 DEF ReadFails
<1>4. ASSUME NEW p \in Publishers, NEW f \in Feeds, Snapshot(p, f) PROVE Served'
  BY <1>4 DEF Snapshot
<1>5. ASSUME NEW p \in Publishers, NEW c \in Clients, Send(p, c) PROVE Served'
  <2>1. /\ UNCHANGED <<audience, subscribed, pc, target>>
        /\ snap' = [snap EXCEPT ![p] = @ \ {c}]
        /\ pc[p] = "send"
    BY <1>5 DEF Send
  <2>2. CASE sent' = sent /\ dropped' = [dropped EXCEPT ![p] = @ \cup {c}]
    BY <2>1, <2>2
  <2>3. CASE dropped' = dropped /\ sent' = [sent EXCEPT ![c] = Append(@, p)]
    <3>1. ASSUME NEW d \in Clients, NEW q \in Publishers, Got(d, q) PROVE Got(d, q)'
      <4>1. PICK n \in 1..Len(sent[d]) : sent[d][n] = q
        BY <3>1
      <4>2. Len(sent[d]) \in Nat /\ n \in 1..Len(sent'[d]) /\ sent'[d][n] = q
        BY <2>3, <4>1
      <4>3. QED
        BY <4>2
    <3>2. Got(c, p)'
      <4>1. /\ Len(sent'[c]) = Len(sent[c]) + 1
            /\ Len(sent[c]) \in Nat
            /\ sent'[c][Len(sent[c]) + 1] = p
        BY <2>3
      <4>2. QED
        BY <4>1
    <3>3. ASSUME NEW q \in Publishers
          PROVE  /\ \A d \in audience'[q] \cap subscribed' :
                      \/ d \in snap'[q] \cup dropped'[q]
                      \/ Got(d, q)'
                      \/ pc'[q] = "delete" /\ d \in target'[q]
                 /\ pc'[q] = "done" => snap'[q] = {} /\ dropped'[q] = {}
      <4>1. audience[q] \subseteq Clients
        OBVIOUS
      <4> HIDE DEF Got
      <4>2. ASSUME NEW d \in audience[q] \cap subscribed
            PROVE  \/ d \in snap'[q] \cup dropped'[q]
                   \/ Got(d, q)'
                   \/ pc'[q] = "delete" /\ d \in target'[q]
        BY <2>1, <2>3, <3>1, <3>2, <4>1
      <4>3. pc'[q] = "done" => snap'[q] = {} /\ dropped'[q] = {}
        BY <2>1, <2>3
      <4>4. QED
        BY <2>1, <4>2, <4>3
    <3>4. QED
      BY <3>3
  <2>4. QED
    BY <1>5, <2>2, <2>3 DEF Send
<1>6. ASSUME NEW p \in Publishers, NEW c \in Clients, SendPanics(p, c) PROVE Served'
  BY <1>6 DEF SendPanics
<1>7. ASSUME NEW p \in Publishers, NEW c \in Clients, Drop(p, c) PROVE Served'
  BY <1>7 DEF Drop
<1>8. ASSUME NEW p \in Publishers, Finish(p) PROVE Served'
  BY <1>8 DEF Finish
<1>9. ASSUME NEW a \in Actors, Delete(a) PROVE Served'
  BY <1>9 DEF Delete
<1>10. ASSUME NEW a \in Actors, Check(a) PROVE Served'
  BY <1>10 DEF Check
<1>11. ASSUME NEW a \in Actors, CloseDone(a) PROVE Served'
  BY <1>11 DEF CloseDone
<1>12. ASSUME NEW a \in Actors, CloseDonePanics(a)  PROVE Served'
  BY <1>12 DEF CloseDonePanics
<1>13. ASSUME NEW a \in Actors, CloseSend(a) PROVE Served'
  BY <1>13 DEF CloseSend
<1>14. CASE UNCHANGED vars
  BY <1>14 DEF vars
<1>15. QED
  BY <1>1, <1>2, <1>3, <1>4, <1>5, <1>6, <1>7, <1>8, <1>9, <1>10, <1>11, <1>12, <1>13, <1>14
     DEF Next, Read, Publish, Disconnect

\* The inductive invariant holds in every behaviour.
LEMMA Inductive == Spec => []Inv
<1>1. Init => Inv
  BY DEF Init, Inv, TypeOK, Listed, Queued, Served, Buffered, Steps
<1>2. Inv /\ [Next]_vars => Inv'
  BY TypeStep, ListedStep, QueuedStep, ServedStep DEF Inv
<1>3. QED
  BY <1>1, <1>2, PTL DEF Spec

\* The variables keep their types; in particular no buffer exceeds its depth.
THEOREM Typing == Spec => []TypeOK
BY Inductive, PTL DEF Inv

\* A client receives each message of its feed at most once and nothing else, for
\* any number of clients, feeds and concurrent publishers.
THEOREM OwnMessagesOnce == Spec => []OnlyOwnMessages
<1>1. Inv => OnlyOwnMessages
  <2> SUFFICES ASSUME Inv, NEW c \in Clients
               PROVE  /\ \A n \in 1..Len(sent[c]) :
                           topic[sent[c][n]] = feed[c] /\ c \in audience[sent[c][n]]
                      /\ \A m, n \in 1..Len(sent[c]) : sent[c][m] = sent[c][n] => m = n
    BY DEF OnlyOwnMessages
  <2>1. \A n \in 1..Len(sent[c]) : sent[c][n] \in Publishers
    BY DEF Inv, TypeOK
  <2>2. QED
    BY <2>1 DEF Inv, Listed, Queued
<1>2. QED
  BY <1>1, Inductive, PTL

\* A client that is still registered missed no message of a finished Publish.
THEOREM NoGap == Spec => []NoSilentGap
<1>1. Inv => NoSilentGap
  BY DEF Inv, TypeOK, Served, NoSilentGap, Actors
<1>2. QED
  BY <1>1, Inductive, PTL

\* No closed client is listed in the hub.
THEOREM ClosedAreUnlisted == Spec => []ClosedIsUnlisted
<1>1. Inv => ClosedIsUnlisted
  BY DEF Inv, TypeOK, Listed, ClosedIsUnlisted
<1>2. QED
  BY <1>1, Inductive, PTL
==============================================================================
