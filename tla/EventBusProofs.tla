---------------------------- MODULE EventBusProofs ----------------------------
(***************************************************************************)
(* Theorems about EventBus for any workers, events, MAXLEN and COUNT.      *)
(***************************************************************************)
EXTENDS EventBus, TLAPS

\* An event is in the hands of at most one worker, untried and pending; it is
\* acknowledged by the worker that handled it; what is not delivered is untried.
Held ==
  /\ \A w \in Workers : \A e \in batch[w] : e \in pending /\ tries[e] = 0
  /\ \A v, w \in Workers : v # w => batch[v] \cap batch[w] = {}
  /\ \A w \in Workers : acking[w] # 0 => handled[acking[w]] = 1
  /\ \A e \in Events : e > cursor => tries[e] = 0

Inv == TypeOK /\ Held /\ HandledOnce /\ AckedWasHandled

USE EventBusAssumption DEF Events, stream, redis, history

\* The variables keep their types.
LEMMA TypeStep ==
  ASSUME Inv, [Next]_vars
  PROVE  TypeOK'
<1> USE DEF Inv, TypeOK, Held
<1>1. ASSUME NEW t \in trimmed..published, Publish(t) PROVE TypeOK'
  BY <1>1 DEF Publish
<1>2. ASSUME NEW w \in Workers, Start(w) PROVE TypeOK'
  BY <1>2 DEF Start
<1>3. ASSUME NEW w \in Workers, NEW e \in Events, Read(w, e) PROVE TypeOK'
  <2>1. \A f \in New : f <= e => f \in 1..e /\ f \in Events
    BY DEF New
  <2>2. e \in 0..published /\ cursor <= e
    BY <1>3 DEF Read, New
  <2>3. pending' \in SUBSET (1..e)
    <3>1. \A f \in pending : f \in 1..e
      BY <2>2
    <3>2. \A f \in pending' : f \in pending \/ (f \in New /\ f <= e)
      BY <1>3 DEF Read
    <3>3. QED
      BY <2>1, <3>1, <3>2
  <2>4. batch' \in [Workers -> SUBSET Events]
    BY <1>3, <2>1 DEF Read
  <2>5. QED
    BY <1>3, <2>2, <2>3, <2>4 DEF Read
<1>4. ASSUME NEW w \in Workers, NEW e \in Events, Handle(w, e) PROVE TypeOK'
  BY <1>4 DEF Handle, Take, IsNext
<1>5. ASSUME NEW w \in Workers, NEW e \in Events, HandlerFails(w, e) PROVE TypeOK'
  BY <1>5 DEF HandlerFails, Take, IsNext
<1>6. ASSUME NEW w \in Workers, Ack(w) PROVE TypeOK'
  <2>1. pending' \in SUBSET (1..cursor)
    BY <1>6 DEF Ack
  <2>2. 0 \in 0..MaxEvents
    OBVIOUS
  <2>3. QED
    BY <1>6, <2>1, <2>2 DEF Ack
<1>7. ASSUME NEW w \in Workers, Stop(w) PROVE TypeOK'
  BY <1>7 DEF Stop
<1>8. CASE UNCHANGED vars
  BY <1>8 DEF vars
<1>9. QED
  BY <1>1, <1>2, <1>3, <1>4, <1>5, <1>6, <1>7, <1>8 DEF Next, Loop

\* Read hands out new events only, and a try takes the event out of the batch.
LEMMA HeldStep ==
  ASSUME Inv, [Next]_vars
  PROVE  Held'
<1> USE DEF Inv, TypeOK, Held, HandledOnce
<1>1. ASSUME NEW t \in trimmed..published, Publish(t) PROVE Held'
  BY <1>1 DEF Publish
<1>2. ASSUME NEW w \in Workers, Start(w) PROVE Held'
  BY <1>2 DEF Start
<1>3. ASSUME NEW w \in Workers, NEW e \in Events, Read(w, e) PROVE Held'
  BY <1>3 DEF Read, New
<1>4. ASSUME NEW w \in Workers, NEW e \in Events, Handle(w, e) PROVE Held'
  BY <1>4 DEF Handle, Take, IsNext
<1>5. ASSUME NEW w \in Workers, NEW e \in Events, HandlerFails(w, e) PROVE Held'
  BY <1>5 DEF HandlerFails, Take, IsNext
<1>6. ASSUME NEW w \in Workers, Ack(w) PROVE Held'
  BY <1>6 DEF Ack
<1>7. ASSUME NEW w \in Workers, Stop(w) PROVE Held'
  BY <1>7 DEF Stop
<1>8. CASE UNCHANGED vars
  BY <1>8 DEF vars
<1>9. QED
  BY <1>1, <1>2, <1>3, <1>4, <1>5, <1>6, <1>7, <1>8 DEF Next, Loop

\* A try is the first one, and only a handled event is acknowledged.
LEMMA CountStep ==
  ASSUME Inv, [Next]_vars
  PROVE  HandledOnce' /\ AckedWasHandled'
<1> DEFINE Goal == HandledOnce' /\ AckedWasHandled'
<1> USE DEF Inv, TypeOK, Held, HandledOnce, AckedWasHandled
<1>1. ASSUME NEW t \in trimmed..published, Publish(t) PROVE Goal
  BY <1>1 DEF Publish
<1>2. ASSUME NEW w \in Workers, Start(w) PROVE Goal
  BY <1>2 DEF Start
<1>3. ASSUME NEW w \in Workers, NEW e \in Events, Read(w, e) PROVE Goal
  BY <1>3 DEF Read, New
<1>4. ASSUME NEW w \in Workers, NEW e \in Events, Handle(w, e) PROVE Goal
  BY <1>4 DEF Handle, Take, IsNext
<1>5. ASSUME NEW w \in Workers, NEW e \in Events, HandlerFails(w, e) PROVE Goal
  BY <1>5 DEF HandlerFails, Take, IsNext
<1>6. ASSUME NEW w \in Workers, Ack(w) PROVE Goal
  BY <1>6 DEF Ack
<1>7. ASSUME NEW w \in Workers, Stop(w) PROVE Goal
  BY <1>7 DEF Stop
<1>8. CASE UNCHANGED vars
  BY <1>8 DEF vars
<1>9. QED
  BY <1>1, <1>2, <1>3, <1>4, <1>5, <1>6, <1>7, <1>8 DEF Next, Loop

\* The inductive invariant holds in every behaviour.
LEMMA Inductive == Spec => []Inv
<1>1. Init => Inv
  <2> SUFFICES ASSUME Init PROVE Inv
    OBVIOUS
  <2>1. TypeOK
    <3>1. 0 \in 0..MaxEvents /\ 0 \in 0..0 /\ {} \in SUBSET (1..0)
      OBVIOUS
    <3>2. QED
      BY <3>1 DEF Init, TypeOK
  <2>2. Held
    BY DEF Init, Held
  <2>3. HandledOnce /\ AckedWasHandled
    BY DEF Init, HandledOnce, AckedWasHandled
  <2>4. QED
    BY <2>1, <2>2, <2>3 DEF Inv
<1>2. Inv /\ [Next]_vars => Inv'
  BY TypeStep, HeldStep, CountStep DEF Inv
<1>3. QED
  BY <1>1, <1>2, PTL DEF Spec

\* The variables keep their types.
THEOREM Typing == Spec => []TypeOK
BY Inductive, PTL DEF Inv

\* The handler is called at most once per event, for any number of workers and
\* failures: delivery is at most once.
THEOREM AtMostOnce == Spec => []HandledOnce
BY Inductive, PTL DEF Inv

\* What the group has done with was handled, or removed undelivered by MAXLEN.
THEOREM LossesAccounted == Spec => []AckedWasHandled
BY Inductive, PTL DEF Inv
==============================================================================
