------------------------------- MODULE EventBus -------------------------------
(***************************************************************************)
(* One topic of the event bus: EventBus.Publish in the API, the Redis      *)
(* stream with its consumer group, and EventBus.Subscribe in the worker.   *)
(*                                                                         *)
(* Events are numbered by their stream ids.  The stream holds the ids      *)
(* trimmed+1 .. published; the group has delivered the ids up to cursor,   *)
(* of which pending are not acknowledged (the pending entries list).       *)
(* Workers are processes: usually one, two while one replaces the other;   *)
(* all of them use the same group and consumer name.                       *)
(***************************************************************************)
EXTENDS Integers, FiniteSets

CONSTANTS
  Workers,
  MaxEvents,   \* bound on the events published
  MaxLen,      \* XADD MAXLEN (100000 in the code)
  Count        \* XREADGROUP COUNT (10 in the code)

ASSUME EventBusAssumption ==
  /\ MaxEvents \in Nat
  /\ MaxLen \in Nat \ {0}
  /\ Count \in Nat \ {0}

Events == 1..MaxEvents

VARIABLES
  published,  \* id of the last event in the stream
  trimmed,    \* id of the last event that MAXLEN removed
  group,      \* does the consumer group exist?
  cursor,     \* last-delivered-id of the group
  pending,    \* its pending entries
  running,    \* workers whose Subscribe loop runs
  batch,      \* events of the current XREADGROUP reply still to be handled
  acking,     \* the event a worker handled and is about to acknowledge, or 0
  tries,      \* calls of the handler by event (history)
  handled     \* successful ones (history)

stream == <<published, trimmed>>
redis == <<stream, group, cursor, pending>>
history == <<tries, handled>>
vars == <<redis, running, batch, acking, history>>

TypeOK ==
  /\ published \in 0..MaxEvents
  /\ trimmed \in 0..published
  /\ group \in BOOLEAN
  /\ cursor \in 0..published
  /\ pending \in SUBSET (1..cursor)
  /\ running \in SUBSET Workers
  /\ batch \in [Workers -> SUBSET Events]
  /\ acking \in [Workers -> 0..MaxEvents]
  /\ tries \in [Events -> Nat]
  /\ handled \in [Events -> Nat]

Init ==
  /\ published = 0
  /\ trimmed = 0
  /\ group = FALSE
  /\ cursor = 0
  /\ pending = {}
  /\ running = {}
  /\ batch = [w \in Workers |-> {}]
  /\ acking = [w \in Workers |-> 0]
  /\ tries = [e \in Events |-> 0]
  /\ handled = [e \in Events |-> 0]

------------------------------------------------------------------------------
\* XADD with approximate trimming: entries beyond MaxLen may go, the oldest
\* first, delivered or not.  A Publish that fails adds nothing.
Publish(t) ==
  /\ published < MaxEvents
  /\ published' = published + 1
  /\ t = trimmed \/ published' - t >= MaxLen
  /\ trimmed' = t
  /\ UNCHANGED <<group, cursor, pending, running, batch, acking, history>>

\* Mutant: the group is created at $, the end of the stream.
StartAtEnd(w) ==
  /\ w \notin running
  /\ running' = running \cup {w}
  /\ group' = TRUE
  /\ cursor' = IF group THEN cursor ELSE published
  /\ UNCHANGED <<stream, pending, batch, acking, history>>

\* Subscribe starts: XGROUP CREATE MKSTREAM at id 0.  Its error is discarded,
\* be it that the group exists or that Redis does not answer.
Start(w) ==
  /\ w \notin running
  /\ running' = running \cup {w}
  /\ group' = TRUE \/ UNCHANGED group
  /\ UNCHANGED <<stream, cursor, pending, batch, acking, history>>

\* Events of the stream that the group has not delivered to anyone.
New == {e \in Events : cursor < e /\ trimmed < e /\ e <= published}

\* Mutant: the reply also brings what is pending (id 0 instead of >).
ReadPending(w, e) ==
  /\ w \in running
  /\ batch[w] = {} /\ acking[w] = 0
  /\ group
  /\ e \in New
  /\ Cardinality({f \in New : f <= e}) <= Count
  /\ batch' = [batch EXCEPT ![w] = {f \in New : f <= e} \cup pending]
  /\ pending' = pending \cup {f \in New : f <= e}
  /\ cursor' = e
  /\ UNCHANGED <<stream, group, running, acking, history>>

\* XREADGROUP with id ">": up to Count new events, in order, up to e; they are
\* pending from now on.  Without a group it is an error, and is tried again.
Read(w, e) ==
  /\ w \in running
  /\ batch[w] = {} /\ acking[w] = 0
  /\ group
  /\ e \in New
  /\ Cardinality({f \in New : f <= e}) <= Count
  /\ batch' = [batch EXCEPT ![w] = {f \in New : f <= e}]
  /\ pending' = pending \cup {f \in New : f <= e}
  /\ cursor' = e
  /\ UNCHANGED <<stream, group, running, acking, history>>

\* The next event of the reply.
IsNext(w, e) == e \in batch[w] /\ \A f \in batch[w] : e <= f

Take(w, e) ==
  /\ w \in running
  /\ acking[w] = 0
  /\ IsNext(w, e)
  /\ batch' = [batch EXCEPT ![w] = @ \ {e}]
  /\ tries' = [tries EXCEPT ![e] = @ + 1]

\* The handler returns nil.
Handle(w, e) ==
  /\ Take(w, e)
  /\ handled' = [handled EXCEPT ![e] = @ + 1]
  /\ acking' = [acking EXCEPT ![w] = e]
  /\ UNCHANGED <<redis, running>>

\* Mutant: the event is acknowledged whatever the handler returned.
HandlerFailsAcks(w, e) ==
  /\ Take(w, e)
  /\ acking' = [acking EXCEPT ![w] = e]
  /\ UNCHANGED <<redis, running, handled>>

\* The handler returns an error: no XACK, on to the next event.
HandlerFails(w, e) ==
  /\ Take(w, e)
  /\ UNCHANGED <<redis, running, acking, handled>>

\* XACK; its error is discarded.
Ack(w) ==
  /\ w \in running
  /\ acking[w] # 0
  /\ pending' = pending \ {acking[w]} \/ UNCHANGED pending
  /\ acking' = [acking EXCEPT ![w] = 0]
  /\ UNCHANGED <<stream, group, cursor, running, batch, history>>

\* The worker is stopped, crashes, or a handler panics.
Stop(w) ==
  /\ w \in running
  /\ running' = running \ {w}
  /\ batch' = [batch EXCEPT ![w] = {}]
  /\ acking' = [acking EXCEPT ![w] = 0]
  /\ UNCHANGED <<redis, history>>

Loop(w) ==
  \/ \E e \in Events : Read(w, e) \/ Handle(w, e) \/ HandlerFails(w, e)
  \/ Ack(w)

Next ==
  \/ \E t \in trimmed..published : Publish(t)
  \/ \E w \in Workers : Start(w) \/ Loop(w) \/ Stop(w)

Spec == Init /\ [][Next]_vars

\* A supervisor restarts the worker, which in the end stays up long enough to
\* create its group, to read and to finish what it read.
FairSpec ==
  /\ Spec
  /\ SF_vars(\E w \in Workers : Start(w) /\ group')
  /\ SF_vars(\E w \in Workers, e \in Events : Read(w, e))
  /\ \A e \in Events :
       SF_vars(\E w \in Workers : Handle(w, e) \/ HandlerFails(w, e))
  /\ \A w \in Workers : WF_vars(Ack(w))

------------------------------------------------------------------------------
\* No event is handled twice, whatever workers run, overlap, fail and restart:
\* what a reply brought once is never read again (id ">" and nothing else).
HandledOnce == \A e \in Events : handled[e] <= tries[e] /\ tries[e] <= 1

\* An event that the group has done with, neither new nor pending, was handled:
\* only a success is acknowledged.  Otherwise MAXLEN removed it undelivered.
AckedWasHandled ==
  \A e \in 1..cursor : e \in pending \/ handled[e] = 1 \/ (tries[e] = 0 /\ e <= trimmed)

\* Every published event is tried, unless MAXLEN removes it first or a worker
\* dies with it in hand; once there is a group, and events older than the group
\* included.  (Without a group the loop of Subscribe fails for ever.)
EveryEventIsTried ==
  \A e \in Events : (group /\ e <= published) ~>
    \/ tries[e] > 0
    \/ e <= trimmed
    \/ e \in pending /\ \A w \in Workers : e \notin batch[w]

\* Comment in Subscribe: after a handler error the "message stays pending;
\* auto-retry on next read of pending".
FailedIsRetried ==
  \A e \in Events : (e \in pending /\ tries[e] = 1 /\ handled[e] = 0) ~> tries[e] > 1
==============================================================================
