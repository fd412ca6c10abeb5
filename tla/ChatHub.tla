------------------------------- MODULE ChatHub -------------------------------
(***************************************************************************)
(* The WebSocket fan-out of the API process: ChatHub with the goroutines   *)
(* that use it.  A client is one WebSocket with its reader (the handler    *)
(* goroutine) and its writer; a publisher is one call of Publish or        *)
(* PublishGlobal, and its message is named after it.  A feed is the        *)
(* session of a chat client, or the global list feed: both use the same    *)
(* code on different maps.                                                 *)
(*                                                                         *)
(* A step is what one goroutine does under the hub's mutex, or one         *)
(* operation on a channel.  The channel `send' of client c is the sequence *)
(* sent[c] of everything put into it, of which the first taken[c] are      *)
(* gone; `done' and `send' are closed once, a second close and a send on   *)
(* the closed channel panic.                                               *)
(*                                                                         *)
(* gin.Recovery and net/http turn the panic of a handler goroutine into    *)
(* the end of that request; the panic of a detached one                    *)
(* (go h.publishStatsEvent) is the end of the process.                     *)
(***************************************************************************)
EXTENDS Integers, Sequences

CONSTANTS
  Clients,     \* WebSocket connections
  Publishers,  \* calls of Publish and PublishGlobal
  Detached,    \* those of them that run in a goroutine of their own
  Feeds,       \* live sessions, and the list feed
  NoFeed,
  BufSize      \* depth of a client's send channel

ASSUME ChatHubAssumption ==
  /\ Clients \cap Publishers = {}
  /\ Detached \subseteq Publishers
  /\ NoFeed \notin Feeds
  /\ BufSize \in Nat \ {0}

Actors == Clients \cup Publishers   \* a client stands for its reader here

VARIABLES
  alive,       \* the process runs
  feed,        \* subscription of each client, NoFeed before it connects
  subscribed,  \* clients in the hub's maps
  conn,        \* is the WebSocket open?
  sent,        \* messages put into the client's send channel
  taken,       \* how many of them its writer has received
  writer,      \* clients whose writer goroutine runs
  doneClosed,  \* clients whose channels are closed
  sendClosed,
  pc,          \* next step of each actor
  topic,       \* feed of each publisher's message, NoFeed before it starts
  audience,    \* clients in the snapshot that the publisher took (history)
  snap,        \* those of them it has not sent to yet
  dropped,     \* those it found full and has not disconnected yet
  target       \* argument of each actor's current Disconnect call, as {c}

channels == <<sent, taken, doneClosed, sendClosed>>
sockets == <<feed, conn, writer>>
publishing == <<topic, audience, snap, dropped, target>>
vars == <<alive, subscribed, channels, sockets, pc, publishing>>

Disconnecting == {"delete", "check", "closeDone", "closeSend"}
Steps == {"idle", "read", "send", "done", "panicked"} \cup Disconnecting

Buffered(c) == Len(sent[c]) - taken[c]

TypeOK ==
  /\ alive \in BOOLEAN
  /\ feed \in [Clients -> Feeds \cup {NoFeed}]
  /\ subscribed \in SUBSET Clients
  /\ conn \in [Clients -> BOOLEAN]
  /\ sent \in [Clients -> Seq(Publishers)]
  /\ taken \in [Clients -> Nat]
  /\ \A c \in Clients : Buffered(c) \in 0..BufSize
  /\ writer \in SUBSET Clients
  /\ doneClosed \in SUBSET Clients
  /\ sendClosed \in SUBSET Clients
  /\ pc \in [Actors -> Steps]
  /\ topic \in [Publishers -> Feeds \cup {NoFeed}]
  /\ audience \in [Publishers -> SUBSET Clients]
  /\ snap \in [Publishers -> SUBSET Clients]
  /\ dropped \in [Publishers -> SUBSET Clients]
  /\ target \in [Actors -> SUBSET Clients]

Init ==
  /\ alive = TRUE
  /\ feed = [c \in Clients |-> NoFeed]
  /\ subscribed = {}
  /\ conn = [c \in Clients |-> FALSE]
  /\ sent = [c \in Clients |-> << >>]
  /\ taken = [c \in Clients |-> 0]
  /\ writer = {}
  /\ doneClosed = {}
  /\ sendClosed = {}
  /\ pc = [a \in Actors |-> "idle"]
  /\ topic = [p \in Publishers |-> NoFeed]
  /\ audience = [p \in Publishers |-> {}]
  /\ snap = [p \in Publishers |-> {}]
  /\ dropped = [p \in Publishers |-> {}]
  /\ target = [a \in Actors |-> IF a \in Clients THEN {a} ELSE {}]

GoTo(a, step) == pc' = [pc EXCEPT ![a] = step]

Panic(a) == GoTo(a, "panicked") /\ alive' = (a \notin Detached)

------------------------------------------------------------------------------
\* The connection.

\* chatWS or listWS: NewClient (NewGlobalClient) registers under the mutex.
Connect(c, f) ==
  /\ pc[c] = "idle"
  /\ feed' = [feed EXCEPT ![c] = f]
  /\ subscribed' = subscribed \cup {c}
  /\ conn' = [conn EXCEPT ![c] = TRUE]
  /\ writer' = writer \cup {c}
  /\ GoTo(c, "read")
  /\ UNCHANGED <<alive, channels, publishing>>

\* The viewer closes the socket, or misses the pong deadline.
Leave(c) ==
  /\ conn[c]
  /\ conn' = [conn EXCEPT ![c] = FALSE]
  /\ UNCHANGED <<alive, subscribed, channels, feed, writer, pc, publishing>>

\* The writer receives a message and writes it, or fails and gives up.
Write(c) ==
  /\ c \in writer
  /\ Buffered(c) > 0
  /\ taken' = [taken EXCEPT ![c] = @ + 1]
  /\ \/ conn[c] /\ UNCHANGED <<conn, writer>>
     \/ conn' = [conn EXCEPT ![c] = FALSE] /\ writer' = writer \ {c}
  /\ UNCHANGED <<alive, feed, subscribed, sent, doneClosed, sendClosed, pc, publishing>>

\* The writer sees a closed channel, or a ping fails; it closes the socket.
\* What is still buffered is not written.
StopWriting(c) ==
  /\ c \in writer
  /\ conn[c] => c \in doneClosed \/ (c \in sendClosed /\ Buffered(c) = 0)
  /\ writer' = writer \ {c}
  /\ conn' = [conn EXCEPT ![c] = FALSE]
  /\ UNCHANGED <<alive, feed, subscribed, channels, pc, publishing>>

\* Mutant: the reader returns without Disconnect.
ReadFailsQuietly(c) ==
  /\ pc[c] = "read"
  /\ ~conn[c]
  /\ GoTo(c, "done")
  /\ UNCHANGED <<alive, subscribed, channels, sockets, publishing>>

\* ReadMessage fails: the reader calls Disconnect.
ReadFails(c) ==
  /\ pc[c] = "read"
  /\ ~conn[c]
  /\ GoTo(c, "delete")
  /\ UNCHANGED <<alive, subscribed, channels, sockets, publishing>>

------------------------------------------------------------------------------
\* Publish.

\* Mutant: the snapshot is taken of every client.
SnapshotAll(p, f) ==
  /\ pc[p] = "idle"
  /\ topic' = [topic EXCEPT ![p] = f]
  /\ snap' = [snap EXCEPT ![p] = subscribed]
  /\ audience' = [audience EXCEPT ![p] = subscribed]
  /\ GoTo(p, "send")
  /\ UNCHANGED <<alive, subscribed, channels, sockets, dropped, target>>

\* The list of the feed's clients is copied under the read lock.
Snapshot(p, f) ==
  /\ pc[p] = "idle"
  /\ topic' = [topic EXCEPT ![p] = f]
  /\ LET listeners == {c \in subscribed : feed[c] = f}
     IN /\ snap' = [snap EXCEPT ![p] = listeners]
        /\ audience' = [audience EXCEPT ![p] = listeners]
  /\ GoTo(p, "send")
  /\ UNCHANGED <<alive, subscribed, channels, sockets, dropped, target>>

\* Mutants: a full client is skipped, not dropped; the send waits for room.
SendSkipsFull(p, c) ==
  /\ pc[p] = "send"
  /\ c \in snap[p]
  /\ c \notin sendClosed
  /\ snap' = [snap EXCEPT ![p] = @ \ {c}]
  /\ sent' = IF Buffered(c) < BufSize THEN [sent EXCEPT ![c] = Append(@, p)] ELSE sent
  /\ UNCHANGED <<alive, subscribed, taken, doneClosed, sendClosed, sockets, pc, topic,
                 audience, dropped, target>>

SendBlocks(p, c) ==
  /\ pc[p] = "send"
  /\ c \in snap[p]
  /\ c \notin sendClosed
  /\ Buffered(c) < BufSize
  /\ snap' = [snap EXCEPT ![p] = @ \ {c}]
  /\ sent' = [sent EXCEPT ![c] = Append(@, p)]
  /\ UNCHANGED <<alive, subscribed, taken, doneClosed, sendClosed, sockets, pc, topic,
                 audience, dropped, target>>

\* The non-blocking send: into the buffer, or onto the list of clients to drop.
Send(p, c) ==
  /\ pc[p] = "send"
  /\ c \in snap[p]
  /\ c \notin sendClosed
  /\ snap' = [snap EXCEPT ![p] = @ \ {c}]
  /\ IF Buffered(c) < BufSize
       THEN sent' = [sent EXCEPT ![c] = Append(@, p)] /\ UNCHANGED dropped
       ELSE dropped' = [dropped EXCEPT ![p] = @ \cup {c}] /\ UNCHANGED sent
  /\ UNCHANGED <<alive, subscribed, taken, doneClosed, sendClosed, sockets, pc, topic,
                 audience, target>>

\* The client was disconnected after the snapshot: send on a closed channel.
SendPanics(p, c) ==
  /\ pc[p] = "send"
  /\ c \in snap[p] \cap sendClosed
  /\ Panic(p)
  /\ UNCHANGED <<subscribed, channels, sockets, publishing>>

\* Everyone is served: disconnect the clients that were full, one by one.
Drop(p, c) ==
  /\ pc[p] = "send"
  /\ snap[p] = {}
  /\ c \in dropped[p]
  /\ dropped' = [dropped EXCEPT ![p] = @ \ {c}]
  /\ target' = [target EXCEPT ![p] = {c}]
  /\ GoTo(p, "delete")
  /\ UNCHANGED <<alive, subscribed, channels, sockets, topic, audience, snap>>

Finish(p) ==
  /\ pc[p] = "send"
  /\ snap[p] = {}
  /\ dropped[p] = {}
  /\ GoTo(p, "done")
  /\ UNCHANGED <<alive, subscribed, channels, sockets, publishing>>

------------------------------------------------------------------------------
\* Disconnect, called by the reader of a client or by a publisher that drops it.

\* A publisher goes on with the next full client; a reader is finished.
Return(a) == GoTo(a, IF a \in Clients THEN "done" ELSE "send")

\* Under the mutex.
Delete(a) ==
  /\ pc[a] = "delete"
  /\ subscribed' = subscribed \ target[a]
  /\ GoTo(a, "check")
  /\ UNCHANGED <<alive, channels, sockets, publishing>>

\* The mutex is released: is done closed already?
Check(a) ==
  /\ pc[a] = "check"
  /\ IF target[a] \subseteq doneClosed THEN Return(a) ELSE GoTo(a, "closeDone")
  /\ UNCHANGED <<alive, subscribed, channels, sockets, publishing>>

CloseDone(a) ==
  /\ pc[a] = "closeDone"
  /\ ~(target[a] \subseteq doneClosed)
  /\ doneClosed' = doneClosed \cup target[a]
  /\ GoTo(a, "closeSend")
  /\ UNCHANGED <<alive, subscribed, sent, taken, sendClosed, sockets, publishing>>

\* Another call closed it between the check and here.
CloseDonePanics(a) ==
  /\ pc[a] = "closeDone"
  /\ target[a] \subseteq doneClosed
  /\ Panic(a)
  /\ UNCHANGED <<subscribed, channels, sockets, publishing>>

CloseSend(a) ==
  /\ pc[a] = "closeSend"
  /\ sendClosed' = sendClosed \cup target[a]
  /\ Return(a)
  /\ UNCHANGED <<alive, subscribed, sent, taken, doneClosed, sockets, publishing>>

Disconnect(a) ==
  Delete(a) \/ Check(a) \/ CloseDone(a) \/ CloseDonePanics(a) \/ CloseSend(a)

------------------------------------------------------------------------------
Read(c) == ReadFails(c) \/ Disconnect(c)

Publish(p) ==
  \/ \E c \in Clients : Send(p, c) \/ SendPanics(p, c) \/ Drop(p, c)
  \/ Finish(p)
  \/ Disconnect(p)

Next ==
  /\ alive
  /\ \/ \E c \in Clients :
          \/ \E f \in Feeds : Connect(c, f)
          \/ Leave(c) \/ Write(c) \/ StopWriting(c) \/ Read(c)
     \/ \E p \in Publishers : Publish(p) \/ \E f \in Feeds : Snapshot(p, f)

Spec == Init /\ [][Next]_vars

\* Goroutines are scheduled, and a write to a stuck socket ends at its deadline;
\* but no writer has to drain its channel: a viewer may be as slow as it likes.
FairSpec ==
  /\ Spec
  /\ \A c \in Clients : WF_vars(alive /\ Read(c)) /\ WF_vars(alive /\ StopWriting(c))
  /\ \A p \in Publishers : WF_vars(alive /\ Publish(p))

------------------------------------------------------------------------------
\* A client gets messages of its own feed only, none of them twice, and only if
\* it was connected when the message was published.
OnlyOwnMessages ==
  \A c \in Clients :
    /\ \A n \in 1..Len(sent[c]) :
         topic[sent[c][n]] = feed[c] /\ c \in audience[sent[c][n]]
    /\ \A m, n \in 1..Len(sent[c]) : sent[c][m] = sent[c][n] => m = n

Got(c, p) == \E n \in 1..Len(sent[c]) : sent[c][n] = p

\* "if the buffer fills, we drop the connection": a client that is still
\* registered missed no message, whoever publishes, leaves and is dropped
\* meanwhile.  (A Publish that panicked never reaches "done".)
NoSilentGap ==
  \A p \in Publishers : pc[p] = "done" =>
    \A c \in audience[p] \cap subscribed : Got(c, p)

\* A client is taken from the map before its channels are closed, so no later
\* Publish finds a closed channel.
ClosedIsUnlisted == doneClosed \cup sendClosed \subseteq Clients \ subscribed

\* A viewer that left, or was dropped, is forgotten: out of the map, its channels
\* closed, its socket and goroutines gone, however Disconnect calls interleave.
LeaversAreForgotten ==
  \A c \in Clients :
    (feed[c] # NoFeed /\ (c \notin subscribed \/ ~conn[c])) ~>
      (~alive \/ (~conn[c] /\ c \notin subscribed /\ c \in sendClosed /\ c \notin writer))

\* A stuck client never holds up a Publish (the handler of postChat).
PublishEnds ==
  \A p \in Publishers : pc[p] = "send" ~> (~alive \/ pc[p] \in {"done", "panicked"})

\* Comment on Disconnect: "Idempotent - calling twice is safe (the second close
\* on `done` would panic, so we guard)".
DisconnectTwiceIsSafe ==
  [][\A a \in Actors : pc[a] = "closeDone" => pc'[a] # "panicked"]_vars
==============================================================================
