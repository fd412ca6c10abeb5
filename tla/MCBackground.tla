----------------------------- MODULE MCBackground -----------------------------
(***************************************************************************)
(* What must end although nobody asks again, under TLC with its fairness:  *)
(* the worker's recordings and sweeps, the goroutines of the chat hub, and *)
(* the stock lock of a request that overran its lease.  `part` is chosen   *)
(* in the initial state, and each part moves alone.                        *)
(*                                                                         *)
(* The fairness of each module is restated action by action, since it is   *)
(* owed to the part that moves.                                            *)
(***************************************************************************)
EXTENDS Recording, Integers

CONSTANTS
  Clients, Publishers, Detached, Feeds, NoFeed,  \* ChatHub
  Requests, NoToken                              \* LiveStock

VARIABLES
  part,
  alive, feed, subscribed, conn, sent, taken, writer, doneClosed, sendClosed, pc,
  topic, audience, snap, dropped, target,
  lock, orderStep, attempts, qty, present, stock_left, sold_count, placed, missed

------------------------------------------------------------------------------
(* The parts. *)

Hub == INSTANCE ChatHub WITH BufSize <- 1

Lock == INSTANCE LiveStock WITH
  MaxQty <- 1, InitialStock <- 1, Retries <- 1, MayOverrun <- TRUE, pc <- orderStep

hubVars ==
  <<alive, feed, subscribed, conn, sent, taken, writer, doneClosed, sendClosed, pc,
    topic, audience, snap, dropped, target>>
lockVars == <<lock, orderStep, attempts, qty, present, stock_left, sold_count, placed, missed>>
allVars == <<part, vars, hubVars, lockVars>>

Parts == {"files", "hub", "lock"}

BackgroundInit ==
  /\ part \in Parts
  /\ Init /\ Hub!Init /\ Lock!Init

\* The variables v of the part p are at rest while another part moves.
Still(p, v) == IF part = p THEN TRUE ELSE UNCHANGED v

BackgroundNext ==
  /\ UNCHANGED part
  /\ \/ part = "files" /\ Next
     \/ part = "hub" /\ Hub!Next
     \/ part = "lock" /\ Lock!Next
  /\ Still("files", vars) /\ Still("hub", hubVars) /\ Still("lock", lockVars)

------------------------------------------------------------------------------
(* Fairness, as in the FairSpec of each module. *)

FilesFair ==
  /\ \A r \in Recs : /\ WF_vars(part = "files" /\ GrowOld(r))
                     /\ WF_vars(part = "files" /\ SweepDVR(r))
  /\ \A v \in Sweepers : /\ WF_vars(part = "files" /\ ListExpired(v))
                         /\ SF_vars(part = "files" /\ DeleteSome(v))
                         /\ SF_vars(part = "files" /\ MarkRecordingExpired(v))

HubFair ==
  /\ \A c \in Clients : /\ WF_hubVars(part = "hub" /\ alive /\ Hub!Read(c))
                        /\ WF_hubVars(part = "hub" /\ alive /\ Hub!StopWriting(c))
  /\ \A p \in Publishers : WF_hubVars(part = "hub" /\ alive /\ Hub!Publish(p))

LockFair ==
  /\ WF_lockVars(part = "lock" /\ Lock!Expire)
  /\ \A r \in Requests : WF_lockVars(part = "lock" /\ Lock!Step(r))

BackgroundSpec ==
  /\ BackgroundInit /\ [][BackgroundNext]_allVars
  /\ FilesFair /\ HubFair /\ LockFair

------------------------------------------------------------------------------
(* The properties; each is stated, with the code it is about, in the module of
   its part. *)

\* Links to what is gone from the bucket are cleared again, and no file stays on the
\* disk for ever.
RecordingsEnd ==
  /\ DeadLinkIsCleared
  /\ FilesLeaveDisk

\* Who left the chat is forgotten, and no stuck client holds up a message.
LeaversAreForgotten == Hub!LeaversAreForgotten
PublishEnds == Hub!PublishEnds

\* A lock is not deleted by a request whose lease is over, and a dead holder's
\* lock goes away.
ForeignLockKept == Lock!ForeignLockKept
LockIsFreed == Lock!LockIsFreed
==============================================================================
