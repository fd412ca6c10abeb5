----------------------------- MODULE LiveStart -----------------------------
(***************************************************************************)
(* live/start and live/stop of one seller, statement by statement.  A      *)
(* start is a transaction: an UPDATE that closes the seller's open rows,   *)
(* and an INSERT of a new one, whose stream key is the seller and the      *)
(* second.  A stop is that UPDATE alone.                                   *)
(*                                                                         *)
(* Postgres (external, READ COMMITTED): an UPDATE works on the rows that   *)
(* were committed when it began; it waits for a row that another           *)
(* transaction has changed, and then looks at the row again.  So does an   *)
(* INSERT for a key that is not yet committed.                             *)
(*                                                                         *)
(* Each member of Calls is one request, and a session is named after the   *)
(* start that made it.  StartSpecSession of LiveSession is the same        *)
(* transaction in one step.                                                *)
(***************************************************************************)
EXTENDS Integers, FiniteSets

CONSTANTS
  Calls,
  MaxSecond    \* bound: seconds that pass

VARIABLES
  second,
  asked,       \* "start" or "stop"
  step,        \* next step of each call
  seen,        \* the open rows that were committed when its UPDATE began
  closed,      \* rows it has closed and not committed
  stamp,       \* the second in its stream key
  sessions,    \* committed rows of live_sessions
  open,        \* those that are ready or live
  missed       \* pairs of a start and a session committed during it (history)

vars == <<second, asked, step, seen, closed, stamp, sessions, open, missed>>

TypeOK ==
  /\ second \in 0..MaxSecond /\ stamp \in [Calls -> 0..MaxSecond]
  /\ asked \in [Calls -> {"start", "stop"}]
  /\ step \in [Calls -> {"idle", "update", "insert", "commit", "done", "failed"}]
  /\ seen \in [Calls -> SUBSET Calls] /\ closed \in [Calls -> SUBSET Calls]
  /\ open \subseteq sessions /\ sessions \subseteq Calls /\ missed \subseteq Calls \X Calls

Init ==
  /\ second = 0 /\ stamp = [c \in Calls |-> 0]
  /\ asked = [c \in Calls |-> "start"] /\ step = [c \in Calls |-> "idle"]
  /\ seen = [c \in Calls |-> {}] /\ closed = [c \in Calls |-> {}]
  /\ sessions = {} /\ open = {} /\ missed = {}

GoTo(c, s) == step' = [step EXCEPT ![c] = s]
Locked(rows) == \E d \in Calls : closed[d] \cap rows # {}

------------------------------------------------------------------------------
\* The UPDATE begins; the key of a start has been made by then.
Begin(c, kind) ==
  /\ step[c] = "idle"
  /\ asked' = [asked EXCEPT ![c] = kind]
  /\ stamp' = [stamp EXCEPT ![c] = second]
  /\ seen' = [seen EXCEPT ![c] = open]
  /\ GoTo(c, "update")
  /\ UNCHANGED <<second, closed, sessions, open, missed>>

\* The UPDATE ends: what it saw and is still open is taken offline.
CloseOpen(c) ==
  /\ step[c] = "update" /\ asked[c] = "start"
  /\ ~Locked(seen[c])
  /\ closed' = [closed EXCEPT ![c] = seen[c] \cap open]
  /\ GoTo(c, "insert")
  /\ UNCHANGED <<second, asked, seen, stamp, sessions, open, missed>>

\* StopSpecSession commits with its only statement.
StopSpecSession(c) ==
  /\ step[c] = "update" /\ asked[c] = "stop"
  /\ ~Locked(seen[c])
  /\ open' = open \ seen[c]
  /\ GoTo(c, "done")
  /\ UNCHANGED <<second, asked, seen, closed, stamp, sessions, missed>>

\* INSERT: a key of the same second is taken, or its start still under way.
Insert(c) ==
  /\ step[c] = "insert"
  /\ \A d \in Calls \ {c} : stamp[d] = stamp[c] => step[d] # "commit" /\ d \notin sessions
  /\ GoTo(c, "commit")
  /\ UNCHANGED <<second, asked, seen, closed, stamp, sessions, open, missed>>

\* A start that has begun its UPDATE does not see the new row.
Commit(c) ==
  /\ step[c] = "commit"
  /\ sessions' = sessions \cup {c}
  /\ open' = (open \ closed[c]) \cup {c}
  /\ closed' = [closed EXCEPT ![c] = {}]
  /\ missed' = missed \cup {<<d, c>> : d \in {e \in Calls \ {c} :
                                 asked[e] = "start" /\ step[e] \in {"update", "insert", "commit"}}}
  /\ GoTo(c, "done")
  /\ UNCHANGED <<second, asked, seen, stamp>>

\* A statement fails, a taken key included: the rows it closed are open again.
Rollback(c) ==
  /\ step[c] \in {"update", "insert", "commit"}
  /\ closed' = [closed EXCEPT ![c] = {}]
  /\ GoTo(c, "failed")
  /\ UNCHANGED <<second, asked, seen, stamp, sessions, open, missed>>

\* The publisher leaves, the sweep comes, the owner ends the session.
End(s) ==
  /\ s \in open /\ ~Locked({s})
  /\ open' = open \ {s}
  /\ UNCHANGED <<second, asked, step, seen, closed, stamp, sessions, missed>>

Tick ==
  /\ second < MaxSecond /\ second' = second + 1
  /\ UNCHANGED <<asked, step, seen, closed, stamp, sessions, open, missed>>

Statement(c) ==
  CloseOpen(c) \/ StopSpecSession(c) \/ Insert(c) \/ Commit(c) \/ Rollback(c)

Next ==
  \/ \E c \in Calls, kind \in {"start", "stop"} : Begin(c, kind)
  \/ \E c \in Calls : Statement(c) \/ End(c)
  \/ Tick

Spec == Init /\ [][Next]_vars

------------------------------------------------------------------------------
\* "Start replaces ready/live" (StartSpecSession): a seller has one open session,
\* unless one was committed while the start of the other was under way.
OneOpenSession == \A c, d \in open : c # d => <<c, d>> \in missed \/ <<d, c>> \in missed

\* What was open when a stop began is not open after its answer, whatever starts
\* held the rows meanwhile, committed or rolled back.
StopsHold == \A c \in Calls : asked[c] = "stop" /\ step[c] = "done" => seen[c] \cap open = {}

\* Two sessions have two keys, although a key is no more than the second.
KeysDiffer == \A c, d \in sessions : stamp[c] = stamp[d] => c = d

StartsReplace == OneOpenSession /\ StopsHold /\ KeysDiffer
==============================================================================
