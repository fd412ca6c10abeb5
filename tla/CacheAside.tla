----------------------------- MODULE CacheAside -----------------------------
(***************************************************************************)
(* One table cached under the keys of one pattern ("categories:all",       *)
(* "live:sessions:active"), and the sliding-window limiter that shares     *)
(* Redis with it.  Readers load on a miss and store with a time to live;   *)
(* writers update the table and then scan for the keys and delete them,    *)
(* whatever that returns.  Some writers do not know of the keys: a start,  *)
(* SRS's webhooks and the sweep change the list of live sessions only.     *)
(*                                                                         *)
(* late is history: the keys whose value had been replaced in the table    *)
(* when it was stored; unswept those an invalidation did not reach, or     *)
(* nobody sent one for.  Of the limiter's requests, passed and unanswered  *)
(* are history.                                                            *)
(***************************************************************************)
EXTENDS Integers, FiniteSets

CONSTANTS
  Readers, Writers,
  Keys,          \* the keys that match the pattern
  MaxVersion,    \* bound: updates of the table
  NoEntry,
  Limit, Window, \* of the limiter
  MaxTick,       \* bound: the limiter's clock
  MaxRequests    \* bound: the requests under one key of the limiter

VARIABLES
  table,         \* version of the rows in Postgres
  entry,         \* Redis: the version cached under each key, or NoEntry
  loaded,        \* what each reader got from its loader
  reader,        \* where each reader is, and the key it asks for
  writer,        \* where each writer is, the keys still to scan, those found
  late, unswept,
  failClosed,    \* FailClosed of the route's RateLimitConfig
  hits,          \* the limiter's ZSET: the requests counted, by their times
  tick,
  requests,      \* how many have come
  stamped,       \* the requests on their way to Redis: time and number
  passed,        \* every request let through to its handler
  unanswered,    \* every request whose script gave no answer
  swept,         \* the latest time a script has used
  overtaken      \* some script ran with an earlier time than one before it

cacheVars == <<table, entry, loaded, reader, writer, late, unswept>>
limitVars ==
  <<failClosed, hits, tick, requests, stamped, passed, unanswered, swept, overtaken>>
vars == <<cacheVars, limitVars>>

ReaderAt == [at : {"idle", "load", "store"}, key : Keys]
WriterAt == [at : {"idle", "scan", "del"}, left : SUBSET Keys, found : SUBSET Keys]

Stamps == (0..MaxTick) \X (1..MaxRequests)

TypeOK ==
  /\ table \in 0..MaxVersion
  /\ entry \in [Keys -> 0..MaxVersion \cup {NoEntry}]
  /\ loaded \in [Readers -> 0..MaxVersion]
  /\ reader \in [Readers -> ReaderAt] /\ writer \in [Writers -> WriterAt]
  /\ late \subseteq Keys /\ unswept \subseteq Keys
  /\ failClosed \in BOOLEAN /\ tick \in 0..MaxTick /\ requests \in 0..MaxRequests
  /\ hits \subseteq Stamps /\ stamped \subseteq Stamps
  /\ passed \subseteq Stamps /\ unanswered \subseteq Stamps
  /\ swept \in 0..MaxTick /\ overtaken \in BOOLEAN

IdleWriter == [at |-> "idle", left |-> {}, found |-> {}]

Init ==
  /\ table = 0 /\ entry = [k \in Keys |-> NoEntry]
  /\ loaded = [r \in Readers |-> 0]
  /\ reader \in [Readers -> {[at |-> "idle", key |-> k] : k \in Keys}]
  /\ writer = [w \in Writers |-> IdleWriter]
  /\ late = {} /\ unswept = {}
  /\ failClosed \in BOOLEAN
  /\ hits = {} /\ tick = 0 /\ requests = 0 /\ stamped = {}
  /\ passed = {} /\ unanswered = {} /\ swept = 0 /\ overtaken = FALSE

------------------------------------------------------------------------------
(* Aside. *)

ReaderTo(r, s) == reader' = [reader EXCEPT ![r].at = s]

\* GET: a hit answers at once; a miss, and an error of Redis, ask the loader.
Get(r, k) ==
  /\ reader[r].at = "idle"
  /\ reader' = [reader EXCEPT ![r] = [at |-> "load", key |-> k]]
  /\ UNCHANGED <<table, entry, loaded, writer, late, unswept, limitVars>>

\* The loader's query; when it fails nothing is stored.
Load(r) ==
  /\ reader[r].at = "load"
  /\ \/ loaded' = [loaded EXCEPT ![r] = table] /\ ReaderTo(r, "store")
     \/ UNCHANGED loaded /\ ReaderTo(r, "idle")
  /\ UNCHANGED <<table, entry, writer, late, unswept, limitVars>>

\* SET with a time to live, its error discarded.
Store(r) ==
  /\ reader[r].at = "store" /\ ReaderTo(r, "idle")
  /\ LET k == reader[r].key IN
       \/ /\ entry' = [entry EXCEPT ![k] = loaded[r]]
          /\ late' = IF loaded[r] = table THEN late \ {k} ELSE late \cup {k}
          /\ unswept' = unswept \ {k}
       \/ UNCHANGED <<entry, late, unswept>>
  /\ UNCHANGED <<table, loaded, writer, limitVars>>

\* Redis drops an entry at the end of its time to live.
Expire(k) ==
  /\ entry[k] # NoEntry
  /\ entry' = [entry EXCEPT ![k] = NoEntry]
  /\ late' = late \ {k} /\ unswept' = unswept \ {k}
  /\ UNCHANGED <<table, loaded, reader, writer, limitVars>>

------------------------------------------------------------------------------
(* Writers: create, update and delete of the table's handlers. *)

\* Mutant: a handler that forgets the keys.
UpdateOnly(w) ==
  /\ writer[w].at = "idle" /\ table < MaxVersion
  /\ table' = table + 1
  /\ UNCHANGED <<entry, loaded, reader, writer, late, unswept, limitVars>>

Update(w) ==
  /\ writer[w].at = "idle" /\ table < MaxVersion
  /\ table' = table + 1
  /\ writer' = [writer EXCEPT ![w] = [at |-> "scan", left |-> Keys, found |-> {}]]
  /\ UNCHANGED <<entry, loaded, reader, late, unswept, limitVars>>

\* A writer without an invalidation: the clients that it tells of the change may
\* be answered from the cache.
UpdateElsewhere ==
  /\ table < MaxVersion
  /\ table' = table + 1
  /\ unswept' = unswept \cup {k \in Keys : entry[k] # NoEntry}
  /\ UNCHANGED <<entry, loaded, reader, writer, late, limitVars>>

\* One SCAN: a batch of the key space, the cursor decides which.
Scan(w) ==
  /\ writer[w].at = "scan"
  /\ \E batch \in SUBSET writer[w].left \ {{}} :
       writer' = [writer EXCEPT ![w] =
                    [at |-> "del", left |-> @.left \ batch,
                     found |-> {k \in batch : entry[k] # NoEntry}]]
  /\ UNCHANGED <<table, entry, loaded, reader, late, unswept, limitVars>>

\* DEL of what the batch held, then the next SCAN unless the cursor is zero.
Del(w) ==
  /\ writer[w].at = "del"
  /\ LET gone == writer[w].found IN
       /\ entry' = [k \in Keys |-> IF k \in gone THEN NoEntry ELSE entry[k]]
       /\ late' = late \ gone /\ unswept' = unswept \ gone
       /\ writer' = [writer EXCEPT ![w] =
            IF @.left = {} THEN IdleWriter ELSE [@ EXCEPT !.at = "scan", !.found = {}]]
  /\ UNCHANGED <<table, loaded, reader, limitVars>>

\* Redis answers with an error, or the request has been cancelled: the handler
\* goes on without having deleted the rest.
InvalidateFails(w) ==
  /\ writer[w].at \in {"scan", "del"}
  /\ unswept' = unswept \cup {k \in writer[w].left \cup writer[w].found : entry[k] # NoEntry}
  /\ writer' = [writer EXCEPT ![w] = IdleWriter]
  /\ UNCHANGED <<table, entry, loaded, reader, late, limitVars>>

------------------------------------------------------------------------------
(* Allow: a request takes its time on the API's clock, and a script in Redis
   then forgets, counts and adds in one step. *)

Tick ==
  /\ tick < MaxTick /\ tick' = tick + 1
  /\ UNCHANGED <<cacheVars, failClosed, hits, requests, stamped, passed, unanswered, swept,
                 overtaken>>

Stamp ==
  /\ requests < MaxRequests /\ requests' = requests + 1
  /\ stamped' = stamped \cup {<<tick, requests'>>}
  /\ UNCHANGED <<cacheVars, failClosed, hits, tick, passed, unanswered, swept, overtaken>>

Arrive(q) == q \in stamped /\ stamped' = stamped \ {q}

Kept(t) == {h \in hits : h[1] > t - Window}

\* Mutant: compares before it adds, with one too many.
ScriptOneMore(q) ==
  /\ hits' = IF Cardinality(Kept(q[1])) <= Limit THEN Kept(q[1]) \cup {q} ELSE Kept(q[1])
  /\ swept' = IF q[1] > swept THEN q[1] ELSE swept
  /\ overtaken' = (overtaken \/ q[1] < swept)

\* rateLimitScript.
Script(q) ==
  /\ hits' = IF Cardinality(Kept(q[1])) < Limit THEN Kept(q[1]) \cup {q} ELSE Kept(q[1])
  /\ swept' = IF q[1] > swept THEN q[1] ELSE swept
  /\ overtaken' = (overtaken \/ q[1] < swept)

\* The script's answer decides.
Allow(q) ==
  /\ Arrive(q) /\ Script(q)
  /\ passed' = IF q \in hits' THEN passed \cup {q} ELSE passed
  /\ UNCHANGED <<cacheVars, failClosed, tick, requests, unanswered>>

\* Mutant: an error lets the request through whatever the route says.
AllowFailsOpen(q) ==
  /\ Arrive(q) /\ unanswered' = unanswered \cup {q}
  /\ Script(q) \/ UNCHANGED <<hits, swept, overtaken>>
  /\ passed' = passed \cup {q}
  /\ UNCHANGED <<cacheVars, failClosed, tick, requests>>

\* Redis fails, before the script or after it: the request goes on all the same, or
\* is refused when the limiter fails closed.
AllowFails(q) ==
  /\ Arrive(q) /\ unanswered' = unanswered \cup {q}
  /\ Script(q) \/ UNCHANGED <<hits, swept, overtaken>>
  /\ passed' = IF failClosed THEN passed ELSE passed \cup {q}
  /\ UNCHANGED <<cacheVars, failClosed, tick, requests>>

------------------------------------------------------------------------------
ReadSide == \E r \in Readers : (\E k \in Keys : Get(r, k)) \/ Load(r) \/ Store(r)

WriteSide ==
  UpdateElsewhere \/ \E w \in Writers : Update(w) \/ Scan(w) \/ Del(w) \/ InvalidateFails(w)

CacheNext == ReadSide \/ WriteSide \/ \E k \in Keys : Expire(k)

LimitNext == Tick \/ Stamp \/ \E q \in stamped : Allow(q) \/ AllowFails(q)

Next == CacheNext \/ LimitNext

Spec == Init /\ [][Next]_vars

------------------------------------------------------------------------------
Stale(k) == entry[k] # NoEntry /\ entry[k] # table

\* A writer has k still to scan, or has found it and will delete it.
SweepAhead(k) == \E w \in Writers : k \in writer[w].left \cup writer[w].found

\* A cached list is out of date only while a writer is about to delete it, or
\* because its reader stored after the row had changed, or because no
\* invalidation reached it: its error is discarded, or its writer sends none.
StaleIsExplained ==
  \A k \in Keys : Stale(k) =>
    SweepAhead(k) \/ k \in late \/ k \in unswept

\* No window of the limiter's length lets more requests through than its limit,
\* but for those Redis gave no answer for, which only a limiter that fails open
\* lets through at all; as long as the requests reach Redis in the order of their
\* times: a late one is counted against what a younger one has left in the set.
WindowHolds ==
  /\ failClosed => passed \cap unanswered = {}
  /\ ~overtaken =>
       \A t \in 0..MaxTick :
         Cardinality({p \in passed \ unanswered : p[1] \in (t - Window + 1)..t}) <= Limit
=============================================================================
