------------------------------ MODULE ListWalk ------------------------------
(***************************************************************************)
(* Clients that walk a list page by page while the list changes: the live  *)
(* sessions from the newest down, by a cursor that carries the start of    *)
(* the page's last row in milliseconds although Postgres keeps             *)
(* microseconds; and a session's chat, by the number of its oldest message.*)
(* The first page of the sessions comes out of the cache for three seconds,*)
(* and neither the webhooks nor a stop delete it there.                    *)
(*                                                                         *)
(* wanted is history: what was there when the walk's first page was read   *)
(* from the table and is still there; twice says that a walk returned      *)
(* something again.                                                        *)
(***************************************************************************)
EXTENDS Integers, FiniteSets, FiniteSetsExt

CONSTANTS
  Ids,         \* ids of sessions, positive numbers: they break ties
  PerMilli,    \* microseconds in a millisecond
  MaxTime,     \* bound: the clock, in microseconds
  Limit,       \* rows of a page
  MaxSeq,      \* bound: chat messages
  Never,       \* the start of a session that has not begun
  NoEntry      \* the cache has no first page

VARIABLES
  now,
  started,     \* live_sessions.started_at
  live,        \* the sessions with status 'live'
  firstPage,   \* live:sessions:active: what its page was taken from, or NoEntry
  cursor,      \* of the walk over sessions: time and id
  listWalk,    \* idle, walking or done
  seen, ends,  \* the sessions returned, and the last row of each page
  wanted, twice,
  chats,       \* chat_messages.seq that are committed
  nextSeq,
  beforeSeq, chatWalk, read, wantedChats

listVars == <<now, started, live, firstPage, cursor, listWalk, seen, ends, wanted, twice>>
chatVars == <<chats, nextSeq, beforeSeq, chatWalk, read, wantedChats>>
vars == <<listVars, chatVars>>

Walks == {"idle", "walking", "done"}

TypeOK ==
  /\ now \in 0..MaxTime
  /\ started \in [Ids -> 0..MaxTime \cup {Never}]
  /\ live \subseteq Ids /\ seen \subseteq Ids /\ ends \subseteq seen
  /\ firstPage \in (SUBSET Ids) \cup {NoEntry}
  /\ wanted \subseteq Ids /\ twice \in BOOLEAN
  /\ cursor \in [time : 0..MaxTime, id : Ids \cup {0}]
  /\ {listWalk, chatWalk} \subseteq Walks
  /\ chats \subseteq 1..MaxSeq /\ nextSeq \in 1..(MaxSeq + 1)
  /\ beforeSeq \in 0..(MaxSeq + 1) /\ read \subseteq chats /\ wantedChats \subseteq chats

Init ==
  /\ now = 0 /\ started = [s \in Ids |-> Never] /\ live = {} /\ firstPage = NoEntry
  /\ cursor = [time |-> 0, id |-> 0] /\ listWalk = "idle"
  /\ seen = {} /\ ends = {} /\ wanted = {} /\ twice = FALSE
  /\ chats = {} /\ nextSeq = 1 /\ beforeSeq = 0 /\ chatWalk = "idle"
  /\ read = {} /\ wantedChats = {}

------------------------------------------------------------------------------
(* Sessions come and go. *)

Tick == now < MaxTime /\ now' = now + 1
        /\ UNCHANGED <<started, live, firstPage, cursor, listWalk, seen, ends, wanted, twice, chatVars>>

GoLive(s) ==
  /\ started[s] = Never
  /\ started' = [started EXCEPT ![s] = now]
  /\ live' = live \cup {s}
  /\ UNCHANGED <<now, firstPage, cursor, listWalk, seen, ends, wanted, twice, chatVars>>

End(s) ==
  /\ s \in live
  /\ live' = live \ {s} /\ wanted' = wanted \ {s}
  /\ UNCHANGED <<now, started, firstPage, cursor, listWalk, seen, ends, twice, chatVars>>

------------------------------------------------------------------------------
(* listActive and ListActiveCursor. *)

\* ORDER BY started_at DESC, id DESC.
Newer(s, t) == started[s] > started[t] \/ (started[s] = started[t] /\ s > t)

\* formatListCursor and parseListCursor: UnixMilli drops the microseconds.
FormatListCursor(s) == [time |-> (started[s] \div PerMilli) * PerMilli, id |-> s]

\* Mutant: a row that starts with the cursor comes back whatever its id.
AtOrPast(s) == started[s] <= cursor.time

\* The rows strictly past the cursor, by start and then by id.
PastCursor(s) ==
  started[s] < cursor.time \/ (started[s] = cursor.time /\ s < cursor.id)

\* The first Limit of the rows are the page; a short page is the last.
Return(rows) ==
  LET page == {s \in rows : Cardinality({t \in rows : Newer(t, s)}) < Limit}
  IN /\ seen' = seen \cup page
     /\ twice' = (twice \/ page \cap seen # {})
     /\ IF Cardinality(page) < Limit
          THEN listWalk' = "done" /\ UNCHANGED <<cursor, ends>>
          ELSE LET last == CHOOSE s \in page : \A t \in page \ {s} : Newer(t, s)
               IN /\ cursor' = FormatListCursor(last) /\ ends' = ends \cup {last}
                  /\ listWalk' = "walking"

\* cache.Aside: the page is found in the cache, or read from the table and stored,
\* when it is not there, Redis fails or the limit is not the usual one (bound: what
\* comes of the entry then is not followed; the later pages do not come from it).
Aside ==
  /\ listWalk = "idle"
  /\ \E rows \in {firstPage, live} \ {NoEntry} :
       /\ Return(rows)
       /\ wanted' = rows \cap live
       /\ firstPage' = rows
  /\ UNCHANGED <<now, started, live, chatVars>>

\* Somebody else has had it read,
Poll ==
  /\ listWalk = "idle"
  /\ firstPage' = live
  /\ UNCHANGED <<now, started, live, cursor, listWalk, seen, ends, wanted, twice, chatVars>>

\* its three seconds are over, or InvalidatePattern deletes it.
Expire ==
  /\ listWalk = "idle"
  /\ firstPage # NoEntry /\ firstPage' = NoEntry
  /\ UNCHANGED <<now, started, live, cursor, listWalk, seen, ends, wanted, twice, chatVars>>

\* Every later page is read from the table, past the cursor.
ListActiveCursor ==
  /\ listWalk = "walking"
  /\ Return({s \in live : PastCursor(s)})
  /\ UNCHANGED <<now, started, live, firstPage, wanted, chatVars>>

------------------------------------------------------------------------------
(* The chat of one session. *)

\* A message commits with the next number, or, when its transaction is a gift's,
\* numbers are drawn first and commit out of order.
PostChat ==
  /\ nextSeq <= MaxSeq
  /\ nextSeq' = nextSeq + 1
  /\ \/ chats' = chats \cup {nextSeq}
     \/ UNCHANGED chats
  /\ UNCHANGED <<listVars, beforeSeq, chatWalk, read, wantedChats>>

CommitLate(n) ==
  /\ n < nextSeq /\ n \notin chats
  /\ chats' = chats \cup {n}
  /\ UNCHANGED <<listVars, nextSeq, beforeSeq, chatWalk, read, wantedChats>>

BeginHistory ==
  /\ chatWalk = "idle" /\ chatWalk' = "walking"
  /\ wantedChats' = chats
  /\ UNCHANGED <<listVars, chats, nextSeq, beforeSeq, read>>

\* The client's next before_id: the oldest message of the page.
NextBefore(page) == Min(page)

\* ChatHistory: the newest Limit messages before before_id.
ChatHistory ==
  /\ chatWalk = "walking"
  /\ LET rows == {n \in chats : beforeSeq = 0 \/ n < beforeSeq}
         page == {n \in rows : Cardinality({k \in rows : k > n}) < Limit}
     IN /\ read' = read \cup page
        /\ IF Cardinality(page) < Limit THEN chatWalk' = "done" /\ UNCHANGED beforeSeq
                                        ELSE beforeSeq' = NextBefore(page) /\ UNCHANGED chatWalk
  /\ UNCHANGED <<listVars, chats, nextSeq, wantedChats>>

------------------------------------------------------------------------------
ListNext ==
  \/ Tick \/ Aside \/ Poll \/ Expire \/ ListActiveCursor
  \/ \E s \in Ids : GoLive(s) \/ End(s)

ChatNext ==
  \/ PostChat \/ BeginHistory \/ ChatHistory
  \/ \E n \in 1..MaxSeq : CommitLate(n)

Next == ListNext \/ ChatNext

Spec == Init /\ [][Next]_vars

------------------------------------------------------------------------------
Milli(s) == started[s] \div PerMilli

\* A walk over the live sessions returns nothing twice, and of what was live when
\* its first page was read from the table, for whomever that was, and ever since, it
\* misses only sessions that began in the millisecond of some page's last row: the
\* cursor has forgotten where in it the page ended.
WalkMissesOnlyTies ==
  /\ ~twice
  /\ listWalk = "done" =>
       \A s \in wanted \ seen : \E t \in ends : Milli(s) = Milli(t)

\* A walk back through the chat reads all that was there when it began.
HistoryIsWhole == chatWalk = "done" => wantedChats \subseteq read

\* Neither walk loses a row to the pages, whatever comes and goes meanwhile.
WalksAreWhole == WalkMissesOnlyTies /\ HistoryIsWhole
==============================================================================
