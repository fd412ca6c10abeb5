------------------------------ MODULE LiveRoom ------------------------------
(***************************************************************************)
(* The room of one live session: who watches, follows and likes, which     *)
(* product is pinned, and the stats frames that tell the viewers.  Every   *)
(* change starts a push (publishStatsEvent): it reads the counters, then   *)
(* hands a frame to the hub.  The pushes of join, leave, like, cart-add    *)
(* and follow run in the background, so they overlap and overtake.         *)
(*                                                                         *)
(* early, overtaken, lost, told and silent are history: which pushes had   *)
(* begun to read before a frame that is already out, was an older frame    *)
(* published after a newer one, did a push fail or miss a count, did a     *)
(* frame tell the end, and which fields changed without a push.            *)
(***************************************************************************)
EXTENDS Integers, FiniteSets

CONSTANTS
  Viewers,
  Rows,         \* ids of live_session_products, never used twice
  Pushes,       \* goroutines that run publishStatsEvent
  None,
  MaxPushes     \* bound: pushes ever started

VARIABLES
  status,       \* live_sessions.status
  viewers, follows, likes, cartAdds,
  listed,       \* live_session_products of the session
  deleted,      \* rows that are gone
  pinned,       \* live_sessions.pinned_product_id
  push,         \* where each push is
  started,      \* pushes so far
  frame,        \* what each push has read
  shown,        \* the last frame published
  early, overtaken, lost, told, silent

counters == <<status, viewers, follows, likes, cartAdds>>
products == <<listed, deleted, pinned>>
frames == <<frame, shown, early, overtaken, lost, told>>
vars == <<counters, products, push, started, frames, silent>>

Ended == {"ended", "offline"}

\* What publishStatsEvent marshals: a frame of the session row and two counts.
Stats == [status |-> status, likes |-> likes, cartAdds |-> cartAdds, pinned |-> pinned,
          viewers |-> Cardinality(viewers), follows |-> Cardinality(follows)]

TypeOK ==
  /\ status \in {"live"} \cup Ended
  /\ viewers \in SUBSET Viewers /\ follows \in SUBSET Viewers
  /\ {likes, cartAdds} \subseteq Nat /\ started \in 0..MaxPushes
  /\ listed \in SUBSET Rows /\ deleted \in SUBSET Rows /\ pinned \in listed \cup {None}
  /\ push \in [Pushes -> {"idle", "due", "session", "read"}]
  /\ early \in SUBSET Pushes
  /\ {overtaken, lost, told} \subseteq BOOLEAN /\ silent \subseteq {"pin", "status"}

Init ==
  /\ status = "live" /\ viewers = {} /\ follows = {} /\ likes = 0 /\ cartAdds = 0
  /\ listed = {} /\ deleted = {} /\ pinned = None
  /\ push = [p \in Pushes |-> "idle"] /\ frame = [p \in Pushes |-> None]
  /\ started = 0
  /\ shown = Stats
  /\ early = {} /\ overtaken = FALSE /\ lost = FALSE /\ told = FALSE /\ silent = {}

------------------------------------------------------------------------------
(* The push. *)

\* A request that changed something leaves a push behind.
Push ==
  /\ \E p \in Pushes : push[p] = "idle" /\ push' = [push EXCEPT ![p] = "due"]
  /\ started < MaxPushes /\ started' = started + 1

\* Mutant: the frame carries the status that the request loaded before its change.
ReadEarly(p) ==
  /\ push[p] = "due"
  /\ push' = [push EXCEPT ![p] = "session"]
  /\ frame' = [frame EXCEPT ![p] = [Stats EXCEPT !.status = "live", !.viewers = 0, !.follows = 0]]
  /\ UNCHANGED <<counters, products, started, shown, early, overtaken, lost, told, silent>>

\* GetByID.
ReadStats(p) ==
  /\ push[p] = "due"
  /\ push' = [push EXCEPT ![p] = "session"]
  /\ frame' = [frame EXCEPT ![p] = [Stats EXCEPT !.viewers = 0, !.follows = 0]]
  /\ UNCHANGED <<counters, products, started, shown, early, overtaken, lost, told, silent>>

\* CountViewers and CountFollows; an error leaves a zero in the frame.
CountRows(p) ==
  /\ push[p] = "session"
  /\ push' = [push EXCEPT ![p] = "read"]
  /\ \/ /\ frame' = [frame EXCEPT ![p].viewers = Cardinality(viewers),
                                   ![p].follows = Cardinality(follows)]
        /\ UNCHANGED lost
     \/ lost' = TRUE /\ UNCHANGED frame
  /\ UNCHANGED <<counters, products, started, shown, early, overtaken, told, silent>>

\* The session does not load within two seconds: no frame.
PushFails(p) ==
  /\ push[p] = "due"
  /\ push' = [push EXCEPT ![p] = "idle"]
  /\ lost' = TRUE
  /\ UNCHANGED <<counters, products, started, frame, shown, early, overtaken, told, silent>>

\* hub.Publish.  The other pushes that have begun to read may hold older counters.
PublishStatsEvent(p) ==
  /\ push[p] = "read"
  /\ push' = [push EXCEPT ![p] = "idle"]
  /\ shown' = frame[p]
  /\ told' = (told \/ frame[p].status \in Ended)
  /\ overtaken' = (overtaken \/ p \in early)
  /\ early' = (early \cup {q \in Pushes : push[q] \in {"session", "read"}}) \ {p}
  /\ frame' = [frame EXCEPT ![p] = None]
  /\ UNCHANGED <<counters, products, started, lost, silent>>

------------------------------------------------------------------------------
(* Viewers. *)

\* Mutant: a viewer joins and no push is started.
JoinQuietly(v) ==
  /\ viewers' = viewers \cup {v}
  /\ UNCHANGED <<status, follows, likes, cartAdds, products, push, started, frames, silent>>

\* UpsertViewer; the host is no viewer.
Join(v) ==
  /\ viewers' = viewers \cup {v} /\ Push
  /\ UNCHANGED <<status, follows, likes, cartAdds, products, frames, silent>>

RemoveViewer(v) == viewers' = viewers \ {v}

Leave(v) ==
  /\ RemoveViewer(v) /\ Push
  /\ UNCHANGED <<status, follows, likes, cartAdds, products, frames, silent>>

\* One row per viewer.
UpsertFollow(v) == follows' = follows \cup {v}

TrackFollow(v) ==
  /\ UpsertFollow(v) /\ Push
  /\ UNCHANGED <<status, viewers, likes, cartAdds, products, frames, silent>>

LikeAnon ==
  /\ likes' = likes + 1 /\ Push
  /\ UNCHANGED <<status, viewers, follows, cartAdds, products, frames, silent>>

TrackCartAdd ==
  /\ cartAdds' = cartAdds + 1 /\ Push
  /\ UNCHANGED <<status, viewers, follows, likes, products, frames, silent>>

------------------------------------------------------------------------------
(* The host. *)

\* End and StopSpecSession: the row first, then the push.
End ==
  /\ \E s \in Ended : status' = s
  /\ status = "live" \/ status' = "ended"
  /\ Push
  /\ silent' = silent \ {"status"}
  /\ UNCHANGED <<viewers, follows, likes, cartAdds, products, frames>>

\* on_unpublish, a new live/start and the worker's sweep take the session offline,
\* and so does a live/stop that answers with another open session of the seller's:
\* at most the lists are told (NotifyListChange), never the room.
GoOffline ==
  /\ status = "live" /\ status' = "offline"
  /\ silent' = silent \cup {"status"}
  /\ UNCHANGED <<viewers, follows, likes, cartAdds, products, push, started, frames>>

Fresh == Rows \ (listed \cup deleted)

AddProducts ==
  /\ \E r \in Fresh : listed' = listed \cup {r}
  /\ UNCHANGED <<counters, deleted, pinned, push, started, frames, silent>>

\* ON DELETE SET NULL: the pin goes with its row, and no push tells of it.
Delete(gone) ==
  /\ deleted' = deleted \cup gone
  /\ pinned' = IF pinned \in gone THEN None ELSE pinned
  /\ silent' = IF pinned \in gone THEN silent \cup {"pin"} ELSE silent

RemoveProduct(r) ==
  /\ r \in listed /\ listed' = listed \ {r}
  /\ Delete({r})
  /\ UNCHANGED <<counters, push, started, frames>>

\* Delete and insert in one transaction; the new list may be empty.
ReplaceProducts ==
  /\ \E new \in {{}} \cup {{r} : r \in Fresh} : listed' = new
  /\ Delete(listed)
  /\ UNCHANGED <<counters, push, started, frames>>

\* A row of another session, or one that is gone, is not found.
SetPinnedProduct(r) == r \in listed \cup {None} /\ pinned' = r

PinProduct(r) ==
  /\ SetPinnedProduct(r) /\ Push
  /\ silent' = silent \ {"pin"}
  /\ UNCHANGED <<counters, listed, deleted, frames>>

------------------------------------------------------------------------------
Viewer(v) == Join(v) \/ Leave(v) \/ TrackFollow(v)

HostAction ==
  \/ End \/ GoOffline \/ AddProducts \/ ReplaceProducts
  \/ \E r \in Rows : RemoveProduct(r)
  \/ \E r \in Rows \cup {None} : PinProduct(r)

PushStep(p) == ReadStats(p) \/ CountRows(p) \/ PushFails(p) \/ PublishStatsEvent(p)

Next ==
  \/ LikeAnon \/ TrackCartAdd \/ HostAction
  \/ \E v \in Viewers : Viewer(v)
  \/ \E p \in Pushes : PushStep(p)

Spec == Init /\ [][Next]_vars

------------------------------------------------------------------------------
Settled == \A p \in Pushes : push[p] = "idle"

\* When all pushes are done the viewers have been told that the session was
\* ended, and the last frame is the truth, unless a push failed or an older frame
\* overtook a newer one.  The exceptions are changes that nobody pushes: a pin
\* whose product was removed, a session that went offline without its host.
ViewersAreTold ==
  Settled =>
    /\ status \in Ended => told \/ lost \/ "status" \in silent
    /\ \/ overtaken \/ lost
       \/ /\ [shown EXCEPT !.pinned = pinned, !.status = status] = Stats
          /\ shown.pinned = pinned \/ "pin" \in silent
          /\ shown.status = status \/ "status" \in silent
==============================================================================
