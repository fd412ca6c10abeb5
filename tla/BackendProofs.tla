---------------------------- MODULE BackendProofs ----------------------------
(***************************************************************************)
(* Theorems about the other parts of Backend, for every value of its       *)
(* constants.                                                              *)
(***************************************************************************)
EXTENDS PeopleProofs, TLAPS

------------------------------------------------------------------------------
(* What viewers and clients are told: Room, Player and Middleware. *)

\* While the part moves, its steps are those of LiveRoom.
LEMMA RoomMove ==
  ASSUME [BackendNext]_allVars, part = "room"
  PROVE  part' = "room" /\ [Room!Next]_roomVars
<1>1. CASE BackendNext
  BY <1>1 DEF BackendNext
<1>2. CASE UNCHANGED allVars
  BY <1>2 DEF allVars, roomVars
<1> QED
  BY <1>1, <1>2

\* A stats frame and its fields.
Stats(s, l, c, p, v, f) ==
  [status |-> s, likes |-> l, cartAdds |-> c, pinned |-> p, viewers |-> v, follows |-> f]
IsStats(r) == r = Stats(r.status, r.likes, r.cartAdds, r.pinned, r.viewers, r.follows)

\* A frame with other counts, and with another pin and status.
WithCounts(r, x, y) == [r EXCEPT !.viewers = x, !.follows = y]
WithRow(r, x, y) == [r EXCEPT !.pinned = x, !.status = y]

\* What these are.
LEMMA TwoFields ==
  ASSUME NEW s, NEW l, NEW c, NEW p, NEW v, NEW f, NEW x, NEW y
  PROVE  /\ WithCounts(Stats(s, l, c, p, v, f), x, y) = Stats(s, l, c, p, x, y)
         /\ WithRow(Stats(s, l, c, p, v, f), x, y) = Stats(y, l, c, x, v, f)
<1> DEFINE r == Stats(s, l, c, p, v, f)
<1>1. /\ [r EXCEPT !.viewers = x] = Stats(s, l, c, p, x, f)
      /\ [Stats(s, l, c, p, x, f) EXCEPT !.follows = y] = Stats(s, l, c, p, x, y)
      /\ [r EXCEPT !.pinned = x] = Stats(s, l, c, x, v, f)
      /\ [Stats(s, l, c, x, v, f) EXCEPT !.status = y] = Stats(y, l, c, x, v, f)
  BY DEF Stats
<1> HIDE DEF r
<1>2. /\ WithCounts(r, x, y) = [[r EXCEPT !.viewers = x] EXCEPT !.follows = y]
      /\ WithRow(r, x, y) = [[r EXCEPT !.pinned = x] EXCEPT !.status = y]
  BY DEF WithCounts, WithRow
<1> QED
  BY <1>1, <1>2 DEF r

\* The frame r holds the session row as it is, but for what changed without a push.
RowIsNew(r) ==
  /\ r.likes = roomLikes /\ r.cartAdds = cartAdds
  /\ r.pinned = pinned \/ "pin" \in silent
  /\ r.status = roomStatus \/ "status" \in silent

\* ... and the two counts.
CountsAreNew(r) ==
  /\ r.viewers = Room!Cardinality(viewers) /\ r.follows = Room!Cardinality(roomFollows)

Reading(p) == push[p] \in {"session", "read"}

PushTypes ==
  /\ push \in [Twins -> {"idle", "due", "session", "read"}]
  /\ DOMAIN frame = Twins
  /\ \A p \in Twins : Reading(p) => IsStats(frame[p])
  /\ IsStats(shown)
  /\ early \subseteq {p \in Twins : Reading(p)}

\* Either a frame is out that is new and no other is on its way, or a push has still to
\* read, or one that has read what is new is on its way, or one that will be too late.
LastIsNew ==
  \/ overtaken \/ statsLost
  \/ \E p \in Twins : push[p] = "due"
  \/ early # {}
  \/ \E p \in Twins : Reading(p) /\ RowIsNew(frame[p]) /\ (push[p] = "read" => CountsAreNew(frame[p]))
  \/ RowIsNew(shown) /\ CountsAreNew(shown) /\ \A p \in Twins : ~Reading(p)

\* The end was told, or a push that will tell it is under way.
EndIsTold ==
  roomStatus \in Room!Ended =>
    \/ roomTold \/ statsLost \/ "status" \in silent
    \/ \E p \in Twins : push[p] = "due" \/ (Reading(p) /\ frame[p].status \in Room!Ended)

RoomInv == PushTypes /\ LastIsNew /\ EndIsTold

\* The invariant holds at first.
LEMMA RoomInit == ASSUME Room!Init PROVE RoomInv
BY DEF Room!Init, RoomInv, PushTypes, Reading, IsStats, Stats, LastIsNew, RowIsNew,
       CountsAreNew, EndIsTold, Room!Stats, Room!Ended

\* Whatever changes with a push leaves a push to read it.
LEMMA PushDue ==
  ASSUME RoomInv, Room!Push,
         UNCHANGED <<frame, shown, early, overtaken, statsLost, roomTold>>
  PROVE  RoomInv'
<1> USE DEF RoomInv, PushTypes, Reading, LastIsNew, EndIsTold
<1>1. PICK p \in Twins : push[p] = "idle" /\ push' = [push EXCEPT ![p] = "due"]
  BY DEF Room!Push
<1>2. PushTypes'
  BY <1>1 DEF IsStats
<1>3. push'[p] = "due"
  BY <1>1
<1> QED
  BY <1>2, <1>3

\* A change that no push follows is remembered as silent.
LEMMA SilentChange ==
  ASSUME RoomInv, silent \subseteq silent',
         pinned' = pinned \/ "pin" \in silent', roomStatus' = roomStatus \/ "status" \in silent',
         UNCHANGED <<viewers, roomFollows, roomLikes, cartAdds, push, frame, shown, early,
                     overtaken, statsLost, roomTold>>
  PROVE  RoomInv'
<1> USE DEF RoomInv, PushTypes, Reading, IsStats
<1>1. \A r : RowIsNew(r) => RowIsNew(r)'
  BY DEF RowIsNew
<1>2. \A r : CountsAreNew(r) => CountsAreNew(r)'
  BY DEF CountsAreNew
<1>3. LastIsNew'
  BY <1>1, <1>2 DEF LastIsNew
<1>4. EndIsTold'
  BY DEF EndIsTold
<1> QED
  BY <1>3, <1>4

\* Each step of a viewer, the host or a push keeps the invariant.
LEMMA RoomStep == ASSUME RoomInv, [Room!Next]_roomVars PROVE RoomInv'
<1>1. ASSUME \/ \E v \in Viewers : Room!Viewer(v)
             \/ Room!LikeAnon \/ Room!TrackCartAdd \/ Room!End
             \/ \E r \in RoomRows \cup {None} : Room!PinProduct(r)
      PROVE  RoomInv'
  BY <1>1, PushDue DEF Room!Viewer, Room!Join, Room!Leave, Room!TrackFollow, Room!LikeAnon,
                       Room!TrackCartAdd, Room!End, Room!PinProduct, Room!frames
<1>2. ASSUME \/ Room!GoOffline \/ Room!AddProducts \/ Room!ReplaceProducts
             \/ \E r \in RoomRows : Room!RemoveProduct(r)
      PROVE  RoomInv'
  <2>1. /\ silent \subseteq silent'
        /\ pinned' = pinned \/ "pin" \in silent'
        /\ roomStatus' = roomStatus \/ "status" \in silent'
    BY <1>2 DEF Room!GoOffline, Room!AddProducts, Room!ReplaceProducts, Room!RemoveProduct,
                Room!Delete, Room!counters, Room!products
  <2>2. UNCHANGED <<viewers, roomFollows, roomLikes, cartAdds, push, frame, shown, early,
                    overtaken, statsLost, roomTold>>
    BY <1>2 DEF Room!GoOffline, Room!AddProducts, Room!ReplaceProducts, Room!RemoveProduct,
                Room!frames, Room!counters
  <2> QED
    BY <2>1, <2>2, SilentChange
<1>3. CASE UNCHANGED roomVars
  BY <1>3, SilentChange DEF roomVars
<1> USE DEF RoomInv, PushTypes, Reading, Room!counters, Room!products
<1>4. ASSUME NEW p \in Twins, Room!ReadStats(p) PROVE RoomInv'
  <2> DEFINE new == [Room!Stats EXCEPT !.viewers = 0, !.follows = 0]
  <2>1. /\ frame'[p] = new /\ push'[p] = "session"
        /\ \A q \in Twins \ {p} : frame'[q] = frame[q] /\ push'[q] = push[q]
    BY <1>4 DEF Room!ReadStats
  <2>2. /\ new = Stats(roomStatus, roomLikes, cartAdds, pinned, 0, 0)
        /\ new.status = roomStatus
    <3>1. Room!Stats = Stats(roomStatus, roomLikes, cartAdds, pinned,
                             Room!Cardinality(viewers), Room!Cardinality(roomFollows))
      BY DEF Room!Stats, Stats
    <3>2. new = WithCounts(Room!Stats, 0, 0)
      BY DEF WithCounts
    <3>3. new = Stats(roomStatus, roomLikes, cartAdds, pinned, 0, 0)
      BY <3>1, <3>2, TwoFields
    <3> QED
      BY <3>3 DEF Stats
  <2>3. IsStats(new) /\ RowIsNew(new)
    BY <2>2 DEF IsStats, Stats, RowIsNew
  <2> HIDE DEF new
  <2>4. PushTypes'
    BY <1>4, <2>1, <2>3 DEF Room!ReadStats
  <2>5. LastIsNew'
    <3>1. UNCHANGED <<silent, roomStatus, roomLikes, cartAdds, pinned>>
      BY <1>4 DEF Room!ReadStats
    <3>2. RowIsNew(frame[p])'
      BY <2>1, <2>3, <3>1 DEF RowIsNew
    <3> QED
      BY <2>1, <3>2 DEF LastIsNew
  <2>6. EndIsTold'
    BY <1>4, <2>1, <2>2 DEF Room!ReadStats, EndIsTold
  <2> QED
    BY <2>4, <2>5, <2>6
<1>5. ASSUME NEW p \in Twins, Room!CountRows(p) PROVE RoomInv'
  <2>1. CASE statsLost' /\ UNCHANGED frame
    BY <1>5, <2>1 DEF Room!CountRows, LastIsNew, EndIsTold
  <2>2. CASE UNCHANGED statsLost /\
             frame' = [frame EXCEPT ![p].viewers = Room!Cardinality(viewers),
                                    ![p].follows = Room!Cardinality(roomFollows)]
    <3> DEFINE new == [frame[p] EXCEPT !.viewers = Room!Cardinality(viewers),
                                       !.follows = Room!Cardinality(roomFollows)]
    <3>1. /\ frame'[p] = new /\ push[p] = "session" /\ push'[p] = "read"
          /\ \A q \in Twins \ {p} : frame'[q] = frame[q] /\ push'[q] = push[q]
      BY <1>5, <2>2 DEF Room!CountRows
    <3>2. new = Stats(frame[p].status, frame[p].likes, frame[p].cartAdds, frame[p].pinned,
                      Room!Cardinality(viewers), Room!Cardinality(roomFollows))
      <4>1. new = WithCounts(frame[p], Room!Cardinality(viewers), Room!Cardinality(roomFollows))
        BY DEF WithCounts
      <4>2. IsStats(frame[p])
        BY <3>1
      <4> QED
        BY <4>1, <4>2, TwoFields DEF IsStats
    <3> HIDE DEF new
    <3>3. IsStats(new) /\ new.status = frame[p].status
      BY <3>2 DEF IsStats, Stats
    <3>4. RowIsNew(frame[p]) => RowIsNew(new)
      BY <3>2 DEF Stats, RowIsNew
    <3>5. CountsAreNew(new)
      BY <3>2 DEF Stats, CountsAreNew
    <3>6. PushTypes'
      BY <1>5, <3>1, <3>3 DEF Room!CountRows
    <3>7. /\ \A r : RowIsNew(r) => RowIsNew(r)'
          /\ \A r : CountsAreNew(r) => CountsAreNew(r)'
      BY <1>5 DEF Room!CountRows, RowIsNew, CountsAreNew
    <3>9. LastIsNew'
      BY <1>5, <2>2, <3>1, <3>4, <3>5, <3>7 DEF Room!CountRows, LastIsNew
    <3>8. EndIsTold'
      BY <1>5, <2>2, <3>1, <3>3 DEF Room!CountRows, EndIsTold
    <3> QED
      BY <3>6, <3>8, <3>9
  <2> QED
    BY <1>5, <2>1, <2>2 DEF Room!CountRows
<1>6. ASSUME NEW p \in Twins, Room!PushFails(p) PROVE RoomInv'
  BY <1>6 DEF Room!PushFails, LastIsNew, EndIsTold
<1>7. ASSUME NEW p \in Twins, Room!PublishStatsEvent(p) PROVE RoomInv'
  <2>1. /\ push[p] = "read" /\ push'[p] = "idle"
        /\ \A q \in Twins \ {p} : frame'[q] = frame[q] /\ push'[q] = push[q]
        /\ shown' = frame[p]
        /\ early' = (early \cup {q \in Twins : Reading(q)}) \ {p}
        /\ overtaken' = (overtaken \/ p \in early)
        /\ roomTold' = (roomTold \/ frame[p].status \in Room!Ended)
        /\ UNCHANGED <<statsLost, silent, roomStatus, viewers, roomFollows, roomLikes,
                       cartAdds, pinned>>
    BY <1>7 DEF Room!PublishStatsEvent
  <2>2. PushTypes'
    BY <1>7, <2>1 DEF Room!PublishStatsEvent, IsStats
  <2>3. /\ \A r : RowIsNew(r) => RowIsNew(r)'
        /\ \A r : CountsAreNew(r) => CountsAreNew(r)'
    BY <2>1 DEF RowIsNew, CountsAreNew
  <2>4. LastIsNew'
    <3>1. CASE \E q \in Twins \ {p} : Reading(q)
      BY <2>1, <3>1 DEF LastIsNew
    <3>2. CASE \A q \in Twins \ {p} : ~Reading(q)
      <4>1. CASE overtaken \/ statsLost \/ p \in early \/ \E q \in Twins : push[q] = "due"
        BY <2>1, <4>1 DEF LastIsNew
      <4>2. CASE RowIsNew(frame[p]) /\ CountsAreNew(frame[p])
        <5>1. \A q \in Twins : ~Reading(q)'
          BY <2>1, <3>2
        <5> QED
          BY <2>1, <2>3, <4>2, <5>1 DEF LastIsNew
      <4>3. early # {} => p \in early
        BY <3>2
      <4> QED
        BY <2>1, <3>2, <4>1, <4>2, <4>3 DEF LastIsNew
    <3> QED
      BY <3>1, <3>2
  <2>5. EndIsTold'
    BY <2>1 DEF EndIsTold
  <2> QED
    BY <2>2, <2>4, <2>5
<1> HIDE DEF RoomInv
<1> QED
  BY <1>1, <1>2, <1>3, <1>4, <1>5, <1>6, <1>7
     DEF Room!Next, Room!HostAction, Room!PushStep

\* With no push left the last frame is the truth.
LEMMA RoomHolds == ASSUME RoomInv PROVE Room!ViewersAreTold
<1> SUFFICES ASSUME Room!Settled
             PROVE  /\ roomStatus \in Room!Ended => roomTold \/ statsLost \/ "status" \in silent
                    /\ \/ overtaken \/ statsLost
                       \/ /\ [shown EXCEPT !.pinned = pinned, !.status = roomStatus] = Room!Stats
                          /\ shown.pinned = pinned \/ "pin" \in silent
                          /\ shown.status = roomStatus \/ "status" \in silent
  BY DEF Room!ViewersAreTold
<1>1. \A p \in Twins : push[p] = "idle"
  BY DEF Room!Settled
<1>2. roomStatus \in Room!Ended => roomTold \/ statsLost \/ "status" \in silent
  BY <1>1 DEF RoomInv, EndIsTold, Reading
<1>3. overtaken \/ statsLost \/ (RowIsNew(shown) /\ CountsAreNew(shown))
  BY <1>1 DEF RoomInv, PushTypes, LastIsNew, Reading
<1>4. ASSUME RowIsNew(shown), CountsAreNew(shown)
      PROVE  [shown EXCEPT !.pinned = pinned, !.status = roomStatus] = Room!Stats
  <2>1. [shown EXCEPT !.pinned = pinned, !.status = roomStatus]
          = WithRow(shown, pinned, roomStatus)
    BY DEF WithRow
  <2>2. IsStats(shown)
    BY DEF RoomInv, PushTypes
  <2>3. WithRow(shown, pinned, roomStatus)
          = Stats(roomStatus, shown.likes, shown.cartAdds, pinned, shown.viewers, shown.follows)
    BY <2>2, TwoFields DEF IsStats
  <2>4. Room!Stats = Stats(roomStatus, roomLikes, cartAdds, pinned,
                           Room!Cardinality(viewers), Room!Cardinality(roomFollows))
    BY DEF Room!Stats, Stats
  <2>5. Stats(roomStatus, shown.likes, shown.cartAdds, pinned, shown.viewers, shown.follows)
          = Stats(roomStatus, roomLikes, cartAdds, pinned,
                  Room!Cardinality(viewers), Room!Cardinality(roomFollows))
    BY <1>4 DEF RowIsNew, CountsAreNew
  <2> QED
    BY <2>1, <2>3, <2>4, <2>5
<1> QED
  BY <1>2, <1>3, <1>4 DEF RowIsNew

\* While the part moves, its steps are those of Playback.
LEMMA PlayerMove ==
  ASSUME [BackendNext]_allVars, part = "playback"
  PROVE  part' = "playback" /\ [Player!Next]_playerVars
<1>1. CASE BackendNext
  BY <1>1 DEF BackendNext
<1>2. CASE UNCHANGED allVars
  BY <1>2 DEF allVars, playerVars
<1> QED
  BY <1>1, <1>2

\* Playlists list segments that were there; one that SRS has dropped does not come back.
PlayerInv ==
  /\ head \in Nat
  /\ playStatus = "scheduled" => srs = "idle"
  /\ DOMAIN viewer = Viewers /\ DOMAIN playlist = Viewers /\ DOMAIN missed = Viewers
  /\ \A v \in Viewers :
       /\ \A l \in playlist[v] :
            \/ l = Player!ProxiedSelf
            \/ \E n \in 1..head : l = Player!Proxied(n)
       /\ missed[v] \subseteq 1..head
  /\ Player!PlaysWhatIsListed

\* Each step of the stream or a viewer keeps it.
LEMMA PlayerStep == ASSUME PlayerInv, [Player!Next]_playerVars PROVE PlayerInv'
<1> USE BackendAssumption
    DEF PlayerInv, Player!PlaysWhatIsListed, Player!viewerVars
<1>1. ASSUME Player!Publish \/ Player!End \/ Player!Disconnect \/ Player!Dispose
      PROVE  PlayerInv'
  BY <1>1 DEF Player!Publish, Player!End, Player!Disconnect, Player!Dispose,
              Player!ServedIsPlayable, Player!TrailingSegmentsPlay, Player!Kept
<1>2. CASE Player!NewSegment
  <2>1. head' = head + 1 /\ UNCHANGED <<playStatus, srs, viewer, playlist, missed>>
    BY <1>2 DEF Player!NewSegment
  <2>2. 1..head \subseteq 1..head'
    BY <2>1
  <2>3. Player!TrailingSegmentsPlay'
    <3> SUFFICES ASSUME NEW v \in Viewers, NEW n \in missed[v] PROVE n \notin Player!Kept'
      BY <2>1 DEF Player!TrailingSegmentsPlay
    <3> QED
      BY <2>1 DEF Player!TrailingSegmentsPlay, Player!Kept
  <2> QED
    BY <2>1, <2>2, <2>3 DEF Player!ServedIsPlayable
<1>3. ASSUME NEW v \in Viewers, Player!Ask(v) \/ Player!PollFails(v)
      PROVE  PlayerInv'
  BY <1>3 DEF Player!Ask, Player!PollFails, Player!ServedIsPlayable,
              Player!TrailingSegmentsPlay, Player!Kept
<1>4. ASSUME NEW v \in Viewers, Player!Poll(v)
      PROVE  PlayerInv'
  <2>1. /\ UNCHANGED <<playStatus, srs, head, missed>>
        /\ viewer[v] = "polling"
    BY <1>4 DEF Player!Poll
  <2>2. PICK answer \in Player!Upstream : Player!Serve(v, answer) \/ Player!AskAgain(v, answer)
    BY <1>4 DEF Player!Poll
  <2>3. CASE Player!AskAgain(v, answer)
    BY <2>1, <2>3 DEF Player!AskAgain, Player!ServedIsPlayable, Player!TrailingSegmentsPlay,
                      Player!Kept
  <2>4. CASE Player!Serve(v, answer)
    <3> DEFINE lines == Player!RewriteHLSManifest(answer)
    <3>1. answer = {Player!Segment(n) : n \in Player!Kept} /\ answer # {}
      BY <2>2, <2>4 DEF Player!Upstream, Player!Serve, Player!IsSRSPlaceholderMaster
    <3>2. Player!Kept \subseteq 1..head
      BY DEF Player!Kept
    <3>3. \A l \in lines : \E n \in 1..head : l = Player!Proxied(n)
      <4>1. lines = {Player!Proxied(n) : n \in Player!Kept}
        <5>1. \A n : /\ Player!Segment(n).path = "segment"
                     /\ Player!Proxied(Player!Segment(n).seq) = Player!Proxied(n)
          BY DEF Player!Segment
        <5> QED
          BY <3>1, <5>1 DEF Player!RewriteHLSManifest
      <4> QED
        BY <3>2, <4>1
    <3>4. \E l \in lines : TRUE
      BY <3>1 DEF Player!RewriteHLSManifest
    <3>5. \A n : Player!Proxied(n).path = "s"
      BY DEF Player!Proxied
    <3>6. /\ viewer' = [viewer EXCEPT ![v] = "watching"]
          /\ playlist' = [playlist EXCEPT ![v] = lines]
      BY <2>4 DEF Player!Serve
    <3> HIDE DEF lines
    <3>7. Player!ServedIsPlayable'
      BY <3>3, <3>4, <3>5, <3>6 DEF Player!ServedIsPlayable
    <3>8. Player!TrailingSegmentsPlay'
      BY <2>1 DEF Player!TrailingSegmentsPlay, Player!Kept
    <3> QED
      BY <2>1, <3>3, <3>6, <3>7, <3>8
  <2> QED
    BY <2>2, <2>3, <2>4
<1>5. ASSUME NEW v \in Viewers, Player!Fetch(v)
      PROVE  PlayerInv'
  <2>1. PICK l \in playlist[v] :
          l.path = "s" /\ (Player!HlsSegment(v, l.seq) \/ UNCHANGED missed)
    BY <1>5 DEF Player!Fetch
  <2>2. l.seq \in 1..head
    BY <2>1 DEF Player!Proxied, Player!ProxiedSelf
  <2>3. UNCHANGED <<playStatus, srs, head, viewer, playlist>>
    BY <1>5 DEF Player!Fetch
  <2>4. \/ missed' = missed
        \/ l.seq \notin Player!Kept /\ missed' = [missed EXCEPT ![v] = @ \cup {l.seq}]
    BY <2>1 DEF Player!HlsSegment
  <2>5. Player!TrailingSegmentsPlay'
    BY <2>3, <2>4 DEF Player!TrailingSegmentsPlay, Player!Kept
  <2> QED
    BY <2>2, <2>3, <2>4, <2>5 DEF Player!ServedIsPlayable
<1>6. CASE UNCHANGED playerVars
  BY <1>6 DEF playerVars, Player!ServedIsPlayable, Player!TrailingSegmentsPlay, Player!Kept
<1> HIDE DEF PlayerInv
<1> QED
  BY <1>1, <1>2, <1>3, <1>4, <1>5, <1>6 DEF Player!Next

\* While the part moves, its steps are those of Envelope.
LEMMA MiddlewareMove ==
  ASSUME [BackendNext]_allVars, part = "envelope"
  PROVE  part' = "envelope" /\ [Middleware!Next]_middlewareVars
<1>1. CASE BackendNext
  BY <1>1 DEF BackendNext
<1>2. CASE UNCHANGED allVars
  BY <1>2 DEF allVars, middlewareVars
<1> QED
  BY <1>1, <1>2

Answer(s, b) == [status |-> s, body |-> b]

\* What the handler or the guard has written when it is done,
IsWritten(a) ==
  /\ act = "json" => a = Answer(200, "data")
  /\ act = "no_content" => a = Answer(204, "none")
  /\ act = "redirect" => a = Answer(302, "page")
  /\ act = "page" => a = Answer(200, "page")
  /\ act = "refuse" => a = Answer(401, "error")
  /\ act = "too_large" => a = Answer(413, "error")
  /\ act = "upgrade" => a = Answer(200, "frames")
  /\ act \in {"not_found", "unknown_error", "unmatched"} => a = Middleware!Nothing

\* the error it has left instead,
IsLeft(e) ==
  /\ act = "not_found" => e = 404
  /\ act = "unknown_error" => e = 500
  /\ act \notin {"not_found", "unknown_error"} => e = NoStatus

\* what the error handler makes of it,
IsMended(a) ==
  /\ act = "not_found" => a = Answer(404, "error")
  /\ act = "unknown_error" => a = Answer(500, "error")
  /\ act \notin {"not_found", "unknown_error"} => IsWritten(a)

\* and what the envelope does.
IsWrapped(a) ==
  /\ act = "json" => a = Answer(200, "success")
  /\ act = "no_content" => a = Answer(204, "none")
  /\ act \in {"redirect", "page"} => IsMended(a)
  /\ act = "refuse" => a = Answer(401, "failure")
  /\ act = "too_large" => a = Answer(413, "failure")
  /\ act = "not_found" => a = Answer(404, "failure")
  /\ act = "unknown_error" => a = Answer(500, "failure")
  /\ act = "unmatched" => a = Answer(200, "success")

IsFinal(a) == /\ route = "wrapped" => IsWrapped(a)
              /\ route = "bare" => IsMended(a)

\* Where the answer is written on each kind of route.
Here == IF route = "wrapped" THEN buffer ELSE sent
InPlace == /\ route = "wrapped" => captured /\ sent = Middleware!Nothing
           /\ route = "bare" => ~captured

\* gin answers a path without a route itself, unless the envelope has done so.
Lost == act = "unmatched" /\ route = "bare"

\* The answer at each stage of the request.
MiddlewareInv ==
  /\ route \in {"wrapped", "bare"} /\ act \in Middleware!Acts
  /\ at \in {"in", "handler", "errors", "envelope", "audit", "over", "panicking"}
  /\ act = "upgrade" => route = "bare"
  /\ hijacked => act = "upgrade"
  /\ at \in {"errors", "envelope", "audit"} => act # "panic"
  /\ at = "panicking" => act = "panic"
  /\ at = "in" => buffer = Middleware!Nothing /\ sent = Middleware!Nothing
  /\ at \in {"in", "handler"} => errors = NoStatus
  /\ at = "errors" => IsLeft(errors)
  /\ at \in {"handler", "errors", "envelope", "panicking"} => InPlace
  /\ at \in {"handler", "panicking"} => Here = Middleware!Nothing
  /\ at = "errors" => IsWritten(Here)
  /\ at = "envelope" => IsMended(Here)
  /\ at = "audit" => IsFinal(sent)
  /\ at = "over" /\ act # "panic" /\ ~Lost => IsFinal(sent) /\ logged = sent.status
  /\ at = "over" /\ Lost => logged = 404 /\ sent \in {Middleware!Nothing, Answer(404, "page")}
  /\ at = "over" /\ act = "panic" /\ route = "bare" => sent.status = 500
  /\ at = "over" /\ act = "panic" /\ route = "wrapped" =>
       sent \in {Middleware!Nothing, Answer(200, "none")}

\* The status and the body of each answer.
LEMMA Answered ==
  /\ \A s, b : Answer(s, b).status = s /\ Answer(s, b).body = b
  /\ Middleware!Nothing = Answer(NoStatus, "none")
  /\ \A s, b, t : [Answer(s, b) EXCEPT !.status = t] = Answer(t, b)
  /\ \A s, b, c : [Answer(s, b) EXCEPT !.body = c] = Answer(s, c)
<1>1. \A s, b : Answer(s, b).status = s /\ Answer(s, b).body = b
  BY DEF Answer
<1> QED
  BY <1>1 DEF Answer, Middleware!Nothing

\* What the envelope makes of a mended answer.
LEMMA Wrapping ==
  ASSUME NEW a, IsMended(a), act \in Middleware!Acts, act \notin {"panic", "upgrade", "unmatched"}
  PROVE  /\ a.status # NoStatus
         /\ [a EXCEPT !.status = a.status] = a
         /\ IsWrapped(Middleware!OnWire(Middleware!BuildEnvelope(a)))
<1>1. \A s, b : s # 302 /\ b # "page" /\ s # 204 =>
        Middleware!OnWire(Middleware!BuildEnvelope(Answer(s, b)))
          = Answer(s, IF Middleware!Success(s) THEN "success" ELSE "failure")
  BY Answered DEF Middleware!OnWire, Middleware!BuildEnvelope, Answer
<1>2. \A s, b : s # 204 /\ (s = 302 \/ b = "page") =>
        Middleware!OnWire(Middleware!BuildEnvelope(Answer(s, b))) = Answer(s, b)
  BY Answered DEF Middleware!OnWire, Middleware!BuildEnvelope
<1>3. Middleware!OnWire(Middleware!BuildEnvelope(Answer(204, "none"))) = Answer(204, "none")
  BY Answered DEF Middleware!OnWire, Middleware!BuildEnvelope, Answer
<1>4. /\ Middleware!Success(200) /\ ~Middleware!Success(401) /\ ~Middleware!Success(413)
      /\ ~Middleware!Success(404) /\ ~Middleware!Success(500)
  BY DEF Middleware!Success
<1>5. \/ a = Answer(200, "data") \/ a = Answer(204, "none") \/ a = Answer(302, "page")
      \/ a = Answer(200, "page") \/ a = Answer(401, "error") \/ a = Answer(413, "error")
      \/ a = Answer(404, "error") \/ a = Answer(500, "error")
  BY DEF IsMended, IsWritten, Middleware!Acts
<1>6. a.status # NoStatus /\ [a EXCEPT !.status = a.status] = a
  <2>1. PICK s, b : a = Answer(s, b) /\ s \in {200, 204, 302, 401, 404, 413, 500}
    BY <1>5
  <2>2. s # NoStatus
    BY <2>1, BackendAssumption
  <2> QED
    BY <2>1, <2>2, Answered
<1>7. CASE act \in {"json", "refuse", "too_large", "not_found", "unknown_error"}
  <2>1. CASE act = "json"
    BY <2>1, <1>1, <1>4, <1>6 DEF IsMended, IsWritten, IsWrapped
  <2>2. CASE act = "refuse"
    BY <2>2, <1>1, <1>4, <1>6 DEF IsMended, IsWritten, IsWrapped
  <2>3. CASE act = "too_large"
    BY <2>3, <1>1, <1>4, <1>6 DEF IsMended, IsWritten, IsWrapped
  <2>4. CASE act = "not_found"
    BY <2>4, <1>1, <1>4, <1>6 DEF IsMended, IsWritten, IsWrapped
  <2>5. CASE act = "unknown_error"
    BY <2>5, <1>1, <1>4, <1>6 DEF IsMended, IsWritten, IsWrapped
  <2> QED
    BY <1>7, <2>1, <2>2, <2>3, <2>4, <2>5
<1>8. CASE act \in {"redirect", "page", "no_content"}
  <2>1. CASE act = "redirect"
    BY <2>1, <1>2, <1>6 DEF IsMended, IsWritten, IsWrapped
  <2>2. CASE act = "page"
    BY <2>2, <1>2, <1>6 DEF IsMended, IsWritten, IsWrapped
  <2>3. CASE act = "no_content"
    BY <2>3, <1>3, <1>6 DEF IsMended, IsWritten, IsWrapped
  <2> QED
    BY <1>8, <2>1, <2>2, <2>3
<1> QED
  BY <1>6, <1>7, <1>8 DEF Middleware!Acts

\* What is written lands in the buffer of a wrapped route, and on the wire of a
\* bare one.
LEMMA Writing ==
  ASSUME NEW s, NEW b, Middleware!Write(s, b), InPlace, Here = Middleware!Nothing,
         route' = route, captured' = captured, route \in {"wrapped", "bare"}
  PROVE  InPlace' /\ Here' = Answer(s, b)
<1>1. CASE route = "wrapped"
  BY <1>1 DEF Middleware!Write, InPlace, Here, Answer
<1>2. CASE route = "bare"
  BY <1>2 DEF Middleware!Write, InPlace, Here, Answer, Middleware!Nothing
<1> QED
  BY <1>1, <1>2

\* Whatever is final was answered, but for the path gin answers itself.
LEMMA FinalStatus ==
  ASSUME IsFinal(sent), ~Lost, act # "panic", act \in Middleware!Acts,
         route \in {"wrapped", "bare"}, act = "upgrade" => route = "bare"
  PROVE  sent.status # NoStatus
<1>1. PICK s, b : sent = Answer(s, b) /\ s \in {200, 204, 302, 401, 404, 413, 500}
  BY DEF IsFinal, IsWrapped, IsMended, IsWritten, Middleware!Acts, Lost
<1>2. s # NoStatus
  BY <1>1, BackendAssumption
<1> QED
  BY <1>1, <1>2, Answered

\* Each step of the request keeps it.
LEMMA MiddlewareStep ==
  ASSUME MiddlewareInv, [Middleware!Next]_middlewareVars
  PROVE  MiddlewareInv'
<1>0. route' = route /\ act' = act
  BY DEF Middleware!Next, middlewareVars, Middleware!Wrap, Middleware!Refuse,
         Middleware!TooLarge, Middleware!Handle, Middleware!Respond, Middleware!Raise,
         Middleware!Upgrade, Middleware!NoRoute, Middleware!Panic, Middleware!ErrorHandler,
         Middleware!EnvelopeWrapper, Middleware!AuditLog, Middleware!Recovery,
         Middleware!Finish
<1>00. /\ \A a : IsWritten(a)' <=> IsWritten(a)
       /\ \A a : IsMended(a)' <=> IsMended(a)
       /\ \A a : IsFinal(a)' <=> IsFinal(a)
  BY <1>0 DEF IsWritten, IsMended, IsWrapped, IsFinal
<1> USE <1>0, <1>00 DEF MiddlewareInv
<1>1. CASE UNCHANGED middlewareVars
  <2>0. Lost' <=> Lost
    BY DEF Lost
  <2>1. UNCHANGED <<at, captured, buffer, hijacked, errors, sent, logged>>
    BY <1>1 DEF middlewareVars
  <2>2. (InPlace' <=> InPlace) /\ Here' = Here /\ (IsLeft(errors)' <=> IsLeft(errors))
    BY <2>1 DEF InPlace, Here, IsLeft
  <2>3. /\ IsWritten(Here)' <=> IsWritten(Here)
        /\ IsMended(Here)' <=> IsMended(Here)
        /\ IsFinal(sent)' <=> IsFinal(sent)
    BY <2>1, <2>2 DEF IsWritten, IsMended, IsWrapped, IsFinal
  <2> QED
    BY <2>0, <2>1, <2>2, <2>3
<1>2. CASE Middleware!Wrap
  BY <1>2 DEF Middleware!Wrap, Middleware!SkipEnvelope, InPlace, Here
<1>3. ASSUME NEW s, NEW b, Middleware!Respond(s, b), IsWritten(Answer(s, b)),
             act \notin {"panic", "not_found", "unknown_error", "unmatched"}
      PROVE  MiddlewareInv'
  <2>1. /\ at = "handler" /\ at' = "errors" /\ Middleware!Write(s, b)
        /\ UNCHANGED <<captured, hijacked, errors, logged>>
    BY <1>3 DEF Middleware!Respond
  <2>2. InPlace' /\ Here' = Answer(s, b)
    BY <2>1, Writing
  <2>3. IsWritten(Here)'
    <3> HIDE DEF MiddlewareInv
    <3> QED
      BY <1>3, <2>2 DEF IsWritten
  <2> QED
    BY <1>3, <2>1, <2>2, <2>3 DEF IsLeft
<1>4. ASSUME Middleware!Refuse \/ Middleware!TooLarge \/ Middleware!Handle
      PROVE  MiddlewareInv'
  <2> HIDE DEF MiddlewareInv
  <2> QED
    <3>1. CASE Middleware!Refuse
      BY <1>3, <3>1 DEF Middleware!Refuse, IsWritten
    <3>2. CASE Middleware!TooLarge
      BY <1>3, <3>2 DEF Middleware!TooLarge, IsWritten
    <3>3. CASE Middleware!Handle
      BY <1>3, <3>3 DEF Middleware!Handle, IsWritten
    <3> QED
      BY <1>4, <3>1, <3>2, <3>3
<1>5. CASE Middleware!Upgrade
  BY <1>5 DEF Middleware!Upgrade, IsWritten, Answer, InPlace, Here, IsLeft
<1>6. CASE Middleware!Raise
  <2>1. /\ act \in {"not_found", "unknown_error"} /\ at = "handler" /\ at' = "errors"
        /\ errors' = IF act = "not_found" THEN 404 ELSE 500
        /\ UNCHANGED <<captured, buffer, hijacked, sent>>
    BY <1>6 DEF Middleware!Raise
  <2>2. IsLeft(errors')
    BY <2>1 DEF IsLeft
  <2>3. InPlace' /\ Here' = Middleware!Nothing
    BY <2>1 DEF InPlace, Here
  <2>4. IsWritten(Here)'
    BY <2>1, <2>3 DEF IsWritten
  <2> QED
    BY <2>1, <2>2, <2>3, <2>4 DEF IsLeft
<1>7. CASE Middleware!Panic
  BY <1>7 DEF Middleware!Panic, InPlace, Here
<1>13. CASE Middleware!NoRoute
  <2>1. /\ act = "unmatched" /\ at = "handler" /\ at' = "errors"
        /\ UNCHANGED <<captured, buffer, hijacked, errors, sent>>
    BY <1>13 DEF Middleware!NoRoute
  <2>2. InPlace' /\ Here' = Middleware!Nothing
    BY <2>1 DEF InPlace, Here
  <2>3. IsWritten(Here)' /\ IsLeft(errors')
    BY <2>1, <2>2 DEF IsWritten, IsLeft
  <2> QED
    BY <2>1, <2>2, <2>3 DEF IsLeft
<1>8. CASE Middleware!ErrorHandler
  <2>1. /\ at = "errors" /\ at' = "envelope"
        /\ UNCHANGED <<captured, hijacked, errors, logged>>
    BY <1>8 DEF Middleware!ErrorHandler
  <2>2. CASE errors = NoStatus
    <3>1. UNCHANGED <<buffer, sent>>
      BY <1>8, <2>2 DEF Middleware!ErrorHandler
    <3>2. act \notin {"not_found", "unknown_error"}
      BY <2>1, <2>2, BackendAssumption DEF IsLeft
    <3>3. InPlace' /\ Here' = Here
      BY <2>1, <3>1 DEF InPlace, Here
    <3>4. IsMended(Here)'
      BY <2>1, <3>2, <3>3 DEF IsMended
    <3> QED
      BY <2>1, <3>3, <3>4
  <2>3. CASE errors # NoStatus
    <3>1. Middleware!Write(errors, "error") /\ act \in {"not_found", "unknown_error"}
      BY <1>8, <2>1, <2>3 DEF Middleware!ErrorHandler, IsLeft
    <3>2. Here = Middleware!Nothing
      BY <2>1, <3>1 DEF IsWritten
    <3>3. InPlace' /\ Here' = Answer(errors, "error")
      BY <2>1, <3>1, <3>2, Writing
    <3>4. IsMended(Here)'
      BY <2>1, <3>1, <3>3 DEF IsMended, IsLeft
    <3> QED
      BY <2>1, <3>3, <3>4
  <2> QED
    BY <2>2, <2>3
<1>9. CASE Middleware!EnvelopeWrapper
  <2>1. at = "envelope" /\ at' = "audit" /\ UNCHANGED <<hijacked, errors, logged>>
    BY <1>9 DEF Middleware!EnvelopeWrapper
  <2>2. CASE route = "wrapped"
    <3>0. CASE act = "unmatched"
      <4>1. captured /\ ~hijacked /\ buffer = Answer(NoStatus, "none")
        BY <2>1, <2>2, <3>0, Answered DEF InPlace, Here, IsMended, IsWritten
      <4>2. [buffer EXCEPT !.status = IF @ = NoStatus THEN 200 ELSE @] = Answer(200, "none")
        BY <4>1, Answered
      <4>3. sent' = Middleware!OnWire(Middleware!BuildEnvelope(Answer(200, "none")))
        BY <1>9, <4>1, <4>2 DEF Middleware!EnvelopeWrapper
      <4>4. sent' = Answer(200, "success")
        BY <4>3, Answered
           DEF Middleware!OnWire, Middleware!BuildEnvelope, Middleware!Success, Answer
      <4>5. IsFinal(sent')
        BY <2>2, <3>0, <4>4 DEF IsFinal, IsWrapped
      <4> QED
        BY <2>1, <4>5
    <3> SUFFICES ASSUME act # "unmatched" PROVE MiddlewareInv'
      BY <3>0
    <3>1. captured /\ ~hijacked /\ act \notin {"panic", "upgrade"} /\ IsMended(buffer)
      BY <2>1, <2>2 DEF InPlace, Here
    <3>2. buffer.status # NoStatus /\ [buffer EXCEPT !.status = buffer.status] = buffer
      BY <3>1, Wrapping
    <3>3. sent' = Middleware!OnWire(Middleware!BuildEnvelope(buffer))
      BY <1>9, <3>1, <3>2 DEF Middleware!EnvelopeWrapper
    <3>4. IsFinal(sent')
      BY <2>2, <3>1, <3>3, Wrapping DEF IsFinal
    <3> QED
      BY <2>1, <3>4
  <2>3. CASE route = "bare"
    BY <1>9, <2>1, <2>3 DEF Middleware!EnvelopeWrapper, IsFinal, InPlace, Here
  <2> QED
    BY <2>2, <2>3
<1>10. CASE Middleware!AuditLog
  <2>1. /\ at = "audit" /\ at' = "over" /\ sent' = sent /\ act # "panic"
        /\ logged' = IF sent.status = NoStatus THEN Middleware!Preset ELSE sent.status
        /\ IsFinal(sent) /\ (Lost' <=> Lost)
    BY <1>10 DEF Middleware!AuditLog, Lost
  <2>2. CASE Lost
    <3>1. sent = Middleware!Nothing
      BY <2>1, <2>2 DEF Lost, IsFinal, IsMended, IsWritten
    <3>2. logged' = 404
      BY <2>1, <2>2, <3>1, Answered DEF Lost, Middleware!Preset
    <3> QED
      BY <1>10, <2>1, <2>2, <3>1, <3>2 DEF Middleware!AuditLog
  <2>3. CASE ~Lost
    <3>1. sent.status # NoStatus
      BY <2>1, <2>3, FinalStatus
    <3> QED
      BY <1>10, <2>1, <2>3, <3>1 DEF Middleware!AuditLog
  <2> QED
    BY <2>2, <2>3
<1>11. CASE Middleware!Recovery
  <2>1. /\ at = "panicking" /\ at' = "over" /\ Middleware!Write(500, "none")
        /\ UNCHANGED <<captured, hijacked, errors, logged>>
    BY <1>11 DEF Middleware!Recovery
  <2>2. Here' = Answer(500, "none")
    BY <2>1, Writing
  <2>3. route = "bare" => sent'.status = 500
    BY <2>2, Answered DEF Here
  <2>4. ~Lost'
    BY <2>1 DEF Lost
  <2>5. route = "wrapped" => sent' = Middleware!Nothing
    BY <2>1 DEF Middleware!Write, InPlace
  <2> QED
    BY <2>1, <2>3, <2>4, <2>5
<1>12. CASE Middleware!Finish
  <2>1. at = "over" /\ sent.status = NoStatus
    BY <1>12 DEF Middleware!Finish
  <2>10. CASE Lost
    <3>1. /\ sent' = Answer(404, "page")
          /\ UNCHANGED <<at, captured, buffer, hijacked, errors, logged>>
      BY <1>12, <2>10 DEF Middleware!Finish, Middleware!Preset, Lost, Answer
    <3>2. Lost'
      BY <2>10 DEF Lost
    <3> QED
      BY <2>1, <2>10, <3>1, <3>2 DEF Lost
  <2>11. SUFFICES ASSUME ~Lost PROVE MiddlewareInv'
    BY <2>10
  <2>2. act = "panic" /\ route = "wrapped"
    <3>1. CASE act # "panic"
      BY <2>1, <2>11, <3>1, FinalStatus
    <3>2. CASE act = "panic" /\ route = "bare"
      BY <2>1, <3>2, BackendAssumption
    <3> QED
      BY <3>1, <3>2
  <2>3. ~Lost'
    BY <2>2 DEF Lost
  <2>4. sent' = Answer(200, "none")
    BY <1>12, <2>2 DEF Middleware!Finish, Middleware!Preset, Answer
  <2> QED
    BY <1>12, <2>1, <2>2, <2>3, <2>4 DEF Middleware!Finish
<1> QED
  BY <1>1, <1>2, <1>4, <1>5, <1>6, <1>7, <1>8, <1>9, <1>10, <1>11, <1>12,
     <1>13 DEF Middleware!Next

\* What it says of an answer that has arrived.
LEMMA MiddlewareHolds == ASSUME MiddlewareInv PROVE Middleware!AnswersAreTrue
<1> SUFFICES ASSUME at = "over", sent.status # NoStatus
             PROVE  Middleware!FailuresAreSeen /\ Middleware!AnswersArrive
  BY DEF Middleware!AnswersAreTrue, Middleware!FailuresAreSeen, Middleware!AnswersArrive,
         Middleware!Over
<1> USE DEF MiddlewareInv, Middleware!FailuresAreSeen, Middleware!AnswersArrive,
            Middleware!Masked
<1>0. /\ \A s, b : Answer(s, b).status = s /\ Answer(s, b).body = b
      /\ Middleware!Success(200) /\ Middleware!Success(204) /\ Middleware!Success(302)
  BY Answered DEF Middleware!Success
<1>1. CASE act = "panic"
  <2>1. route = "wrapped" => sent = Answer(200, "none")
    BY <1>1, Answered
  <2> QED
    BY <1>0, <1>1, <2>1 DEF Answer
<1>10. CASE act = "unmatched"
  <2>1. route = "bare" => sent = Answer(404, "page") /\ logged = 404
    BY <1>10, Answered DEF Lost
  <2>2. route = "wrapped" => sent = Answer(200, "success")
    BY <1>10 DEF Lost, IsFinal, IsWrapped
  <2> QED
    BY <1>0, <1>10, <2>1, <2>2 DEF Answer
<1>2. ASSUME act \notin {"panic", "unmatched"}
      PROVE  IsFinal(sent) /\ logged = sent.status
  BY <1>2 DEF Lost
<1>3. CASE act \in {"json", "no_content", "redirect", "page", "upgrade"}
  <2>1. Middleware!FailuresAreSeen
    BY <1>3 DEF Middleware!Failures
  <2> QED
    BY <1>0, <1>2, <1>3, <2>1 DEF IsFinal, IsWrapped, IsMended, IsWritten, Answer
<1>4. CASE act = "not_found"
  BY <1>0, <1>2, <1>4 DEF IsFinal, IsWrapped, IsMended
<1>5. CASE act = "unknown_error"
  BY <1>0, <1>2, <1>5 DEF IsFinal, IsWrapped, IsMended
<1>6. CASE act = "refuse"
  BY <1>0, <1>2, <1>6 DEF IsFinal, IsWrapped, IsMended, IsWritten
<1>7. CASE act = "too_large"
  BY <1>0, <1>2, <1>7 DEF IsFinal, IsWrapped, IsMended, IsWritten
<1> QED
  BY <1>1, <1>10, <1>3, <1>4, <1>5, <1>6, <1>7 DEF Middleware!Acts

\* The invariants of the three parts, each while its part moves.
ToldInv ==
  /\ part = "room" => RoomInv
  /\ part = "playback" => PlayerInv
  /\ part = "envelope" => MiddlewareInv

\* ToldInv holds in every state of the API.
LEMMA ToldAlways == BackendSpec => []ToldInv
<1>1. BackendInit => ToldInv
  <2> SUFFICES ASSUME BackendInit PROVE ToldInv
    OBVIOUS
  <2>1. RoomInv
    <3>1. Room!Init BY DEF BackendInit
    <3> QED BY <3>1, RoomInit
  <2>2. PlayerInv
    <3>1. Player!Init BY DEF BackendInit
    <3> QED BY <3>1, BackendAssumption
         DEF Player!Init, PlayerInv, Player!PlaysWhatIsListed, Player!ServedIsPlayable,
             Player!TrailingSegmentsPlay
  <2>3. MiddlewareInv
    <3>1. Middleware!Init BY DEF BackendInit
    <3> QED BY <3>1 DEF Middleware!Init, MiddlewareInv
  <2> QED
    BY <2>1, <2>2, <2>3 DEF ToldInv
<1>2. ToldInv /\ [BackendNext]_allVars => ToldInv'
  <2> SUFFICES ASSUME ToldInv, [BackendNext]_allVars PROVE ToldInv'
    OBVIOUS
  <2>0. part' = part
    BY PartStays
  <2>1. CASE part = "room"
    BY <2>0, <2>1, RoomMove, RoomStep DEF ToldInv
  <2>2. CASE part = "playback"
    BY <2>0, <2>2, PlayerMove, PlayerStep DEF ToldInv
  <2>3. CASE part = "envelope"
    BY <2>0, <2>3, MiddlewareMove, MiddlewareStep DEF ToldInv
  <2> QED
    BY <2>0, <2>1, <2>2, <2>3 DEF ToldInv
<1> QED
  BY <1>1, <1>2, PTL DEF BackendSpec

\* Viewers are told of every change of the room, are listed only segments that play
\* or were trimmed behind them, and every request gets an answer that says how it
\* went, for any viewers, pushes and segments, and whatever stands for "no status".
THEOREM ViewersLearn == BackendSpec => []ViewersAreTold
<1>1. ToldInv => ViewersAreTold
  BY RoomHolds, MiddlewareHolds DEF ToldInv, ViewersAreTold, PlayerInv
<1> QED
  BY <1>1, ToldAlways, PTL

------------------------------------------------------------------------------
(* Redis and the signed URLs: Redis and Signer. *)

\* While the part moves, its steps are those of the cache ...
LEMMA CacheMove ==
  ASSUME [BackendNext]_allVars, part = "cache"
  PROVE  [Redis!CacheNext]_cacheVars
<1>1. CASE BackendNext
  BY <1>1 DEF BackendNext
<1>2. CASE UNCHANGED allVars
  BY <1>2 DEF allVars, cacheVars
<1> QED
  BY <1>1, <1>2

\* ... those of the limiter ...
LEMMA LimitMove ==
  ASSUME [BackendNext]_allVars, part = "limiter"
  PROVE  [Redis!LimitNext]_limitVars
<1>1. CASE BackendNext
  BY <1>1 DEF BackendNext
<1>2. CASE UNCHANGED allVars
  BY <1>2 DEF allVars, limitVars
<1> QED
  BY <1>1, <1>2

\* ... and those of UrlTokens.
LEMMA SignerMove ==
  ASSUME [BackendNext]_allVars, part = "tokens"
  PROVE  [Signer!Next]_signerVars
<1>1. CASE BackendNext
  BY <1>1 DEF BackendNext
<1>2. CASE UNCHANGED allVars
  BY <1>2 DEF allVars, signerVars
<1> QED
  BY <1>1, <1>2

\* A writer holds keys only while it deletes: all it found is still to be deleted,
\* and what it has not scanned yet it will.
WriterTypes ==
  /\ writer \in [Writers -> Redis!WriterAt]
  /\ DOMAIN entry = Pages
  /\ \A w \in Writers : /\ writer[w].at = "idle" => writer[w] = Redis!IdleWriter
                        /\ writer[w].at = "scan" => writer[w].found = {}

CacheInv == WriterTypes /\ Redis!StaleIsExplained

\* The invariant holds at first.
LEMMA CacheInit == ASSUME Redis!Init PROVE CacheInv
BY DEF Redis!Init, CacheInv, WriterTypes, Redis!WriterAt, Redis!IdleWriter,
       Redis!StaleIsExplained, Redis!Stale

\* Each step of a reader, a writer or the time to live keeps it.
LEMMA CacheStep ==
  ASSUME CacheInv, [Redis!CacheNext]_cacheVars
  PROVE  CacheInv'
<1> USE DEF CacheInv, WriterTypes, Redis!StaleIsExplained, Redis!Stale, Redis!SweepAhead
<1>1. ASSUME NEW r \in Twins, (\E k \in Pages : Redis!Get(r, k)) \/ Redis!Load(r)
      PROVE  CacheInv'
  BY <1>1 DEF Redis!Get, Redis!Load
<1>2. ASSUME NEW r \in Twins, Redis!Store(r)
      PROVE  CacheInv'
  BY <1>2 DEF Redis!Store
<1>3. CASE Redis!UpdateElsewhere
  BY <1>3 DEF Redis!UpdateElsewhere
<1>4. ASSUME NEW w \in Writers, Redis!Update(w)
      PROVE  CacheInv'
  BY <1>4 DEF Redis!Update, Redis!WriterAt
<1>5. ASSUME NEW w \in Writers, Redis!Scan(w)
      PROVE  CacheInv'
  BY <1>5 DEF Redis!Scan, Redis!WriterAt
<1>6. ASSUME NEW w \in Writers, Redis!Del(w)
      PROVE  CacheInv'
  <2> DEFINE gone == writer[w].found
  <2>1. /\ writer[w].at = "del" /\ UNCHANGED table
        /\ entry' = [k \in Pages |-> IF k \in gone THEN NoEntry ELSE entry[k]]
        /\ staleStored' = staleStored \ gone /\ unswept' = unswept \ gone
        /\ writer' = [writer EXCEPT ![w] =
             IF writer[w].left = {} THEN Redis!IdleWriter
             ELSE [writer[w] EXCEPT !.at = "scan", !.found = {}]]
    BY <1>6 DEF Redis!Del
  <2>2. WriterTypes'
    <3>1. CASE writer[w].left = {}
      BY <2>1, <3>1 DEF Redis!WriterAt, Redis!IdleWriter
    <3>2. CASE writer[w].left # {}
      <4> DEFINE next == [writer[w] EXCEPT !.at = "scan", !.found = {}]
      <4>1. next \in Redis!WriterAt /\ next.at = "scan" /\ next.found = {}
        BY DEF Redis!WriterAt
      <4>2. writer' = [writer EXCEPT ![w] = next]
        BY <2>1, <3>2
      <4> HIDE DEF next
      <4> QED
        BY <2>1, <4>1, <4>2
    <3> QED
      BY <3>1, <3>2
  <2>3. ASSUME NEW k \in Pages, Redis!Stale(k)'
        PROVE  k \notin gone /\ Redis!Stale(k)
    BY <2>1, <2>3
  <2>4. ASSUME NEW k \in Pages, k \notin gone, Redis!SweepAhead(k)
        PROVE  Redis!SweepAhead(k)'
    <3>1. PICK x \in Writers : k \in writer[x].left \cup writer[x].found
      BY <2>4
    <3>2. k \in writer'[x].left \cup writer'[x].found
      BY <2>1, <2>4, <3>1 DEF Redis!WriterAt, Redis!IdleWriter
    <3> QED
      BY <3>2
  <2>5. ASSUME NEW k \in Pages, Redis!Stale(k)'
        PROVE  Redis!SweepAhead(k)' \/ k \in staleStored' \/ k \in unswept'
    BY <2>1, <2>3, <2>4, <2>5
  <2> QED
    BY <2>2, <2>5
<1>7. ASSUME NEW w \in Writers, Redis!InvalidateFails(w)
      PROVE  CacheInv'
  BY <1>7 DEF Redis!InvalidateFails, Redis!WriterAt, Redis!IdleWriter
<1>8. ASSUME NEW k \in Pages, Redis!Expire(k)
      PROVE  CacheInv'
  BY <1>8 DEF Redis!Expire
<1>9. CASE UNCHANGED cacheVars
  BY <1>9 DEF cacheVars
<1> HIDE DEF CacheInv
<1> QED
  BY <1>1, <1>2, <1>3, <1>4, <1>5, <1>6, <1>7, <1>8, <1>9
     DEF Redis!CacheNext, Redis!ReadSide, Redis!WriteSide

\* A key that an instance signs with is with SRS, and so is the key of every URL
\* until it expires: no URL outlives the key's last use by more than its time to live.
SignerInv ==
  /\ tokenClock \in Nat
  /\ lastUse \in [Sales -> Nat]
  /\ DOMAIN up = Twins /\ config \in [Twins -> Signer!Configs] /\ srsKeys \subseteq Sales
  /\ \A i \in Twins : up[i] => Signer!Starts(config[i])
  /\ \A k \in Sales : Signer!InUse(k) => k \in srsKeys
  /\ \A t \in signedUrls :
       /\ t.kid \in Sales /\ t.expire \in Nat
       /\ tokenClock <= t.expire => t.kid \in srsKeys
       /\ Signer!InUse(t.kid) \/ t.expire <= lastUse[t.kid] + TTL
       /\ t.expire <= tokenClock + TTL
  /\ ~unasked

\* Each step of an instance, the operator or the clock keeps it.
LEMMA SignerStep ==
  ASSUME SignerInv, [Signer!Next]_signerVars
  PROVE  SignerInv'
<1> USE BackendAssumption DEF SignerInv
<1>1. CASE Signer!Tick
  BY <1>1 DEF Signer!Tick, Signer!InUse, Signer!Enabled, Signer!Starts, Signer!SigningOff
<1>2. ASSUME NEW i \in Twins, Signer!Deploy(i)
      PROVE  SignerInv'
  <2>1. PICK keys \in {srsKeys, {}}, kid \in Sales \cup {NoKid} :
          LET c == [keys |-> keys, current |-> kid] IN
          /\ config' = [config EXCEPT ![i] = IF Signer!Starts(c) THEN c ELSE Signer!NoConfig]
          /\ up' = [up EXCEPT ![i] = Signer!Starts(c)]
    BY <1>2 DEF Signer!Deploy
  <2>2. /\ lastUse' = [k \in Sales |-> IF Signer!InUse(k) THEN tokenClock ELSE lastUse[k]]
        /\ UNCHANGED <<tokenClock, srsKeys, signedUrls, unasked>>
    BY <1>2 DEF Signer!Deploy
  <2>0. config' \in [Twins -> Signer!Configs]
    BY <2>1 DEF Signer!Configs, Signer!NoConfig
  <2>3. /\ DOMAIN up' = Twins
        /\ \A j \in Twins : up'[j] => Signer!Starts(config'[j])
    BY <2>1
  <2>4. \A k \in Sales : Signer!InUse(k)' => k \in srsKeys'
    BY <2>1, <2>2 DEF Signer!InUse, Signer!Enabled
  <2>5. \A t \in signedUrls : t.expire <= lastUse'[t.kid] + TTL
    BY <2>2
  <2>6. lastUse' \in [Sales -> Nat]
    BY <2>2
  <2> QED
    BY <2>0, <2>2, <2>3, <2>4, <2>5, <2>6
<1>3. ASSUME NEW i \in Twins, Signer!Sign(i)
      PROVE  SignerInv'
  <2>1. up[i] /\ UNCHANGED <<tokenClock, srsKeys, config, up, lastUse>>
    BY <1>3 DEF Signer!Sign
  <2>2. \A k : Signer!InUse(k)' <=> Signer!InUse(k)
    BY <2>1 DEF Signer!InUse, Signer!Enabled
  <2>3. CASE Signer!Enabled(config[i])
    <3> DEFINE t == [kid |-> config[i].current, expire |-> tokenClock + TTL]
    <3>1. signedUrls' = signedUrls \cup {t} /\ unasked' = unasked
      BY <1>3, <2>3 DEF Signer!Sign
    <3>2. Signer!InUse(t.kid)
      BY <2>1, <2>3 DEF Signer!InUse
    <3>3. t.expire \in Nat /\ t.expire = tokenClock + TTL /\ t.kid \in Sales
      BY <2>3 DEF Signer!Enabled, Signer!Configs
    <3> HIDE DEF t
    <3> QED
      BY <2>1, <2>2, <3>1, <3>2, <3>3
  <2>4. CASE ~Signer!Enabled(config[i])
    <3>1. Signer!SigningOff(config[i])
      BY <2>1, <2>4 DEF Signer!Starts
    <3>2. unasked' = (unasked \/ ~Signer!SigningOff(config[i])) /\ signedUrls' = signedUrls
      BY <1>3, <2>4 DEF Signer!Sign
    <3>3. ~unasked'
      BY <3>1, <3>2, Zenon
    <3> QED
      BY <2>1, <2>2, <3>2, <3>3
  <2> QED
    BY <2>3, <2>4
<1>4. ASSUME NEW k \in Sales, Signer!IntroduceKey(k) \/ Signer!RetireKey(k)
      PROVE  SignerInv'
  <2>1. UNCHANGED <<tokenClock, config, up, lastUse, signedUrls, unasked>>
    BY <1>4 DEF Signer!IntroduceKey, Signer!RetireKey
  <2>2. \A j : Signer!InUse(j)' <=> Signer!InUse(j)
    BY <2>1 DEF Signer!InUse, Signer!Enabled
  <2>3. \/ srsKeys' = srsKeys \cup {k}
        \/ srsKeys' = srsKeys \ {k} /\ ~Signer!InUse(k) /\ tokenClock > lastUse[k] + TTL
    BY <1>4 DEF Signer!IntroduceKey, Signer!RetireKey
  <2>4. \A t \in signedUrls : tokenClock <= t.expire => t.kid \in srsKeys'
    BY <2>3
  <2>5. srsKeys' \subseteq Sales /\ \A j \in Sales : Signer!InUse(j) => j \in srsKeys'
    BY <2>3
  <2> QED
    BY <2>1, <2>2, <2>4, <2>5
<1>5. CASE UNCHANGED signerVars
  BY <1>5 DEF signerVars, Signer!InUse, Signer!Enabled, Signer!Starts, Signer!SigningOff
<1> HIDE DEF SignerInv
<1> QED
  BY <1>1, <1>2, <1>3, <1>4, <1>5 DEF Signer!Next

\* The requests of S in the window that ends at t.
InWindow(S, t) == {p \in S : p[1] \in (t - Window + 1)..t}

\* The requests let through because a script said so.
Granted == passed \ unanswered

\* A request is on its way or has been answered, since each has its own number; and
\* who fails closed lets no request through without an answer.
NumberInv ==
  /\ requests \in Nat
  /\ \A p \in stamped \cup passed \cup unanswered : p[2] \in Nat /\ p[2] <= requests
  /\ stamped \cap (passed \cup unanswered) = {} /\ hits \subseteq passed \cup unanswered
  /\ failClosed => passed \cap unanswered = {}

\* As long as the scripts run in the order of their times, the ZSET holds every
\* request so let through that the window of the latest one reaches.
LimitInv ==
  /\ passed \subseteq (0..MaxTick) \X Nat /\ IsFiniteSet(passed) /\ IsFiniteSet(hits)
  /\ stamped \subseteq (0..MaxTick) \X Nat /\ swept \in 0..MaxTick
  /\ tick \in 0..MaxTick /\ NumberInv
  /\ ~reordered =>
       /\ \A p \in Granted : p[1] <= swept /\ (p[1] > swept - Window => p \in hits)
       /\ \A t \in 0..MaxTick : Cardinality(InWindow(Granted, t)) <= Limit

\* The limiter's Cardinality is that of FiniteSets.
LEMMA WindowSize == ASSUME NEW S PROVE Redis!Cardinality(S) = Cardinality(S)
BY DEF Redis!Cardinality, Cardinality

\* The invariant holds at first.
LEMMA LimitInit == ASSUME Redis!Init PROVE LimitInv
<1>1. /\ passed = {} /\ hits = {} /\ stamped = {} /\ unanswered = {}
      /\ swept = 0 /\ tick = 0 /\ requests = 0
  BY DEF Redis!Init
<1>2. Granted = {} /\ \A t : InWindow(Granted, t) = {}
  BY <1>1 DEF InWindow, Granted
<1> QED
  <2>1. /\ IsFiniteSet(passed) /\ passed \subseteq (0..MaxTick) \X Nat
        /\ IsFiniteSet(hits) /\ stamped \subseteq (0..MaxTick) \X Nat
        /\ swept \in 0..MaxTick /\ tick \in 0..MaxTick /\ NumberInv
    BY <1>1, FS_EmptySet, BackendAssumption DEF NumberInv
  <2>2. \A t : Cardinality(InWindow(Granted, t)) <= Limit
    <3>1. Limit \in Nat
      BY BackendAssumption
    <3> QED
      BY <1>1, <1>2, <3>1, FS_EmptySet
  <2> QED
    BY <1>2, <2>1, <2>2 DEF LimitInv

\* A window of the requests let through so far is a finite set.
LEMMA WindowFinite ==
  ASSUME NEW S, IsFiniteSet(S), NEW t
  PROVE  IsFiniteSet(InWindow(S, t)) /\ Cardinality(InWindow(S, t)) \in Nat
<1>1. InWindow(S, t) \subseteq S
  BY DEF InWindow
<1> QED
  BY <1>1, FS_Subset, FS_CardinalityType

\* A script that runs in its turn, let through because fewer than Limit are kept,
\* overfills no window.
LEMMA AllowFits ==
  ASSUME NEW S, S \subseteq (0..MaxTick) \X Nat, IsFiniteSet(S),
         NEW t \in 0..MaxTick, NEW n \in Nat,
         \A p \in S : p[1] <= t,
         \A u \in 0..MaxTick : Cardinality(InWindow(S, u)) <= Limit,
         NEW K, IsFiniteSet(K), {p \in S : p[1] > t - Window} \subseteq K, Cardinality(K) < Limit,
         NEW u \in 0..MaxTick
  PROVE  Cardinality(InWindow(S \cup {<<t, n>>}, u)) <= Limit
<1>0. Limit \in Nat /\ Window \in Nat /\ MaxTick \in Nat
  BY BackendAssumption
<1> USE <1>0
<1> DEFINE request == <<t, n>>
<1>1. request[1] = t
  OBVIOUS
<1>2. CASE t \in (u - Window + 1)..u
  <2>1. InWindow(S \cup {request}, u) \subseteq K \cup {request}
    <3> SUFFICES ASSUME NEW p \in S, p[1] \in (u - Window + 1)..u PROVE p[1] > t - Window
      BY DEF InWindow
    <3>1. p[1] \in Int /\ u >= t
      BY <1>2
    <3> QED
      BY <3>1
  <2>3. IsFiniteSet(K) /\ Cardinality(K) \in Nat
    BY FS_CardinalityType
  <2>4. IsFiniteSet(K \cup {request}) /\ Cardinality(K \cup {request}) <= Cardinality(K) + 1
    <3>1. /\ IsFiniteSet(K \cup {request})
          /\ \/ Cardinality(K \cup {request}) = Cardinality(K)
             \/ Cardinality(K \cup {request}) = Cardinality(K) + 1
      <4> HIDE DEF request
      <4> QED
        BY <2>3, FS_AddElement, Zenon
    <3> QED
      BY <2>3, <3>1
  <2>5. /\ Cardinality(InWindow(S \cup {request}, u)) <= Cardinality(K \cup {request})
        /\ Cardinality(InWindow(S \cup {request}, u)) \in Nat
        /\ Cardinality(K \cup {request}) \in Nat
    <3> DEFINE W == InWindow(S \cup {request}, u)
    <3>1. W \in SUBSET (K \cup {request}) /\ IsFiniteSet(K \cup {request})
      BY <2>1, <2>4, Zenon
    <3> HIDE DEF W, request
    <3>2. IsFiniteSet(W) /\ Cardinality(W) <= Cardinality(K \cup {request})
      BY <3>1, FS_Subset
    <3> QED
      BY <3>1, <3>2, FS_CardinalityType DEF W
  <2> QED
    BY <2>3, <2>4, <2>5
<1>3. CASE t \notin (u - Window + 1)..u
  <2>1. InWindow(S \cup {request}, u) = InWindow(S, u)
    BY <1>1, <1>3 DEF InWindow
  <2> QED
    BY <2>1
<1> QED
  BY <1>2, <1>3

\* A script counts the request when fewer than Limit are kept; in its turn it keeps
\* all that its window reaches.
LEMMA ScriptRuns ==
  ASSUME LimitInv, NEW q \in stamped, Redis!Script(q)
  PROVE  /\ IsFiniteSet(hits') /\ hits' \subseteq hits \cup {q} /\ swept' \in 0..MaxTick
         /\ IsFiniteSet(Redis!Kept(q[1]))
         /\ q \in hits' => Cardinality(Redis!Kept(q[1])) < Limit
         /\ ~reordered' =>
              /\ ~reordered /\ swept' = q[1]
              /\ \A p \in Granted : p[1] <= q[1] /\ (p[1] > q[1] - Window => p \in hits')
              /\ {p \in Granted : p[1] > q[1] - Window} \subseteq Redis!Kept(q[1])
<1>0. Limit \in Nat /\ Window \in Nat /\ MaxTick \in Nat
  BY BackendAssumption
<1> USE <1>0
<1> DEFINE K == Redis!Kept(q[1])
<1>1. /\ hits' = IF Cardinality(K) < Limit THEN K \cup {q} ELSE K
      /\ swept' = IF q[1] > swept THEN q[1] ELSE swept
      /\ reordered' = (reordered \/ q[1] < swept)
  BY WindowSize DEF Redis!Script
<1>2. K \in SUBSET hits /\ IsFiniteSet(K) /\ q[1] \in 0..MaxTick
  <2>1. K \in SUBSET hits
    BY DEF Redis!Kept
  <2> QED
    BY <2>1, FS_Subset DEF LimitInv
<1>3. IsFiniteSet(hits') /\ hits' \in {K, K \cup {q}}
  <2> HIDE DEF K
  <2>1. IsFiniteSet(K \cup {q})
    BY <1>2, FS_AddElement
  <2> QED
    BY <1>1, <1>2, <2>1
<1>4. swept' \in 0..MaxTick
  BY <1>1, <1>2 DEF LimitInv
<1>5. ASSUME ~reordered'
      PROVE  /\ ~reordered /\ swept' = q[1]
             /\ \A p \in Granted : p[1] <= q[1] /\ (p[1] > q[1] - Window => p \in K)
  <2>1. ~reordered /\ ~(q[1] < swept)
    BY <1>1, <1>5, Zenon
  <2>2. swept' = q[1]
    BY <1>1, <1>2, <2>1 DEF LimitInv
  <2>3. ASSUME NEW p \in Granted
        PROVE  p[1] <= q[1] /\ (p[1] > q[1] - Window => p \in K)
    <3>1. /\ p[1] \in Int /\ swept \in Int /\ p[1] <= swept
          /\ (p[1] > swept - Window => p \in hits)
      BY <2>1 DEF LimitInv, Granted
    <3>2. p[1] > q[1] - Window => p \in hits
      BY <1>2, <2>1, <3>1
    <3> QED
      BY <1>2, <2>1, <3>1, <3>2 DEF Redis!Kept
  <2> QED
    BY <2>1, <2>2, <2>3
<1>6. q \in hits' => Cardinality(K) < Limit
  <2>1. q \notin hits
    BY DEF LimitInv, NumberInv
  <2> QED
    BY <1>1, <1>2, <2>1
<1> HIDE DEF K
<1> QED
  BY <1>2, <1>3, <1>4, <1>5, <1>6 DEF K

\* Each step of the clock, a request or its script keeps it.
LEMMA LimitStep ==
  ASSUME LimitInv, [Redis!LimitNext]_limitVars
  PROVE  LimitInv'
<1>0. Limit \in Nat /\ Window \in Nat /\ MaxTick \in Nat
  BY BackendAssumption
<1> USE <1>0
<1>1. CASE Redis!Tick \/ Redis!Stamp \/ UNCHANGED limitVars
  <2>1. UNCHANGED <<failClosed, hits, passed, unanswered, swept, reordered>>
    BY <1>1 DEF Redis!Tick, Redis!Stamp, limitVars
  <2>2. \/ tick' \in {tick, tick + 1} /\ tick' <= MaxTick /\ UNCHANGED <<requests, stamped>>
        \/ tick' = tick /\ requests' = requests + 1
           /\ stamped' = stamped \cup {<<tick, requests + 1>>}
    BY <1>1 DEF Redis!Tick, Redis!Stamp, limitVars, LimitInv
  <2>3. tick' \in 0..MaxTick /\ stamped' \subseteq (0..MaxTick) \X Nat
    BY <2>2 DEF LimitInv, NumberInv
  <2>4. NumberInv'
    <3>1. CASE UNCHANGED <<requests, stamped>>
      BY <2>1, <3>1 DEF LimitInv, NumberInv
    <3>2. CASE requests' = requests + 1 /\ stamped' = stamped \cup {<<tick, requests + 1>>}
      <4> DEFINE q == <<tick, requests + 1>>
      <4>1. q[2] = requests + 1 /\ requests \in Nat
        BY DEF LimitInv, NumberInv
      <4>2. \A p \in stamped \cup passed \cup unanswered : p[2] \in Nat /\ p[2] <= requests
        BY DEF LimitInv, NumberInv
      <4>3. q \notin passed \cup unanswered
        BY <4>1, <4>2
      <4>4. \A p \in stamped \cup passed \cup unanswered : p[2] <= requests'
        BY <3>2, <4>1, <4>2
      <4> HIDE DEF q
      <4> QED
        BY <2>1, <3>2, <4>1, <4>3, <4>4 DEF LimitInv, NumberInv, q
    <3> QED
      BY <2>2, <3>1, <3>2
  <2>5. Granted' = Granted
    BY <2>1 DEF Granted
  <2> QED
    BY <2>1, <2>3, <2>4, <2>5 DEF LimitInv, InWindow
<1>2. ASSUME NEW q \in stamped, Redis!AllowFails(q)
      PROVE  LimitInv'
  <2>1. /\ stamped' = stamped \ {q} /\ unanswered' = unanswered \cup {q}
        /\ passed' = IF failClosed THEN passed ELSE passed \cup {q}
        /\ UNCHANGED <<failClosed, tick, requests>>
        /\ Redis!Script(q) \/ UNCHANGED <<hits, swept, reordered>>
    BY <1>2 DEF Redis!AllowFails, Redis!Arrive
  <2>2. /\ q \in (0..MaxTick) \X Nat /\ q \notin passed \cup unanswered
        /\ q[2] \in Nat /\ q[2] <= requests
        /\ hits' \subseteq hits \cup {q}
    BY <2>1, ScriptRuns DEF LimitInv, NumberInv
  <2>3. passed' \in {passed, passed \cup {q}} /\ Granted' = Granted
    BY <2>1, <2>2 DEF Granted
  <2>4. IsFiniteSet(passed') /\ passed' \subseteq (0..MaxTick) \X Nat
    <3>1. IsFiniteSet(passed) /\ IsFiniteSet(passed \cup {q})
      BY FS_AddElement DEF LimitInv
    <3> QED
      BY <2>2, <2>3, <3>1 DEF LimitInv
  <2>5. NumberInv'
    BY <2>1, <2>2 DEF LimitInv, NumberInv
  <2>6. CASE Redis!Script(q)
    <3>1. /\ IsFiniteSet(hits') /\ swept' \in 0..MaxTick
          /\ ~reordered' =>
               /\ ~reordered /\ swept' = q[1]
               /\ \A p \in Granted : p[1] <= q[1] /\ (p[1] > q[1] - Window => p \in hits')
      BY <2>6, ScriptRuns
    <3> QED
      BY <2>1, <2>3, <2>4, <2>5, <3>1 DEF LimitInv, InWindow
  <2>7. CASE UNCHANGED <<hits, swept, reordered>>
    BY <2>1, <2>3, <2>4, <2>5, <2>7 DEF LimitInv, InWindow
  <2> QED
    BY <2>1, <2>6, <2>7
<1>3. ASSUME NEW q \in stamped, Redis!Allow(q)
      PROVE  LimitInv'
  <2> DEFINE K == Redis!Kept(q[1])
  <2>1. /\ stamped' = stamped \ {q} /\ Redis!Script(q)
        /\ passed' = IF q \in hits' THEN passed \cup {q} ELSE passed
        /\ UNCHANGED <<failClosed, tick, requests, unanswered>>
    BY <1>3 DEF Redis!Allow, Redis!Arrive
  <2>2. /\ q \in (0..MaxTick) \X Nat /\ q \notin passed \cup unanswered
        /\ q[2] \in Nat /\ q[2] <= requests
        /\ hits' \subseteq hits \cup {q} /\ IsFiniteSet(hits') /\ swept' \in 0..MaxTick
        /\ IsFiniteSet(K) /\ (q \in hits' => Cardinality(K) < Limit)
    BY <2>1, ScriptRuns DEF LimitInv, NumberInv
  <2>3. IsFiniteSet(passed') /\ passed' \subseteq (0..MaxTick) \X Nat
    <3>1. IsFiniteSet(passed) /\ IsFiniteSet(passed \cup {q})
      BY FS_AddElement DEF LimitInv
    <3> QED
      BY <2>1, <2>2, <3>1 DEF LimitInv
  <2>4. NumberInv'
    BY <2>1, <2>2 DEF LimitInv, NumberInv
  <2>5. Granted' = IF q \in hits' THEN Granted \cup {q} ELSE Granted
    BY <2>1, <2>2 DEF Granted
  <2>6. ASSUME ~reordered'
        PROVE  /\ \A p \in Granted' : p[1] <= swept' /\ (p[1] > swept' - Window => p \in hits')
               /\ \A u \in 0..MaxTick : Cardinality(InWindow(Granted', u)) <= Limit
    <3>1. /\ ~reordered /\ swept' = q[1] /\ q[1] \in 0..MaxTick
          /\ \A p \in Granted : p[1] <= q[1] /\ (p[1] > q[1] - Window => p \in hits')
          /\ {p \in Granted : p[1] > q[1] - Window} \subseteq K
      BY <2>1, <2>2, <2>6, ScriptRuns
    <3>2. \A p \in Granted' : p[1] <= swept' /\ (p[1] > swept' - Window => p \in hits')
      BY <2>5, <3>1
    <3>3. CASE q \notin hits'
      BY <2>5, <3>1, <3>2, <3>3 DEF LimitInv
    <3>4. CASE q \in hits'
      <4>1. /\ Granted \subseteq (0..MaxTick) \X Nat /\ IsFiniteSet(Granted)
            /\ \A u \in 0..MaxTick : Cardinality(InWindow(Granted, u)) <= Limit
        <5>1. Granted \in SUBSET passed
          BY DEF Granted
        <5> QED
          BY <3>1, <5>1, FS_Subset DEF LimitInv
      <4>2. q[2] \in Nat /\ q = <<q[1], q[2]>> /\ q[1] \in 0..MaxTick
        BY <2>2
      <4> HIDE DEF K
      <4>3. \A u \in 0..MaxTick : Cardinality(InWindow(Granted \cup {<<q[1], q[2]>>}, u)) <= Limit
        BY <2>2, <3>1, <3>4, <4>1, <4>2, AllowFits
      <4> QED
        BY <2>5, <3>2, <3>4, <4>2, <4>3
    <3> QED
      BY <3>3, <3>4
  <2> QED
    BY <2>1, <2>2, <2>3, <2>4, <2>6 DEF LimitInv
<1> QED
  BY <1>1, <1>2, <1>3 DEF Redis!LimitNext

\* The invariants of the parts, each while its part moves.
EdgeInv ==
  /\ part = "cache" => CacheInv
  /\ part = "limiter" => LimitInv
  /\ part = "tokens" => SignerInv

\* EdgeInv holds in every state of the API.
LEMMA EdgeAlways == BackendSpec => []EdgeInv
<1>1. BackendInit => EdgeInv
  <2> SUFFICES ASSUME BackendInit PROVE EdgeInv
    OBVIOUS
  <2>1. Redis!Init /\ Signer!Init
    BY DEF BackendInit
  <2>2. SignerInv
    BY <2>1 DEF Signer!Init, SignerInv, Signer!Configs, Signer!NoConfig, Signer!InUse
  <2> QED
    BY <2>1, <2>2, CacheInit, LimitInit DEF EdgeInv
<1>2. EdgeInv /\ [BackendNext]_allVars => EdgeInv'
  <2> SUFFICES ASSUME EdgeInv, [BackendNext]_allVars PROVE EdgeInv'
    OBVIOUS
  <2>0. part' = part
    BY PartStays
  <2>1. CASE part = "cache"
    BY <2>0, <2>1, CacheMove, CacheStep DEF EdgeInv
  <2>2. CASE part = "limiter"
    BY <2>0, <2>2, LimitMove, LimitStep DEF EdgeInv
  <2>3. CASE part = "tokens"
    BY <2>0, <2>3, SignerMove, SignerStep DEF EdgeInv
  <2> QED
    BY <2>0, <2>1, <2>2, <2>3 DEF EdgeInv
<1> QED
  BY <1>1, <1>2, PTL DEF BackendSpec

\* Redis serves what Postgres no longer says only for a reason the code accepts, the
\* limiter's windows hold, and no signed URL is refused before it expires, for any
\* number of readers, writers, instances and keys, and any limit, window and time to live.
THEOREM EdgeKeeps == BackendSpec => []EdgeHolds
<1>1. EdgeInv => EdgeHolds
  <2>1. LimitInv => Redis!WindowHolds
    <3>1. ASSUME LimitInv, ~reordered, NEW t \in 0..MaxTick
          PROVE  Redis!Cardinality(InWindow(Granted, t)) <= Limit
      BY <3>1, WindowSize DEF LimitInv
    <3>2. LimitInv => (failClosed => passed \cap unanswered = {})
      BY DEF LimitInv, NumberInv
    <3> QED
      BY <3>1, <3>2 DEF Redis!WindowHolds, InWindow, Granted
  <2>2. SignerInv => Signer!TokensHold
    BY DEF SignerInv, Signer!TokensHold, Signer!RotationIsSeamless,
           Signer!UnsignedWasAskedFor, Signer!Verify
  <2> QED
    BY <2>1, <2>2 DEF EdgeInv, EdgeHolds, CacheInv
<1> QED
  BY <1>1, EdgeAlways, PTL

------------------------------------------------------------------------------
(* What gifts and rows of the cart cost: Gifts and Market. *)

\* While the part moves, its steps are those of Gifts ...
LEMMA GiftsMove ==
  ASSUME [BackendNext]_allVars, part = "gifts"
  PROVE  [Gifts!Next]_giftVars
<1>1. CASE BackendNext
  BY <1>1 DEF BackendNext
<1>2. CASE UNCHANGED allVars
  BY <1>2 DEF allVars, giftVars
<1> QED
  BY <1>1, <1>2

\* ... and those of Market.
LEMMA MarketMove ==
  ASSUME [BackendNext]_allVars, part = "market"
  PROVE  [Market!Next]_marketVars
<1>1. CASE BackendNext
  BY <1>1 DEF BackendNext
<1>2. CASE UNCHANGED allVars
  BY <1>2 DEF allVars, marketVars
<1> QED
  BY <1>1, <1>2

\* The Cardinality of Gifts is that of FiniteSets.
LEMMA GiftSizes == ASSUME NEW S PROVE Gifts!Cardinality(S) = Cardinality(S)
BY DEF Gifts!Cardinality, Cardinality

\* A further column of n cells adds n to a finite set.
LEMMA ColumnAdds ==
  ASSUME NEW A, IsFiniteSet(A), NEW g, NEW n \in Nat, A \cap ({g} \X (1..n)) = {}
  PROVE  Cardinality(A \cup ({g} \X (1..n))) = Cardinality(A) + n
<1>1. IsFiniteSet({g}) /\ Cardinality({g}) = 1
  BY FS_Singleton
<1>2. IsFiniteSet(1..n) /\ Cardinality(1..n) = n
  BY FS_Interval
<1>3. IsFiniteSet({g} \X (1..n)) /\ Cardinality({g} \X (1..n)) = n
  <2>1. /\ IsFiniteSet({g} \X (1..n))
        /\ Cardinality({g} \X (1..n)) = Cardinality({g}) * Cardinality(1..n)
    BY <1>1, <1>2, FS_Product
  <2>2. 1 * n = n
    OBVIOUS
  <2> QED
    BY <1>1, <1>2, <2>1, <2>2, Zenon
<1>4. Cardinality({}) = 0 /\ Cardinality(A) \in Nat
  BY FS_EmptySet, FS_CardinalityType
<1>5. Cardinality(A \cup ({g} \X (1..n)))
        = Cardinality(A) + Cardinality({g} \X (1..n)) - Cardinality(A \cap ({g} \X (1..n)))
  BY <1>3, FS_Union
<1>6. Cardinality(A \cup ({g} \X (1..n))) = Cardinality(A) + n - 0
  BY <1>3, <1>4, <1>5
<1> QED
  BY <1>4, <1>6

\* What a set of gifts has cost is a number, and a further gift adds its total.
LEMMA GiftAdds ==
  ASSUME NEW G, IsFiniteSet(G), NEW n \in Nat, n <= MaxCredit,
         NEW g, g \notin G, g.total = n
  PROVE  /\ Cardinality(Gifts!PointsOf(G)) \in Nat
         /\ Cardinality(Gifts!PointsOf(G \cup {g})) = Cardinality(Gifts!PointsOf(G)) + n
<1>1. MaxCredit \in Nat /\ 1 \in Int /\ MaxCredit \in Int
  BY BackendAssumption
<1>2. IsFiniteSet(G \X (1..MaxCredit))
  <2>1. IsFiniteSet(1..MaxCredit)
    BY <1>1, FS_Interval
  <2> QED
    BY <2>1, FS_Product
<1>3. Gifts!PointsOf(G) \in SUBSET (G \X (1..MaxCredit))
  BY DEF Gifts!PointsOf
<1>4. IsFiniteSet(Gifts!PointsOf(G)) /\ Cardinality(Gifts!PointsOf(G)) \in Nat
  BY <1>2, <1>3, FS_Subset, FS_CardinalityType
<1>5. Gifts!PointsOf(G \cup {g}) = Gifts!PointsOf(G) \cup ({g} \X (1..n))
  BY <1>1 DEF Gifts!PointsOf
<1>6. Gifts!PointsOf(G) \cap ({g} \X (1..n)) = {}
  BY DEF Gifts!PointsOf
<1> QED
  <2> DEFINE A == Gifts!PointsOf(G)
  <2> HIDE DEF A
  <2>1. IsFiniteSet(A) /\ A \cap ({g} \X (1..n)) = {}
    BY <1>4, <1>6 DEF A
  <2>2. Cardinality(A \cup ({g} \X (1..n))) = Cardinality(A) + n
    BY <2>1, ColumnAdds
  <2> QED
    BY <1>4, <1>5, <2>2, Zenon DEF A

\* The gifts a sender has paid for.
From(u) == {g \in gifts : g.sender = u}

\* A call holds its sender's row from the check of the balance to the commit, so that
\* the balance it checked is the one it charges.
GiftInv ==
  /\ points \in [Users -> Nat \cup {None}] /\ credited \in [Users -> Nat]
  /\ rowLock \in [Users -> Twins \cup {Nobody}]
  /\ giftStep \in [Twins -> Gifts!Steps] /\ DOMAIN giftRequest = Twins
  /\ \A c \in Twins : giftStep[c] # "idle" =>
       Gifts!Sender(c) \in Users /\ Gifts!TotalPoints(c) \in Nat
  /\ \A c \in Twins : giftStep[c] = "locked" =>
       rowLock[Gifts!Sender(c)] = c /\ Gifts!Affords(c)
  /\ IsFiniteSet(gifts)
  /\ \A g \in gifts : g.sender \in Users /\ g.call \in giftChats
  /\ giftChats = {g.call : g \in gifts}
  /\ \A c \in Twins : c \in giftChats <=> giftStep[c] \in {"sent", "done"}
  /\ giftChats \subseteq Twins /\ banners \subseteq giftChats
  /\ \A u \in Users : credited[u] <= MaxCredit
  /\ \A u \in Users : points[u] = None => credited[u] = 0 /\ From(u) = {}
  /\ \A u \in Users : Cardinality(Gifts!PointsOf(From(u))) \in Nat
  /\ \A u \in Users : points[u] # None =>
       points[u] + Cardinality(Gifts!PointsOf(From(u))) = credited[u]

\* The invariant holds at first.
LEMMA GiftInit == ASSUME Gifts!Init PROVE GiftInv
<1> USE DEF Gifts!Init
<1>1. \A u : From(u) = {}
  BY DEF From
<1>2. \A u : Cardinality(Gifts!PointsOf(From(u))) = 0
  BY <1>1, FS_EmptySet DEF Gifts!PointsOf
<1>3. /\ points \in [Users -> Nat \cup {None}] /\ credited \in [Users -> Nat]
      /\ rowLock \in [Users -> Twins \cup {Nobody}]
      /\ giftStep \in [Twins -> Gifts!Steps] /\ DOMAIN giftRequest = Twins
      /\ IsFiniteSet(gifts)
  BY FS_EmptySet DEF Gifts!Steps
<1>4. \A u \in Users : credited[u] = 0 /\ credited[u] <= MaxCredit
  BY BackendAssumption
<1> QED
  BY <1>1, <1>2, <1>3, <1>4 DEF GiftInv

\* Each step of a call, the admin or the session keeps it.
LEMMA GiftStep ==
  ASSUME GiftInv, [Gifts!Next]_giftVars
  PROVE  GiftInv'
<1>0. /\ MaxCredit \in Nat /\ Credits \subseteq Nat /\ Nobody \notin Twins /\ None \notin Nat
      /\ (Quantities \subseteq Int /\ MaxQuantity \in Nat)
      /\ \A g \in DOMAIN Catalog : Catalog[g] \in Nat
  BY BackendAssumption
<1>1. CASE Gifts!EndSession \/ UNCHANGED giftVars \/ \E g \in DOMAIN Catalog : Gifts!RetireGift(g)
  <2>1. UNCHANGED <<points, rowLock, gifts, giftChats, banners, credited, giftRequest, giftStep>>
    BY <1>1 DEF Gifts!EndSession, Gifts!RetireGift, giftVars, Gifts!tables, Gifts!callVars
  <2> QED
    BY <2>1 DEF GiftInv, From, Gifts!Affords, Gifts!Sender, Gifts!TotalPoints
<1>2. ASSUME NEW u \in Users, NEW delta \in Credits, Gifts!AddLoyalty(u, delta)
      PROVE  GiftInv'
  <2>1. /\ credited[u] + delta <= MaxCredit /\ rowLock[u] = Nobody
        /\ points' = [points EXCEPT ![u] = IF points[u] = None THEN delta ELSE points[u] + delta]
        /\ credited' = [credited EXCEPT ![u] = credited[u] + delta]
        /\ UNCHANGED <<rowLock, gifts, giftChats, banners, giftRequest, giftStep>>
    BY <1>2 DEF Gifts!AddLoyalty, Gifts!UpsertPoints, Gifts!callVars
  <2>2. delta \in Nat /\ None \notin Nat
    BY <1>0
  <2>3. \A v : From(v)' = From(v)
    BY <2>1 DEF From
  <2>4. ASSUME NEW c \in Twins, giftStep[c] = "locked"
        PROVE  Gifts!Affords(c)'
    BY <2>1, <2>2, <2>4 DEF GiftInv, Gifts!Affords, Gifts!Sender, Gifts!TotalPoints
  <2>5. \A c : Gifts!Sender(c)' = Gifts!Sender(c) /\ Gifts!TotalPoints(c)' = Gifts!TotalPoints(c)
    BY <2>1 DEF Gifts!Sender, Gifts!TotalPoints
  <2>6. /\ points' \in [Users -> Nat \cup {None}] /\ credited' \in [Users -> Nat]
        /\ \A v \in Users : credited'[v] <= MaxCredit
        /\ \A v \in Users : points'[v] = None => credited'[v] = 0 /\ From(v) = {}
    BY <2>1, <2>2 DEF GiftInv
  <2>7. ASSUME NEW v \in Users, points'[v] # None
        PROVE  points'[v] + Cardinality(Gifts!PointsOf(From(v))) = credited'[v]
    <3>1. Cardinality(Gifts!PointsOf({})) = 0
      BY FS_EmptySet DEF Gifts!PointsOf
    <3>2. Cardinality(Gifts!PointsOf(From(v))) \in Nat
      BY DEF GiftInv
    <3>3. CASE points[v] = None
      <4>1. v = u
        BY <2>1, <2>7, <3>3 DEF GiftInv
      <4>2. credited[v] = 0 /\ From(v) = {}
        BY <3>3 DEF GiftInv
      <4>3. points'[v] = delta /\ credited'[v] = 0 + delta
        BY <2>1, <3>3, <4>1, <4>2 DEF GiftInv
      <4> QED
        BY <2>2, <3>1, <4>2, <4>3
    <3>4. CASE points[v] # None
      BY <2>1, <2>2, <3>2, <3>4 DEF GiftInv
    <3> QED
      BY <3>3, <3>4
  <2> QED
    BY <2>1, <2>3, <2>4, <2>5, <2>6, <2>7 DEF GiftInv
<1>3. ASSUME NEW c \in Twins, NEW u \in Users, NEW g \in DOMAIN Catalog, NEW n \in Quantities,
             Gifts!SpecGiftSend(c, u, g, n)
      PROVE  GiftInv'
  <2>1. /\ giftStep[c] = "idle"
        /\ giftRequest' = [giftRequest EXCEPT ![c] =
             [sender |-> u, gift |-> g, quantity |-> Gifts!Clamped(n)]]
        /\ \E s \in {"send", "refused"} : giftStep' = [giftStep EXCEPT ![c] = s]
        /\ UNCHANGED <<points, rowLock, gifts, giftChats, banners, credited>>
    BY <1>3 DEF Gifts!SpecGiftSend, Gifts!GoTo, Gifts!tables
  <2>2. Gifts!Clamped(n) \in Nat /\ Catalog[g] \in Nat
    BY <1>0 DEF Gifts!Clamped
  <2>3. Catalog[g] * Gifts!Clamped(n) \in Nat
    BY <2>2
  <2>4. Gifts!Sender(c)' = u /\ Gifts!TotalPoints(c)' = Catalog[g] * Gifts!Clamped(n)
    BY <2>1 DEF GiftInv, Gifts!Sender, Gifts!TotalPoints
  <2>5. \A d \in Twins \ {c} : /\ Gifts!Sender(d)' = Gifts!Sender(d)
                               /\ Gifts!TotalPoints(d)' = Gifts!TotalPoints(d)
                               /\ Gifts!Affords(d)' = Gifts!Affords(d)
                               /\ giftStep'[d] = giftStep[d]
    BY <2>1 DEF GiftInv, Gifts!Sender, Gifts!TotalPoints, Gifts!Affords
  <2>6. giftStep' \in [Twins -> Gifts!Steps] /\ giftStep'[c] \in {"send", "refused"}
    BY <2>1 DEF GiftInv, Gifts!Steps
  <2>7. \A v : From(v)' = From(v)
    BY <2>1 DEF From
  <2> QED
    BY <2>1, <2>3, <2>4, <2>5, <2>6, <2>7 DEF GiftInv
<1>4. ASSUME NEW c \in Twins, Gifts!Refuse(c) \/ Gifts!LogGift(c) \/ Gifts!Rollback(c)
      PROVE  GiftInv'
  <2>1. /\ UNCHANGED <<points, gifts, giftChats, credited, giftRequest>>
        /\ \/ giftStep[c] \in {"send", "locked"} /\ giftStep' = [giftStep EXCEPT ![c] = "refused"]
           \/ giftStep[c] = "sent" /\ giftStep' = [giftStep EXCEPT ![c] = "done"]
        /\ banners' = banners \/ (giftStep[c] = "sent" /\ banners' = banners \cup {c})
        /\ \/ rowLock' = rowLock
           \/ giftStep[c] = "locked" /\ rowLock' = [rowLock EXCEPT ![Gifts!Sender(c)] = Nobody]
    <3>1. CASE Gifts!Refuse(c)
      BY <3>1 DEF Gifts!Refuse, Gifts!GoTo, Gifts!tables
    <3>2. CASE Gifts!LogGift(c)
      BY <3>2 DEF Gifts!LogGift, Gifts!GoTo
    <3>3. CASE Gifts!Rollback(c)
      BY <3>3 DEF Gifts!Rollback, Gifts!GoTo
    <3> QED
      BY <1>4, <3>1, <3>2, <3>3
  <2>2. \A d : /\ Gifts!Sender(d)' = Gifts!Sender(d)
               /\ Gifts!TotalPoints(d)' = Gifts!TotalPoints(d)
               /\ Gifts!Affords(d)' = Gifts!Affords(d)
               /\ From(d)' = From(d)
    BY <2>1 DEF Gifts!Sender, Gifts!TotalPoints, Gifts!Affords, From
  <2>3. /\ giftStep' \in [Twins -> Gifts!Steps] /\ giftStep'[c] \notin {"idle", "locked"}
        /\ rowLock' \in [Users -> Twins \cup {Nobody}]
        /\ \A d \in Twins \ {c} : giftStep'[d] = giftStep[d]
        /\ banners' \subseteq giftChats
        /\ giftStep'[c] \in {"sent", "done"} <=> giftStep[c] \in {"sent", "done"}
        /\ giftStep[c] # "idle"
    <3>1. giftStep \in [Twins -> Gifts!Steps] /\ rowLock \in [Users -> Twins \cup {Nobody}]
      BY DEF GiftInv
    <3>2. rowLock' \in [Users -> Twins \cup {Nobody}]
      BY <2>1, <3>1
    <3>3. banners' \subseteq giftChats
      BY <2>1 DEF GiftInv
    <3>4. giftStep' \in [Twins -> Gifts!Steps]
      BY <2>1, <3>1 DEF Gifts!Steps
    <3>5. \/ giftStep[c] \in {"send", "locked"} /\ giftStep'[c] = "refused"
          \/ giftStep[c] = "sent" /\ giftStep'[c] = "done"
      BY <2>1, <3>1
    <3>6. \A d \in Twins \ {c} : giftStep'[d] = giftStep[d]
      BY <2>1, <3>1
    <3> QED
      BY <3>2, <3>3, <3>4, <3>5, <3>6
  <2>4. ASSUME NEW d \in Twins, giftStep'[d] = "locked"
        PROVE  rowLock'[Gifts!Sender(d)] = d
    BY <2>1, <2>3, <2>4 DEF GiftInv
  <2> QED
    BY <2>1, <2>2, <2>3, <2>4 DEF GiftInv
<1>5. ASSUME NEW c \in Twins, Gifts!LockRow(c)
      PROVE  GiftInv'
  <2>1. /\ UNCHANGED <<points, gifts, giftChats, banners, credited, giftRequest>>
        /\ giftStep[c] = "send" /\ giftStep' = [giftStep EXCEPT ![c] = "locked"]
        /\ rowLock[Gifts!Sender(c)] = Nobody
        /\ rowLock' = [rowLock EXCEPT ![Gifts!Sender(c)] = c]
        /\ Gifts!Affords(c)
    BY <1>5 DEF Gifts!LockRow, Gifts!GoTo
  <2>2. \A d : /\ Gifts!Sender(d)' = Gifts!Sender(d)
               /\ Gifts!TotalPoints(d)' = Gifts!TotalPoints(d)
               /\ Gifts!Affords(d)' = Gifts!Affords(d)
               /\ From(d)' = From(d)
    BY <2>1 DEF Gifts!Sender, Gifts!TotalPoints, Gifts!Affords, From
  <2>3. /\ giftStep' \in [Twins -> Gifts!Steps]
        /\ rowLock' \in [Users -> Twins \cup {Nobody}]
        /\ \A d \in Twins \ {c} : giftStep'[d] = giftStep[d]
        /\ giftStep'[c] = "locked"
    BY <2>1 DEF GiftInv, Gifts!Steps
  <2>4. ASSUME NEW d \in Twins, giftStep'[d] = "locked"
        PROVE  rowLock'[Gifts!Sender(d)] = d /\ Gifts!Affords(d)
    BY <1>0, <2>1, <2>3, <2>4 DEF GiftInv
  <2> QED
    BY <2>1, <2>2, <2>3, <2>4 DEF GiftInv
<1>6. ASSUME NEW c \in Twins, Gifts!Commit(c)
      PROVE  GiftInv'
  <2>0. PICK u \in Users, n \in Nat : u = Gifts!Sender(c) /\ n = Gifts!TotalPoints(c)
    BY <1>6 DEF GiftInv, Gifts!Commit
  <2> DEFINE g == [sender |-> u, total |-> n, call |-> c]
  <2>1. /\ UNCHANGED <<banners, credited, giftRequest>>
        /\ giftStep[c] = "locked" /\ giftStep' = [giftStep EXCEPT ![c] = "sent"]
        /\ points' = [points EXCEPT ![u] = points[u] - n]
        /\ gifts' = gifts \cup {g}
        /\ giftChats' = giftChats \cup {c}
        /\ rowLock' = [rowLock EXCEPT ![u] = Nobody]
    BY <1>6, <2>0 DEF Gifts!Commit, Gifts!GoTo
  <2>2. /\ rowLock[u] = c
        /\ points[u] \in Nat /\ points[u] >= n /\ points[u] # None
        /\ c \notin giftChats
    BY <1>0, <2>0, <2>1 DEF GiftInv, Gifts!Affords
  <2>3. g.sender = u /\ g.total = n /\ g.call = c
    OBVIOUS
  <2>4. g \notin gifts
    BY <2>2, <2>3 DEF GiftInv
  <2>5. points[u] + Cardinality(Gifts!PointsOf(From(u))) = credited[u]
        /\ Cardinality(Gifts!PointsOf(From(u))) \in Nat /\ credited[u] \in Nat
        /\ credited[u] <= MaxCredit
    BY <2>2 DEF GiftInv
  <2>6. n <= MaxCredit
    BY <1>0, <2>2, <2>5
  <2>7. IsFiniteSet(From(u)) /\ g \notin From(u)
    <3>1. From(u) \in SUBSET gifts
      BY DEF From
    <3> QED
      BY <2>4, <3>1, FS_Subset DEF GiftInv
  <2>8. \A d : /\ Gifts!Sender(d)' = Gifts!Sender(d)
               /\ Gifts!TotalPoints(d)' = Gifts!TotalPoints(d)
    BY <2>1 DEF Gifts!Sender, Gifts!TotalPoints
  <2> HIDE DEF g
  <2>9. From(u)' = From(u) \cup {g}
    BY <2>1, <2>3 DEF From
  <2>10. \A v : v # u => From(v)' = From(v)
    BY <2>1, <2>3 DEF From
  <2>11. Cardinality(Gifts!PointsOf(From(u) \cup {g})) = Cardinality(Gifts!PointsOf(From(u))) + n
    BY <2>3, <2>6, <2>7, GiftAdds
  <2>12. /\ points' \in [Users -> Nat \cup {None}] /\ points'[u] = points[u] - n
         /\ points'[u] # None
         /\ \A v \in Users \ {u} : points'[v] = points[v]
    BY <1>0, <2>1, <2>2 DEF GiftInv
  <2>13. \A v \in Users :
           /\ points'[v] = None => credited'[v] = 0 /\ From(v)' = {}
           /\ Cardinality(Gifts!PointsOf(From(v)')) \in Nat
           /\ points'[v] # None =>
                points'[v] + Cardinality(Gifts!PointsOf(From(v)')) = credited'[v]
    <3> SUFFICES ASSUME NEW v \in Users
                 PROVE  /\ points'[v] = None => credited'[v] = 0 /\ From(v)' = {}
                        /\ Cardinality(Gifts!PointsOf(From(v)')) \in Nat
                        /\ points'[v] # None =>
                             points'[v] + Cardinality(Gifts!PointsOf(From(v)')) = credited'[v]
      OBVIOUS
    <3>1. CASE v = u
      <4>1. points'[v] = points[u] - n /\ points'[v] # None /\ credited'[v] = credited[u]
        BY <2>1, <2>12, <3>1
      <4>2. Cardinality(Gifts!PointsOf(From(v)')) = Cardinality(Gifts!PointsOf(From(u))) + n
        BY <2>9, <2>11, <3>1
      <4> QED
        BY <2>2, <2>5, <4>1, <4>2
    <3>2. CASE v # u
      BY <2>1, <2>10, <2>12, <3>2 DEF GiftInv
    <3> QED
      BY <3>1, <3>2
  <2>14. /\ giftStep' \in [Twins -> Gifts!Steps]
         /\ rowLock' \in [Users -> Twins \cup {Nobody}]
         /\ \A d \in Twins \ {c} : giftStep'[d] = giftStep[d]
         /\ giftStep'[c] = "sent"
    BY <2>1 DEF GiftInv, Gifts!Steps
  <2>15. ASSUME NEW d \in Twins, giftStep'[d] = "locked"
         PROVE  rowLock'[Gifts!Sender(d)'] = d /\ Gifts!Affords(d)'
    <3>1. d # c /\ giftStep[d] = "locked"
      BY <2>14, <2>15
    <3>2. rowLock[Gifts!Sender(d)] = d /\ Gifts!Affords(d) /\ Gifts!Sender(d) \in Users
      BY <3>1 DEF GiftInv
    <3>3. Gifts!Sender(d) # u
      BY <2>2, <3>1, <3>2
    <3> QED
      BY <2>1, <2>8, <2>12, <3>2, <3>3 DEF GiftInv, Gifts!Affords
  <2>16. /\ IsFiniteSet(gifts')
         /\ \A x \in gifts' : x.sender \in Users /\ x.call \in giftChats'
         /\ giftChats' = {x.call : x \in gifts'}
    BY <2>1, <2>2, <2>3, FS_AddElement DEF GiftInv
  <2>17. /\ \A d \in Twins : d \in giftChats' <=> giftStep'[d] \in {"sent", "done"}
         /\ giftChats' \subseteq Twins /\ banners' \subseteq giftChats'
    BY <2>1, <2>14 DEF GiftInv
  <2> QED
    BY <2>1, <2>8, <2>12, <2>13, <2>14, <2>15, <2>16, <2>17 DEF GiftInv
<1> QED
  BY <1>1, <1>2, <1>3, <1>4, <1>5, <1>6 DEF Gifts!Next, Gifts!GiftRequest

\* The least of a set of prices.
LEMMA LeastPrice ==
  ASSUME NEW S \in SUBSET Nat, S # {}
  PROVE  Market!Min(S) \in S /\ \A p \in S : Market!Min(S) <= p
BY LeastOf DEF Market!Min

\* What a request may have read of the prices, and what it may have come to.
MarketQuotes ==
  [unit : Nat, shown : Nat \cup {None}, flash : Nat \cup {None}, failed : BOOLEAN]
MarketResults == [quote : MarketQuotes, unit : Nat, fresh : BOOLEAN]

\* What the slots answer is an honest price, and so is the variant's own when the
\* query fails.
LEMMA SlotsAreHonest ==
  ASSUME slot \in [Sales -> Nat \cup {None}], NEW unread \in BOOLEAN,
         NEW q, q = [unit |-> IF unread THEN VariantPrice ELSE Market!CartPrice,
                     shown |-> Market!CardPrice, flash |-> Market!FlashPrice,
                     failed |-> unread]
  PROVE  q \in MarketQuotes /\ Market!IsHonest(q.unit, q)
<1>1. /\ VariantPrice \in Nat /\ Sale \in Nat /\ None \notin Nat
  BY BackendAssumption
<1>2. Market!OpenSlots \in SUBSET Nat
  BY DEF Market!OpenSlots
<1>3. PICK open \in SUBSET Nat : open = Market!OpenSlots
  BY <1>2
<1>4. /\ Market!Min(open \cup {VariantPrice}) \in open \cup {VariantPrice}
      /\ \A p \in open \cup {VariantPrice} : Market!Min(open \cup {VariantPrice}) <= p
  BY <1>1, LeastPrice
<1>5. open # {} => Market!Min(open) \in open
  BY LeastPrice
<1>6. /\ Market!CartPrice \in Nat
      /\ open = {} => Market!CartPrice = VariantPrice
      /\ open # {} => Market!CartPrice <= Market!Min(open)
  BY <1>1, <1>3, <1>4, <1>5 DEF Market!CartPrice
<1>7. /\ Market!FlashPrice = IF open # {} THEN Market!Min(open) ELSE None
      /\ Market!FlashPrice \in Nat \cup {None}
      /\ Market!CardPrice \in Nat \cup {None}
      /\ open # {} => Market!CardPrice \in {None, Market!Min(open)}
  BY <1>1, <1>3, <1>5 DEF Market!FlashPrice, Market!CardPrice
<1>8. /\ q.unit = IF unread THEN VariantPrice ELSE Market!CartPrice
      /\ q.shown = Market!CardPrice /\ q.flash = Market!FlashPrice /\ q.failed = unread
  OBVIOUS
<1>9. q \in MarketQuotes
  BY <1>1, <1>6, <1>7 DEF MarketQuotes
<1> QED
  BY <1>1, <1>6, <1>7, <1>8, <1>9 DEF Market!IsHonest

\* What a call has read is an honest price of its moment, and only a call that has
\* finished has a result.
MarketInv ==
  /\ slot \in [Sales -> Nat \cup {None}]
  /\ DOMAIN cartStep = Twins /\ DOMAIN quote = Twins /\ DOMAIN result = Twins
  /\ \A c \in Twins :
       /\ quote[c] \in MarketQuotes
       /\ Market!IsHonest(quote[c].unit, quote[c])
       /\ cartStep[c] # "done" => result[c] = None
  /\ line # None => line.unit \in Nat
  /\ Market!NewRowIsHonest

\* The invariant holds at first.
LEMMA MarketInit == ASSUME Market!Init PROVE MarketInv
<1>1. VariantPrice \in Nat
  BY BackendAssumption
<1>2. Market!Unread \in MarketQuotes /\ Market!IsHonest(Market!Unread.unit, Market!Unread)
  BY <1>1 DEF Market!Unread, Market!IsHonest, MarketQuotes
<1> QED
  BY <1>2 DEF Market!Init, MarketInv, Market!NewRowIsHonest

\* Each step of a sale, a seller or a request keeps it.
LEMMA MarketStep ==
  ASSUME MarketInv, [Market!Next]_marketVars
  PROVE  MarketInv'
<1>0. FlashPrices \subseteq Nat /\ None \notin Nat /\ None \notin MarketResults
  BY BackendAssumption DEF MarketResults, MarketQuotes
<1> USE DEF MarketInv, Market!NewRowIsHonest
<1>1. CASE Market!Tick \/ Market!AdminEdit
  <2>1. UNCHANGED <<line, quote, cartStep, result>>
    BY <1>1 DEF Market!Tick, Market!AdminEdit, Market!UpdateSale, Market!CreateSale,
                Market!SetProducts, Market!RemoveProduct, Market!DeleteSale,
                Market!SoftDelete, Market!UpdateStatus, Market!cartVars
  <2>2. slot' \in [Sales -> Nat \cup {None}]
    BY <1>0, <1>1 DEF Market!Tick, Market!AdminEdit, Market!UpdateSale, Market!CreateSale,
                Market!SetProducts, Market!RemoveProduct, Market!DeleteSale,
                Market!SoftDelete, Market!UpdateStatus, Market!Attached
  <2> QED
    BY <2>1, <2>2
<1>2. ASSUME NEW c \in Twins, Market!ReadVariant(c) \/ Market!AddFromLive(c)
      PROVE  MarketInv'
  BY <1>2 DEF Market!ReadVariant, Market!AddFromLive, Market!GoTo, Market!saleVars
<1>3. ASSUME NEW c \in Twins, Market!ReadSlots(c)
      PROVE  MarketInv'
  <2>1. /\ cartStep[c] = "slots" /\ cartStep' = [cartStep EXCEPT ![c] = "update"]
        /\ UNCHANGED <<slot, line, result>>
        /\ \E unread \in BOOLEAN :
             quote' = [quote EXCEPT ![c] =
               [unit |-> IF unread THEN VariantPrice ELSE Market!CartPrice,
                shown |-> Market!CardPrice, flash |-> Market!FlashPrice, failed |-> unread]]
    BY <1>3 DEF Market!ReadSlots, Market!GoTo, Market!saleVars
  <2>2. PICK q \in MarketQuotes : Market!IsHonest(q.unit, q) /\ quote' = [quote EXCEPT ![c] = q]
    BY <2>1, SlotsAreHonest
  <2> QED
    BY <2>1, <2>2
<1>4. ASSUME NEW c \in Twins, Market!UpdateLine(c)
      PROVE  MarketInv'
  <2>1. CASE line = None
    BY <1>4, <2>1 DEF Market!UpdateLine, Market!GoTo, Market!saleVars
  <2>2. CASE line # None
    <3> DEFINE r == [quote |-> quote[c], unit |-> line.unit, fresh |-> FALSE]
    <3>1. /\ cartStep[c] = "update" /\ cartStep' = [cartStep EXCEPT ![c] = "done"]
          /\ UNCHANGED <<slot, quote>>
          /\ line' = [line EXCEPT !.quantity = line.quantity + 1]
          /\ result' = [result EXCEPT ![c] = r]
      BY <1>4, <2>2 DEF Market!UpdateLine, Market!GoTo, Market!saleVars, Market!Finish
    <3>2. line'.unit = line.unit
      BY <3>1
    <3>3. PICK d \in Twins : result[d] # None /\ result[d].fresh /\ result[d].unit = line.unit
      BY <2>2
    <3>4. d # c
      BY <3>1, <3>3
    <3>5. Market!NewRowIsHonest'
      BY <3>1, <3>2, <3>3, <3>4
    <3> QED
      BY <2>2, <3>1, <3>2, <3>5
  <2> QED
    BY <2>1, <2>2
<1>5. ASSUME NEW c \in Twins, Market!InsertLine(c)
      PROVE  MarketInv'
  <2>1. CASE line # None
    BY <1>5, <2>1 DEF Market!InsertLine, Market!GoTo, Market!saleVars
  <2>2. CASE line = None
    <3> DEFINE r == [quote |-> quote[c], unit |-> quote[c].unit, fresh |-> TRUE]
    <3>1. /\ cartStep[c] = "insert" /\ cartStep' = [cartStep EXCEPT ![c] = "done"]
          /\ UNCHANGED <<slot, quote>>
          /\ line' = [unit |-> quote[c].unit, quantity |-> 1]
          /\ result' = [result EXCEPT ![c] = r]
      BY <1>5, <2>2 DEF Market!InsertLine, Market!GoTo, Market!saleVars, Market!Finish
    <3>2. r # None
      <4>1. quote[c] \in MarketQuotes /\ quote[c].unit \in Nat
        BY DEF MarketQuotes
      <4>2. r \in MarketResults
        BY <4>1 DEF MarketResults
      <4> QED
        BY <1>0, <4>2
    <3>3. quote[c].unit \in Nat
      BY DEF MarketQuotes
    <3>4. /\ r.quote = quote[c] /\ r.unit = quote[c].unit /\ r.fresh
          /\ line'.unit = quote[c].unit
      BY <3>1
    <3> HIDE DEF r
    <3> QED
      BY <3>1, <3>2, <3>3, <3>4
  <2> QED
    BY <2>1, <2>2
<1>6. CASE Market!RemoveLine
  BY <1>6 DEF Market!RemoveLine, Market!saleVars
<1>7. CASE UNCHANGED marketVars
  BY <1>7 DEF marketVars
<1> HIDE DEF MarketInv
<1> QED
  BY <1>1, <1>2, <1>3, <1>4, <1>5, <1>6, <1>7 DEF Market!Next, Market!Add

\* The invariants of the two parts, each while its part moves.
ChargedInv ==
  /\ part = "gifts" => GiftInv
  /\ part = "market" => MarketInv

\* ChargedInv holds in every state of the API.
LEMMA ChargedAlways == BackendSpec => []ChargedInv
<1>1. BackendInit => ChargedInv
  <2> SUFFICES ASSUME BackendInit PROVE ChargedInv
    OBVIOUS
  <2>1. Gifts!Init /\ Market!Init
    BY DEF BackendInit
  <2> QED
    BY <2>1, GiftInit, MarketInit DEF ChargedInv
<1>2. ChargedInv /\ [BackendNext]_allVars => ChargedInv'
  <2> SUFFICES ASSUME ChargedInv, [BackendNext]_allVars PROVE ChargedInv'
    OBVIOUS
  <2>0. part' = part
    BY PartStays
  <2>1. CASE part = "gifts"
    BY <2>0, <2>1, GiftsMove, GiftStep DEF ChargedInv
  <2>2. CASE part = "market"
    BY <2>0, <2>2, MarketMove, MarketStep DEF ChargedInv
  <2> QED
    BY <2>0, <2>1, <2>2 DEF ChargedInv
<1> QED
  BY <1>1, <1>2, PTL DEF BackendSpec

\* Every point credited is in a balance or in a gift that was shown, and a new row of
\* the cart costs at most the open slot that the card shows, or exactly what the variant
\* costs when there is none or the query failed, for any senders, gifts and quantities,
\* any sales and any prices of product and variant.
THEOREM ChargesStand == BackendSpec => []ChargedAsShown
<1>1. ChargedInv => ChargedAsShown
  <2>1. GiftInv => Gifts!GiftsArePaid
    <3> SUFFICES ASSUME GiftInv
                 PROVE  /\ \A u \in Users : points[u] # None =>
                             points[u] + Gifts!Cardinality(Gifts!PointsOf(From(u))) = credited[u]
                        /\ {g.call : g \in gifts} = giftChats /\ banners \subseteq giftChats
      BY DEF Gifts!GiftsArePaid, Gifts!SpentBy, From
    <3> QED
      BY GiftSizes DEF GiftInv
  <2> QED
    BY <2>1 DEF ChargedInv, ChargedAsShown, MarketInv
<1> QED
  BY <1>1, ChargedAlways, PTL

------------------------------------------------------------------------------
(* Work that may be cut off anywhere: ClipOverlay, Seed and Recording. *)

\* While the part moves, its steps are those of ClipOverlay ...
LEMMA OverlaysMove ==
  ASSUME [BackendNext]_allVars, part = "overlays"
  PROVE  [Overlays!Next]_overlayVars
<1>1. CASE BackendNext
  BY <1>1 DEF BackendNext
<1>2. CASE UNCHANGED allVars
  BY <1>2 DEF allVars, overlayVars
<1> QED
  BY <1>1, <1>2

\* ... those of Seed ...
LEMMA FixturesMove ==
  ASSUME [BackendNext]_allVars, part = "seed"
  PROVE  [Fixtures!Next]_fixtureVars
<1>1. CASE BackendNext
  BY <1>1 DEF BackendNext
<1>2. CASE UNCHANGED allVars
  BY <1>2 DEF allVars, fixtureVars
<1> QED
  BY <1>1, <1>2

\* ... and those of Recording.
LEMMA FilesMove ==
  ASSUME [BackendNext]_allVars, part = "files"
  PROVE  [Files!Next]_fileVars
<1>1. CASE BackendNext
  BY <1>1 DEF BackendNext
<1>2. CASE UNCHANGED allVars
  BY <1>2 DEF allVars, fileVars
<1> QED
  BY <1>1, <1>2

\* A clip's event is taken once.  Until then nothing is said of its overlay, and
\* while its job runs no copy is linked yet; a job that comes to the link has
\* uploaded the copy.
OverlayInv ==
  /\ clip \in [Twins -> {"none", "active", "deleted"}]
  /\ event \in [Twins -> {"absent", "queued", "taken"}]
  /\ DOMAIN overlay = Twins
  /\ job \in Twins \cup {NoClip} /\ overlayStage \in Overlays!Stages
  /\ (job = NoClip) = (overlayStage = "idle")
  /\ job # NoClip => event[job] = "taken"
  /\ overlayStage = "load" => overlay[job] = "pending"
  /\ overlayStage = "record" => job \in object
  /\ \A c \in Twins :
       /\ clip[c] = "none" => event[c] = "absent"
       /\ event[c] # "taken" => overlay[c] = "pending"
       /\ c \in url => job # c
  /\ Overlays!OverlaysSettle

\* The first state has no job.
LEMMA OverlayInit == ASSUME Overlays!Init PROVE OverlayInv
BY BackendAssumption
   DEF Overlays!Init, OverlayInv, Overlays!OverlaysSettle, Overlays!Stages, Overlays!Settled

\* Every step of a job, its loss and its deadline keep it.
LEMMA OverlayStep == ASSUME OverlayInv, [Overlays!Next]_overlayVars PROVE OverlayInv'
<1>0. NoClip \notin Twins
  BY BackendAssumption
<1> USE DEF OverlayInv, Overlays!OverlaysSettle, Overlays!Stages, Overlays!Settled,
            Overlays!clipVars, Overlays!rowVars, Overlays!jobVars
<1>1. CASE UNCHANGED overlayVars
  BY <1>1 DEF overlayVars
<1>2. ASSUME NEW c \in Twins, Overlays!Upload(c) \/ Overlays!Create(c) \/ Overlays!SoftDelete(c)
      PROVE  OverlayInv'
  <2>1. CASE Overlays!Upload(c)
    BY <2>1 DEF Overlays!Upload
  <2>2. CASE Overlays!Create(c)
    BY <2>2 DEF Overlays!Create
  <2>3. CASE Overlays!SoftDelete(c)
    BY <2>3 DEF Overlays!SoftDelete
  <2> QED
    BY <1>2, <2>1, <2>2, <2>3
<1>3. ASSUME NEW c \in Twins, Overlays!Take(c)
      PROVE  OverlayInv'
  BY <1>0, <1>3 DEF Overlays!Take
<1>4. CASE Overlays!Load
  BY <1>0, <1>4 DEF Overlays!Load, Overlays!Stop, Overlays!GoTo, Overlays!SetOverlayStatus
<1>5. CASE Overlays!Start
  BY <1>0, <1>5 DEF Overlays!Start, Overlays!GoTo, Overlays!SetOverlayStatus
<1>6. CASE Overlays!Work
  BY <1>0, <1>6 DEF Overlays!Work, Overlays!After, Overlays!GoTo
<1>7. CASE Overlays!UploadCopy
  BY <1>0, <1>7 DEF Overlays!UploadCopy, Overlays!GoTo
<1>8. CASE Overlays!Fail
  BY <1>0, <1>8 DEF Overlays!Fail, Overlays!Stop, Overlays!SetOverlayStatus
<1>9. CASE Overlays!SetOverlayURL
  BY <1>0, <1>9 DEF Overlays!SetOverlayURL, Overlays!Stop
<1>10. CASE Overlays!Deadline
  BY <1>10 DEF Overlays!Deadline
<1>11. CASE Overlays!Crash
  BY <1>0, <1>11 DEF Overlays!Crash, Overlays!Stop
<1> HIDE DEF OverlayInv
<1> QED
  BY <1>1, <1>2, <1>3, <1>4, <1>5, <1>6, <1>7, <1>8, <1>9, <1>10, <1>11
     DEF Overlays!Next, Overlays!Api, Overlays!Job

\* The handler of a recording is done with its upload: its event is never taken
\* again.
PastUpload(r) == dvrStep[r] \in {"clean", "done"}

\* A row is uploaded, and swept, only once its handler is past the upload; what a
\* sweep deleted last is gone.
FileInv ==
  /\ Files!TypeOK
  /\ \A r \in Twins :
       /\ dvrStep[r] # "idle" => dvrEvent[r] = "taken"
       /\ dvrEvent[r] # "none" => file[r] # "none"
       /\ dvrRow[r] \in {"uploaded", "expired"} => PastUpload(r)
  /\ \A v \in Twins :
       /\ \A r \in expiredRows[v] : PastUpload(r)
       /\ doomed[v] # None => PastUpload(doomed[v]) /\ doomed[v] \notin mp4
  /\ Files!ExpiredIsGone

\* The first state has no file.
LEMMA FileInit == ASSUME Files!Init PROVE FileInv
BY DEF Files!Init, FileInv, Files!TypeOK, Files!Steps, Files!ExpiredIsGone

\* Every step of a handler or a sweep keeps it.
LEMMA FileStep == ASSUME FileInv, [Files!Next]_fileVars PROVE FileInv'
<1> USE DEF FileInv, PastUpload, Files!ExpiredIsGone, Files!TypeOK, Files!Steps,
            Files!disk, Files!sweeps
<1>1. CASE UNCHANGED fileVars
  BY <1>1 DEF fileVars
<1>2. ASSUME NEW r \in Twins, Files!OnDvr(r)
      PROVE  FileInv'
  BY <1>2 DEF Files!OnDvr
<1>3. ASSUME NEW r \in Twins, Files!Take(r)
      PROVE  FileInv'
  BY <1>3 DEF Files!Take
<1>4. ASSUME NEW r \in Twins, Files!InsertRecording(r)
      PROVE  FileInv'
  BY <1>4 DEF Files!InsertRecording
<1>5. ASSUME NEW r \in Twins, Files!Stat(r) \/ Files!Bake(r) \/ Files!Upload(r)
      PROVE  FileInv'
  BY <1>5 DEF Files!Stat, Files!Bake, Files!Upload, Files!Proceed, Files!Fail
<1>6. ASSUME NEW r \in Twins,
             Files!SetVodURLs(r) \/ Files!MarkRecordingUploaded(r) \/ Files!RemoveFile(r)
      PROVE  FileInv'
  BY <1>6 DEF Files!SetVodURLs, Files!MarkRecordingUploaded, Files!RemoveFile
<1>7. ASSUME NEW r \in Twins, Files!GrowOld(r) \/ Files!SweepDVR(r)
      PROVE  FileInv'
  BY <1>7 DEF Files!GrowOld, Files!SweepDVR
<1>8. ASSUME NEW v \in Twins,
             Files!ListExpired(v) \/ Files!MarkRecordingExpired(v) \/ Files!ExpireFails(v)
      PROVE  FileInv'
  BY <1>8 DEF Files!ListExpired, Files!MarkRecordingExpired, Files!ExpireFails
<1>9. ASSUME NEW v \in Twins, NEW r \in Twins,
             Files!DeleteObject(v, r) \/ Files!SkipObject(v, r)
      PROVE  FileInv'
  BY <1>9 DEF Files!DeleteObject, Files!SkipObject
<1>10. ASSUME Files!Crash, UNCHANGED <<Files!disk, dvrRow, mp4, link, aged>>
       PROVE  FileInv'
  BY <1>10 DEF Files!Crash
<1> HIDE DEF FileInv
<1> QED
  BY <1>1, <1>2, <1>3, <1>4, <1>5, <1>6, <1>7, <1>8, <1>9, <1>10
     DEF Files!Next, Files!HandleRecording, Files!SweepR2, Files!DeleteSome

\* The run started last and not disturbed.
Alone(r) == latest = r /\ r \notin overlapped

\* Such a run runs alone, has the variants it has inserted to itself and the keyed
\* rows of its earlier statements behind it.
AloneHas(r) ==
  /\ \A q \in Twins \ {r} : ~Fixtures!Running(q)
  /\ seedStep[r] = "variants" => left[r] \subseteq Sales /\ variants = {r} \X (Sales \ left[r])
  /\ seedStep[r] \in {"session", "coupons", "done"} => variants = {r} \X Sales
  /\ seedStep[r] \in {"product", "wipe", "variants", "session", "coupons", "done"} =>
       "users" \in keyedRows
  /\ seedStep[r] \in {"wipe", "variants", "session", "coupons", "done"} =>
       "product" \in keyedRows
  /\ seedStep[r] \in {"coupons", "done"} => "session" \in keyedRows
  /\ seedStep[r] = "done" => "coupons" \in keyedRows

\* A run that is still at work undisturbed is the latest one; without any overlap
\* all variants are of one run.
SeedInv ==
  /\ seedStep \in [Twins -> Fixtures!Steps] /\ DOMAIN left = Twins
  /\ keyedRows \subseteq Fixtures!Keyed
  /\ \A r \in Twins :
       /\ Alone(r) => AloneHas(r)
       /\ Fixtures!Running(r) /\ r \notin overlapped => latest = r
  /\ overlapped = {} =>
       \A q \in Twins, r \in Twins, s \in Sales, t \in Sales :
         <<q, s>> \in variants /\ <<r, t>> \in variants => q = r

\* The first state has no run.
LEMMA SeedInit == ASSUME Fixtures!Init PROVE SeedInv
BY DEF Fixtures!Init, SeedInv, Alone, AloneHas, Fixtures!Running, Fixtures!Steps, Fixtures!Keyed

\* Every statement of a run, and its end, keep it.
LEMMA SeedStep == ASSUME SeedInv, [Fixtures!Next]_fixtureVars PROVE SeedInv'
<1> USE DEF SeedInv, Alone, AloneHas, Fixtures!Running, Fixtures!Steps, Fixtures!Keyed,
            Fixtures!Goto, Fixtures!Upsert
<1>1. CASE UNCHANGED fixtureVars
  BY <1>1 DEF fixtureVars
<1>2. ASSUME NEW r \in Twins, Fixtures!Start(r)
      PROVE  SeedInv'
  BY <1>2 DEF Fixtures!Start
<1>3. ASSUME NEW r \in Twins, Fixtures!SeedUsers(r)
      PROVE  SeedInv'
  BY <1>3 DEF Fixtures!SeedUsers
<1>4. ASSUME NEW r \in Twins, Fixtures!SeedProducts(r)
      PROVE  SeedInv'
  BY <1>4 DEF Fixtures!SeedProducts
<1>5. ASSUME NEW r \in Twins, Fixtures!DeleteVariants(r)
      PROVE  SeedInv'
  BY <1>5 DEF Fixtures!DeleteVariants
<1>6. ASSUME NEW r \in Twins, Fixtures!InsertVariant(r)
      PROVE  SeedInv'
  BY <1>6 DEF Fixtures!InsertVariant
<1>7. ASSUME NEW r \in Twins, Fixtures!SeedLiveSession(r)
      PROVE  SeedInv'
  BY <1>7 DEF Fixtures!SeedLiveSession
<1>8. ASSUME NEW r \in Twins, Fixtures!SeedCoupons(r)
      PROVE  SeedInv'
  BY <1>8 DEF Fixtures!SeedCoupons
<1>9. ASSUME NEW r \in Twins, Fixtures!Fail(r)
      PROVE  SeedInv'
  BY <1>9 DEF Fixtures!Fail
<1> HIDE DEF SeedInv
<1> QED
  BY <1>1, <1>2, <1>3, <1>4, <1>5, <1>6, <1>7, <1>8, <1>9 DEF Fixtures!Next

\* No more than one run holds a variant when all of them are of one run.
LEMMA OneRun ==
  ASSUME SeedInv
  PROVE  Fixtures!SeedHolds
<1>1. Fixtures!SeedConverges
  <2> SUFFICES ASSUME NEW r \in Twins, seedStep[r] = "done", latest = r, r \notin overlapped
               PROVE  variants = {r} \X Sales /\ keyedRows = Fixtures!Keyed
    BY DEF Fixtures!SeedConverges
  <2>1. AloneHas(r)
    BY DEF SeedInv, Alone
  <2>2. keyedRows \subseteq Fixtures!Keyed
    BY DEF SeedInv
  <2> QED
    BY <2>1, <2>2 DEF AloneHas, Fixtures!Keyed
<1>2. ASSUME overlapped = {}, NEW s \in Sales
      PROVE  Fixtures!Cardinality({r \in Twins : <<r, s>> \in variants}) <= 1
  <2> DEFINE R == {r \in Twins : <<r, s>> \in variants}
  <2>1. Fixtures!Cardinality(R) = Cardinality(R)
    BY DEF Fixtures!Cardinality, Cardinality
  <2>2. \A q, r \in R : q = r
    BY <1>2 DEF SeedInv
  <2>3. ASSUME R = {} PROVE Cardinality(R) = 0
    BY <2>3, FS_EmptySet, Zenon
  <2>4. ASSUME NEW r \in R PROVE Cardinality(R) = 1
    <3>1. R = {r}
      BY <2>2, <2>4
    <3> QED
      BY <3>1, FS_Singleton
  <2>5. Cardinality(R) \in {0, 1}
    <3> HIDE DEF R
    <3> QED
      BY <2>3, <2>4
  <2> SUFFICES Fixtures!Cardinality(R) <= 1
    OBVIOUS
  <2> HIDE DEF R
  <2> QED
    BY <2>1, <2>5
<1> QED
  BY <1>1, <1>2 DEF Fixtures!SeedHolds, Fixtures!NoVariantTwice

JobsInv ==
  /\ part = "overlays" => OverlayInv
  /\ part = "seed" => SeedInv
  /\ part = "files" => FileInv

\* JobsInv holds in every state of the API.
LEMMA JobsAlways == BackendSpec => []JobsInv
<1>1. BackendInit => JobsInv
  <2> SUFFICES ASSUME BackendInit PROVE JobsInv
    OBVIOUS
  <2>1. Overlays!Init /\ Fixtures!Init /\ Files!Init
    BY DEF BackendInit
  <2> QED
    BY <2>1, OverlayInit, SeedInit, FileInit DEF JobsInv
<1>2. JobsInv /\ [BackendNext]_allVars => JobsInv'
  <2> SUFFICES ASSUME JobsInv, [BackendNext]_allVars PROVE JobsInv'
    OBVIOUS
  <2>0. part' = part
    BY PartStays
  <2>1. CASE part = "overlays"
    BY <2>0, <2>1, OverlaysMove, OverlayStep DEF JobsInv
  <2>2. CASE part = "seed"
    BY <2>0, <2>2, FixturesMove, SeedStep DEF JobsInv
  <2>3. CASE part = "files"
    BY <2>0, <2>3, FilesMove, FileStep DEF JobsInv
  <2> QED
    BY <2>0, <2>1, <2>2, <2>3 DEF JobsInv
<1> QED
  BY <1>1, <1>2, PTL DEF BackendSpec

\* Wherever a job, a seed or a sweep is cut off (SetOverlayStatus, cmd/seed,
\* MarkRecordingExpired): every overlay job leaves an outcome or its write was
\* lost, an undisturbed seed ends with the whole set of fixtures, and an expired
\* recording has no object.
THEOREM JobsEnd == BackendSpec => []JobsSettle
<1>1. JobsInv => JobsSettle
  BY OneRun DEF JobsInv, JobsSettle, OverlayInv, FileInv
<1> QED
  BY <1>1, JobsAlways, PTL

------------------------------------------------------------------------------
(* Pages of an ordered list: ListWalk. *)

\* <<s, t>> \in B says that s comes before t: a strict total order of R.
Orders(B, R) ==
  /\ \A s \in R : <<s, s>> \notin B
  /\ \A s, t, u \in R : <<s, t>> \in B /\ <<t, u>> \in B => <<s, u>> \in B
  /\ \A s, t \in R : s # t => <<s, t>> \in B \/ <<t, s>> \in B

Before(B, R, s) == {t \in R : <<t, s>> \in B}

\* The page of the first N rows.
FirstRows(B, R, N) == {s \in R : Cardinality(Before(B, R, s)) < N}

\* What comes before a row is finite, and less than what comes before a later one.
LEMMA BeforeGrows ==
  ASSUME NEW B, NEW R, IsFiniteSet(R), Orders(B, R), NEW s \in R
  PROVE  /\ IsFiniteSet(Before(B, R, s)) /\ Cardinality(Before(B, R, s)) \in Nat
         /\ \A t \in R : <<t, s>> \in B =>
              Cardinality(Before(B, R, t)) < Cardinality(Before(B, R, s))
<1>1. \A t \in R : IsFiniteSet(Before(B, R, t)) /\ Cardinality(Before(B, R, t)) \in Nat
  <2> TAKE t \in R
  <2>1. Before(B, R, t) \in SUBSET R
    BY DEF Before
  <2> QED
    BY <2>1, FS_Subset, FS_CardinalityType
<1>2. ASSUME NEW t \in R, <<t, s>> \in B
      PROVE  Cardinality(Before(B, R, t)) < Cardinality(Before(B, R, s))
  <2>1. /\ Before(B, R, t) \in SUBSET Before(B, R, s)
        /\ t \in Before(B, R, s) /\ t \notin Before(B, R, t)
    BY <1>2 DEF Before, Orders
  <2>2. /\ Cardinality(Before(B, R, t)) <= Cardinality(Before(B, R, s))
        /\ Cardinality(Before(B, R, s)) = Cardinality(Before(B, R, t)) =>
             Before(B, R, s) = Before(B, R, t)
    BY <1>1, <2>1, FS_Subset
  <2>3. Cardinality(Before(B, R, s)) # Cardinality(Before(B, R, t))
    BY <2>1, <2>2
  <2> QED
    BY <1>1, <2>2, <2>3
<1> QED
  BY <1>1, <1>2

\* A finite set of rows has a first one.
LEMMA FirstRow ==
  ASSUME NEW B, NEW R, IsFiniteSet(R), Orders(B, R), R # {}
  PROVE  \E s \in R : \A t \in R \ {s} : <<s, t>> \in B
<1> DEFINE Sizes == {n \in Nat : \E s \in R : n = Cardinality(Before(B, R, s))}
<1>1. Sizes # {} /\ Sizes \subseteq Nat
  BY BeforeGrows
<1>2. PICK n \in Sizes : \A m \in Sizes : <<m, n>> \notin OpToRel(<, Nat)
  <2> HIDE DEF Sizes
  <2> QED
    BY <1>1, NatLessThanWellFounded, WFMin
<1>3. PICK s \in R : n = Cardinality(Before(B, R, s))
  BY <1>2
<1>4. ASSUME NEW t \in R \ {s}, <<t, s>> \in B PROVE FALSE
  <2>1. /\ Cardinality(Before(B, R, t)) < n
        /\ Cardinality(Before(B, R, t)) \in Nat /\ n \in Nat
    BY <1>3, <1>4, BeforeGrows
  <2>2. Cardinality(Before(B, R, t)) \in Sizes
    BY <2>1
  <2> QED
    BY <1>2, <2>1, <2>2 DEF OpToRel
<1> QED
  BY <1>4 DEF Orders

\* A page that is not full is all there is; a full one is not empty; and what is
\* left over comes after all that is on it.
LEMMA PageIsFirst ==
  ASSUME NEW B, NEW R, IsFiniteSet(R), Orders(B, R), NEW N \in Nat \ {0}
  PROVE  /\ FirstRows(B, R, N) \subseteq R /\ IsFiniteSet(FirstRows(B, R, N))
         /\ Cardinality(FirstRows(B, R, N)) < N => FirstRows(B, R, N) = R
         /\ ~(Cardinality(FirstRows(B, R, N)) < N) => FirstRows(B, R, N) # {}
         /\ \A s \in R \ FirstRows(B, R, N), t \in FirstRows(B, R, N) : <<t, s>> \in B
<1> DEFINE page == FirstRows(B, R, N)
<1>1. page \in SUBSET R
  BY DEF FirstRows
<1>2. IsFiniteSet(page) /\ Cardinality(page) \in Nat
  BY <1>1, FS_Subset, FS_CardinalityType
<1>3. ASSUME NEW s \in R \ page, NEW t \in page PROVE <<t, s>> \in B
  <2>1. SUFFICES ASSUME <<s, t>> \in B PROVE FALSE
    BY <1>1, <1>3 DEF Orders
  <2>2. /\ Cardinality(Before(B, R, s)) < Cardinality(Before(B, R, t))
        /\ Cardinality(Before(B, R, s)) \in Nat /\ Cardinality(Before(B, R, t)) \in Nat
    BY <1>1, <2>1, BeforeGrows
  <2>3. Cardinality(Before(B, R, t)) < N /\ ~(Cardinality(Before(B, R, s)) < N)
    BY DEF FirstRows
  <2> QED
    BY <2>2, <2>3
<1>4. ASSUME Cardinality(page) < N, page # R PROVE FALSE
  <2>1. IsFiniteSet(R \ page) /\ R \ page # {}
    BY <1>1, <1>4, FS_Subset
  <2>2. Orders(B, R \ page)
    BY DEF Orders
  <2>3. PICK s \in R \ page : \A t \in (R \ page) \ {s} : <<s, t>> \in B
    BY <2>1, <2>2, FirstRow
  <2>4. Before(B, R, s) \in SUBSET page
    BY <2>3 DEF Before, Orders
  <2>5. Cardinality(Before(B, R, s)) <= Cardinality(page)
    BY <1>2, <2>4, FS_Subset
  <2>6. ~(Cardinality(Before(B, R, s)) < N) /\ Cardinality(Before(B, R, s)) \in Nat
    BY BeforeGrows DEF FirstRows
  <2> QED
    BY <1>2, <1>4, <2>5, <2>6
<1>5. ASSUME page = {} PROVE Cardinality(page) < N
  <2>1. Cardinality({}) = 0
    BY FS_EmptySet
  <2> HIDE DEF page
  <2> QED
    BY <1>5, <2>1
<1> QED
  BY <1>1, <1>2, <1>3, <1>4, <1>5

\* While the parts move, their steps are those of ListWalk ...
LEMMA ListsMove ==
  ASSUME [BackendNext]_allVars
  PROVE  /\ part = "sessions" => [Lists!ListNext]_listVars
         /\ part = "history" => [Lists!ChatNext]_listVars
<1>1. CASE BackendNext
  BY <1>1 DEF BackendNext
<1>2. CASE UNCHANGED allVars
  BY <1>2 DEF allVars, listVars
<1> QED
  BY <1>1, <1>2

\* ... and those of ClipTags.
LEMMA TagsMove ==
  ASSUME [BackendNext]_allVars, part = "tags"
  PROVE  [Tags!Next]_tagVars
<1>1. CASE BackendNext
  BY <1>1 DEF BackendNext
<1>2. CASE UNCHANGED allVars
  BY <1>2 DEF allVars, tagVars
<1> QED
  BY <1>1, <1>2

\* The Cardinality of ListWalk and ClipTags is that of FiniteSets.
LEMMA ListSizes ==
  ASSUME NEW S
  PROVE  Lists!Cardinality(S) = Cardinality(S) /\ Tags!Cardinality(S) = Cardinality(S)
BY DEF Lists!Cardinality, Tags!Cardinality, Cardinality

\* The order of the list: newest first.
NewerFirst == {p \in Ids \X Ids : Lists!Newer(p[1], p[2])}

LiveRow(s) == s \in Ids /\ sessionStarted[s] \in Nat

\* A walk that goes on has left behind all that it returned, and of what it wants
\* it has still ahead, or has lost to a tie, what it has not returned.
WalkInv ==
  /\ listClock \in Nat
  /\ sessionStarted \in [Ids -> Nat \cup {Never}]
  /\ IsFiniteSet(liveSessions) /\ \A s \in liveSessions \cup seen : LiveRow(s)
  /\ firstPage # NoEntry => IsFiniteSet(firstPage) /\ \A s \in firstPage : LiveRow(s)
  /\ ends \subseteq seen /\ wanted \subseteq liveSessions
  /\ cursor.time \in Nat /\ cursor.id \in Nat
  /\ ~twice
  /\ listWalk \in Lists!Walks
  /\ listWalk = "idle" => seen = {}
  /\ listWalk = "walking" => \A s \in seen : ~Lists!PastCursor(s)
  /\ listWalk = "walking" =>
       \A s \in wanted \ seen :
         Lists!PastCursor(s) \/ \E t \in ends : Lists!Milli(s) = Lists!Milli(t)
  /\ listWalk = "done" =>
       \A s \in wanted \ seen : \E t \in ends : Lists!Milli(s) = Lists!Milli(t)

\* The order is strict and total on the live sessions.
LEMMA NewerOrders ==
  ASSUME NEW R, \A s \in R : LiveRow(s)
  PROVE  Orders(NewerFirst, R)
<1>1. \A s \in R : s \in Nat /\ sessionStarted[s] \in Nat /\ s \in Ids
  BY BackendAssumption DEF LiveRow
<1> QED
  BY <1>1 DEF Orders, NewerFirst, Lists!Newer

\* Postgres' microseconds and the cursor's milliseconds.
LEMMA SameMilli ==
  ASSUME NEW p \in Nat \ {0}, NEW a \in Nat, NEW b \in Nat
  PROVE  /\ (b \div p) * p \in Nat /\ (b \div p) * p <= b
         /\ (b \div p) * p <= a /\ a <= b => a \div p = b \div p
<1>1. \A n \in Nat : /\ n \div p \in Nat
                     /\ (n \div p) * p <= n /\ n < (n \div p + 1) * p
  OBVIOUS
<1>2. (b \div p) * p \in Nat
  BY <1>1
<1>3. ASSUME NEW m \in Nat, NEW n \in Nat, m * p < (n + 1) * p PROVE m <= n
  BY <1>3
<1>4. ASSUME (b \div p) * p <= a, a <= b PROVE a \div p = b \div p
  <2> DEFINE q == b \div p  r == a \div p
  <2>1. q \in Nat /\ r \in Nat /\ q * p < (r + 1) * p /\ r * p < (q + 1) * p
    BY <1>1, <1>4
  <2> HIDE DEF q, r
  <2>2. q <= r /\ r <= q
    BY <1>3, <2>1
  <2> QED
    BY <2>1, <2>2 DEF q, r
<1> QED
  BY <1>1, <1>2, <1>4

Page(R) == FirstRows(NewerFirst, R, PageSize)

\* The page that is returned of the rows R.
LEMMA PageOfRows ==
  ASSUME NEW R, IsFiniteSet(R), \A s \in R : LiveRow(s)
  PROVE  /\ Page(R) = {s \in R : Lists!Cardinality({t \in R : Lists!Newer(t, s)}) < PageSize}
         /\ Page(R) \subseteq R /\ IsFiniteSet(Page(R))
         /\ Cardinality(Page(R)) < PageSize => Page(R) = R
         /\ ~(Cardinality(Page(R)) < PageSize) =>
              \E last \in Page(R) : \A t \in Page(R) \ {last} : Lists!Newer(t, last)
         /\ \A s \in R \ Page(R), t \in Page(R) : Lists!Newer(t, s)
<1>1. PageSize \in Nat \ {0}
  BY BackendAssumption
<1>2. Orders(NewerFirst, R)
  BY NewerOrders
<1>3. /\ Page(R) \subseteq R /\ IsFiniteSet(Page(R))
      /\ Cardinality(Page(R)) < PageSize => Page(R) = R
      /\ ~(Cardinality(Page(R)) < PageSize) => Page(R) # {}
      /\ \A s \in R \ Page(R), t \in Page(R) : <<t, s>> \in NewerFirst
  BY <1>1, <1>2, PageIsFirst DEF Page
<1>4. \A s \in R : Before(NewerFirst, R, s) = {t \in R : Lists!Newer(t, s)}
  BY DEF Before, NewerFirst, LiveRow
<1>5. Page(R) = {s \in R : Lists!Cardinality({t \in R : Lists!Newer(t, s)}) < PageSize}
  BY <1>4, ListSizes DEF Page, FirstRows
<1>6. \A s \in R \ Page(R), t \in Page(R) : Lists!Newer(t, s)
  BY <1>3 DEF NewerFirst
<1>7. ASSUME Page(R) # {}
      PROVE  \E last \in Page(R) : \A t \in Page(R) \ {last} : Lists!Newer(t, last)
  <2> DEFINE older == {p \in Ids \X Ids : <<p[2], p[1]>> \in NewerFirst}
             page == Page(R)
  <2>1. Orders(older, page)
    BY <1>2, <1>3 DEF Orders, LiveRow
  <2>2. PICK last \in page : \A t \in page \ {last} : <<last, t>> \in older
    <3>1. IsFiniteSet(page) /\ page # {}
      BY <1>3, <1>7
    <3> HIDE DEF older, page
    <3> QED
      BY <2>1, <3>1, FirstRow
  <2> QED
    BY <2>2 DEF NewerFirst
<1> QED
  BY <1>3, <1>5, <1>6, <1>7

\* Past the last row of a full page come the rows that are older, but for those of
\* its millisecond; and nothing that was returned.
LEMMA NextCursor ==
  ASSUME WalkInv, NEW last, LiveRow(last),
         NEW time \in Nat, time = (sessionStarted[last] \div PerMilli) * PerMilli
  PROVE  \A s : LiveRow(s) =>
           /\ s = last \/ Lists!Newer(s, last) =>
                ~(sessionStarted[s] < time \/ (sessionStarted[s] = time /\ s < last))
           /\ Lists!Newer(last, s) =>
                \/ sessionStarted[s] < time \/ (sessionStarted[s] = time /\ s < last)
                \/ Lists!Milli(s) = Lists!Milli(last)
<1>1. PerMilli \in Nat \ {0} /\ Ids \subseteq Nat \ {0}
  BY BackendAssumption
<1>2. TAKE s
<1>3. HAVE LiveRow(s)
<1>4. /\ sessionStarted[s] \in Nat /\ sessionStarted[last] \in Nat
      /\ s \in Nat /\ last \in Nat
  BY <1>1, <1>3 DEF LiveRow
<1>5. /\ time <= sessionStarted[last]
      /\ time <= sessionStarted[s] /\ sessionStarted[s] <= sessionStarted[last] =>
           Lists!Milli(s) = Lists!Milli(last)
  BY <1>1, <1>4, SameMilli DEF Lists!Milli
<1> QED
  BY <1>4, <1>5 DEF Lists!Newer

\* Each page keeps the invariant of the walk: the rows R it is taken from come after
\* all that was returned, and what the walk wants is among them or lost to a tie.
LEMMA PageStep ==
  ASSUME WalkInv, NEW R, Lists!Return(R), IsFiniteSet(R),
         UNCHANGED <<listClock, sessionStarted, liveSessions>>,
         \A s \in R : LiveRow(s),
         \A s \in seen, t \in R : s # t /\ Lists!Newer(s, t),
         firstPage' # NoEntry => IsFiniteSet(firstPage') /\ \A s \in firstPage' : LiveRow(s),
         wanted' \subseteq liveSessions,
         \A s \in wanted' \ seen :
           s \in R \/ \E t \in ends : Lists!Milli(s) = Lists!Milli(t)
  PROVE  WalkInv'
<1> DEFINE page == Page(R)
<1>0. /\ page \subseteq R /\ Cardinality(page) < PageSize => page = R
      /\ ~(Cardinality(page) < PageSize) =>
              \E last \in page : \A t \in page \ {last} : Lists!Newer(t, last)
      /\ \A s \in R \ page, t \in page : Lists!Newer(t, s)
      /\ Lists!Cardinality(page) = Cardinality(page)
      /\ {s \in R : Lists!Cardinality({t \in R : Lists!Newer(t, s)}) < PageSize} = page
  BY PageOfRows, ListSizes
<1> HIDE DEF page
<1>1. /\ seen' = seen \cup page
      /\ twice' = (twice \/ page \cap seen # {})
      /\ Cardinality(page) < PageSize => listWalk' = "done" /\ UNCHANGED <<cursor, ends>>
      /\ ~(Cardinality(page) < PageSize) =>
           LET last == CHOOSE s \in page : \A t \in page \ {s} : Lists!Newer(t, s)
           IN  /\ cursor' = Lists!FormatListCursor(last) /\ ends' = ends \cup {last}
               /\ listWalk' = "walking"
  BY <1>0 DEF Lists!Return
<1>2. \A s \in liveSessions \cup seen \cup page : LiveRow(s)
  BY <1>0 DEF WalkInv
<1>4. twice' = FALSE
  BY <1>0, <1>1 DEF WalkInv
<1>5. \A s : Lists!Milli(s)' = Lists!Milli(s) /\ LiveRow(s)' = LiveRow(s)
  BY DEF Lists!Milli, LiveRow
<1>6. CASE Cardinality(page) < PageSize
  <2>1. page = R
    BY <1>0, <1>6
  <2>2. \A s \in wanted' \ (seen \cup page) : \E t \in ends : Lists!Milli(s) = Lists!Milli(t)
    BY <2>1
  <2> QED
    BY <1>1, <1>2, <1>4, <1>5, <1>6, <2>2 DEF WalkInv, Lists!Walks
<1>7. CASE ~(Cardinality(page) < PageSize)
  <2>1. PICK last \in page :
          /\ \A t \in page \ {last} : Lists!Newer(t, last)
          /\ cursor' = Lists!FormatListCursor(last) /\ ends' = ends \cup {last}
          /\ listWalk' = "walking"
    <3> DEFINE L == CHOOSE s \in page : \A t \in page \ {s} : Lists!Newer(t, s)
    <3>1. L \in page /\ \A t \in page \ {L} : Lists!Newer(t, L)
      BY <1>0, <1>7
    <3>2. /\ cursor' = Lists!FormatListCursor(L) /\ ends' = ends \cup {L}
          /\ listWalk' = "walking"
      BY <1>1, <1>7
    <3> HIDE DEF L
    <3> QED
      BY <3>1, <3>2
  <2>2. LiveRow(last)
    BY <1>2
  <2>3. PICK time \in Nat : time = (sessionStarted[last] \div PerMilli) * PerMilli
    BY <2>2, SameMilli, BackendAssumption DEF LiveRow
  <2>4. cursor'.time = time /\ cursor'.id = last
    BY <2>1, <2>3 DEF Lists!FormatListCursor
  <2>5. \A s : Lists!PastCursor(s)' =
                 (sessionStarted[s] < time \/ (sessionStarted[s] = time /\ s < last))
    BY <2>4 DEF Lists!PastCursor
  <2>6. ASSUME NEW s \in seen \cup page PROVE ~Lists!PastCursor(s)'
    <3>1. s = last \/ Lists!Newer(s, last)
      BY <1>0, <2>1
    <3> QED
      BY <1>2, <2>2, <2>3, <2>5, <3>1, NextCursor
  <2>7. ASSUME NEW s \in wanted' \ (seen \cup page)
        PROVE  Lists!PastCursor(s)' \/ \E t \in ends' : Lists!Milli(s) = Lists!Milli(t)
    <3>1. CASE s \in R
      <4>1. Lists!Newer(last, s) /\ LiveRow(s)
        BY <1>0, <2>1, <2>7, <3>1
      <4>2. \/ sessionStarted[s] < time \/ (sessionStarted[s] = time /\ s < last)
            \/ Lists!Milli(s) = Lists!Milli(last)
        BY <2>2, <2>3, <4>1, NextCursor
      <4>3. last \in ends'
        BY <2>1
      <4> QED
        BY <2>5, <4>2, <4>3
    <3>2. CASE s \notin R
      BY <2>1, <2>7, <3>2
    <3> QED
      BY <3>1, <3>2
  <2>8. last \in Nat
    BY <2>2, BackendAssumption DEF LiveRow
  <2> QED
    BY <1>1, <1>2, <1>4, <1>5, <2>1, <2>3, <2>4, <2>6, <2>7, <2>8 DEF WalkInv, Lists!Walks
<1> QED
  BY <1>6, <1>7

\* The first page: it is taken from what was live when it was read.
LEMMA FirstStep == ASSUME WalkInv, Lists!Aside PROVE WalkInv'
<1>1. PICK page \in {firstPage, liveSessions} \ {NoEntry} :
        /\ Lists!Return(page) /\ wanted' = page \cap liveSessions /\ firstPage' = page
  BY DEF Lists!Aside
<1>2. UNCHANGED <<listClock, sessionStarted, liveSessions>> /\ seen = {}
  BY DEF Lists!Aside, WalkInv
<1>3. IsFiniteSet(page) /\ \A s \in page : LiveRow(s)
  BY <1>1 DEF WalkInv
<1> QED
  BY <1>1, <1>2, <1>3, PageStep

Rest == {s \in liveSessions : Lists!PastCursor(s)}

\* Every later one: past the cursor are the rows that come after all that was
\* returned.
LEMMA RestOfWalk ==
  ASSUME WalkInv, listWalk = "walking"
  PROVE  /\ IsFiniteSet(Rest) /\ \A s \in Rest : LiveRow(s)
         /\ \A s \in seen, t \in Rest : s # t /\ Lists!Newer(s, t)
<1>1. IsFiniteSet(Rest)
  <2>1. Rest \in SUBSET liveSessions
    BY DEF Rest
  <2> QED
    BY <2>1, FS_Subset DEF WalkInv
<1>2. ASSUME NEW s \in seen, NEW t \in Rest PROVE s # t /\ Lists!Newer(s, t)
  <2>1. ~Lists!PastCursor(s) /\ Lists!PastCursor(t) /\ LiveRow(s) /\ LiveRow(t)
    BY DEF WalkInv, Rest
  <2>2. /\ sessionStarted[s] \in Nat /\ sessionStarted[t] \in Nat
        /\ cursor.time \in Nat /\ cursor.id \in Nat
        /\ s \in Nat /\ t \in Nat
    BY <2>1, BackendAssumption DEF LiveRow, WalkInv
  <2> QED
    BY <2>1, <2>2 DEF Lists!PastCursor, Lists!Newer
<1> QED
  BY <1>1, <1>2 DEF WalkInv, Rest

\* It keeps the invariant as well.
LEMMA LaterStep == ASSUME WalkInv, Lists!ListActiveCursor PROVE WalkInv'
<1>1. /\ listWalk = "walking" /\ Lists!Return(Rest)
      /\ UNCHANGED <<listClock, sessionStarted, liveSessions, firstPage, wanted>>
  BY DEF Lists!ListActiveCursor, Rest
<1>2. \A s \in wanted' \ seen :
        s \in Rest \/ \E t \in ends : Lists!Milli(s) = Lists!Milli(t)
  BY <1>1 DEF WalkInv, Rest
<1>3. /\ wanted' \subseteq liveSessions
      /\ firstPage' # NoEntry => IsFiniteSet(firstPage') /\ \A s \in firstPage' : LiveRow(s)
  BY <1>1 DEF WalkInv
<1> QED
  BY <1>1, <1>2, <1>3, RestOfWalk, PageStep

\* So do the sessions that come and go meanwhile.
LEMMA WalkStep == ASSUME WalkInv, [Lists!ListNext]_listVars PROVE WalkInv'
<1>0. Never \notin Nat
  BY BackendAssumption
<1> USE DEF Lists!listVars, Lists!chatVars
<1>1. CASE UNCHANGED listVars
  BY <1>1 DEF listVars, WalkInv, LiveRow, Lists!Milli, Lists!PastCursor
<1>2. CASE Lists!Tick
  BY <1>2 DEF Lists!Tick, WalkInv, LiveRow, Lists!Milli, Lists!PastCursor
<1>3. CASE Lists!Poll \/ Lists!Expire
  BY <1>3 DEF Lists!Poll, Lists!Expire, WalkInv, LiveRow, Lists!Milli, Lists!PastCursor
<1>4. CASE Lists!Aside \/ Lists!ListActiveCursor
  BY <1>4, FirstStep, LaterStep
<1>5. ASSUME NEW s \in Ids, Lists!GoLive(s)
      PROVE  WalkInv'
  <2>1. /\ s \notin liveSessions \cup seen
        /\ \A t \in Ids \ {s} : sessionStarted'[t] = sessionStarted[t]
        /\ sessionStarted'[s] \in Nat /\ sessionStarted' \in [Ids -> Nat \cup {Never}]
    BY <1>0, <1>5 DEF Lists!GoLive, WalkInv, LiveRow
  <2>2. \A t : LiveRow(t) =>
          /\ LiveRow(t)' /\ Lists!Milli(t)' = Lists!Milli(t)
          /\ Lists!PastCursor(t)' = Lists!PastCursor(t)
    <3>1. \A t : LiveRow(t) => t \in Ids /\ t # s
      BY <1>0, <1>5 DEF Lists!GoLive, LiveRow
    <3>2. cursor' = cursor
      BY <1>5 DEF Lists!GoLive
    <3> QED
      BY <2>1, <3>1, <3>2 DEF LiveRow, Lists!Milli, Lists!PastCursor
  <2>3. IsFiniteSet(liveSessions') /\ \A t \in liveSessions' : LiveRow(t)'
    <3>1. IsFiniteSet(liveSessions')
      BY <1>5, FS_AddElement DEF Lists!GoLive, WalkInv
    <3>2. LiveRow(s)'
      BY <2>1 DEF LiveRow
    <3> QED
      BY <1>5, <2>2, <3>1, <3>2 DEF Lists!GoLive, WalkInv
  <2> QED
    BY <1>5, <2>1, <2>2, <2>3 DEF Lists!GoLive, WalkInv
<1>6. ASSUME NEW s \in Ids, Lists!End(s)
      PROVE  WalkInv'
  <2>1. IsFiniteSet(liveSessions')
    BY <1>6, FS_RemoveElement DEF Lists!End, WalkInv
  <2> QED
    BY <1>6, <2>1 DEF Lists!End, WalkInv, LiveRow, Lists!Milli, Lists!PastCursor
<1> QED
  BY <1>1, <1>2, <1>3, <1>4, <1>5, <1>6 DEF Lists!ListNext

\* The order of the history: highest number first.
HighFirst == {p \in Nat \X Nat : p[1] > p[2]}

\* A walk through the history has still ahead what it wants and has not read.
HistoryInv ==
  /\ chatSeqs \subseteq 1..MaxSeq /\ wantedChats \subseteq chatSeqs
  /\ nextSeq \in Nat \ {0} /\ beforeSeq \in Nat
  /\ chatWalk \in Lists!Walks
  /\ chatWalk = "idle" => beforeSeq = 0
  /\ chatWalk = "walking" => \A n \in wantedChats \ read : beforeSeq = 0 \/ n < beforeSeq
  /\ Lists!HistoryIsWhole

OlderChats == {n \in chatSeqs : beforeSeq = 0 \/ n < beforeSeq}
ChatPage == FirstRows(HighFirst, OlderChats, PageSize)

\* The page that ChatHistory returns.
LEMMA PageOfChats ==
  ASSUME HistoryInv
  PROVE  /\ ChatPage = {n \in OlderChats :
                          Lists!Cardinality({k \in OlderChats : k > n}) < PageSize}
         /\ ChatPage \subseteq OlderChats
         /\ Cardinality(ChatPage) < PageSize => ChatPage = OlderChats
         /\ ~(Cardinality(ChatPage) < PageSize) =>
              /\ Lists!Min(ChatPage) \in Nat /\ Lists!Min(ChatPage) \in OlderChats
              /\ \A n \in OlderChats \ ChatPage : n < Lists!Min(ChatPage)
<1>1. IsFiniteSet(OlderChats) /\ OlderChats \subseteq Nat /\ PageSize \in Nat \ {0}
  <2>1. MaxSeq \in Nat /\ PageSize \in Nat \ {0}
    BY BackendAssumption
  <2>2. OlderChats \in SUBSET (1..MaxSeq)
    BY DEF HistoryInv, OlderChats
  <2>3. IsFiniteSet(1..MaxSeq)
    BY <2>1, FS_Interval
  <2>4. IsFiniteSet(OlderChats)
    BY <2>2, <2>3, FS_Subset
  <2> QED
    BY <2>1, <2>2, <2>4
<1>2. Orders(HighFirst, OlderChats)
  BY <1>1 DEF Orders, HighFirst
<1>3. /\ ChatPage \subseteq OlderChats
      /\ Cardinality(ChatPage) < PageSize => ChatPage = OlderChats
      /\ ~(Cardinality(ChatPage) < PageSize) => ChatPage # {}
      /\ \A n \in OlderChats \ ChatPage, k \in ChatPage : k > n
  BY <1>1, <1>2, PageIsFirst DEF ChatPage, HighFirst
<1>4. \A n \in OlderChats : Before(HighFirst, OlderChats, n) = {k \in OlderChats : k > n}
  BY <1>1 DEF Before, HighFirst
<1>5. ChatPage = {n \in OlderChats : Lists!Cardinality({k \in OlderChats : k > n}) < PageSize}
  BY <1>4, ListSizes DEF ChatPage, FirstRows
<1>6. ASSUME ChatPage # {} PROVE Lists!Min(ChatPage) \in ChatPage
  <2>1. PICK n \in ChatPage : \A k \in ChatPage : <<k, n>> \notin OpToRel(<, Nat)
    BY <1>1, <1>3, <1>6, NatLessThanWellFounded, WFMin
  <2>2. ChatPage \subseteq Nat
    BY <1>1, <1>3
  <2>3. \A k \in ChatPage : ~(k < n)
    BY <2>1, <2>2 DEF OpToRel
  <2>4. \A k \in ChatPage : n <= k
    BY <2>2, <2>3
  <2> QED
    BY <2>4 DEF Lists!Min
<1> QED
  BY <1>1, <1>3, <1>5, <1>6

\* Posting, late commits and pages keep the invariant.
LEMMA HistoryStep == ASSUME HistoryInv, [Lists!ChatNext]_listVars PROVE HistoryInv'
<1>0. MaxSeq \in Nat
  BY BackendAssumption
<1> USE DEF Lists!listVars, Lists!chatVars, HistoryInv, Lists!HistoryIsWhole, Lists!Walks
<1>1. CASE UNCHANGED listVars
  BY <1>1 DEF listVars
<1>2. CASE Lists!PostChat
  <2>1. nextSeq \in 1..MaxSeq /\ nextSeq' \in Nat \ {0}
    BY <1>0, <1>2 DEF Lists!PostChat
  <2>2. chatSeqs \subseteq chatSeqs' /\ chatSeqs' \subseteq 1..MaxSeq
    BY <1>2, <2>1 DEF Lists!PostChat
  <2> QED
    BY <1>2, <2>1, <2>2 DEF Lists!PostChat
<1>3. CASE Lists!BeginHistory
  BY <1>3 DEF Lists!BeginHistory
<1>4. CASE Lists!ChatHistory
  <2>1. /\ chatWalk = "walking" /\ read' = read \cup ChatPage
        /\ UNCHANGED <<chatSeqs, nextSeq, wantedChats>>
        /\ Cardinality(ChatPage) < PageSize => chatWalk' = "done" /\ UNCHANGED beforeSeq
        /\ ~(Cardinality(ChatPage) < PageSize) =>
             beforeSeq' = Lists!Min(ChatPage) /\ UNCHANGED chatWalk
    BY <1>4, PageOfChats, ListSizes DEF Lists!ChatHistory, Lists!NextBefore, OlderChats
  <2>2. CASE Cardinality(ChatPage) < PageSize
    BY <2>1, <2>2, PageOfChats DEF OlderChats
  <2>3. CASE ~(Cardinality(ChatPage) < PageSize)
    BY <2>1, <2>3, PageOfChats DEF OlderChats
  <2> QED
    BY <2>2, <2>3
<1>5. ASSUME NEW n \in 1..MaxSeq, Lists!CommitLate(n)
      PROVE  HistoryInv'
  BY <1>0, <1>5 DEF Lists!CommitLate
<1> HIDE DEF HistoryInv
<1> QED
  BY <1>1, <1>2, <1>3, <1>4, <1>5 DEF Lists!ChatNext

\* Where an item comes first in the selection.
FirstAt(n, i) ==
  /\ n \in DOMAIN selection /\ selection[n] = i
  /\ \A m \in 1..(n - 1) : selection[m] # i

\* The loop has linked each item it could at the item's first place, and rows have
\* the order of these places.
TagInv ==
  /\ selection \in Seq(Items)
  /\ turn \in Nat \ {0}
  /\ IsFiniteSet(tags)
  /\ \A t \in tags :
       /\ t.id \in allowed /\ t.order \in Nat /\ t.order < Cardinality(tags)
       /\ \E n \in 1..(turn - 1) : FirstAt(n, t.id)
  /\ \A t, u \in tags :
       /\ t.order = u.order => t = u
       /\ \A m, n \in 1..(turn - 1) :
            t.order < u.order /\ FirstAt(m, t.id) /\ FirstAt(n, u.id) => m < n
  /\ taggedClip \in {"none", "select"} => tags = {} /\ allowed = {} /\ turn = 1
  /\ taggedClip = "none" => selection = <<>>
  /\ taggedClip = "link" =>
       /\ allowed \subseteq Tags!ToSet(selection)
       /\ \A i \in allowed \ Tags!Tagged : \A n \in 1..(turn - 1) : selection[n] # i
  /\ taggedClip = "created" => Tags!Tagged = allowed

\* The first state has no clip.
LEMMA TagInit == ASSUME Tags!Init PROVE TagInv
BY FS_EmptySet DEF Tags!Init, TagInv, Tags!Tagged

\* A turn of the loop keeps it.
LEMMA LinkStep == ASSUME TagInv, Tags!Link PROVE TagInv'
<1> DEFINE i == selection[turn]
           row == [id |-> i, order |-> Cardinality(tags)]
<1>1. /\ taggedClip = "link" /\ turn \in 1..Len(selection) /\ turn' = turn + 1
      /\ tags' = IF i \in allowed \ Tags!Tagged THEN tags \cup {row} ELSE tags
      /\ UNCHANGED <<activeItems, selection, anyShop, allowed, taggedClip>>
  <2>1. Tags!Cardinality(tags) = Cardinality(tags)
    BY ListSizes
  <2>2. turn \in Nat \ {0} /\ Len(selection) \in Nat
    BY DEF TagInv
  <2> QED
    BY <2>1, <2>2 DEF Tags!Link
<1>2. turn \in Nat \ {0} /\ selection \in Seq(Items) /\ Cardinality(tags) \in Nat
  BY FS_CardinalityType DEF TagInv
<1>3. \A n, j : FirstAt(n, j)' = FirstAt(n, j)
  BY <1>1 DEF FirstAt
<1>4. CASE i \notin allowed \ Tags!Tagged
  <2>1. tags' = tags /\ Tags!Tagged' = Tags!Tagged
    BY <1>1, <1>4 DEF Tags!Tagged
  <2>2. \A t \in tags : \A n \in 1..turn : FirstAt(n, t.id) => n \in 1..(turn - 1)
    BY <1>2 DEF FirstAt, TagInv
  <2> QED
    BY <1>1, <1>2, <1>3, <1>4, <2>1, <2>2 DEF TagInv
<1>5. CASE i \in allowed \ Tags!Tagged
  <2>1. tags' = tags \cup {row} /\ Tags!Tagged' = Tags!Tagged \cup {i}
    <3>1. tags' = tags \cup {row} /\ row.id = i
      BY <1>1, <1>5
    <3> HIDE DEF row
    <3> QED
      BY <3>1 DEF Tags!Tagged
  <2>2. row \notin tags
    BY <1>5 DEF Tags!Tagged
  <2>3. IsFiniteSet(tags') /\ Cardinality(tags') = Cardinality(tags) + 1
    BY <2>1, <2>2, FS_AddElement DEF TagInv
  <2>4. FirstAt(turn, i)
    BY <1>1, <1>2, <1>5 DEF FirstAt, TagInv
  <2>5. \A t \in tags : \A n \in 1..turn : FirstAt(n, t.id) => n \in 1..(turn - 1)
    BY <1>2 DEF FirstAt, TagInv
  <2>6. \A n \in 1..turn : FirstAt(n, i) => n = turn
    BY <1>2, <2>4 DEF FirstAt
  <2>7. \A t \in tags' :
          /\ t.id \in allowed /\ t.order \in Nat /\ t.order < Cardinality(tags')
          /\ \E n \in 1..turn : FirstAt(n, t.id)
    BY <1>2, <1>5, <2>1, <2>3, <2>4 DEF TagInv
  <2>8. \A t, u \in tags' :
          /\ t.order = u.order => t = u
          /\ \A m, n \in 1..turn :
               t.order < u.order /\ FirstAt(m, t.id) /\ FirstAt(n, u.id) => m < n
    <3> TAKE t, u \in tags'
    <3>1. CASE t \in tags /\ u \in tags
      BY <2>5, <3>1 DEF TagInv
    <3>2. CASE t \in tags /\ u = row
      BY <1>2, <2>5, <2>6, <3>2 DEF TagInv
    <3>3. CASE t = row /\ u \in tags
      BY <1>2, <3>3 DEF TagInv
    <3>4. CASE t = row /\ u = row
      BY <1>2, <3>4
    <3> QED
      BY <2>1, <3>1, <3>2, <3>3, <3>4
  <2>9. 1..(turn' - 1) = 1..turn
    BY <1>1, <1>2
  <2>10. \A j \in allowed \ Tags!Tagged' : \A n \in 1..turn : selection[n] # j
    <3> SUFFICES ASSUME NEW j \in allowed \ Tags!Tagged', NEW n \in 1..turn
                 PROVE  selection[n] # j
      OBVIOUS
    <3>1. CASE n = turn
      BY <2>1, <3>1
    <3>2. CASE n \in 1..(turn - 1)
      BY <1>1, <2>1, <3>2 DEF TagInv
    <3> QED
      BY <1>2, <3>1, <3>2
  <2> HIDE DEF row, i
  <2>11. \A t \in tags' : \E n \in 1..(turn' - 1) : FirstAt(n, t.id)'
    BY <1>3, <2>7, <2>9
  <2>12. \A t, u \in tags' : \A m, n \in 1..(turn' - 1) :
           t.order < u.order /\ FirstAt(m, t.id)' /\ FirstAt(n, u.id)' => m < n
    BY <1>3, <2>8, <2>9
  <2>13. \A t, u \in tags' : t.order = u.order => t = u
    BY <2>8
  <2>14. \A t \in tags' : t.id \in allowed' /\ t.order \in Nat /\ t.order < Cardinality(tags')
    BY <1>1, <2>7
  <2>15. \A j \in allowed' \ Tags!Tagged' : \A n \in 1..(turn' - 1) : selection'[n] # j
    BY <1>1, <2>9, <2>10
  <2>16. allowed' \subseteq Tags!ToSet(selection)'
    BY <1>1 DEF TagInv, Tags!ToSet
  <2>17. /\ selection' \in Seq(Items) /\ turn' \in Nat \ {0} /\ IsFiniteSet(tags')
         /\ taggedClip' \notin {"none", "select", "created"}
    BY <1>1, <1>2, <2>3
  <2>18. taggedClip' # "none" /\ taggedClip' # "created"
    BY <2>17
  <2> QED
    BY <2>11, <2>12, <2>13, <2>14, <2>15, <2>16, <2>17, <2>18, ZenonT(30) DEF TagInv
<1> QED
  BY <1>4, <1>5

\* So do the other statements of the transaction, and what is for sale.
LEMMA TagStep == ASSUME TagInv, [Tags!Next]_tagVars PROVE TagInv'
<1>1. CASE UNCHANGED tagVars
  BY <1>1 DEF tagVars, TagInv, FirstAt, Tags!Tagged, Tags!ToSet
<1>2. ASSUME NEW i \in Items, Tags!Deactivate(i) \/ Tags!Activate(i)
      PROVE  TagInv'
  <2>1. UNCHANGED <<selection, allowed, turn, tags, taggedClip>>
    BY <1>2 DEF Tags!Deactivate, Tags!Activate
  <2>2. /\ Tags!Tagged' = Tags!Tagged
        /\ Tags!ToSet(selection)' = Tags!ToSet(selection)
        /\ \A n, j : FirstAt(n, j)' <=> FirstAt(n, j)
    BY <2>1 DEF FirstAt, Tags!Tagged, Tags!ToSet
  <2> QED
    BY <2>1, <2>2 DEF TagInv
<1>3. ASSUME NEW s \in Selections, NEW admin \in BOOLEAN, Tags!Create(s, admin)
      PROVE  TagInv'
  <2>1. s \in Seq(Items)
    BY BackendAssumption
  <2>2. /\ tags' = {} /\ allowed' = {} /\ turn' = 1 /\ selection' = s
        /\ taggedClip' \in {"created", "select"}
    BY <1>3 DEF Tags!Create, TagInv
  <2>3. Tags!Tagged' = {}
    BY <2>2 DEF Tags!Tagged
  <2> QED
    BY <2>1, <2>2, <2>3, FS_EmptySet DEF TagInv
<1>4. CASE Tags!SelectAllowed
  <2>1. /\ tags = {} /\ tags' = {} /\ turn' = 1 /\ selection' = selection
        /\ taggedClip' = "link" /\ allowed' \subseteq Tags!ToSet(selection)
    BY <1>4 DEF Tags!SelectAllowed, TagInv
  <2>2. Tags!ToSet(selection)' = Tags!ToSet(selection)
    BY <2>1 DEF Tags!ToSet
  <2> QED
    BY <2>1, <2>2, FS_EmptySet DEF TagInv
<1>5. CASE Tags!Link
  BY <1>5, LinkStep
<1>6. CASE Tags!Commit
  <2>1. /\ taggedClip = "link" /\ taggedClip' = "created" /\ ~(turn <= Len(selection))
        /\ UNCHANGED <<selection, allowed, turn, tags>>
    BY <1>6 DEF Tags!Commit, TagInv
  <2>2. Tags!Tagged = allowed
    <3>1. Tags!Tagged \subseteq allowed
      BY DEF TagInv, Tags!Tagged
    <3>2. ASSUME NEW j \in allowed, j \notin Tags!Tagged PROVE FALSE
      <4>1. PICK n \in DOMAIN selection : selection[n] = j
        BY <2>1, <3>2 DEF TagInv, Tags!ToSet
      <4>2. n \in 1..(turn - 1)
        BY <2>1, <4>1 DEF TagInv
      <4> QED
        BY <2>1, <3>2, <4>1, <4>2 DEF TagInv
    <3> QED
      BY <3>1, <3>2
  <2>3. Tags!Tagged' = Tags!Tagged
    BY <2>1 DEF Tags!Tagged
  <2> QED
    BY <2>1, <2>2, <2>3 DEF TagInv, FirstAt
<1>7. CASE Tags!Rollback
  <2>1. /\ tags' = {} /\ taggedClip' = "failed"
        /\ UNCHANGED <<selection, turn>>
    BY <1>7 DEF Tags!Rollback
  <2> QED
    BY <2>1, FS_EmptySet DEF TagInv
<1> QED
  BY <1>1, <1>2, <1>3, <1>4, <1>5, <1>6, <1>7 DEF Tags!Next

\* Each card has a place of its own, and every place is taken.
LEMMA PlacesAreTaken ==
  ASSUME TagInv
  PROVE  /\ \A t \in Tags!Shown : Tags!Place(t) \in 1..Cardinality(Tags!Shown)
         /\ \A t, u \in Tags!Shown : t # u => Tags!Place(t) # Tags!Place(u)
         /\ \A t, u \in Tags!Shown : Tags!Place(t) < Tags!Place(u) => t.order < u.order
         /\ \A n \in 1..Cardinality(Tags!Shown) : \E t \in Tags!Shown : Tags!Place(t) = n
<1> DEFINE S == Tags!Shown
           B == {p \in S \X S : p[1].order < p[2].order}
<1>1. IsFiniteSet(S) /\ S \subseteq tags /\ Cardinality(S) \in Nat
  <2>1. S \in SUBSET tags /\ IsFiniteSet(tags)
    BY DEF Tags!Shown, TagInv
  <2> QED
    BY <2>1, FS_Subset, FS_CardinalityType
<1>2. \A t \in S : t.order \in Nat
  BY <1>1 DEF TagInv
<1>3. \A t, u \in S : t # u => t.order # u.order
  BY <1>1 DEF TagInv
<1>4. Orders(B, S)
  <2> HIDE DEF S
  <2> QED
    BY <1>2, <1>3 DEF Orders
<1>5. \A t \in S : Before(B, S, t) = {u \in S : u.order < t.order}
  <2> HIDE DEF S
  <2> QED
    BY DEF Before
<1>6. \A t \in S : Tags!Place(t) = 1 + Cardinality(Before(B, S, t))
  BY <1>5, ListSizes DEF Tags!Place
<1> HIDE DEF S
<1>7. \A t \in S : Cardinality(Before(B, S, t)) \in Nat
  BY <1>1, <1>4, BeforeGrows
<1>8. \A t, u \in S : t.order < u.order =>
        Cardinality(Before(B, S, t)) < Cardinality(Before(B, S, u))
  <2>1. \A t, u \in S : t.order < u.order => <<t, u>> \in B
    OBVIOUS
  <2> HIDE DEF B
  <2> QED
    BY <1>1, <1>4, <2>1, BeforeGrows
<1> HIDE DEF B
<1>9. \A t \in S : Cardinality(Before(B, S, t)) < Cardinality(S)
  <2> SUFFICES ASSUME NEW t \in S PROVE Cardinality(Before(B, S, t)) < Cardinality(S)
    OBVIOUS
  <2>1. Before(B, S, t) \in SUBSET S /\ t \notin Before(B, S, t)
    BY <1>4 DEF Before, Orders
  <2> QED
    BY <1>1, <1>7, <2>1, FS_Subset
<1>10. \A t \in S : Tags!Place(t) \in 1..Cardinality(S)
  BY <1>1, <1>6, <1>7, <1>9
<1>11. \A t, u \in S : t.order < u.order => Tags!Place(t) < Tags!Place(u)
  BY <1>6, <1>7, <1>8
<1>12. \A t, u \in S : t # u => Tags!Place(t) # Tags!Place(u)
  BY <1>2, <1>3, <1>10, <1>11
<1>13. \A t, u \in S : Tags!Place(t) < Tags!Place(u) => t.order < u.order
  BY <1>2, <1>3, <1>10, <1>11
<1>14. \A n \in 1..Cardinality(S) : \E t \in S : Tags!Place(t) = n
  <2> DEFINE N == 1..Cardinality(S)
             f == [t \in S |-> Tags!Place(t)]
  <2>1. f \in [S -> N] /\ \A t, u \in S : f[t] = f[u] => t = u
    BY <1>10, <1>12
  <2>2. IsFiniteSet(N) /\ Cardinality(N) = Cardinality(S)
    BY <1>1, FS_Interval
  <2>3. \A t \in S : f[t] = Tags!Place(t)
    OBVIOUS
  <2> HIDE DEF f, N
  <2>4. f \in Injection(S, N)
    BY <2>1 DEF Injection, IsInjective
  <2>5. f \in Surjection(S, N)
    BY <2>2, <2>4, FS_Injection
  <2>6. \A n \in N : \E t \in S : f[t] = n
    BY <2>5 DEF Surjection
  <2> QED
    BY <2>3, <2>6 DEF N
<1> QED
  BY <1>10, <1>12, <1>13, <1>14 DEF S

\* So the cards are in the order the items were chosen in.
LEMMA CardsInOrder == ASSUME TagInv PROVE Tags!CardsAsChosen
<1> DEFINE S == Tags!Shown
           K == Cardinality(S)
           row(n) == CHOOSE t \in S : Tags!Place(t) = n
<1>1. S \subseteq tags /\ S = {t \in tags : t.id \in activeItems}
  BY DEF Tags!Shown
<1>2. \A n \in 1..K : row(n) \in S /\ Tags!Place(row(n)) = n
  BY PlacesAreTaken
<1>3. \A t \in S : Tags!Place(t) \in 1..K /\ row(Tags!Place(t)) = t
  BY <1>2, PlacesAreTaken
<1>4. \A t, u \in S : Tags!Place(t) < Tags!Place(u) => t.order < u.order
  BY PlacesAreTaken
<1>5. Tags!Cards = [n \in 1..K |-> row(n).id]
  BY ListSizes DEF Tags!Cards
<1>6. \A i : \A n : FirstAt(n, i) => Tags!Rank(i) = n
  <2> SUFFICES ASSUME NEW i, NEW n, FirstAt(n, i) PROVE Tags!Rank(i) = n
    OBVIOUS
  <2>1. \A m : FirstAt(m, i) => m = n
    <3> SUFFICES ASSUME NEW m, FirstAt(m, i) PROVE m = n
      OBVIOUS
    <3>1. DOMAIN selection = 1..Len(selection) /\ Len(selection) \in Nat
      BY DEF TagInv
    <3>2. m \in Nat \ {0} /\ n \in Nat \ {0}
      BY <3>1 DEF FirstAt
    <3> QED
      BY <3>2 DEF FirstAt
  <2>2. FirstAt(Tags!Rank(i), i)
    BY DEF FirstAt, Tags!Rank
  <2> QED
    BY <2>1, <2>2
<1> HIDE DEF S, row
<1>7. \A t, u \in S : t.order < u.order => Tags!Rank(t.id) < Tags!Rank(u.id)
  <2> SUFFICES ASSUME NEW t \in S, NEW u \in S, t.order < u.order
               PROVE  Tags!Rank(t.id) < Tags!Rank(u.id)
    OBVIOUS
  <2>1. PICK m \in 1..(turn - 1) : FirstAt(m, t.id)
    BY <1>1 DEF TagInv
  <2>2. PICK n \in 1..(turn - 1) : FirstAt(n, u.id)
    BY <1>1 DEF TagInv
  <2>3. m < n
    BY <1>1, <2>1, <2>2 DEF TagInv
  <2> QED
    BY <1>6, <2>1, <2>2, <2>3
<1>8. ASSUME NEW m \in 1..K, NEW n \in 1..K, m < n
      PROVE  Tags!Rank(row(m).id) < Tags!Rank(row(n).id)
  BY <1>2, <1>4, <1>7, <1>8
<1>9. {row(n).id : n \in 1..K} = {t.id : t \in S}
  BY <1>2, <1>3
<1>10. ASSUME taggedClip = "created" PROVE {t.id : t \in S} = allowed \cap activeItems
  <2>1. {t.id : t \in tags} = allowed
    BY <1>10 DEF TagInv, Tags!Tagged
  <2> QED
    BY <1>1, <2>1
<1>11. DOMAIN Tags!Cards = 1..K /\ \A n \in 1..K : Tags!Cards[n] = row(n).id
  BY <1>5
<1>12. Tags!ToSet(Tags!Cards) = {row(n).id : n \in 1..K}
  BY <1>11 DEF Tags!ToSet
<1> QED
  BY <1>8, <1>9, <1>10, <1>11, <1>12 DEF Tags!CardsAsChosen

\* One walk leaves the other alone.
LEMMA WalksApart ==
  ASSUME WalkInv, HistoryInv
  PROVE  /\ [Lists!ListNext]_listVars => HistoryInv'
         /\ [Lists!ChatNext]_listVars => WalkInv'
<1>1. ASSUME [Lists!ListNext]_listVars PROVE HistoryInv'
  <2>1. UNCHANGED <<chatSeqs, nextSeq, beforeSeq, chatWalk, read, wantedChats>>
    BY <1>1 DEF Lists!ListNext, Lists!Tick, Lists!GoLive, Lists!End, Lists!Aside,
                Lists!Poll, Lists!Expire, Lists!ListActiveCursor, Lists!chatVars, listVars
  <2> QED
    BY <2>1 DEF HistoryInv, Lists!HistoryIsWhole
<1>2. ASSUME [Lists!ChatNext]_listVars PROVE WalkInv'
  <2>1. UNCHANGED <<listClock, sessionStarted, liveSessions, firstPage, cursor, listWalk, seen,
                    ends, wanted, twice>>
    BY <1>2 DEF Lists!ChatNext, Lists!PostChat, Lists!CommitLate, Lists!BeginHistory,
                Lists!ChatHistory, Lists!listVars, listVars
  <2> QED
    BY <2>1 DEF WalkInv, LiveRow, Lists!Milli, Lists!PastCursor
<1> QED
  BY <1>1, <1>2

ListInv ==
  /\ part \in {"sessions", "history"} => WalkInv /\ HistoryInv
  /\ part = "tags" => TagInv

\* ListInv holds in every state of the API.
LEMMA ListsAlways == BackendSpec => []ListInv
<1>1. BackendInit => ListInv
  <2> SUFFICES ASSUME BackendInit PROVE ListInv
    OBVIOUS
  <2>1. Lists!Init /\ Tags!Init
    BY DEF BackendInit
  <2>2. WalkInv
    BY <2>1, FS_EmptySet DEF Lists!Init, WalkInv, Lists!Walks
  <2>3. HistoryInv
    BY <2>1 DEF Lists!Init, HistoryInv, Lists!HistoryIsWhole, Lists!Walks
  <2> QED
    BY <2>1, <2>2, <2>3, TagInit DEF ListInv
<1>2. ListInv /\ [BackendNext]_allVars => ListInv'
  <2> SUFFICES ASSUME ListInv, [BackendNext]_allVars PROVE ListInv'
    OBVIOUS
  <2>0. part' = part
    BY PartStays
  <2>1. CASE part = "sessions"
    BY <2>0, <2>1, ListsMove, WalkStep, WalksApart DEF ListInv
  <2>2. CASE part = "history"
    BY <2>0, <2>2, ListsMove, HistoryStep, WalksApart DEF ListInv
  <2>3. CASE part = "tags"
    BY <2>0, <2>3, TagsMove, TagStep DEF ListInv
  <2> QED
    BY <2>0, <2>1, <2>2, <2>3 DEF ListInv
<1> QED
  BY <1>1, <1>2, PTL DEF BackendSpec

\* Pages of any size of lists of any length (ListActiveCursor, ChatHistory): no row
\* is returned twice, none is lost but for a tie with a page's last row, and no
\* message is lost; and a clip's cards are those that were chosen, in their order
\* (attachProducts).
THEOREM ListsStayWhole == BackendSpec => []ListsAreWhole
<1>1. ListInv => ListsAreWhole
  <2>1. WalkInv /\ HistoryInv => Lists!WalksAreWhole
    BY DEF WalkInv, HistoryInv, Lists!WalksAreWhole, Lists!WalkMissesOnlyTies
  <2> QED
    BY <2>1, CardsInOrder DEF ListInv, ListsAreWhole
<1> QED
  BY <1>1, ListsAlways, PTL

------------------------------------------------------------------------------
(* The types of the parts. *)

\* The types of a room's counters, products and pushes.
LEMMA RoomTypes ==
  ASSUME Room!TypeOK, [Room!Next]_roomVars
  PROVE  Room!TypeOK'
<1>0. MaxPushes \in Nat
  BY BoundAssumption
<1> DEFINE Pushing == /\ push' \in [Twins -> {"idle", "due", "session", "read"}]
                     /\ roomStarted' \in 0..MaxPushes
<1>1. ASSUME Room!Push PROVE Pushing
  BY <1>0, <1>1 DEF Room!Push, Room!TypeOK
<1> HIDE DEF Pushing
<1>2. ASSUME Pushing, UNCHANGED <<Room!products, Room!frames>>, silent' \subseteq {"pin", "status"},
             roomStatus' \in {"live"} \cup Room!Ended,
             viewers' \in SUBSET Viewers, roomFollows' \in SUBSET Viewers,
             roomLikes' \in Nat, cartAdds' \in Nat
      PROVE  Room!TypeOK'
  BY <1>2 DEF Pushing, Room!TypeOK, Room!products, Room!frames
<1> USE <1>0 DEF Room!TypeOK, Room!counters, Room!products, Room!frames, Room!Ended
<1>3. ASSUME NEW p \in Twins,
             Room!ReadStats(p) \/ Room!CountRows(p) \/ Room!PushFails(p)
      PROVE  Room!TypeOK'
  BY <1>3 DEF Room!ReadStats, Room!CountRows, Room!PushFails
<1>4. ASSUME NEW p \in Twins, Room!PublishStatsEvent(p) PROVE Room!TypeOK'
  <2>1. roomTold' \in BOOLEAN /\ overtaken' \in BOOLEAN
    BY <1>4 DEF Room!PublishStatsEvent
  <2> QED
    BY <1>4, <2>1 DEF Room!PublishStatsEvent
<1>5. ASSUME NEW v \in Viewers, Room!Viewer(v) PROVE Room!TypeOK'
  <2>1. /\ Room!Push
        /\ UNCHANGED <<roomStatus, roomLikes, cartAdds, Room!products, Room!frames, silent>>
    BY <1>5 DEF Room!Viewer, Room!Join, Room!Leave, Room!TrackFollow
  <2>2. viewers' \in SUBSET Viewers /\ roomFollows' \in SUBSET Viewers
    BY <1>5 DEF Room!Viewer, Room!Join, Room!Leave, Room!RemoveViewer, Room!TrackFollow,
                Room!UpsertFollow
  <2> QED
    BY <1>1, <1>2, <2>1, <2>2
<1>6. CASE Room!LikeAnon \/ Room!TrackCartAdd
  <2>1. /\ Room!Push
        /\ UNCHANGED <<roomStatus, viewers, roomFollows, Room!products, Room!frames, silent>>
    BY <1>6 DEF Room!LikeAnon, Room!TrackCartAdd
  <2>2. roomLikes' \in Nat /\ cartAdds' \in Nat
    BY <1>6 DEF Room!LikeAnon, Room!TrackCartAdd
  <2> QED
    BY <1>1, <1>2, <2>1, <2>2
<1>7. CASE Room!End
  <2>1. /\ Room!Push /\ silent' \subseteq silent /\ roomStatus' \in Room!Ended
        /\ UNCHANGED <<viewers, roomFollows, roomLikes, cartAdds, Room!products, Room!frames>>
    BY <1>7 DEF Room!End
  <2> QED
    BY <1>1, <1>2, <2>1
<1>8. CASE Room!GoOffline
  BY <1>8 DEF Room!GoOffline
<1>9. CASE Room!AddProducts
  BY <1>9 DEF Room!AddProducts, Room!Fresh
<1>10. CASE Room!ReplaceProducts
  BY <1>10 DEF Room!ReplaceProducts, Room!Delete, Room!Fresh
<1>11. ASSUME NEW r \in RoomRows, Room!RemoveProduct(r) PROVE Room!TypeOK'
  BY <1>11 DEF Room!RemoveProduct, Room!Delete
<1>12. ASSUME NEW r \in RoomRows \cup {None}, Room!PinProduct(r) PROVE Room!TypeOK'
  <2>1. /\ Room!Push /\ silent' \subseteq silent /\ pinned' \in listed \cup {None}
        /\ UNCHANGED <<Room!counters, listed, deleted, Room!frames>>
    BY <1>12 DEF Room!PinProduct, Room!SetPinnedProduct
  <2> QED
    BY <1>1, <2>1 DEF Pushing
<1>13. CASE UNCHANGED roomVars
  BY <1>13 DEF roomVars
<1> HIDE DEF Room!TypeOK
<1> QED
  BY <1>3, <1>4, <1>5, <1>6, <1>7, <1>8, <1>9, <1>10, <1>11, <1>12, <1>13
     DEF Room!Next, Room!HostAction, Room!PushStep

\* The types of the playback; a listed segment has a number.
LEMMA PlayerTypes ==
  ASSUME PlayerInv, Player!TypeOK, [Player!Next]_playerVars
  PROVE  Player!TypeOK'
<1>0. MaxSeq \in Nat /\ Attempts \in Nat /\ Segments \in Nat /\ head \in 0..MaxSeq
  BY BackendAssumption, BoundAssumption DEF Player!TypeOK
<1>1. ASSUME NEW v \in Viewers, NEW l \in playlist[v], l.path = "s"
      PROVE  l.seq \in 1..MaxSeq
  <2>1. l # Player!ProxiedSelf
    BY <1>1 DEF Player!ProxiedSelf
  <2>2. PICK n \in 1..head : l = Player!Proxied(n)
    BY <1>1, <2>1 DEF PlayerInv
  <2> QED
    BY <1>0, <2>2 DEF Player!Proxied
<1>2. ASSUME NEW answer \in Player!Upstream
      PROVE  Player!RewriteHLSManifest(answer) \subseteq Player!Lines
  <2>1. ASSUME NEW l \in answer
        PROVE  \/ l = Player!Variant
               \/ \E n \in 1..head : l = Player!Segment(n)
    BY <1>2, <2>1 DEF Player!Upstream, Player!Kept
  <2>2. /\ Player!ProxiedSelf \in Player!Lines
        /\ \A n \in 1..head : Player!Proxied(n) \in Player!Lines
    BY <1>0 DEF Player!ProxiedSelf, Player!Proxied, Player!Lines
  <2>3. /\ Player!Variant.path # "segment"
        /\ \A n \in 1..head : Player!Segment(n).seq = n
    BY DEF Player!Variant, Player!Segment
  <2> HIDE DEF Player!Lines, Player!Variant, Player!Segment
  <2> QED
    BY <2>1, <2>2, <2>3 DEF Player!RewriteHLSManifest
<1> USE <1>0 DEF Player!TypeOK, Player!viewerVars
<1>3. CASE Player!Publish \/ Player!NewSegment \/ Player!End \/ Player!Disconnect \/ Player!Dispose
  BY <1>3 DEF Player!Publish, Player!NewSegment, Player!End, Player!Disconnect, Player!Dispose
<1>4. ASSUME NEW v \in Viewers, Player!Ask(v) \/ Player!PollFails(v) PROVE Player!TypeOK'
  BY <1>4 DEF Player!Ask, Player!PollFails
<1>5. ASSUME NEW v \in Viewers, Player!Poll(v) PROVE Player!TypeOK'
  <2>1. PICK answer \in Player!Upstream : Player!Serve(v, answer) \/ Player!AskAgain(v, answer)
    BY <1>5 DEF Player!Poll
  <2>2. UNCHANGED <<playStatus, srs, head, played, missed, cut>>
    BY <1>5 DEF Player!Poll
  <2>3. CASE Player!Serve(v, answer)
    BY <1>2, <2>2, <2>3 DEF Player!Serve
  <2>4. CASE Player!AskAgain(v, answer)
    BY <2>2, <2>4 DEF Player!AskAgain
  <2> QED
    BY <2>1, <2>3, <2>4
<1>6. ASSUME NEW v \in Viewers, Player!Fetch(v) PROVE Player!TypeOK'
  <2>1. PICK l \in playlist[v] :
          /\ l.path = "s"
          /\ \/ Player!HlsSegment(v, l.seq) /\ UNCHANGED cut
             \/ cut' = [cut EXCEPT ![v] = @ \cup {l.seq}] /\ UNCHANGED <<played, missed>>
    BY <1>6 DEF Player!Fetch
  <2>2. l.seq \in 1..MaxSeq
    BY <1>1, <2>1
  <2>3. {played, missed, cut}' \subseteq [Viewers -> SUBSET (1..MaxSeq)]
    BY <2>1, <2>2 DEF Player!HlsSegment
  <2> QED
    BY <1>6, <2>3 DEF Player!Fetch
<1>7. CASE UNCHANGED playerVars
  BY <1>7 DEF playerVars
<1> HIDE DEF Player!TypeOK
<1> QED
  BY <1>3, <1>4, <1>5, <1>6, <1>7 DEF Player!Next

\* The types of a request on its way through the middleware.
LEMMA MiddlewareTypes ==
  ASSUME Middleware!TypeOK, [Middleware!Next]_middlewareVars
  PROVE  Middleware!TypeOK'
<1>1. ASSUME NEW s \in Middleware!Statuses, NEW b \in Middleware!Bodies, Middleware!Write(s, b)
      PROVE  buffer' \in Middleware!Answers /\ sent' \in Middleware!Answers
  BY <1>1 DEF Middleware!Write, Middleware!TypeOK, Middleware!Answers
<1>2. ASSUME NEW s \in {200, 204, 302, 401, 413}, NEW b \in Middleware!Bodies,
             Middleware!Respond(s, b)
      PROVE  Middleware!TypeOK'
  <2>1. s \in Middleware!Statuses
    BY DEF Middleware!Statuses
  <2>2. /\ at' = "errors" /\ Middleware!Write(s, b)
        /\ UNCHANGED <<route, act, captured, hijacked, errors, logged>>
    BY <1>2 DEF Middleware!Respond
  <2>3. buffer' \in Middleware!Answers /\ sent' \in Middleware!Answers
    BY <1>1, <2>1, <2>2
  <2> QED
    BY <2>2, <2>3 DEF Middleware!TypeOK
<1>3. CASE Middleware!Refuse \/ Middleware!TooLarge \/ Middleware!Handle
  <2>1. {"none", "data", "error", "page"} \subseteq Middleware!Bodies
    BY DEF Middleware!Bodies
  <2> QED
    BY <1>2, <1>3, <2>1 DEF Middleware!Refuse, Middleware!TooLarge, Middleware!Handle
<1>4. CASE Middleware!Wrap \/ Middleware!Panic \/ Middleware!NoRoute
  BY <1>4 DEF Middleware!TypeOK, Middleware!Wrap, Middleware!Panic, Middleware!NoRoute,
              Middleware!SkipEnvelope
<1>5. CASE Middleware!Raise
  BY <1>5 DEF Middleware!TypeOK, Middleware!Raise, Middleware!Statuses
<1>6. CASE Middleware!Upgrade
  <2>1. [status |-> 200, body |-> "frames"] \in Middleware!Answers
    BY DEF Middleware!Answers, Middleware!Statuses, Middleware!Bodies
  <2> QED
    BY <1>6, <2>1 DEF Middleware!TypeOK, Middleware!Upgrade
<1>7. CASE Middleware!ErrorHandler
  <2>1. errors \in Middleware!Statuses /\ "error" \in Middleware!Bodies
    BY DEF Middleware!TypeOK, Middleware!Bodies
  <2>2. buffer' \in Middleware!Answers /\ sent' \in Middleware!Answers
    BY <1>1, <1>7, <2>1 DEF Middleware!TypeOK, Middleware!ErrorHandler
  <2> QED
    BY <1>7, <2>2 DEF Middleware!TypeOK, Middleware!ErrorHandler
<1>8. CASE Middleware!EnvelopeWrapper
  <2> DEFINE b == [buffer EXCEPT !.status = IF @ = NoStatus THEN 200 ELSE @]
  <2>1. b \in Middleware!Answers
    BY DEF Middleware!TypeOK, Middleware!Answers, Middleware!Statuses
  <2>2. ASSUME NEW a \in Middleware!Answers
        PROVE  /\ Middleware!BuildEnvelope(a) \in Middleware!Answers
               /\ Middleware!OnWire(a) \in Middleware!Answers
    BY DEF Middleware!Answers, Middleware!BuildEnvelope, Middleware!OnWire, Middleware!Bodies
  <2>3. sent' \in {sent, Middleware!OnWire(Middleware!BuildEnvelope(b))}
    BY <1>8 DEF Middleware!EnvelopeWrapper
  <2> HIDE DEF b
  <2>4. sent' \in Middleware!Answers
    BY <2>1, <2>2, <2>3 DEF Middleware!TypeOK
  <2> QED
    BY <1>8, <2>4 DEF Middleware!TypeOK, Middleware!EnvelopeWrapper
<1>9. CASE Middleware!AuditLog
  BY <1>9 DEF Middleware!TypeOK, Middleware!AuditLog, Middleware!Answers, Middleware!Statuses,
              Middleware!Preset
<1>10. CASE Middleware!Recovery
  <2>1. 500 \in Middleware!Statuses /\ "none" \in Middleware!Bodies
    BY DEF Middleware!Statuses, Middleware!Bodies
  <2> QED
    BY <1>1, <1>10, <2>1 DEF Middleware!TypeOK, Middleware!Recovery
<1>11. CASE Middleware!Finish
  <2>1. \A s \in {200, 404}, b \in {"none", "page"} :
          [status |-> s, body |-> b] \in Middleware!Answers
    BY DEF Middleware!Answers, Middleware!Statuses, Middleware!Bodies
  <2> QED
    BY <1>11, <2>1 DEF Middleware!TypeOK, Middleware!Finish, Middleware!Preset
<1>12. CASE UNCHANGED middlewareVars
  BY <1>12 DEF middlewareVars, Middleware!TypeOK
<1> QED
  BY <1>3, <1>4, <1>5, <1>6, <1>7, <1>8, <1>9, <1>10, <1>11, <1>12 DEF Middleware!Next

\* The types of the gifts and the points they cost.
LEMMA GiftTypes ==
  ASSUME GiftInv, GiftInv', Gifts!TypeOK, [Gifts!Next]_giftVars
  PROVE  Gifts!TypeOK'
<1>1. giftsOpen' \in BOOLEAN /\ active' \subseteq DOMAIN Catalog
  BY DEF Gifts!TypeOK, Gifts!Next, Gifts!EndSession, Gifts!RetireGift, Gifts!AddLoyalty,
         Gifts!GiftRequest, Gifts!SpecGiftSend, Gifts!Refuse, Gifts!LockRow, Gifts!Commit,
         Gifts!Rollback, Gifts!LogGift, giftVars
<1>2. gifts' \subseteq [sender : Users, total : Nat, call : Twins]
  <2>1. gifts' = gifts \/ \E c \in Twins : Gifts!Commit(c)
    BY DEF Gifts!Next, Gifts!EndSession, Gifts!RetireGift, Gifts!AddLoyalty,
           Gifts!GiftRequest, Gifts!SpecGiftSend, Gifts!Refuse, Gifts!LockRow,
           Gifts!Rollback, Gifts!LogGift, giftVars, Gifts!tables
  <2>2. ASSUME NEW c \in Twins, Gifts!Commit(c)
        PROVE  [sender |-> Gifts!Sender(c), total |-> Gifts!TotalPoints(c), call |-> c]
                 \in [sender : Users, total : Nat, call : Twins]
    <3>1. Gifts!Sender(c) \in Users /\ Gifts!TotalPoints(c) \in Nat
      BY <2>2 DEF Gifts!Commit, GiftInv
    <3> QED
      BY <3>1
  <2>3. ASSUME NEW c \in Twins, Gifts!Commit(c)
        PROVE  gifts' = gifts \cup
                 {[sender |-> Gifts!Sender(c), total |-> Gifts!TotalPoints(c), call |-> c]}
    BY <2>3 DEF Gifts!Commit
  <2> QED
    BY <2>1, <2>2, <2>3 DEF Gifts!TypeOK
<1>3. /\ points' \in [Users -> 0..MaxCredit \cup {None}]
      /\ credited' \in [Users -> 0..MaxCredit]
  <2> DEFINE Cost(u) == Cardinality(Gifts!PointsOf(From(u)))
  <2>1. /\ points' \in [Users -> Nat \cup {None}] /\ credited' \in [Users -> Nat]
        /\ \A u \in Users :
             /\ credited'[u] <= MaxCredit /\ Cost(u)' \in Nat
             /\ points'[u] # None => points'[u] + Cost(u)' = credited'[u]
    BY DEF GiftInv
  <2> HIDE DEF Cost
  <2>2. MaxCredit \in Nat
    BY BackendAssumption
  <2>3. ASSUME NEW u \in Users, points'[u] # None PROVE points'[u] \in 0..MaxCredit
    BY <2>1, <2>2, <2>3
  <2>4. ASSUME NEW u \in Users PROVE credited'[u] \in 0..MaxCredit
    BY <2>1, <2>2
  <2> QED
    BY <2>1, <2>3, <2>4
<1> QED
  BY <1>1, <1>2, <1>3 DEF GiftInv, Gifts!TypeOK, Gifts!Points

\* The types of the prices, the sales and the cart.
LEMMA MarketTypes ==
  ASSUME Market!TypeOK, [Market!Next]_marketVars
  PROVE  Market!TypeOK'
<1>0. MaxSaleTime \in Nat /\ FlashPrices \subseteq Nat /\ VariantPrice \in Nat /\ None \notin Nat
  BY BackendAssumption, BoundAssumption
<1> USE <1>0 DEF Market!cartVars, Market!saleVars, Market!Edit, Market!GoTo
<1>1. CASE Market!Tick \/ Market!RemoveLine
  BY <1>1 DEF Market!TypeOK, Market!Tick, Market!RemoveLine, Market!Times
<1>2. CASE Market!AdminEdit
  <2>1. UNCHANGED <<saleClock, line, liveLine, quote, cartStep, result>>
    BY <1>2 DEF Market!AdminEdit, Market!UpdateSale, Market!CreateSale, Market!SetProducts,
                Market!RemoveProduct, Market!DeleteSale, Market!SoftDelete, Market!UpdateStatus
  <2>2. productStatus' \in Market!Statuses
    BY <1>2 DEF Market!AdminEdit, Market!UpdateSale, Market!CreateSale, Market!SetProducts,
                Market!RemoveProduct, Market!DeleteSale, Market!SoftDelete, Market!UpdateStatus,
                Market!TypeOK, Market!Statuses
  <2>3. sales' \in [Sales -> Market!Windows \cup {None}]
    BY <1>2 DEF Market!AdminEdit, Market!UpdateSale, Market!CreateSale, Market!SetProducts,
                Market!RemoveProduct, Market!DeleteSale, Market!SoftDelete, Market!UpdateStatus,
                Market!TypeOK
  <2>4. slot' \in [Sales -> FlashPrices \cup {None}]
    BY <1>2 DEF Market!AdminEdit, Market!UpdateSale, Market!CreateSale, Market!SetProducts,
                Market!RemoveProduct, Market!DeleteSale, Market!SoftDelete, Market!UpdateStatus,
                Market!TypeOK, Market!Attached
  <2> QED
    BY <2>1, <2>2, <2>3, <2>4 DEF Market!TypeOK
<1>3. ASSUME NEW c \in Twins, Market!ReadVariant(c) PROVE Market!TypeOK'
  BY <1>3 DEF Market!ReadVariant, Market!TypeOK
<1>4. ASSUME NEW c \in Twins, Market!ReadSlots(c) PROVE Market!TypeOK'
  <2>1. Market!OpenSlots \subseteq FlashPrices
    BY DEF Market!OpenSlots, Market!TypeOK
  <2>2. PICK open \in SUBSET Nat : open = Market!OpenSlots
    BY <1>0, <2>1
  <2>3. /\ Market!Min(open \cup {VariantPrice}) \in open \cup {VariantPrice}
        /\ open # {} => Market!Min(open) \in open
    BY <1>0, LeastPrice
  <2>4. /\ Market!CartPrice \in Market!Prices /\ VariantPrice \in Market!Prices
        /\ Market!FlashPrice \in FlashPrices \cup {None}
        /\ Market!CardPrice \in Market!Prices \cup {None}
    BY <2>1, <2>2, <2>3
       DEF Market!CartPrice, Market!CardPrice, Market!FlashPrice, Market!Prices
  <2>5. \A unread \in BOOLEAN :
          [unit |-> IF unread THEN VariantPrice ELSE Market!CartPrice,
           shown |-> Market!CardPrice, flash |-> Market!FlashPrice, failed |-> unread]
            \in Market!Quotes
    BY <2>4 DEF Market!Quotes
  <2>6. PICK q \in Market!Quotes : quote' = [quote EXCEPT ![c] = q]
    BY <1>4, <2>5 DEF Market!ReadSlots
  <2> QED
    BY <1>4, <2>6 DEF Market!ReadSlots, Market!TypeOK
<1>5. ASSUME NEW c \in Twins, Market!UpdateLine(c) PROVE Market!TypeOK'
  <2>1. /\ UNCHANGED <<saleClock, sales, slot, productStatus, liveLine, quote>>
        /\ cartStep' \in [Twins -> {"idle", "slots", "update", "insert", "done"}]
    BY <1>5 DEF Market!UpdateLine, Market!TypeOK
  <2>2. CASE line = None
    BY <1>5, <2>1, <2>2 DEF Market!UpdateLine, Market!TypeOK
  <2>3. CASE line # None
    <3>1. line \in Market!Lines /\ quote[c] \in Market!Quotes
      BY <2>3 DEF Market!TypeOK
    <3>2. /\ line.unit \in Market!Prices
          /\ [line EXCEPT !.quantity = line.quantity + 1] \in Market!Lines
      BY <3>1 DEF Market!Lines
    <3>3. [quote |-> quote[c], unit |-> line.unit, fresh |-> FALSE] \in Market!Results
      BY <3>1, <3>2 DEF Market!Results
    <3>4. /\ line' = [line EXCEPT !.quantity = line.quantity + 1]
          /\ result' = [result EXCEPT ![c] =
                          [quote |-> quote[c], unit |-> line.unit, fresh |-> FALSE]]
      BY <1>5, <2>3 DEF Market!UpdateLine, Market!Finish
    <3> QED
      BY <2>1, <3>2, <3>3, <3>4 DEF Market!TypeOK
  <2> QED
    BY <2>2, <2>3
<1>6. ASSUME NEW c \in Twins, Market!InsertLine(c) PROVE Market!TypeOK'
  <2>1. /\ UNCHANGED <<saleClock, sales, slot, productStatus, liveLine, quote>>
        /\ cartStep' \in [Twins -> {"idle", "slots", "update", "insert", "done"}]
    BY <1>6 DEF Market!InsertLine, Market!TypeOK
  <2>2. CASE line # None
    BY <1>6, <2>1, <2>2 DEF Market!InsertLine, Market!TypeOK
  <2>3. CASE line = None
    <3>1. quote[c] \in Market!Quotes /\ quote[c].unit \in Market!Prices
      BY DEF Market!TypeOK, Market!Quotes
    <3>2. [unit |-> quote[c].unit, quantity |-> 1] \in Market!Lines
      BY <3>1 DEF Market!Lines
    <3>3. [quote |-> quote[c], unit |-> quote[c].unit, fresh |-> TRUE] \in Market!Results
      BY <3>1 DEF Market!Results
    <3>4. /\ line' = [unit |-> quote[c].unit, quantity |-> 1]
          /\ result' = [result EXCEPT ![c] =
                          [quote |-> quote[c], unit |-> quote[c].unit, fresh |-> TRUE]]
      BY <1>6, <2>3 DEF Market!InsertLine, Market!Finish
    <3> QED
      BY <2>1, <3>2, <3>3, <3>4 DEF Market!TypeOK
  <2> QED
    BY <2>2, <2>3
<1>7. ASSUME NEW c \in Twins, Market!AddFromLive(c) PROVE Market!TypeOK'
  BY <1>7 DEF Market!AddFromLive, Market!TypeOK, Market!Lines, Market!Prices
<1>8. CASE UNCHANGED marketVars
  BY <1>8 DEF marketVars, Market!TypeOK
<1> QED
  BY <1>1, <1>2, <1>3, <1>4, <1>5, <1>6, <1>7, <1>8 DEF Market!Next, Market!Add
\* The types of the cached tables and of the limiter: the cache's steps ...
LEMMA CacheTypes ==
  ASSUME Redis!TypeOK, Redis!CacheNext \/ UNCHANGED <<cacheVars, limitVars>>
  PROVE  Redis!TypeOK'
<1>0. MaxVersion \in Nat
  BY BoundAssumption
<1> DEFINE Aside == /\ table \in 0..MaxVersion
                    /\ entry \in [Pages -> 0..MaxVersion \cup {NoEntry}]
                    /\ loaded \in [Twins -> 0..MaxVersion]
                    /\ reader \in [Twins -> Redis!ReaderAt]
                    /\ writer \in [Writers -> Redis!WriterAt]
                    /\ staleStored \subseteq Pages /\ unswept \subseteq Pages
<1>1. UNCHANGED limitVars
  BY DEF Redis!CacheNext, Redis!ReadSide, Redis!WriteSide, Redis!Get, Redis!Load, Redis!Store,
         Redis!UpdateElsewhere, Redis!Update, Redis!Scan, Redis!Del, Redis!InvalidateFails,
         Redis!Expire, Redis!limitVars, limitVars
<1>2. Aside
  BY DEF Redis!TypeOK
<1>3. ASSUME Aside' PROVE Redis!TypeOK'
  BY <1>1, <1>3 DEF Redis!TypeOK, Redis!Stamps, limitVars
<1> USE <1>0, <1>2 DEF Redis!ReaderAt, Redis!WriterAt
<1>4. ASSUME NEW r \in Twins, (\E k \in Pages : Redis!Get(r, k)) \/ Redis!Load(r) \/ Redis!Store(r)
      PROVE  Aside'
  BY <1>4 DEF Redis!Get, Redis!Load, Redis!Store, Redis!ReaderTo
<1>5. ASSUME Redis!UpdateElsewhere \/ \E k \in Pages : Redis!Expire(k)
      PROVE  Aside'
  <2>1. CASE Redis!UpdateElsewhere
    BY <2>1 DEF Redis!UpdateElsewhere
  <2>2. ASSUME NEW k \in Pages, Redis!Expire(k)
        PROVE  Aside'
    BY <2>2 DEF Redis!Expire
  <2> QED
    BY <1>5, <2>1, <2>2
<1>6. ASSUME NEW w \in Writers,
             Redis!Update(w) \/ Redis!Scan(w) \/ Redis!Del(w) \/ Redis!InvalidateFails(w)
      PROVE  Aside'
  <2>1. /\ table' \in 0..MaxVersion /\ UNCHANGED <<loaded, reader>>
        /\ entry' \in [Pages -> 0..MaxVersion \cup {NoEntry}]
        /\ staleStored' \subseteq Pages /\ unswept' \subseteq Pages
    BY <1>6 DEF Redis!Update, Redis!Scan, Redis!Del, Redis!InvalidateFails
  <2>2. writer' \in [Writers -> Redis!WriterAt]
    <3>1. CASE Redis!Update(w) \/ Redis!InvalidateFails(w)
      BY <3>1 DEF Redis!Update, Redis!InvalidateFails, Redis!IdleWriter
    <3>3. CASE Redis!Scan(w)
      BY <3>3 DEF Redis!Scan
    <3>2. CASE Redis!Del(w)
      <4> DEFINE next == IF writer[w].left = {} THEN Redis!IdleWriter
                         ELSE [writer[w] EXCEPT !.at = "scan", !.found = {}]
      <4>1. next \in Redis!WriterAt
        BY DEF Redis!IdleWriter
      <4>2. writer' = [writer EXCEPT ![w] = next]
        BY <3>2 DEF Redis!Del
      <4> HIDE DEF next
      <4> QED
        BY <4>1, <4>2
    <3> QED
      BY <1>6, <3>1, <3>2, <3>3
  <2> QED
    BY <2>1, <2>2
<1>7. ASSUME UNCHANGED <<cacheVars, limitVars>>
      PROVE  Aside'
  BY <1>7 DEF cacheVars
<1>8. Aside'
  <2> HIDE DEF Aside
  <2> QED
    BY <1>4, <1>5, <1>6, <1>7 DEF Redis!CacheNext, Redis!ReadSide, Redis!WriteSide
<1> QED
  BY <1>3, <1>8

\* ... and those of the requests and their scripts.
LEMMA LimitTypes ==
  ASSUME LimitInv, LimitInv', Redis!TypeOK, Redis!LimitNext \/ UNCHANGED <<cacheVars, limitVars>>
  PROVE  Redis!TypeOK'
<1>0. MaxTick \in Nat /\ MaxRequests \in Nat
  BY BackendAssumption
<1>1. UNCHANGED cacheVars
  BY DEF Redis!LimitNext, Redis!Tick, Redis!Stamp, Redis!Allow, Redis!AllowFails,
         Redis!cacheVars, cacheVars
<1>2. ASSUME NEW q \in stamped, Redis!Allow(q) \/ Redis!AllowFails(q)
      PROVE  Redis!TypeOK'
  <2>1. q \in Redis!Stamps
    BY DEF Redis!TypeOK
  <2>2. /\ hits' \subseteq hits \cup {q} /\ passed' \subseteq passed \cup {q}
        /\ unanswered' \subseteq unanswered \cup {q} /\ stamped' \subseteq stamped
        /\ UNCHANGED <<cacheVars, failClosed, tick, requests>>
    BY <1>1, <1>2, ScriptRuns DEF Redis!Allow, Redis!AllowFails, Redis!Arrive
  <2>3. swept' \in 0..MaxTick
    BY DEF LimitInv
  <2>4. reordered' \in BOOLEAN
    BY <1>2, Zenon DEF Redis!TypeOK, Redis!Allow, Redis!AllowFails, Redis!Script
  <2> QED
    BY <2>1, <2>2, <2>3, <2>4 DEF Redis!TypeOK, Redis!Stamps, cacheVars
<1>3. CASE Redis!Tick
  BY <1>0, <1>1, <1>3 DEF Redis!TypeOK, Redis!Tick, Redis!Stamps, cacheVars
<1>4. CASE Redis!Stamp
  <2>1. <<tick, requests + 1>> \in Redis!Stamps /\ requests + 1 \in 0..MaxRequests
    BY <1>0, <1>4 DEF Redis!TypeOK, Redis!Stamp, Redis!Stamps
  <2>2. /\ stamped' \subseteq Redis!Stamps /\ requests' \in 0..MaxRequests
        /\ UNCHANGED <<failClosed, hits, tick, passed, unanswered, swept, reordered>>
    BY <1>4, <2>1 DEF Redis!TypeOK, Redis!Stamp
  <2> QED
    BY <1>1, <2>2 DEF Redis!TypeOK, Redis!Stamps, cacheVars
<1>5. CASE UNCHANGED limitVars
  BY <1>1, <1>5 DEF Redis!TypeOK, Redis!Stamps, cacheVars, limitVars
<1> QED
  BY <1>2, <1>3, <1>4, <1>5 DEF Redis!LimitNext

\* The types of the signed URLs and the keys' rotation.
LEMMA SignerTypes ==
  ASSUME SignerInv, SignerInv', Signer!TypeOK, [Signer!Next]_signerVars
  PROVE  Signer!TypeOK'
<1>0. MaxTokenTime \in Nat /\ TTL \in Nat
  BY BackendAssumption, BoundAssumption
<1>1. tokenClock' \in 0..MaxTokenTime
  BY <1>0 DEF Signer!TypeOK, Signer!Next, Signer!Tick, Signer!Deploy, Signer!Sign,
              Signer!IntroduceKey, Signer!RetireKey, signerVars
<1>2. up' \in [Twins -> BOOLEAN]
  <2>1. ASSUME NEW i \in Twins, Signer!Deploy(i)
        PROVE  up' \in [Twins -> BOOLEAN]
    <3>1. PICK keys \in {srsKeys, {}}, kid \in Sales \cup {NoKid} :
            up' = [up EXCEPT ![i] = Signer!Starts([keys |-> keys, current |-> kid])]
      BY <2>1 DEF Signer!Deploy
    <3>2. PICK s \in BOOLEAN : s = Signer!Starts([keys |-> keys, current |-> kid])
      BY DEF Signer!Starts, Signer!Enabled, Signer!SigningOff
    <3> QED
      BY <3>1, <3>2 DEF Signer!TypeOK
  <2>2. up' = up \/ \E i \in Twins : Signer!Deploy(i)
    BY DEF Signer!Next, Signer!Tick, Signer!Sign, Signer!IntroduceKey, Signer!RetireKey, signerVars
  <2> QED
    BY <2>1, <2>2 DEF Signer!TypeOK
<1>3. lastUse' \in [Sales -> 0..MaxTokenTime]
  <2>1. ASSUME NEW i \in Twins, Signer!Deploy(i)
        PROVE  lastUse' \in [Sales -> 0..MaxTokenTime]
    BY <2>1 DEF Signer!Deploy, Signer!TypeOK
  <2>2. lastUse' = lastUse \/ \E i \in Twins : Signer!Deploy(i)
    BY DEF Signer!Next, Signer!Tick, Signer!Sign, Signer!IntroduceKey, Signer!RetireKey, signerVars
  <2> QED
    BY <2>1, <2>2 DEF Signer!TypeOK
<1>4. signedUrls' \subseteq [kid : Sales, expire : 0..(MaxTokenTime + TTL)]
  <2>1. ASSUME NEW i \in Twins, Signer!Sign(i)
        PROVE  signedUrls' \subseteq [kid : Sales, expire : 0..(MaxTokenTime + TTL)]
    <3>1. CASE Signer!Enabled(config[i])
      <4>1. config[i].current \in Sales /\ tokenClock + TTL \in 0..(MaxTokenTime + TTL)
        BY <1>0, <3>1 DEF Signer!TypeOK, Signer!Enabled, Signer!Configs
      <4>2. signedUrls' = signedUrls \cup
              {[kid |-> config[i].current, expire |-> tokenClock + TTL]}
        BY <2>1, <3>1 DEF Signer!Sign
      <4> QED
        BY <4>1, <4>2 DEF Signer!TypeOK
    <3>2. CASE ~Signer!Enabled(config[i])
      BY <2>1, <3>2 DEF Signer!Sign, Signer!TypeOK
    <3> QED
      BY <3>1, <3>2
  <2>2. signedUrls' = signedUrls \/ \E i \in Twins : Signer!Sign(i)
    BY DEF Signer!Next, Signer!Tick, Signer!Deploy, Signer!IntroduceKey, Signer!RetireKey,
           signerVars
  <2> QED
    BY <2>1, <2>2 DEF Signer!TypeOK
<1>5. unasked' \in BOOLEAN
  BY Zenon DEF Signer!TypeOK, Signer!Next, Signer!Tick, Signer!Deploy, Signer!Sign,
               Signer!IntroduceKey, Signer!RetireKey, signerVars
<1> QED
  BY <1>1, <1>2, <1>3, <1>4, <1>5 DEF SignerInv, Signer!TypeOK
\* The types of the clips' overlays.
LEMMA OverlayTypes ==
  ASSUME OverlayInv, OverlayInv', Overlays!TypeOK, [Overlays!Next]_overlayVars
  PROVE  Overlays!TypeOK'
<1>0. job # NoClip => job \in Twins
  BY DEF OverlayInv
<1> USE DEF Overlays!Next, Overlays!Api, Overlays!Job, Overlays!Upload, Overlays!Create,
            Overlays!SoftDelete, Overlays!Take, Overlays!Load, Overlays!Start, Overlays!Work,
            Overlays!UploadCopy, Overlays!Fail, Overlays!SetOverlayURL, Overlays!Deadline,
            Overlays!Crash, Overlays!GoTo, Overlays!Stop, Overlays!SetOverlayStatus,
            Overlays!clipVars, Overlays!rowVars, Overlays!jobVars
<1>1. clip' \in [Twins -> {"none", "active", "deleted"}] /\ raw' \subseteq Twins
  <2>1. /\ clip' = clip \/ \E c \in Twins : \E s \in {"active", "deleted"} :
                             clip' = [clip EXCEPT ![c] = s]
        /\ raw' = raw \/ \E c \in Twins : raw' = raw \cup {c}
    BY DEF overlayVars
  <2> QED
    BY <2>1 DEF Overlays!TypeOK
<1>2. event' \in [Twins -> {"absent", "queued", "taken"}]
  <2>1. event' = event \/ \E c \in Twins : \E s \in {"absent", "queued", "taken"} :
                            event' = [event EXCEPT ![c] = s]
    BY DEF overlayVars
  <2> QED
    BY <2>1 DEF Overlays!TypeOK
<1>3. overlay' \in [Twins -> Overlays!Settled \cup {"pending", "processing"}]
  <2>1. overlay' = overlay \/ \E s \in {"skipped", "processing", "failed", "ready"} :
                                overlay' = [overlay EXCEPT ![job] = s]
    BY DEF overlayVars
  <2> QED
    BY <2>1 DEF Overlays!TypeOK, Overlays!Settled
<1>4. url' \subseteq Twins /\ object' \subseteq Twins /\ overlayLost' \subseteq Twins
  <2>1. overlayStage # "idle" \/ job # NoClip => job \in Twins
    BY DEF OverlayInv
  <2>2. /\ url' = url \/ (overlayStage = "record" /\ url' = url \cup {job})
        /\ object' = object \/ (overlayStage = "upload" /\ object' = object \cup {job})
        /\ \/ overlayLost' = overlayLost \/ overlayLost' = overlayLost \ {job}
           \/ /\ overlayStage # "idle" \/ job # NoClip
              /\ overlayLost' = overlayLost \cup {job}
    BY DEF overlayVars
  <2> QED
    BY <2>1, <2>2 DEF Overlays!TypeOK
<1>5. expired' \in BOOLEAN /\ storage' \in BOOLEAN
  <2>1. /\ expired' = expired \/ expired' = FALSE \/ expired' = TRUE
        /\ storage' = storage
    BY Zenon DEF overlayVars
  <2> QED
    BY <2>1, Zenon DEF Overlays!TypeOK
<1> QED
  BY <1>1, <1>2, <1>3, <1>4, <1>5 DEF OverlayInv, Overlays!TypeOK

\* The types of the runs of the seed.
LEMMA SeedTypes == ASSUME Fixtures!TypeOK, [Fixtures!Next]_fixtureVars PROVE Fixtures!TypeOK'
<1> USE DEF Fixtures!TypeOK, Fixtures!Steps, Fixtures!Keyed, Fixtures!Goto
<1>1. CASE UNCHANGED fixtureVars
  BY <1>1 DEF fixtureVars
<1>2. ASSUME NEW r \in Twins, Fixtures!Start(r)
      PROVE  Fixtures!TypeOK'
  BY <1>2 DEF Fixtures!Start
<1>3. ASSUME NEW r \in Twins, Fixtures!SeedUsers(r) \/ Fixtures!SeedProducts(r)
      PROVE  Fixtures!TypeOK'
  BY <1>3 DEF Fixtures!SeedUsers, Fixtures!SeedProducts, Fixtures!Upsert
<1>4. ASSUME NEW r \in Twins, Fixtures!SeedLiveSession(r) \/ Fixtures!SeedCoupons(r)
      PROVE  Fixtures!TypeOK'
  BY <1>4 DEF Fixtures!SeedLiveSession, Fixtures!SeedCoupons, Fixtures!Upsert
<1>5. ASSUME NEW r \in Twins, Fixtures!DeleteVariants(r)
      PROVE  Fixtures!TypeOK'
  BY <1>5 DEF Fixtures!DeleteVariants
<1>6. ASSUME NEW r \in Twins, Fixtures!InsertVariant(r)
      PROVE  Fixtures!TypeOK'
  BY <1>6 DEF Fixtures!InsertVariant
<1>7. ASSUME NEW r \in Twins, Fixtures!Fail(r)
      PROVE  Fixtures!TypeOK'
  BY <1>7 DEF Fixtures!Fail
<1> HIDE DEF Fixtures!TypeOK
<1> QED
  BY <1>1, <1>2, <1>3, <1>4, <1>5, <1>6, <1>7 DEF Fixtures!Next

\* The types of a clip's cards.
LEMMA TagTypes ==
  ASSUME TagInv, TagInv', Tags!TypeOK, [Tags!Next]_tagVars
  PROVE  Tags!TypeOK'
<1>1. /\ activeItems' \subseteq Items /\ anyShop' \in BOOLEAN
      /\ taggedClip' \in {"none", "select", "link", "created", "failed"}
  BY DEF Tags!TypeOK, Tags!Next, Tags!Deactivate, Tags!Activate, Tags!Create,
         Tags!SelectAllowed, Tags!Link, Tags!Commit, Tags!Rollback, tagVars
<1>2. selection' \in Selections \cup {<<>>}
  BY DEF Tags!TypeOK, Tags!Next, Tags!Deactivate, Tags!Activate, Tags!Create,
         Tags!SelectAllowed, Tags!Link, Tags!Commit, Tags!Rollback, tagVars
<1>3. allowed' \subseteq Items
  BY DEF Tags!TypeOK, Tags!Next, Tags!Deactivate, Tags!Activate, Tags!Create,
         Tags!SelectAllowed, Tags!Link, Tags!Commit, Tags!Rollback, tagVars
<1>4. turn' \in 1..(Len(selection') + 1)
  <2>1. Len(selection) \in Nat /\ Len(selection') \in Nat
    BY DEF TagInv
  <2>2. \/ turn' = turn /\ selection' = selection
        \/ turn' = turn /\ taggedClip = "none"
        \/ turn <= Len(selection) /\ turn' = turn + 1 /\ selection' = selection
    BY DEF Tags!Next, Tags!Deactivate, Tags!Activate, Tags!Create,
           Tags!SelectAllowed, Tags!Link, Tags!Commit, Tags!Rollback, tagVars
  <2>3. turn \in 1..(Len(selection) + 1) /\ (taggedClip = "none" => turn = 1)
    BY DEF Tags!TypeOK, TagInv
  <2> QED
    BY <2>1, <2>2, <2>3
<1> QED
  BY <1>1, <1>2, <1>3, <1>4 DEF TagInv, Tags!TypeOK

\* The types of the lists: the walk over the live sessions ...
LEMMA WalkTypes ==
  ASSUME WalkInv, WalkInv', Lists!TypeOK, [Lists!ListNext]_listVars
  PROVE  Lists!TypeOK'
<1>0. MaxListTime \in Nat /\ PerMilli \in Nat \ {0}
  BY BackendAssumption, BoundAssumption
<1>1. UNCHANGED <<chatSeqs, nextSeq, beforeSeq, chatWalk, read, wantedChats>>
  BY DEF Lists!ListNext, Lists!Tick, Lists!GoLive, Lists!End, Lists!Aside,
         Lists!Poll, Lists!Expire, Lists!ListActiveCursor, Lists!chatVars, listVars
<1>2. listClock' \in 0..MaxListTime
  BY <1>0 DEF Lists!TypeOK, Lists!ListNext, Lists!Tick, Lists!GoLive, Lists!End, Lists!Aside,
              Lists!Poll, Lists!Expire, Lists!ListActiveCursor, listVars
<1>3. sessionStarted' \in [Ids -> 0..MaxListTime \cup {Never}]
  <2>1. sessionStarted' = sessionStarted
          \/ \E s \in Ids : sessionStarted' = [sessionStarted EXCEPT ![s] = listClock]
    BY DEF Lists!ListNext, Lists!Tick, Lists!GoLive, Lists!End, Lists!Aside,
           Lists!Poll, Lists!Expire, Lists!ListActiveCursor, listVars
  <2> QED
    BY <2>1 DEF Lists!TypeOK
<1>4. twice' \in BOOLEAN
  BY Zenon DEF Lists!TypeOK, Lists!ListNext, Lists!Tick, Lists!GoLive, Lists!End,
               Lists!Aside, Lists!Return, Lists!Poll, Lists!Expire,
               Lists!ListActiveCursor, listVars
<1>5. cursor' \in [time : 0..MaxListTime, id : Ids \cup {0}]
  <2>1. CASE Lists!Aside \/ Lists!ListActiveCursor
    <3>0. PICK R : Lists!Return(R) /\ IsFiniteSet(R) /\ \A s \in R : LiveRow(s)
      BY <2>1, RestOfWalk DEF Lists!Aside, Lists!ListActiveCursor, WalkInv, Rest
    <3> DEFINE page == Page(R)
    <3>1. \/ cursor' = cursor
          \/ \E last \in page : cursor' = Lists!FormatListCursor(last)
      <4> DEFINE L == CHOOSE s \in page : \A t \in page \ {s} : Lists!Newer(t, s)
      <4>1. \/ cursor' = cursor
            \/ ~(Cardinality(page) < PageSize) /\ cursor' = Lists!FormatListCursor(L)
        <5>1. /\ Lists!Cardinality(page) = Cardinality(page)
              /\ {s \in R : Lists!Cardinality({t \in R : Lists!Newer(t, s)}) < PageSize} = page
          BY <3>0, PageOfRows, ListSizes
        <5> HIDE DEF page
        <5> QED
          BY <3>0, <5>1 DEF Lists!Return
      <4>2. ~(Cardinality(page) < PageSize) => L \in page
        BY <3>0, PageOfRows
      <4> HIDE DEF L
      <4> QED
        BY <4>1, <4>2
    <3>2. ASSUME NEW last \in page
          PROVE  Lists!FormatListCursor(last) \in [time : 0..MaxListTime, id : Ids \cup {0}]
      <4>1. LiveRow(last)
        BY <3>0, PageOfRows
      <4>2. sessionStarted[last] \in 0..MaxListTime /\ last \in Ids
        BY <4>1, BackendAssumption DEF LiveRow, Lists!TypeOK
      <4>3. PICK time \in Nat : /\ time = (sessionStarted[last] \div PerMilli) * PerMilli
                                /\ time <= sessionStarted[last]
        <5>1. PICK p \in Nat \ {0} : p = PerMilli
          BY <1>0
        <5>2. PICK b \in Nat : b = sessionStarted[last]
          BY <4>1 DEF LiveRow
        <5>3. (b \div p) * p \in Nat /\ (b \div p) * p <= b
          BY SameMilli
        <5> QED
          BY <5>1, <5>2, <5>3
      <4>4. time \in 0..MaxListTime
        BY <1>0, <4>2, <4>3
      <4> QED
        BY <4>2, <4>3, <4>4 DEF Lists!FormatListCursor
    <3> QED
      BY <3>1, <3>2 DEF Lists!TypeOK
  <2>2. CASE ~(Lists!Aside \/ Lists!ListActiveCursor)
    BY <2>2 DEF Lists!TypeOK, Lists!ListNext, Lists!Tick, Lists!GoLive, Lists!End,
                Lists!Poll, Lists!Expire, listVars
  <2> QED
    BY <2>1, <2>2
<1>6. firstPage' \in (SUBSET Ids) \cup {NoEntry}
  <2>1. firstPage' \in {firstPage, liveSessions, NoEntry}
    BY DEF Lists!ListNext, Lists!Tick, Lists!GoLive, Lists!End, Lists!Aside,
           Lists!Poll, Lists!Expire, Lists!ListActiveCursor, listVars
  <2>2. liveSessions \in SUBSET Ids /\ firstPage \in (SUBSET Ids) \cup {NoEntry}
    BY DEF Lists!TypeOK
  <2> QED
    BY <2>1, <2>2
<1> QED
  BY <1>1, <1>2, <1>3, <1>4, <1>5, <1>6 DEF WalkInv, LiveRow, Lists!TypeOK

\* ... and the walk through a session's chat.
LEMMA HistoryTypes ==
  ASSUME HistoryInv, HistoryInv', Lists!TypeOK, [Lists!ChatNext]_listVars
  PROVE  Lists!TypeOK'
<1>0. MaxSeq \in Nat
  BY BackendAssumption
<1>1. UNCHANGED <<listClock, sessionStarted, liveSessions, firstPage, cursor, listWalk, seen,
                  ends, wanted, twice>>
  BY DEF Lists!ChatNext, Lists!PostChat, Lists!CommitLate, Lists!BeginHistory,
         Lists!ChatHistory, Lists!listVars, listVars
<1>2. nextSeq' \in 1..(MaxSeq + 1)
  BY <1>0 DEF Lists!TypeOK, Lists!ChatNext, Lists!PostChat, Lists!CommitLate,
              Lists!BeginHistory, Lists!ChatHistory, listVars
<1>3. beforeSeq' \in 0..(MaxSeq + 1) /\ read' \subseteq chatSeqs'
  <2>1. CASE Lists!ChatHistory
    <3>1. /\ read' = read \cup ChatPage /\ chatSeqs' = chatSeqs
          /\ beforeSeq' = beforeSeq
             \/ (~(Cardinality(ChatPage) < PageSize) /\ beforeSeq' = Lists!Min(ChatPage))
      BY <2>1, PageOfChats, ListSizes DEF Lists!ChatHistory, Lists!NextBefore, OlderChats
    <3>2. /\ ChatPage \subseteq chatSeqs
          /\ ~(Cardinality(ChatPage) < PageSize) => Lists!Min(ChatPage) \in chatSeqs
      BY PageOfChats DEF OlderChats
    <3>3. /\ read \subseteq chatSeqs /\ chatSeqs \subseteq 1..MaxSeq
          /\ beforeSeq \in 0..(MaxSeq + 1)
      BY DEF Lists!TypeOK
    <3>4. \A n \in 1..MaxSeq : n \in 0..(MaxSeq + 1)
      BY <1>0
    <3> QED
      BY <3>1, <3>2, <3>3, <3>4
  <2>2. CASE ~Lists!ChatHistory
    <3>1. /\ beforeSeq' = beforeSeq /\ read' = read /\ chatSeqs \subseteq chatSeqs'
      BY <2>2 DEF Lists!ChatNext, Lists!PostChat, Lists!CommitLate, Lists!BeginHistory, listVars
    <3> QED
      BY <3>1 DEF Lists!TypeOK
  <2> QED
    BY <2>1, <2>2
<1> QED
  BY <1>1, <1>2, <1>3 DEF HistoryInv, Lists!TypeOK

\* Every part that moves has its types, and so do the users whom its requests name.
PartsTyped ==
  /\ part \in Parts
  /\ part = "accounts" => TypeOK
  /\ part = "signup" => SignUp!TypeOK
  /\ part = "google" => Google!TypeOK
  /\ part = "clips" => Videos!TypeOK /\ ClipUsers
  /\ part = "overlays" => Overlays!TypeOK
  /\ part = "chat" => Chat!TypeOK
  /\ part = "gifts" => Gifts!TypeOK
  /\ part = "room" => Room!TypeOK
  /\ part = "shops" => Shops!TypeOK
  /\ part = "market" => Market!TypeOK
  /\ part \in {"sessions", "history"} => Lists!TypeOK
  /\ part \in {"subtitles", "banners"} => Replays!TypeOK
  /\ part \in {"cache", "limiter"} => Redis!TypeOK
  /\ part = "tags" => Tags!TypeOK
  /\ part = "audit" => Audit!TypeOK
  /\ part = "playback" => Player!TypeOK
  /\ part = "tokens" => Signer!TypeOK
  /\ part = "keys" => Keys!TypeOK
  /\ part = "envelope" => Middleware!TypeOK
  /\ part = "pictures" => Pictures!TypeOK
  /\ part = "seed" => Fixtures!TypeOK
  /\ part = "starts" => Starts!TypeOK
  /\ part = "files" => Files!TypeOK

\* The invariants proved above, of the parts whose types rest on them.
PartsHold ==
  OwnInv /\ DecisionsInv /\ ReelInv /\ ToldInv /\ EdgeInv /\ ChargedInv /\ JobsInv /\ ListInv

\* The first state has its types.
LEMMA TypesInit ==
  ASSUME BackendInit, PartsHold
  PROVE  PartsTyped
<1>0. /\ {BotQuota, Burst, MaxChatTime, MaxPushes, MaxFollows, MaxSaleTime, MaxListTime,
          MaxVersion, Attempts, MaxTokenTime} \subseteq Nat
      /\ {TTL, MaxSeq, MaxCredit, MaxTick, VariantPrice, MaxRequests} \subseteq Nat
      /\ Admins # {} /\ "admin" \in AdminRoles
  <2>1. /\ {BotQuota, Burst, MaxChatTime, MaxPushes, MaxFollows, MaxSaleTime, MaxListTime,
            MaxVersion, Attempts, MaxTokenTime} \subseteq Nat
        /\ Admins # {}
    BY BoundAssumption
  <2>2. /\ TTL \in Nat /\ MaxSeq \in Nat /\ MaxCredit \in Nat /\ MaxTick \in Nat
        /\ VariantPrice \in Nat /\ MaxRequests \in Nat /\ "admin" \in AdminRoles
    BY BackendAssumption
  <2> QED
    BY <2>1, <2>2
<1>1. part \in Parts
  BY DEF BackendInit
<1>2. CASE part = "accounts"
  BY <1>1, <1>2 DEF PartsTyped, PartsHold, OwnInv, Typed
<1>3. SignUp!TypeOK
  BY DEF BackendInit, SignUp!Init, SignUp!TypeOK
<1>4. Google!TypeOK
  BY DEF BackendInit, Google!Init, Google!TypeOK, Google!Exchanges
<1>5. Videos!TypeOK /\ ClipUsers
  <2>1. Videos!Init
    BY DEF BackendInit
  <2>2. Videos!TypeOK
    <3>1. takenDown \in BOOLEAN
      BY <2>1, Zenon DEF Videos!Init
    <3> QED
      BY <2>1, <3>1 DEF Videos!Init, Videos!TypeOK
  <2>3. \A c \in Calls : clipStep[c] = "idle"
    BY <2>1 DEF Videos!Init
  <2> QED
    BY <2>2, <2>3 DEF ClipUsers
<1>6. Overlays!TypeOK
  BY DEF BackendInit, Overlays!Init, Overlays!TypeOK, Overlays!Stages, Overlays!Settled
<1>7. Chat!TypeOK
  <2>1. Chat!Init
    BY DEF BackendInit
  <2>2. chatLines \in Seq(ChatRows)
    BY <2>1 DEF Chat!Init
  <2>3. MuteTypes
    BY <2>1 DEF Chat!Init, MuteTypes
  <2>4. MessageTypes /\ chatClock \in 0..MaxChatTime
    <3>1. botEnabled \in BOOLEAN
      BY <2>1, Zenon DEF Chat!Init
    <3> QED
      BY <1>0, <2>1, <3>1 DEF Chat!Init, MessageTypes, Chat!Stages, Chat!Texts
  <2> QED
    BY <2>2, <2>3, <2>4 DEF Chat!TypeOK, MuteTypes, MessageTypes, ChatRows
<1>8. Gifts!TypeOK
  BY <1>0 DEF BackendInit, Gifts!Init, Gifts!TypeOK, Gifts!Points, Gifts!Steps
<1>9. Room!TypeOK
  <2>1. Room!Init
    BY DEF BackendInit
  <2> QED
    <3>1. overtaken \in BOOLEAN /\ statsLost \in BOOLEAN /\ roomTold \in BOOLEAN
      BY <2>1, Zenon DEF Room!Init
    <3> QED
      BY <1>0, <2>1, <3>1 DEF Room!Init, Room!TypeOK
<1>10. Shops!TypeOK
  BY <1>0 DEF BackendInit, Shops!Init, Shops!TypeOK, Shops!Steps
<1>11. Market!TypeOK
  BY <1>0 DEF BackendInit, Market!Init, Market!TypeOK, Market!Times, Market!Statuses, Market!Prices,
              Market!Quotes, Market!Unread
<1>12. Lists!TypeOK
  <2>1. Lists!Init
    BY DEF BackendInit
  <2> QED
    <3>1. twice \in BOOLEAN
      BY <2>1, Zenon DEF Lists!Init
    <3>2. firstPage \in (SUBSET Ids) \cup {NoEntry}
      BY <2>1 DEF Lists!Init
    <3> QED
      BY <1>0, <2>1, <3>1, <3>2 DEF Lists!Init, Lists!TypeOK, Lists!Walks
<1>13. Redis!TypeOK
  <2>1. Redis!Init
    BY DEF BackendInit
  <2>2. reader \in [Twins -> Redis!ReaderAt] /\ writer \in [Writers -> Redis!WriterAt]
    BY <2>1 DEF Redis!Init, Redis!IdleWriter, Redis!ReaderAt, Redis!WriterAt
  <2> QED
    <3>1. reordered \in BOOLEAN /\ failClosed \in BOOLEAN
      BY <2>1, Zenon DEF Redis!Init
    <3> QED
      BY <1>0, <2>1, <2>2, <3>1 DEF Redis!Init, Redis!TypeOK
<1>14. Tags!TypeOK
  <2>1. Tags!Init
    BY DEF BackendInit
  <2>2. turn \in 1..(Len(selection) + 1)
    BY <2>1 DEF Tags!Init
  <2> QED
    BY <2>1, <2>2 DEF Tags!Init, Tags!TypeOK
<1>15. Audit!TypeOK
  <2>1. PICK a \in Admins : a = CHOOSE u \in Admins : TRUE
    BY <1>0
  <2>2. Audit!Init
    BY DEF BackendInit
  <2>3. Audit!NoChange(a) \in Audit!Changes
    BY <1>0 DEF Audit!NoChange, Audit!Changes
  <2>4. change = [c \in Twins |-> Audit!NoChange(a)] /\ trail = <<>>
    BY <2>1, <2>2 DEF Audit!Init
  <2>5. trail \in Seq(Audit!Changes) /\ change \in [Twins -> Audit!Changes]
    BY <2>3, <2>4
  <2> QED
    BY <1>0, <2>2, <2>5 DEF Audit!Init, Audit!TypeOK
<1>16. Player!TypeOK
  BY <1>0 DEF BackendInit, Player!Init, Player!TypeOK
<1>17. Signer!TypeOK
  <2>1. Signer!Init
    BY DEF BackendInit
  <2>2. config \in [Twins -> Signer!Configs]
    BY <2>1 DEF Signer!Init, Signer!Configs, Signer!NoConfig
  <2> QED
    <3>1. unasked \in BOOLEAN
      BY <2>1, Zenon DEF Signer!Init
    <3> QED
      BY <1>0, <2>1, <2>2, <3>1 DEF Signer!Init, Signer!TypeOK
<1>18. Keys!TypeOK
  <2>1. Keys!Init
    BY DEF BackendInit
  <2>2. \A r \in Twins : Keys!Cardinality(issuedKey[r]) <= 1
    BY <2>1, FS_EmptySet, KeySizes DEF Keys!Init
  <2> QED
    BY <2>1, <2>2 DEF Keys!Init, Keys!TypeOK
<1>19. Middleware!TypeOK
  BY DEF BackendInit, Middleware!Init, Middleware!TypeOK, Middleware!Nothing,
         Middleware!Answers, Middleware!Statuses, Middleware!Bodies
<1>20. Fixtures!TypeOK
  BY DEF BackendInit, Fixtures!Init, Fixtures!TypeOK, Fixtures!Steps
<1>21. /\ part \in {"subtitles", "banners"} => Replays!TypeOK
       /\ part = "pictures" => Pictures!TypeOK
       /\ part = "starts" => Starts!TypeOK
       /\ part = "files" => Files!TypeOK
  BY DEF PartsHold, ReelInv, ReplayInv, DecisionsInv, StartInv, JobsInv, FileInv
<1> QED
  BY <1>1, <1>2, <1>3, <1>4, <1>5, <1>6, <1>7, <1>8, <1>9, <1>10, <1>11, <1>12, <1>13, <1>14,
     <1>15, <1>16, <1>17, <1>18, <1>19, <1>20, <1>21 DEF PartsTyped

\* While the cache or the limiter moves, the other rests.
LEMMA RedisMove ==
  ASSUME [BackendNext]_allVars
  PROVE  /\ part = "cache" => Redis!CacheNext \/ UNCHANGED <<cacheVars, limitVars>>
         /\ part = "limiter" => Redis!LimitNext \/ UNCHANGED <<cacheVars, limitVars>>
<1>1. CASE BackendNext
  BY <1>1 DEF BackendNext
<1>2. CASE UNCHANGED allVars
  BY <1>2 DEF allVars
<1> QED
  BY <1>1, <1>2

\* Each step keeps the types of the part that moves.
LEMMA TypesStep ==
  ASSUME PartsTyped, PartsHold, PartsHold', [BackendNext]_allVars
  PROVE  PartsTyped'
<1>0. part' = part /\ part \in Parts
  BY PartStays DEF PartsTyped
<1> USE DEF PartsHold
<1>1. part = "accounts" => TypeOK'
  BY <1>0 DEF OwnInv, Typed
<1>2. part = "signup" => SignUp!TypeOK'
  BY <1>0, SignUpMove, SignUpTyped DEF PartsTyped, OwnInv
<1>3. part = "google" => Google!TypeOK'
  BY GoogleMove, GoogleTypes DEF PartsTyped, OwnInv
<1>4. part = "clips" => Videos!TypeOK' /\ ClipUsers'
  BY VideosMove, ClipTypes DEF PartsTyped
<1>5. part = "overlays" => Overlays!TypeOK'
  BY <1>0, OverlaysMove, OverlayTypes DEF PartsTyped, JobsInv
<1>6. part = "chat" => Chat!TypeOK'
  BY ChatMove, ChatTypes DEF PartsTyped
<1>7. part = "gifts" => Gifts!TypeOK'
  BY <1>0, GiftsMove, GiftTypes DEF PartsTyped, ChargedInv
<1>8. part = "room" => Room!TypeOK'
  BY RoomMove, RoomTypes DEF PartsTyped
<1>9. part = "shops" => Shops!TypeOK'
  BY <1>0, ShopsMove, ShopTyped DEF PartsTyped, DecisionsInv
<1>10. part = "market" => Market!TypeOK'
  BY MarketMove, MarketTypes DEF PartsTyped
<1>11. part \in {"sessions", "history"} => Lists!TypeOK'
  <2>1. CASE part = "sessions"
    BY <1>0, <2>1, ListsMove, WalkTypes DEF PartsTyped, ListInv
  <2>2. CASE part = "history"
    BY <1>0, <2>2, ListsMove, HistoryTypes DEF PartsTyped, ListInv
  <2> QED
    BY <2>1, <2>2
<1>12. part \in {"cache", "limiter"} => Redis!TypeOK'
  <2>1. CASE part = "cache"
    BY <2>1, RedisMove, CacheTypes DEF PartsTyped
  <2>2. CASE part = "limiter"
    BY <1>0, <2>2, RedisMove, LimitTypes DEF PartsTyped, EdgeInv
  <2> QED
    BY <2>1, <2>2
<1>13. part = "tags" => Tags!TypeOK'
  BY <1>0, TagsMove, TagTypes DEF PartsTyped, ListInv
<1>14. part = "audit" => Audit!TypeOK'
  BY AuditMove, AuditTyped DEF PartsTyped
<1>15. part = "playback" => Player!TypeOK'
  BY PlayerMove, PlayerTypes DEF PartsTyped, ToldInv
<1>16. part = "tokens" => Signer!TypeOK'
  BY <1>0, SignerMove, SignerTypes DEF PartsTyped, EdgeInv
<1>17. part = "keys" => Keys!TypeOK'
  BY KeysMove, KeyTypes DEF PartsTyped
<1>18. part = "envelope" => Middleware!TypeOK'
  BY MiddlewareMove, MiddlewareTypes DEF PartsTyped
<1>19. part = "seed" => Fixtures!TypeOK'
  BY FixturesMove, SeedTypes DEF PartsTyped
<1>20. /\ part \in {"subtitles", "banners"} => Replays!TypeOK'
       /\ part = "pictures" => Pictures!TypeOK'
       /\ part = "starts" => Starts!TypeOK'
       /\ part = "files" => Files!TypeOK'
  BY <1>0 DEF ReelInv, ReplayInv, DecisionsInv, StartInv, JobsInv, FileInv
<1> QED
  BY <1>0, <1>1, <1>2, <1>3, <1>4, <1>5, <1>6, <1>7, <1>8, <1>9, <1>10, <1>11, <1>12, <1>13,
     <1>14, <1>15, <1>16, <1>17, <1>18, <1>19, <1>20 DEF PartsTyped

\* Every variable of the part that moves stays in its set: each row, request, counter and
\* clock of the API's handlers has the type that its module states.
THEOREM TypesHold == BackendSpec => []TypesOK
<1>1. BackendSpec => []PartsHold
  BY OwnAlways, DecisionsAlways, ReelAlways, ToldAlways, EdgeAlways, ChargedAlways, JobsAlways,
     ListsAlways, PTL DEF PartsHold
<1>2. BackendInit /\ PartsHold => PartsTyped
  BY TypesInit
<1>3. PartsTyped /\ PartsHold /\ PartsHold' /\ [BackendNext]_allVars => PartsTyped'
  BY TypesStep
<1>4. PartsTyped => TypesOK
  <2> SUFFICES ASSUME PartsTyped PROVE TypesOK
    OBVIOUS
  <2>1. CASE part \in {"accounts", "signup", "google", "clips"}
    BY <2>1 DEF PartsTyped, TypesOK
  <2>2. CASE part \in {"overlays", "chat", "gifts"}
    BY <2>2 DEF PartsTyped, TypesOK
  <2>3. CASE part \in {"room", "shops", "market"}
    BY <2>3 DEF PartsTyped, TypesOK
  <2>4. CASE part \in {"sessions", "history", "subtitles", "banners", "cache", "limiter"}
    BY <2>4 DEF PartsTyped, TypesOK
  <2>5. CASE part \in {"tags", "audit", "playback", "tokens"}
    BY <2>5 DEF PartsTyped, TypesOK
  <2>6. CASE part \in {"keys", "envelope", "pictures"}
    BY <2>6 DEF PartsTyped, TypesOK
  <2>7. CASE part \in {"seed", "starts", "files"}
    BY <2>7 DEF PartsTyped, TypesOK
  <2> QED
    BY <2>1, <2>2, <2>3, <2>4, <2>5, <2>6, <2>7 DEF PartsTyped, Parts
<1> QED
  BY <1>1, <1>2, <1>3, <1>4, PTL DEF BackendSpec
==============================================================================
