------------------------------- MODULE Replay -------------------------------
(***************************************************************************)
(* What a replay shows.  During the session the host's actions and the     *)
(* gifts are logged by background goroutines (LogAsync), each with the     *)
(* stream offset of the moment it runs; chat lines are rows of their own.  *)
(* After the end the worker lays them over the video: Dialogues are the    *)
(* segments of BuildChatASS, Overlays those of PrepareOverlays.            *)
(*                                                                         *)
(* Time is coarse: one tick is the unit of the windows below.  A line of   *)
(* the chat goes at its end; a banner is still drawn at the end of its     *)
(* window, for enable='between(t,start,end)' holds at both ends.           *)
(*                                                                         *)
(* A loop of the worker over a list is a function of the number of rows    *)
(* that it is past.                                                        *)
(***************************************************************************)
EXTENDS Integers, FiniteSets, Sequences

CONSTANTS
  Logs,          \* goroutines started by LogAsync
  NoEvent,
  Start,         \* the tick the session starts at; a chat may be older
  MaxTime,       \* bound: the last tick while the chat is posted
  MaxBannerTime, \* bound: the last tick while events are logged
  MaxChats,      \* bound: chat lines posted
  MaxStack,      \* ChatMaxStack: 6
  GiftWindow,    \* 5 s
  CouponWindow,  \* 6 s
  MaxLane,       \* giftMaxLane: 4
  Padding        \* 8 s after the last known signal

VARIABLES
  clock,
  chats,         \* chat_messages in the order of created_at: at and type
  offered,       \* does the session have a coupon?
  log,           \* what each goroutine has still to record
  events,        \* live_events in the order of (stream_offset_ms, id)
  endedAt,       \* sessions.ended_at, or NoEvent
  reel           \* what was baked, or NoEvent

vars == <<clock, chats, offered, log, events, endedAt, reel>>

EventTypes == {"product_pin", "product_unpin", "coupon_publish", "bot_on", "bot_off", "gift"}

Ticks == 0..MaxTime \cup 0..MaxBannerTime

TypeOK ==
  /\ clock \in Ticks /\ offered \in BOOLEAN
  /\ \A i \in DOMAIN chats : chats[i].at \in Ticks /\ chats[i].type \in {"chat", "gift"}
  /\ log \in [Logs -> EventTypes \cup {NoEvent, "recorded", "failed"}]
  /\ \A i \in DOMAIN events : events[i].type \in EventTypes /\ events[i].offset \in Ticks
  /\ endedAt \in {t \in Ticks : Start <= t} \cup {NoEvent}

Init ==
  /\ clock = 0 /\ chats = <<>> /\ offered = FALSE /\ events = <<>>
  /\ log = [l \in Logs |-> NoEvent]
  /\ endedAt = NoEvent /\ reel = NoEvent

\* An offset from the start of the session, never negative.
Offset(t) == IF t < Start THEN 0 ELSE t - Start

-----------------------------------------------------------------------------
(* The session *)

Tick(bound) ==
  /\ clock < bound
  /\ clock' = clock + 1
  /\ UNCHANGED <<chats, offered, log, events, endedAt, reel>>

\* A line of the chat; a gift also puts one there (SendGift).
PostChat(type) ==
  /\ Len(chats) < MaxChats
  /\ chats' = Append(chats, [at |-> clock, type |-> type])
  /\ UNCHANGED <<clock, offered, log, events, endedAt, reel>>

\* A goroutine starts.
LogAsync(l, type) ==
  /\ log[l] = NoEvent /\ clock >= Start
  /\ log' = [log EXCEPT ![l] = type]
  /\ UNCHANGED <<clock, chats, events, endedAt, reel>>

\* Creating a coupon publishes it; its host may publish it again.
CreateCoupon(l) == LogAsync(l, "coupon_publish") /\ offered' = TRUE

AnnounceCoupon(l) == offered /\ LogAsync(l, "coupon_publish") /\ UNCHANGED offered

\* A pin, the end of one, a bot switch, or a gift.
LogOther(l) ==
  /\ \E type \in EventTypes \ {"coupon_publish"} : LogAsync(l, type)
  /\ UNCHANGED offered

\* The goroutine takes the offset when it runs; the insert may fail, and
\* nobody tries again.
Record(l) ==
  /\ log[l] \in EventTypes
  /\ \/ /\ events' = Append(events, [type |-> log[l], offset |-> Offset(clock)])
        /\ log' = [log EXCEPT ![l] = "recorded"]
     \/ log' = [log EXCEPT ![l] = "failed"] /\ UNCHANGED events
  /\ UNCHANGED <<clock, chats, offered, endedAt, reel>>

End ==
  /\ endedAt = NoEvent /\ clock >= Start
  /\ endedAt' = clock
  /\ UNCHANGED <<clock, chats, offered, log, events, reel>>

-----------------------------------------------------------------------------
(* The chat *)

\* The chat lines without the gifts, which have a banner of their own.
Keep(acc, m) == IF m.type = "gift" THEN acc ELSE Append(acc, m)

Kept(lines) ==
  LET kept[n \in 0..Len(lines)] ==
        IF n = 0 THEN <<>> ELSE Keep(kept[n - 1], lines[n])
  IN  kept

ChatOnly(lines) == Kept(lines)[Len(lines)]

\* A line moves one place up for each line after it, MaxStack places at most,
\* and stays where it is when no line follows; the empty segments go.
Segment(lines, i, pos, end) ==
  [line |-> i, pos |-> pos,
   from |-> Offset(lines[i + pos].at),
   to |-> IF i + pos < Len(lines) THEN lines[i + pos + 1].at - Start ELSE end]

\* Mutant: a line is kept for one place more than the stack has.
DialoguesOneHigher(lines, end) ==
  {s \in {Segment(lines, p[1], p[2], end) :
            p \in {q \in (DOMAIN lines) \X (0..MaxStack) : q[1] + q[2] <= Len(lines)}} :
     s.from < s.to}

Dialogues(lines, end) ==
  {s \in {Segment(lines, p[1], p[2], end) :
            p \in {q \in (DOMAIN lines) \X (0..(MaxStack - 1)) : q[1] + q[2] <= Len(lines)}} :
     s.from < s.to}

-----------------------------------------------------------------------------
(* The banners *)

OfType(evs, types) == {n \in DOMAIN evs : evs[n].type \in types}
Least(a, b) == IF a < b THEN a ELSE b
Asset(type, from, to, lane) == [type |-> type, from |-> from, to |-> to, lane |-> lane]

Coupons(evs, end) ==
  {Asset("coupon", evs[n].offset, Least(evs[n].offset + CouponWindow, end), 0) :
     n \in OfType(evs, {"coupon_publish"})}

\* The lowest lane whose last gift has faded, or a new one.
\* Mutant: a lane is taken while its gift is still shown.
FreeLaneEarly(ends, from) ==
  LET free == {l \in DOMAIN ends : from >= ends[l] - 1}
  IN  IF free = {} THEN Len(ends) + 1 ELSE CHOOSE l \in free : \A k \in free : l <= k

FreeLane(ends, from) ==
  LET free == {l \in DOMAIN ends : from >= ends[l]}
  IN  IF free = {} THEN Len(ends) + 1 ELSE CHOOSE l \in free : \A k \in free : l <= k

\* Lanes count from 0; the ones above the last share it.
PlaceGift(acc, e, end) ==
  LET to == Least(e.offset + GiftWindow, end)
      lane == FreeLane(acc.ends, e.offset)
  IN  IF e.type # "gift" THEN acc ELSE
      [ends |-> IF lane > Len(acc.ends) THEN Append(acc.ends, to)
                ELSE [acc.ends EXCEPT ![lane] = to],
       shown |-> Append(acc.shown, Asset("gift", e.offset, to, Least(lane - 1, MaxLane)))]

Placed(evs, end) ==
  LET placed[n \in 0..Len(evs)] ==
        IF n = 0 THEN [ends |-> <<>>, shown |-> <<>>]
        ELSE PlaceGift(placed[n - 1], evs[n], end)
  IN  placed

GiftOverlays(evs, end) == Placed(evs, end)[Len(evs)].shown

\* Pairs an opening event with the next closing one.  A second pin replaces the
\* first, whose span is lost; a second bot_on changes nothing.
Switch(acc, e, kind, on, off) ==
  IF e.type = on /\ (acc.open = <<>> \/ kind = "pin")
    THEN [open |-> <<e.offset>>, shown |-> acc.shown]
  ELSE IF e.type = off /\ acc.open # <<>>
    THEN [open |-> <<>>, shown |-> Append(acc.shown, Asset(kind, acc.open[1], e.offset, 0))]
  ELSE acc

Switched(evs, kind, on, off) ==
  LET switched[n \in 0..Len(evs)] ==
        IF n = 0 THEN [open |-> <<>>, shown |-> <<>>]
        ELSE Switch(switched[n - 1], evs[n], kind, on, off)
  IN  switched

\* What is still open at the end runs up to it.
Spans(evs, kind, on, off, end) ==
  LET all == Switched(evs, kind, on, off)[Len(evs)]
  IN  IF all.open = <<>> THEN all.shown
      ELSE Append(all.shown, Asset(kind, all.open[1], end, 0))

Pins(evs, end) == Spans(evs, "pin", "product_pin", "product_unpin", end)

\* Mutant: a chip that is still on at the end of the session is forgotten.
ChipsSwitchedOff(evs, end) ==
  SelectSeq(Spans(evs, "bot", "bot_on", "bot_off", end), LAMBDA a : a.to # end)

BotChips(evs, end) == Spans(evs, "bot", "bot_on", "bot_off", end)

\* Without a duration: the last event or chat line, and some padding.
Latest(evs, lines) ==
  LET known == {0} \cup {evs[n].offset : n \in DOMAIN evs}
                   \cup {Offset(lines[n].at) : n \in DOMAIN lines}
  IN  CHOOSE t \in known : \A u \in known : u <= t

\* The worker lays out what it finds; dur is the recording's own length, which
\* counts only while the session's end is not stored.
Bake(dur) ==
  /\ reel = NoEvent /\ clock > Start
  /\ LET known == IF endedAt # NoEvent THEN endedAt - Start ELSE dur
         end == IF known > 0 THEN known ELSE Latest(events, chats) + Padding
         lines == ChatOnly(chats)
     IN  reel' = [end |-> end, lines |-> lines, events |-> events,
                  dialogues |-> Dialogues(lines, end),
                  coupons |-> Coupons(events, end), gifts |-> GiftOverlays(events, end),
                  pins |-> Pins(events, end), chips |-> BotChips(events, end)]
  /\ UNCHANGED <<clock, chats, offered, log, events, endedAt>>

BakeAny == \E dur \in {0, clock - Start} : Bake(dur)

\* What is laid out of the chat reads no event, and the banners read no chat, but
\* for the end that Latest guesses; so one of them moves at a time.
ChatNext ==
  \/ Tick(MaxTime)
  \/ \E type \in {"chat", "gift"} : PostChat(type)
  \/ End \/ BakeAny

BannerNext ==
  \/ Tick(MaxBannerTime)
  \/ \E l \in Logs : CreateCoupon(l) \/ AnnounceCoupon(l) \/ LogOther(l) \/ Record(l)
  \/ End \/ BakeAny

Next == ChatNext \/ BannerNext

Spec == Init /\ [][Next]_vars

-----------------------------------------------------------------------------
(* Properties *)

Written(d, t) == d.from <= t /\ t < d.to
Shown(a, t) == a.from <= t /\ t <= a.to

\* At every moment the subtitles show the newest lines posted so far, at most
\* MaxStack of them, the newest at the bottom and each in a place of its own.
ChatIsStacked ==
  reel # NoEvent =>
    \A t \in 0..(reel.end - 1) :
      LET posted == Cardinality({i \in DOMAIN reel.lines : reel.lines[i].at - Start <= t})
      IN  {<<d.line, d.pos>> : d \in {s \in reel.dialogues : Written(s, t)}} =
            {<<posted - k, k>> : k \in 0..(Least(posted, MaxStack) - 1)}

\* Two gifts shown at one moment have different lanes, unless both are in the
\* last one, or it is the very moment at which the first goes and the second
\* comes: FreeLane gives a lane away at the end of its window, and both windows
\* hold that moment.
GiftsApart ==
  reel # NoEvent =>
    \A i, j \in DOMAIN reel.gifts : \A t \in 0..reel.end :
      /\ i < j /\ Shown(reel.gifts[i], t) /\ Shown(reel.gifts[j], t)
      /\ reel.gifts[i].lane = reel.gifts[j].lane
      => \/ reel.gifts[i].lane = MaxLane
         \/ t = reel.gifts[i].to /\ t = reel.gifts[j].from

\* The last event of these types up to a moment.
Before(types, t) == {n \in OfType(reel.events, types) : reel.events[n].offset <= t}
IsLast(n, S) == n \in S /\ \A k \in S : k <= n

\* Of the banners shown at a moment, those that go at it; the others stay on.
Leaving(spans, t) == {i \in DOMAIN spans : Shown(spans[i], t) /\ spans[i].to = t}
Staying(spans, t) == {i \in DOMAIN spans : Shown(spans[i], t)} \ Leaving(spans, t)

\* A banner goes at a moment only when the host switched it off at that moment.
LeavesWithThe(off, spans, t) ==
  Leaving(spans, t) # {} => \E n \in OfType(reel.events, {off}) : reel.events[n].offset = t

\* The chip of the bot is on the video exactly while the last switch before
\* that moment turned the bot on, and then once; and at the moment it is turned
\* off.
ChipTellsTheBot ==
  reel # NoEvent =>
    \A t \in 0..(reel.end - 1) :
      LET on == \E n \in DOMAIN reel.events : /\ IsLast(n, Before({"bot_on", "bot_off"}, t))
                                              /\ reel.events[n].type = "bot_on"
      IN  /\ Cardinality(Staying(reel.chips, t)) = IF on THEN 1 ELSE 0
          /\ LeavesWithThe("bot_off", reel.chips, t)

\* A pinned product on the video is the one the host pinned last before that
\* moment, and it stands alone, but for a product unpinned at that very moment,
\* which is drawn with it.  A pin replaced by another is not shown at all.
PinTellsTheHost ==
  reel # NoEvent =>
    \A t \in 0..(reel.end - 1) :
      /\ Cardinality(Staying(reel.pins, t)) <= 1
      /\ \A i \in Staying(reel.pins, t) : \E n \in DOMAIN reel.events :
           /\ IsLast(n, Before({"product_pin", "product_unpin"}, t))
           /\ reel.events[n].type = "product_pin"
           /\ reel.events[n].offset = reel.pins[i].from
      /\ LeavesWithThe("product_unpin", reel.pins, t)

\* What the viewer of the replay sees is what happened.
ReplayTellsTheLive == ChatIsStacked /\ GiftsApart /\ ChipTellsTheBot /\ PinTellsTheHost

=============================================================================
