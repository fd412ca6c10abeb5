# Tropia: specifications, model checking and proofs

Tropia is a live-commerce system: sellers broadcast over SRS, viewers chat,
send gifts and buy pinned products with one tap, and pay later or at once.  Its
backend is a Go API process, a Go worker process, Postgres, Redis and the media
server SRS; a Flutter application is the client.  This directory holds TLA+
modules translated from the backend's source (`src/backend`), TLC
configurations that model-check them on small instances, and theorems about
them that TLAPS proves for every value of the constants.

Paths below are relative to `src/backend` unless they begin with `src/`.

1. [The system](#1-the-system) 2. [Modules and how they correspond to the
code](#2-modules-and-how-they-correspond-to-the-code) 3. [Runs, bounds and
results](#3-runs-bounds-and-results) 4. [Fairness](#4-fairness) 5. [Theorems and their
arguments](#5-theorems-and-their-arguments) 6. [Where code and comments
disagree](#6-where-code-and-comments-disagree) 7. [What is only model-checked, and what is not
modelled](#7-what-is-only-model-checked-and-what-is-not-modelled) 8. [What would come
next](#8-what-would-come-next) 9. [Running the tools](#9-running-the-tools)

## 1. The system

### Components

| Component | State | Operations | What makes it correct | Modules |
|---|---|---|---|---|
| Live orders and stock lock (`commerce/orders.go`, `cache/redis.go`) | `live_session_products.stock_left/sold_count`, Redis key `product:<id>:stock`, `live_orders` | `PlaceLiveOrder`, `AcquireLock`, `Lock.Release`, `ReplaceProducts`, `RemoveProduct` | one holder; never oversold; counters agree with orders; no unit promised twice but for lost decrements | `LiveStock`, `StockLedger` |
| Coupons (`commerce/coupons.go`) | `coupons.used_count`, `coupon_usages` | `ApplyCoupon`, `RecordUsage` inside both checkouts, closing | cap holds; counter equals rows; no redemption lost | `Coupons` |
| Cart and checkout (`commerce/cart.go`, `orders.go`) | `cart_items` with `is_selected`, `added_at`, `unit_price` | add, quantity, select, remove, `CheckoutCart` | rows go for stated reasons only; a row costs what was shown | `CartPayment`, `Market` |
| Payments (`commerce/orders.go`, `payment/*.go`) | `live_orders.payment_status/method`, `payment.success` events | `init*`, callbacks, `ConfirmPayment`, `MarkPaid` | paid once, by who charged or by a browser's redirect, announced at most once | `CartPayment`, `PaymentLedger` |
| Flash sales, product status (`flashsale/*.go`, `catalog/products.go`) | sales, slots, prices | create, update, set products, delete | a row of the cart costs the least of the open slots and of its card | `Market` |
| Event bus (`events/bus.go`) | Redis stream, consumer group, pending entries | `Publish`, `Subscribe` | each event handled at most once; what is done was handled | `EventBus` |
| Worker notifications (`cmd/worker`, `notify`) | none beyond the bus | handlers that send e-mails | every event is tried | `EventBus` |
| Chat hub and sockets (`live/chathub.go`, `live/handler.go`) | maps of clients, send buffers, `done` channels | connect, publish, reader, writer, `Disconnect` | no gap for a listed viewer; leavers forgotten; nobody blocks a publisher | `ChatHub` |
| Chat moderation (`live/chat_mute.go`, `chat_filter.go`, `handler.go`) | mutes, recent masks, bot quota | post, mute, unmute, filters, bot | a ban lasts as long as it was asked for | `ChatModeration` |
| Live sessions and SRS webhooks (`srs/webhook.go`, `live/spec_repo.go`, `session_repo.go`) | `live_sessions.status/publish_token/started_at`, Redis claim `live:publisher:<key>` | start, stop, create, end, `on_publish`, `on_unpublish`, sweep | only the token's holder on air; one publisher; closed stays closed; sessions end | `LiveSession`, `LiveStart` |
| Live room (`live/handler.go`, `session_repo.go`) | viewers, follows, likes, session products, pin | join, leave, like, follow, pin, products, stats frames | the last frame is the truth | `LiveRoom` |
| Lists (`live/session_repo.go`, `spec_chat_gift_repo.go`) | cursors in the clients | list of sessions with its cached first page, history of the chat | nothing twice, nothing lost | `ListWalk` |
| Recordings and VOD (`cmd/worker`, `live/session_repo.go`) | recording rows, VOD links, files on the disk and in R2 | `on_dvr`, bake, upload, retention, DVR sweep | what expired is gone, and no link to it stays | `Recording` |
| VOD rendering (`vod/*.go`) | none: a function of the log and the chat | dialogues, overlays, lanes, places | the replay tells what happened; no picture hides another | `Replay`, `Placement` |
| Video clips (`video/*.go`, `cmd/worker`) | clips, likes, views, comments, reports, tags, `overlay_status` | the requests on a clip, takedown, overlay job | counters explained; queues emptied; jobs leave an outcome | `Clips`, `ClipTags`, `ClipOverlay` |
| Gifts and loyalty points (`live/spec_chat_gift_repo.go`) | point balances, gift rows | send gift in one transaction, credit | points neither lost nor spent twice | `Gifts` |
| Shop members and followers (`live/member_handler.go`, `shop_member_repo.go`, `shops/*.go`) | membership status, `can_live`, followers | add, patch, remove, follow | no update lost; counter explained | `Shops` |
| Accounts and tokens (`auth/*.go`) | profiles, refresh tokens, lockout, one-time codes, OAuth states | sign-up, login, Google, refresh, logout, reset | one successor; revocations hold; codes confirm their own account | `Accounts`, `SignUp`, `GoogleSignIn` |
| Admin and audit (`admin/*.go`) | roles, audit log | change of role, credits | the log tells the history | `RoleAudit`, `Accounts`, `Gifts` |
| HLS proxy, URL tokens, stream keys (`live/hls_proxy.go`, `token.go`, `live/streamkey_provider.go`) | SRS's playlist, signing keys, the registry | manifest, segment, sign, rotate, issue | served is playable; rotation unnoticed; keys accounted | `Playback`, `UrlTokens`, `StreamKeys` |
| Cache-aside and rate limit (`cache/redis.go`, `httpx/ratelimit.go`) | cached values, windows | get, set, invalidate, allow | staleness explained; limit holds for all that Redis answered | `CacheAside` |
| HTTP middleware (`httpx/*.go`) | the request's writers | recovery, log, envelope, errors, guards | answers are true and arrive | `Envelope` |
| Seed (`cmd/seed`) | fixtures | one run, statement by statement | repeated runs converge | `Seed` |
| Storage and safe fetch, configuration, database pools, metrics | rows or objects changed by one call, or none | | no protocol of several steps | steps of `Recording`, `ClipOverlay`, `UrlTokens` |
| Mobile and web client, deployment | outside the backend | | environment of the models | |

### How they interact

* **API and Postgres.**  Handlers run concurrently, one goroutine each.  Most
  send single statements outside a transaction, so that other requests run
  between any two of them.  Transactions are short: `MarkPaid`, `RecordUsage`,
  `StartSpecSession`, gifts,
  the creation of a clip with its cards, takedowns.
* **API and Redis.**  A lock for the stock of a product, the claim of a stream
  key, caches, rate limits, OAuth states, and the streams of the event bus.
* **API and worker.**  Only the event bus: `order.created`, `payment.success`,
  OTP, `recording.created` and `video.created`.  The worker also sweeps sessions and
  recordings on tickers.
* **SRS and API.**  SRS asks before it lets a client publish and reports
  afterwards that it left; a report may be lost, and a denied client is
  reported as well.
* **Gateways and API.**  MoMo and ZaloPay repeat a signed callback until they get a
  success reply, VNPay comes back through the buyer's browser with a signed query.  MoMo
  also sends the browser back, without a signature, and that redirect confirms the order
  as well (`payment/handler.go:106`).
* **Inside the API.**  The chat hub is shared by the reader and writer goroutine
  of every socket and by every handler that publishes.  Background
  goroutines push stats frames and log the host's actions; they overtake each other.
* **Backend and the infra registry.**  The key of a session may come from a service
  of another team, whose answer may be late, unreadable or lost.

### What is hard here

Check-then-act over several statements (stock, coupon cap, token then status,
`SETNX` then `GET`, find a refresh token then revoke it, read a member then write
it back); leases that may end before their holder does; errors that are discarded
on purpose (`_ =`), which makes partial failure a normal outcome; cancelled request
contexts, after which every later statement of the handler fails, the release of a
lock included; repeated and competing callbacks; a consumer that dies with events
in hand; channels that two goroutines close; counters kept beside the rows they
count; detached goroutines whose order nobody fixed.  `PROJECT.json` lists each of
these under `hazards`, at its line, with the properties that cover it.

## 2. Modules and how they correspond to the code

`PROJECT.json` maps every definition to the lines it models.  In all modules a
step is one round trip to Postgres or Redis, one transaction, one critical
section under a Go mutex, or one channel operation; whatever lies between two
such steps is local and joined to the step before.

| Module | Extends / instantiates | Models |
|---|---|---|
| `StockLedger` | | what the stock promises, atomically (abstract) |
| `LiveStock` | `INSTANCE StockLedger` | `PlaceLiveOrder` with its Redis lock |
| `Coupons` | | coupon validation and redemption in concurrent checkouts |
| `PaymentLedger` | | what the payment of an order promises, atomically (abstract) |
| `CartPayment` | `INSTANCE PaymentLedger` | cart, orders, gateways, `ConfirmPayment`, `MarkPaid` |
| `Market` | | flash sales, product status, and the prices of card and cart |
| `ChatHub` | | the WebSocket fan-out and its goroutines |
| `ChatModeration` | | mutes, filters and bot before a message reaches the hub |
| `EventBus` | | one topic of the bus with its workers |
| `LiveSession` | | sessions, SRS webhooks, publisher claim, sweep |
| `LiveStart` | | overlapping starts and stops of one seller, statement by statement |
| `LiveRoom` | | who watches, what is pinned, and the frames that tell it |
| `ListWalk` | | pages of the session list and of the chat |
| `Gifts`, `Shops` | | points and gifts; members and followers of a shop |
| `Recording` | | files, rows, links and objects of a session's recordings |
| `Replay`, `Placement` | | when and where the replay shows what |
| `Clips`, `ClipTags`, `ClipOverlay` | | a clip's counters and moderation, its cards, its burnt-in copy |
| `Accounts`, `SignUp`, `GoogleSignIn` | | sessions of an account, how it comes into being, the hand-over of a Google login |
| `RoleAudit` | | changes of role and their log |
| `CacheAside` | | one cached table, and the sliding-window limiter |
| `Playback`, `UrlTokens`, `StreamKeys` | | the HLS proxy, signed URLs and their keys, where stream keys come from |
| `Envelope` | | one request through the middleware and back |
| `Seed` | | runs of `cmd/seed` |
| `Backend` | `Accounts`, instances of 22 other modules | the API's handlers and background jobs, one part at a time, chosen in the initial state |
| `MCCoupons`, `MCChatHub`, `MCBackend` | the module, `TLC` | the instances for TLC: symmetry, functions for constants |
| `MCBackground` | `Recording`, instances of `ChatHub` and `LiveStock` | what must end, with fairness |
| `<M>Proofs` | `<M>`, `TLAPS` | lemmas and theorems |
| `PeopleProofs`, `BackendProofs` | `Backend`; `PeopleProofs` | those of `Accounts`, `SignUp`, `GoogleSignIn`, `LiveStart`, `Shops`, `Clips`, `RoleAudit`, `StreamKeys`, `ChatModeration`, `Replay` and `Placement`; those of the other parts |

Operators whose comment begins with "Mutant" are variants of the definition
that follows them, with a plausible bug.  No specification uses them; they
document which bug each property would find.

**LiveStock.**  `lock` is the Redis key with the token of its holder; `present`, `stock_left`
and `sold_count` are the product's row; `placed` is `live_orders`.  A request walks through
`Acquire`/`AcquireBusy` (SETNX with retries), `ReadStock` (read and check), `CheckCoupon`,
`InsertOrder`, `DecrementStock` (the unguarded `UPDATE`) and `Release` (the script that
compares the token).  Each of these statements may also fail by itself: of the lock
(`AcquireFails`), of the checks and of the insert, the error is the answer; of the `UPDATE`
and of `Release` it is discarded, and the request goes on to its 201.  `missed` is history:
the orders in `placed` whose units never leave the stock, because the `UPDATE` failed or found
no row, or because the request ended before it.  `Abandon` is the death of the process and
also a cancelled context: both stop every later write.  `Expire` is the TTL; `MayOverrun` says
whether it may strike while the holder is still inside. `RemoveRow` is `ReplaceProducts` or
`RemoveProduct`: the rows are deleted, and the same goods come back under another id, which is
another lock and another row.

**StockLedger.**  Two variables: `left` and `closed`; `Sell(q)` takes units that
are there, `Close` ends the sale.  `LiveStock` implements it under
`left <- stock_left, closed <- ~present`.

**Coupons.**  A checkout validates its codes one after the other (`ApplyCode`,
`RejectCode`), inserts the order, then calls `RecordUsage` per coupon: a
transaction that inserts the usage row, raises the counter with the cap in the
`WHERE` clause, and rolls back if nothing was raised.  `RecordUsageFails` and
`Abandon` are the discarded errors.  `CouponOf` maps spellings to coupons,
because `FindByCode` upper-cases while the dedupe of `CheckoutCart` compares
what the client sent.

**CartPayment.**  The buyer edits the cart at any time (`AddItem`, `UpdateQty`,
`Select`, `Remove`); an order reads the selection (`ListSelected`), is inserted
(`InsertOrder`, or `PlaceLiveOrder` for a one-tap order) and, when it is cash,
cleans the cart (`CleanCart`).  `InitPayment` may be called at several gateways;
`Charge` is external.  `BeginConfirm` takes the row lock of `MarkPaid`,
`caller` says who waits for the reply.  `BrowserReturn` enters the same path from a
gateway of `Redirecting` (MoMo) for any pending order, whether charged, opened there or
neither, since the handler checks `resultCode` and nothing else.
`CommitConfirm` pays the order and deletes the selected rows with
`added_at <= created_at` (`older`), `PublishSuccess`/`LoseSuccess` is the event
after the commit, `FailConfirm` a failed transaction, `RepeatCallback` the
answer to a callback for an order that is paid already.

**PaymentLedger.**  `Open`, `Collect`, `Settle`, `Answer` and `Announce` of an order's
payment, each atomic: one gateway settles the order for good, one that has collected or one of
`Redirecting`, and only then is it announced, once.  `CartPayment` implements it under
`settledBy <- PaidBy`, the payment method once `payment_status` is `paid`, `announced <-
receipts` and the sets of gateways `opened <- initiated, collected <- charged, answered <-
acked`.  The row lock, the transaction and what is lost between commit and event are
stuttering steps, or the reply alone.

**ChatHub.**  `subscribed` stands for the hub's two maps; `sent`/`taken` for the
`send` channels; `doneClosed`/`sendClosed` for the closed channels.
`Disconnect` is split where the code leaves the mutex: delete from the map,
check `done`, close `done`, close `send`.  Readers, publishers that found a
full buffer, and several of them together run it for one client.  A panic ends
the request, in a detached goroutine the process (`alive`).

**EventBus.**  Ids 1..`published` of one stream, `trimmed` by `MAXLEN`; the
group's `cursor` and `pending`; per worker the `batch` of an `XREADGROUP` reply
and the event that is `acking`.  Workers stop at any step, also with a reply in
hand, and two may overlap during a deployment, under one consumer name.

**LiveSession.**  A session stands for its row and its stream key.  `Guarded`
are the sessions of `POST /api/live/start` (with a token, status `ready`), the
others come from `POST /streams` (no token, `live` at once).  `on_publish` is
`Ask` (row and token), `Claim` (`SETNX`), `Compare` (`GET`), `MarkLive`
(`MarkLiveSpec`, error ignored); `on_unpublish` is `ReadClaim`, `ReleaseClaim`
(`GET`, then `DEL`), `EndByChannel`.  `ClaimExpires` is the 60 s lease, `Age`
and `EndStaleSessions` the clock and the worker's sweep.

**Accounts.**  `BeginLogin` reads the profile (`Snapshot`), `WrongPassword`,
`LockUntil` and `RightPassword` follow bcrypt, `IssueTokenPair` inserts a refresh
token of a new family or of the one being rotated.  `BeginRefresh` is the lookup with
its check (`TokenUsable`) or the reuse detection, which goes on to `RevokeFamily`;
`FindUser` and `RotateToken` are the two statements after the check.  `BeginReset`,
`UpdatePassword` and `SweepSessions` are the password reset; `SetRole` is the admin's
`UPDATE` with its sweep.  `forked`, `burnt` and `late` are history: families one of whose
tokens two refreshes had checked or whose revocation was lost, families revoked by reuse
detection, and tokens issued by calls that had read before a sweep.

**SignUp, GoogleSignIn.**  Checks of phone and e-mail, the insert that the `UNIQUE`
column may refuse, the shop of a seller, the one-time code (`StoreOTP`, or `DropOTP`
when Redis fails), `BeginVerify` and `ConsumeOTP`.  A Google login is `Start`,
`ConsumeState`, `FetchGoogleProfile`, `LoginOrRegister`, `StoreOAuthOTC` and
`TakeCode`; any request may present any state, code or verifier again.

**Recording.**  `OnDvr` publishes, at best; `HandleRecording` inserts the row, looks for
the file, bakes, uploads, sets the link, marks the row and removes the file, one step each;
`SweepDVR` deletes old files without asking the rows; `ListExpired`, `DeleteSome`
and `MarkRecordingExpired` are the retention sweep.  `Crash` stops every worker
between any two of them.

**Replay.**  `LogAsync` takes the offset when its goroutine runs, so events of one moment may
be swapped; `Bake` applies `BuildChatASS` (`Dialogues`) and `PrepareOverlays` (`Coupons`,
`GiftOverlays`, `Pins`, `BotChips`) to what was logged.  A loop over a list is a function of
the number of rows that it is past (`Kept`, `Placed`, `Switched`), and its body an operator
(`Keep`, `PlaceGift`, `Switch`).  A line of subtitles is there up to its end and no longer
(`Written`: libass shows an event while `Start <= t < End`), a banner up to its end and at it
(`Shown`: FFmpeg's `between(t,a,b)` holds at both ends). **Placement** takes the sizes in
pixels and `overlayExpr`, `GiftLaneStep` and the lines of chat, in the two sizes of frame that
the hosts send.

**LiveRoom.**  Each change starts a `Push`: `ReadStats` and `CountRows` read the counters,
`PublishStatsEvent` hands the frame to the hub, `PushFails` is a statement's error. `Join`,
`Leave`, `TrackFollow`, `LikeAnon`, `TrackCartAdd`, `End`, `AddProducts`, `RemoveProduct`,
`ReplaceProducts` and `PinProduct` are the handlers.  `GoOffline` is every way in which the
session ends without a frame: `on_unpublish`, a new `live/start`, the sweep.

**LiveStart.**  `Begin` takes the snapshot of the `UPDATE`, `CloseOpen` ends it when no
other transaction holds its rows, `Insert` waits for and respects the `UNIQUE` stream key,
`Commit` and `Rollback` end the transaction; `StopSpecSession` is the same `UPDATE` alone.
`LiveSession` has the transaction as one step, for the webhooks that run beside it.

**ListWalk.**  `ListActiveCursor` formats its cursor in milliseconds (`FormatListCursor`) and
compares it with microseconds (`PastCursor`).  The first page is `cache.Aside` of
`live:sessions:active`: `Aside` takes it from the entry or from the table, `Poll` is another
client's miss, `Expire` the end of the entry's three seconds or a handler that deletes it. 
`GoLive` and `End` leave the entry alone, as webhooks and stop do.  The walk never comes back
to the first page, so the entry is not followed after it. `ChatHistory` pages by the chat's
sequence number, also while transactions commit late.

**Gifts.**  `LockRow` is the `FOR UPDATE` on the sender's points, `Commit` and
`Rollback` end the transaction, `LogGift` is the event after it.  **Shops.**
`ReadMember` and `UpdateStatus` are the two ends of a merged PATCH; `Follow` and
`CountFollow` the row and its counter.  **ChatModeration.**  `PostChat`, `PassGate`,
`FilterChatMessage`, `Insert` and `BotReply` are a message's way; `Mute` keeps the
later of two ends, as the `GREATEST` of its upsert does.

**Clips.**  Row and counter of a like, a view and a comment are separate steps (`InsertLike`,
`CountLike`, ...); `Takedown` takes the clip down and resolves all its reports in one
transaction, `Dismiss` resolves one.  **ClipTags.**  `SelectAllowed` filters the poster's
choice, `Link` numbers the cards, `Cards` is what the feed shows. **ClipOverlay.**  `Take`,
`Load`, `Start`, `Work`, `UploadCopy`, `SetOverlayURL`, with `Deadline` and `Crash` at any of
them.

**Market.**  `CardPrice` is the card's query, `CartPrice` the cart's; an add is
`ReadVariant`, `ReadSlots`, `UpdateLine` or `InsertLine`, and sales, slots and the
product's status change in between.  Without a slot the card shows the product's own price
(`Sale`) and the cart takes the variant's (`VariantPrice`); they are columns of two tables, and
the bounds let them differ as `cmd/seed/main.go:145` does.  `ReadSlots` may fail, and then the
variant's price stays.

**RoleAudit.**  `TakeImage` and `SetRole` are the beginning and the end of the
statement that returns the old role; `LogAudit` follows the commit.

**CacheAside.**  `Get`, `Load` and `Store` of readers, `Update`, `Scan` and `Del` of writers,
`UpdateElsewhere` of those that invalidate nothing.  The limiter's requests take their time at
`Stamp`; `Script` is the Lua script, `Allow` a request that gets its answer, `AllowFails` one
that gets an error instead, before or after the script ran: it is let through, unless the
route fails closed (`failClosed`), and is `unanswered` in either case.

**Playback.**  SRS (external) publishes, adds segments and disposes of them; `Ask` and `Poll`
are the proxy's loop, `RewriteHLSManifest` its lines, `HlsSegment` the segments.  **UrlTokens.**
`Sign` and `Verify` are `token.go`'s; the operator (external) introduces a key at SRS before an
instance signs with it and retires it when nothing signed with it is valid, which is the order
that `token.go` asks for, but may name a key that is not in the configuration.  **StreamKeys.**
`Accept`, `Stray`, `Reject` and `Unavailable` are what may come of the call to the registry,
`FallbackOrFail` the switch after it.

**Envelope.**  `at` walks down the chain of middleware and back; `captured` and
`buffer` are `bodyCapture`; `Respond`, `Refuse`, `TooLarge`, `Raise`, `Upgrade` and `Panic` are
what handlers do, and `NoRoute` is the path that has none; `Preset` is the status that gin's
`serveError` leaves on the connection for it, and `Finish` writes gin's page if nothing
else was written.  `sent` is what left the process.  **Seed.**  Each statement is a step
that may fail, two runs may overlap, and a run begins where any earlier one was cut off.

## 3. Runs, bounds and results

| Run | Instance | Distinct states | What it shows |
|---|---|---|---|
| `live_stock` | 3 requests, quantity <= 2, stock 3, 1 retry, leases outlive holders | 196 322 | exclusive lock, counters against orders, units sold twice only for lost decrements, refinement of the ledger |
| `coupons` | 3 checkouts, 3 buyers, cap 2, two spellings, up to 2 codes | 243 180 (symmetry) | cap, counter, usage rows, no lost redemption |
| `coupons_over_cap` | 3 checkouts, cap 2 | 5 204 | **violated**: more discounted orders than uses |
| `cart_payment` | 1 order, 2 items, 2 gateways, one of which redirects | 20 188 | paid once and finally, uncharged by redirect only, one receipt, cart losses explained, refinement of the payment ledger, charges answered |
| `chat_hub` | 2 viewers, 2 publishers, 2 feeds, buffer 1 | 296 896 (symmetry) | own messages once, no silent gap |
| `chat_hub_disconnect` | 1 viewer, 2 publishers | 1 390 | **violated**: a second close of `done` |
| `event_bus` | 2 workers, 4 events, replies of 2, MAXLEN 2 | 20 064 | at most once, acknowledged means handled, every event tried |
| `event_bus_retry` | 1 worker, 2 events | 74 | **violated**: a failed event is not tried again |
| `live_session` | 1 session of each API, 2 RTMP clients | 415 879 | token, claim, closed stays closed, sessions end |
| `live_session_stale_key` | 1 session, 1 client | 29 | **violated**: a stopped key is accepted |
| `backend` | 26 parts, see below | 440 145 (symmetry) | the other handlers of the API, recordings, the replay and the seed |
| `background` | files: 2 recordings, 1 sweeper; hub: 1 viewer, 3 publishers, buffer 1; lock: 2 requests, stock 1, leases may end early | 45 503 | dead links are cleared and files leave the disk, leavers are forgotten, publishes end, a late release deletes nobody else's lock, a dead holder's lock is freed |

Every property of a passing run is broken by a mutant of a mapped definition
(`mutants` in `PROJECT.json`), so none of them holds by the shape of the model.

### The properties of `backend`

`part`, chosen in the initial state, names the subsystem that moves; the others are
at rest.  They share tables, but no row that two of them write concurrently, so that
the product of their state spaces would show nothing more.  Each property is a
conjunction over parts; what it says of a part is stated and explained in the part's module.

| Property | Parts and what is checked |
|---|---|
| `OneSuccessor`, `RevocationHolds` | *accounts*: one usable token in a family, unless two refreshes had checked the same one; what reuse detection, reset or a change of role revoked stays revoked, but for calls that had read before |
| `AccountsAreOwn` | *accounts*: `LockoutBites`, however wrong passwords interleave.  *signup*: phone accounts differ, a web account is verified by its own code only.  *google*: one pair of tokens per start, and to the holder of its verifier |
| `CountersAccounted` | *clips*: likes and views; *shops*: followers; *keys*: the registry beside the sessions.  Each is off by exactly what failed or was already there |
| `DecisionsStand` | *starts*: a start replaces what was open, unless another one overlapped it, and a stop holds; *shops*: a member's fields are what the owner last asked for, unless two requests crossed; *clips*: a takedown empties the queue; *audit*: the log links up to the role of now |
| `ChargedAsShown` | *gifts*: every point is in the balance or in a gift; *market*: a new row of the cart costs no more than the open slots and than the card with them, or the variant's own price when there is no slot or the query for it failed |
| `ViewersAreTold` | *room*: the last frame is the truth; *playback*: what is served can be played, and trailing segments stay available; *envelope*: failures keep their status but for two that are answered with 200 (section 6), successes arrive |
| `ListsAreWhole` | *sessions*, *history*: walks repeat nothing and, of what was there when the first page was read from the table, lose only ties; *tags*: cards in the chosen order |
| `EdgeHolds` | *cache*: stale only for a known reason; *limiter*: no window over its limit but for requests without an answer, which a limiter that fails closed refuses; *tokens*: rotation is unnoticed, nothing is left unsigned by mistake |
| `JobsSettle` | *overlays*: each job leaves an outcome, `ready` is true; *seed*: an undisturbed run converges; *files*: an expired recording has no object |
| `ReplayTellsTheLive` | *subtitles*, *banners*: chat stacked, gifts apart, chip and pin as the host set them, but for the moment at which one leaves; *pictures*: no picture over another or over the chat |
| `BansHold` | *chat*: no message passes the gate before the longest mute is over |
| `TypesOK` | the type invariant of each part |

### The bounds, and why they are enough

* *LiveStock*: with stock 3 and quantities 1..2 two requests may fit and three
  may not, and the last units are wanted by two at once.  A lock with a holder,
  a waiter and a newcomer needs three requests; one retry already separates
  "busy once" from "gave up".
* *Coupons*: two uses and three checkouts are the smallest race in which the cap
  is passed by discounts but not by redemptions; buyers are chosen freely, so
  that two checkouts may also have the same buyer (the `UNIQUE` row).
* *CartPayment*: two gateways compete for one order, two rows tell "selected and
  older" from "added during the payment".  `MaxQty` is 1 because no property
  looks at quantities beyond presence.  Orders interact through the cart only;
  what one order may delete is stated per order, and proved for any number.
* *ChatHub*: with `BufSize` 1 a second message meets a full buffer.  Two viewers
  tell a feed's members from others.  The run has no liveness and so may use symmetry.
* *EventBus*: four events with MAXLEN 2 are trimmed before and after delivery, and
  need two replies of two; two workers overlap.
* *LiveSession*: a publisher and a stranger; a session with a token and one
  without.  The number of sessions per seller matters to `live/start` only, which
  closes all others: one other is enough.
* *backend*: three overlapping calls in *accounts* and *signup* (a refresh between a reset and
  another refresh), four in *google* (two starts, two callbacks or exchanges); in the other
  parts two requests meet, since each of their races is of a pair. `MaxFailed` 2 makes the
  lockout reachable with interleaved attempts.  *sessions* walks three sessions with two
  microseconds to the millisecond and pages of one row, the smallest in which a cursor can
  fall into a tie; the cached page may be of any moment before the walk.  *limiter* lets 4
  requests meet limit 2 in windows of 2 over 3 ticks, so that a window slides past its first
  request and may have one more than it holds; it starts failing open and failing closed. 
  *market* has the variant at 5, the card at 3 and slots at 2 and 4, so that each is the
  cheapest or the dearest of some three.  *subtitles* posts one line more than the stack
  holds; *banners* has more gifts than lanes.  *clips* has the owner and another user, so that
  self-views, takedowns by each and a second report occur. *chat* has one viewer, because
  mutes are the viewer's own, and two lengths of the host's mutes, a shorter and a longer one
  than the automatic mute, over three ticks. *keys* asks twice of the registry; *tokens*
  rotates from one key to another at two instances; *seed* overlaps two runs.  *pictures*
  takes both frame sizes with every set of pictures and up to four product cards, the most
  that fit (see section 6).
* *files*: two recordings and two sweepers, which may list the same rows.
* *background*: two recordings are needed for one link of a session; one viewer
  with three publishers and its reader gives four concurrent calls of `Disconnect`;
  a late release concerns two holders and no more.

Numbers that stand for clocks, amounts and versions are small, because properties compare them
only with each other; each bound is a constant of its module (`MaxTime`, `MaxEdits`,
`MaxPushes`, `MaxFollows`, `MaxChats`, `MaxTokens`, ...) and stands in the guards of the action
it stops.

`CHECK_DEADLOCK FALSE` stands in every configuration: requests, publishers and
events are finitely many, and when all are done the system rests, as it should.

## 4. Fairness

| Module | Assumed | Why the code justifies it |
|---|---|---|
| LiveStock (run `background`) | WF of `Expire` and of each request's steps | Redis removes keys whose TTL is over; a goroutine that is not cancelled goes on.  Arrivals, removals and abandonment are free. |
| CartPayment | WF of the event after the commit (published or lost); SF of a callback (first or repeated) while the gateway has no answer, and of its commit or failure | MoMo and ZaloPay repeat callbacks until they are answered; Postgres grants the row lock in turn; a callback is not cut off by a crash every time.  It is *not* assumed of VNPay's browser return, which the code cannot make repeat: for that gateway `ChargeIsAnswered` is a statement about buyers who reload the page. |
| ChatHub (run `background`) | WF of readers, of a writer's end, of publishers, while the process is alive | goroutines are scheduled, and a write to a stuck socket ends at its deadline.  No writer is obliged to drain its channel, no viewer to leave. |
| EventBus | SF of a worker's start with its group, of reading, and of trying an event; WF of the acknowledgement | a supervisor restarts the worker, which in the end stays up long enough.  A handler may fail every time. |
| LiveSession | WF of `Age` and of `EndStaleSessions` | time passes, and the worker's ticker sweeps.  Hosts, clients and SRS owe nothing. |
| Recording (run `background`) | WF of `GrowOld`, `SweepDVR` and `ListExpired`; SF of `DeleteSome` and `MarkRecordingExpired` | time passes and the tickers tick; a delete or an update that is tried at every tick succeeds sometime, although crashes and errors come between.  The worker's handler owes nothing. |

`MCBackground` restates the fairness of its three modules action by action, since it
is owed only to the part that moves.  `Coupons` and the parts of `backend` state no
liveness: nothing there is tried again by itself.

## 5. Theorems and their arguments

All theorems are proved for every value of the constants that satisfies the module's `ASSUME`,
to the last leaf.  The assumptions say what kind of values the constants are: numbers are
numbers, "absent" values are not members, what is counted is finite (the requests of
`LiveStock`, the checkouts of `Coupons`, `Calls` and through it every set that calls fill). 
Those of `Backend` that say more are the code's own constants: ids and page sizes are
positive, `"admin"` is a role, "no status" is none of the status codes, prices and credits are
natural numbers. `BoundAssumption` says of quotas, bursts and the models' own bounds that they
are natural numbers, and that there is an admin, the one that `cmd/seed` inserts.
`ReplayAssumption` limits what the pictures are laid out for: portrait frames of at least 720
by 1280, what the hosts send, up to four product cards and up to six lines of chat, the code's
`ChatMaxStack`; section 6 says what happens on others.

| Theorem | States | Inductive invariant and idea |
|---|---|---|
| `LiveStockProofs!Typing` | `[]TypeOK` | itself |
| `MutualExclusion`, `NeverOversold` | `[]OneHolder`, `[]NoOversell`, **assuming `~MayOverrun`** | `IInv`: who is inside has its token in the key, and who passed the stock check still finds its units (`ChecksHold`).  Alone, `NoOversell` is not inductive: the `UPDATE` has no guard, and only `OneHolder` keeps others from taking the units that the check saw. |
| `ForeignLocksStay` | `ForeignLockKept`, **without it** | `Release` compares the token, `Acquire` needs a free key; only `Expire` takes a key from its holder |
| `ImplementsLedger` | `LedgerSpec`, `~MayOverrun` | `DecrementStock` maps to `Sell(q)`, whose guard is `ChecksHold`; `RemoveRow` to `Close`; all else stutters |
| `StockIsAccounted` | `[]StockMatchesOrders`, **without it** | `AccountInv` relates the counters to the units asked for: those sold are of the orders neither missed nor still to be deducted, and every step that misses a decrement, a failed `UPDATE` included, puts its order into `missed`.  `Units` is the size of a set, which an added request enlarges by its own units (`AskedAdds`), so that no induction over requests is needed |
| `ExcessIsMissed` | `[]SoldTwiceOnlyIfMissed`, `~MayOverrun` | from the two invariants: who is between insert and decrement is the holder, whose check still holds, and all others who placed an order are counted in `sold_count` or in `missed` |
| `CouponsProofs!CapAndCount`, `CounterIsRows` | `[](CapHolds /\ UsageCounted)`, `[]UsageCounted` | row and counter change in one transaction, and a `WHERE` that matches nothing undoes the row |
| `UsagesBacked`, `RedemptionsKept` | `[]UsageRowsSound`, `[]NoRedemptionLost` | what is still to be recorded was applied (`LeftIsApplied`); a coupon leaves that list recorded, already used, or exhausted, and stays so |
| `CartPaymentProofs!AtMostOneReceipt`, `UnchargedByReturn` | `[]OneReceipt`, `[]UnchargedOnlyByReturn` | `ConfirmSound`: the row and the call that works on it agree; in particular a call runs on an unpaid row only, and the event counts the call |
| `PaidStays` | `PaidIsFinal` | from the same invariant: only three handlers write the row's status or method, and each finds a row that is not yet paid (`RowWriters`) |
| `ImplementsLedger` | `LedgerSpec` | from `ConfirmSound`, one case per action: a commit is `Settle` by the payer, which has collected or is of `Redirecting` (`ConfirmSound` relates it to the `caller`), the event `Announce`, every other reply `Answer` (`ReplyAnswers`); inserting an order, taking the row lock, a crash, and a rollback's silence leave the ledger alone (`LedgerRests`) |
| `CartLosses` | `CartLossesExplained` | one case per action; cleaning is of cash orders (`CleanIsCod`) |
| `ChatHubProofs!NoGap`, `OwnMessagesOnce`, `ClosedAreUnlisted` | `[]NoSilentGap`, `[]OnlyOwnMessages`, `[]ClosedIsUnlisted` | `Listed` (who may be in the map), `Queued` (a message in a channel came from a publisher that will not serve this client again), `Served` (a listed client of a snapshot is waiting to be served, served, or about to be dropped) |
| `EventBusProofs!AtMostOnce`, `LossesAccounted` | `[]HandledOnce`, `[]AckedWasHandled` | `Held`: an event in a reply is pending, untried, and in no other worker's hand |
| `LiveSessionProofs!OnAirWasProven` | `[]LiveWasProven` | `OnAirInv`: an open guarded row keeps its token; whoever passed the token's check while the row was open has presented it, and a row closed at that time is never open again |
| `GateAdmitsOne` | `[]OnePublisher` | `GateInv`: who streams, is about to, or is about to delete the claim is the one it names, unless the claim timed out or was passed by |
| `NoReopening` | `ClosedStaysClosed` | the `WHERE` clauses of every `UPDATE` of `status` |
| `PeopleProofs!RotationLeavesOne` | `[]OneSuccessor` | `OneCarrier`: of the usable tokens and the calls that may still issue one, two share a family only if one rotates the other or the family is `forked`; rests on `FreshFamily` (a call that has not begun is alone in its family) and `IssuedAtTheEnd` |
| `RevocationsHold` | `[]RevocationHolds` | `BurntIsOvertaken` and `RestsOnNow` say of all carriers what the property says of usable tokens; without the calls in flight neither is inductive |
| `LockoutHolds` | `[]LockoutBites` | a failure that reaches the limit is followed by the call that locks, and the counter is only ever reset with the lock's end or a right password |
| `AccountsStayOwn` | `[]AccountsAreOwn` | for *signup*, a code in the store was mailed to its address and a verified account had it; for *google*, every state, code and verifier in flight comes from one start, and a code is taken by the call that deletes it |
| `PeopleProofs!WhatIsDecidedStands` | `[]DecisionsStand` | *starts*: the snapshot of an `UPDATE` contains every open session but those of transactions that overlap it; *shops*: a merged PATCH carries what was decided last or its user is `crossed`; *clips*: who reports after a takedown had checked before it; *audit*: the trail of an account, cut after any row, ends in the old role of the next one |
| `CountersAddUp` | `[]CountersAccounted` | every statement that writes a row moves one call from or to the stage that owes the counter, so that both sides of the equation change alike (`SizeMoves`, `CallMoves`); *keys*: a key belongs to the request that it was issued for |
| `MutesLast` | `BansHold` | `mutedUntil` is never below the ban still to be served, since `Mute` takes the later of two ends |
| `ReplayIsTrue` | `[]ReplayTellsTheLive` | `ReplayInv`: lines and events are in the order of their times, and what is baked was laid out of such lists.  `StackIs`: a line stands as many places up as lines follow it, for the chat of any length.  `LanesApart` and `SpansTell` are the invariants of the loops over the log: the ends of the lanes are those of the last gifts in them, and the open span is the one that the last event opened (`GiftsFollow`, `SwitchTells`).  Spans that share a moment share it as the end of one, because a span is closed by the event that it ends with (`SwitchCloses`, `WhatStays`).  `PicturesFit`: widths, heights and places fit each other on every portrait frame |
| `BackendProofs!ViewersLearn` | `[]ViewersAreTold` | *room*: a push still under way, or a loss, explains every difference between the last frame and the truth; *playback*: `PlayerInv`, all that a playlist lists is at or behind the head; *envelope*: `MiddlewareInv`, what is captured, buffered, preset or sent at each place of the chain |
| `EdgeKeeps` | `[]EdgeHolds` | `CacheInv`: a stale entry has a writer that will sweep it, or a reader that stores late; `LimitInv`: as long as times arrive in order, the set holds all that passed in the window, so the limit of the set is the limit of the window (`AllowFits`); a request without an answer may be in the set or not, and is counted in neither; `SignerInv`: a key in use stays at SRS until what it signed is over |
| `ChargesStand` | `[]ChargedAsShown` | `GiftInv`: balance and gifts add up to the credits, with a transaction under way counted on the side that it will come down on.  A gift of n points is n elements of a set (`ColumnAdds`).  `MarketInv`: with a slot open the cart takes the least of the slots and the variant's price, which no card undercuts (`LeastPrice`, `SlotsAreHonest`); without one, or after a failed query, the variant's price as it is |
| `JobsEnd` | `[]JobsSettle` | `OverlayInv`: a clip's event is taken once, and nothing is linked while its job runs; `SeedInv`: a run that no other overlaps has the variants it inserted to itself (`AloneHas`); `FileInv`: what is uploaded or expired is past its upload for good, so no object comes back after a sweep deleted it |
| `ListsStayWhole` | `[]ListsAreWhole` | `WalkInv`: all that was returned is before the cursor, what is wanted and not returned is past it or shares the millisecond of a page's last row; the first page of an older table is a page of all that is wanted (`FirstStep`).  `PageIsFirst`: the first N rows of a finite, strictly ordered set come before all others, and are all of them when they are fewer than N.  `TagInv`: rows are numbered in the order of the items' first places in the selection, and `PlacesAreTaken` makes that numbering a bijection with the cards |
| `BackendProofs!TypesHold` | `[]TypesOK` | `PartsTyped`, inductive only relative to the invariants above (`PartsHold`): that a sequence keeps to its bound, that a page ends in a row of the list, or that a counter is not decremented below 0 is an invariant of the part and not a type.  A part whose invariant implies its types adds nothing; each other one has a lemma on its step (`GiftTypes`, `RoomTypes`, `KeyTypes`, ...) |
| `Typing` of `Accounts` and of each other module of its own | `[]TypeOK` | with a strengthening where sequences or replies need one |

The theorems about `Backend` have one shape: while a part moves, its steps are those of its
module (`GiftsMove`, `ListsMove`, ...), so that the module's invariant is kept by the part's
steps and, since nothing else writes the part's variables, by all.  An invariant is stated for
its part only, because the variables of a part at rest are of no interest.  Each of these
invariants is a lemma of its own (`OwnAlways`, `ChargedAlways`, ...), from which its theorem
follows and on which `TypesHold` rests.

What a loop of `Bake` computes for a log of any length is proved without an induction theorem
over operators: a loop is a function of the number of rows that it is past, the set of the
numbers for which the loop's invariant holds contains 0 and with every number its successor,
and `SetInduction`, which is about sets, says that such a set contains all natural numbers.

`~MayOverrun` is an assumption about time: the lease of 5 s outlives four short
statements.  Nothing in the code enforces it.  Without it mutual exclusion and
`NoOversell` are false; `ForeignLocksStay` and the run `background` say what is left then.

`NoOversell`, `PaidIsFinal` and `ClosedIsUnlisted` are proved and are not properties of a run of
their own: the first two follow from the `LedgerSpec` of their run (`Sell` takes only what is
there, `Settle` takes an order that nobody has settled), and the third is a
lemma about the order in `Disconnect`.  `ForeignLocksStay` proves the property that the run
`background` checks, of which `MCBackground` has its own copy for its part.

## 6. Where code and comments disagree

Four runs exhibit a disagreement; `findings` in `PROJECT.json` quotes both sides.

* `coupons_over_cap`.  The cap bounds redemptions, not discounts: `RecordUsage`
  runs after the discounted order is committed, and its error is discarded.
* `chat_hub_disconnect`.  `Disconnect` is called idempotent, but the check of
  `done` and its closing are outside the mutex; two concurrent calls may both
  close it.
* `event_bus_retry`.  A failed event is said to be retried from the pending list;
  nothing ever reads that list.
* `live_session_stale_key`.  Stop revokes a token by setting it to `NULL`, which
  the next `on_publish` takes for a session that needs no token.

Met while modelling, part of the models, and without a run of their own.

*Selling.*

* Two spellings of one code discount an order twice; the redemption is recorded once.
* A cash order removes whatever is selected when it cleans the cart, also rows that
  the buyer added after the order read its lines (`orders.go:554`; the comment at
  545 says "the checked-out items").
* The payment handlers answer success whatever `ConfirmPayment` returned, which
  ends the gateway's retries although the order may still be pending.
* A crash between commit and event loses `payment.success` for good: repeated
  callbacks find the order paid.
* The receipt's lines are read by a `SELECT` before the `DELETE` in `MarkPaid` and
  may differ from the rows it removes.
* The error of the `UPDATE` that takes an order's units off the stock is discarded
  (`orders.go:423`): the order is answered 201 and its units are on sale again.
  `SoldTwiceOnlyIfMissed` bounds the excess by the units of such orders.
* The callbacks are documented as "cổng gọi, xác minh chữ ký", called by the gateway with a
  verified signature (`src/docs/API_PHANQUYEN_FLOW.md:240`, also `:352`), but MoMo's redirect
  confirms an order on `resultCode=0` of a query nobody signed (`payment/handler.go:106`).
  `UnchargedOnlyByReturn` says that it is the only way in which an order is paid without a
  charge.
* "The feed card already advertises this price; applying it here keeps the cart and checkout
  honest" (`commerce/cart.go:287`), but the `UPDATE` of a variant that is in the cart already
  keeps the row's old price (`cart.go:71`): the one of before the sale while it runs, and the
  flash price when it is over.  `NewRowIsHonest` is what holds.
* The card without a flash price shows `products.sale_price`, the cart takes the variant's own
  price; nothing keeps them equal (`cart.go:272`, `video/repo.go:254`).  If the query for the
  slots fails, its error is discarded and the variant's price is charged under a flash price
  (`cart.go:294`).
* No statement raises `sold_count` of a flash sale's slot, so `stock_limit` never ends a
  flash price (`cart.go:300`; the comment above it calls that future work).
* A deleted product can be revived by `UpdateStatus`, and its variant still be added to a cart.
* Migration 0015 says a clip's card "never shows a stale price"; the burnt-in copy does.

*Accounts.*

* "So phone-login stays unambiguous" (`auth/handler.go:286`) holds of accounts that were
  opened with a phone number; an e-mail account may carry the same number.
* If `MarkEmailVerified` fails after a phone sign-up, its error is discarded and the
  account stays unverified.
* Two overlapping refreshes of one token fork its family, and nothing detects it until
  the spent token is presented again.
* A change of role that waited for another's lock logs the old role of before it waited;
  two admins may demote each other.

*Live.*

* The publisher claim is renewed by `on_publish` only: after 60 s of streaming a
  second publisher is admitted.
* `on_unpublish` of any client, a denied one included, ends the session.
* Two overlapping `live/start` leave two open sessions, since the `UPDATE` of one does not see
  the row of the other, also when it waited for it (`spec_repo.go:133`); a stop that waits for a
  start does not stop what it started, and tells the viewers of one session only.
* A session that a new start, `on_unpublish` or the sweep takes offline sends its viewers no
  frame, where a stop pushes one "so viewers currently watching get navigated away"
  (`spec_handler.go:136`); `EndStaleSessions` returns the keys "for logging / stats push" and
  the worker only logs them.
* The `list_change` of a stop, a publish or an unpublish invites clients to fetch the list
  again, and they may get the old one: only `live/handler.go` deletes `live:sessions:active`,
  which otherwise lives for three seconds.  The first page of a walk is that entry as well, so
  that a session that began since is above every later cursor.
* `POST /streams` creates rows that are `live` at once, where
  `src/docs/API_PHANQUYEN_FLOW.md:311` says 'scheduled/ready'.
* Registry errors are said to reach the seller as 503; they are internal errors, 500
  (`live/handler.go:262`).  A registry whose answer is late keeps a key that nobody uses.
* The removal of a pinned product clears the pin without a frame and without an unpin
  event; frames of overlapping pushes overtake each other; a count that fails is shown as 0.
* `Follow` raises `follower_count` also for a shop's existing follower.
* The gate of the chat lets a message through when its query fails; a masked message that
  triggers the burst mute is still posted; the older chat endpoint does not look at the
  session's status.
* A gift's session is checked before its transaction, so a gift may be sent after the end.
* The list's cursor is cut to milliseconds, and sessions that began in the same one as a
  page's last row may be skipped (`session_repo.go:208`).
* `hlsManifest` reads the session's status once, before up to 13 polls: a playlist may be
  served after the end.

*Replay and clips.*

* Expiring one recording clears the link of a younger one of the same session
  (`session_repo.go:374`).
* `cmd/worker` says "Keep FLV on error so you can re-process by hand"; the DVR sweep
  removes it two hours later.
* A second pin without an unpin drops the first pin's span; `LogAsync` takes its offset
  when the goroutine runs, so a pin and an unpin may be swapped; the bake of a second recording
  uses offsets from the session's start.
* The windows of the banners hold both ends (`vod/bake.go:193`), while `FreeLane` gives a lane
  away at the end of its window (`overlay.go:560`): at that moment two gifts are drawn in one
  lane, and an unpinned product with one pinned at once.
* `Bake` is never told the size of the video, so libass always assumes 1080 x 1920; the
  comment at `vod/bake.go:160` puts the pin at the bottom left, `overlayExpr` at the top.
* `overlayExpr` is said to suit "even landscape", but at 1280 x 720 the gifts' lanes run into
  the chat, and so does a list of five product cards at 720 x 1280.  `Placement` keeps to
  portrait and four cards. Two coupons within six seconds cover each other.
* A clip's status stays `pending` when its event is lost, and `processing` after a
  crash or a deadline.
* A like racing an unlike may leave one too many: the decrement stops at zero.  `Dismiss`
  overwrites a resolved report; a report that checked its clip before a takedown, and the
  reports of a clip its owner deletes, stay pending.

*Edge.*

* "failures keep their status so proxies/log tooling still see the real code"
  (`httpx/envelope.go:138`), but two do not.  On a path without a route nobody writes to the
  buffer, its status stays 0, and the wrapper sends an envelope of success with 200 over gin's
  404 (`envelope.go:104`).  A handler that panics on a wrapped route is answered 200 with an empty
  body: `AbortWithStatus(500)` of Recovery writes its header to `bodyCapture`, where it is lost,
  and the request log never sees the request.  `FailuresAreSeen` says what these two (`Masked`)
  are answered with, and that no other failure is.
* `envelope_test.go:79` expects the envelope in the body of a 204.  Its `ResponseRecorder`
  keeps what the wrapper writes; net/http sends no body with a 204, which is what
  `AnswersArrive` says.
* `token.go` says that a misconfigured signer fails loudly; keys with an empty
  current kid silently leave all URLs unsigned.
* Requests that reach the limiter out of the order of their times may pass its limit.  When
  Redis does not answer, a limiter that does not fail closed lets all through
  (`cache/redis.go:163`), as its option says; `WindowHolds` counts what was answered.
* If `XGROUP CREATE` fails at start-up, its error is discarded and `Subscribe` fails with
  NOGROUP until the process restarts (`bus.go:46`).
* `cmd/seed` is called "Idempotent: re-running just refreshes data (ON CONFLICT DO UPDATE)".
  `live_session_products` has no unique key (migration 0001), so that every run lists the demo
  session's products again; wiping the variants leaves cart rows that name deleted ones; two
  overlapping runs insert the variants twice.
* The comment at `cmd/worker/main.go:163` gives `MAX_LIVE_DURATION` a default of
  4 h, the code 2 h.

## 7. What is only model-checked, and what is not modelled

**Checked by TLC and not proved.**  Every invariant of the passing runs is proved, and every
action property.  What is left:

* All liveness (`LockIsFreed`, `ChargeIsAnswered`, `LeaversAreForgotten`, `PublishEnds`,
  `EveryEventIsTried`, `SessionsEnd`, `RecordingsEnd`): fairness and `ENABLED` are
  outside the prover.
* The disagreements of section 6, which are counterexamples of runs; a theorem says in its
  statement which of them it allows for (`forked`, `crossed`, `overtaken`, `lost`).

**Not modelled.**

* Amounts, addresses and texts; a discount is whether there is one, a price one of a
  few numbers.
* Signatures and message formats of gateways, webhooks and tokens: a callback or token that
  passes the check is a value that passes it, and where there is no check any value does
  (`UrlTokens` models which key signs and verifies).
* SELECTs without a protocol: feeds, searches, order lists, admin totals, profiles.
* Columns that one statement sets and nothing here reads: titles, covers, shipping
  addresses, a shop's description.
* Drawing, fonts and the calls of ffmpeg; drafts of the language model; presigned
  uploads and the fetch of foreign URLs; CORS, headers and metrics; the wiring of the processes.
* The Flutter client, whose requests the models take in any order, and the
  deployment.

`PROJECT.json` gives the state of each component and, where it is `partly`, what is
left out.

## 8. What would come next

* The receipts from the charge to the e-mail: `CartPayment` composed with `EventBus`.
* The publication of `recording.created` through `EventBus` rather than as one step of
  `Recording`.

## 9. Running the tools

    tlasany LiveStock.tla
    tlc -workers 2 -config LiveStock.cfg LiveStock
    tlapm LiveStockProofs.tla

`LiveStock`, `CartPayment`, `EventBus` and `LiveSession` are run directly, `Coupons`,
`ChatHub`, `Backend` and `Background` through `MCCoupons`, `MCChatHub`, `MCBackend` and
`MCBackground`.  The runs that end in a counterexample are `CouponsOverCap.cfg` (of `MCCoupons`),
`ChatHubDisconnect.cfg` (of `MCChatHub`), `EventBusRetry.cfg` (of `EventBus`) and
`LiveSessionStaleKey.cfg` (of `LiveSession`).  `Backend.cfg` runs all parts of `MCBackend`; to check
one part alone, add `part = "gifts"` (or another) to `MCInit` there.  The longest run,
`backend`, takes two to four minutes with two workers; `BackendProofs` takes about seventeen,
`PeopleProofs` fifteen, each other proof module less than two.
