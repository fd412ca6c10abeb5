------------------------------- MODULE Backend -------------------------------
(***************************************************************************)
(* The API's handlers, one subsystem at a time: `part` is chosen in the    *)
(* initial state and only the variables of that part move.  The parts      *)
(* share tables but no row that both write concurrently, so that a         *)
(* product of their state spaces would show nothing more.                  *)
(*                                                                         *)
(* Accounts is extended, since theorems speak of its properties by name;   *)
(* the other modules are instances with the clashing names of their        *)
(* variables told apart.  MCBackend gives the constants small values.      *)
(***************************************************************************)
EXTENDS Accounts, FiniteSets, Sequences

\* Shared by several parts.
CONSTANTS
  Twins,       \* what a part has several of: requests, readers, instances, goroutines
  Sales,       \* flash sales; names of keys; variants of a product
  Users,       \* who likes, comments and sends gifts
  Viewers,     \* who watches, chats and follows
  Nobody, None

CONSTANTS
  Emails, Phones, NoPhone, Digits(_), Asked,                   \* SignUp
  GoogleCalls,                                                 \* GoogleSignIn
  Poster,                                                      \* Clips: its Owner
  NoClip,                                                      \* ClipOverlay
  HostMutes, AutoMute, Burst, BotQuota, MaxChatTime, MaxLines, \* ChatModeration
  Catalog, Quantities, MaxQuantity, Credits, MaxCredit,        \* Gifts
  RoomRows, MaxPushes,                                         \* LiveRoom
  ShopOwner, MaxFollows,                                       \* Shops
  VariantPrice, Sale, FlashPrices, LivePrice, MaxSaleTime, MaxEdits,   \* Market
  Ids, PerMilli, MaxListTime, PageSize, MaxSeq, Never,         \* ListWalk; MaxSeq: Playback too
  Writers, Pages, MaxVersion, NoEntry,                         \* CacheAside; NoEntry: ListWalk too
  Limit, Window, MaxTick, MaxRequests,                         \* CacheAside's limiter
  Items, Own, Selections,                                      \* ClipTags
  Admins, AdminRoles,                                          \* RoleAudit
  Attempts, Segments,                                          \* Playback
  TTL, MaxTokenTime, MaxTokens, NoKid,                         \* UrlTokens
  NoStatus,                                                    \* Envelope
  Frames, MaxProducts, ChatMaxStack,                           \* Placement
  NoRun,                                                       \* Seed
  MaxSecond,                                                   \* LiveStart
  NoEvent, ReplayStart, MaxTime, MaxBannerTime,                \* Replay
  MaxChats, MaxStack, GiftWindow, CouponWindow, MaxLane, Padding

\* What the code's own constants and the bounds are.
ASSUME BackendAssumption ==
  /\ IsFiniteSet(Calls)
  /\ NoCall \notin GoogleCalls
  /\ HostMutes \subseteq Nat /\ AutoMute \in Nat
  /\ Segments \in Nat
  /\ NoStatus \notin {200, 204, 302, 401, 404, 413, 500}
  /\ "admin" \in AdminRoles
  /\ MaxSecond \in Nat
  /\ TTL \in Nat
  /\ Limit \in Nat /\ Window \in Nat /\ MaxTick \in Nat /\ MaxRequests \in Nat
  /\ Nobody \notin Twins /\ NoClip \notin Twins
  /\ \A g \in DOMAIN Catalog : Catalog[g] \in Nat
  /\ Quantities \subseteq Int /\ MaxQuantity \in Nat
  /\ Credits \subseteq Nat /\ MaxCredit \in Nat
  /\ {VariantPrice, Sale, LivePrice} \cup FlashPrices \subseteq Nat /\ None \notin Nat
  /\ Ids \subseteq Nat \ {0} /\ Never \notin Nat
  /\ PageSize \in Nat \ {0} /\ PerMilli \in Nat \ {0} /\ MaxSeq \in Nat
  /\ Selections \subseteq Seq(Items)
  /\ None \notin [quote : [unit : Nat, shown : Nat \cup {None}, flash : Nat \cup {None},
                          failed : BOOLEAN],
                 unit : Nat, fresh : BOOLEAN]

\* The quotas and bounds are numbers, and somebody is an admin.
ASSUME BoundAssumption ==
  /\ {BotQuota, Burst, MaxChatTime, MaxPushes, MaxFollows, MaxSaleTime, MaxListTime,
      MaxVersion, Attempts, MaxTokenTime} \subseteq Nat
  /\ Admins # {}

\* The replay's ticks, and the portrait frames, cards and chat lines it is laid out for.
ASSUME ReplayAssumption ==
  /\ \A f \in Frames : f \in Nat \X Nat /\ f[1] >= 720 /\ f[2] >= 1280
  /\ MaxProducts \in 0..4 /\ ChatMaxStack \in 0..6
  /\ {ReplayStart, MaxTime, MaxBannerTime, MaxStack, GiftWindow, MaxLane, Padding} \subseteq Nat

VARIABLES
  part,
  form, rows, verified, shops, otp, mailed, signUpStep, target, code,
  states, codes, bound, oauthStarted, oauthStage, origin, handed,
  clipStatus, clipLikes, likeCount, likeDrift, views, anonymous, viewCount, viewsLost,
  comments, commentCount, commentsLost, reports, takenDown, lateReports, user, clipStep,
  clip, raw, event, overlay, url, object, job, overlayStage, expired, storage, overlayLost,
  chatClock, mutedUntil, ban, masked, botEnabled, botUsed, chatLines, chatStage, text,
  giftsOpen, active, points, rowLock, gifts, giftChats, banners, credited, giftRequest,
  balance, giftTold, giftStep,
  roomStatus, viewers, roomFollows, roomLikes, cartAdds, listed, deleted, pinned, push,
  roomStarted, frame, shown, early, overtaken, statsLost, roomTold, silent,
  member, decided, crossed, onAir, shopFollows, followerCount, refollows, followsLost,
  memberRequest, current, shopStep,
  saleClock, sales, slot, productStatus, line, liveLine, quote, cartStep, result, edits,
  listClock, sessionStarted, liveSessions, firstPage, cursor, listWalk, seen, ends, wanted,
  twice, chatSeqs, nextSeq, beforeSeq, chatWalk, read, wantedChats,
  clock, replayChats, offered, log, liveEvents, endedAt, reel,
  table, entry, loaded, reader, writer, staleStored, unswept,
  failClosed, hits, tick, requests, stamped, passed, unanswered, swept, reordered,
  activeItems, selection, anyShop, allowed, turn, tags, taggedClip,
  adminRole, token, auditStep, change, trail, auditCrossed, auditLost,
  playStatus, srs, head, viewer, polls, playlist, played, missed, cut,
  file, dvrEvent, dvrRow, mp4, link, dvrStep, aged, expiredRows, doomed,
  tokenClock, srsKeys, config, up, lastUse, signedUrls, unasked,
  provider, fallback, keyStep, issuedKey, registry, keyedSessions, strayed,
  route, act, at, captured, buffer, hijacked, errors, sent, logged,
  video, cards, pictures, chatRows,
  seedStep, left, keyedRows, variants, seededCards, latest, overlapped,
  second, asked, startStep, seenOpen, closedRows, keySecond, startedSessions, openSessions, behind

------------------------------------------------------------------------------
(* The parts. *)

SignUp == INSTANCE SignUp WITH step <- signUpStep

Google == INSTANCE GoogleSignIn WITH
  Calls <- GoogleCalls, started <- oauthStarted, stage <- oauthStage

Videos == INSTANCE Clips WITH
  Owner <- Poster, status <- clipStatus, likes <- clipLikes, step <- clipStep

Overlays == INSTANCE ClipOverlay WITH
  Clips <- Twins, stage <- overlayStage, lost <- overlayLost

Chat == INSTANCE ChatModeration WITH
  MaxTime <- MaxChatTime, MaxChats <- MaxLines, now <- chatClock, chats <- chatLines, stage <- chatStage

Gifts == INSTANCE Gifts WITH
  Calls <- Twins, NoAccount <- None,
  live <- giftsOpen, request <- giftRequest, told <- giftTold, step <- giftStep

Room == INSTANCE LiveRoom WITH
  Rows <- RoomRows, Pushes <- Twins,
  status <- roomStatus, follows <- roomFollows, likes <- roomLikes, started <- roomStarted,
  lost <- statsLost, told <- roomTold

Shops == INSTANCE Shops WITH
  Users <- Viewers, Owner <- ShopOwner, follows <- shopFollows, lost <- followsLost,
  request <- memberRequest, step <- shopStep

Market == INSTANCE Market WITH
  Calls <- Twins, MaxTime <- MaxSaleTime, now <- saleClock, status <- productStatus, step <- cartStep

Lists == INSTANCE ListWalk WITH
  MaxTime <- MaxListTime, Limit <- PageSize,
  now <- listClock, started <- sessionStarted, live <- liveSessions, chats <- chatSeqs

Redis == INSTANCE CacheAside WITH
  Readers <- Twins, Keys <- Pages, late <- staleStored, overtaken <- reordered

Tags == INSTANCE ClipTags WITH
  active <- activeItems, clip <- taggedClip

Audit == INSTANCE RoleAudit WITH
  Calls <- Twins, Roles <- AdminRoles,
  role <- adminRole, step <- auditStep, crossed <- auditCrossed, lost <- auditLost

Player == INSTANCE Playback WITH Window <- Segments, status <- playStatus

Signer == INSTANCE UrlTokens WITH
  Instances <- Twins, Kids <- Sales, MaxTime <- MaxTokenTime,
  clock <- tokenClock, tokens <- signedUrls

Keys == INSTANCE StreamKeys WITH
  Requests <- Twins, step <- keyStep, key <- issuedKey, sessions <- keyedSessions

Middleware == INSTANCE Envelope

Pictures == INSTANCE Placement WITH
  MaxStack <- ChatMaxStack,
  frame <- video, shown <- pictures, rows <- chatRows

Fixtures == INSTANCE Seed WITH
  Runs <- Twins, Skus <- Sales, step <- seedStep, keyed <- keyedRows, listed <- seededCards

Files == INSTANCE Recording WITH
  Recs <- Twins, NoRec <- None, Sweepers <- Twins,
  event <- dvrEvent, row <- dvrRow, object <- mp4, at <- dvrStep, listed <- expiredRows

Starts == INSTANCE LiveStart WITH
  step <- startStep, seen <- seenOpen, closed <- closedRows,
  stamp <- keySecond, sessions <- startedSessions, open <- openSessions,
  missed <- behind

Replays == INSTANCE Replay WITH
  Start <- ReplayStart, Logs <- Calls, chats <- replayChats, events <- liveEvents

------------------------------------------------------------------------------
Parts == {"accounts", "signup", "google", "clips", "overlays", "chat", "gifts", "room",
          "shops", "market", "sessions", "history", "subtitles", "banners", "cache", "limiter",
          "tags", "audit", "playback", "tokens", "keys", "envelope", "pictures", "seed",
          "starts", "files"}

BackendInit ==
  /\ part \in Parts
  /\ Init /\ SignUp!Init /\ Google!Init /\ Videos!Init /\ Overlays!Init /\ Chat!Init
  /\ Gifts!Init /\ Room!Init /\ Shops!Init /\ Market!Init /\ Lists!Init /\ Redis!Init /\ Tags!Init /\ Audit!Init
  /\ Player!Init /\ Signer!Init /\ Keys!Init /\ Middleware!Init /\ Pictures!Init /\ Fixtures!Init
  /\ Starts!Init /\ Files!Init /\ Replays!Init

signUpVars == <<form, rows, verified, shops, otp, mailed, signUpStep, target, code>>
googleVars == <<states, codes, bound, oauthStarted, oauthStage, origin, handed>>
videoVars ==
  <<clipStatus, clipLikes, likeCount, likeDrift, views, anonymous, viewCount, viewsLost,
    comments, commentCount, commentsLost, reports, takenDown, lateReports, user, clipStep>>
overlayVars ==
  <<clip, raw, event, overlay, url, object, job, overlayStage, expired, storage, overlayLost>>
chatVars ==
  <<chatClock, mutedUntil, ban, masked, botEnabled, botUsed, chatLines, chatStage, text>>
giftVars ==
  <<giftsOpen, active, points, rowLock, gifts, giftChats, banners, credited, giftRequest,
    balance, giftTold, giftStep>>
roomVars ==
  <<roomStatus, viewers, roomFollows, roomLikes, cartAdds, listed, deleted, pinned, push,
    roomStarted, frame, shown, early, overtaken, statsLost, roomTold, silent>>
shopVars ==
  <<member, decided, crossed, onAir, shopFollows, followerCount, refollows, followsLost,
    memberRequest, current, shopStep>>
marketVars ==
  <<saleClock, sales, slot, productStatus, line, liveLine, quote, cartStep, result, edits>>
listVars ==
  <<listClock, sessionStarted, liveSessions, firstPage, cursor, listWalk, seen, ends, wanted,
    twice, chatSeqs, nextSeq, beforeSeq, chatWalk, read, wantedChats>>
replayVars == <<clock, replayChats, offered, log, liveEvents, endedAt, reel>>
tagVars == <<activeItems, selection, anyShop, allowed, turn, tags, taggedClip>>
auditVars == <<adminRole, token, auditStep, change, trail, auditCrossed, auditLost>>
cacheVars == <<table, entry, loaded, reader, writer, staleStored, unswept>>
limitVars ==
  <<failClosed, hits, tick, requests, stamped, passed, unanswered, swept, reordered>>
playerVars == <<playStatus, srs, head, viewer, polls, playlist, played, missed, cut>>
signerVars == <<tokenClock, srsKeys, config, up, lastUse, signedUrls, unasked>>
keyVars == <<provider, fallback, keyStep, issuedKey, registry, keyedSessions, strayed>>
middlewareVars == <<route, act, at, captured, buffer, hijacked, errors, sent, logged>>
pictureVars == <<video, cards, pictures, chatRows>>
fixtureVars == <<seedStep, left, keyedRows, variants, seededCards, latest, overlapped>>
startVars ==
  <<second, asked, startStep, seenOpen, closedRows, keySecond, startedSessions, openSessions,
    behind>>
fileVars == <<file, dvrEvent, dvrRow, mp4, link, dvrStep, aged, expiredRows, doomed>>

\* The variables v of the parts ps are at rest while another part moves.
Still(ps, v) == IF part \in ps THEN TRUE ELSE UNCHANGED v

BackendNext ==
  /\ UNCHANGED part
  /\ \/ part = "accounts" /\ Next
     \/ part = "signup" /\ SignUp!Next
     \/ part = "google" /\ Google!Next
     \/ part = "clips" /\ Videos!Next
     \/ part = "overlays" /\ Overlays!Next
     \/ part = "chat" /\ Chat!Next
     \/ part = "gifts" /\ Gifts!Next
     \/ part = "room" /\ Room!Next
     \/ part = "shops" /\ Shops!Next
     \/ part = "market" /\ Market!Next
     \/ part = "sessions" /\ Lists!ListNext
     \/ part = "history" /\ Lists!ChatNext
     \/ part = "subtitles" /\ Replays!ChatNext
     \/ part = "banners" /\ Replays!BannerNext
     \/ part = "cache" /\ Redis!CacheNext
     \/ part = "limiter" /\ Redis!LimitNext
     \/ part = "tags" /\ Tags!Next
     \/ part = "audit" /\ Audit!Next
     \/ part = "playback" /\ Player!Next
     \/ part = "tokens" /\ Signer!Next
     \/ part = "keys" /\ Keys!Next
     \/ part = "envelope" /\ Middleware!Next
     \/ part = "pictures" /\ Pictures!Next
     \/ part = "seed" /\ Fixtures!Next
     \/ part = "starts" /\ Starts!Next
     \/ part = "files" /\ Files!Next
  /\ Still({"accounts"}, vars)
  /\ Still({"signup"}, signUpVars)
  /\ Still({"google"}, googleVars)
  /\ Still({"clips"}, videoVars)
  /\ Still({"overlays"}, overlayVars)
  /\ Still({"chat"}, chatVars)
  /\ Still({"gifts"}, giftVars)
  /\ Still({"room"}, roomVars)
  /\ Still({"shops"}, shopVars)
  /\ Still({"market"}, marketVars)
  /\ Still({"sessions", "history"}, listVars)
  /\ Still({"subtitles", "banners"}, replayVars)
  /\ Still({"cache", "limiter"}, <<cacheVars, limitVars>>)
  /\ Still({"tags"}, tagVars)
  /\ Still({"audit"}, auditVars)
  /\ Still({"playback"}, playerVars)
  /\ Still({"tokens"}, signerVars)
  /\ Still({"keys"}, keyVars)
  /\ Still({"envelope"}, middlewareVars)
  /\ Still({"pictures"}, pictureVars)
  /\ Still({"seed"}, fixtureVars)
  /\ Still({"starts"}, startVars)
  /\ Still({"files"}, fileVars)

allVars ==
  <<part, vars, signUpVars, googleVars, videoVars, overlayVars, chatVars, giftVars, roomVars,
    shopVars, marketVars, listVars, replayVars, cacheVars, limitVars,
    tagVars, auditVars, playerVars, signerVars, keyVars, middlewareVars, pictureVars,
    fixtureVars, startVars, fileVars>>

BackendSpec == BackendInit /\ [][BackendNext]_allVars

------------------------------------------------------------------------------
(* The properties, next to OneSuccessor and RevocationHolds of Accounts; each is stated, with the
   code it is about, in the module of its part. *)

TypesOK ==
  CASE part = "accounts" -> TypeOK
    [] part = "signup" -> SignUp!TypeOK
    [] part = "google" -> Google!TypeOK
    [] part = "clips" -> Videos!TypeOK
    [] part = "overlays" -> Overlays!TypeOK
    [] part = "chat" -> Chat!TypeOK
    [] part = "gifts" -> Gifts!TypeOK
    [] part = "room" -> Room!TypeOK
    [] part = "shops" -> Shops!TypeOK
    [] part = "market" -> Market!TypeOK
    [] part \in {"sessions", "history"} -> Lists!TypeOK
    [] part \in {"subtitles", "banners"} -> Replays!TypeOK
    [] part \in {"cache", "limiter"} -> Redis!TypeOK
    [] part = "tags" -> Tags!TypeOK
    [] part = "audit" -> Audit!TypeOK
    [] part = "playback" -> Player!TypeOK
    [] part = "tokens" -> Signer!TypeOK
    [] part = "keys" -> Keys!TypeOK
    [] part = "envelope" -> Middleware!TypeOK
    [] part = "pictures" -> Pictures!TypeOK
    [] part = "seed" -> Fixtures!TypeOK
    [] part = "starts" -> Starts!TypeOK
    [] part = "files" -> Files!TypeOK

\* Guessing a password is slowed down, an address is confirmed by the code sent to
\* it, a sign-in begun with Google is finished once and where it began, and phone
\* accounts stay apart.
AccountsAreOwn ==
  /\ part = "accounts" => LockoutBites
  /\ part = "signup" => SignUp!PhoneAccountsDiffer /\ SignUp!VerifiedByOwnCode
  /\ part = "google" => Google!OnePairPerStart

\* Each counter kept beside the rows it counts is off by what failed and no more,
\* and so is the registry of the stream keys beside the sessions.
CountersAccounted ==
  /\ part = "clips" => Videos!LikesAccounted /\ Videos!ViewsAccounted
  /\ part = "shops" => Shops!FollowersAccounted
  /\ part = "keys" => Keys!KeysHold

\* What an owner, a host, a moderator or an admin decided is not undone by a request
\* that read the rows before, and the log tells it.
DecisionsStand ==
  /\ part = "starts" => Starts!StartsReplace
  /\ part = "shops" => Shops!DecisionsStand
  /\ part = "clips" => Videos!TakedownEmptiesQueue
  /\ part = "audit" => Audit!TrailLinksUp

\* A ban of the host is not shortened by the automatic ones.
BansHold == Chat!BansHold

\* Gifts that are shown are paid for, and a new row of the cart costs what the
\* card showed.
ChargedAsShown ==
  /\ part = "gifts" => Gifts!GiftsArePaid
  /\ part = "market" => Market!NewRowIsHonest

\* Whoever watches gets the video that was listed, is told of every change of
\* the room, and of a request's failure that it failed.
ViewersAreTold ==
  /\ part = "room" => Room!ViewersAreTold
  /\ part = "playback" => Player!PlaysWhatIsListed
  /\ part = "envelope" => Middleware!AnswersAreTrue

\* Lists are whole: walks over changing ones neither repeat nor lose a row, and
\* a clip's cards keep their order.
ListsAreWhole ==
  /\ part \in {"sessions", "history"} => Lists!WalksAreWhole
  /\ part = "tags" => Tags!CardsAsChosen

\* What Redis holds is out of date only for a known reason, its limiter lets no
\* more through than its limit, and a signed URL is good until it expires.
EdgeHolds ==
  /\ part = "cache" => Redis!StaleIsExplained
  /\ part = "limiter" => Redis!WindowHolds
  /\ part = "tokens" => Signer!TokensHold

\* Every clip's overlay job leaves an outcome, a run of the seed a whole set of
\* fixtures, and an expired recording no object, whatever was cut off before.
JobsSettle ==
  /\ part = "overlays" => Overlays!OverlaysSettle
  /\ part = "seed" => Fixtures!SeedHolds
  /\ part = "files" => Files!ExpiredIsGone

\* The replay shows what happened, and no picture of it hides another.
ReplayTellsTheLive ==
  /\ part \in {"subtitles", "banners"} => Replays!ReplayTellsTheLive
  /\ part = "pictures" => Pictures!PicturesApart
==============================================================================
