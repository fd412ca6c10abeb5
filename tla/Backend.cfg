\* The handlers of the API: two or three overlapping requests in each part.
SPECIFICATION MCSpec
CONSTANTS
  Calls = {k1, k2, k3}
  Twins = {a1, a2}
  Sales = {f1, f2}
  u1 = u1
  u2 = u2
  Users = {u1, u2}
  Viewers = {u1}
  Poster = u1
  ShopOwner = "owner"
  NoCall = NoCall
  Nobody = Nobody
  None = None
  NoPhone = NoPhone
  NoClip = NoClip
  Never = Never
  NoEvent = NoEvent
  NoEntry = NoEntry
  NoKid = NoKid
  NoStatus = 0
  NoRun = NoRun
  Roles = {"buyer", "seller"}
  MaxFailed = 2
  Emails = {"a"}
  Phones = {"+1", "1"}
  Digits <- MCDigits
  Asked <- MCAsked
  GoogleCalls <- MCGoogleCalls
  HostMutes = {1, 3}
  AutoMute = 2
  Burst = 2
  BotQuota = 2
  MaxChatTime = 3
  MaxLines = 2
  Catalog <- MCCatalog
  Quantities = {0, 1, 3}
  MaxQuantity = 2
  Credits = {2}
  MaxCredit = 2
  RoomRows = {"row"}
  MaxPushes = 2
  MaxFollows = 2
  VariantPrice = 5
  Sale = 3
  FlashPrices = {2, 4}
  LivePrice = 3
  MaxSaleTime = 1
  MaxEdits = 2
  Ids = {1, 2, 3}
  PerMilli = 2
  MaxListTime = 3
  PageSize = 1
  MaxSeq = 3
  Writers = {"writer"}
  Pages = {"page1", "page2"}
  MaxVersion = 1
  Limit = 2
  Window = 2
  MaxTick = 2
  MaxRequests = 4
  Items = {"p", "q", "foreign"}
  Own = {"p", "q"}
  Selections <- MCSelections
  Admins = {"ann", "bob"}
  AdminRoles = {"seller", "admin"}
  Attempts = 1
  Segments = 2
  TTL = 1
  MaxTokenTime = 2
  MaxTokens = 1
  Frames <- MCFrames
  MaxProducts = 4
  ChatMaxStack = 6
  MaxSecond = 1
  ReplayStart = 1
  MaxTime = 3
  MaxBannerTime = 2
  MaxChats = 3
  MaxStack = 2
  GiftWindow = 2
  CouponWindow = 2
  MaxLane = 1
  Padding = 2
SYMMETRY Symmetry
INVARIANTS
  TypesOK OneSuccessor RevocationHolds AccountsAreOwn CountersAccounted DecisionsStand
  ChargedAsShown ViewersAreTold ListsAreWhole EdgeHolds JobsSettle
  ReplayTellsTheLive
PROPERTY BansHold
CHECK_DEADLOCK FALSE
