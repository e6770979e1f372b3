SPECIFICATION GuestSpec
CONSTANTS
    u1 = u1  u2 = u2  u3 = u3  w1 = w1  w2 = w2  confirmed = confirmed  stayed = stayed
    root = root  clerk = clerk  cleaner = cleaner  guest = guest
    Browsers = {u1, u2}
    Calls = {w1, w2}
    MaxFailedLogins = 2
    MaxCalls <- FewerIfBusy
    NoAccount = NoAccount  NoCookie = NoCookie
    ReviewedStays = {u1, u2}
    ScoreCards <- TwoCards
    FlagSets <- Flagged
    Moderators = {w1, w2}
    MaxReviewRequests <- FewIfBusy
    NoReview = NoReview
    Causes <- Caused
    Channels = {"EMAIL", "IN_APP", "SMS"}
    Senders = {w1, w2}
    MaxNoticeRequests <- ThreeEach
    NoMessage = NoMessage  NoTemplate = NoTemplate
    RateCards <- Cards
    Plans = {u1, u2}
    StayDays = {1, 2, 3}
    Promotions <- Codes
    Spendings <- Spent
    Redeemers = {u1, u2}
    Pricers = {w1, w2}
    MaxPricingRequests <- FourEach
    NoPlan = NoPlan  NoBound = NoBound  NoTerms = NoTerms
    HotelIds = {u1, u2, u3}
    Names <- OneAndTwoWords
    Joined <- Letters
    Facts = {"POOL", "SPA"}
    BranchCodes = {"NORTH"}
    Registrars = {w1, w2}
    MaxHotelRequests <- ThreeEach
    NoHotel = NoHotel
    Nights = {6, 7, 8}
    Performances <- Nightly
    MonthOf <- Months
    BookingFacts <- Booked
    CleaningFacts <- Cleaned
    NoNight = NoNight  NoReport = NoReport
    Versions <- SomeVersions
    IgnoredKeys = {"version", "updatedAt"}
    SecretKeys = {"token"}
    MaxChanges = 3
    Null = Null  REDACTED = REDACTED
    Lists <- SomeLists
    Keys = {1, 2}
    PageSizes = {1, 2}
    MaxRows = 3
    MaxMoves = 1
    NotRead = NotRead
    Sockets = {u1, u2}
    Principals <- Claims
    HotelsHeard = {"GALLE", "KANDY"}
    MaxJoined = 1
    NoHotelId = NoHotelId  Nobody = Nobody  Verifying = Verifying
SYMMETRY Interchangeable
INVARIANTS
    GuestTypeOK
    QuietUserStaysSignedIn QuietRevocationIsFinal QuietLockIsEarned
    QuietRatingCurrent AnsweredIsRecorded PricesBounded
    ReadsAreTrue ScopedDelivery
PROPERTIES
    EntryIsAnnounced QuietOptOutHolds
CHECK_DEADLOCK FALSE
