SPECIFICATION GuestSpec
CONSTANTS
    u1 = u1  u2 = u2  u3 = u3  w1 = w1  w2 = w2  confirmed = confirmed  stayed = stayed
    root = root  clerk = clerk  cleaner = cleaner  guest = guest
    Browsers = {u1, u2}
    Calls = {w1, w2}
    MaxFailedLogins = 2
    MaxCalls <- FewIfBusy
    NoAccount = NoAccount  NoCookie = NoCookie
    ReviewedStays = {}
    ScoreCards <- TwoCards
    FlagSets <- Flagged
    Moderators = {}
    MaxReviewRequests <- FewIfBusy
    NoReview = NoReview
    Causes <- Caused
    Channels = {"EMAIL", "IN_APP", "SMS"}
    Senders = {}
    MaxNoticeRequests <- ThreeEach
    NoMessage = NoMessage  NoTemplate = NoTemplate
    RateCards <- Cards
    Plans = {}
    StayDays = {1, 2, 3}
    Promotions <- Codes
    Spendings <- Spent
    Redeemers = {}
    Pricers = {}
    MaxPricingRequests <- FourEach
    NoPlan = NoPlan  NoBound = NoBound  NoTerms = NoTerms
    HotelIds = {}
    Names <- OneAndTwoWords
    Joined <- Letters
    Facts = {"POOL", "SPA"}
    BranchCodes = {"NORTH"}
    Registrars = {}
    MaxHotelRequests <- ThreeEach
    NoHotel = NoHotel
    Nights = {}
    Performances <- Nightly
    MonthOf <- Months
    BookingFacts <- Booked
    CleaningFacts <- Cleaned
    NoNight = NoNight  NoReport = NoReport
    Versions <- SomeVersions
    IgnoredKeys = {"version", "updatedAt"}
    SecretKeys = {"token"}
    MaxChanges = 0
    Null = Null  REDACTED = REDACTED
    Lists <- SomeLists
    Keys = {1, 2}
    PageSizes = {1, 2}
    MaxRows = 3
    MaxMoves = 0
    NotRead = NotRead
    Sockets = {}
    Principals <- Claims
    HotelsHeard = {}
    MaxJoined = 1
    NoHotelId = NoHotelId  Nobody = Nobody  Verifying = Verifying
SYMMETRY Interchangeable
INVARIANTS ExchangedOnce
CHECK_DEADLOCK FALSE
