SPECIFICATION OperationsSpec
CONSTANTS
    a1 = a1  a2 = a2  b1 = b1  b2 = b2  c1 = c1  c2 = c2  d1 = d1  d2 = d2
    e1 = e1  e2 = e2  USD = USD  beds = beds  mirrors = mirrors
    NoRow = NoRow
    Issues = {}
    Payments = {}
    Voids = {}
    Hotels = {}
    Stays = {}
    Years = {2026, 2027}
    PrefixesOf <- OwnPrefixes
    MaxSequence = 2
    Totals = {4}
    Deposits = {0, 2}
    Amounts = {2}
    Queued = {}
    CheckIns = {}
    CheckOuts = {}
    Services = {}
    Charges = {}
    Bookings = {}
    RoomCharges = {0, 3}
    Settlements = {0, 3}
    Currencies = {USD}
    Items <- HomeItems
    Posted <- Corrections
    QueuedStays = {}
    Numbers = {}
    Plans = {}
    Desks = {}
    Targets = {"OCCUPIED", "MAINTENANCE", "CLEANING"}
    MaxRoomRequests = 5
    NoRoom = NoRoom
    QueuedRooms = {}
    Tasks = {}
    Cleans <- SomeCleans
    Staff = {}
    Capacity <- TwoShifts
    ChecklistItems = {beds, mirrors}
    Required = {beds}
    Reports <- PlainReports
    Keepers = {}
    MaxTaskRequests = 6
    NoTask = NoTask  NoOne = NoOne  Never = Never
    QueuedTasks = {}
    Tickets = {}
    Faults <- SomeFaults
    Engineers = {}
    Benches = {}
    MaxTicketRequests = 6
    NoTicket = NoTicket  Unrated = Unrated
    QueuedTickets = {}
    Lines <- SmallInvoices
    Discounts = {0, 1, 3, 30}
    Components <- UpToTwo
    NotAsked = NotAsked  NotComputed = NotComputed
    RatePlans = {}
    StayRanges <- UpToAWeek
    PromotionsOff = {0, 5, 95}
INVARIANTS InclusiveNotAddedAgain
CHECK_DEADLOCK FALSE
