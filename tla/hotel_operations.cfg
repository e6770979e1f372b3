SPECIFICATION OperationsSpec
CONSTANTS
    a1 = a1  a2 = a2  b1 = b1  b2 = b2  c1 = c1  c2 = c2  d1 = d1  d2 = d2
    e1 = e1  e2 = e2  USD = USD  beds = beds  mirrors = mirrors
    NoRow = NoRow
    Issues = {a1, b1, b2}
    Payments = {c1, c2}
    Voids = {a1}
    Hotels = {e1, e2}
    Stays = {d1, d2}
    Years = {2026, 2027}
    PrefixesOf <- OwnPrefixes
    MaxSequence = 2
    Totals = {4}
    Deposits = {0, 2}
    Amounts = {2}
    Queued = {a1}
    CheckIns = {a1, a2}
    CheckOuts = {c1, c2}
    Services = {a1}
    Charges = {a1}
    Bookings = {d1, d2}
    RoomCharges = {0, 3}
    Settlements = {0, 3}
    Currencies = {USD}
    Items <- HomeItems
    Posted <- Corrections
    QueuedStays = {a1}
    Numbers = {101, 102}
    Plans <- OneFloor
    Desks = {c1, c2}
    Targets = {"OCCUPIED", "MAINTENANCE", "CLEANING"}
    MaxRoomRequests = 5
    NoRoom = NoRoom
    QueuedRooms = {101}
    Tasks = {a1, a2}
    Cleans <- SomeCleans
    Staff = {1, 2}
    Capacity <- TwoShifts
    ChecklistItems = {beds, mirrors}
    Required = {beds}
    Reports <- AllReports
    Keepers = {c1, c2}
    MaxTaskRequests = 6
    NoTask = NoTask  NoOne = NoOne  Never = Never
    QueuedTasks = {a1}
    Tickets = {a1, a2}
    Faults <- SomeFaults
    Engineers = {a1}
    Benches = {c1, c2}
    MaxTicketRequests = 6
    NoTicket = NoTicket  Unrated = Unrated
    QueuedTickets = {a1}
    Lines <- SmallInvoices
    Discounts = {0, 1, 3, 30}
    Components <- UpToTwo
    NotAsked = NotAsked  NotComputed = NotComputed
    RatePlans <- SomePlans
    StayRanges <- UpToAWeek
    PromotionsOff = {0, 5, 95}
SYMMETRY Interchangeable
INVARIANTS
    OperationsTypeOK SameSequenceOfChanges TotalsAreRight
    NumbersGapFree OneInvoicePerStay PaymentsAddUp VoidIsFinal
PROPERTIES
    AnnouncedBalance QueuedGuestKeepsRoom QueuedCleanIsRedone QueuedRepairReturnsRoom
CHECK_DEADLOCK FALSE
