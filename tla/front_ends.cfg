SPECIFICATION FrontSpec
CONSTANTS
    p1 = p1  p2 = p2  c1 = c1  c2 = c2  w1 = w1  w2 = w2
    Clients = {c1, c2}
    Calls = {call1}
    Requests <- AllRequests
    MaxCalls <- SixOrOne
    Tokens <- AllTokens
    Holder <- Bearer
    Genuine <- Sound
    ExpiresAt <- RunsOut
    NoToken = NoToken
    Deployed <- AllButReporting
    Scale = 5  Window = 2  Horizon <- ThreeOrOne  MaxKeys = 2
    NoHotelId = NoHotelId
    Browsers = {p1, p2}
    Shifts <- AllShifts
    NoAccount = NoAccount
    Replies = {"ENVELOPE", "TIMEOUT"}
    Hotels <- OneHotel
    NotCached = NotCached
    Handlers = {w1, w2}
    Tasks = {t1}
    Cleans <- OneClean
    Staff = {1, 2}
    Capacity <- Two
    ChecklistItems = {"BED"}
    Required = {"BED"}
    Reports <- AllTicked
    MaxTaskRequests = 4
    NoTask = NoTask  NoOne = NoOne  Never = Never
    QueuedTasks = {}
    Tickets = {k1}
    Faults <- OneFault
    MaxTicketRequests = 3
    NoTicket = NoTicket  Unrated = Unrated
    QueuedTickets = {}
SYMMETRY Interchangeable
INVARIANTS EntryAsDeclared OfferedIsAccepted
PROPERTIES AdmittedWithinLimit
CHECK_DEADLOCK FALSE
