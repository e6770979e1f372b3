SPECIFICATION SalesSpec
CONSTANTS
    r1 = r1  r2 = r2  c1 = c1  c2 = c2  p1 = p1  p2 = p2
    f1 = f1  f2 = f2  f3 = f3  k1 = k1  k2 = k2  k3 = k3  none = none
    Requests = {}
    Cancels = {}
    Rooms <- LastRoom
    RoomTypes <- MCRoomTypes
    RoomProjection <- LastRoomProjection
    PricedTypes <- MCRoomTypes
    Dtos <- CancelDtos
    NoKey = none
    References = {1}
    ClockTimes = {24}
    MaxStayNights = 90
    TotalMinor = 5
    NoBooking = NoBooking
    Payments = {p1}
    Captures = {}
    Refunds = {f1, f2}
    Charges <- WiredCharges
    Gateways <- WiredGateways
    RefundBodies <- Returns
    CaptureAmounts = {0, 2, 4}
    NoRow = NoRow
    Queued = {}
INVARIANTS RefundsWithinCapture
CHECK_DEADLOCK FALSE
