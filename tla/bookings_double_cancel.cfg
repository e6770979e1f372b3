SPECIFICATION SalesSpec
CONSTANTS
    r1 = r1  r2 = r2  c1 = c1  c2 = c2  p1 = p1  p2 = p2
    f1 = f1  f2 = f2  f3 = f3  k1 = k1  k2 = k2  k3 = k3  none = none
    Requests = {r1}
    Cancels = {c1, c2}
    Rooms <- LastRoom
    RoomTypes <- MCRoomTypes
    RoomProjection <- LastRoomProjection
    PricedTypes <- MCRoomTypes
    Dtos <- CancelDtos
    NoKey = none
    References = {1}
    ClockTimes = {24, 100, 200}
    MaxStayNights = 90
    TotalMinor = 5
    NoBooking = NoBooking
    Payments = {}
    Captures = {}
    Refunds = {}
    Charges <- WiredCharges
    Gateways <- WiredGateways
    RefundBodies <- Returns
    CaptureAmounts = {0, 2, 4}
    NoRow = NoRow
    Queued = {}
PROPERTIES NoSecondCancellation
CHECK_DEADLOCK FALSE
