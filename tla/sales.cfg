SPECIFICATION SalesSpec
CONSTANTS
    r1 = r1  r2 = r2  c1 = c1  c2 = c2  p1 = p1  p2 = p2
    f1 = f1  f2 = f2  f3 = f3  k1 = k1  k2 = k2  k3 = k3  none = none
    Requests = {r1, r2}
    Cancels = {c1, c2}
    Rooms <- MixedRooms
    RoomTypes <- MixedTypes
    RoomProjection <- MixedProjection
    PricedTypes <- MixedPriced
    Dtos <- MixedDtos
    NoKey = none
    References = {1, 2}
    ClockTimes = {96, 200}
    MaxStayNights = 3
    TotalMinor = 5
    NoBooking = NoBooking
    Payments = {p1, p2}
    Captures = {c1}
    Refunds = {f1, f2, f3}
    Charges <- CardCharges
    Gateways <- CardGateways
    RefundBodies <- Returns
    CaptureAmounts = {0, 2, 4}
    NoRow = NoRow
    Queued = {p1}
SYMMETRY RequestSymmetry
INVARIANTS
    TypeOK NoDoubleBooking OneBookingPerKey EventsMatchRows RefundWithinPaid
    OneRowPerKey StatusMatchesAmounts
PROPERTIES ImplementsRoomCalendar ImplementsLedger
CHECK_DEADLOCK FALSE
