------------------------------ MODULE Bookings ------------------------------
(***************************************************************************)
(* booking-service: BookingService.create and BookingService.cancel, run   *)
(* by concurrent HTTP requests against one PostgreSQL database.            *)
(*                                                                         *)
(* Every await of a handler ends a step, so requests interleave between    *)
(* the idempotency look-up, the availability read and the transaction. A   *)
(* transaction is one step. A request that never takes its next step is a  *)
(* crashed process or a dropped connection.                                *)
(*                                                                         *)
(* A booking is identified by the request that created it: a request       *)
(* inserts at most one row. Room and rate-plan projections have no writer  *)
(* in the repository and are constants; the hotel is fixed.                *)
(***************************************************************************)
EXTENDS Contracts, FiniteSets, Sequences

CONSTANTS
    Requests,        \* create requests, and the bookings they may create
    Cancels,         \* cancel requests
    Rooms,           \* room numbers, naturals: the order localeCompare gives
    RoomTypes,
    RoomProjection,  \* [Rooms -> [roomType, status, maxOccupancy]]
    PricedTypes,     \* room types with a published rate plan
    Dtos,            \* bodies and idempotency keys a create request may carry
    NoKey,           \* the absent Idempotency-Key header
    References,      \* what generateReference may draw
    ClockTimes,      \* hours, the readings of the service clock
    MaxStayNights,
    TotalMinor,      \* price of a stay: quoteStay's total
    NoBooking

ASSUME RoomsAssumption == Rooms \subseteq Nat

(* Dates are day numbers, instants are hours. *)
StayRange == [checkIn : Int, checkOut : Int]

RoomRow == [roomType : RoomTypes, status : RoomStatus, maxOccupancy : Nat]

ASSUME InputsAssumption ==
    /\ RoomProjection \in [Rooms -> RoomRow]
    /\ \A d \in Dtos : d.stay \in StayRange /\ d.roomType \in RoomTypes
    /\ ClockTimes \subseteq Nat
    /\ TotalMinor \in Nat

VARIABLES
    now,      \* the service clock
    req,      \* req[r]: where create request r is, and what it has read
    status,   \* status[b]: the booking row's status, "NONE" before the insert
    row,      \* row[b]: the booking row's immutable columns
    paid,     \* paid[b]: the booking row's paidMinor
    history,  \* history[b]: BookingStatusChange rows, oldest first
    outbox,   \* outbox[b]: outbox events written about b, oldest first
    cancel    \* cancel[c]: where cancel request c is, and what it has read

vars == <<now, req, status, row, paid, history, outbox, cancel>>
table == <<status, row, paid, history, outbox>>

-----------------------------------------------------------------------------
(* Pure domain rules. *)

toStayDate(hour) == hour \div 24

overlaps(a, b) == a.checkIn < b.checkOut /\ b.checkIn < a.checkOut

eachNight(stay) == stay.checkIn .. (stay.checkOut - 1)

(* assertValidStay: the error it throws, or "OK". *)
stayProblem(stay) ==
    IF stay.checkOut <= stay.checkIn \/ stay.checkIn < toStayDate(now)
    THEN "INVALID_DATE_RANGE"
    ELSE IF stay.checkOut - stay.checkIn > MaxStayNights THEN "STAY_TOO_LONG"
    ELSE "OK"

holdsInventory(b) == status[b] \in INVENTORY_HOLDING_STATUSES

ofType(type) == {n \in Rooms : RoomProjection[n].roomType = type}

fits(n, guests) == RoomProjection[n].maxOccupancy >= guests

loadOverlappingReservations(d) ==
    {b \in Requests : /\ holdsInventory(b)
                      /\ row[b].roomType = d.roomType
                      /\ overlaps(row[b].stay, d.stay)}

findAvailableRooms(d) ==
    {n \in ofType(d.roomType) :
        /\ RoomProjection[n].status \in SELLABLE_ROOM_STATUSES
        /\ fits(n, d.guests)
        /\ \A b \in loadOverlappingReservations(d) : row[b].room # n}

lowest(rooms) == CHOOSE n \in rooms : \A m \in rooms : n <= m

(* STANDARD_CANCELLATION_POLICY: hours of notice and percentage returned.  *)
STANDARD_CANCELLATION_POLICY ==
    {[hours |-> 168, percent |-> 100], [hours |-> 72, percent |-> 50],
     [hours |-> 0, percent |-> 0]}

(* Mutant: the percentage is taken of the price instead of what was paid.  *)
assessRefund_ofTotal(amount, stay) ==
    LET bands == {t \in STANDARD_CANCELLATION_POLICY : 24 * stay.checkIn - now >= t.hours}
    IN IF bands = {} THEN 0
       ELSE multiplyMoney(TotalMinor,
                (CHOOSE t \in bands : \A u \in bands : u.hours <= t.hours).percent, 100)

assessRefund(amount, stay) ==
    LET notice == 24 * stay.checkIn - now
        bands  == {t \in STANDARD_CANCELLATION_POLICY : notice >= t.hours}
        best   == CHOOSE t \in bands : \A u \in bands : u.hours <= t.hours
    IN IF bands = {} THEN 0 ELSE multiplyMoney(amount, best.percent, 100)

-----------------------------------------------------------------------------
(* create: validate, look the key up, read and allocate, insert. *)

Init ==
    /\ now \in ClockTimes
    /\ req = [r \in Requests |-> [pc |-> "NEW"]]
    /\ status = [b \in Requests |-> "NONE"]
    /\ row = [b \in Requests |-> NoBooking]
    /\ paid = [b \in Requests |-> 0]
    /\ history = [b \in Requests |-> <<>>]
    /\ outbox = [b \in Requests |-> <<>>]
    /\ cancel = [c \in Cancels |-> [pc |-> "NEW"]]

(* The handler throws or returns: it keeps nothing but the answer. *)
answer(r, code) == req' = [req EXCEPT ![r] = [pc |-> code]]

Validate(r) ==
    /\ req[r].pc = "NEW"
    /\ \E d \in Dtos :
          IF stayProblem(d.stay) # "OK"
          THEN answer(r, stayProblem(d.stay))
          ELSE req' = [req EXCEPT ![r] =
                         [pc |-> IF d.key = NoKey THEN "READ" ELSE "KEY", dto |-> d]]
    /\ UNCHANGED <<now, table, cancel>>

keyTaken(key) == key # NoKey /\ \E b \in Requests : status[b] # "NONE" /\ row[b].key = key

LookUpKey(r) ==
    /\ req[r].pc = "KEY"
    /\ IF keyTaken(req[r].dto.key)
       THEN answer(r, "IDEMPOTENCY_KEY_REUSED")
       ELSE req' = [req EXCEPT ![r] = [pc |-> "READ", dto |-> req[r].dto]]
    /\ UNCHANGED <<now, table, cancel>>

(* Promise.all of rooms, reservations and rate plan, then allocateRoom. *)
Allocate(r) ==
    /\ req[r].pc = "READ"
    /\ LET d    == req[r].dto
           free == findAvailableRooms(d)
       IN CASE d.roomType \notin PricedTypes \/ ofType(d.roomType) = {} ->
                   answer(r, "NOT_FOUND")
            [] d.roomType \in PricedTypes /\ free # {} ->
                   \E ref \in References :
                      req' = [req EXCEPT ![r] = [pc |-> "INSERT", dto |-> d,
                                                 room |-> lowest(free), reference |-> ref]]
            [] OTHER ->
                   answer(r, IF \E n \in ofType(d.roomType) : fits(n, d.guests)
                             THEN "ROOM_TYPE_SOLD_OUT" ELSE "OCCUPANCY_EXCEEDED")
    /\ UNCHANGED <<now, table, cancel>>

(* Mutant: the constraint's WHERE clause forgets PENDING.                  *)
overlapsHeldStay_confirmedOnly(room, stay) ==
    \E b \in Requests : /\ status[b] \in {"CONFIRMED", "CHECKED_IN"}
                        /\ row[b].room = room
                        /\ overlaps(row[b].stay, stay)

(* bookings_no_overlapping_stay, the GiST exclusion constraint. *)
overlapsHeldStay(room, stay) ==
    \E b \in Requests : holdsInventory(b) /\ row[b].room = room /\ overlaps(row[b].stay, stay)

referenceTaken(ref) == \E b \in Requests : status[b] # "NONE" /\ row[b].reference = ref

(* Mutant: no unique index on idempotencyKey, only the look-up before.     *)
isInventoryConflict_noKeyIndex(r) ==
    overlapsHeldStay(req[r].room, req[r].dto.stay) \/ referenceTaken(req[r].reference)

isInventoryConflict(r) ==
    \/ overlapsHeldStay(req[r].room, req[r].dto.stay)
    \/ keyTaken(req[r].dto.key)
    \/ referenceTaken(req[r].reference)

(* The transaction commits: booking row and booking.created together. *)
InsertBooking(r) ==
    /\ req[r].pc = "INSERT"
    /\ ~ isInventoryConflict(r)
    /\ status' = [status EXCEPT ![r] = "PENDING"]
    /\ row' = [row EXCEPT ![r] =
                  [room |-> req[r].room, stay |-> req[r].dto.stay,
                   roomType |-> req[r].dto.roomType, key |-> req[r].dto.key,
                   reference |-> req[r].reference]]
    /\ outbox' = [outbox EXCEPT ![r] = Append(@, [type |-> "BOOKING_CREATED", refund |-> 0])]
    /\ answer(r, "CREATED")
    /\ UNCHANGED <<now, paid, history, cancel>>

(* P2002 or 23P01: the database refuses and the transaction rolls back. *)
InsertRefused(r) ==
    /\ req[r].pc = "INSERT"
    /\ isInventoryConflict(r)
    /\ answer(r, "ROOM_NOT_AVAILABLE")
    /\ UNCHANGED <<now, table, cancel>>

-----------------------------------------------------------------------------
(* cancel: read and assess, then an unconditional update in a transaction. *)

ReadForCancel(c) ==
    /\ cancel[c].pc = "NEW"
    /\ \E b \in Requests :
          cancel' = [cancel EXCEPT ![c] =
              CASE status[b] = "NONE" -> [pc |-> "NOT_FOUND"]
                [] status[b] # "NONE" /\ ~ canTransition(status[b], "CANCELLED") ->
                       [pc |-> "BOOKING_NOT_CANCELLABLE"]
                [] OTHER -> [pc |-> "UPDATE", booking |-> b, from |-> status[b],
                             refund |-> assessRefund(paid[b], row[b].stay)]]
    /\ UNCHANGED <<now, table, req>>

(* Mutant: the event is only written when there is something to refund.    *)
CommitCancel_eventIfRefund(c) ==
    /\ cancel[c].pc = "UPDATE"
    /\ LET b == cancel[c].booking IN
          /\ status' = [status EXCEPT ![b] = "CANCELLED"]
          /\ history' = [history EXCEPT ![b] =
                           Append(@, [from |-> cancel[c].from, to |-> "CANCELLED"])]
          /\ IF cancel[c].refund = 0 THEN UNCHANGED outbox
             ELSE outbox' = [outbox EXCEPT ![b] =
                               Append(@, [type |-> "BOOKING_CANCELLED",
                                          refund |-> cancel[c].refund])]
    /\ cancel' = [cancel EXCEPT ![c] = [pc |-> "CANCELLED"]]
    /\ UNCHANGED <<now, row, paid, req>>

(* Mutant: the audit row's fromStatus is read off the updated row.         *)
CommitCancel_fromUpdated(c) ==
    /\ cancel[c].pc = "UPDATE"
    /\ LET b == cancel[c].booking IN
          /\ status' = [status EXCEPT ![b] = "CANCELLED"]
          /\ history' = [history EXCEPT ![b] =
                           Append(@, [from |-> status'[b], to |-> "CANCELLED"])]
          /\ outbox' = [outbox EXCEPT ![b] =
                           Append(@, [type |-> "BOOKING_CANCELLED",
                                      refund |-> cancel[c].refund])]
    /\ cancel' = [cancel EXCEPT ![c] = [pc |-> "CANCELLED"]]
    /\ UNCHANGED <<now, row, paid, req>>

CommitCancel(c) ==
    /\ cancel[c].pc = "UPDATE"
    /\ LET b == cancel[c].booking IN
          /\ status' = [status EXCEPT ![b] = "CANCELLED"]
          /\ history' = [history EXCEPT ![b] =
                           Append(@, [from |-> cancel[c].from, to |-> "CANCELLED"])]
          /\ outbox' = [outbox EXCEPT ![b] =
                           Append(@, [type |-> "BOOKING_CANCELLED",
                                      refund |-> cancel[c].refund])]
    /\ cancel' = [cancel EXCEPT ![c] = [pc |-> "CANCELLED"]]
    /\ UNCHANGED <<now, row, paid, req>>

-----------------------------------------------------------------------------
(* Outside src/: payment and stay events, applied to the row by a consumer *)
(* that follows BOOKING_TRANSITIONS and pays in full on confirmation.      *)
ApplyEvent(b) ==
    /\ status[b] # "NONE"
    /\ \E s \in BookingStatus \ {"CANCELLED"} :
          /\ canTransition(status[b], s)
          /\ status' = [status EXCEPT ![b] = s]
          /\ paid' = [paid EXCEPT ![b] = IF s = "CONFIRMED" THEN TotalMinor ELSE @]
    /\ UNCHANGED <<now, req, row, history, outbox, cancel>>

Tick ==
    /\ \E t \in ClockTimes : t > now /\ now' = t
    /\ UNCHANGED <<req, table, cancel>>

Create(r) == Validate(r) \/ LookUpKey(r) \/ Allocate(r) \/ InsertBooking(r) \/ InsertRefused(r)

Cancel(c) == ReadForCancel(c) \/ CommitCancel(c)

Next ==
    \/ \E r \in Requests : Create(r) \/ ApplyEvent(r)
    \/ \E c \in Cancels : Cancel(c)
    \/ Tick

Spec == Init /\ [][Next]_vars

-----------------------------------------------------------------------------
(* Properties. *)

(* Every variable stays in the set its column or request state allows.     *)
CreateAnswer == {"CREATED", "INVALID_DATE_RANGE", "STAY_TOO_LONG", "IDEMPOTENCY_KEY_REUSED",
                 "NOT_FOUND", "OCCUPANCY_EXCEEDED", "ROOM_TYPE_SOLD_OUT", "ROOM_NOT_AVAILABLE"}

CancelState ==
    [pc : {"NEW", "NOT_FOUND", "BOOKING_NOT_CANCELLABLE", "CANCELLED"}]
    \cup [pc : {"UPDATE"}, booking : Requests, from : {"PENDING", "CONFIRMED"},
           refund : 0 .. TotalMinor]

RequestState ==
    [pc : {"NEW"} \cup CreateAnswer]
    \cup [pc : {"KEY", "READ"}, dto : Dtos]
    \cup [pc : {"INSERT"}, dto : Dtos, room : Rooms, reference : References]

BookingRow == [room : Rooms, stay : StayRange, roomType : RoomTypes,
               key : {d.key : d \in Dtos}, reference : References]

BookingStatusChange == [from : {"PENDING", "CONFIRMED"}, to : {"CANCELLED"}]

OutboxEvent == [type : {"BOOKING_CREATED", "BOOKING_CANCELLED"}, refund : 0 .. TotalMinor]

TypeOK ==
    /\ now \in ClockTimes
    /\ req \in [Requests -> RequestState]
    /\ status \in [Requests -> BookingStatus \cup {"NONE"}]
    /\ row \in [Requests -> BookingRow \cup {NoBooking}]
    /\ paid \in [Requests -> {0, TotalMinor}]
    /\ history \in [Requests -> Seq(BookingStatusChange)]
    /\ outbox \in [Requests -> Seq(OutboxEvent)]
    /\ cancel \in [Cancels -> CancelState]

(* However create requests interleave between the availability read and    *)
(* the insert, two bookings that hold inventory never share a night of a   *)
(* room (BookingService.create and bookings_no_overlapping_stay).          *)
NoDoubleBooking ==
    \A a, b \in Requests :
        /\ a # b
        /\ holdsInventory(a) /\ holdsInventory(b)
        /\ row[a].room = row[b].room
        => eachNight(row[a].stay) \cap eachNight(row[b].stay) = {}

(* A client that retries with its Idempotency-Key, even while the first    *)
(* attempt is still in flight, gets at most one booking out of it.         *)
OneBookingPerKey ==
    \A a, b \in Requests :
        /\ a # b
        /\ status[a] # "NONE" /\ status[b] # "NONE"
        => row[a].key # row[b].key \/ row[a].key = NoKey

(* Rows and events are written together: a booking exists exactly when one *)
(* booking.created was written for it, first; every cancellation event has *)
(* its audit row, in the same order; and a booking is CANCELLED exactly    *)
(* when a cancellation was announced.                                      *)
EventsMatchRows ==
    \A b \in Requests :
        /\ (status[b] # "NONE") <=> (outbox[b] # <<>>)
        /\ \A i \in DOMAIN outbox[b] : (outbox[b][i].type = "BOOKING_CREATED") <=> (i = 1)
        /\ outbox[b] # <<>> => Len(outbox[b]) = 1 + Len(history[b])
        /\ (status[b] = "CANCELLED") <=> (history[b] # <<>>)

(* A cancellation never announces a refund larger than what was paid, even *)
(* when the payment lands between the read and the update.                 *)
RefundWithinPaid ==
    \A b \in Requests : \A i \in DOMAIN outbox[b] : outbox[b][i].refund \in 0 .. paid[b]

(* The reservation desk implements the room calendar: a night is owned by  *)
(* one booking at a time, taken and given back whole, and never retaken.   *)
nightsHeld(b) ==
    IF holdsInventory(b) THEN {row[b].room} \X eachNight(row[b].stay) ELSE {}

Calendar == INSTANCE RoomCalendar WITH
    Nights <- UNION {eachNight(d.stay) : d \in Dtos},
    Bookings <- Requests,
    held <- [b \in Requests |-> nightsHeld(b)],
    released <- {b \in Requests : status[b] \in {"CHECKED_OUT", "CANCELLED", "NO_SHOW"}}

ImplementsRoomCalendar == Calendar!Spec

(* packages/contracts booking.ts: every service that mutates a booking     *)
(* validates against the transition map, which has no way out of           *)
(* CANCELLED. Read as: no cancellation is recorded over a cancelled row.   *)
NoSecondCancellation ==
    [][\A b \in Requests :
          Len(history'[b]) > Len(history[b]) => status[b] # "CANCELLED"]_vars

=============================================================================
