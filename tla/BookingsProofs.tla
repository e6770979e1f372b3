--------------------------- MODULE BookingsProofs ---------------------------
(***************************************************************************)
(* Theorems about Bookings, for any number of requests, rooms and dates,   *)
(* and that they are of Sales, whose other half is in PaymentsProofs.      *)
(***************************************************************************)
EXTENDS Sales, WellFoundedInduction, TLAPS

(* What makes NoDoubleBooking and the calendar inductive: a request has no *)
(* row before it answers CREATED, a row exists once it has a status, stays *)
(* that passed assertValidStay are not empty, and held stays of one room   *)
(* do not overlap as intervals.                                            *)
NoRowBeforeInsert ==
    \A r \in Requests : (req[r].pc = "CREATED") <=> (status[r] # "NONE")

RowsExist ==
    \A b \in Requests : status[b] # "NONE" => row[b] \in BookingRow

StaysAreValid ==
    /\ \A r \in Requests : req[r].pc \in {"KEY", "READ", "INSERT"} =>
          req[r].dto.stay.checkIn < req[r].dto.stay.checkOut
    /\ \A b \in Requests : status[b] # "NONE" =>
          /\ row[b].stay.checkIn < row[b].stay.checkOut
          /\ \E d \in Dtos : row[b].stay = d.stay

HeldStaysApart ==
    \A a, b \in Requests :
        /\ a # b
        /\ holdsInventory(a) /\ holdsInventory(b)
        /\ row[a].room = row[b].room
        => ~ overlaps(row[a].stay, row[b].stay)

CancelsExist ==
    \A c \in Cancels : cancel[c].pc = "UPDATE" => status[cancel[c].booking] # "NONE"

Inv ==
    /\ TypeOK
    /\ CancelsExist
    /\ NoRowBeforeInsert
    /\ RowsExist
    /\ StaysAreValid
    /\ HeldStaysApart
    /\ OneBookingPerKey

-----------------------------------------------------------------------------
(* assessRefund returns a part of the amount, whatever the notice. *)
LEMMA RefundBounds ==
    ASSUME NEW amount \in Nat, NEW stay \in StayRange, now \in Nat
    PROVE  assessRefund(amount, stay) \in 0 .. amount
<1> DEFINE notice == 24 * stay.checkIn - now
           bands  == {t \in STANDARD_CANCELLATION_POLICY : notice >= t.hours}
           best   == CHOOSE t \in bands : \A u \in bands : u.hours <= t.hours
<1>1. notice \in Int
  BY DEF StayRange
<1>2. CASE bands = {}
  BY <1>2 DEF assessRefund
<1>3. CASE bands # {}
  <2>1. \E t \in bands : \A u \in bands : u.hours <= t.hours
    <3> DEFINE top == [hours |-> 168, percent |-> 100]
               mid == [hours |-> 72, percent |-> 50]
               low == [hours |-> 0, percent |-> 0]
    <3>1. CASE notice >= 168
      <4>1. top \in bands /\ \A u \in bands : u.hours <= top.hours
        BY <1>1, <3>1 DEF STANDARD_CANCELLATION_POLICY
      <4>2. QED
        BY <4>1
    <3>2. CASE notice < 168 /\ notice >= 72
      <4>1. mid \in bands /\ \A u \in bands : u.hours <= mid.hours
        BY <1>1, <3>2 DEF STANDARD_CANCELLATION_POLICY
      <4>2. QED
        BY <4>1
    <3>3. CASE notice < 72
      <4>1. low \in bands /\ \A u \in bands : u.hours <= low.hours
        BY <1>1, <1>3, <3>3 DEF STANDARD_CANCELLATION_POLICY
      <4>2. QED
        BY <4>1
    <3>4. QED
      BY <1>1, <3>1, <3>2, <3>3
  <2>2. best \in bands
    BY <2>1
  <2>3. best.percent \in {0, 50, 100}
    <3>1. \A t \in bands : t.percent \in {0, 50, 100}
      BY DEF STANDARD_CANCELLATION_POLICY
    <3>2. QED
      <4> HIDE DEF best, bands
      <4>1. QED
        BY <2>2, <3>1
  <2>4. multiplyMoney(amount, best.percent, 100) \in 0 .. amount
    <3>1. multiplyMoney(amount, 0, 100) \in 0 .. amount
      BY DEF multiplyMoney
    <3>2. multiplyMoney(amount, 50, 100) \in 0 .. amount
      BY DEF multiplyMoney
    <3>3. multiplyMoney(amount, 100, 100) \in 0 .. amount
      BY DEF multiplyMoney
    <3>4. QED
      BY <2>3, <3>1, <3>2, <3>3
  <2>5. QED
    BY <1>3, <2>4 DEF assessRefund
<1>4. QED
  BY <1>2, <1>3

(* No event brings a booking back to holding its room. *)
LEMMA TransitionFacts ==
    ASSUME NEW s \in BookingStatus, NEW t \in BookingStatus, canTransition(s, t)
    PROVE  /\ t \in INVENTORY_HOLDING_STATUSES => s \in INVENTORY_HOLDING_STATUSES
           /\ t = "CANCELLED" => s \in {"PENDING", "CONFIRMED"}
           /\ s \in INVENTORY_HOLDING_STATUSES
BY DEF BookingStatus, canTransition, BOOKING_TRANSITIONS, INVENTORY_HOLDING_STATUSES

(* A non-empty set of naturals has a least element, so allocateRoom picks  *)
(* one of the rooms it was given.                                          *)
LEMMA LowestIsMember ==
    ASSUME NEW S \in SUBSET Rooms, S # {}
    PROVE  lowest(S) \in S
<1> DEFINE R == OpToRel(<, Nat)
<1>1. IsWellFoundedOn(R, Nat)
  BY NatLessThanWellFounded
<1>2. \E n \in S : \A m \in S : ~ (<<m, n>> \in R)
  BY <1>1, WFMin, RoomsAssumption, Zenon
<1>3. \A m, n \in S : ~ (<<m, n>> \in R) => n <= m
  BY RoomsAssumption DEF OpToRel
<1>4. \E n \in S : \A m \in S : n <= m
  BY <1>2, <1>3, Zenon
<1>5. QED
  BY <1>4, Zenon DEF lowest

-----------------------------------------------------------------------------
(* An empty table with every request ahead of its handler satisfies Inv.   *)
LEMMA InitInv == Init => Inv
<1> SUFFICES ASSUME Init PROVE Inv
  OBVIOUS
<1> USE DEF Init
<1>1. TypeOK
  BY InputsAssumption DEF TypeOK, RequestState, CancelState, BookingStatus
<1>2. NoRowBeforeInsert /\ RowsExist /\ StaysAreValid /\ CancelsExist
  BY DEF NoRowBeforeInsert, RowsExist, StaysAreValid, CancelsExist
<1>3. HeldStaysApart /\ OneBookingPerKey
  BY DEF HeldStaysApart, OneBookingPerKey, holdsInventory, INVENTORY_HOLDING_STATUSES
<1>4. QED
  BY <1>1, <1>2, <1>3 DEF Inv

-----------------------------------------------------------------------------
(* The types, action by action. *)

(* Every answer createBooking can give is in the domain of answers.        *)
LEMMA AnswerType ==
    ASSUME NEW r \in Requests, NEW code \in CreateAnswer,
           req \in [Requests -> RequestState], answer(r, code)
    PROVE  req' \in [Requests -> RequestState]
<1>1. [pc |-> code] \in RequestState
  BY DEF RequestState
<1>2. QED
  BY <1>1 DEF answer

(* What the stages of a request have read, by stage. *)
LEMMA StageFacts ==
    ASSUME NEW q \in RequestState
    PROVE  /\ q.pc \in {"KEY", "READ"} => /\ q.dto \in Dtos
                                          /\ q = [pc |-> q.pc, dto |-> q.dto]
           /\ q.pc = "INSERT" => /\ q.dto \in Dtos
                                 /\ q.room \in Rooms
                                 /\ q.reference \in References
BY DEF RequestState, CreateAnswer

(* Each stage of createBooking keeps the columns in their sets.            *)
LEMMA CreateTypes ==
    ASSUME TypeOK, RowsExist, NEW r \in Requests, Create(r)
    PROVE  TypeOK'
<1> USE DEF TypeOK
<1>1. CASE Validate(r)
  <2>1. UNCHANGED <<now, table, cancel>>
    BY <1>1 DEF Validate
  <2>2. PICK d \in Dtos :
          IF stayProblem(d.stay) # "OK"
          THEN answer(r, stayProblem(d.stay))
          ELSE req' = [req EXCEPT ![r] =
                         [pc |-> IF d.key = NoKey THEN "READ" ELSE "KEY", dto |-> d]]
    BY <1>1 DEF Validate
  <2>3. req' \in [Requests -> RequestState]
    <3>1. CASE stayProblem(d.stay) # "OK"
      BY <3>1, <2>2, AnswerType DEF stayProblem, CreateAnswer
    <3>2. CASE stayProblem(d.stay) = "OK"
      <4>1. [pc |-> IF d.key = NoKey THEN "READ" ELSE "KEY", dto |-> d] \in RequestState
        BY DEF RequestState
      <4>2. QED
        BY <3>2, <4>1, <2>2
    <3>3. QED
      BY <3>1, <3>2
  <2>4. QED
    BY <2>1, <2>3 DEF table
<1>2. CASE LookUpKey(r)
  <2>1. UNCHANGED <<now, table, cancel>> /\ req[r].pc = "KEY"
    BY <1>2 DEF LookUpKey
  <2>2. req' \in [Requests -> RequestState]
    <3>1. CASE keyTaken(req[r].dto.key)
      BY <3>1, <1>2, AnswerType DEF LookUpKey, CreateAnswer
    <3>2. CASE ~ keyTaken(req[r].dto.key)
      <4>1. [pc |-> "READ", dto |-> req[r].dto] \in RequestState
        BY <2>1, StageFacts DEF RequestState
      <4>2. QED
        BY <3>2, <4>1, <1>2 DEF LookUpKey
    <3>3. QED
      BY <3>1, <3>2
  <2>3. QED
    BY <2>1, <2>2 DEF table
<1>3. CASE Allocate(r)
  <2> DEFINE d == req[r].dto
             free == findAvailableRooms(d)
  <2>1. UNCHANGED <<now, table, cancel>> /\ req[r].pc = "READ"
    BY <1>3 DEF Allocate
  <2>2. d \in Dtos
    BY <2>1, StageFacts
  <2>3. \/ answer(r, "NOT_FOUND")
        \/ /\ free # {}
           /\ \E ref \in References : req' = [req EXCEPT ![r] =
                  [pc |-> "INSERT", dto |-> d, room |-> lowest(free), reference |-> ref]]
        \/ answer(r, "ROOM_TYPE_SOLD_OUT") \/ answer(r, "OCCUPANCY_EXCEEDED")
    BY <1>3 DEF Allocate
  <2>4. free # {} => lowest(free) \in Rooms
    <3>1. free \in SUBSET Rooms
      BY DEF findAvailableRooms, ofType
    <3>2. QED
      <4> HIDE DEF free
      <4>1. QED
        BY <3>1, LowestIsMember
  <2>5. req' \in [Requests -> RequestState]
    <3>1. ASSUME NEW ref \in References, free # {}
          PROVE  [pc |-> "INSERT", dto |-> d, room |-> lowest(free), reference |-> ref]
                    \in RequestState
      BY <2>2, <2>4, <3>1 DEF RequestState
    <3>2. QED
      BY <2>3, <3>1, AnswerType DEF CreateAnswer
  <2>6. QED
    BY <2>1, <2>5 DEF table
<1>4. CASE InsertBooking(r)
  <2>1. req[r].dto \in Dtos /\ req[r].room \in Rooms /\ req[r].reference \in References
    BY <1>4, StageFacts DEF InsertBooking
  <2>2. [room |-> req[r].room, stay |-> req[r].dto.stay,
         roomType |-> req[r].dto.roomType, key |-> req[r].dto.key,
         reference |-> req[r].reference] \in BookingRow
    BY <2>1, InputsAssumption DEF BookingRow
  <2>3. row' \in [Requests -> BookingRow \cup {NoBooking}]
    BY <2>2, <1>4 DEF InsertBooking
  <2>4. req' \in [Requests -> RequestState]
    BY <1>4, AnswerType DEF InsertBooking, CreateAnswer
  <2>5. outbox' \in [Requests -> Seq(OutboxEvent)]
    <3>1. [type |-> "BOOKING_CREATED", refund |-> 0] \in OutboxEvent
      BY InputsAssumption DEF OutboxEvent
    <3>2. QED
      BY <3>1, <1>4 DEF InsertBooking
  <2>6. QED
    BY <1>4, <2>3, <2>4, <2>5 DEF InsertBooking, BookingStatus
<1>5. CASE InsertRefused(r)
  BY <1>5, AnswerType DEF InsertRefused, CreateAnswer, table
<1>6. QED
  BY <1>1, <1>2, <1>3, <1>4, <1>5 DEF Create

(* So does each stage of cancelBooking, whatever status it had read.       *)
LEMMA CancelTypes ==
    ASSUME TypeOK, RowsExist, NEW c \in Cancels, Cancel(c)
    PROVE  TypeOK'
<1> USE DEF TypeOK
<1>1. CASE ReadForCancel(c)
  <2>1. UNCHANGED <<now, table, req>>
    BY <1>1 DEF ReadForCancel
  <2>2. PICK b \in Requests : cancel' = [cancel EXCEPT ![c] =
              CASE status[b] = "NONE" -> [pc |-> "NOT_FOUND"]
                [] status[b] # "NONE" /\ ~ canTransition(status[b], "CANCELLED") ->
                       [pc |-> "BOOKING_NOT_CANCELLABLE"]
                [] OTHER -> [pc |-> "UPDATE", booking |-> b, from |-> status[b],
                             refund |-> assessRefund(paid[b], row[b].stay)]]
    BY <1>1 DEF ReadForCancel
  <2>3. [pc |-> "NOT_FOUND"] \in CancelState /\ [pc |-> "BOOKING_NOT_CANCELLABLE"] \in CancelState
    BY DEF CancelState
  <2>4. ASSUME status[b] # "NONE", canTransition(status[b], "CANCELLED")
        PROVE  [pc |-> "UPDATE", booking |-> b, from |-> status[b],
                refund |-> assessRefund(paid[b], row[b].stay)] \in CancelState
    <3>1. status[b] \in {"PENDING", "CONFIRMED"}
      BY <2>4 DEF canTransition, BOOKING_TRANSITIONS, BookingStatus
    <3>2. row[b].stay \in StayRange
      BY <2>4 DEF RowsExist, BookingRow
    <3>3. paid[b] \in Nat /\ paid[b] <= TotalMinor /\ now \in Nat
      <4>1. paid[b] \in {0, TotalMinor} /\ TotalMinor \in Nat /\ now \in Nat
        BY InputsAssumption
      <4>2. QED
        BY <4>1
    <3>4. assessRefund(paid[b], row[b].stay) \in 0 .. paid[b]
      BY <3>2, <3>3, RefundBounds
    <3>5. assessRefund(paid[b], row[b].stay) \in 0 .. TotalMinor
      BY <3>3, <3>4, InputsAssumption
    <3>6. QED
      BY <3>1, <3>5 DEF CancelState
  <2>5. cancel' \in [Cancels -> CancelState]
    <3>1. CASE status[b] = "NONE"
      BY <2>2, <2>3, <3>1
    <3>2. CASE status[b] # "NONE" /\ ~ canTransition(status[b], "CANCELLED")
      BY <2>2, <2>3, <3>2
    <3>3. CASE status[b] # "NONE" /\ canTransition(status[b], "CANCELLED")
      BY <2>2, <2>4, <3>3
    <3>4. QED
      BY <3>1, <3>2, <3>3
  <2>6. QED
    BY <2>1, <2>5 DEF table
<1>2. CASE CommitCancel(c)
  <2> DEFINE b == cancel[c].booking
  <2>1. b \in Requests /\ cancel[c].from \in {"PENDING", "CONFIRMED"}
        /\ cancel[c].refund \in 0 .. TotalMinor
    BY <1>2 DEF CommitCancel, CancelState
  <2>2. [from |-> cancel[c].from, to |-> "CANCELLED"] \in BookingStatusChange
    BY <2>1 DEF BookingStatusChange
  <2>3. [type |-> "BOOKING_CANCELLED", refund |-> cancel[c].refund] \in OutboxEvent
    BY <2>1 DEF OutboxEvent
  <2>4. history' \in [Requests -> Seq(BookingStatusChange)]
    BY <1>2, <2>1, <2>2 DEF CommitCancel
  <2>5. outbox' \in [Requests -> Seq(OutboxEvent)]
    BY <1>2, <2>1, <2>3 DEF CommitCancel
  <2>6. cancel' \in [Cancels -> CancelState]
    <3>1. [pc |-> "CANCELLED"] \in CancelState
      BY DEF CancelState
    <3>2. QED
      BY <1>2, <3>1 DEF CommitCancel
  <2>7. QED
    BY <1>2, <2>4, <2>5, <2>6 DEF CommitCancel, BookingStatus
<1>3. QED
  BY <1>1, <1>2 DEF Cancel

(* And the internal transitions that stay and payment events drive.        *)
LEMMA EventTypes ==
    ASSUME TypeOK, NEW b \in Requests, ApplyEvent(b)
    PROVE  TypeOK'
BY DEF TypeOK, table, ApplyEvent

(* The passage of time touches the clock and nothing else.                 *)
LEMMA TickTypes ==
    ASSUME TypeOK, Tick
    PROVE  TypeOK'
BY DEF TypeOK, table, Tick

(* No step of the desk takes a column out of its set.                      *)
LEMMA TypeStep == Inv /\ [Next]_vars => TypeOK'
<1> SUFFICES ASSUME Inv, [Next]_vars PROVE TypeOK'
  OBVIOUS
<1>1. TypeOK /\ RowsExist
  BY DEF Inv
<1>2. ASSUME NEW r \in Requests, Create(r) PROVE TypeOK'
  BY <1>1, <1>2, CreateTypes
<1>3. ASSUME NEW b \in Requests, ApplyEvent(b) PROVE TypeOK'
  BY <1>1, <1>3, EventTypes
<1>4. ASSUME NEW c \in Cancels, Cancel(c) PROVE TypeOK'
  BY <1>1, <1>4, CancelTypes
<1>5. CASE Tick
  BY <1>1, <1>5, TickTypes
<1>6. CASE UNCHANGED vars
  BY <1>1, <1>6 DEF vars, TypeOK
<1>7. QED
  BY <1>2, <1>3, <1>4, <1>5, <1>6 DEF Next

-----------------------------------------------------------------------------
(* How a step may change the rows: it leaves them alone, inserts one that  *)
(* clashes with nothing, or moves the status of one that exists without    *)
(* making it hold its room again.                                          *)
Inserts(r) ==
    /\ req[r].pc = "INSERT"
    /\ ~ isInventoryConflict(r)
    /\ status' = [status EXCEPT ![r] = "PENDING"]
    /\ row' = [row EXCEPT ![r] =
                  [room |-> req[r].room, stay |-> req[r].dto.stay,
                   roomType |-> req[r].dto.roomType, key |-> req[r].dto.key,
                   reference |-> req[r].reference]]

Moves(b) ==
    /\ status[b] # "NONE"
    /\ row' = row
    /\ \E s \in BookingStatus :
          /\ status' = [status EXCEPT ![b] = s]
          /\ s \in INVENTORY_HOLDING_STATUSES => holdsInventory(b)

Keeps ==
    /\ row' = row
    /\ status' = status
    /\ \A r \in Requests :
          \/ req'[r] = req[r]
          \/ /\ req[r].pc # "CREATED"
             /\ req'[r].pc # "CREATED"
             /\ req'[r].pc \in {"KEY", "READ", "INSERT"} =>
                   req'[r].dto.stay.checkIn < req'[r].dto.stay.checkOut

StepShape ==
    \/ \E r \in Requests : Inserts(r) /\ answer(r, "CREATED") /\ UNCHANGED cancel
    \/ \E b \in Requests : Moves(b) /\ UNCHANGED req
    \/ Keeps

(* A step of createBooking inserts its own row, or leaves the rows alone.  *)
LEMMA CreateShape ==
    ASSUME TypeOK, StaysAreValid, NEW r \in Requests, Create(r)
    PROVE  StepShape
<1>0. req \in [Requests -> RequestState]
  BY DEF TypeOK
<1>1. CASE Validate(r)
  <2>1. PICK d \in Dtos :
          IF stayProblem(d.stay) # "OK"
          THEN answer(r, stayProblem(d.stay))
          ELSE req' = [req EXCEPT ![r] =
                         [pc |-> IF d.key = NoKey THEN "READ" ELSE "KEY", dto |-> d]]
    BY <1>1 DEF Validate
  <2>2. row' = row /\ status' = status /\ req[r].pc = "NEW"
    BY <1>1 DEF Validate, table
  <2>3. stayProblem(d.stay) \in {"OK", "INVALID_DATE_RANGE", "STAY_TOO_LONG"}
    BY DEF stayProblem
  <2>4. stayProblem(d.stay) = "OK" => d.stay.checkIn < d.stay.checkOut
    BY InputsAssumption DEF stayProblem, StayRange
  <2>5. Keeps
    BY <1>0, <2>1, <2>2, <2>3, <2>4 DEF Keeps, answer
  <2>6. QED
    BY <2>5 DEF StepShape
<1>2. CASE LookUpKey(r)
  <2>1. req[r].pc = "KEY" /\ req[r].dto.stay.checkIn < req[r].dto.stay.checkOut
    BY <1>2 DEF LookUpKey, StaysAreValid
  <2>2. Keeps
    BY <1>0, <1>2, <2>1 DEF LookUpKey, Keeps, answer, table
  <2>3. QED
    BY <2>2 DEF StepShape
<1>3. CASE Allocate(r)
  <2>1. req[r].pc = "READ" /\ req[r].dto.stay.checkIn < req[r].dto.stay.checkOut
    BY <1>3 DEF Allocate, StaysAreValid
  <2>2. \/ answer(r, "NOT_FOUND")
        \/ \E ref \in References : req' = [req EXCEPT ![r] =
              [pc |-> "INSERT", dto |-> req[r].dto,
               room |-> lowest(findAvailableRooms(req[r].dto)), reference |-> ref]]
        \/ answer(r, "ROOM_TYPE_SOLD_OUT") \/ answer(r, "OCCUPANCY_EXCEEDED")
    BY <1>3 DEF Allocate
  <2>3. row' = row /\ status' = status
    BY <1>3 DEF Allocate, table
  <2>4. Keeps
    BY <1>0, <2>1, <2>2, <2>3 DEF Keeps, answer
  <2>5. QED
    BY <2>4 DEF StepShape
<1>4. CASE InsertBooking(r)
  BY <1>4 DEF InsertBooking, Inserts, StepShape
<1>5. CASE InsertRefused(r)
  <2>1. Keeps
    BY <1>0, <1>5 DEF InsertRefused, Keeps, answer, table
  <2>2. QED
    BY <2>1 DEF StepShape
<1>6. QED
  BY <1>1, <1>2, <1>3, <1>4, <1>5 DEF Create

(* Every step inserts one row, moves the status of some, or keeps them.    *)
LEMMA StepLemma == Inv /\ [Next]_vars => StepShape
<1> SUFFICES ASSUME Inv, [Next]_vars PROVE StepShape
  OBVIOUS
<1>1. TypeOK /\ StaysAreValid /\ CancelsExist
  BY DEF Inv
<1>2. ASSUME NEW r \in Requests, Create(r) PROVE StepShape
  BY <1>1, <1>2, CreateShape
<1>3. ASSUME NEW b \in Requests, ApplyEvent(b) PROVE StepShape
  <2>1. PICK s \in BookingStatus : canTransition(status[b], s) /\ status' = [status EXCEPT ![b] = s]
    BY <1>3 DEF ApplyEvent
  <2>2. status[b] \in BookingStatus /\ row' = row /\ req' = req
    BY <1>1, <1>3 DEF ApplyEvent, TypeOK
  <2>3. Moves(b)
    BY <1>3, <2>1, <2>2, TransitionFacts DEF Moves, ApplyEvent, holdsInventory
  <2>4. QED
    BY <2>2, <2>3 DEF StepShape
<1>4. ASSUME NEW c \in Cancels, Cancel(c) PROVE StepShape
  <2>1. CASE ReadForCancel(c)
    BY <2>1 DEF ReadForCancel, table, StepShape, Keeps
  <2>2. CASE CommitCancel(c)
    <3> DEFINE b == cancel[c].booking
    <3>1. b \in Requests /\ status[b] # "NONE"
      BY <1>1, <2>2 DEF CommitCancel, CancelsExist, TypeOK, CancelState
    <3>2. row' = row /\ req' = req /\ status' = [status EXCEPT ![b] = "CANCELLED"]
      BY <2>2 DEF CommitCancel
    <3>3. "CANCELLED" \in BookingStatus /\ "CANCELLED" \notin INVENTORY_HOLDING_STATUSES
      BY DEF BookingStatus, INVENTORY_HOLDING_STATUSES
    <3>4. Moves(b)
      BY <3>1, <3>2, <3>3 DEF Moves
    <3>5. QED
      BY <3>1, <3>2, <3>4 DEF StepShape
  <2>3. QED
    BY <1>4, <2>1, <2>2 DEF Cancel
<1>5. CASE Tick
  BY <1>5 DEF Tick, table, StepShape, Keeps
<1>6. CASE UNCHANGED vars
  BY <1>6 DEF vars, StepShape, Keeps
<1>7. QED
  BY <1>2, <1>3, <1>4, <1>5, <1>6 DEF Next

-----------------------------------------------------------------------------
(* Each part of Inv is preserved by the three shapes of a step. *)

(* What a row that exists is known to have: a room, a valid stay, a key.   *)
LEMMA RowFacts ==
    ASSUME TypeOK, StaysAreValid, NEW r \in Requests, Inserts(r)
    PROVE  /\ req[r].dto \in Dtos
           /\ row'[r] \in BookingRow
           /\ row'[r].room = req[r].room
           /\ row'[r].key = req[r].dto.key
           /\ row'[r].stay = req[r].dto.stay
           /\ row'[r].stay.checkIn < row'[r].stay.checkOut
           /\ status'[r] = "PENDING"
           /\ \A b \in Requests \ {r} : row'[b] = row[b] /\ status'[b] = status[b]
<1>1. req[r].dto \in Dtos /\ req[r].room \in Rooms /\ req[r].reference \in References
  BY StageFacts DEF TypeOK, Inserts
<1>2. /\ row'[r] = [room |-> req[r].room, stay |-> req[r].dto.stay,
                   roomType |-> req[r].dto.roomType, key |-> req[r].dto.key,
                   reference |-> req[r].reference]
      /\ status'[r] = "PENDING"
      /\ \A b \in Requests \ {r} : row'[b] = row[b] /\ status'[b] = status[b]
  BY DEF TypeOK, Inserts
<1>3. row'[r] \in BookingRow
  BY <1>1, <1>2, InputsAssumption DEF BookingRow
<1>4. req[r].dto.stay.checkIn < req[r].dto.stay.checkOut
  BY DEF StaysAreValid, Inserts
<1>5. QED
  BY <1>1, <1>2, <1>3, <1>4

(* Rows appear only with their insert, are never removed, and keep a stay  *)
(* with a night in it.                                                     *)
LEMMA RowStep == Inv /\ [Next]_vars => (NoRowBeforeInsert /\ RowsExist /\ StaysAreValid)'
<1> SUFFICES ASSUME Inv, [Next]_vars PROVE (NoRowBeforeInsert /\ RowsExist /\ StaysAreValid)'
  OBVIOUS
<1>1. TypeOK /\ NoRowBeforeInsert /\ RowsExist /\ StaysAreValid /\ StepShape
  BY StepLemma DEF Inv
<1>2. ASSUME NEW r \in Requests, Inserts(r), answer(r, "CREATED")
      PROVE  (NoRowBeforeInsert /\ RowsExist /\ StaysAreValid)'
  <2>1. /\ req'[r].pc = "CREATED"
        /\ \A b \in Requests \ {r} : req'[b] = req[b]
    BY <1>1, <1>2 DEF TypeOK, answer
  <2>2. NoRowBeforeInsert'
    BY <1>1, <1>2, <2>1, RowFacts DEF NoRowBeforeInsert
  <2>3. RowsExist'
    BY <1>1, <1>2, RowFacts DEF RowsExist
  <2>4. StaysAreValid'
    <3>1. \A b \in Requests : req'[b].pc \in {"KEY", "READ", "INSERT"} =>
            req'[b].dto.stay.checkIn < req'[b].dto.stay.checkOut
      BY <1>1, <2>1 DEF StaysAreValid
    <3>2. \A b \in Requests : status'[b] # "NONE" =>
            /\ row'[b].stay.checkIn < row'[b].stay.checkOut
            /\ \E d \in Dtos : row'[b].stay = d.stay
      BY <1>1, <1>2, RowFacts DEF StaysAreValid
    <3>3. QED
      BY <3>1, <3>2 DEF StaysAreValid
  <2>5. QED
    BY <2>2, <2>3, <2>4
<1>3. ASSUME NEW b \in Requests, Moves(b), UNCHANGED req
      PROVE  (NoRowBeforeInsert /\ RowsExist /\ StaysAreValid)'
  <2>1. \A a \in Requests : (status'[a] # "NONE") <=> (status[a] # "NONE")
    BY <1>1, <1>3 DEF TypeOK, Moves, BookingStatus
  <2>2. row' = row
    BY <1>3 DEF Moves
  <2>3. QED
    BY <1>1, <1>3, <2>1, <2>2 DEF NoRowBeforeInsert, RowsExist, StaysAreValid
<1>4. CASE Keeps
  BY <1>1, <1>4 DEF Keeps, NoRowBeforeInsert, RowsExist, StaysAreValid
<1>5. QED
  BY <1>1, <1>2, <1>3, <1>4 DEF StepShape

(* A cancellation past its read still finds the booking it read.           *)
LEMMA CancelsExistStep == Inv /\ [Next]_vars => CancelsExist'
<1> SUFFICES ASSUME Inv, [Next]_vars PROVE CancelsExist'
  OBVIOUS
<1>1. TypeOK /\ CancelsExist /\ StepShape
  BY StepLemma DEF Inv
<1>2. \A b \in Requests : status[b] # "NONE" => status'[b] # "NONE"
  BY <1>1 DEF TypeOK, StepShape, Inserts, Moves, Keeps, BookingStatus
<1>3. \A c \in Cancels : cancel[c].pc = "UPDATE" => cancel[c].booking \in Requests
  BY <1>1 DEF TypeOK, CancelState
<1>4. ASSUME NEW c \in Cancels, ReadForCancel(c) PROVE CancelsExist'
  <2>1. status' = status
    BY <1>4 DEF ReadForCancel, table
  <2>2. PICK b \in Requests : cancel' = [cancel EXCEPT ![c] =
              CASE status[b] = "NONE" -> [pc |-> "NOT_FOUND"]
                [] status[b] # "NONE" /\ ~ canTransition(status[b], "CANCELLED") ->
                       [pc |-> "BOOKING_NOT_CANCELLABLE"]
                [] OTHER -> [pc |-> "UPDATE", booking |-> b, from |-> status[b],
                             refund |-> assessRefund(paid[b], row[b].stay)]]
    BY <1>4 DEF ReadForCancel
  <2>3. cancel'[c].pc = "UPDATE" => status[cancel'[c].booking] # "NONE"
    BY <1>1, <2>2 DEF TypeOK
  <2>4. \A x \in Cancels \ {c} : cancel'[x] = cancel[x]
    BY <1>1, <2>2 DEF TypeOK
  <2>5. QED
    BY <1>1, <2>1, <2>3, <2>4 DEF CancelsExist
<1>5. ASSUME NEW c \in Cancels, CommitCancel(c) PROVE CancelsExist'
  <2>1. /\ cancel'[c].pc = "CANCELLED"
        /\ \A x \in Cancels \ {c} : cancel'[x] = cancel[x]
    BY <1>1, <1>5 DEF CommitCancel, TypeOK
  <2>2. QED
    BY <1>1, <1>2, <1>3, <2>1 DEF CancelsExist
<1>6. CASE UNCHANGED cancel
  BY <1>1, <1>2, <1>3, <1>6 DEF CancelsExist
<1>7. (\E c \in Cancels : Cancel(c)) \/ UNCHANGED cancel
  BY DEF Next, vars, Create, Validate, LookUpKey, Allocate, InsertBooking, InsertRefused,
         ApplyEvent, Tick
<1>8. QED
  BY <1>4, <1>5, <1>6, <1>7 DEF Cancel

(* The exclusion constraint and the unique key are kept by an insert, and a*)
(* status move never brings a booking back into a room's calendar.         *)
LEMMA ApartStep == Inv /\ [Next]_vars => (HeldStaysApart /\ OneBookingPerKey)'
<1> SUFFICES ASSUME Inv, [Next]_vars PROVE (HeldStaysApart /\ OneBookingPerKey)'
  OBVIOUS
<1>1. /\ TypeOK /\ RowsExist /\ StaysAreValid /\ HeldStaysApart /\ OneBookingPerKey
      /\ StepShape
  BY StepLemma DEF Inv
<1>2. ASSUME NEW r \in Requests, Inserts(r)
      PROVE  (HeldStaysApart /\ OneBookingPerKey)'
  <2>1. \A b \in Requests \ {r} : holdsInventory(b)' <=> holdsInventory(b)
    BY <1>1, <1>2, RowFacts DEF holdsInventory
  <2>2. \A b \in Requests \ {r} : holdsInventory(b) /\ row[b].room = row'[r].room =>
           ~ overlaps(row[b].stay, row'[r].stay) /\ ~ overlaps(row'[r].stay, row[b].stay)
    BY <1>1, <1>2, RowFacts DEF Inserts, isInventoryConflict, overlapsHeldStay, overlaps
  <2>3. HeldStaysApart'
    BY <1>1, <1>2, <2>1, <2>2, RowFacts DEF HeldStaysApart
  <2>4. \A b \in Requests \ {r} : status[b] # "NONE" =>
           row[b].key # row'[r].key \/ row'[r].key = NoKey
    <3>1. ~ keyTaken(req[r].dto.key)
      BY <1>2 DEF Inserts, isInventoryConflict
    <3>2. row'[r].key = req[r].dto.key
      BY <1>1, <1>2, RowFacts
    <3>3. QED
      BY <3>1, <3>2 DEF keyTaken
  <2>5. OneBookingPerKey'
    BY <1>1, <1>2, <2>4, RowFacts DEF OneBookingPerKey
  <2>6. QED
    BY <2>3, <2>5
<1>3. ASSUME NEW b \in Requests, Moves(b)
      PROVE  (HeldStaysApart /\ OneBookingPerKey)'
  <2>1. \A a \in Requests : /\ holdsInventory(a)' => holdsInventory(a)
                            /\ status'[a] # "NONE" => status[a] # "NONE"
    BY <1>1, <1>3 DEF TypeOK, Moves, holdsInventory
  <2>2. row' = row
    BY <1>3 DEF Moves
  <2>3. QED
    BY <1>1, <2>1, <2>2 DEF HeldStaysApart, OneBookingPerKey
<1>4. CASE Keeps
  BY <1>1, <1>4 DEF Keeps, HeldStaysApart, OneBookingPerKey, holdsInventory
<1>5. QED
  BY <1>1, <1>2, <1>3, <1>4 DEF StepShape

(* Inv holds in every reachable state.                                     *)
THEOREM Invariance == Spec => []Inv
<1>1. Inv /\ [Next]_vars => Inv'
  BY TypeStep, RowStep, CancelsExistStep, ApartStep DEF Inv
<1>2. QED
  BY <1>1, InitInv, PTL DEF Spec

-----------------------------------------------------------------------------
(* Types: TypeOK holds in every reachable state. *)
THEOREM TypeCorrect == Spec => []TypeOK
<1>1. Inv => TypeOK
  BY DEF Inv
<1>2. QED
  BY <1>1, Invariance, PTL

(* No two held bookings share a night of a room, for any number of         *)
(* concurrent create and cancel requests.                                  *)
THEOREM NoDoubleBookingHolds == Spec => []NoDoubleBooking
<1>1. Inv => NoDoubleBooking
  <2> SUFFICES ASSUME Inv, NEW a \in Requests, NEW b \in Requests, a # b,
                      holdsInventory(a), holdsInventory(b), row[a].room = row[b].room,
                      NEW n \in eachNight(row[a].stay), n \in eachNight(row[b].stay)
               PROVE  FALSE
    BY DEF NoDoubleBooking
  <2>1. ~ overlaps(row[a].stay, row[b].stay)
    BY DEF Inv, HeldStaysApart
  <2>2. row[a].stay \in StayRange /\ row[b].stay \in StayRange
    <3>1. "NONE" \notin INVENTORY_HOLDING_STATUSES
      BY DEF INVENTORY_HOLDING_STATUSES
    <3>2. QED
      BY <3>1 DEF Inv, RowsExist, BookingRow, holdsInventory
  <2>3. /\ row[a].stay.checkIn <= n /\ n < row[a].stay.checkOut
        /\ row[b].stay.checkIn <= n /\ n < row[b].stay.checkOut
        /\ n \in Int
    BY <2>2 DEF eachNight, StayRange
  <2>4. QED
    BY <2>1, <2>2, <2>3 DEF overlaps, StayRange
<1>2. QED
  BY <1>1, Invariance, PTL

(* A client's Idempotency-Key yields at most one booking. *)
THEOREM OneBookingPerKeyHolds == Spec => []OneBookingPerKey
<1>1. Inv => OneBookingPerKey
  BY DEF Inv
<1>2. QED
  BY <1>1, Invariance, PTL

-----------------------------------------------------------------------------
(* Rows, audit and announcements tell one story. *)

(* Only these steps touch what is announced and audited: the insert, the   *)
(* update of a cancellation, and the events other services send.           *)
TrailKept == UNCHANGED <<status, history, outbox, paid>>

(* The steps that touch rows and events; every other leaves both alone.    *)
LEMMA TrailShape ==
    ASSUME [Next]_vars
    PROVE  \/ \E r \in Requests : InsertBooking(r) \/ ApplyEvent(r)
           \/ \E c \in Cancels : CommitCancel(c)
           \/ TrailKept
BY DEF Next, vars, table, Create, Cancel, TrailKept, Validate, LookUpKey, Allocate,
       InsertRefused, ReadForCancel, Tick

(* The insert writes the first event of a booking that had none; a         *)
(* cancellation adds one event and one audit row; other events add none    *)
(* and never leave or reach CANCELLED.                                     *)
LEMMA EventsStep == Inv /\ EventsMatchRows /\ [Next]_vars => EventsMatchRows'
<1> SUFFICES ASSUME Inv, EventsMatchRows, [Next]_vars, NEW b \in Requests
             PROVE  /\ (status'[b] # "NONE") <=> (outbox'[b] # <<>>)
                    /\ \A i \in DOMAIN outbox'[b] :
                          (outbox'[b][i].type = "BOOKING_CREATED") <=> (i = 1)
                    /\ outbox'[b] # <<>> => Len(outbox'[b]) = 1 + Len(history'[b])
                    /\ (status'[b] = "CANCELLED") <=> (history'[b] # <<>>)
  BY DEF EventsMatchRows
<1>1. /\ status \in [Requests -> BookingStatus \cup {"NONE"}]
      /\ history \in [Requests -> Seq(BookingStatusChange)]
      /\ outbox \in [Requests -> Seq(OutboxEvent)]
      /\ history[b] \in Seq(BookingStatusChange) /\ outbox[b] \in Seq(OutboxEvent)
  BY DEF Inv, TypeOK
<1>2. /\ (status[b] # "NONE") <=> (outbox[b] # <<>>)
      /\ \A i \in DOMAIN outbox[b] : (outbox[b][i].type = "BOOKING_CREATED") <=> (i = 1)
      /\ outbox[b] # <<>> => Len(outbox[b]) = 1 + Len(history[b])
      /\ (status[b] = "CANCELLED") <=> (history[b] # <<>>)
  BY DEF EventsMatchRows
<1>3. CASE TrailKept
  BY <1>2, <1>3 DEF TrailKept
<1>4. ASSUME NEW r \in Requests, InsertBooking(r)
      PROVE  /\ (status'[b] # "NONE") <=> (outbox'[b] # <<>>)
             /\ \A i \in DOMAIN outbox'[b] :
                   (outbox'[b][i].type = "BOOKING_CREATED") <=> (i = 1)
             /\ outbox'[b] # <<>> => Len(outbox'[b]) = 1 + Len(history'[b])
             /\ (status'[b] = "CANCELLED") <=> (history'[b] # <<>>)
  <2>1. CASE b # r
    BY <1>1, <1>2, <1>4, <2>1 DEF InsertBooking
  <2>2. CASE b = r
    <3>1. status[b] = "NONE"
      BY <1>4, <2>2 DEF InsertBooking, Inv, NoRowBeforeInsert
    <3>2. outbox[b] = <<>> /\ history[b] = <<>>
      BY <1>2, <3>1
    <3>3. /\ status'[b] = "PENDING" /\ history'[b] = <<>>
          /\ outbox'[b] = <<[type |-> "BOOKING_CREATED", refund |-> 0]>>
      BY <1>1, <1>4, <2>2, <3>2 DEF InsertBooking
    <3>4. QED
      BY <3>3
  <2>3. QED
    BY <2>1, <2>2
<1>5. ASSUME NEW r \in Requests, ApplyEvent(r)
      PROVE  /\ history' = history /\ outbox' = outbox
             /\ (status'[b] # "NONE") <=> (status[b] # "NONE")
             /\ (status'[b] = "CANCELLED") <=> (status[b] = "CANCELLED")
  <2>1. PICK s \in BookingStatus \ {"CANCELLED"} :
          canTransition(status[r], s) /\ status' = [status EXCEPT ![r] = s]
    BY <1>5 DEF ApplyEvent
  <2>2. status[r] \in BookingStatus
    BY <1>1, <1>5 DEF ApplyEvent
  <2>3. status[r] # "CANCELLED" /\ s # "NONE"
    BY <2>1, <2>2, TransitionFacts DEF INVENTORY_HOLDING_STATUSES, BookingStatus
  <2>4. QED
    BY <1>1, <1>5, <2>1, <2>3 DEF ApplyEvent
<1>6. ASSUME NEW c \in Cancels, CommitCancel(c)
      PROVE  /\ (status'[b] # "NONE") <=> (outbox'[b] # <<>>)
             /\ \A i \in DOMAIN outbox'[b] :
                   (outbox'[b][i].type = "BOOKING_CREATED") <=> (i = 1)
             /\ outbox'[b] # <<>> => Len(outbox'[b]) = 1 + Len(history'[b])
             /\ (status'[b] = "CANCELLED") <=> (history'[b] # <<>>)
  <2> DEFINE k == cancel[c].booking
             change == [from |-> cancel[c].from, to |-> "CANCELLED"]
             entry == [type |-> "BOOKING_CANCELLED", refund |-> cancel[c].refund]
  <2>1. k \in Requests /\ status[k] # "NONE"
    BY <1>6 DEF CommitCancel, Inv, CancelsExist, TypeOK, CancelState
  <2>2. CASE b # k
    BY <1>1, <1>2, <1>6, <2>1, <2>2 DEF CommitCancel
  <2>3. CASE b = k
    <3>1. /\ status'[b] = "CANCELLED"
          /\ history'[b] = Append(history[b], change)
          /\ outbox'[b] = Append(outbox[b], entry)
      BY <1>1, <1>6, <2>1, <2>3 DEF CommitCancel
    <3>2. /\ Len(history'[b]) = Len(history[b]) + 1 /\ Len(outbox'[b]) = Len(outbox[b]) + 1
          /\ history'[b] # <<>> /\ outbox'[b] # <<>> /\ Len(outbox[b]) >= 1
          /\ DOMAIN outbox'[b] = 1 .. Len(outbox[b]) + 1
          /\ \A i \in 1 .. Len(outbox[b]) : outbox'[b][i] = outbox[b][i]
          /\ outbox'[b][Len(outbox[b]) + 1] = entry
      BY <1>1, <1>2, <2>1, <2>3, <3>1
    <3>3. \A i \in DOMAIN outbox'[b] : (outbox'[b][i].type = "BOOKING_CREATED") <=> (i = 1)
      <4> SUFFICES ASSUME NEW i \in 1 .. Len(outbox[b]) + 1
                   PROVE  (outbox'[b][i].type = "BOOKING_CREATED") <=> (i = 1)
        BY <3>2
      <4>1. CASE i \in 1 .. Len(outbox[b])
        BY <1>1, <1>2, <3>2, <4>1
      <4>2. CASE i = Len(outbox[b]) + 1
        BY <1>1, <3>2, <4>2
      <4>3. QED
        BY <1>1, <4>1, <4>2
    <3>4. Len(outbox'[b]) = 1 + Len(history'[b])
      <4>1. Len(outbox[b]) = 1 + Len(history[b])
        BY <1>2, <2>1, <2>3
      <4>2. Len(history[b]) \in Nat
        BY <1>1
      <4>3. QED
        BY <3>2, <4>1, <4>2
    <3>5. status'[b] # "NONE" /\ status'[b] = "CANCELLED"
      BY <3>1
    <3>6. QED
      BY <3>2, <3>3, <3>4, <3>5, Zenon
  <2>4. QED
    BY <2>2, <2>3
<1>7. QED
  BY <1>2, <1>3, <1>4, <1>5, <1>6, TrailShape

(* A cancellation that has been read keeps to what was paid until it       *)
(* commits: payment only grows.                                            *)
PendingWithinPaid ==
    \A c \in Cancels : cancel[c].pc = "UPDATE" =>
        cancel[c].refund \in 0 .. paid[cancel[c].booking]

(* No step takes money off a booking.                                      *)
LEMMA PaidGrows ==
    ASSUME Inv, [Next]_vars, NEW b \in Requests
    PROVE  paid[b] \in Nat /\ paid'[b] \in Nat /\ paid[b] <= paid'[b]
<1>1. paid \in [Requests -> {0, TotalMinor}] /\ TotalMinor \in Nat
  BY InputsAssumption DEF Inv, TypeOK
<1>2. ASSUME NEW r \in Requests, ApplyEvent(r)
      PROVE  paid'[b] \in {paid[b], TotalMinor}
  <2>1. PICK s : paid' = [paid EXCEPT ![r] = IF s = "CONFIRMED" THEN TotalMinor ELSE @]
    BY <1>2 DEF ApplyEvent
  <2>2. QED
    BY <1>1, <2>1
<1>3. ASSUME NEW r \in Requests, InsertBooking(r) PROVE paid' = paid
  BY <1>3 DEF InsertBooking
<1>4. ASSUME NEW c \in Cancels, CommitCancel(c) PROVE paid' = paid
  BY <1>4 DEF CommitCancel
<1>5. paid' = paid \/ paid'[b] \in {paid[b], TotalMinor}
  BY <1>2, <1>3, <1>4, TrailShape DEF TrailKept
<1>6. paid[b] \in {0, TotalMinor}
  BY <1>1
<1>7. QED
  BY <1>1, <1>5, <1>6

(* A pending refund stays within what was paid.                            *)
LEMMA PendingStep == Inv /\ PendingWithinPaid /\ [Next]_vars => PendingWithinPaid'
<1> SUFFICES ASSUME Inv, PendingWithinPaid, [Next]_vars, NEW c \in Cancels,
                    cancel'[c].pc = "UPDATE"
             PROVE  cancel'[c].refund \in 0 .. paid'[cancel'[c].booking]
  BY DEF PendingWithinPaid
<1>1. cancel \in [Cancels -> CancelState] /\ cancel' \in [Cancels -> CancelState]
  BY TypeStep DEF Inv, TypeOK
<1>2. cancel'[c].booking \in Requests /\ cancel'[c].refund \in Nat
  BY <1>1, InputsAssumption DEF CancelState
<1>3. CASE cancel'[c] = cancel[c]
  <2>1. cancel[c].refund \in 0 .. paid[cancel[c].booking]
    BY <1>3 DEF PendingWithinPaid
  <2>2. QED
    BY <1>2, <1>3, <2>1, PaidGrows
<1>4. CASE cancel'[c] # cancel[c]
  <2>1. ReadForCancel(c)
    <3>1. \E d \in Cancels : Cancel(d)
      BY <1>4 DEF Next, vars, Create, Validate, LookUpKey, Allocate, InsertBooking, InsertRefused,
                  ApplyEvent, Tick
    <3>2. PICK d \in Cancels : Cancel(d)
      BY <3>1
    <3>3. d = c
      BY <1>1, <1>4, <3>2 DEF Cancel, ReadForCancel, CommitCancel
    <3>4. ~ CommitCancel(c)
      BY <1>1 DEF CommitCancel
    <3>5. QED
      BY <3>2, <3>3, <3>4 DEF Cancel
  <2>2. PICK b \in Requests : cancel' = [cancel EXCEPT ![c] =
              CASE status[b] = "NONE" -> [pc |-> "NOT_FOUND"]
                [] status[b] # "NONE" /\ ~ canTransition(status[b], "CANCELLED") ->
                       [pc |-> "BOOKING_NOT_CANCELLABLE"]
                [] OTHER -> [pc |-> "UPDATE", booking |-> b, from |-> status[b],
                             refund |-> assessRefund(paid[b], row[b].stay)]]
    BY <2>1 DEF ReadForCancel
  <2>3. /\ status[b] # "NONE"
        /\ cancel'[c] = [pc |-> "UPDATE", booking |-> b, from |-> status[b],
                         refund |-> assessRefund(paid[b], row[b].stay)]
    BY <1>1, <2>2
  <2>4. row[b].stay \in StayRange /\ now \in Nat /\ paid[b] \in Nat
    BY <2>3, PaidGrows, InputsAssumption DEF Inv, RowsExist, BookingRow, TypeOK
  <2>5. assessRefund(paid[b], row[b].stay) \in 0 .. paid[b] /\ paid' = paid
    BY <2>1, <2>4, RefundBounds DEF ReadForCancel, table
  <2>6. QED
    BY <2>3, <2>5
<1>5. QED
  BY <1>3, <1>4

(* So does what was refunded.                                              *)
LEMMA RefundsStep ==
    Inv /\ PendingWithinPaid /\ RefundWithinPaid /\ [Next]_vars => RefundWithinPaid'
<1> SUFFICES ASSUME Inv, PendingWithinPaid, RefundWithinPaid, [Next]_vars,
                    NEW b \in Requests, NEW i \in DOMAIN outbox'[b]
             PROVE  outbox'[b][i].refund \in 0 .. paid'[b]
  BY DEF RefundWithinPaid
<1>1. outbox \in [Requests -> Seq(OutboxEvent)] /\ outbox[b] \in Seq(OutboxEvent)
  BY DEF Inv, TypeOK
<1>2. \A j \in DOMAIN outbox[b] : outbox[b][j].refund \in 0 .. paid'[b]
  BY PaidGrows DEF RefundWithinPaid
<1>3. ASSUME NEW r \in Requests, InsertBooking(r) PROVE outbox'[b][i].refund \in 0 .. paid'[b]
  <2>1. outbox'[b] \in {outbox[b], Append(outbox[b], [type |-> "BOOKING_CREATED", refund |-> 0])}
    BY <1>1, <1>3 DEF InsertBooking
  <2>2. 0 \in 0 .. paid'[b]
    BY PaidGrows
  <2>3. CASE outbox'[b] = outbox[b]
    BY <1>2, <2>3
  <2>4. CASE outbox'[b] = Append(outbox[b], [type |-> "BOOKING_CREATED", refund |-> 0])
    BY <1>1, <1>2, <2>2, <2>4
  <2>5. QED
    BY <2>1, <2>3, <2>4
<1>4. ASSUME NEW c \in Cancels, CommitCancel(c) PROVE outbox'[b][i].refund \in 0 .. paid'[b]
  <2> DEFINE k == cancel[c].booking
             entry == [type |-> "BOOKING_CANCELLED", refund |-> cancel[c].refund]
  <2>1. outbox'[b] = IF b = k THEN Append(outbox[b], entry) ELSE outbox[b]
    BY <1>1, <1>4 DEF CommitCancel
  <2>2. b = k => entry.refund \in 0 .. paid'[b]
    BY <1>4 DEF CommitCancel, PendingWithinPaid
  <2>3. QED
    BY <1>1, <1>2, <2>1, <2>2
<1>5. CASE outbox' = outbox
  BY <1>2, <1>5
<1>6. QED
  BY <1>3, <1>4, <1>5, TrailShape DEF TrailKept, ApplyEvent

(* Announcements and rows agree, for any number of cancellations that      *)
(* overlap each other and the events of other services.                    *)
THEOREM EventsMatchRowsHolds == Spec => []EventsMatchRows
<1>1. Init => EventsMatchRows
  BY DEF Init, EventsMatchRows
<1>2. QED
  BY <1>1, Invariance, EventsStep, PTL DEF Spec

(* No cancellation announces more than was paid, whatever is paid between  *)
(* its read and its update.                                                *)
THEOREM RefundWithinPaidHolds == Spec => []RefundWithinPaid
<1>1. Init => PendingWithinPaid /\ RefundWithinPaid
  BY DEF Init, PendingWithinPaid, RefundWithinPaid
<1>2. QED
  BY <1>1, Invariance, PendingStep, RefundsStep, PTL DEF Spec

-----------------------------------------------------------------------------
(* The calendar: an insert is Calendar!Hold, the end of a holding status   *)
(* is Calendar!Release, everything else stutters.                          *)

Ended == {"CHECKED_OUT", "CANCELLED", "NO_SHOW"}

(* The empty booking table is the empty calendar.                          *)
LEMMA InitImplements == Init => Calendar!Init
BY DEF Init, Calendar!Init, nightsHeld, holdsInventory, INVENTORY_HOLDING_STATUSES

(* An insert is a Hold of the calendar: the nights it takes were free.     *)
LEMMA InsertIsHold ==
    ASSUME Inv, NEW r \in Requests, Inserts(r)
    PROVE  Calendar!Hold(r)
<1>1. /\ TypeOK /\ RowsExist /\ StaysAreValid
      /\ status[r] = "NONE"
  BY DEF Inv, NoRowBeforeInsert, Inserts
<1> DEFINE stay == req[r].dto.stay
           room == req[r].room
           wanted == {room} \X (stay.checkIn .. stay.checkOut - 1)
<1>2. /\ stay \in StayRange
      /\ stay.checkIn < stay.checkOut
      /\ room \in Rooms
      /\ req[r].dto \in Dtos
  BY <1>1, StageFacts, InputsAssumption DEF TypeOK, Inserts, StaysAreValid
<1>3. /\ stay.checkIn \in Int /\ stay.checkOut \in Int
      /\ eachNight(stay) = stay.checkIn .. stay.checkOut - 1
      /\ stay.checkIn <= stay.checkOut - 1
      /\ stay.checkIn \in UNION {eachNight(d.stay) : d \in Dtos}
      /\ stay.checkOut - 1 \in UNION {eachNight(d.stay) : d \in Dtos}
  <2>1. /\ stay.checkIn \in Int /\ stay.checkOut \in Int
        /\ eachNight(stay) = stay.checkIn .. stay.checkOut - 1
    BY <1>2 DEF StayRange, eachNight
  <2>2. stay.checkIn <= stay.checkOut - 1
    BY <1>2, <2>1
  <2>3. stay.checkIn \in eachNight(stay) /\ stay.checkOut - 1 \in eachNight(stay)
    BY <2>1, <2>2
  <2>4. QED
    BY <1>2, <2>1, <2>2, <2>3
<1>4. nightsHeld(r)' = wanted
  BY <1>1, <1>3, RowFacts DEF nightsHeld, holdsInventory, INVENTORY_HOLDING_STATUSES
<1>5. \A b \in Requests \ {r} : nightsHeld(b)' = nightsHeld(b)
  BY <1>1, RowFacts DEF nightsHeld, holdsInventory
<1>6. nightsHeld(r) = {}
  BY <1>1 DEF nightsHeld, holdsInventory, INVENTORY_HOLDING_STATUSES
<1>7. \A b \in Requests : nightsHeld(b) \cap wanted = {}
  <2> SUFFICES ASSUME NEW b \in Requests, NEW c \in nightsHeld(b), c \in wanted
               PROVE  FALSE
    OBVIOUS
  <2>1. holdsInventory(b) /\ c \in {row[b].room} \X eachNight(row[b].stay)
    BY DEF nightsHeld
  <2>2. row[b].room = room /\ c[2] \in eachNight(row[b].stay) /\ c[2] \in eachNight(stay)
    BY <1>3, <2>1
  <2>3. ~ overlaps(row[b].stay, stay)
    BY <2>1, <2>2 DEF Inserts, isInventoryConflict, overlapsHeldStay
  <2>4. row[b].stay \in StayRange
    <3>1. "NONE" \notin INVENTORY_HOLDING_STATUSES
      BY DEF INVENTORY_HOLDING_STATUSES
    <3>2. QED
      BY <1>1, <2>1, <3>1 DEF RowsExist, BookingRow, holdsInventory
  <2>5. QED
    BY <1>2, <2>2, <2>3, <2>4 DEF overlaps, eachNight, StayRange
<1>8. UNCHANGED {b \in Requests : status[b] \in Ended}
  BY <1>1, RowFacts DEF Ended
<1>9. [b \in Requests |-> nightsHeld(b)']
        = [[b \in Requests |-> nightsHeld(b)] EXCEPT ![r] = wanted]
  BY <1>4, <1>5
<1>10. r \notin {b \in Requests : status[b] \in Ended}
  BY <1>1 DEF Ended
<1>11. [b \in Requests |-> nightsHeld(b)'][r] # {}
  <2>1. <<room, stay.checkIn>> \in wanted
    BY <1>3
  <2>2. QED
    BY <1>4, <2>1
<1>12. QED
  <2> HIDE DEF stay, room, wanted
  <2>1. \E ro \in Rooms, first, last \in UNION {eachNight(d.stay) : d \in Dtos} :
          LET want == {ro} \X (first .. last) IN
          /\ first <= last
          /\ \A other \in Requests : [b \in Requests |-> nightsHeld(b)][other] \cap want = {}
          /\ [b \in Requests |-> nightsHeld(b)']
                = [[b \in Requests |-> nightsHeld(b)] EXCEPT ![r] = want]
    <3>1. \A other \in Requests : [b \in Requests |-> nightsHeld(b)][other] \cap wanted = {}
      BY <1>7
    <3> USE <1>2, <1>3
    <3>2. WITNESS room \in Rooms,
                  stay.checkIn \in UNION {eachNight(d.stay) : d \in Dtos},
                  stay.checkOut - 1 \in UNION {eachNight(d.stay) : d \in Dtos}
    <3>3. QED
      BY <1>3, <1>9, <3>1 DEF wanted
  <2>2. QED
    BY <1>6, <1>8, <1>10, <1>11, <2>1 DEF Calendar!Hold, Ended

(* A change of status is a Release, or does not change the calendar.       *)
LEMMA MoveImplements ==
    ASSUME Inv, NEW b \in Requests, Moves(b)
    PROVE  [Calendar!Next]_(Calendar!vars)
<1>1. /\ TypeOK /\ RowsExist /\ StaysAreValid
      /\ row' = row
      /\ \A a \in Requests \ {b} : status'[a] = status[a]
      /\ status[b] # "NONE" /\ status[b] \in BookingStatus /\ status'[b] \in BookingStatus
      /\ holdsInventory(b)' => holdsInventory(b)
  BY DEF Inv, Moves, TypeOK, holdsInventory
<1>2. \A a \in Requests \ {b} : nightsHeld(a)' = nightsHeld(a)
  BY <1>1 DEF nightsHeld, holdsInventory
<1>3. \A s \in BookingStatus : s \in Ended <=> s \notin INVENTORY_HOLDING_STATUSES
  BY DEF BookingStatus, Ended, INVENTORY_HOLDING_STATUSES
<1>4. CASE holdsInventory(b)' <=> holdsInventory(b)
  <2>1. nightsHeld(b)' = nightsHeld(b)
    BY <1>1, <1>4 DEF nightsHeld
  <2>2. \A a \in Requests : status'[a] \in Ended <=> status[a] \in Ended
    BY <1>1, <1>3, <1>4 DEF holdsInventory
  <2>3. QED
    BY <1>2, <2>1, <2>2 DEF Calendar!vars, Ended
<1>5. CASE holdsInventory(b) /\ ~ holdsInventory(b)'
  <2>1. nightsHeld(b)' = {} /\ nightsHeld(b) # {}
    <3>1. row[b] \in BookingRow /\ row[b].stay.checkIn < row[b].stay.checkOut
      BY <1>1 DEF RowsExist, StaysAreValid
    <3>2. row[b].stay.checkIn \in eachNight(row[b].stay)
      BY <3>1 DEF BookingRow, StayRange, eachNight
    <3>3. <<row[b].room, row[b].stay.checkIn>> \in nightsHeld(b)
      BY <1>5, <3>2 DEF nightsHeld
    <3>4. QED
      BY <1>5, <3>3 DEF nightsHeld
  <2>2. [a \in Requests |-> nightsHeld(a)'] = [[a \in Requests |-> nightsHeld(a)] EXCEPT ![b] = {}]
    BY <1>2, <2>1
  <2>3. {a \in Requests : status'[a] \in Ended} = {a \in Requests : status[a] \in Ended} \cup {b}
    BY <1>1, <1>3, <1>5 DEF holdsInventory
  <2>4. Calendar!Release(b)
    BY <2>1, <2>2, <2>3 DEF Calendar!Release, Ended
  <2>5. QED
    BY <2>4 DEF Calendar!Next
<1>6. QED
  BY <1>1, <1>4, <1>5

(* The reservation desk implements the room calendar.                      *)
THEOREM Refinement == Spec => ImplementsRoomCalendar
<1>1. Inv /\ [Next]_vars => [Calendar!Next]_(Calendar!vars)
  <2> SUFFICES ASSUME Inv, [Next]_vars PROVE [Calendar!Next]_(Calendar!vars)
    OBVIOUS
  <2>1. StepShape
    BY StepLemma
  <2>2. ASSUME NEW r \in Requests, Inserts(r) PROVE Calendar!Next
    BY <2>2, InsertIsHold DEF Calendar!Next
  <2>3. CASE Keeps
    BY <2>3 DEF Keeps, Calendar!vars, nightsHeld, holdsInventory
  <2>4. QED
    BY <2>1, <2>2, <2>3, MoveImplements DEF StepShape
<1>2. QED
  BY <1>1, InitImplements, Invariance, PTL DEF Spec, ImplementsRoomCalendar, Calendar!Spec

-----------------------------------------------------------------------------
(* Sales runs one of its services, so what holds of booking-service and of *)
(* payment-service alone holds of both in Sales.                           *)

(* A behaviour of Sales is one of Bookings.                                *)
THEOREM BookingsInSales == SalesSpec => Spec
<1>1. SalesInit => Init
  BY DEF SalesInit
<1>2. [SalesNext]_salesVars => [Next]_vars
  BY DEF SalesNext, salesVars, booking, paying
<1>3. QED
  BY <1>1, <1>2, PTL DEF SalesSpec, Spec

(* And one of Payments.                                                    *)
THEOREM PaymentsInSales == SalesSpec => PaymentSpec
<1>1. SalesInit => PaymentInit
  BY DEF SalesInit
<1>2. [SalesNext]_salesVars => [PaymentNext]_paymentVars
  BY DEF SalesNext, salesVars, booking, paying
<1>3. QED
  BY <1>1, <1>2, PTL DEF SalesSpec, PaymentSpec
=============================================================================
