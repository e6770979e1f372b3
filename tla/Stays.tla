------------------------------- MODULE Stays -------------------------------
(***************************************************************************)
(* stay-service: StayService.checkIn, checkOut, requestService and         *)
(* postCharge, run by concurrent HTTP requests against one database.       *)
(*                                                                         *)
(* Every await ends a step; a transaction is one step. A stay is           *)
(* identified by the check-in request that inserted it. The guest register *)
(* and the notes are left out; one hotel. assessCheckIn is not called by   *)
(* the service and has no part in its steps.                               *)
(***************************************************************************)
EXTENDS Contracts, Sequences, SequencesExt, FiniteSets

CONSTANTS
    CheckIns,     \* check-in requests, and the stays they may insert
    CheckOuts,    \* check-out requests
    Services,     \* service requests, and the rows they may insert
    Charges,      \* requests that post a charge
    Bookings,     \* what a check-in may name
    RoomCharges,  \* roomChargeMinor of a check-in
    Settlements,  \* settlementMinor of a check-out, zero or more
    Currencies,   \* ISO codes a check-in or a catalogue item may name
    Items,        \* available catalogue items: [price, currency], quantity applied
    Posted,       \* lines postCharge may be asked for: [kind, amount]
    NoRow,
    Queued        \* stays whose handlers run one after the other

VARIABLES
    checkIn,   \* checkIn[s]: where the check-in request is
    checkOut,  \* checkOut[o]: where check-out o is, and what it has read
    service,   \* service[v]: the same for service request v
    charge,    \* charge[g]: the same for posted charge g
    stay,      \* stay[s]: the row of the stays table, or NoRow
    folio,     \* folio[s]: the folio lines of the stay, oldest first
    outbox     \* outbox[s]: the events written about the stay, oldest first

vars == <<checkIn, checkOut, service, charge, stay, folio, outbox>>
table == <<stay, folio, outbox>>

Init ==
    /\ checkIn = [s \in CheckIns |-> [pc |-> "NEW"]]
    /\ checkOut = [o \in CheckOuts |-> [pc |-> "NEW"]]
    /\ service = [v \in Services |-> [pc |-> "NEW"]]
    /\ charge = [g \in Charges |-> [pc |-> "NEW"]]
    /\ stay = [s \in CheckIns |-> NoRow]
    /\ folio = [s \in CheckIns |-> <<>>]
    /\ outbox = [s \in CheckIns |-> <<>>]

-----------------------------------------------------------------------------
(* folio.ts. *)

line(kind, amount, currency) == [kind |-> kind, amount |-> amount, currency |-> currency]

DEBIT_LINE_KINDS == {"ROOM", "SERVICE", "TAX", "ADJUSTMENT"}

(* What a line adds to the balance due. *)
owes(l) ==
    CASE l.kind \in DEBIT_LINE_KINDS -> l.amount
      [] l.kind = "DISCOUNT" -> IF l.amount > 0 THEN - l.amount ELSE l.amount
      [] l.kind = "PAYMENT" -> - l.amount
      [] l.kind = "REFUND" -> l.amount

(* computeFolioBalance throws when a line is not in the folio's currency.  *)
summable(lines, currency) == \A i \in DOMAIN lines : lines[i].currency = currency

computeFolioBalance(lines) == FoldSeq(LAMBDA l, due : due + owes(l), 0, lines)

settled(lines) == computeFolioBalance(lines) <= 0

-----------------------------------------------------------------------------
(* checkIn *)

exists(s) == stay[s] # NoRow

checkedIn(b) == \E s \in CheckIns : exists(s) /\ stay[s].booking = b

(* More guest names than the party allows is refused after the look-up.    *)
LookUpBooking(s) ==
    /\ checkIn[s].pc = "NEW"
    /\ \E b \in Bookings :
          \/ /\ checkedIn(b)
             /\ checkIn' = [checkIn EXCEPT ![s] = [pc |-> "CONFLICT"]]
          \/ /\ ~ checkedIn(b)
             /\ \/ checkIn' = [checkIn EXCEPT ![s] = [pc |-> "OPEN", booking |-> b]]
                \/ checkIn' = [checkIn EXCEPT ![s] = [pc |-> "VALIDATION_FAILED"]]
    /\ UNCHANGED <<checkOut, service, charge, table>>

canOpen(b) == ~ checkedIn(b)

openingLines(amount, currency) == <<line("ROOM", amount, currency)>>

OpenStay(s) ==
    /\ checkIn[s].pc = "OPEN"
    /\ canOpen(checkIn[s].booking)
    /\ \E amount \in RoomCharges, currency \in Currencies :
          /\ stay' = [stay EXCEPT ![s] = [booking |-> checkIn[s].booking,
                                          currency |-> currency, status |-> "IN_HOUSE"]]
          /\ folio' = [folio EXCEPT ![s] = openingLines(amount, currency)]
    /\ outbox' = [outbox EXCEPT ![s] = Append(@, [type |-> "GUEST_CHECKED_IN"])]
    /\ checkIn' = [checkIn EXCEPT ![s] = [pc |-> "CHECKED_IN"]]
    /\ UNCHANGED <<checkOut, service, charge>>

(* P2002 on bookingId: the transaction rolls back. *)
OpenRefused(s) ==
    /\ checkIn[s].pc = "OPEN"
    /\ ~ canOpen(checkIn[s].booking)
    /\ checkIn' = [checkIn EXCEPT ![s] = [pc |-> "INTERNAL_ERROR"]]
    /\ UNCHANGED <<checkOut, service, charge, table>>

-----------------------------------------------------------------------------
(* The other handlers read the stay first; what they read is not locked. *)

busy(s) ==
    \/ \E o \in CheckOuts : checkOut[o].pc = "CLOSE" /\ checkOut[o].stay = s
    \/ \E v \in Services : service[v].pc \in {"PRICE", "REQUEST"} /\ service[v].stay = s
    \/ \E g \in Charges : charge[g].pc = "POST" /\ charge[g].stay = s

mayRead(s) == s \in Queued => ~ busy(s)

mayDepart(lines, allowUnsettled) == settled(lines) \/ allowUnsettled

(* Mutant: a settlement of nothing is put on the folio as well.            *)
settlementLines_always(amount, currency) == <<line("PAYMENT", amount, currency)>>

settlementLines(amount, currency) ==
    IF amount > 0 THEN <<line("PAYMENT", amount, currency)>> ELSE <<>>

(* Mutant: the balance at departure leaves out what is paid there.         *)
finalLines_unpaid(s, amount) == folio[s]

finalLines(s, amount) == folio[s] \o settlementLines(amount, stay[s].currency)

isOpen(s) == stay[s].status = "IN_HOUSE"

ReadForCheckOut(o) ==
    /\ checkOut[o].pc = "NEW"
    /\ \E s \in CheckIns, amount \in Settlements, allowUnsettled \in BOOLEAN :
          /\ mayRead(s)
          /\ LET lines == finalLines(s, amount) IN
             checkOut' = [checkOut EXCEPT ![o] =
               IF ~ exists(s) THEN [pc |-> "NOT_FOUND"]
               ELSE IF ~ isOpen(s) THEN [pc |-> "ALREADY_CLOSED"]
               ELSE IF ~ summable(lines, stay[s].currency) THEN [pc |-> "INTERNAL_ERROR"]
               ELSE IF ~ mayDepart(lines, allowUnsettled) THEN [pc |-> "NOT_SETTLED"]
               ELSE [pc |-> "CLOSE", stay |-> s, amount |-> amount,
                     balance |-> computeFolioBalance(lines)]]
    /\ UNCHANGED <<checkIn, service, charge, table>>

CloseStay(o) ==
    /\ checkOut[o].pc = "CLOSE"
    /\ LET s == checkOut[o].stay IN
          /\ folio' = [folio EXCEPT ![s] =
                          @ \o settlementLines(checkOut[o].amount, stay[s].currency)]
          /\ stay' = [stay EXCEPT ![s].status =
                         IF checkOut[o].balance <= 0 THEN "CHECKED_OUT"
                         ELSE "DEPARTED_UNSETTLED"]
          /\ outbox' = [outbox EXCEPT ![s] =
                           Append(@, [type |-> "GUEST_CHECKED_OUT",
                                      balance |-> checkOut[o].balance])]
    /\ checkOut' = [checkOut EXCEPT ![o] = [pc |-> "CHECKED_OUT"]]
    /\ UNCHANGED <<checkIn, service, charge>>

-----------------------------------------------------------------------------
(* requestService and postCharge *)

ReadForService(v) ==
    /\ service[v].pc = "NEW"
    /\ \E s \in CheckIns :
          /\ mayRead(s)
          /\ service' = [service EXCEPT ![v] =
               CASE ~ exists(s) -> [pc |-> "NOT_FOUND"]
                 [] exists(s) /\ ~ isOpen(s) -> [pc |-> "CONFLICT"]
                 [] OTHER -> [pc |-> "PRICE", stay |-> s]]
    /\ UNCHANGED <<checkIn, checkOut, charge, table>>

(* The catalogue answers with a price, or the item is not available. *)
ReadCatalogue(v) ==
    /\ service[v].pc = "PRICE"
    /\ \/ \E item \in Items :
             service' = [service EXCEPT ![v] =
                 [pc |-> "REQUEST", stay |-> service[v].stay, item |-> item]]
       \/ service' = [service EXCEPT ![v] = [pc |-> "NOT_FOUND"]]
    /\ UNCHANGED <<checkIn, checkOut, charge, table>>

serviceLines(item) == <<line("SERVICE", item.price, item.currency)>>

RecordService(v) ==
    /\ service[v].pc = "REQUEST"
    /\ LET s == service[v].stay IN
          /\ folio' = [folio EXCEPT ![s] = @ \o serviceLines(service[v].item)]
          /\ outbox' = [outbox EXCEPT ![s] = Append(@, [type |-> "SERVICE_REQUESTED"])]
          /\ service' = [service EXCEPT ![v] = [pc |-> "REQUESTED", stay |-> s]]
    /\ UNCHANGED <<checkIn, checkOut, charge, stay>>

ReadForCharge(g) ==
    /\ charge[g].pc = "NEW"
    /\ \E s \in CheckIns :
          /\ mayRead(s)
          /\ charge' = [charge EXCEPT ![g] =
               IF ~ exists(s) THEN [pc |-> "NOT_FOUND"] ELSE [pc |-> "POST", stay |-> s]]
    /\ UNCHANGED <<checkIn, checkOut, service, table>>

posted(lines, l) == Append(lines, l)

PostCharge(g) ==
    /\ charge[g].pc = "POST"
    /\ LET s == charge[g].stay IN
       \E l \in Posted :
          folio' = [folio EXCEPT ![s] = posted(@, line(l.kind, l.amount, stay[s].currency))]
    /\ charge' = [charge EXCEPT ![g] = [pc |-> "POSTED"]]
    /\ UNCHANGED <<checkIn, checkOut, service, stay, outbox>>

-----------------------------------------------------------------------------
CheckIn(s) == LookUpBooking(s) \/ OpenStay(s) \/ OpenRefused(s)
CheckOut(o) == ReadForCheckOut(o) \/ CloseStay(o)
RequestService(v) == ReadForService(v) \/ ReadCatalogue(v) \/ RecordService(v)
Charge(g) == ReadForCharge(g) \/ PostCharge(g)

Next ==
    \/ \E s \in CheckIns : CheckIn(s)
    \/ \E o \in CheckOuts : CheckOut(o)
    \/ \E v \in Services : RequestService(v)
    \/ \E g \in Charges : Charge(g)

Spec == Init /\ [][Next]_vars

-----------------------------------------------------------------------------
(* Properties. *)

StayRow == [booking : Bookings, currency : Currencies,
            status : {"IN_HOUSE", "CHECKED_OUT", "DEPARTED_UNSETTLED"}]

(* These requests write no TAX and no REFUND line. *)
FolioLine ==
    [kind : {"ROOM"}, amount : RoomCharges, currency : Currencies]
    \cup [kind : {"SERVICE", "ADJUSTMENT", "DISCOUNT"}, amount : Int, currency : Currencies]
    \cup [kind : {"PAYMENT"}, amount : Settlements \ {0}, currency : Currencies]

OutboxEvent ==
    [type : {"GUEST_CHECKED_IN", "SERVICE_REQUESTED"}]
    \cup [type : {"GUEST_CHECKED_OUT"}, balance : Int]

(* Every variable stays in the set its columns allow.                      *)
TypeOK ==
    /\ stay \in [CheckIns -> StayRow \cup {NoRow}]
    /\ folio \in [CheckIns -> Seq(FolioLine)]
    /\ outbox \in [CheckIns -> Seq(OutboxEvent)]
    /\ \A o \in CheckOuts : checkOut[o].pc = "CLOSE" => exists(checkOut[o].stay)
    /\ \A v \in Services : service[v].pc \in {"PRICE", "REQUEST"} => exists(service[v].stay)
    /\ \A g \in Charges : charge[g].pc = "POST" => exists(charge[g].stay)

eventsOf(s, type) == {i \in DOMAIN outbox[s] : outbox[s][i].type = type}

(* The event of a departure is there when the stay has left the house, and *)
(* no stay of the same booking has one.                                    *)
departsOnce(s) ==
    /\ Cardinality(eventsOf(s, "GUEST_CHECKED_OUT")) <= 1
    /\ exists(s) =>
          /\ stay[s].status # "IN_HOUSE" <=> eventsOf(s, "GUEST_CHECKED_OUT") # {}
          /\ \A t \in CheckIns : s # t /\ exists(t) => stay[s].booking # stay[t].booking

(* checkOut: 'This stay has already been closed.' computeFolioBalance: "a  *)
(* pure fold over every line ever posted". However many receptions check a *)
(* booking in at once, one departure is announced for it, when it leaves   *)
(* the house; in stays whose handlers do not overlap the balance announced *)
(* and the status left behind are those of the folio at that moment: the   *)
(* event asks for the clean and triggers invoicing.                        *)
AnnouncedBalance ==
    /\ [](\A s \in Queued : departsOnce(s))
    /\ [][\A s \in Queued :
             Cardinality(eventsOf(s, "GUEST_CHECKED_OUT"))
                 < Cardinality(eventsOf(s, "GUEST_CHECKED_OUT")')
             => LET due == computeFolioBalance(folio'[s]) IN
                /\ Last(outbox'[s]).balance = due
                /\ stay'[s].status = IF due <= 0 THEN "CHECKED_OUT" ELSE "DEPARTED_UNSETTLED"]_vars
=============================================================================
