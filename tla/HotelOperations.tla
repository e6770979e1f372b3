-------------------------- MODULE HotelOperations --------------------------
(***************************************************************************)
(* The services behind the front desk: stays, rooms, housekeeping,         *)
(* maintenance and finance, and the bills of finance- and booking-service. *)
(* Each has a database of its own and none reads another's events, so they *)
(* share no state: a behaviour is one of a single department while the     *)
(* others have not started.                                                *)
(***************************************************************************)
EXTENDS Invoices

CONSTANTS
    CheckIns, CheckOuts, Services, Charges, Bookings, RoomCharges, Settlements, Currencies,
    Items, Posted, QueuedStays,
    Numbers, Plans, Desks, Targets, MaxRoomRequests, NoRoom, QueuedRooms,
    Tasks, Cleans, Staff, Capacity, ChecklistItems, Required, Reports, Keepers,
    MaxTaskRequests, NoTask, NoOne, Never, QueuedTasks,
    Tickets, Faults, Engineers, Benches, MaxTicketRequests, NoTicket, Unrated, QueuedTickets,
    Lines, Discounts, Components, RatePlans, StayRanges, PromotionsOff, NotAsked, NotComputed

VARIABLES
    checkIn, checkOut, service, charge, stay, folio, stayOutbox,
    room, history, roomOutbox, desk, roomRequests,
    task, ticked, taskOutbox, keeper, taskRequests,
    ticket, fault, ticketOutbox, bench, ticketRequests,
    dto, totals, stayRequest, quote,
    department \* whose behaviour this is

StayService == INSTANCE Stays WITH outbox <- stayOutbox, Queued <- QueuedStays
RoomService == INSTANCE Rooms
HousekeepingService == INSTANCE Housekeeping
MaintenanceService == INSTANCE Maintenance
Billing == INSTANCE Bills

(* The schemas of stay-service: amounts are whole, what is charged for the *)
(* room and what is settled is not negative, and postCharge takes no       *)
(* payments.                                                               *)
ASSUME FrontDeskAssumption ==
    /\ NoRow \notin StayService!StayRow
    /\ RoomCharges \subseteq Nat /\ Settlements \subseteq Nat
    /\ Items \subseteq [price : Int, currency : Currencies]
    /\ Posted \subseteq [kind : {"SERVICE", "ADJUSTMENT", "DISCOUNT"}, amount : Int]
    /\ QueuedStays \subseteq CheckIns

(* What stands for a row that is not there is no row, those whose handlers *)
(* queue are rows, and requests are validated by the schemas of their      *)
(* bodies.                                                                 *)
ASSUME RoomsAssumption ==
    /\ NoRoom \notin RoomService!RoomRow
    /\ Targets \subseteq RoomService!RoomStatus
    /\ Plans \subseteq Seq(Numbers) \ {<<>>}
    /\ QueuedRooms \subseteq Numbers
    /\ MaxRoomRequests \in Nat

(* The schemas of housekeeping-service; staff ids are ordered by numbers.  *)
ASSUME HousekeepingAssumption ==
    /\ NoTask \notin HousekeepingService!TaskRow /\ NoOne \notin Staff
    /\ Cleans \subseteq [type : HousekeepingService!TaskType, hours : Int \cup {Never},
                         vip : BOOLEAN]
    /\ Reports \subseteq [ticked : SUBSET ChecklistItems, unticked : SUBSET ChecklistItems]
    /\ IsFiniteSet(Tasks) /\ IsFiniteSet(Staff) /\ Staff \subseteq Int
    /\ Capacity \in [Staff -> Nat]
    /\ QueuedTasks \subseteq Tasks
    /\ MaxTaskRequests \in Nat

ASSUME MaintenanceAssumption ==
    /\ NoTicket \notin MaintenanceService!TicketRow /\ NoOne \notin Engineers
    /\ Faults \subseteq [disabling : BOOLEAN, occupied : BOOLEAN, imminent : BOOLEAN,
                         reported : DOMAIN MaintenanceService!PRIORITY_RANK \cup {Unrated}]
    /\ QueuedTickets \subseteq Tickets
    /\ MaxTicketRequests \in Nat

stayVars == <<checkIn, checkOut, service, charge, stay, folio, stayOutbox>>
roomVars == <<room, history, roomOutbox, desk, roomRequests>>
taskVars == <<task, ticked, taskOutbox, keeper, taskRequests>>
ticketVars == <<ticket, fault, ticketOutbox, bench, ticketRequests>>
billVars == <<dto, totals, stayRequest, quote>>
operationsVars ==
    <<vars, stayVars, roomVars, taskVars, ticketVars, billVars, department>>

OperationsInit ==
    /\ department \in {"FINANCE", "FRONT_DESK", "ROOMS", "HOUSEKEEPING", "MAINTENANCE",
                      "BILLING"}
    /\ Init
    /\ department # "FINANCE" => \A y \in Years : year <= y
    /\ StayService!Init
    /\ RoomService!Init
    /\ HousekeepingService!Init
    /\ MaintenanceService!Init
    /\ IF department = "BILLING" THEN Billing!Init
       ELSE /\ dto = NotAsked /\ totals = NotComputed
            /\ stayRequest = NotAsked /\ quote = NotComputed

finance ==
    /\ department = "FINANCE"
    /\ Next
    /\ UNCHANGED <<stayVars, roomVars, taskVars, ticketVars, billVars, department>>

frontDesk ==
    /\ department = "FRONT_DESK"
    /\ StayService!Next
    /\ UNCHANGED <<vars, roomVars, taskVars, ticketVars, billVars, department>>

rooms ==
    /\ department = "ROOMS"
    /\ RoomService!Next
    /\ UNCHANGED <<vars, stayVars, taskVars, ticketVars, billVars, department>>

housekeeping ==
    /\ department = "HOUSEKEEPING"
    /\ HousekeepingService!Next
    /\ UNCHANGED <<vars, stayVars, roomVars, ticketVars, billVars, department>>

maintenance ==
    /\ department = "MAINTENANCE"
    /\ MaintenanceService!Next
    /\ UNCHANGED <<vars, stayVars, roomVars, taskVars, billVars, department>>

billing ==
    /\ department = "BILLING"
    /\ Billing!Next
    /\ UNCHANGED <<vars, stayVars, roomVars, taskVars, ticketVars, department>>

OperationsNext ==
    finance \/ frontDesk \/ rooms \/ housekeeping \/ maintenance \/ billing

OperationsSpec == OperationsInit /\ [][OperationsNext]_operationsVars

-----------------------------------------------------------------------------
(* The properties of the departments, each argued in its module.           *)

(* Every variable of every department stays in the set its columns allow.  *)
OperationsTypeOK ==
    /\ TypeOK
    /\ StayService!TypeOK
    /\ RoomService!TypeOK
    /\ HousekeepingService!TypeOK
    /\ MaintenanceService!TypeOK

(* Stays: one departure of a booking, announced with its balance.          *)
AnnouncedBalance == StayService!AnnouncedBalance

(* Rooms: history, row and events tell of the same changes.                *)
SameSequenceOfChanges == RoomService!SameSequenceOfChanges

(* Rooms: no queued room is taken from under its guest.                    *)
QueuedGuestKeepsRoom == RoomService!QueuedGuestKeepsRoom

(* Housekeeping: a failed clean of a queued task is redone from nothing,   *)
(* and finished by a report that names all that is required as done.       *)
QueuedCleanIsRedone == HousekeepingService!QueuedCleanIsRedone

(* Housekeeping: what stands as finished has been checked.                 *)
FinishedIsChecked == HousekeepingService!FinishedIsChecked

(* Maintenance: rooms come back only from faults that had disabled them,   *)
(* and a queued ticket announces each repair once.                         *)
QueuedRepairReturnsRoom == MaintenanceService!QueuedRepairReturnsRoom

(* Invoices: a discount never takes the price below zero, tax is computed  *)
(* on the net price, an inclusive one by extraction, and exclusive ones    *)
(* are added once and not compounded. Quotes: each night is charged once,  *)
(* and discounts neither depend on their order nor exceed nine tenths.     *)
TotalsAreRight == Billing!TotalsAreRight /\ Billing!QuoteIsRight

(* Invoices: what was extracted as inclusive tax is not added to the price *)
(* it is inside of.                                                        *)
InclusiveNotAddedAgain == Billing!InclusiveNotAddedAgain
=============================================================================
