------------------------------ MODULE FrontEnds ------------------------------
(***************************************************************************)
(* The two sides of the gateway's door: calls that go through it, and the  *)
(* pages of the front ends, which take what the doors answer from the same *)
(* tables. They share no state, so a behaviour is one of either.           *)
(***************************************************************************)
EXTENDS Edge

CONSTANTS
    NoHotelId, Browsers, Shifts, NoAccount, Replies, Hotels, NotCached, Handlers,
    Tasks, Cleans, Staff, Capacity, ChecklistItems, Required, Reports, MaxTaskRequests, NoTask,
    NoOne, Never, QueuedTasks,
    Tickets, Faults, MaxTicketRequests, NoTicket, Unrated, QueuedTickets

VARIABLES
    shift, published, listing, session, visit, click,
    task, ticked, taskOutbox, keeper, taskRequests,
    ticket, fault, ticketOutbox, bench, ticketRequests,
    part \* whose behaviour this is

FrontOffice == INSTANCE Workspaces

(* Calls end in the ways that gatewayFetch tells apart, and no task is a  *)
(* ticket.                                                                 *)
ASSUME OfficeAssumption == Replies \subseteq FrontOffice!Outcomes /\ Tasks \cap Tickets = {}

edgeVars == <<now, hits, call, entered, made, crowd>>
officeVars ==
    <<shift, published, listing, session, visit, click,
      task, ticked, taskOutbox, keeper, taskRequests,
      ticket, fault, ticketOutbox, bench, ticketRequests>>
frontVars == <<edgeVars, officeVars, part>>

FrontInit ==
    /\ part \in {"EDGE", "OFFICE"}
    /\ Init
    /\ part = "OFFICE" => ~ crowd
    /\ FrontOffice!Init
    /\ part = "EDGE" => shift = CHOOSE s \in Shifts : TRUE

edge == part = "EDGE" /\ Next /\ UNCHANGED officeVars

office == part = "OFFICE" /\ FrontOffice!Next /\ UNCHANGED edgeVars

FrontNext == (edge \/ office) /\ UNCHANGED part

FrontSpec == FrontInit /\ [][FrontNext]_frontVars

-----------------------------------------------------------------------------
(* The front ends: what a page offers its account is what the services     *)
(* accept of it.                                                           *)
OfferedIsAccepted == FrontOffice!OfferedIsAccepted
=============================================================================
