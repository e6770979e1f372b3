----------------------------- MODULE Maintenance -----------------------------
(***************************************************************************)
(* maintenance-service: MaintenanceService.create, assign, start, resolve  *)
(* and close, run by handlers that share one database, with triage and the *)
(* transition table of sla.ts.                                             *)
(*                                                                         *)
(* Every await ends a step; a transaction is one step. A handler serves    *)
(* one request after the other; a request that is refused at its read      *)
(* changes nothing and is no step. Comments, costs and times are left out; *)
(* a category counts by whether it disables a room.                        *)
(***************************************************************************)
EXTENDS Integers, Sequences

CONSTANTS
    Tickets,
    Faults,            \* bodies of create: [disabling, occupied, imminent, reported]
    Engineers,
    Benches,           \* handlers that run at once
    MaxTicketRequests, \* bound on requests that get past their read
    NoTicket, NoOne, Unrated,
    QueuedTickets      \* tickets whose handlers run one after the other

VARIABLES
    ticket,       \* ticket[k]: the row of maintenance_tickets, or NoTicket
    fault,        \* fault[k]: the body that created it, or NoTicket
    ticketOutbox, \* ticketOutbox[k]: the events written about k, oldest first
    bench,        \* bench[h]: the request handler h is at
    ticketRequests

vars == <<ticket, fault, ticketOutbox, bench, ticketRequests>>

Free == [pc |-> "FREE"]

Init ==
    /\ ticket = [k \in Tickets |-> NoTicket]
    /\ fault = [k \in Tickets |-> NoTicket]
    /\ ticketOutbox = [k \in Tickets |-> <<>>]
    /\ bench = [h \in Benches |-> Free]
    /\ ticketRequests = 0

-----------------------------------------------------------------------------
(* sla.ts *)

PRIORITY_RANK == [CRITICAL |-> 0, HIGH |-> 1, MEDIUM |-> 2, LOW |-> 3]

raiseTo(current, floor) ==
    IF PRIORITY_RANK[floor] < PRIORITY_RANK[current] THEN floor ELSE current

triage(f) ==
    LET reported == IF f.reported = Unrated THEN "MEDIUM" ELSE f.reported IN
    CASE f.disabling /\ f.occupied -> "CRITICAL"
      [] f.disabling /\ ~ f.occupied /\ f.imminent -> "HIGH"
      [] f.disabling /\ ~ f.occupied /\ ~ f.imminent -> raiseTo(reported, "HIGH")
      [] ~ f.disabling /\ f.occupied -> raiseTo(reported, "HIGH")
      [] ~ f.disabling /\ ~ f.occupied -> reported

TICKET_TRANSITIONS ==
    [REPORTED    |-> {"ASSIGNED", "CLOSED"},
     ASSIGNED    |-> {"IN_PROGRESS", "REPORTED"},
     IN_PROGRESS |-> {"RESOLVED", "ASSIGNED"},
     RESOLVED    |-> {"CLOSED", "ASSIGNED"},
     CLOSED      |-> {}]

(* Mutant: what is closed may be reopened.                                 *)
canTransitionTicket_reopen(from, to) == to \in TICKET_TRANSITIONS[from] \cup {"ASSIGNED"}

canTransitionTicket(from, to) == to \in TICKET_TRANSITIONS[from]

-----------------------------------------------------------------------------
exists(k) == ticket[k] # NoTicket

at(k) == \E h \in Benches : bench[h] # Free /\ bench[h].ticket = k

mayTouch(k) == k \in QueuedTickets => ~ at(k)

begin(h, request) ==
    /\ bench[h] = Free
    /\ mayTouch(request.ticket)
    /\ ticketRequests < MaxTicketRequests
    /\ ticketRequests' = ticketRequests + 1
    /\ bench' = [bench EXCEPT ![h] = request]

end(h) == bench' = [bench EXCEPT ![h] = Free] /\ UNCHANGED ticketRequests

mayBecome(k, status) == exists(k) /\ canTransitionTicket(ticket[k].status, status)

Create(k) ==
    /\ ~ exists(k)
    /\ \E f \in Faults :
          /\ fault' = [fault EXCEPT ![k] = f]
          /\ ticket' = [ticket EXCEPT ![k] =
                [status |-> "REPORTED", assignee |-> NoOne, priority |-> triage(f),
                 takesRoomOffline |-> f.disabling]]
    /\ ticketOutbox' = [ticketOutbox EXCEPT ![k] = <<[type |-> "MAINTENANCE_TICKET_CREATED"]>>]
    /\ UNCHANGED <<bench, ticketRequests>>

(* Everybody may assign, resolve and close a ticket; only whom it is       *)
(* assigned to may start it.                                               *)
readForAssign(h, k, e) ==
    /\ mayBecome(k, "ASSIGNED")
    /\ begin(h, [pc |-> "ASSIGN", ticket |-> k, engineer |-> e])
    /\ UNCHANGED <<ticket, fault, ticketOutbox>>

ReadForAssign(h) == \E k \in Tickets, e \in Engineers : readForAssign(h, k, e)

Assign(h) ==
    /\ bench[h].pc = "ASSIGN"
    /\ ticket' = [ticket EXCEPT ![bench[h].ticket].status = "ASSIGNED",
                                ![bench[h].ticket].assignee = bench[h].engineer]
    /\ end(h)
    /\ UNCHANGED <<fault, ticketOutbox>>

readForStart(h, k, e) ==
    /\ mayBecome(k, "IN_PROGRESS")
    /\ ticket[k].assignee = e
    /\ begin(h, [pc |-> "START", ticket |-> k])
    /\ UNCHANGED <<ticket, fault, ticketOutbox>>

ReadForStart(h) == \E k \in Tickets, e \in Engineers : readForStart(h, k, e)

Start(h) ==
    /\ bench[h].pc = "START"
    /\ ticket' = [ticket EXCEPT ![bench[h].ticket].status = "IN_PROGRESS"]
    /\ end(h)
    /\ UNCHANGED <<fault, ticketOutbox>>

readForResolve(h, k, returning) ==
    /\ mayBecome(k, "RESOLVED")
    /\ begin(h, [pc |-> "RESOLVE", ticket |-> k, returnRoomToService |-> returning])
    /\ UNCHANGED <<ticket, fault, ticketOutbox>>

ReadForResolve(h) == \E k \in Tickets, returning \in BOOLEAN : readForResolve(h, k, returning)

returned(k, returnRoomToService) == returnRoomToService /\ ticket[k].takesRoomOffline

Resolve(h) ==
    /\ bench[h].pc = "RESOLVE"
    /\ LET k == bench[h].ticket IN
          /\ ticket' = [ticket EXCEPT ![k].status = "RESOLVED"]
          /\ ticketOutbox' = [ticketOutbox EXCEPT ![k] =
                Append(@, [type |-> "MAINTENANCE_TICKET_RESOLVED",
                           roomReturnedToService |-> returned(k, bench[h].returnRoomToService)])]
    /\ end(h)
    /\ UNCHANGED fault

ReadForClose(h) ==
    /\ \E k \in Tickets : mayBecome(k, "CLOSED") /\ begin(h, [pc |-> "CLOSE", ticket |-> k])
    /\ UNCHANGED <<ticket, fault, ticketOutbox>>

Close(h) ==
    /\ bench[h].pc = "CLOSE"
    /\ ticket' = [ticket EXCEPT ![bench[h].ticket].status = "CLOSED"]
    /\ end(h)
    /\ UNCHANGED <<fault, ticketOutbox>>

(* The process dies, or the database refuses the write. *)
Crash(h) ==
    /\ bench[h] # Free
    /\ end(h)
    /\ UNCHANGED <<ticket, fault, ticketOutbox>>

assign(h) == ReadForAssign(h) \/ Assign(h)
start(h) == ReadForStart(h) \/ Start(h)
resolve(h) == ReadForResolve(h) \/ Resolve(h)
close(h) == ReadForClose(h) \/ Close(h)

Next ==
    \/ \E k \in Tickets : Create(k)
    \/ \E h \in Benches : assign(h) \/ start(h) \/ resolve(h) \/ close(h) \/ Crash(h)

Spec == Init /\ [][Next]_vars

-----------------------------------------------------------------------------
(* Properties. *)

TicketRow == [status : DOMAIN TICKET_TRANSITIONS, assignee : Engineers \cup {NoOne},
              priority : DOMAIN PRIORITY_RANK, takesRoomOffline : BOOLEAN]

(* Every variable stays in the set its columns allow, and a repair that is *)
(* under way has an engineer.                                              *)
TypeOK ==
    /\ ticket \in [Tickets -> TicketRow \cup {NoTicket}]
    /\ fault \in [Tickets -> Faults \cup {NoTicket}]
    /\ \A k \in Tickets :
          exists(k) /\ ticket[k].status \in {"ASSIGNED", "IN_PROGRESS"} => ticket[k].assignee # NoOne
    /\ \A h \in Benches : bench[h] # Free => exists(bench[h].ticket)
    /\ ticketRequests \in 0 .. MaxTicketRequests

resolutions(k) == {i \in DOMAIN ticketOutbox[k] : ticketOutbox[k][i].type = "MAINTENANCE_TICKET_RESOLVED"}

(* resolve: "an engineer finishing the job is what makes the room sellable *)
(* again". No event gives a room back that the fault had left on sale, and *)
(* in a ticket whose handlers do not overlap a resolution is announced for *)
(* each repair that was under way, and none after the ticket is closed.    *)
QueuedRepairReturnsRoom ==
    [][/\ \A k \in Tickets : \A i \in resolutions(k)' :
             ticketOutbox'[k][i].roomReturnedToService => fault'[k].disabling
       /\ \A k \in QueuedTickets : exists(k) =>
             LET from == ticket[k].status
                 to   == ticket'[k].status
             IN /\ from # to => to \in TICKET_TRANSITIONS[from]
                /\ resolutions(k)' # resolutions(k) <=> from = "IN_PROGRESS" /\ to = "RESOLVED"]_vars
=============================================================================
