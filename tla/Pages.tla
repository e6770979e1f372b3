-------------------------------- MODULE Pages --------------------------------
(***************************************************************************)
(* What the pages of the three front ends read, and how they draw what     *)
(* they are answered: the staff app, the operations console and the        *)
(* guest's list of reservations. Columns, figures and wording are left     *)
(* out: a read is drawn as rows, or as the text or gap that stands for it. *)
(***************************************************************************)
EXTENDS Access

-----------------------------------------------------------------------------
(* app-core: gateway.ts. A call is answered with an envelope, or it times  *)
(* out, is refused, or something else answers in the gateway's place.      *)

Outcomes == {"ENVELOPE", "TIMEOUT", "REFUSED", "UNREADABLE"}

gatewayFetch(outcome, code) ==
    CASE outcome = "ENVELOPE" -> code
      [] outcome = "TIMEOUT" -> "UPSTREAM_TIMEOUT"
      [] outcome = "REFUSED" -> "UPSTREAM_UNAVAILABLE"
      [] outcome = "UNREADABLE" -> IF code = "OK" THEN "INTERNAL_ERROR" ELSE "UPSTREAM_UNAVAILABLE"

unanswered == {"UPSTREAM_UNAVAILABLE", "UPSTREAM_TIMEOUT", "CIRCUIT_OPEN"}

(* auth.ts: what the sign-in form says. *)
signInMessage(code) ==
    CASE code = "INVALID_CREDENTIALS" -> "NO_MATCH"
      [] code = "NOT_FOUND" -> "NO_ENDPOINT"
      [] code = "ACCOUNT_LOCKED" -> "LOCKED"
      [] code = "ACCOUNT_DISABLED" -> "DISABLED"
      [] code = "EMAIL_NOT_VERIFIED" -> "NOT_VERIFIED"
      [] code = "RATE_LIMITED" -> "TOO_MANY"
      [] code = "VALIDATION_FAILED" -> "CHECK_DETAILS"
      [] code \in unanswered -> "UNAVAILABLE"
      [] OTHER -> "AS_ANSWERED"

-----------------------------------------------------------------------------
(* Accounts: [id, roles, hotel, fresh], where hotel is the property of a   *)
(* scoped account or NoHotelId, and fresh tells that the access token in   *)
(* the cookie is still good.                                               *)

CONSTANT NoHotelId

isStaff(account) == account.roles \ {"CUSTOMER"} # {}

(* What the gateway and the service answer an account that asks, by the    *)
(* doors of Edge in a row.                                                 *)
doors(account, method, path) ==
    LET r == matchRoute(path)
        e == endpointOf(r.upstream, method, path)
    IN CASE r = NoRoute -> "NOT_FOUND"
         [] r # NoRoute /\ ~ account.fresh /\ ~ r.public -> "TOKEN_EXPIRED"
         [] r # NoRoute /\ (account.fresh \/ r.public) ->
               IF e = NoEndpoint THEN "NOT_FOUND"
               ELSE canActivate(e, IF account.fresh THEN [id |-> "bearer", roles |-> account.roles]
                                   ELSE NoPrincipal)

-----------------------------------------------------------------------------
(* The reads of the staff app and of the console: each has its own data.ts.*)

StaffData ==
    [listBookings |-> <<"bookings">>,
     housekeepingTasks |-> <<"housekeeping", "tasks">>,
     maintenanceTickets |-> <<"maintenance", "tickets">>,
     payments |-> <<"payments">>,
     invoices |-> <<"invoices">>,
     inHouse |-> <<"stays", "in-house">>,
     notifications |-> <<"notifications">>]

ConsoleData ==
    [listBookings |-> <<"bookings">>,
     roomBoard |-> <<"rooms", "board">>,
     roomTypes |-> <<"rooms", "types">>,
     housekeepingTasks |-> <<"housekeeping", "tasks">>,
     maintenanceTickets |-> <<"maintenance", "tickets">>,
     payments |-> <<"payments">>,
     invoices |-> <<"invoices">>,
     auditLog |-> <<"audit">>,
     dailySummary |-> <<"reports", "today">>,
     performance |-> <<"reports", "performance">>,
     trend |-> <<"reports", "trend">>,
     channelMix |-> <<"reports", "channels">>,
     inHouse |-> <<"stays", "in-house">>]

(* A failed read is said in an ALERT, or in one that stands INSTEAD of the *)
(* whole page; or a DASH or nothing (HIDDEN) stands for it; or it is drawn *)
(* as NONE, the way no rows are.                                           *)
read(path, onFailure) == [path |-> path, onFailure |-> onFailure]

-----------------------------------------------------------------------------
(* The pages of the staff app. *)

ReceptionPage ==
    [arrivals |-> read(StaffData.listBookings, "ALERT"),
     departures |-> read(StaffData.listBookings, "NONE"),
     inHouse |-> read(StaffData.inHouse, "ALERT")]

FinancePage ==
    [payments |-> read(StaffData.payments, "ALERT"), invoices |-> read(StaffData.invoices, "ALERT")]

HousekeepingPage == [tasks |-> read(StaffData.housekeepingTasks, "INSTEAD")]

MaintenancePage == [tickets |-> read(StaffData.maintenanceTickets, "INSTEAD")]

NotificationsPage == [notifications |-> read(StaffData.notifications, "INSTEAD")]

StaffPages ==
    [reception |-> ReceptionPage, finance |-> FinancePage, housekeeping |-> HousekeepingPage,
     maintenance |-> MaintenancePage]

(* roles.ts, in the order of the navigation.                               *)
workspace(id, roles) ==
    [id |-> id, roles |-> roles \cup {"MANAGER", "HOTEL_ADMIN", "SUPER_ADMIN"}]

WORKSPACES ==
    <<workspace("reception", {"RECEPTIONIST"}),
      workspace("housekeeping", {"HOUSEKEEPING"}),
      workspace("maintenance", {"MAINTENANCE"}),
      workspace("finance", {"FINANCE"})>>

(* Their places in WORKSPACES.                                             *)
workspacesFor(roles) == {i \in DOMAIN WORKSPACES : WORKSPACES[i].roles \cap roles # {}}

NoWorkspace == workspace("none", {})

defaultWorkspace(roles) ==
    LET some == workspacesFor(roles) IN
    IF some = {} THEN NoWorkspace ELSE WORKSPACES[CHOOSE i \in some : \A j \in some : i <= j]

listed(roles) == {WORKSPACES[i].id : i \in workspacesFor(roles)}

-----------------------------------------------------------------------------
(* The console: its overview, and a page for every section. The sidebar    *)
(* lists all of them to everybody.                                         *)

OverviewPage ==
    [summary |-> read(ConsoleData.dailySummary, "ALERT"),
     performance |-> read(ConsoleData.performance, "DASH"),
     board |-> read(ConsoleData.roomBoard, "HIDDEN"),
     tasks |-> read(ConsoleData.housekeepingTasks, "NONE"),
     tickets |-> read(ConsoleData.maintenanceTickets, "NONE"),
     arrivals |-> read(ConsoleData.listBookings, "DASH")]

ReservationsSection == [bookings |-> read(ConsoleData.listBookings, "INSTEAD")]

ArrivalsSection ==
    [arrivals |-> read(ConsoleData.listBookings, "INSTEAD"),
     departures |-> read(ConsoleData.listBookings, "NONE"),
     inHouse |-> read(ConsoleData.inHouse, "ALERT")]

RoomsSection == [board |-> read(ConsoleData.roomBoard, "INSTEAD")]

HousekeepingSection == [tasks |-> read(ConsoleData.housekeepingTasks, "INSTEAD")]

MaintenanceSection == [tickets |-> read(ConsoleData.maintenanceTickets, "INSTEAD")]

RatesSection == [types |-> read(ConsoleData.roomTypes, "INSTEAD")]

PaymentsSection == [payments |-> read(ConsoleData.payments, "INSTEAD")]

InvoicesSection == [invoices |-> read(ConsoleData.invoices, "INSTEAD")]

AnalyticsSection ==
    [performance |-> read(ConsoleData.performance, "INSTEAD"),
     trend |-> read(ConsoleData.trend, "ALERT"),
     channels |-> read(ConsoleData.channelMix, "ALERT")]

ReportsSection == [summary |-> read(ConsoleData.dailySummary, "INSTEAD")]

AuditSection == [entries |-> read(ConsoleData.auditLog, "INSTEAD")]

(* Settings shows the property itself; promotions and staff have nothing   *)
(* to read and say so.                                                     *)
renderSection ==
    [reservations |-> ReservationsSection, arrivals |-> ArrivalsSection, rooms |-> RoomsSection,
     housekeeping |-> HousekeepingSection, maintenance |-> MaintenanceSection,
     rates |-> RatesSection, payments |-> PaymentsSection, invoices |-> InvoicesSection,
     analytics |-> AnalyticsSection, reports |-> ReportsSection, audit |-> AuditSection,
     settings |-> <<>>, promotions |-> <<>>, staff |-> <<>>]

-----------------------------------------------------------------------------
(* The guest's reservations. *)

BookingsPage == [bookings |-> read(<<"bookings">>, "INSTEAD")]

-----------------------------------------------------------------------------
(* A destination is [app, page]; what it reads, and whether it is about a  *)
(* property.                                                               *)

Apps == {"STAFF", "CONSOLE", "SITE"}

dest(app, page) == [app |-> app, page |-> page]

readsOf(d) ==
    CASE d.app = "STAFF" ->
            IF d.page = "notifications" THEN NotificationsPage ELSE StaffPages[d.page]
      [] d.app = "CONSOLE" -> IF d.page = "overview" THEN OverviewPage ELSE renderSection[d.page]
      [] d.app = "SITE" -> BookingsPage

ofProperty(d) == d.app # "SITE" /\ d # dest("STAFF", "notifications")

(* section-state.tsx, of both apps. *)
SectionFailure(code) ==
    CASE code = "FORBIDDEN" -> "NOT_FOR_ROLE"
      [] code \in unanswered -> "NOT_RESPONDING"
      [] code \notin unanswered \cup {"FORBIDDEN"} -> "NOT_LOADED"

(* bookings/page.tsx of the site. *)
SignedOut(code) == IF ERROR_STATUS(code) = 401 THEN "SIGNED_OUT" ELSE "CANNOT_REACH"

sayFailure(d, code) == IF d.app = "SITE" THEN SignedOut(code) ELSE SectionFailure(code)

(* results[r] is the code with which read r was answered. *)
draw(d, results) ==
    LET reads   == readsOf(d)
        instead == {r \in DOMAIN reads : results[r] # "OK" /\ reads[r].onFailure = "INSTEAD"}
        shown   == IF instead # {} THEN instead ELSE DOMAIN reads
    IN [r \in shown |->
          IF results[r] = "OK" THEN "ROWS"
          ELSE IF reads[r].onFailure \in {"ALERT", "INSTEAD"} THEN sayFailure(d, results[r])
          ELSE reads[r].onFailure]
=============================================================================
