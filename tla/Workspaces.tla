----------------------------- MODULE Workspaces -----------------------------
(***************************************************************************)
(* Browsers at the three front ends, and what their buttons do to the      *)
(* cleaning round and the repairs. A page shows rows as they were when it  *)
(* was drawn; a button acts on the row as it is by then. Handlers of the   *)
(* two services run on when the call that started them has been given up.  *)
(*                                                                         *)
(* Drawing a page is one step once the property is known: no two of its    *)
(* reads are of rows that a button changes. A call that is given up before *)
(* it reached the service does not reach it later. How a session is kept   *)
(* fresh is told in Sessions.                                              *)
(***************************************************************************)
EXTENDS Pages, Integers

CONSTANTS
    Browsers,
    Shifts,   \* [who, visits, rows, published]: the account at each browser (or
              \* NoAccount), the destinations, the rows that may come (TASKS,
              \* TICKETS or NONE) and the properties that are public already
    NoAccount,
    Replies,  \* the outcomes of a call that are tried, of Outcomes
    Hotels,   \* a sequence, in the order of the listing
    NotCached,
    Handlers, \* of the two services
    Tasks, Cleans, Staff, Capacity, ChecklistItems, Required, Reports, MaxTaskRequests, NoTask,
    NoOne, Never, QueuedTasks,
    Tickets, Faults, MaxTicketRequests, NoTicket, Unrated, QueuedTickets

VARIABLES
    shift,
    published, \* the properties the public listing shows by now
    listing,   \* the listing as this deployment has it cached, or NotCached
    session,   \* session[b]: the account signed in at b, or NoAccount
    visit,     \* visit[b]: the page at b, and what is drawn
    click,     \* click[b]: the button pressed at b, and what came of it
    task, ticked, taskOutbox, keeper, taskRequests,
    ticket, fault, ticketOutbox, bench, ticketRequests

HousekeepingService == INSTANCE Housekeeping WITH Keepers <- Handlers
MaintenanceService == INSTANCE Maintenance WITH Benches <- Handlers, Engineers <- Staff

taskVars == <<task, ticked, taskOutbox, keeper, taskRequests>>
ticketVars == <<ticket, fault, ticketOutbox, bench, ticketRequests>>
serviceVars == <<taskVars, ticketVars>>
deploymentVars == <<shift, published, listing>>
vars == <<deploymentVars, session, visit, click, serviceVars>>

NoVisit == [place |-> "NOWHERE"]

NoClick == [pc |-> "NONE"]

Init ==
    /\ shift \in Shifts
    /\ published = shift.published
    /\ listing = NotCached
    /\ session = [b \in Browsers |-> NoAccount]
    /\ visit = [b \in Browsers |-> NoVisit]
    /\ click = [b \in Browsers |-> NoClick]
    /\ HousekeepingService!Init
    /\ MaintenanceService!Init

-----------------------------------------------------------------------------
(* sign-in/actions.ts of each app: who gets a session once the password    *)
(* was right. A guest has no business in the two apps of the staff.        *)

appOf(b) == CHOOSE app \in Apps : \E d \in shift.visits : d.app = app

guestSignIn(account) == TRUE

consoleSignIn(account) == isStaff(account)

staffSignIn(account) == isStaff(account)

admitted(app, account) ==
    CASE app = "SITE" -> guestSignIn(account)
      [] app = "CONSOLE" -> consoleSignIn(account)
      [] app = "STAFF" -> staffSignIn(account)

LoginCodes == {"OK", "INVALID_CREDENTIALS", "UPSTREAM_TIMEOUT"}

SignIn(b) ==
    /\ shift.who[b] # NoAccount
    /\ session[b] = NoAccount
    /\ \E code \in LoginCodes :
          IF code # "OK"
          THEN /\ visit' = [visit EXCEPT ![b] = [place |-> "SIGN_IN", said |-> signInMessage(code)]]
               /\ UNCHANGED session
          ELSE IF admitted(appOf(b), shift.who[b])
          THEN /\ session' = [session EXCEPT ![b] = shift.who[b]]
               /\ visit' = [visit EXCEPT ![b] = NoVisit]
          ELSE /\ visit' = [visit EXCEPT ![b] = [place |-> "SIGN_IN", said |-> "NO_ACCESS"]]
               /\ UNCHANGED session
    /\ UNCHANGED <<deploymentVars, click, serviceVars>>

-----------------------------------------------------------------------------
(* hotel.ts *)


(* listHotels: the cached listing, or a fresh one, or nothing.             *)
listHotels(outcome) ==
    IF listing # NotCached THEN listing
    ELSE IF gatewayFetch(outcome, "OK") = "OK" THEN published ELSE {}

cachedBy(outcome) ==
    IF listing = NotCached /\ gatewayFetch(outcome, "OK") = "OK" THEN published ELSE listing

(* An account of no property gets the first of the listing. Where the      *)
(* listing lacks the account's own, it is asked for by the account.        *)
resolveHotel(account, hotels, outcome) ==
    CASE account.hotel = NoHotelId -> hotels # {}
      [] account.hotel # NoHotelId /\ account.hotel \in hotels -> TRUE
      [] account.hotel # NoHotelId /\ account.hotel \notin hotels ->
            gatewayFetch(outcome, doors(account, "GET", <<"hotels", account.hotel>>)) = "OK"

-----------------------------------------------------------------------------
(* Drawing a page. *)

(* What the reads of d may be answered. *)
answers(account, d) ==
    LET door == [r \in DOMAIN readsOf(d) |-> doors(account, "GET", readsOf(d)[r].path)] IN
    {[r \in DOMAIN door |-> gatewayFetch(outcome[r], door[r])] :
        outcome \in [DOMAIN door -> Replies]}

properties(account, d, hotels) ==
    IF ofProperty(d) THEN {resolveHotel(account, hotels, outcome) : outcome \in Replies} ELSE {TRUE}

(* The rows that have a button, by the status it goes by.                  *)
rowsOf(d) ==
    CASE d = dest("STAFF", "housekeeping") ->
            [t \in {o \in Tasks : task[o] # NoTask} |-> task[t].status]
      [] d = dest("STAFF", "maintenance") ->
            [k \in {o \in Tickets : ticket[o] # NoTicket} |-> ticket[k].status]
      [] OTHER -> <<>>

drawnPage(d, found, codes) ==
    [place |-> "PAGE", dest |-> d, found |-> found,
     drawn |-> IF found THEN draw(d, codes) ELSE <<>>,
     rows |-> IF found /\ \A r \in DOMAIN codes : codes[r] = "OK" THEN rowsOf(d) ELSE <<>>]

Draw(b, d) ==
    \E outcome \in IF listing = NotCached THEN Replies ELSE {"ENVELOPE"} :
       /\ listing' = IF ofProperty(d) THEN cachedBy(outcome) ELSE listing
       /\ \E found \in properties(session[b], d, listHotels(outcome)) :
          \E codes \in IF found THEN answers(session[b], d) ELSE {<<>>} :
             visit' = [visit EXCEPT ![b] = drawnPage(d, found, codes)]

(* middleware.ts and requireSession send who has no session to the         *)
(* sign-in; the site shows its signed-out page instead.                    *)
Open(b) ==
    /\ session[b] # NoAccount
    /\ visit[b] = NoVisit
    /\ \E d \in shift.visits : Draw(b, d)
    /\ UNCHANGED <<shift, published, session, click, serviceVars>>

(* (workspace)/page.tsx: straight into the shift's own queue. *)
Home(b) ==
    /\ session[b] # NoAccount
    /\ visit[b] = NoVisit
    /\ appOf(b) = "STAFF"
    /\ LET w == defaultWorkspace(session[b].roles) IN
       IF w = NoWorkspace
       THEN visit' = [visit EXCEPT ![b] = [place |-> "NO_WORKSPACE"]] /\ UNCHANGED listing
       ELSE Draw(b, dest("STAFF", w.id))
    /\ UNCHANGED <<shift, published, session, click, serviceVars>>

Leave(b) ==
    /\ visit[b] # NoVisit
    /\ click[b].pc \in {"NONE", "REFUSED"}
    /\ visit' = [visit EXCEPT ![b] = NoVisit]
    /\ click' = [click EXCEPT ![b] = NoClick]
    /\ UNCHANGED <<deploymentVars, session, serviceVars>>

-----------------------------------------------------------------------------
(* The next step of a row: one button, not every transition.               *)

(* Mutant: what is assigned may be completed at once.                      *)
TaskAction_skipsStart(status) ==
    CASE status = "PENDING" -> "assign"
      [] status \in {"ASSIGNED", "IN_PROGRESS"} -> "complete"
      [] status \in {"COMPLETED", "VERIFIED"} -> "none"

TaskAction(status) ==
    CASE status = "PENDING" -> "assign"
      [] status = "ASSIGNED" -> "start"
      [] status = "IN_PROGRESS" -> "complete"
      [] status \in {"COMPLETED", "VERIFIED"} -> "none"

TicketAction(status) ==
    CASE status = "REPORTED" -> "assign"
      [] status = "ASSIGNED" -> "start"
      [] status = "IN_PROGRESS" -> "resolve"
      [] status \in {"RESOLVED", "CLOSED"} -> "none"

page(b) == IF visit[b].place = "PAGE" THEN visit[b].dest.page ELSE "none"

row(id) == IF id \in Tasks THEN task[id] ELSE ticket[id]

offered(id, status) == IF id \in Tasks THEN TaskAction(status) ELSE TicketAction(status)

(* actions.ts: what is posted. A repair is resolved with a note of five    *)
(* characters or more, or nothing is sent.                                 *)
actionPath(id, action) ==
    <<IF id \in Tasks THEN "housekeeping" ELSE "maintenance",
      IF id \in Tasks THEN "tasks" ELSE "tickets", "x1", action>>

message(code) ==
    CASE code = "FORBIDDEN" -> "ROLE_DOES_NOT_ALLOW"
      [] code = "NOT_FOUND" -> "NO_LONGER_EXISTS"
      [] code \in unanswered -> "NOTHING_WAS_CHANGED"
      [] OTHER -> "AS_ANSWERED"

openItems(id) ==
    IF id \in Tasks
    THEN HousekeepingService!outstanding(id, [ticked |-> {}, unticked |-> {}]) ELSE {}

(* How the call ended, and the row at that moment. *)
refusal(b, code) ==
    LET id == click[b].id IN
    [pc |-> "REFUSED", id |-> id, action |-> click[b].action, shown |-> click[b].shown,
     code |-> code, said |-> message(code),
     found |-> [status |-> row(id).status, assignee |-> row(id).assignee, open |-> openItems(id)]]

(* row-action.tsx: the button is dead while its call is pending. *)
Click(b) ==
    /\ click[b].pc \in {"NONE", "REFUSED"}
    /\ visit[b].place = "PAGE"
    /\ \E id \in DOMAIN visit[b].rows, brief \in BOOLEAN :
          LET shown == visit[b].rows[id]
              action == offered(id, shown)
          IN /\ action # "none"
             /\ brief => action = "resolve"
             /\ click' = [click EXCEPT ![b] =
                   [pc |-> IF brief THEN "NONE" ELSE "SENT", id |-> id, action |-> action,
                    shown |-> shown]]
    /\ UNCHANGED <<deploymentVars, session, visit, serviceVars>>

-----------------------------------------------------------------------------
(* The service. *)

accepted(h, id, action, account) ==
    IF id \in Tasks
    THEN /\ CASE action = "assign" -> HousekeepingService!readForAssign(h, id, account.id)
              [] action = "start" -> HousekeepingService!readForStart(h, id, account.id)
              [] action = "complete" ->
                    HousekeepingService!readForComplete(h, id, [ticked |-> {}, unticked |-> {}])
         /\ UNCHANGED ticketVars
    ELSE /\ CASE action = "assign" -> MaintenanceService!readForAssign(h, id, account.id)
              [] action = "start" -> MaintenanceService!readForStart(h, id, account.id)
              [] action = "resolve" -> MaintenanceService!readForResolve(h, id, TRUE)
         /\ UNCHANGED taskVars

becomes(action) ==
    [assign |-> "ASSIGNED", start |-> "IN_PROGRESS", complete |-> "COMPLETED",
     resolve |-> "RESOLVED"][action]

transitions(id) ==
    IF id \in Tasks THEN HousekeepingService!TASK_TRANSITIONS[row(id).status]
    ELSE MaintenanceService!TICKET_TRANSITIONS[row(id).status]

(* Why the service refuses, in the order in which it looks, or OK.         *)
reason(id, action, account) ==
    IF action = "start" /\ row(id).assignee # account.id THEN "FORBIDDEN"
    ELSE IF becomes(action) \notin transitions(id) THEN "CONFLICT"
    ELSE IF action = "complete" /\ openItems(id) # {} THEN "CONFLICT"
    ELSE "OK"

(* The call comes through the doors, and a handler reads the row.          *)
Reach(b) ==
    /\ click[b].pc = "SENT"
    /\ LET id == click[b].id
           action == click[b].action
           door == doors(session[b], "POST", actionPath(id, action))
           why == reason(id, action, session[b])
       IN \/ /\ door # "OK"
             /\ click' = [click EXCEPT ![b] = refusal(b, door)]
             /\ UNCHANGED serviceVars
          \/ /\ door = "OK" /\ why # "OK"
             /\ click' = [click EXCEPT ![b] = refusal(b, why)]
             /\ UNCHANGED serviceVars
          \/ /\ door = "OK" /\ why = "OK"
             /\ \E h \in Handlers :
                   /\ accepted(h, id, action, session[b])
                   /\ click' = [click EXCEPT ![b] =
                         [pc |-> "AT_WORK", id |-> id, action |-> action, shown |-> @.shown,
                          handler |-> h]]
    /\ UNCHANGED <<deploymentVars, session, visit>>

workingFor(h) == {b \in Browsers : click[b].pc = "AT_WORK" /\ click[b].handler = h}

(* The handler writes, whoever still waits for it.                         *)
Write(h) ==
    /\ \/ /\ HousekeepingService!Assign(h) \/ HousekeepingService!Start(h)
             \/ HousekeepingService!Complete(h)
          /\ UNCHANGED ticketVars
       \/ /\ MaintenanceService!Assign(h) \/ MaintenanceService!Start(h)
             \/ MaintenanceService!Resolve(h)
          /\ UNCHANGED taskVars
    /\ click' = [b \in Browsers |->
                    IF b \in workingFor(h) THEN [click[b] EXCEPT !.pc = "WRITTEN"] ELSE click[b]]
    /\ UNCHANGED <<deploymentVars, session, visit>>

(* Or it dies before it has written. *)
Die(h) ==
    /\ \/ HousekeepingService!Crash(h) /\ UNCHANGED ticketVars
       \/ MaintenanceService!Crash(h) /\ UNCHANGED taskVars
    /\ click' = [b \in Browsers |->
                    IF b \in workingFor(h)
                    THEN refusal(b, "UPSTREAM_UNAVAILABLE") ELSE click[b]]
    /\ UNCHANGED <<deploymentVars, session, visit>>

(* post: the page is drawn again when the call has succeeded, and only     *)
(* then.                                                                   *)
Reload(b) ==
    /\ click[b].pc = "WRITTEN"
    /\ Draw(b, visit[b].dest)
    /\ click' = [click EXCEPT ![b] = NoClick]
    /\ UNCHANGED <<shift, published, session, serviceVars>>

GiveUp(b) ==
    /\ click[b].pc \in {"SENT", "AT_WORK", "WRITTEN"}
    /\ \E outcome \in Replies \ {"ENVELOPE"} :
          click' = [click EXCEPT ![b] = refusal(b, gatewayFetch(outcome, "OK"))]
    /\ UNCHANGED <<deploymentVars, session, visit, serviceVars>>

-----------------------------------------------------------------------------
(* What else happens: work is raised, finished, inspected and closed by    *)
(* other clients of the API, a property is published, a listing runs out.  *)

Raise ==
    /\ \/ /\ shift.rows = "TASKS"
          /\ \E t \in Tasks : HousekeepingService!CreateTask(t)
          /\ UNCHANGED ticketVars
       \/ /\ shift.rows = "TICKETS"
          /\ \E k \in Tickets : MaintenanceService!Create(k)
          /\ UNCHANGED taskVars
    /\ UNCHANGED <<deploymentVars, session, visit, click>>

Inspect(h) ==
    /\ \/ /\ HousekeepingService!complete(h) \/ HousekeepingService!verify(h)
          /\ UNCHANGED ticketVars
       \/ MaintenanceService!close(h) /\ UNCHANGED taskVars
    /\ UNCHANGED <<deploymentVars, session, visit, click>>

Publish ==
    /\ \E i \in DOMAIN Hotels :
          Hotels[i] \notin published /\ published' = published \cup {Hotels[i]}
    /\ UNCHANGED <<shift, listing, session, visit, click, serviceVars>>

Revalidate ==
    /\ listing # NotCached
    /\ listing' = NotCached
    /\ UNCHANGED <<shift, published, session, visit, click, serviceVars>>

browse(b) == SignIn(b) \/ Open(b) \/ Home(b) \/ Leave(b)
press(b) == Click(b) \/ Reach(b) \/ Reload(b) \/ GiveUp(b)
handle(h) == Write(h) \/ Die(h) \/ Inspect(h)

Next ==
    \/ \E b \in Browsers : browse(b) \/ press(b)
    \/ \E h \in Handlers : handle(h)
    \/ Raise \/ Publish \/ Revalidate

Spec == Init /\ [][Next]_vars

-----------------------------------------------------------------------------
(* Properties. *)

(* roles.ts of the staff app, housekeeping/page.tsx and maintenance/       *)
(* page.tsx: "the next step for this task". A workspace that the app lists *)
(* for an account never tells it that its role may not see it, and a       *)
(* button is refused only because the row has moved on since it was drawn, *)
(* the work is somebody else's, items of a clean under way are open that   *)
(* have to pass, or nobody answered.                                       *)
OfferedIsAccepted ==
    \A b \in Browsers :
        /\ visit[b].place = "PAGE" /\ visit[b].dest.app = "STAFF"
           /\ page(b) \in listed(session[b].roles) =>
              \A r \in DOMAIN visit[b].drawn : visit[b].drawn[r] # "NOT_FOR_ROLE"
        /\ click[b].pc = "REFUSED" =>
              \/ click[b].code \in unanswered \cup {"INTERNAL_ERROR"}
              \/ click[b].found.status # click[b].shown
              \/ click[b].action = "start" /\ click[b].found.assignee # session[b].id
              \/ /\ click[b].action = "complete" /\ click[b].found.open # {}
                 /\ click[b].found.status = "IN_PROGRESS"
=============================================================================
