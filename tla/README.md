# StaySphere in TLA+

StaySphere is a hotel reservation and operations platform: fifteen NestJS
services, each over its own PostgreSQL database, an API gateway in front of
them and domain events between them. This directory holds TLA+ specifications
of the services whose correctness is hardest to test, the TLC configurations
that check them on small instances, and theorems that TLAPS checks for every
instance. Every definition is translated from the TypeScript (and the Prisma
schemas and SQL constraints) of the repository; `PROJECT.json` maps each one to
the lines it stands for.

    tlc -workers 2 -config sales.cfg MCSales           # a run
    tlapm BookingsProofs.tla                           # a proof

## 1. The system

### Components, their state and their operations

| Part | State it keeps | Operations that change it |
|---|---|---|
| booking-service | bookings, nightly charges, status history, outbox; projections of rooms and rate plans | create, cancel; transitions driven by payment and stay events |
| payment-service | payments, refunds, outbox | create (charge), capture, refund |
| stay-service | stays, folio lines, service requests, outbox | checkIn, checkOut, requestService, postCharge |
| finance-service | invoices, invoice counters per property and year, outbox | issue, recordPayment, void |
| room-service | room types, rooms, status history, outbox | createRoom, generateFloor, changeStatus, block, unblock |
| housekeeping-service | tasks, checklists, shifts, outbox | createTask, assign, start, complete, verify |
| maintenance-service | tickets, comments, outbox | create, assign, start, resolve, close |
| pricing-service | rate plans, promotions, redemptions, outbox | createRatePlan, publishRatePlan, createPromotion, redeem |
| review-service | reviews, one aggregate per hotel, outbox | create, moderateReview, respond, recomputeRating |
| notification-service | notifications with a dedupe key, templates, preferences | send, markRead, markAllRead, upsertTemplate, updatePreference |
| auth-service | users, sessions, refresh tokens | register, login, refresh, logout, changePassword |
| hotel-service | hotels, branches, slugs | create, update, publish, addBranch |
| audit-service | an append-only trail | record |
| reporting-service | nights, booking and housekeeping facts | recordDaily |
| api-gateway | per process: one circuit breaker per upstream, one counter per client and limited path, the rooms of each socket | proxying a request; connect, subscribe, broadcast |
| packages/service-core | the outbox relay, `consumeOnce` over a claim store, the circuit breaker, retries, the guard of every service | drainOnce, consumeOnce, execute, connectWithRetry |
| packages/app-core | the session cookie of a front end | the middleware's refresh, gatewayFetch |
| packages/contracts | none: statuses, transitions, roles, money, event catalogue | |
| apps/staff | cookies, cached listings | sign-in, choosing a property, the buttons of the cleaning round and the repairs |
| apps/admin, apps/web, packages/ui | cookies | sign-in; pages that read |

### How they interact

A browser talks to a front end, whose server calls the gateway. The gateway
limits and authenticates the call, forwards it to one service with the principal
in its headers, and sheds load with a circuit breaker when that service is down.
The service's own guard decides again. A service answers from its own
database. What changes is written together with an outbox row in one
transaction; the relay moves outbox rows to the broker at least once, and a
consumer passes each event through `consumeOnce`. A booking is confirmed by a
completed payment, checked in and out by the stay, and cancelled by the guest,
who may then be due a refund; a departure asks housekeeping for a clean and
finance for an invoice.

At this commit the relay, `consumeOnce` and the event catalogue exist and are
tested, but no service wires a broker client. The log, its partitions and its
consumer groups are therefore modelled from what the relay and `consumeOnce`
ask of them.

### What is hard

Every handler of every service has one shape: read a row with `findUnique`, check
something, open a transaction, update *by id*. Nothing in the update repeats the
check, and the default isolation level does not either. So the questions are the
same everywhere: what may happen between the read and the update, and does anything
in the database (a unique index, the exclusion constraint on room nights, an atomic
increment) catch it? Added to these are retries with an idempotency key, crashes
between two steps, duplicates and replays of events, results that reach a circuit
breaker in a state they did not start in, tokens that rotate while an answer is
lost, pages that show a row as it was, two tables of routes and roles that have to
agree, and rounding. `PROJECT.json` lists the hazards one by one, at the line where
each bites, with the properties that watch it.

What makes each part correct: a room night belongs to one booking; an
idempotency key yields one booking and one payment; money goes back within what
was taken; rows and the events announcing them agree; a booking has one stay,
which leaves once and with the balance of its folio; invoice numbers have no
gaps; a price charges every night once and stays within its floor and ceiling; a
stored rating is that of the published reviews; what is public was announced; a
session that ended stays ended and one that did not stays usable; a handler runs for
those its controller names and for nobody else; a button works unless the row has
moved on; an event takes effect once; a circuit closes only through a probe, and
does close.

## 2. The modules

A handler is a request record that moves through stages, one stage per `await`.
A transaction is one step, because the database makes it one. A request that is
never scheduled again is a crashed process or a dropped connection, so every
safety property covers those as well. What the client sends is a member of a
small set; wording, logging and identifiers drawn at random are left out unless
a collision matters.

| Module | Code | State and actions |
|---|---|---|
| `Contracts` | packages/contracts | statuses, `canTransition`, inventory-holding statuses, `multiplyMoney` with its rounding |
| `Bookings` | booking-service | `Create(r)`: validate, look up the key, read availability, insert or be refused; `Cancel(c)`: read, update; `ApplyEvent(b)`: the confirmations, check-ins, check-outs and no-shows that other services drive; `Tick`. The exclusion constraint is `overlapsHeldStay`, the unique columns `keyTaken` and `referenceTaken` |
| `RoomCalendar` | (abstract) | which nights belong to which booking: `Hold` takes free nights, `Release` gives all of them back for good |
| `Bills` | booking-service/domain/quote.ts, finance-service/tax.ts | `quoteStay` as a function: nights, seasons, weekends, tiers, the cap and the tax; `computeTax` and `computeInvoiceTotals`; one step over every bounded input |
| `Payments` | payment-service | `create`, `capture`, `refund`, each read, gateway call and commit a step of its own |
| `PaymentLedger` | (abstract) | money taken once per account and returned within what is left |
| `Sales` | booking-service, payment-service | extends `Bookings` and `Payments`; `service` says whose behaviour it is |
| `OutboxRelay` | service-core messaging | `drainOnce`: claim, publish or throw record by record, mark failed, mark published; `Crash`; `Write` |
| `ConsumeOnce` | service-core messaging | `Deliver` (claim), `HandlerReturns`, `HandlerThrows`, `Release`, `Acknowledge`; `Replay`, `Crash`, `Tick` |
| `EventDelivery` | both, composed | the relay and a consumer group sharing the log and nothing else |
| `EventFeed` | (abstract) | every committed event takes effect exactly once |
| `CircuitBreaker` | service-core resilience, gateway | `Start`, `Succeed`, `Fail` of overlapping calls, `Tick`; `Flip` is the upstream going down or coming back |
| `ColdStart` | service-core resilience | `connectWithRetry` over `withRetry`: `Connect`, `Refused`, `Sleep` with full jitter, on a database that is awake, asleep or misconfigured |
| `ServiceCore` | service-core in one process | `CircuitBreaker`, `OutboxRelay` and `ColdStart` side by side; `part` says whose behaviour it is |
| `Stays` | stay-service | `checkIn`, `checkOut`, `requestService`, `postCharge` over the folio and its balance |
| `Rooms` | room-service | `createRoom`, `generateFloor` (rows in one transaction, then an announcement per room), `changeStatus` (row, history and event in one), `block`, `unblock` |
| `Housekeeping` | housekeeping-service | `CreateTask`; `assign` to a named person or to whom `selectAssignee` picks from loads counted one query at a time; `start`, `complete` against the checklist, `verify` with its rework |
| `Maintenance` | maintenance-service | `Create` with `triage`, `assign`, `start`, `resolve`, `close` |
| `Invoices` | finance-service | `issue` with the counter upsert and its rollback, `recordPayment`, `void`; `NewYear` |
| `HotelOperations` | the services behind the front desk | extends `Invoices`; `Stays`, `Rooms`, `Housekeeping`, `Maintenance` and `Bills` beside it, each with its own variables; `department` says whose behaviour it is |
| `Sessions` | auth-service and the front ends' middleware | `register`, `login` with its lockout, `refresh` with rotation and replay detection, `changePassword`, `SignOut`; `Deliver` and `StopListening`: an answer that arrives, or one that is no longer waited for; tokens that expire, locks that end, `Suspend`, `Crash` |
| `Reviews` | review-service | `create`, `moderateReview`, `respond`, and `recomputeRating`, which reads and writes outside their transactions |
| `Notifications` | notification-service | `send`, channel by channel: preferences, template, dedupe key, insert or withhold; `UpsertTemplate`, `UpdatePreference`, `MarkRead`, `MarkAllRead` |
| `Pricing` | pricing-service | `CreateRatePlan`, publication with its outbox row, `CreatePromotion`, redemption; `activeRatePlan`, `applyDemandPricing` and `assessPromotion` as functions of the rows |
| `Hotels` | hotel-service | `create` with its address, `update`, `publish`, `addBranch` against the unique indexes |
| `Reporting` | reporting-service | `RecordDaily`, `Performance` and `ComparePrevious` (two reads), `Trend`, `Today`, `ChannelMix`, `HousekeepingPerformance` over `computeKpis` |
| `Realtime` | api-gateway/realtime | `Connect`, `Verified`, `Disconnect`, `Subscribe`, `Unsubscribe`, `Broadcast`, `Notify` |
| `AuditTrail` | audit-service | `Record` with the field-level diff of `diff.ts` (ignored keys, secrets), `history` of a record read back from its entries |
| `Listings` | the `list` methods of ten services and the inbox | a client that walks page after page, each a `findMany` and a `count` answered apart, while rows are written, moved and removed |
| `GuestServices` | the services around a stay | extends `Sessions`; the eight modules above beside it; `part` says whose behaviour it is |
| `Access` | contracts, api-gateway, all controllers | roles and permissions, the routing table, every endpoint in its declaration order with its guard, `matchRoute`, `endpointOf` |
| `Edge` | api-gateway, one process | a call through the rate limiter, the gateway's guard, the forwarding with its timeout, and the service's guard (`admit`, `proxy`, `serve`); `Tick` |
| `Pages` | apps, app-core | what each page reads, `gatewayFetch` and its outcomes, how a failure is drawn |
| `Workspaces` | apps | browsers that sign in, choose a property, open pages and press buttons, over `Housekeeping` and `Maintenance`; listings that stay cached |
| `FrontEnds` | both sides of the gateway | extends `Edge`; `Workspaces` beside it |

Proofs are in `BookingsProofs`, `PaymentsProofs`, `HotelOperationsProofs`,
`GuestServicesProofs`, `FrontEndsProofs` and `DeliveryProofs`, in `CircuitBreaker`
itself, where they are few, and in `SumTheorems`, which is about the sums of the
community modules.

`MC*` modules give values to constants and nothing else; a module whose constants
are plain sets and numbers is checked as it is. Definitions whose
comment begins with *Mutant* are small slips of a definition next to them; each
property has one that breaks it, recorded in `PROJECT.json`.

### Queued rows and quiet handlers

In most services two handlers of the same row can lose each other's update, and
the code does nothing about it. Claims that only hold without such an overlap are
made where there is none. In `Payments`, `Stays`, `Invoices`, `Rooms`,
`Housekeeping` and `Maintenance` they are made of the rows in the constant
`Queued` (`QueuedRooms`, `QueuedTasks`, `QueuedTickets`), whose handlers run one
after the other; the rows outside it have handlers that overlap freely in the
same run. In `Sessions`, `Reviews`, `Notifications`, `Pricing` and `Hotels`, where
the racing handlers are not of one row, they are made of behaviours in which the
variable `quiet` is true: no two requests overlap (and in `Sessions` every answer
is heard). Properties so qualified begin with *Queued* or *Quiet* or say so. What
holds whatever overlaps is claimed of all rows and behaviours.

### Side by side

Each service has a database of its own, and at this commit none consumes another's
events: a departure does not create a clean, `roomReturnedToService` changes no
room, and nothing redeems a promotion. Interleaving them would multiply states
without adding a behaviour any property could tell apart. `Sales`,
`HotelOperations`, `GuestServices`, `ServiceCore` and `FrontEnds` therefore put them
side by side and let each behaviour be of one of them.

The parts that do interact are composed: the relay and a consumer group over one
log (`EventDelivery`); the middleware of two front ends, the gateway's time limit
and auth-service (`Sessions`); the routing table, the guard of the gateway and the
guard of each service (`Edge`); pages and buttons with the handlers of two services
(`Workspaces` instantiates `Housekeeping` and `Maintenance`).

A handler (`Desks`, `Keepers`, `Benches`, `Moderators`, `Senders`, `Pricers`,
`Registrars`) serves one request after the other. A request refused at its read
changes nothing and is no step; `Crash` is a handler that dies, or whose write the
database refuses, anywhere in a request.

## 3. The runs

| Run | Module | Question | Answer |
|---|---|---|---|
| `sales` | `MCSales` | Bookings: do rows, keys, the audit trail, refunds and events stay consistent, and is no night sold twice, whatever two creates and two cancels interleave with? Payments: one row per key; for queued payments the cap, status and amounts | yes: `Bookings` implements `RoomCalendar`, `Payments` implements `PaymentLedger` |
| `bookings_double_cancel` | `MCSales` | Is a booking cancelled once? | no: two cancels pass the same check |
| `payments_overrefund` | `MCSales` | Do refunds stay within the capture when they overlap? | no |
| `delivery` | `EventDelivery` | Does an event take effect at most once, and in the end at least once? | yes within the claim's lifetime; the end is qualified below |
| `delivery_crash` | `EventDelivery` | Exactly once, also when a worker dies? | no: the claim it leaves behind swallows the redelivery |
| `service_core` | `ServiceCore` | Do late results respect the breaker's state cycle, and does the circuit recover? Is nothing marked as published that was not sent, does every record get out? Is a database that wakes in time reached, and a misconfigured one reported at once? | yes; records get out unless a whole batch of others is parked |
| `hotel_operations` | `MCHotelOperations` | Stays: for queued ones one departure, announced with the balance of its folio. Rooms: do row, history and events tell of the same changes; does a queued room stay with its guest? Housekeeping: is a failed clean of a queued task redone from an empty checklist, by a report that names all that is required as done? Maintenance: does a queued ticket announce each repair once, and no room return that was never off? Finance: numbers gap-free, one invoice per stay, and for queued invoices payments add up and void is final. Quotes, discounts, taxes and totals against the comments and tests | yes; the total of a bill with an inclusive tax is the next run's |
| `inclusive_tax_added` | `MCHotelOperations` | Does a bill whose taxes are inside the prices total the prices? | no: the extracted tax is added |
| `housekeeping_unchecked` | `MCHotelOperations` | Has a finished clean every required item ticked? | no: `assign` reopens a finished one with its old ticks |
| `guest_services` | `MCGuestServices` | Sessions of a quiet user: never taken for a replay, ended for good when ended, locked only when earned. Reviews, plans and hotels: what is public was announced; the stored rating is current when no handlers overlap. Notifications: every channel accounted for; what was refused is withheld and nothing else but for want of an address, for a guest who answered once for a channel or for the template. Prices within floor, ceiling and bill. Reports add up, and a comparison takes the nights just before; a walk over pages meets every row that stayed, a record's history tells what it is, and of the secrets its diff comes to only that they changed. Events are heard by those who may | yes |
| `sessions_exchanged_twice` | `MCGuestServices` | Is a refresh token exchanged once? | no: two overlapping refreshes are both answered |
| `front_ends` | `MCFrontEnds` | For every endpoint, with a token of every role: does a handler run exactly for whom its controller declares it? Are no more calls admitted in a window than the route allows? Is a button refused only for a reason its page could not know? | yes |

### Bounds

* `sales`, bookings: two creates and two cancels over four rooms of three types (one
  under maintenance, one out of service, one without a price), ten bodies: stays
  that overlap, touch at a turnover day, are empty, too long, past, or ask for
  too many guests. Two clock readings put some stay in each band of the
  cancellation policy. Two requests suffice for a race on a night or a key,
  which is between two; the theorems cover any number.
* `sales`, payments: a card payment (captured, held, declined or failing) and a cash
  payment, one capture and three refunds of 1, 2 and 3 against captures of up to
  3, with keys that may repeat. Three refunds are what it takes for two to fit
  and the third not to.
* `service_core`, the relay: three records, batches of two, two attempts, one
  record the broker always refuses, two transient refusals (whose
  acknowledgement may be lost), one crash. Enough for a batch with a failure in
  its middle and for a whole batch to be parked.
* `service_core`, the breaker: four calls, thresholds three and two as ratios of
  the defaults, reset after two ticks. Four calls can be in flight from three
  different states.
* `service_core`, the cold start: the ten attempts and the delays of one to ten
  seconds that the code has, every jitter in whole seconds; a database that is
  awake, or wakes 30, 56 or 70 seconds after the first attempt, or refuses. 56
  seconds is what the delays add up to if each is as long as it may be.
* `delivery`: two records, one relay, two workers, one of each fault: refusal,
  throw, replay, redelivery in flight, worker crash. The clock stays below the
  expiry of a claim: past it a replay is handled again, by design.
* `hotel_operations`, front desk: two check-ins for two bookings, two
  check-outs, one service, one posted line; charges and settlements of 0 and 3,
  one currency.
* `hotel_operations`, rooms: two rooms that may be created one by one or as a
  floor, two handlers, five requests for three statuses. A race needs two
  requests after the creation; five leave room for what follows it.
* `hotel_operations`, housekeeping: two tasks, two people with capacities one and
  two, one required and one optional item, every report over them (done, not done,
  both or neither), two handlers, six requests: assign, start, complete, a failed
  inspection, start and complete again.
* `hotel_operations`, maintenance: two tickets, one engineer, six requests:
  assign, start, resolve, assign again, start, and one beside them.
* `hotel_operations`, finance: three issue requests for two stays at two
  properties over two years, a last sequence number of two (999999 in the code),
  two payments, one void. With two numbers available, three requests exhaust a
  year.
* `hotel_operations`, tax: invoices of up to two lines of six amounts, one a credit,
  four discounts, up to two tax components out of four rates, inclusive or
  exclusive.
* `hotel_operations`, quotes: the rate plan of `quote.spec.ts` with tiers short
  enough for a week, one with overlapping seasons and tiers declared backwards;
  every stay of up to seven nights that begins on ten consecutive days; with no
  promotion (as the service asks), 5 % and 95 % (as its tests do).
* `guest_services`, sessions: one account, two browsers, a lock after two
  failures; two calls that overlap, or four that do not: enough to sign in, let
  the token run out, refresh and sign out. `sessions_exchanged_twice` allows
  three that overlap: a sign-in and two refreshes.
* `guest_services`, reviews, plans and hotels: two or three rows, two handlers;
  three or four requests that overlap and up to five that do not (three of either
  for hotels): publish, hide, publish again and recompute. Two names that shorten to
  the same letters, and addresses that are derived from them or given, numbered or
  not.
* `guest_services`, notifications: a mandatory message over two channels and an
  optional one, both also in the app; two senders, three requests.
* `guest_services`, promotions: a fixed code confined to a hotel, a date and a
  minimum, and 90 % off every suite; three that creation refuses; bookings on,
  before and after the dates, at both hotels, of both room types, in two
  currencies, of two lengths and three amounts.
* `guest_services`, reports: three nights over a Sunday and a change of month,
  each recorded full or nearly empty; three channels with a third of the revenue
  each. Sockets: two, of four principals, each in at most one hotel's rooms.
* `front_ends`, the door: alone, one call for every endpoint of every controller
  (and three that none declares) with a token of every role, one that runs out,
  one that is forged, or none, one service not being deployed; in a crowd, six
  calls of two clients to the two limited paths over three moments, limits scaled
  by five, room for two counters. The guard has no await between its read and its
  write, so one call under way is enough.
* `front_ends`, the pages: every page of the three apps for each staff role, an
  administrator of the platform, an account of two roles, a customer and a session
  gone stale; two accounts with one clean, then with one ticket, two handlers, four
  and three requests.
* `guest_services`, lists: three rows over two keys, pages of one and two, and one
  row written, moved or removed during the walk. The audit trail: three changes
  between eight versions: leaves at the top, in an object and two objects deep,
  ignored ones and secret ones.
* `housekeeping_unchecked`: the constants of every other department are empty; one
  row and one handler; the counterexample needs no overlap, and no report in it
  names an item twice. `inclusive_tax_added` has the bills of `hotel_operations` and
  nothing else.
  `sessions_exchanged_twice` likewise is auth-service alone.

`CHECK_DEADLOCK FALSE` stands where a run ends because its requests are used
up. `service_core` checks for deadlock; a start that is over stutters.

### Fairness

Only the service's own machinery is fair. A scheduler calls `drainOnce` again and
again, so each relay that can step does (`WF` per relay, not per record). The
broker delivers what is due and a handler returns (`WF` per worker). Time passes
in the breaker, calls are made, and each ends because the proxy aborts it after
`UPSTREAM_TIMEOUT_MS`. An attempt to connect is answered or times out, and a timer
that was set expires. No user request is fair, no fault is forced, and no upstream
or database must come back: `ComesBack` says what happens if it does.

`EventuallyHandled` excludes an event whose worker crashed, and runs in which a
message was delivered a second time while its first delivery was still being
handled. The second is a real loss: the duplicate is acknowledged because a
claim exists, then the first handler throws and releases it, and nothing is left
to deliver. `EventuallyPublished` excludes a relay *clogged* by as many parked
records as a batch holds, which claims the same parked records for ever.
`ComesBack` promises a start only where the random delays are long: with full jitter
all ten attempts may fall within a second, and the service exits on a database
that was about to wake.

## 4. The theorems

`tlapm` proves these for every value of the constants that satisfies the named
assumptions. The assumptions only say what kind of value a constant is, what the
validation schemas of a service let through (`FrontDeskAssumption`,
`RoomsAssumption`, `HousekeepingAssumption`, `MaintenanceAssumption` in
`HotelOperations`: amounts are whole, a charge and a settlement not negative, a
floor has a room. What a schema lets through is let in: a report may name an item
both ways, a line of an invoice may be a credit; `PricesAssumption` in
`GuestServices`: amounts, dates and nights are not negative, a promotion is a
percentage or a fixed amount; `RowsAssumption`: a review scores one to five in a
category at least; `EdgeAssumption` in `Edge`: the claims of a token name roles the
platform has and an id, which every token of auth-service does, and the limits are
scaled down by five at most, so that none becomes zero; `OfficeAssumption` in
`FrontEnds`: a call ends in one of the ways `gatewayFetch` tells apart, and no clean
is a repair), and that the queued rows are rows. TLC evaluates each on every run of
its module.

**BookingsProofs** (`TypeCorrect`, `NoDoubleBookingHolds`,
`OneBookingPerKeyHolds`, `Refinement`). `NoDoubleBooking` is not inductive: it
speaks of nights in common, the constraint of intervals that overlap, and the
two agree only for stays with a night in them. The invariant `Inv` adds that a
request past validation has such a stay (`StaysAreValid`), that a row exists
exactly when its request was answered CREATED (`NoRowBeforeInsert`, so an insert
never replaces a row), that rows have all their columns (`RowsExist`), that a
cancellation past its read still finds its booking (`CancelsExist`), and that
held stays of a room are apart as intervals (`HeldStaysApart`). `StepLemma` then
sorts every step into three shapes (one row inserted, one status moved, rows
kept) and each part of `Inv` is proved over the shapes instead of over the ten
actions. A status move never makes a booking hold its room again because the
transition table has no way back (`TransitionFacts`), which holds even of the
unguarded write in `cancel`. `Refinement` maps an insert to `Hold`, a status
that leaves the holding statuses to `Release` and everything else to a stutter.

`EventsMatchRowsHolds` and `RefundWithinPaidHolds` use the same shapes: each says
what the step writes into the outbox and the audit trail beside the row. These, and
those of `PaymentsProofs`, are about one service; `BookingsInSales` and
`PaymentsInSales` carry them over to `Sales`, which the run checks.

**SumTheorems.** What `SumFunction` and `SumFunctionOnSet` give: zero over nothing,
one more term when an element is added, and the same sum when the values summed are
the same. The fold behind them is a recursive function on the subsets of a set.
That one exists is shown by induction in the form of sets, since the library's
induction theorems take operators: among the finite subsets for which a claim fails
one would be smallest, strict inclusion being well founded, and that one cannot be.

**PaymentsProofs** (`OneRowPerKeyHolds`, `StatusMatchesAmountsHolds`,
`LedgerImplemented`). `OneRowPerKey` needs no queue: the unique index decides when
the row is inserted, and `RowsAreWritten` says that a row once written is not
written again by a request of another key. That the money announced as refunded is
the sum of the refund rows holds whatever overlaps (`RefundsAgree`, with
`SumTheorems`). For queued payments `QueuedRows` relates the two amounts and the
status of a row, and `QueuedHandlers` says that what a capture or refund past its
read has seen of the row still stands, and that it is the only one. Then every
commit maps to a step of `PaymentLedger` and every other step to a stutter.

**HotelOperationsProofs.** *Finance* (`TypeCorrect`, `NumberingIsGapFree`,
`StaysInvoicedOnce`, `AnnouncementsInOrder`, `PaymentsAddUpHolds`,
`VoidIsFinalHolds`). `NumbersGapFree` is close to inductive: it relates the
counter to the set of numbers on rows. What it needs besides types is that only an
answered request has a row (`RowsAreIssued`), that payments and voids update a row
they found (`UpdatesFindRow`), and that announcements are kept with the issuing
property (`AnnouncedWithProperty`). `IssueShape` says what a commit changes and
`QuietStep` that every other step keeps numbers, counter and outbox. Of a queued
invoice no two handlers are past their read, so what one has read still stands
(`Money`); the paid amount is then the sum of the payments recorded, term by term.
`AnnouncementsInOrder` is proved only: no run checks it. These six are about
`Invoices`; `FinanceInOperations` carries them over to the system the run checks.

*Rooms* (`SameSequenceOfChangesHolds`, `QueuedGuestKeepsRoomHolds`). The first needs
no queue: each change is written to row, history and outbox in one transaction, so
whatever overlaps, the k-th change announced is the k-th of the history. The proof
counts places: `UpsertKeepsPlaces` and `ChangeAddsPlace` say that an announcement
leaves earlier ones at their places, and `ChangeTold` that a change is the next of
both. `RoomInv` adds that a request that writes to a room found it and that a room
not inserted has no history; without them an insert could reset a status behind its
history. The second needs the queue: `QueueInv` says that the rooms of two handlers
have no queued room in common, so that the status a handler read is the one it
writes over.

*Maintenance* (`QueuedRepairReturnsRoomHolds`). `TicketInv` says that the row repeats
what was reported of the fault and that a resolution announced as giving a room back
is one of a fault that had taken it; it holds whatever overlaps. `QueuedTicketInv`
adds, of queued tickets, that a handler past its read is alone and that the
transition it checked is still open. Every handler's step is one of four shapes (taken
up, written, dropped, created), and a queued one that writes follows the table.

*Housekeeping* (`QueuedCleanIsRedoneHolds`). `TaskInv` types the rows and says that a
task under way is assigned; it needs that `selectAssignee` never comes back empty
where somebody is available. `SomebodyIsSelected` proves that the order it sorts by
(load over capacity, compared crosswise, then id) has a first element for
any staff. `QueuedTaskInv`: what the one handler of a queued task has checked still
stands, its checklist included, and a task not yet done has nothing ticked.

*Stays* (`AnnouncedBalanceHolds`). `DeskInv`: the one check-in that is over has the
row of its stay, no two stays have one booking, and the others found the stay they
will write to. `QueuedAt` is the invariant of a queued stay: nobody else is past a
read while a check-out is (`ClosesAlone`), so the balance the check-out computed is
still that of the folio with the payment it will add (`BalanceStands`), and there is
one departure exactly when the stay has left the house (`Departed`). A check-out is
the only step that adds a departure.

*Types* (`OperationsTypeOKHolds`). The invariants above say most of it. `RequestInv`
adds that a floor being announced consists of rooms that are there, and `BalancesWhole`
that a balance is whole: the fold over the lines of a folio is a recursive function
as in `SumTheorems`, with the terms the other way round. This type invariant also
says that every handler past its read finds the row it will write to.

**GuestServicesProofs.** *Sessions* (`TypeCorrect`, `QuietLockIsEarnedHolds`,
`QuietUserStaysSignedInHolds`, `QuietRevocationIsFinalHolds`). The invariant has two
halves: `Rows`, of every behaviour (an account is registered once; tokens, cookies
and requests refer to rows that exist), and `Quiet`, under `quiet` only: one request
is under way at most, what it has read is still so, a session that has not ended has
one live token at most, and that one is in its browser's cookie or about to be. These
are about `Sessions`; `AuthInGuestServices` carries them over to the system the run
checks.

*Sockets, reviews, plans and hotels* (`ScopedDeliveryHolds`,
`QuietRatingCurrentHolds`, `EntryIsAnnouncedHolds`). `SocketInv`: a socket is in no
room its principal may not subscribe to *now*, so neither a second verification nor a
late join leaves it where it may not be. `ReviewInv`: what is published was announced;
and in a quiet behaviour a stored rating lags behind its reviews only while the one
handler that will recompute it is under way. `PlanInv` and `HotelInv` say the same of
rate plans and properties: live rows were announced. `HotelInv` also needs that an
address derived from a name is free where nothing overlaps; `ResolvedIsFree` proves,
by counting, that among one more number than there are properties one is free.

*Prices* (`PricesBoundedHolds`). The invariant is short (`PriceInv`: a plan that was
created is coherent, a code that was created, or is about to be, keeps the limits of
its type); the work is in the arithmetic, for every amount: `multiplyMoney` rounds
half up and never turns the order of two amounts around, clamping keeps it,
occupancy only raises a rate, and nine tenths of a bill, rounded, are nine tenths of
it and a half at most. That a longer or dearer stay never gets less off also needs
that a code refuses it for no reason it did not refuse the shorter one for: of the
nine reasons only the length and the amount speak of what differs, and both only
fall away.

*Notifications* (`AnsweredIsRecordedHolds`, `QuietOptOutAlwaysHolds`). `NoticeInv`:
every channel a send was to use is still ahead of it, was passed over, or has its row
(`SendsAccount`), also where a duplicate of an earlier attempt had written it; one
row at most decides of a channel and a template, and the rows say all that was asked,
of a whole channel too (`AskedIsStored`); and in a quiet behaviour what
a send has left to queue of an optional message is still wanted (`QuietSends`). The
step between the read of the preferences and the last insert is where an update could
come in: the theorem is about behaviours in which it does not.

*Types* (`GuestTypeHolds`). Beside the rows of the invariants above it says that a
rating lies between one and five and counts some of the stays: the sum of scores lies
between their number and five times that (`SumOfScores`, by the induction of
`SumTheorems`), so the rounded mean cannot leave the bounds. And the number that tells
hotels of one name apart never exceeds the number of hotels: the resolved one is at
most one more than the addresses taken (`ResolvedIsFree`), a request that has chosen
one keeps it while properties are added (`HotelBounds`), and at its insert there is
one property more.

**FrontEndsProofs.** *The gateway* (`NobodyElseEnters`, `LimitsHold`,
`DoorsAreSound`). The routing
table and the endpoints of the fourteen controllers are finite and definite, so what
is needed of them is proved of the tables as they are: the longest prefix is unique,
no prefix crosses into another service, and a public route leads to public endpoints.
`EdgeInv` has two halves. `CallsSound`: a call past the gateway's guard carries the
principal of a token that held when it came, or comes to a public endpoint, and what
it was answered agrees with whether a handler ran. `LogsAgree`: what the guard
remembers of a client at a path is, within the window, what was admitted; an eviction
forgets only what has left the window. `LimitsHold` then is counting: an admission
adds one call to fewer than the limit, and at a refusal the window holds the limit.

*The front ends* (`OfferedIsAcceptedHolds`, `PagesAreSound`), for any accounts, rows
and handlers that overlap. The tables are compared as they are, in three places: who
has a workspace listed has the permission its reads ask for (`ListedMaySee`); each read
and each button finds one endpoint, which asks for one permission (`ReadsAsk`,
`ButtonsAsk`), and the doors in a row let in exactly who has it and a good token
(`DoorIsOpen`); and a button does what the transition table lets become of the status
it was drawn for (`ButtonsFit`). `OfficeInv` carries this along: a row is shown only to
an account that may change it, a pressed button still is the one of the row it showed,
and a refusal is one that the property allows. A handler may write under a button that is
on its way: the proof says nothing of the row when the call arrives, only that a refusal
then finds it changed.

**DeliveryProofs** (`PublishedIsInLogHolds`, `AtMostOnceHolds`). `RelayInv`: what a
relay holds in a batch is unpublished and nobody else's, and what it will mark is
already in the log, whichever faults come between. `ClaimsHold`: an event that took
effect, or is being handled, has a claim. `AtMostOnceHolds` has the hypothesis that a
claim outlives the clock of the behaviour (`Ttl > MaxTime`), which is what the code
promises and no more: `consumeOnce` gives a claim seven days, and a replay after
that is handled again by design.

**CircuitBreaker** (`TypeCorrect`, `CountersHold`, `CycleHolds`): types and
`CountersBelowThreshold` are inductive together, for any thresholds and any number
of calls, and the state cycle follows.

Only model-checked:

* the liveness properties (`EventuallyPublished`, `EventuallyHandled`, `ComesBack`)
  and the refinement of `EventFeed`, whose liveness half needs fairness: fairness and
  ENABLED are beyond the prover;
* `TotalsAreRight` and `ReadsAreTrue`, which are nonlinear arithmetic and induction
  over sequences of nights, lines, pages and changes.

No module with a theorem declares or uses a RECURSIVE operator.

## 5. Where code and documentation disagree

Six runs end in a counterexample that a line of the repository rules out:

1. `cancel` validates the transition on a row it read earlier and updates by id,
   so two cancellations both commit, each with an audit row and an event that
   announces a refund.
2. `refund` caps on a total it read earlier: overlapping refunds exceed the charge.
3. `consumeOnce` claims before it handles: a worker that dies in between loses
   the event, where the documentation says it is handled exactly once.
4. `assign` accepts a finished clean and keeps its ticks, so the second `complete`
   passes with a required item it reports as not done.
5. `refresh` rotates a token it read earlier: two overlapping refreshes of one
   token are both answered with a successor, and neither is taken for a replay.
6. `computeInvoiceTotals` adds to the net price the inclusive tax that `computeTax`
   has just extracted from it (tax.ts:109), which tax.ts:28-30 says overcharges every
   guest. `TotalsAreRight` claims of such a bill the extraction, not the total.

Also met while modelling, without a run of their own.

*Money.* A line of an invoice may be a credit (dto.ts:22 of finance), and a taxable
one may make the total negative, against the title of a test ("so the total never
goes negative"); a discount on credits is capped at a subtotal below zero.
Overlapping invoice payments lose one of the amounts. A charge in a foreign currency
leaves a folio that cannot be summed, and charges may be posted after check-out
(stay.service.ts:321). Two properties whose names shorten to one prefix block each
other's invoice numbers. Nothing re-reads a promotion's limits when it is redeemed
(pricing.service.ts:245), so overlapping bookings may exceed them. The totals on the
finance and payments pages sum the first page of a list, whatever its currencies.

*Lists and the trail.* The maintenance list is "most urgent first", but orders an
enumeration that begins with LOW ascending (maintenance.service.ts, init migration).
Rooms and tasks are paged without an order; a count answered before an insert, with
the page read after it, can end a walk one page early. `unread` of the inbox counts
suppressed messages the list hides. Secrets inside an object that appears or goes as
a whole, or that lies below the depth of the diff, are recorded with that object
(diff.ts), against its comment. `listRoomTypes` speaks of types with a room that can
be sold and returns all active ones.

*Rows and events.* Overlapping check-outs close and announce a stay twice;
overlapping status changes take an occupied room out of service; a new room is
announced after its commit, so possibly after its first status change or never; a
failed inspection of a task nobody has started assigns it to nobody, and nothing
can move it again; `triage` sets a disabling fault before an arrival to HIGH even
when it was reported as CRITICAL (sla.ts:62, against sla.ts:50); the stored rating
of a hotel may be an older recomputation's (review.service.ts:201, against :199
"always exactly right"); a change of mind about a whole channel is looked up under
the empty template and stored under none (notification.service.ts:155), so it adds a
row and the earlier one may be found first; a completion that names a required item
both as done and as not done passes the check and leaves it open
(housekeeping.service.ts:206-211, :238-243); the search for taken addresses
overlooks names of several words (hotel.service.ts:236-246), so a property whose
name is taken is refused instead of numbered; outbox records of one partition key
may overtake each other after a failure; the comment on `resolve` has room-service
consume an event that nothing consumes.

*Front ends and gateway.* After a time-out the staff app says that nothing was
changed (actions.ts:28), though the handler may have committed. A stale "Take"
reopens a finished clean or repair, or takes over one under way (actions.ts:55,
:85). Starting somebody else's task is refused as forbidden to the role. `complete`
sends an empty checklist, so a task with required items cannot be finished from the
app. The layouts' "Every workspace is gated here" has no code behind it: the pages
are gated by what the services answer. FINANCE may not read rooms, so for a hotel
that is not published it is told that no property is attached. During an outage the
overview of the console shows "Nothing outstanding" and the reception no departures.
All users of a front end share its address at the gateway, and with it the limits of
route-table.ts:24-26. The routes `/auth/password-reset` and `/users` have no
endpoint behind them. The room page promises to hold dates for twenty minutes; no
service holds any. A refused insert of a booking is answered as a room conflict
also when the clash was on a key, and `docs/architecture.md` speaks of a unique
index on (roomId, checkIn, checkOut) where the database has an exclusion constraint
on the range (the stronger of the two, and the one modelled).

## 6. What is not modelled

* inserts of one row that nothing else reads in the model (room types, shifts,
  comments);
* check-out fees, due dates and their overdue board;
* `domain/check-in.ts` of stay-service and the event catalogue's payload schemas:
  no handler calls the first, and no property reads the second;
* cryptography (password hashing, token signatures), header handling beyond the
  principal, validation schemas, logging, metrics, health endpoints;
* the component library, figures, columns and wording of the front ends; build,
  container and cluster configuration. What the deployment implies, several
  replicas over one database, is in every module as concurrent handlers. The rate
  limiter and the breaker are per process, as the code has them;
* read-only handlers (`findById`, boards and summaries), but for the paged lists, the
  reads the pages draw and the reports.

## 7. Plan

Done, in this order: `Contracts`, `RoomCalendar`, `Bookings`; `PaymentLedger`,
`Payments`, `Sales`; `OutboxRelay`, `ConsumeOnce`, `EventFeed`, `EventDelivery`;
`CircuitBreaker`, `ServiceCore`; `Stays`; `Invoices`; `Rooms`, `Housekeeping`,
`Maintenance`, `HotelOperations`; the proofs of bookings, invoices and the breaker;
`Sessions`, `Reviews`, `Notifications`, `Pricing`, `Hotels`, `Reporting`,
`Realtime`, `GuestServices`; `Access`, `Edge`, `Pages`, `Workspaces`, `FrontEnds`;
`Bills`, `ColdStart`, `AuditTrail`, `Listings`; `SumTheorems` and the proofs of
payments, sessions, delivery, the services around a stay, the services behind the
front desk, the doors of the gateway and the buttons of the staff app.

Left for a next time: the quotes and totals of `TotalsAreRight` with the lemmas of
`SumTheorems`.
