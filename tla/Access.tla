------------------------------- MODULE Access -------------------------------
(***************************************************************************)
(* Who may call what: the roles and their permissions, the gateway's       *)
(* routing table, the endpoints each controller declares, in the order it  *)
(* declares them, and the guard every service puts in front of them.       *)
(*                                                                         *)
(* A path is the sequence of its segments below /api/v1; a segment of a    *)
(* declared path that begins with a colon is a parameter.                  *)
(***************************************************************************)
EXTENDS Naturals, Sequences, FiniteSets

Sequence == INSTANCE SequencesExt

-----------------------------------------------------------------------------
(* contracts: roles.ts *)

Role == {"SUPER_ADMIN", "HOTEL_ADMIN", "MANAGER", "RECEPTIONIST",
         "HOUSEKEEPING", "MAINTENANCE", "FINANCE", "CUSTOMER"}

STAFF_ROLES == Role \ {"CUSTOMER"}

Permission == {"BOOKING_READ", "BOOKING_WRITE", "BOOKING_CANCEL", "ROOM_READ", "ROOM_WRITE",
               "RATE_WRITE", "PAYMENT_READ", "PAYMENT_REFUND", "STAFF_MANAGE",
               "HOUSEKEEPING_MANAGE", "MAINTENANCE_MANAGE", "REPORT_READ", "AUDIT_READ",
               "SYSTEM_ADMIN"}

ROLE_PERMISSIONS ==
    LET bookings == {"BOOKING_READ", "BOOKING_WRITE", "BOOKING_CANCEL"} IN
    [SUPER_ADMIN  |-> Permission,
     HOTEL_ADMIN  |-> Permission \ {"SYSTEM_ADMIN"},
     MANAGER      |-> Permission \ {"SYSTEM_ADMIN", "PAYMENT_REFUND", "STAFF_MANAGE", "AUDIT_READ"},
     RECEPTIONIST |-> bookings \cup {"ROOM_READ", "PAYMENT_READ"},
     HOUSEKEEPING |-> {"ROOM_READ", "HOUSEKEEPING_MANAGE"},
     MAINTENANCE  |-> {"ROOM_READ", "MAINTENANCE_MANAGE"},
     FINANCE      |-> {"BOOKING_READ", "PAYMENT_READ", "PAYMENT_REFUND", "REPORT_READ"},
     CUSTOMER     |-> bookings \cup {"ROOM_READ"}]

hasPermission(roles, permission) == \E role \in roles : permission \in ROLE_PERMISSIONS[role]

-----------------------------------------------------------------------------
(* contracts: errors/codes.ts, the status an answer carries. *)

ERROR_STATUS(code) ==
    CASE code \in {"VALIDATION_FAILED", "INVALID_DATE_RANGE", "STAY_TOO_LONG",
                   "OCCUPANCY_EXCEEDED", "CURRENCY_MISMATCH"} -> 400
      [] code \in {"UNAUTHENTICATED", "INVALID_CREDENTIALS", "TOKEN_EXPIRED", "TOKEN_REVOKED",
                   "REFRESH_TOKEN_REUSED"} -> 401
      [] code = "PAYMENT_DECLINED" -> 402
      [] code \in {"FORBIDDEN", "ACCOUNT_DISABLED", "EMAIL_NOT_VERIFIED"} -> 403
      [] code = "NOT_FOUND" -> 404
      [] code \in {"CONFLICT", "IDEMPOTENCY_KEY_REUSED", "EMAIL_ALREADY_REGISTERED",
                   "ROOM_NOT_AVAILABLE", "ROOM_TYPE_SOLD_OUT", "INVALID_BOOKING_TRANSITION",
                   "BOOKING_NOT_CANCELLABLE", "PAYMENT_ALREADY_CAPTURED",
                   "REFUND_EXCEEDS_CAPTURE"} -> 409
      [] code = "ACCOUNT_LOCKED" -> 423
      [] code = "RATE_LIMITED" -> 429
      [] code = "INTERNAL_ERROR" -> 500
      [] code \in {"UPSTREAM_UNAVAILABLE", "CIRCUIT_OPEN"} -> 503
      [] code = "UPSTREAM_TIMEOUT" -> 504

-----------------------------------------------------------------------------
(* api-gateway: route-table.ts. A limit of 0 stands for no limit. *)

route(prefix, upstream, public, limit) ==
    [prefix |-> prefix, upstream |-> upstream, public |-> public, rateLimitPerMinute |-> limit]

ROUTE_TABLE ==
    {route(<<"auth", "register">>, "auth", TRUE, 10),
     route(<<"auth", "login">>, "auth", TRUE, 30),
     route(<<"auth", "refresh">>, "auth", TRUE, 30),
     route(<<"auth", "password-reset">>, "auth", TRUE, 5),
     route(<<"auth">>, "auth", FALSE, 0),
     route(<<"users">>, "auth", FALSE, 0),
     route(<<"bookings", "availability">>, "booking", TRUE, 120),
     route(<<"bookings">>, "booking", FALSE, 0),
     route(<<"hotels">>, "hotel", TRUE, 0),
     route(<<"hotels", "manage">>, "hotel", FALSE, 0),
     route(<<"rooms">>, "room", TRUE, 0),
     route(<<"rooms", "board">>, "room", FALSE, 0),
     route(<<"rates", "quote">>, "pricing", TRUE, 120),
     route(<<"rates">>, "pricing", FALSE, 0),
     route(<<"payments">>, "payment", FALSE, 0),
     route(<<"stays">>, "stay", FALSE, 0),
     route(<<"invoices">>, "finance", FALSE, 0),
     route(<<"housekeeping">>, "housekeeping", FALSE, 0),
     route(<<"maintenance">>, "maintenance", FALSE, 0),
     route(<<"notifications">>, "notification", FALSE, 0),
     route(<<"reviews">>, "review", TRUE, 0),
     route(<<"reviews", "moderation-queue">>, "review", FALSE, 0),
     route(<<"reports">>, "reporting", FALSE, 0),
     route(<<"audit">>, "audit", FALSE, 0)}

NoRoute == route(<<>>, "none", FALSE, 0)

candidates(path) == {r \in ROUTE_TABLE : Sequence!IsPrefix(r.prefix, path)}

(* Mutant: the shortest prefix wins.                                       *)
matchRoute_shortest(path) ==
    LET matching == candidates(path) IN
    IF matching = {} THEN NoRoute
    ELSE CHOOSE r \in matching : \A o \in matching : Len(r.prefix) <= Len(o.prefix)

(* Whole segments are compared, and the longest prefix wins.               *)
matchRoute(path) ==
    LET matching == candidates(path) IN
    IF matching = {} THEN NoRoute
    ELSE CHOOSE r \in matching : \A o \in matching : Len(o.prefix) <= Len(r.prefix)

-----------------------------------------------------------------------------
(* The endpoints. Declared with no decorator, an endpoint asks for a       *)
(* principal and nothing more.                                             *)

endpoint(method, path, roles, permissions) ==
    [method |-> method, path |-> path, public |-> FALSE, roles |-> roles,
     permissions |-> permissions]

Public(method, path) == [endpoint(method, path, {}, {}) EXCEPT !.public = TRUE]

SignedIn(method, path) == endpoint(method, path, {}, {})

Requires(method, path, permission) == endpoint(method, path, {}, {permission})

ForRoles(method, path, roles) == endpoint(method, path, roles, {})

ForStaff(method, path) == endpoint(method, path, STAFF_ROLES, {"ROOM_READ"})

AuthController ==
    <<Public("POST", <<"auth", "register">>),
      Public("POST", <<"auth", "login">>),
      Public("POST", <<"auth", "refresh">>),
      SignedIn("POST", <<"auth", "logout">>),
      SignedIn("GET", <<"auth", "me">>),
      SignedIn("POST", <<"auth", "change-password">>)>>

BookingController ==
    <<Public("GET", <<"bookings", "availability">>),
      Requires("POST", <<"bookings">>, "BOOKING_WRITE"),
      Requires("GET", <<"bookings">>, "BOOKING_READ"),
      Requires("GET", <<"bookings", ":id">>, "BOOKING_READ"),
      Requires("POST", <<"bookings", ":id", "cancel">>, "BOOKING_CANCEL")>>

HotelController ==
    <<Public("GET", <<"hotels">>),
      ForStaff("GET", <<"hotels", "manage">>),
      Public("GET", <<"hotels", "by-slug", ":slug">>),
      ForStaff("GET", <<"hotels", ":id">>),
      ForRoles("POST", <<"hotels">>, {"SUPER_ADMIN", "HOTEL_ADMIN"}),
      ForRoles("PATCH", <<"hotels", ":id">>, {"SUPER_ADMIN", "HOTEL_ADMIN", "MANAGER"}),
      ForRoles("POST", <<"hotels", ":id", "publish">>, {"SUPER_ADMIN", "HOTEL_ADMIN"}),
      ForRoles("POST", <<"hotels", ":id", "branches">>, {"SUPER_ADMIN", "HOTEL_ADMIN"})>>

RoomController ==
    <<Public("GET", <<"rooms", "types">>),
      Requires("POST", <<"rooms", "types">>, "ROOM_WRITE"),
      ForStaff("GET", <<"rooms">>),
      ForStaff("GET", <<"rooms", "board">>),
      ForStaff("GET", <<"rooms", ":id">>),
      Requires("POST", <<"rooms">>, "ROOM_WRITE"),
      Requires("POST", <<"rooms", "generate-floor">>, "ROOM_WRITE"),
      Requires("POST", <<"rooms", ":id", "status">>, "ROOM_WRITE"),
      Requires("POST", <<"rooms", ":id", "block">>, "ROOM_WRITE"),
      Requires("DELETE", <<"rooms", ":id", "block">>, "ROOM_WRITE")>>

PricingController ==
    <<Public("GET", <<"rates", "quote">>),
      ForStaff("GET", <<"rates", "plans", ":hotelId", ":roomTypeId">>),
      Requires("POST", <<"rates", "plans">>, "RATE_WRITE"),
      Requires("POST", <<"rates", "plans", ":id", "publish">>, "RATE_WRITE"),
      Requires("POST", <<"rates", "promotions">>, "RATE_WRITE"),
      SignedIn("POST", <<"rates", "promotions", "validate">>)>>

PaymentController ==
    <<Requires("POST", <<"payments">>, "BOOKING_WRITE"),
      Requires("GET", <<"payments">>, "PAYMENT_READ"),
      Requires("GET", <<"payments", ":id">>, "PAYMENT_READ"),
      Requires("POST", <<"payments", ":id", "capture">>, "PAYMENT_READ"),
      Requires("POST", <<"payments", ":id", "refund">>, "PAYMENT_REFUND")>>

StayController ==
    <<Requires("POST", <<"stays", "check-in">>, "BOOKING_WRITE"),
      Requires("POST", <<"stays", ":id", "check-out">>, "BOOKING_WRITE"),
      Requires("GET", <<"stays", "in-house">>, "BOOKING_READ"),
      Requires("GET", <<"stays">>, "BOOKING_READ"),
      Requires("GET", <<"stays", ":id", "folio">>, "BOOKING_READ"),
      Requires("POST", <<"stays", ":id", "services">>, "BOOKING_WRITE"),
      Requires("POST", <<"stays", ":id", "charges">>, "BOOKING_WRITE")>>

FinanceController ==
    <<Requires("POST", <<"invoices">>, "PAYMENT_READ"),
      Requires("GET", <<"invoices">>, "PAYMENT_READ"),
      Requires("GET", <<"invoices", "revenue">>, "REPORT_READ"),
      Requires("GET", <<"invoices", ":id">>, "PAYMENT_READ"),
      Requires("POST", <<"invoices", ":id", "payments">>, "PAYMENT_READ"),
      Requires("POST", <<"invoices", ":id", "void">>, "PAYMENT_REFUND")>>

HousekeepingController ==
    <<Requires("GET", <<"housekeeping", "board">>, "HOUSEKEEPING_MANAGE"),
      Requires("GET", <<"housekeeping", "tasks">>, "HOUSEKEEPING_MANAGE"),
      Requires("GET", <<"housekeeping", "my-tasks">>, "HOUSEKEEPING_MANAGE"),
      Requires("POST", <<"housekeeping", "tasks">>, "HOUSEKEEPING_MANAGE"),
      Requires("POST", <<"housekeeping", "tasks", ":id", "assign">>, "HOUSEKEEPING_MANAGE"),
      Requires("POST", <<"housekeeping", "tasks", ":id", "start">>, "HOUSEKEEPING_MANAGE"),
      Requires("POST", <<"housekeeping", "tasks", ":id", "complete">>, "HOUSEKEEPING_MANAGE"),
      Requires("POST", <<"housekeeping", "tasks", ":id", "verify">>, "HOUSEKEEPING_MANAGE"),
      Requires("POST", <<"housekeeping", "shifts">>, "STAFF_MANAGE")>>

MaintenanceController ==
    <<Requires("GET", <<"maintenance", "tickets">>, "MAINTENANCE_MANAGE"),
      Requires("GET", <<"maintenance", "summary">>, "MAINTENANCE_MANAGE"),
      Requires("GET", <<"maintenance", "my-tickets">>, "MAINTENANCE_MANAGE"),
      Requires("GET", <<"maintenance", "tickets", ":id">>, "MAINTENANCE_MANAGE"),
      SignedIn("POST", <<"maintenance", "tickets">>),
      Requires("POST", <<"maintenance", "tickets", ":id", "assign">>, "MAINTENANCE_MANAGE"),
      Requires("POST", <<"maintenance", "tickets", ":id", "start">>, "MAINTENANCE_MANAGE"),
      Requires("POST", <<"maintenance", "tickets", ":id", "resolve">>, "MAINTENANCE_MANAGE"),
      Requires("POST", <<"maintenance", "tickets", ":id", "close">>, "MAINTENANCE_MANAGE"),
      Requires("POST", <<"maintenance", "tickets", ":id", "comments">>, "MAINTENANCE_MANAGE")>>

NotificationController ==
    <<SignedIn("GET", <<"notifications">>),
      SignedIn("POST", <<"notifications", ":id", "read">>),
      SignedIn("POST", <<"notifications", "read-all">>),
      SignedIn("PUT", <<"notifications", "preferences">>),
      Requires("POST", <<"notifications", "send">>, "SYSTEM_ADMIN"),
      ForRoles("PUT", <<"notifications", "templates">>, {"SUPER_ADMIN", "HOTEL_ADMIN"})>>

ReviewController ==
    LET moderators == {"SUPER_ADMIN", "HOTEL_ADMIN", "MANAGER"} IN
    <<Public("GET", <<"reviews">>),
      Public("GET", <<"reviews", "rating">>),
      ForRoles("GET", <<"reviews", "moderation-queue">>, moderators),
      SignedIn("GET", <<"reviews", "mine">>),
      SignedIn("POST", <<"reviews">>),
      ForRoles("POST", <<"reviews", ":id", "moderate">>, moderators),
      ForRoles("POST", <<"reviews", ":id", "response">>, moderators)>>

ReportingController ==
    <<Requires("GET", <<"reports", "today">>, "REPORT_READ"),
      Requires("GET", <<"reports", "performance">>, "REPORT_READ"),
      Requires("GET", <<"reports", "trend">>, "REPORT_READ"),
      Requires("GET", <<"reports", "channels">>, "REPORT_READ"),
      Requires("GET", <<"reports", "housekeeping">>, "REPORT_READ"),
      Requires("POST", <<"reports", "daily">>, "SYSTEM_ADMIN")>>

AuditController ==
    <<Requires("GET", <<"audit">>, "AUDIT_READ"),
      Requires("GET", <<"audit", "history", ":resource", ":resourceId">>, "AUDIT_READ"),
      Requires("GET", <<"audit", "trace", ":correlationId">>, "AUDIT_READ"),
      SignedIn("POST", <<"audit">>)>>

ControllerOf ==
    [auth |-> AuthController, booking |-> BookingController, hotel |-> HotelController,
     room |-> RoomController, pricing |-> PricingController, payment |-> PaymentController,
     stay |-> StayController, finance |-> FinanceController,
     housekeeping |-> HousekeepingController, maintenance |-> MaintenanceController,
     notification |-> NotificationController, review |-> ReviewController,
     reporting |-> ReportingController, audit |-> AuditController]

Parameters == {":id", ":slug", ":hotelId", ":roomTypeId", ":resource", ":resourceId",
               ":correlationId"}

fits(pattern, path) ==
    /\ Len(pattern) = Len(path)
    /\ \A i \in DOMAIN path : pattern[i] \in Parameters \/ pattern[i] = path[i]

NoEndpoint == endpoint("none", <<>>, {}, {})

(* Within a service the first declared endpoint that fits is called.       *)
endpointOf(upstream, method, path) ==
    LET declared == ControllerOf[upstream]
        fitting  == {i \in DOMAIN declared :
                        declared[i].method = method /\ fits(declared[i].path, path)}
    IN IF fitting = {} THEN NoEndpoint
       ELSE declared[CHOOSE i \in fitting : \A j \in fitting : i <= j]

-----------------------------------------------------------------------------
(* AuthorizationGuard. A principal is its [id, roles], or NoPrincipal.     *)

NoPrincipal == [id |-> "nobody", roles |-> {}]

canActivate(e, principal) ==
    CASE e.public -> "OK"
      [] ~ e.public /\ principal = NoPrincipal -> "UNAUTHENTICATED"
      [] ~ e.public /\ principal # NoPrincipal ->
            IF /\ e.roles = {} \/ principal.roles \cap e.roles # {}
               /\ \A p \in e.permissions : hasPermission(principal.roles, p)
            THEN "OK" ELSE "FORBIDDEN"
=============================================================================
