-------------------------- MODULE FrontEndsProofs --------------------------
(***************************************************************************)
(* Proofs about the gateway's door and the pages in front of it, for any   *)
(* clients, tokens, paths, limits and accounts.                            *)
(***************************************************************************)
EXTENDS FrontEnds, SequenceTheorems, FiniteSetTheorems, WellFoundedInduction, TLAPS

-----------------------------------------------------------------------------
(* The routing table. A route is found by the longest prefix, and who is   *)
(* asked is told by the first segment alone.                               *)

(* A path has a length, and segments up to it.                             *)
LEMMA PathIsSeq ==
    ASSUME NEW path, IsPath(path)
    PROVE  Len(path) \in Nat /\ DOMAIN path = 1 .. Len(path)
BY LenProperties DEF IsPath

(* A prefix fits if it is the first segments of the path.                  *)
LEMMA PrefixFits ==
    ASSUME NEW path, Len(path) \in Nat, NEW prefix, Len(prefix) \in Nat
    PROVE  Sequence!IsPrefix(prefix, path) <=>
              Len(prefix) <= Len(path) /\ \A i \in 1 .. Len(prefix) : prefix[i] = path[i]
<1> SUFFICES ASSUME Len(prefix) <= Len(path)
             PROVE  SubSeq(prefix, 1, Len(prefix)) = SubSeq(path, 1, Len(prefix)) <=>
                       \A i \in 1 .. Len(prefix) : prefix[i] = path[i]
  BY DEF Sequence!IsPrefix
<1> DEFINE n == Len(prefix)
           S == {prefix[i] : i \in 1 .. n} \cup {path[i] : i \in 1 .. n}
<1>1. \A i \in 1 .. n : prefix[i] \in S /\ path[i] \in S
  OBVIOUS
<1> HIDE DEF S
<1>2. /\ SubSeq(prefix, 1, n) \in Seq(S) /\ Len(SubSeq(prefix, 1, n)) = n
      /\ \A i \in 1 .. n : SubSeq(prefix, 1, n)[i] = prefix[i]
  BY <1>1, SubSeqProperties
<1>3. /\ SubSeq(path, 1, n) \in Seq(S) /\ Len(SubSeq(path, 1, n)) = n
      /\ \A i \in 1 .. n : SubSeq(path, 1, n)[i] = path[i]
  BY <1>1, SubSeqProperties
<1>4. QED
  BY <1>2, <1>3, SeqEqual

ServiceOf ==
    [auth |-> "auth", users |-> "auth", bookings |-> "booking", hotels |-> "hotel",
     rooms |-> "room", rates |-> "pricing", payments |-> "payment", stays |-> "stay",
     invoices |-> "finance", housekeeping |-> "housekeeping", maintenance |-> "maintenance",
     notifications |-> "notification", reviews |-> "review", reports |-> "reporting",
     audit |-> "audit"]

(* What stands in the table.                                               *)
LEMMA Routes ==
    /\ \A r \in ROUTE_TABLE :
          /\ Len(r.prefix) \in {1, 2}
          /\ r.prefix[1] \in DOMAIN ServiceOf
          /\ r.upstream = ServiceOf[r.prefix[1]]
          /\ r.upstream # "none"
          /\ r.rateLimitPerMinute \in Nat
          /\ r.rateLimitPerMinute = 0 \/ r.rateLimitPerMinute >= 5
    /\ \A s \in DOMAIN ServiceOf : \E r \in ROUTE_TABLE : r.prefix = <<s>>
BY DEF ROUTE_TABLE, route, ServiceOf

(* The route of a path: none where no prefix fits, or one that does and is *)
(* no shorter than any other that does.                                    *)
LEMMA MatchRoute ==
    ASSUME NEW path, IsPath(path)
    PROVE  IF candidates(path) = {} THEN matchRoute(path) = NoRoute
           ELSE /\ matchRoute(path) \in candidates(path)
                /\ \A o \in candidates(path) : Len(o.prefix) <= Len(matchRoute(path).prefix)
<1> DEFINE longest(r) == \A o \in candidates(path) : Len(o.prefix) <= Len(r.prefix)
<1>1. \A o \in candidates(path) : Len(o.prefix) \in {1, 2}
  BY Routes DEF candidates
<1>2. ASSUME candidates(path) # {}
      PROVE  \E r \in candidates(path) : longest(r)
  <2>1. CASE \E r \in candidates(path) : Len(r.prefix) = 2
    BY <1>1, <2>1
  <2>2. CASE \A r \in candidates(path) : Len(r.prefix) = 1
    BY <1>2, <2>2
  <2>3. QED
    BY <1>1, <2>1, <2>2
<1>3. QED
  BY <1>2 DEF matchRoute

(* A path has a route if and only if its first segment is that of one, and *)
(* the route is of the service of that segment.                            *)
LEMMA RouteOfService ==
    ASSUME NEW path, IsPath(path)
    PROVE  /\ Len(path) >= 1 /\ path[1] \in DOMAIN ServiceOf =>
                 /\ matchRoute(path) \in ROUTE_TABLE
                 /\ matchRoute(path) # NoRoute
                 /\ matchRoute(path).upstream = ServiceOf[path[1]]
           /\ matchRoute(path) # NoRoute =>
                 /\ Len(path) >= 1 /\ path[1] \in DOMAIN ServiceOf
                 /\ matchRoute(path) \in candidates(path)
<1>1. ASSUME NEW r \in candidates(path)
      PROVE  /\ r \in ROUTE_TABLE /\ r # NoRoute
             /\ Len(path) >= 1 /\ path[1] = r.prefix[1] /\ path[1] \in DOMAIN ServiceOf
             /\ r.upstream = ServiceOf[path[1]]
  <2>1. r \in ROUTE_TABLE /\ Len(path) \in Nat /\ Len(r.prefix) \in {1, 2}
    BY Routes, PathIsSeq DEF candidates
  <2>2. Len(r.prefix) <= Len(path) /\ \A i \in 1 .. Len(r.prefix) : r.prefix[i] = path[i]
    BY <2>1, PrefixFits DEF candidates
  <2>3. r # NoRoute
    BY <2>1, Routes DEF NoRoute, route
  <2>4. QED
    BY <2>1, <2>2, <2>3, Routes
<1>2. ASSUME Len(path) >= 1, path[1] \in DOMAIN ServiceOf
      PROVE  candidates(path) # {}
  <2>1. PICK r \in ROUTE_TABLE : r.prefix = <<path[1]>>
    BY <1>2, Routes
  <2>2. Len(r.prefix) = 1 /\ r.prefix[1] = path[1] /\ Len(path) \in Nat
    BY <2>1, PathIsSeq
  <2>3. Sequence!IsPrefix(r.prefix, path)
    <3>1. Len(r.prefix) \in Nat /\ Len(r.prefix) <= Len(path)
      BY <1>2, <2>2
    <3>2. Sequence!IsPrefix(r.prefix, path) <=>
             Len(r.prefix) <= Len(path) /\ \A i \in 1 .. Len(r.prefix) : r.prefix[i] = path[i]
      BY <2>2, <3>1, PrefixFits
    <3>3. \A i \in 1 .. Len(r.prefix) : r.prefix[i] = path[i]
      BY <2>2
    <3>4. QED
      BY <3>1, <3>2, <3>3
  <2>4. QED
    BY <2>3 DEF candidates
<1>3. QED
  BY <1>1, <1>2, MatchRoute
-----------------------------------------------------------------------------
(* The controllers. What every declared endpoint has: a first segment that *)
(* is no parameter and leads to its own service, and roles of the table.   *)
Declares(e, place) ==
    /\ e.method # "none"
    /\ Len(e.path) \in {1, 2, 3, 4}
    /\ e.path[1] = place
    /\ e.roles \subseteq Role
    /\ e.public = TRUE \/ e.public = FALSE

(* That is so in every controller.                                         *)
LEMMA Controllers ==
    /\ \A i \in DOMAIN AuthController : Declares(AuthController[i], "auth")
    /\ \A i \in DOMAIN BookingController : Declares(BookingController[i], "bookings")
    /\ \A i \in DOMAIN HotelController : Declares(HotelController[i], "hotels")
    /\ \A i \in DOMAIN RoomController : Declares(RoomController[i], "rooms")
    /\ \A i \in DOMAIN PricingController : Declares(PricingController[i], "rates")
    /\ \A i \in DOMAIN PaymentController : Declares(PaymentController[i], "payments")
    /\ \A i \in DOMAIN StayController : Declares(StayController[i], "stays")
    /\ \A i \in DOMAIN FinanceController : Declares(FinanceController[i], "invoices")
    /\ \A i \in DOMAIN HousekeepingController : Declares(HousekeepingController[i], "housekeeping")
    /\ \A i \in DOMAIN MaintenanceController : Declares(MaintenanceController[i], "maintenance")
    /\ \A i \in DOMAIN NotificationController : Declares(NotificationController[i], "notifications")
    /\ \A i \in DOMAIN ReviewController : Declares(ReviewController[i], "reviews")
    /\ \A i \in DOMAIN ReportingController : Declares(ReportingController[i], "reports")
    /\ \A i \in DOMAIN AuditController : Declares(AuditController[i], "audit")
<1>1. ASSUME NEW i \in DOMAIN AuthController PROVE Declares(AuthController[i], "auth")
  <2> DEFINE e == AuthController[i]
  <2>1. e.method # "none"
    BY DEF AuthController, endpoint, Public, SignedIn
  <2>2. Len(e.path) \in {1, 2, 3, 4}
    BY DEF AuthController, endpoint, Public, SignedIn
  <2>3. e.path[1] = "auth"
    BY DEF AuthController, endpoint, Public, SignedIn
  <2>4. e.roles \subseteq Role
    BY DEF AuthController, endpoint, Public, SignedIn, Role
  <2>5. e.public = TRUE \/ e.public = FALSE
    BY DEF AuthController, endpoint, Public, SignedIn
  <2>6. QED
    BY <2>1, <2>2, <2>3, <2>4, <2>5 DEF Declares
<1>2. ASSUME NEW i \in DOMAIN BookingController PROVE Declares(BookingController[i], "bookings")
  <2> DEFINE e == BookingController[i]
  <2>1. e.method # "none"
    BY DEF BookingController, endpoint, Public, Requires
  <2>2. Len(e.path) \in {1, 2, 3, 4}
    BY DEF BookingController, endpoint, Public, Requires
  <2>3. e.path[1] = "bookings"
    BY DEF BookingController, endpoint, Public, Requires
  <2>4. e.roles \subseteq Role
    BY DEF BookingController, endpoint, Public, Requires, Role
  <2>5. e.public = TRUE \/ e.public = FALSE
    BY DEF BookingController, endpoint, Public, Requires
  <2>6. QED
    BY <2>1, <2>2, <2>3, <2>4, <2>5 DEF Declares
<1>3. ASSUME NEW i \in DOMAIN HotelController PROVE Declares(HotelController[i], "hotels")
  <2> DEFINE e == HotelController[i]
  <2>1. e.method # "none"
    BY DEF HotelController, endpoint, Public, ForRoles, ForStaff
  <2>2. Len(e.path) \in {1, 2, 3, 4}
    BY DEF HotelController, endpoint, Public, ForRoles, ForStaff
  <2>3. e.path[1] = "hotels"
    BY DEF HotelController, endpoint, Public, ForRoles, ForStaff
  <2>4. e.roles \subseteq Role
    BY DEF HotelController, endpoint, Public, ForRoles, ForStaff, STAFF_ROLES, Role
  <2>5. e.public = TRUE \/ e.public = FALSE
    BY DEF HotelController, endpoint, Public, ForRoles, ForStaff
  <2>6. QED
    BY <2>1, <2>2, <2>3, <2>4, <2>5 DEF Declares
<1>4. ASSUME NEW i \in DOMAIN RoomController PROVE Declares(RoomController[i], "rooms")
  <2> DEFINE e == RoomController[i]
  <2>1. e.method # "none"
    BY DEF RoomController, endpoint, Public, Requires, ForStaff
  <2>2. Len(e.path) \in {1, 2, 3, 4}
    BY DEF RoomController, endpoint, Public, Requires, ForStaff
  <2>3. e.path[1] = "rooms"
    BY DEF RoomController, endpoint, Public, Requires, ForStaff
  <2>4. e.roles \subseteq Role
    BY DEF RoomController, endpoint, Public, Requires, ForStaff, STAFF_ROLES, Role
  <2>5. e.public = TRUE \/ e.public = FALSE
    BY DEF RoomController, endpoint, Public, Requires, ForStaff
  <2>6. QED
    BY <2>1, <2>2, <2>3, <2>4, <2>5 DEF Declares
<1>5. ASSUME NEW i \in DOMAIN PricingController PROVE Declares(PricingController[i], "rates")
  <2> DEFINE e == PricingController[i]
  <2>1. e.method # "none"
    BY DEF PricingController, endpoint, Public, SignedIn, Requires, ForStaff
  <2>2. Len(e.path) \in {1, 2, 3, 4}
    BY DEF PricingController, endpoint, Public, SignedIn, Requires, ForStaff
  <2>3. e.path[1] = "rates"
    BY DEF PricingController, endpoint, Public, SignedIn, Requires, ForStaff
  <2>4. e.roles \subseteq Role
    BY DEF PricingController, endpoint, Public, SignedIn, Requires, ForStaff, STAFF_ROLES, Role
  <2>5. e.public = TRUE \/ e.public = FALSE
    BY DEF PricingController, endpoint, Public, SignedIn, Requires, ForStaff
  <2>6. QED
    BY <2>1, <2>2, <2>3, <2>4, <2>5 DEF Declares
<1>6. ASSUME NEW i \in DOMAIN PaymentController PROVE Declares(PaymentController[i], "payments")
  <2> DEFINE e == PaymentController[i]
  <2>1. e.method # "none"
    BY DEF PaymentController, endpoint, Requires
  <2>2. Len(e.path) \in {1, 2, 3, 4}
    BY DEF PaymentController, endpoint, Requires
  <2>3. e.path[1] = "payments"
    BY DEF PaymentController, endpoint, Requires
  <2>4. e.roles \subseteq Role
    BY DEF PaymentController, endpoint, Requires, Role
  <2>5. e.public = TRUE \/ e.public = FALSE
    BY DEF PaymentController, endpoint, Requires
  <2>6. QED
    BY <2>1, <2>2, <2>3, <2>4, <2>5 DEF Declares
<1>7. ASSUME NEW i \in DOMAIN StayController PROVE Declares(StayController[i], "stays")
  <2> DEFINE e == StayController[i]
  <2>1. e.method # "none"
    BY DEF StayController, endpoint, Requires
  <2>2. Len(e.path) \in {1, 2, 3, 4}
    BY DEF StayController, endpoint, Requires
  <2>3. e.path[1] = "stays"
    BY DEF StayController, endpoint, Requires
  <2>4. e.roles \subseteq Role
    BY DEF StayController, endpoint, Requires, Role
  <2>5. e.public = TRUE \/ e.public = FALSE
    BY DEF StayController, endpoint, Requires
  <2>6. QED
    BY <2>1, <2>2, <2>3, <2>4, <2>5 DEF Declares
<1>8. ASSUME NEW i \in DOMAIN FinanceController PROVE Declares(FinanceController[i], "invoices")
  <2> DEFINE e == FinanceController[i]
  <2>1. e.method # "none"
    BY DEF FinanceController, endpoint, Requires
  <2>2. Len(e.path) \in {1, 2, 3, 4}
    BY DEF FinanceController, endpoint, Requires
  <2>3. e.path[1] = "invoices"
    BY DEF FinanceController, endpoint, Requires
  <2>4. e.roles \subseteq Role
    BY DEF FinanceController, endpoint, Requires, Role
  <2>5. e.public = TRUE \/ e.public = FALSE
    BY DEF FinanceController, endpoint, Requires
  <2>6. QED
    BY <2>1, <2>2, <2>3, <2>4, <2>5 DEF Declares
<1>9. ASSUME NEW i \in DOMAIN HousekeepingController PROVE Declares(HousekeepingController[i], "housekeeping")
  <2> DEFINE e == HousekeepingController[i]
  <2>1. e.method # "none"
    BY DEF HousekeepingController, endpoint, Requires
  <2>2. Len(e.path) \in {1, 2, 3, 4}
    BY DEF HousekeepingController, endpoint, Requires
  <2>3. e.path[1] = "housekeeping"
    BY DEF HousekeepingController, endpoint, Requires
  <2>4. e.roles \subseteq Role
    BY DEF HousekeepingController, endpoint, Requires, Role
  <2>5. e.public = TRUE \/ e.public = FALSE
    BY DEF HousekeepingController, endpoint, Requires
  <2>6. QED
    BY <2>1, <2>2, <2>3, <2>4, <2>5 DEF Declares
<1>10. ASSUME NEW i \in DOMAIN MaintenanceController PROVE Declares(MaintenanceController[i], "maintenance")
  <2> DEFINE e == MaintenanceController[i]
  <2>1. e.method # "none"
    BY DEF MaintenanceController, endpoint, SignedIn, Requires
  <2>2. Len(e.path) \in {1, 2, 3, 4}
    BY DEF MaintenanceController, endpoint, SignedIn, Requires
  <2>3. e.path[1] = "maintenance"
    BY DEF MaintenanceController, endpoint, SignedIn, Requires
  <2>4. e.roles \subseteq Role
    BY DEF MaintenanceController, endpoint, SignedIn, Requires, Role
  <2>5. e.public = TRUE \/ e.public = FALSE
    BY DEF MaintenanceController, endpoint, SignedIn, Requires
  <2>6. QED
    BY <2>1, <2>2, <2>3, <2>4, <2>5 DEF Declares
<1>11. ASSUME NEW i \in DOMAIN NotificationController PROVE Declares(NotificationController[i], "notifications")
  <2> DEFINE e == NotificationController[i]
  <2>1. e.method # "none"
    BY DEF NotificationController, endpoint, SignedIn, Requires, ForRoles
  <2>2. Len(e.path) \in {1, 2, 3, 4}
    BY DEF NotificationController, endpoint, SignedIn, Requires, ForRoles
  <2>3. e.path[1] = "notifications"
    BY DEF NotificationController, endpoint, SignedIn, Requires, ForRoles
  <2>4. e.roles \subseteq Role
    BY DEF NotificationController, endpoint, SignedIn, Requires, ForRoles, Role
  <2>5. e.public = TRUE \/ e.public = FALSE
    BY DEF NotificationController, endpoint, SignedIn, Requires, ForRoles
  <2>6. QED
    BY <2>1, <2>2, <2>3, <2>4, <2>5 DEF Declares
<1>12. ASSUME NEW i \in DOMAIN ReviewController PROVE Declares(ReviewController[i], "reviews")
  <2> DEFINE e == ReviewController[i]
  <2>1. e.method # "none"
    BY DEF ReviewController, endpoint, Public, SignedIn, ForRoles
  <2>2. Len(e.path) \in {1, 2, 3, 4}
    BY DEF ReviewController, endpoint, Public, SignedIn, ForRoles
  <2>3. e.path[1] = "reviews"
    BY DEF ReviewController, endpoint, Public, SignedIn, ForRoles
  <2>4. e.roles \subseteq Role
    BY DEF ReviewController, endpoint, Public, SignedIn, ForRoles, Role
  <2>5. e.public = TRUE \/ e.public = FALSE
    BY DEF ReviewController, endpoint, Public, SignedIn, ForRoles
  <2>6. QED
    BY <2>1, <2>2, <2>3, <2>4, <2>5 DEF Declares
<1>13. ASSUME NEW i \in DOMAIN ReportingController PROVE Declares(ReportingController[i], "reports")
  <2> DEFINE e == ReportingController[i]
  <2>1. e.method # "none"
    BY DEF ReportingController, endpoint, Requires
  <2>2. Len(e.path) \in {1, 2, 3, 4}
    BY DEF ReportingController, endpoint, Requires
  <2>3. e.path[1] = "reports"
    BY DEF ReportingController, endpoint, Requires
  <2>4. e.roles \subseteq Role
    BY DEF ReportingController, endpoint, Requires, Role
  <2>5. e.public = TRUE \/ e.public = FALSE
    BY DEF ReportingController, endpoint, Requires
  <2>6. QED
    BY <2>1, <2>2, <2>3, <2>4, <2>5 DEF Declares
<1>14. ASSUME NEW i \in DOMAIN AuditController PROVE Declares(AuditController[i], "audit")
  <2> DEFINE e == AuditController[i]
  <2>1. e.method # "none"
    BY DEF AuditController, endpoint, SignedIn, Requires
  <2>2. Len(e.path) \in {1, 2, 3, 4}
    BY DEF AuditController, endpoint, SignedIn, Requires
  <2>3. e.path[1] = "audit"
    BY DEF AuditController, endpoint, SignedIn, Requires
  <2>4. e.roles \subseteq Role
    BY DEF AuditController, endpoint, SignedIn, Requires, Role
  <2>5. e.public = TRUE \/ e.public = FALSE
    BY DEF AuditController, endpoint, SignedIn, Requires
  <2>6. QED
    BY <2>1, <2>2, <2>3, <2>4, <2>5 DEF Declares
<1>15. QED
  BY <1>1, <1>2, <1>3, <1>4, <1>5, <1>6, <1>7, <1>8, <1>9, <1>10, <1>11, <1>12, <1>13, <1>14

(* The first segment of everything that a service declares.                *)
PlaceOf ==
    [auth |-> "auth", booking |-> "bookings", hotel |-> "hotels", room |-> "rooms",
     pricing |-> "rates", payment |-> "payments", stay |-> "stays", finance |-> "invoices",
     housekeeping |-> "housekeeping", maintenance |-> "maintenance",
     notification |-> "notifications", review |-> "reviews", reporting |-> "reports",
     audit |-> "audit"]

(* It leads to that service, and is no parameter.                          *)
LEMMA PlacesLead ==
    /\ DOMAIN PlaceOf = DOMAIN ControllerOf
    /\ \A u \in DOMAIN PlaceOf :
          PlaceOf[u] \in DOMAIN ServiceOf /\ PlaceOf[u] \notin Parameters /\ ServiceOf[PlaceOf[u]] = u
    /\ \A s \in DOMAIN ServiceOf : ServiceOf[s] \in DOMAIN ControllerOf
<1>1. DOMAIN PlaceOf = DOMAIN ControllerOf
  BY DEF PlaceOf, ControllerOf
<1>2. ASSUME NEW u \in DOMAIN PlaceOf
      PROVE  PlaceOf[u] \in DOMAIN ServiceOf /\ ServiceOf[PlaceOf[u]] = u
  BY DEF PlaceOf, ServiceOf
<1>3. ASSUME NEW u \in DOMAIN PlaceOf PROVE PlaceOf[u] \notin Parameters
  BY DEF PlaceOf, Parameters
<1>4. ASSUME NEW s \in DOMAIN ServiceOf PROVE ServiceOf[s] \in DOMAIN ControllerOf
  BY DEF ServiceOf, ControllerOf
<1>5. QED
  BY <1>1, <1>2, <1>3, <1>4

(* Every service declares its endpoints there.                             *)
LEMMA ControllerDeclares ==
    ASSUME NEW u \in DOMAIN ControllerOf
    PROVE  /\ \A i \in DOMAIN ControllerOf[u] : Declares(ControllerOf[u][i], PlaceOf[u])
           /\ \E n \in Nat : DOMAIN ControllerOf[u] = 1 .. n
<1>1. \A i \in DOMAIN ControllerOf[u] : Declares(ControllerOf[u][i], PlaceOf[u])
  BY Controllers DEF ControllerOf, PlaceOf
<1>2. /\ DOMAIN AuthController = 1 .. 6
      /\ DOMAIN BookingController = 1 .. 5
      /\ DOMAIN HotelController = 1 .. 8
      /\ DOMAIN RoomController = 1 .. 10
      /\ DOMAIN PricingController = 1 .. 6
      /\ DOMAIN PaymentController = 1 .. 5
      /\ DOMAIN StayController = 1 .. 7
      /\ DOMAIN FinanceController = 1 .. 6
      /\ DOMAIN HousekeepingController = 1 .. 9
      /\ DOMAIN MaintenanceController = 1 .. 10
      /\ DOMAIN NotificationController = 1 .. 6
      /\ DOMAIN ReviewController = 1 .. 7
      /\ DOMAIN ReportingController = 1 .. 6
      /\ DOMAIN AuditController = 1 .. 4
  BY DEF AuthController, BookingController, HotelController, RoomController,
         PricingController, PaymentController, StayController, FinanceController,
         HousekeepingController, MaintenanceController, NotificationController,
         ReviewController, ReportingController, AuditController
<1>3. \E n \in Nat : DOMAIN ControllerOf[u] = 1 .. n
  <2>1. ControllerOf[u] \in
          {AuthController, BookingController, HotelController, RoomController,
           PricingController, PaymentController, StayController, FinanceController,
           HousekeepingController, MaintenanceController, NotificationController,
           ReviewController, ReportingController, AuditController}
    BY DEF ControllerOf
  <2>2. QED
    BY <1>2, <2>1
<1>4. QED
  BY <1>1, <1>3

(* A set of naturals that has a member has a smallest one.                 *)
LEMMA Smallest ==
    ASSUME NEW S \in SUBSET Nat, S # {}
    PROVE  \E i \in S : \A j \in S : i <= j
<1>1. PICK R : R = OpToRel(<, Nat)
  OBVIOUS
<1>2. IsWellFoundedOn(R, Nat)
  BY <1>1, NatLessThanWellFounded
<1>3. PICK i \in S : \A j \in S : ~ (<<j, i>> \in R)
  BY <1>2, WFMin
<1>4. R = {ss \in Nat \X Nat : ss[1] < ss[2]}
  BY <1>1 DEF OpToRel
<1>5. \A j \in S : i <= j
  <2>1. SUFFICES ASSUME NEW j \in S, j < i PROVE FALSE
    OBVIOUS
  <2>2. <<j, i>> \in R
    BY <1>4, <2>1
  <2>3. QED
    BY <1>3, <2>2
<1>6. QED
  BY <1>5

(* What a service calls for a path is the first of its endpoints that fits,*)
(* and nothing if none does.                                               *)
LEMMA EndpointOf ==
    ASSUME NEW u \in DOMAIN ControllerOf, NEW method, NEW path
    PROVE  LET fitting == {i \in DOMAIN ControllerOf[u] :
                              /\ ControllerOf[u][i].method = method
                              /\ fits(ControllerOf[u][i].path, path)}
           IN IF fitting = {} THEN endpointOf(u, method, path) = NoEndpoint
              ELSE \E i \in fitting : /\ endpointOf(u, method, path) = ControllerOf[u][i]
                                      /\ \A j \in fitting : i <= j
<1> DEFINE fitting == {i \in DOMAIN ControllerOf[u] :
                          /\ ControllerOf[u][i].method = method
                          /\ fits(ControllerOf[u][i].path, path)}
<1>1. CASE fitting = {}
  BY <1>1 DEF endpointOf
<1>2. CASE fitting # {}
  <2>1. fitting \in SUBSET Nat
    BY ControllerDeclares
  <2>2. \E i \in fitting : \A j \in fitting : i <= j
    BY <1>2, <2>1, Smallest
  <2>3. endpointOf(u, method, path)
           = ControllerOf[u][CHOOSE i \in fitting : \A j \in fitting : i <= j]
    BY <1>2 DEF endpointOf
  <2>4. QED
    BY <1>2, <2>2, <2>3
<1>3. QED
  BY <1>1, <1>2

(* The endpoint is of the method and the path that were asked for.         *)
LEMMA EndpointFits ==
    ASSUME NEW u \in DOMAIN ControllerOf, NEW method, NEW path,
           endpointOf(u, method, path) # NoEndpoint
    PROVE  \E i \in DOMAIN ControllerOf[u] :
              /\ endpointOf(u, method, path) = ControllerOf[u][i]
              /\ Declares(ControllerOf[u][i], PlaceOf[u])
              /\ fits(ControllerOf[u][i].path, path)
BY EndpointOf, ControllerDeclares

(* The gateway sends a path to the one service that may have declared it.  *)
LEMMA SentWhereDeclared ==
    ASSUME NEW path, IsPath(path), NEW u \in DOMAIN ControllerOf, NEW method,
           endpointOf(u, method, path) # NoEndpoint
    PROVE  matchRoute(path) # NoRoute /\ matchRoute(path).upstream = u
<1>1. PICK i \in DOMAIN ControllerOf[u] :
        Declares(ControllerOf[u][i], PlaceOf[u]) /\ fits(ControllerOf[u][i].path, path)
  BY EndpointFits
<1> DEFINE e == ControllerOf[u][i]
<1>2. Len(path) >= 1 /\ e.path[1] = PlaceOf[u] /\ (e.path[1] \in Parameters \/ e.path[1] = path[1])
  BY <1>1, PathIsSeq DEF Declares, fits
<1>3. Len(path) >= 1 /\ path[1] = PlaceOf[u]
  BY <1>2, PlacesLead
<1>4. QED
  BY <1>3, PlacesLead, RouteOfService

(* The paths that are open to everybody.                                   *)
OpenPaths ==
    {<<"auth", "register">>, <<"auth", "login">>, <<"auth", "refresh">>,
     <<"bookings", "availability">>, <<"hotels">>, <<"hotels", "by-slug", ":slug">>,
     <<"rooms", "types">>, <<"rates", "quote">>, <<"reviews">>, <<"reviews", "rating">>}

(* No controller opens any other.                                          *)
LEMMA PublicIsOpen ==
    ASSUME NEW u \in DOMAIN ControllerOf, NEW i \in DOMAIN ControllerOf[u],
           ControllerOf[u][i].public
    PROVE  ControllerOf[u][i].path \in OpenPaths
<1>1. ASSUME NEW j \in DOMAIN AuthController, AuthController[j].public
       PROVE  AuthController[j].path \in OpenPaths
  BY <1>1 DEF AuthController, endpoint, OpenPaths, Public, SignedIn
<1>2. ASSUME NEW j \in DOMAIN BookingController, BookingController[j].public
       PROVE  BookingController[j].path \in OpenPaths
  BY <1>2 DEF BookingController, endpoint, OpenPaths, Public, Requires
<1>3. ASSUME NEW j \in DOMAIN HotelController, HotelController[j].public
       PROVE  HotelController[j].path \in OpenPaths
  BY <1>3 DEF HotelController, endpoint, OpenPaths, Public, ForRoles, ForStaff
<1>4. ASSUME NEW j \in DOMAIN RoomController, RoomController[j].public
       PROVE  RoomController[j].path \in OpenPaths
  BY <1>4 DEF RoomController, endpoint, OpenPaths, Public, Requires, ForStaff
<1>5. ASSUME NEW j \in DOMAIN PricingController, PricingController[j].public
       PROVE  PricingController[j].path \in OpenPaths
  BY <1>5 DEF PricingController, endpoint, OpenPaths, Public, SignedIn, Requires, ForStaff
<1>6. ASSUME NEW j \in DOMAIN PaymentController, PaymentController[j].public
       PROVE  PaymentController[j].path \in OpenPaths
  BY <1>6 DEF PaymentController, endpoint, OpenPaths, Requires
<1>7. ASSUME NEW j \in DOMAIN StayController, StayController[j].public
       PROVE  StayController[j].path \in OpenPaths
  BY <1>7 DEF StayController, endpoint, OpenPaths, Requires
<1>8. ASSUME NEW j \in DOMAIN FinanceController, FinanceController[j].public
       PROVE  FinanceController[j].path \in OpenPaths
  BY <1>8 DEF FinanceController, endpoint, OpenPaths, Requires
<1>9. ASSUME NEW j \in DOMAIN HousekeepingController, HousekeepingController[j].public
       PROVE  HousekeepingController[j].path \in OpenPaths
  BY <1>9 DEF HousekeepingController, endpoint, OpenPaths, Requires
<1>10. ASSUME NEW j \in DOMAIN MaintenanceController, MaintenanceController[j].public
       PROVE  MaintenanceController[j].path \in OpenPaths
  BY <1>10 DEF MaintenanceController, endpoint, OpenPaths, SignedIn, Requires
<1>11. ASSUME NEW j \in DOMAIN NotificationController, NotificationController[j].public
       PROVE  NotificationController[j].path \in OpenPaths
  BY <1>11 DEF NotificationController, endpoint, OpenPaths, SignedIn, Requires, ForRoles
<1>12. ASSUME NEW j \in DOMAIN ReviewController, ReviewController[j].public
       PROVE  ReviewController[j].path \in OpenPaths
  BY <1>12 DEF ReviewController, endpoint, OpenPaths, Public, SignedIn, ForRoles
<1>13. ASSUME NEW j \in DOMAIN ReportingController, ReportingController[j].public
       PROVE  ReportingController[j].path \in OpenPaths
  BY <1>13 DEF ReportingController, endpoint, OpenPaths, Requires
<1>14. ASSUME NEW j \in DOMAIN AuditController, AuditController[j].public
       PROVE  AuditController[j].path \in OpenPaths
  BY <1>14 DEF AuditController, endpoint, OpenPaths, SignedIn, Requires
<1>15. QED
  BY <1>1, <1>2, <1>3, <1>4, <1>5, <1>6, <1>7, <1>8, <1>9, <1>10, <1>11, <1>12, <1>13, <1>14 DEF ControllerOf

(* A route's prefix fits, segment by segment.                              *)
LEMMA CandidateFits ==
    ASSUME NEW path, IsPath(path), NEW r \in ROUTE_TABLE
    PROVE  r \in candidates(path) <=>
              /\ Len(r.prefix) <= Len(path)
              /\ r.prefix[1] = path[1]
              /\ Len(r.prefix) = 2 => r.prefix[2] = path[2]
<1>1. Len(r.prefix) \in {1, 2} /\ Len(path) \in Nat
  BY Routes, PathIsSeq
<1>2. Sequence!IsPrefix(r.prefix, path) <=>
         Len(r.prefix) <= Len(path) /\ \A i \in 1 .. Len(r.prefix) : r.prefix[i] = path[i]
  BY <1>1, PrefixFits
<1>3. QED
  BY <1>1, <1>2 DEF candidates

(* The routes that are closed where some path is open.                     *)
LEMMA ClosedRoutes ==
    ASSUME NEW r \in ROUTE_TABLE, ~ r.public,
           r.prefix[1] \in {"auth", "bookings", "hotels", "rooms", "rates", "reviews"}
    PROVE  r.prefix \in {<<"auth">>, <<"bookings">>, <<"rates">>, <<"hotels", "manage">>,
                         <<"rooms", "board">>, <<"reviews", "moderation-queue">>}
BY DEF ROUTE_TABLE, route

(* The gateway lets everybody through to an open path.                     *)
LEMMA OpenRoute ==
    ASSUME NEW path, IsPath(path), NEW pattern \in OpenPaths, fits(pattern, path)
    PROVE  matchRoute(path) # NoRoute /\ matchRoute(path).public
<1>1. Len(path) \in Nat /\ Len(path) >= 1 /\ path[1] = pattern[1]
  BY PathIsSeq DEF OpenPaths, fits, Parameters
<1>2. Len(pattern) = Len(path) /\ (Len(pattern) >= 2 => path[2] = pattern[2])
  BY PathIsSeq DEF OpenPaths, fits, Parameters
<1>3. path[1] \in DOMAIN ServiceOf
  BY <1>1 DEF OpenPaths, ServiceOf
<1> DEFINE r == matchRoute(path)
<1>4. r # NoRoute /\ r \in ROUTE_TABLE /\ r \in candidates(path)
  BY <1>1, <1>3, RouteOfService
<1>5. \A o \in candidates(path) : Len(o.prefix) <= Len(r.prefix)
  BY <1>4, MatchRoute
<1> HIDE DEF r
<1>6. Len(r.prefix) <= Len(path) /\ r.prefix[1] = path[1]
      /\ (Len(r.prefix) = 2 => r.prefix[2] = path[2])
  BY <1>4, CandidateFits
<1>7. SUFFICES ASSUME ~ r.public PROVE FALSE
  BY <1>4 DEF r
<1>8. r.prefix \in {<<"auth">>, <<"bookings">>, <<"rates">>, <<"hotels", "manage">>,
                    <<"rooms", "board">>, <<"reviews", "moderation-queue">>}
  <2>1. pattern[1] \in {"auth", "bookings", "hotels", "rooms", "rates", "reviews"}
    BY DEF OpenPaths
  <2>2. QED
    BY <1>1, <1>4, <1>6, <1>7, <2>1, ClosedRoutes
<1>9. CASE Len(r.prefix) = 1
  <2>0. r.prefix \in {<<"auth">>, <<"bookings">>, <<"rates">>}
    <3>1. Len(<<"hotels", "manage">>) = 2 /\ Len(<<"rooms", "board">>) = 2
          /\ Len(<<"reviews", "moderation-queue">>) = 2
      OBVIOUS
    <3>2. QED
      BY <1>8, <1>9, <3>1
  <2>a. pattern[1] \in {"auth", "bookings", "rates"}
    <3>1. r.prefix[1] \in {"auth", "bookings", "rates"}
      BY <2>0
    <3>2. QED
      BY <1>1, <1>6, <3>1
  <2>1. pattern \in {<<"auth", "register">>, <<"auth", "login">>, <<"auth", "refresh">>,
                     <<"bookings", "availability">>, <<"rates", "quote">>}
    BY <2>a DEF OpenPaths
  <2>2. PICK o \in ROUTE_TABLE : o.prefix = pattern
    BY <2>1 DEF ROUTE_TABLE, route
  <2>3. Len(o.prefix) = 2 /\ o.prefix[1] = path[1] /\ o.prefix[2] = path[2] /\ Len(path) = 2
    BY <1>1, <1>2, <2>1, <2>2
  <2>4. o \in candidates(path)
    BY <2>3, CandidateFits
  <2>5. QED
    BY <1>5, <1>9, <2>3, <2>4
<1>10. CASE Len(r.prefix) = 2
  BY <1>1, <1>2, <1>6, <1>8, <1>10 DEF OpenPaths
<1>11. QED
  BY <1>4, <1>9, <1>10, Routes

-----------------------------------------------------------------------------
(* A call at the doors.                                                    *)
Questions == Requests[TRUE] \cup Requests[FALSE]

Principals == {NoPrincipal} \cup {Holder[t] : t \in Tokens}

Answers ==
    {"NONE", "OK", "RATE_LIMITED", "NOT_FOUND", "UNAUTHENTICATED", "TOKEN_EXPIRED", "FORBIDDEN",
     "UPSTREAM_UNAVAILABLE", "CIRCUIT_OPEN", "UPSTREAM_TIMEOUT", "CONFLICT", "VALIDATION_FAILED",
     "INTERNAL_ERROR"}

Received ==
    [pc : {"VERIFY", "FORWARD", "SENT", "RAN", "OVER"}, answer : Answers, principal : Principals,
     ran : BOOLEAN, client : Clients, request : Questions, at : Nat, retryAfter : Int]

routeOf(d) == matchRoute(d.request.path)

heldBy(d) ==
    /\ d.request.token # NoToken
    /\ Genuine[d.request.token]
    /\ d.at < ExpiresAt[d.request.token]

identified(d) == heldBy(d) /\ d.principal = Holder[d.request.token]

called(d) == endpointOf(routeOf(d).upstream, d.request.method, d.request.path)

(* How far a call is, and what is known of it by then.                     *)
Underway(d) ==
    /\ d.principal # NoPrincipal => identified(d)
    /\ d.pc = "VERIFY" => d.request.token # NoToken /\ d.principal = NoPrincipal
    /\ d.pc \in {"VERIFY", "FORWARD"} => d.answer = "NONE"
    /\ d.pc \in {"SENT", "RAN"} => d.answer \in {"NONE", "UPSTREAM_TIMEOUT"}
    /\ d.pc \in {"VERIFY", "FORWARD", "SENT"} => ~ d.ran
    /\ d.pc = "RAN" => d.ran
    /\ d.pc # "OVER" \/ d.ran => routeOf(d) # NoRoute
    /\ d.pc \in {"FORWARD", "SENT"} /\ ~ routeOf(d).public => d.principal # NoPrincipal
    /\ d.ran => called(d) # NoEndpoint /\ canActivate(called(d), d.principal) = "OK"

(* What its answer says.                                                   *)
Answered(d) ==
    LET e == declared(d.request) IN
    /\ d.answer = "NOT_FOUND" => e = NoEndpoint
    /\ d.answer \in {"UNAUTHENTICATED", "TOKEN_EXPIRED", "FORBIDDEN"} =>
          /\ ~ d.ran
          /\ e # NoEndpoint => ~ e.public
    /\ d.answer = "UNAUTHENTICATED" => d.principal = NoPrincipal
    /\ d.answer = "FORBIDDEN" /\ e # NoEndpoint =>
          d.principal # NoPrincipal /\ ~ mayDo(d.principal, e)
    /\ d.answer \in {"RATE_LIMITED", "CIRCUIT_OPEN"} => d.pc = "OVER" /\ ~ d.ran

CallSound(d, n) == d = Idle \/ (d \in Received /\ d.at <= n /\ Underway(d) /\ Answered(d))

CallsSound ==
    /\ now \in Nat
    /\ DOMAIN call = Calls
    /\ call = [c \in Calls |-> call[c]]
    /\ \A c \in Calls : CallSound(call[c], now)

(* The endpoint that some controller declares is the one that the gateway  *)
(* leads to.                                                               *)
LEMMA DeclaredIsCalled ==
    ASSUME NEW q \in Questions
    PROVE  /\ matchRoute(q.path) = NoRoute => declared(q) = NoEndpoint
           /\ matchRoute(q.path) # NoRoute =>
                 declared(q) = endpointOf(matchRoute(q.path).upstream, q.method, q.path)
           /\ declared(q) # NoEndpoint /\ declared(q).public => matchRoute(q.path).public
<1> DEFINE some == {e \in {endpointOf(u, q.method, q.path) : u \in DOMAIN ControllerOf} :
                       e # NoEndpoint}
           r == matchRoute(q.path)
<1>1. IsPath(q.path)
  BY EdgeAssumption DEF Questions
<1>2. declared(q) = IF some = {} THEN NoEndpoint ELSE CHOOSE e \in some : TRUE
  BY DEF declared
<1>3. ASSUME NEW u \in DOMAIN ControllerOf, endpointOf(u, q.method, q.path) # NoEndpoint
      PROVE  r # NoRoute /\ r.upstream = u
  BY <1>1, <1>3, SentWhereDeclared
<1>4. r # NoRoute => r.upstream \in DOMAIN ControllerOf
  BY <1>1, RouteOfService, PlacesLead
<1> HIDE DEF r
<1>5. CASE some = {}
  <2>1. declared(q) = NoEndpoint
    BY <1>2, <1>5
  <2>2. r # NoRoute => endpointOf(r.upstream, q.method, q.path) = NoEndpoint
    BY <1>4, <1>5
  <2>3. QED
    BY <2>1, <2>2 DEF r
<1>6. CASE some # {}
  <2>1. declared(q) \in some
    BY <1>2, <1>6
  <2>2. PICK u \in DOMAIN ControllerOf :
          declared(q) = endpointOf(u, q.method, q.path) /\ declared(q) # NoEndpoint
    BY <2>1
  <2>3. r # NoRoute /\ r.upstream = u
    BY <1>3, <2>2
  <2>4. declared(q).public => r.public
    <3>1. PICK i \in DOMAIN ControllerOf[u] :
            declared(q) = ControllerOf[u][i] /\ fits(ControllerOf[u][i].path, q.path)
      BY <2>2, EndpointFits
    <3>2. QED
      BY <1>1, <3>1, PublicIsOpen, OpenRoute DEF r
  <2>5. QED
    BY <2>2, <2>3, <2>4 DEF r
<1>7. QED
  BY <1>5, <1>6

(* The guard of a service lets in whom its endpoint is declared for.       *)
LEMMA GuardDecides ==
    ASSUME NEW e, e.public = TRUE \/ e.public = FALSE, NEW p \in Principals
    PROVE  /\ forwarded(p) = p
           /\ canActivate(e, p) \in {"OK", "UNAUTHENTICATED", "FORBIDDEN"}
           /\ canActivate(e, p) = "OK" <=> e.public \/ (p # NoPrincipal /\ mayDo(p, e))
           /\ canActivate(e, p) = "UNAUTHENTICATED" <=> ~ e.public /\ p = NoPrincipal
<1>1. p = [id |-> p.id, roles |-> p.roles] /\ p.roles \subseteq Role
  <2>1. CASE p = NoPrincipal
    BY <2>1 DEF NoPrincipal
  <2>2. CASE p # NoPrincipal
    BY <2>2, EdgeAssumption DEF Principals
  <2>3. QED
    BY <2>1, <2>2
<1>2. forwarded(p) = p
  <2>1. p.roles \cap Role = p.roles
    BY <1>1
  <2>2. [p EXCEPT !.roles = p.roles] = p
    BY <1>1
  <2>3. QED
    BY <2>1, <2>2 DEF forwarded
<1>3. mayDo(p, e) <=>
         /\ e.roles = {} \/ p.roles \cap e.roles # {}
         /\ \A q \in e.permissions : hasPermission(p.roles, q)
  BY DEF mayDo, hasPermission
<1>4. QED
  BY <1>2, <1>3 DEF canActivate

(* What an endpoint is, found or not.                                      *)
LEMMA EndpointIsPublicOrNot ==
    ASSUME NEW u \in DOMAIN ControllerOf, NEW method, NEW path
    PROVE  LET e == endpointOf(u, method, path) IN e.public = TRUE \/ e.public = FALSE
BY EndpointFits DEF Declares, NoEndpoint, endpoint

-----------------------------------------------------------------------------
(* The log of the admitted calls.                                          *)
Keys == [client : Clients, path : {q.path : q \in Questions}]

Admission == [at : Nat, nth : Nat]

(* A log of admissions, finitely many per client and path.                 *)
IsLog(log) ==
    /\ DOMAIN log \subseteq Keys
    /\ \A k \in DOMAIN log : log[k] \subseteq Admission /\ IsFiniteSet(log[k])

(* The guard forgets nothing that the window holds, and keeps within the   *)
(* limit; each of the calls it counts is a call of its own.                *)
LogsAgree ==
    /\ IsLog(hits) /\ IsLog(entered)
    /\ \A k \in Keys : within(hits, k) = within(entered, k)
    /\ \A k \in DOMAIN entered :
          /\ within(entered, k) = entered[k]
          /\ Cardinality(entered[k]) <= limitOf(k.path)
          /\ \A a \in entered[k] :
                a.at <= now /\ (a.at = now => a.nth < Cardinality(entered[k]))

-----------------------------------------------------------------------------
(* Steps of a call.                                                        *)

(* Who calls for what, as whom and since when, stays the same.             *)
SameCall(d, e) == e.request = d.request /\ e.at = d.at /\ e.principal = d.principal

(* It moves on.                                                            *)
LEMMA CallMoved ==
    ASSUME NEW d \in Received, NEW to \in {"VERIFY", "FORWARD", "SENT", "RAN", "OVER"}
    PROVE  LET e == [d EXCEPT !.pc = to] IN
           e \in Received /\ e.pc = to /\ e.answer = d.answer /\ e.ran = d.ran /\ SameCall(d, e)
BY DEF Received, SameCall

(* One call changes, and is as sound as it was.                            *)
LEMMA OneCallChanges ==
    ASSUME CallsSound, NEW c \in Calls, NEW d, call' = [call EXCEPT ![c] = d], now' = now,
           CallSound(d, now)
    PROVE  CallsSound'
<1>1. DOMAIN call' = Calls /\ call' = [b \in Calls |-> call'[b]]
  BY DEF CallsSound
<1>2. ASSUME NEW b \in Calls PROVE CallSound(call'[b], now')
  BY DEF CallsSound
<1>3. QED
  BY <1>1, <1>2 DEF CallsSound

(* What answers does to a call.                                            *)
LEMMA AnswersOne ==
    ASSUME CallsSound, NEW c \in Calls, call[c] \in Received,
           NEW to \in {"VERIFY", "FORWARD", "SENT", "RAN", "OVER"}, NEW code \in Answers,
           answers(c, code, to)
    PROVE  \E e \in Received :
              /\ call' = [call EXCEPT ![c] = e] /\ now' = now
              /\ e.pc = to /\ e.answer = (IF call[c].answer = "NONE" THEN code ELSE call[c].answer)
              /\ e.ran = call[c].ran /\ SameCall(call[c], e)
<1> DEFINE d == call[c]
           a == IF d.answer = "NONE" THEN code ELSE d.answer
           e == [[d EXCEPT !.pc = to] EXCEPT !.answer = a]
<1>1. call' = [call EXCEPT ![c] = e] /\ now' = now
  BY DEF answers, CallsSound, Received
<1>2. d \in Received
  OBVIOUS
<1> HIDE DEF d
<1>3. e \in Received /\ e.pc = to /\ e.answer = a /\ e.ran = d.ran /\ SameCall(d, e)
  BY <1>2 DEF Received, SameCall, Answers
<1>4. QED
  BY <1>1, <1>3 DEF d

(* And moves.                                                              *)
LEMMA MovesOne ==
    ASSUME CallsSound, NEW c \in Calls, call[c] \in Received,
           NEW to \in {"VERIFY", "FORWARD", "SENT", "RAN", "OVER"}, moves(c, to)
    PROVE  \E e \in Received :
              /\ call' = [call EXCEPT ![c] = e] /\ now' = now
              /\ e.pc = to /\ e.answer = call[c].answer
              /\ e.ran = call[c].ran /\ SameCall(call[c], e)
<1> DEFINE e == [call[c] EXCEPT !.pc = to]
<1>1. call' = [call EXCEPT ![c] = e] /\ now' = now
  BY DEF moves, CallsSound
<1>2. e \in Received /\ e.pc = to /\ e.answer = call[c].answer /\ e.ran = call[c].ran
      /\ SameCall(call[c], e)
  BY CallMoved
<1>3. QED
  BY <1>1, <1>2

(* A call that has left IDLE is known.                                     *)
LEMMA KnownCall ==
    ASSUME CallsSound, NEW c \in Calls, call[c].pc # "IDLE"
    PROVE  call[c] \in Received /\ call[c].at <= now /\ Underway(call[c]) /\ Answered(call[c])
BY DEF CallsSound, CallSound, Idle

(* A call that is given up, or whose answer comes, with a code that no     *)
(* door gives.                                                             *)
LEMMA OtherAnswer ==
    ASSUME CallsSound, NEW c \in Calls, call[c].pc \in {"FORWARD", "SENT", "RAN"},
           NEW to \in {"SENT", "RAN", "OVER"}, to \in {call[c].pc, "OVER"},
           NEW code \in {"OK", "UPSTREAM_UNAVAILABLE", "CIRCUIT_OPEN", "UPSTREAM_TIMEOUT",
                         "CONFLICT", "VALIDATION_FAILED", "INTERNAL_ERROR"},
           code = "CIRCUIT_OPEN" => call[c].pc = "FORWARD" /\ to = "OVER",
           to # "OVER" => code = "UPSTREAM_TIMEOUT",
           answers(c, code, to)
    PROVE  CallsSound'
<1> DEFINE d == call[c]
<1>1. d \in Received /\ d.at <= now /\ Underway(d) /\ Answered(d)
  BY KnownCall
<1>2. code \in Answers
  BY DEF Answers
<1>3. PICK e \in Received :
         /\ call' = [call EXCEPT ![c] = e] /\ now' = now
         /\ e.pc = to /\ e.answer = (IF d.answer = "NONE" THEN code ELSE d.answer)
         /\ e.ran = d.ran /\ SameCall(d, e)
  BY <1>1, <1>2, AnswersOne
<1> HIDE DEF d
<1>4. Underway(e)
  BY <1>1, <1>3 DEF Underway, SameCall, routeOf, called, identified, heldBy, d
<1>5. Answered(e)
  BY <1>1, <1>3 DEF Underway, Answered, SameCall, d
<1>6. CallSound(e, now)
  BY <1>1, <1>3, <1>4, <1>5 DEF CallSound, SameCall
<1>7. QED
  BY <1>3, <1>6, OneCallChanges

(* The token of a call is verified.                                        *)
LEMMA VerifySound ==
    ASSUME CallsSound, NEW c \in Calls, Verify(c)
    PROVE  CallsSound'
<1> DEFINE d == call[c]
           token == d.request.token
<1>1. d \in Received /\ d.at <= now /\ Underway(d) /\ Answered(d) /\ d.pc = "VERIFY"
  BY KnownCall DEF Verify
<1>2. /\ d.request \in Questions /\ token \in Tokens /\ now \in Nat /\ d.at \in Nat
      /\ d.answer = "NONE" /\ ~ d.ran /\ routeOf(d) # NoRoute /\ d.principal = NoPrincipal
      /\ token # NoToken
  BY <1>1, EdgeAssumption DEF Underway, Received, Questions, CallsSound
<1>3. CASE valid(token)
  <2> DEFINE e == [[d EXCEPT !.pc = "FORWARD"] EXCEPT !.principal = Holder[token]]
  <2>1. call' = [call EXCEPT ![c] = e] /\ now' = now
    BY <1>1, <1>3 DEF Verify, CallsSound, Received
  <2>2. Holder[token] \in Principals /\ Holder[token] # NoPrincipal
    BY <1>2, EdgeAssumption DEF Principals
  <2>3. /\ e \in Received /\ e.pc = "FORWARD" /\ e.principal = Holder[token]
        /\ e.answer = "NONE" /\ ~ e.ran /\ e.request = d.request /\ e.at = d.at
    BY <1>1, <1>2, <2>2 DEF Received
  <2>4. heldBy(e)
    BY <1>1, <1>2, <1>3, <2>3, EdgeAssumption DEF heldBy, valid
  <2> HIDE DEF e, d, token
  <2>5. Underway(e)
    BY <1>2, <2>2, <2>3, <2>4 DEF Underway, identified, routeOf, token
  <2>6. Answered(e)
    BY <2>3 DEF Answered
  <2>7. CallSound(e, now)
    BY <1>1, <2>3, <2>5, <2>6 DEF CallSound
  <2>8. QED
    BY <2>1, <2>7, OneCallChanges
<1>4. CASE ~ valid(token) /\ routeOf(d).public
  <2>1. moves(c, "FORWARD")
    BY <1>4 DEF Verify, routeOf
  <2>2. PICK e \in Received :
           /\ call' = [call EXCEPT ![c] = e] /\ now' = now
           /\ e.pc = "FORWARD" /\ e.answer = d.answer /\ e.ran = d.ran /\ SameCall(d, e)
    BY <1>1, <2>1, MovesOne
  <2> HIDE DEF d, token
  <2>3. Underway(e)
    BY <1>2, <1>4, <2>2 DEF Underway, SameCall, routeOf
  <2>4. Answered(e)
    BY <1>2, <2>2 DEF Answered
  <2>5. CallSound(e, now)
    BY <1>1, <2>2, <2>3, <2>4 DEF CallSound, SameCall
  <2>6. QED
    BY <2>2, <2>5, OneCallChanges
<1>5. CASE ~ valid(token) /\ ~ routeOf(d).public
  <2>1. PICK code \in {"TOKEN_EXPIRED", "UNAUTHENTICATED"} : answers(c, code, "OVER")
    BY <1>5 DEF Verify, routeOf
  <2>2. PICK e \in Received :
           /\ call' = [call EXCEPT ![c] = e] /\ now' = now
           /\ e.pc = "OVER" /\ e.answer = code /\ e.ran = d.ran /\ SameCall(d, e)
    <3>1. code \in Answers
      BY <2>1 DEF Answers
    <3>2. QED
      BY <1>1, <1>2, <2>1, <3>1, AnswersOne
  <2> HIDE DEF d, token
  <2>3. Underway(e)
    BY <1>2, <2>2 DEF Underway, SameCall
  <2>4. declared(e.request) # NoEndpoint => ~ declared(e.request).public
    BY <1>2, <1>5, <2>2, DeclaredIsCalled DEF SameCall, routeOf
  <2>5. Answered(e)
    BY <1>2, <2>1, <2>2, <2>4 DEF Answered, SameCall
  <2>6. CallSound(e, now)
    BY <1>1, <2>2, <2>3, <2>5 DEF CallSound, SameCall
  <2>7. QED
    BY <2>2, <2>6, OneCallChanges
<1>6. QED
  BY <1>3, <1>4, <1>5

(* The call reaches its service.                                           *)
LEMMA ServeSound ==
    ASSUME CallsSound, NEW c \in Calls, Serve(c)
    PROVE  CallsSound'
<1> DEFINE d == call[c]
           e == called(d)
           decision == canActivate(e, d.principal)
<1>1. d \in Received /\ d.at <= now /\ Underway(d) /\ Answered(d) /\ d.pc = "SENT"
  BY KnownCall DEF Serve
<1>2. /\ d.request \in Questions /\ d.principal \in Principals
      /\ d.answer \in {"NONE", "UPSTREAM_TIMEOUT"} /\ ~ d.ran /\ routeOf(d) # NoRoute
  BY <1>1 DEF Underway, Received
<1>3. routeOf(d).upstream \in DOMAIN ControllerOf
  <2>1. IsPath(d.request.path)
    BY <1>2, EdgeAssumption DEF Questions
  <2>2. QED
    BY <1>2, <2>1, RouteOfService, PlacesLead DEF routeOf
<1>4. e = endpointAt(c) /\ (e.public = TRUE \/ e.public = FALSE)
  BY <1>3, EndpointIsPublicOrNot DEF endpointAt, upstreamOf, called, routeOf
<1>5. /\ forwarded(d.principal) = d.principal
      /\ decision \in {"OK", "UNAUTHENTICATED", "FORBIDDEN"}
      /\ decision = "OK" <=> e.public \/ (d.principal # NoPrincipal /\ mayDo(d.principal, e))
      /\ decision = "UNAUTHENTICATED" <=> ~ e.public /\ d.principal = NoPrincipal
  BY <1>2, <1>4, GuardDecides
<1>6. declared(d.request) = e
  BY <1>2, DeclaredIsCalled DEF called, routeOf
<1>7. ASSUME NEW code \in {"NOT_FOUND", "UNAUTHENTICATED", "FORBIDDEN"}, answers(c, code, "OVER"),
             code = "NOT_FOUND" => e = NoEndpoint,
             code # "NOT_FOUND" => decision = code
      PROVE  CallsSound'
  <2>1. code \in Answers
    BY DEF Answers
  <2>2. PICK f \in Received :
           /\ call' = [call EXCEPT ![c] = f] /\ now' = now
           /\ f.pc = "OVER" /\ f.answer = (IF d.answer = "NONE" THEN code ELSE d.answer)
           /\ f.ran = d.ran /\ SameCall(d, f)
    BY <1>1, <1>7, <2>1, AnswersOne
  <2>3. f.request = d.request /\ f.principal = d.principal /\ f.at = d.at
    BY <2>2 DEF SameCall
  <2> HIDE DEF d, e, decision
  <2>4. Underway(f)
    BY <1>1, <1>2, <2>2, <2>3 DEF Underway, identified, heldBy
  <2>5. Answered(f)
    BY <1>2, <1>4, <1>5, <1>6, <1>7, <2>2, <2>3 DEF Answered
  <2>6. CallSound(f, now)
    BY <1>1, <2>2, <2>3, <2>4, <2>5 DEF CallSound
  <2>7. QED
    BY <2>2, <2>6, OneCallChanges
<1>8. CASE e = NoEndpoint
  <2>1. normalise([kind |-> "HTTP", status |-> 404]) = "NOT_FOUND"
    BY DEF normalise
  <2>2. answers(c, "NOT_FOUND", "OVER")
    BY <1>4, <1>8, <2>1 DEF Serve
  <2>3. QED
    BY <1>7, <1>8, <2>2
<1>9. CASE e # NoEndpoint /\ decision # "OK"
  <2>1. normalise([kind |-> "DOMAIN", code |-> decision]) = decision
    BY DEF normalise
  <2>2. answers(c, decision, "OVER")
    BY <1>4, <1>5, <1>9, <2>1 DEF Serve
  <2>3. QED
    BY <1>5, <1>7, <1>9, <2>2
<1>10. CASE e # NoEndpoint /\ decision = "OK"
  <2> DEFINE f == [[d EXCEPT !.pc = "RAN"] EXCEPT !.ran = TRUE]
  <2>1. call' = [call EXCEPT ![c] = f] /\ now' = now
    BY <1>1, <1>4, <1>5, <1>10 DEF Serve, CallsSound, Received
  <2>2. /\ f \in Received /\ f.pc = "RAN" /\ f.ran /\ f.answer = d.answer
        /\ f.request = d.request /\ f.principal = d.principal /\ f.at = d.at
    BY <1>1 DEF Received
  <2>3. called(f) = e /\ routeOf(f) = routeOf(d)
    BY <2>2 DEF called, routeOf
  <2> HIDE DEF d, e, f, decision
  <2>4. Underway(f)
    BY <1>1, <1>2, <1>10, <2>2, <2>3 DEF Underway, identified, heldBy, decision
  <2>5. Answered(f)
    BY <1>2, <2>2 DEF Answered
  <2>6. CallSound(f, now)
    BY <1>1, <2>2, <2>4, <2>5 DEF CallSound
  <2>7. QED
    BY <2>1, <2>6, OneCallChanges
<1>11. QED
  BY <1>8, <1>9, <1>10

(* A call is passed on to the upstream, or the breaker is open.            *)
LEMMA ForwardSound ==
    ASSUME CallsSound, NEW c \in Calls, Forward(c)
    PROVE  CallsSound'
<1> DEFINE d == call[c]
<1>1. d \in Received /\ d.at <= now /\ Underway(d) /\ Answered(d) /\ d.pc = "FORWARD"
  BY KnownCall DEF Forward
<1>2. CASE moves(c, "SENT")
  <2>1. PICK e \in Received :
           /\ call' = [call EXCEPT ![c] = e] /\ now' = now
           /\ e.pc = "SENT" /\ e.answer = d.answer /\ e.ran = d.ran /\ SameCall(d, e)
    BY <1>1, <1>2, MovesOne
  <2> HIDE DEF d
  <2>2. Underway(e)
    BY <1>1, <2>1 DEF Underway, SameCall, routeOf, identified, heldBy
  <2>3. Answered(e)
    BY <1>1, <2>1, <2>2 DEF Answered, Underway
  <2>4. CallSound(e, now)
    BY <1>1, <2>1, <2>2, <2>3 DEF CallSound, SameCall
  <2>5. QED
    BY <2>1, <2>4, OneCallChanges
<1>3. CASE answers(c, "UPSTREAM_UNAVAILABLE", "OVER")
  BY <1>1, <1>3, OtherAnswer
<1>4. CASE answers(c, "CIRCUIT_OPEN", "OVER")
  BY <1>1, <1>4, OtherAnswer
<1>5. QED
  BY <1>2, <1>3, <1>4 DEF Forward

(* The handler is through, the timer aborts, or the connection breaks.     *)
LEMMA ReturnSound ==
    ASSUME CallsSound, NEW c \in Calls, Return(c) \/ TimeOut(c) \/ BreakOff(c)
    PROVE  CallsSound'
<1>1. CASE Return(c)
  <2>1. PICK code \in {"OK", "CONFLICT", "VALIDATION_FAILED", "INTERNAL_ERROR"} :
          answers(c, code, "OVER")
    BY <1>1 DEF Return, normalise
  <2>2. call[c].pc = "RAN"
    BY <1>1 DEF Return
  <2>3. QED
    BY <2>1, <2>2, OtherAnswer
<1>2. CASE TimeOut(c)
  <2>1. call[c].pc \in {"SENT", "RAN"} /\ answers(c, "UPSTREAM_TIMEOUT", call[c].pc)
    BY <1>2 DEF TimeOut
  <2>2. QED
    BY <2>1, OtherAnswer
<1>3. CASE BreakOff(c)
  <2>1. call[c].pc \in {"SENT", "RAN"} /\ answers(c, "UPSTREAM_UNAVAILABLE", "OVER")
    BY <1>3 DEF BreakOff
  <2>2. QED
    BY <2>1, OtherAnswer
<1>4. QED
  BY <1>1, <1>2, <1>3

(* Time passes.                                                            *)
LEMMA TickSound ==
    ASSUME CallsSound, now' = now + 1, call' = call
    PROVE  CallsSound'
<1>1. ASSUME NEW c \in Calls PROVE CallSound(call[c], now + 1)
  <2>1. now \in Nat /\ CallSound(call[c], now)
    BY DEF CallsSound
  <2>2. call[c] \in Received => call[c].at \in Nat
    BY DEF Received
  <2>3. QED
    BY <2>1, <2>2 DEF CallSound
<1>2. QED
  BY <1>1 DEF CallsSound

-----------------------------------------------------------------------------
(* Counting.                                                               *)

(* A limit of the table is none or at least one, scaled as it may be.      *)
LEMMA LimitOf ==
    ASSUME NEW path, IsPath(path)
    PROVE  limitOf(path) \in Nat /\ (limited(path) => limitOf(path) >= 1)
<1> DEFINE n == matchRoute(path).rateLimitPerMinute
<1>1. n \in Nat /\ (n = 0 \/ n >= 5)
  <2>1. matchRoute(path) = NoRoute \/ matchRoute(path) \in ROUTE_TABLE
    BY MatchRoute DEF candidates
  <2>2. NoRoute.rateLimitPerMinute = 0
    BY DEF NoRoute, route
  <2>3. QED
    BY <2>1, <2>2, Routes
<1>2. Scale \in 1 .. 5
  BY EdgeAssumption
<1> HIDE DEF n
<1>3. n \div Scale \in Nat /\ (n # 0 => n \div Scale >= 1)
  BY <1>1, <1>2
<1>4. QED
  BY <1>3 DEF limitOf, limited, n

(* What the window holds of a log.                                         *)
LEMMA WithinLog ==
    ASSUME NEW log, IsLog(log), NEW k
    PROVE  within(log, k) \subseteq Admission /\ IsFiniteSet(within(log, k))
<1>1. CASE k \in DOMAIN log
  <2>1. within(log, k) \subseteq log[k]
    BY <1>1 DEF within
  <2>2. log[k] \subseteq Admission /\ IsFiniteSet(log[k])
    BY <1>1 DEF IsLog
  <2>3. QED
    BY <2>1, <2>2, FS_Subset
<1>2. CASE k \notin DOMAIN log
  BY <1>2, FS_EmptySet DEF within
<1>3. QED
  BY <1>1, <1>2

(* The oldest of some admissions.                                          *)
LEMMA Oldest ==
    ASSUME NEW S, S \subseteq Admission, S # {}
    PROVE  oldest(S) \in Nat
<1> DEFINE T == {a.at : a \in S}
<1>1. T \in SUBSET Nat /\ T # {}
  BY DEF Admission
<1>2. PICK i \in T : \A j \in T : i <= j
  BY <1>1, Smallest
<1>3. \E at \in T : \A a \in S : at <= a.at
  BY <1>2
<1>4. QED
  BY <1>1, <1>3 DEF oldest

(* Putting the calls of the window in place of a counter.                  *)
LEMMA WithLog ==
    ASSUME NEW log, IsLog(log), NEW k \in Keys, NEW S, S \subseteq Admission, IsFiniteSet(S),
           \A a \in S : now - a.at < Window
    PROVE  /\ IsLog(with(log, k, S))
           /\ \A o : within(with(log, k, S), o) = IF o = k THEN S ELSE within(log, o)
<1> DEFINE W == with(log, k, S)
<1>1. DOMAIN W = DOMAIN log \cup {k} /\ W[k] = S /\ \A o \in DOMAIN log : o # k => W[o] = log[o]
  BY DEF with
<1> HIDE DEF W
<1>2. IsLog(W)
  BY <1>1 DEF IsLog
<1>3. ASSUME NEW o PROVE within(W, o) = IF o = k THEN S ELSE within(log, o)
  BY <1>1 DEF within
<1>4. QED
  BY <1>2, <1>3 DEF W

(* A stale counter holds nothing of the window.                            *)
LEMMA EvictLog ==
    ASSUME NEW log, IsLog(log), now \in Nat
    PROVE  /\ IsLog(evictStale(log))
           /\ \A o : within(evictStale(log), o) = within(log, o)
<1>1. CASE Cardinality(DOMAIN log) < MaxKeys
  BY <1>1 DEF evictStale
<1>2. CASE ~ (Cardinality(DOMAIN log) < MaxKeys)
  <2> DEFINE G == evictStale(log)
  <2>1. /\ DOMAIN G = {o \in DOMAIN log : ~ stale(log[o])}
        /\ \A o \in DOMAIN G : G[o] = log[o]
    BY <1>2 DEF evictStale
  <2> HIDE DEF G
  <2>2. IsLog(G)
    BY <2>1 DEF IsLog
  <2>3. ASSUME NEW o \in DOMAIN log, stale(log[o])
        PROVE  within(log, o) = {}
    <3>1. \A a \in log[o] : now - a.at >= Window /\ now - a.at \in Int
      BY <2>3 DEF stale, IsLog, Admission
    <3>2. Window \in Nat
      BY EdgeAssumption
    <3>3. QED
      BY <3>1, <3>2 DEF within
  <2>4. ASSUME NEW o PROVE within(G, o) = within(log, o)
    BY <2>1, <2>3 DEF within
  <2>5. QED
    BY <2>2, <2>4 DEF G
<1>3. QED
  BY <1>1, <1>2

(* A refused call leaves the counts as they are; an admitted one is one    *)
(* more, and there was room for it.                                        *)
LEMMA RememberAgrees ==
    ASSUME LogsAgree, now \in Nat, now' = now, NEW client \in Clients, NEW q \in Questions,
           remember(client, q.path)
    PROVE  LogsAgree'
<1> DEFINE k == key(client, q.path)
           recent == within(hits, k)
           this == [at |-> now, nth |-> Cardinality(recent)]
           plus == recent \cup {this}
<1>1. k \in Keys /\ k.path = q.path
  BY DEF key, Keys
<1>2. /\ recent \subseteq Admission /\ IsFiniteSet(recent) /\ recent = within(entered, k)
      /\ Cardinality(recent) \in Nat
  BY <1>1, WithinLog, FS_CardinalityType DEF LogsAgree
<1>3. \A a \in recent : now - a.at < Window
  BY DEF within
<1>4. \A o : within(hits, o)' = within(hits', o) /\ within(entered, o)' = within(entered', o)
  BY DEF within
<1>5. CASE ~ limited(q.path)
  <2>1. hits' = hits /\ entered' = entered
    BY <1>5 DEF remember
  <2>2. QED
    BY <2>1 DEF LogsAgree, IsLog, within
<1>6. CASE limited(q.path) /\ tooMany(client, q.path)
  <2>1. hits' = with(hits, k, recent) /\ entered' = entered
    BY <1>6 DEF remember
  <2>2. IsLog(hits') /\ \A o : within(hits', o) = IF o = k THEN recent ELSE within(hits, o)
    BY <1>1, <1>2, <1>3, <2>1, WithLog DEF LogsAgree
  <2> HIDE DEF recent, k
  <2>3. \A o \in Keys : within(hits, o)' = within(entered, o)'
    BY <1>2, <1>4, <2>1, <2>2 DEF LogsAgree
  <2>4. QED
    BY <1>4, <2>1, <2>2, <2>3 DEF LogsAgree, IsLog
<1>7. CASE limited(q.path) /\ ~ tooMany(client, q.path)
  <2>1. hits' = evictStale(with(hits, k, plus)) /\ entered' = with(entered, k, plus)
    BY <1>2, <1>7 DEF remember
  <2>2. Window \in Nat \ {0} /\ IsPath(q.path)
    BY EdgeAssumption DEF Questions
  <2>3. this \in Admission /\ this.at = now /\ this.nth = Cardinality(recent)
    BY <1>2 DEF Admission
  <2>4. plus \subseteq Admission /\ IsFiniteSet(plus) /\ \A a \in plus : now - a.at < Window
    <3>1. IsFiniteSet(plus)
      BY <1>2, FS_AddElement
    <3>2. now - this.at < Window
      BY <2>2, <2>3
    <3>3. QED
      BY <1>2, <1>3, <2>3, <3>1, <3>2
  <2>5. \A a \in recent : a.at <= now /\ (a.at = now => a.nth < Cardinality(recent))
    <3>1. ASSUME NEW a \in recent PROVE a.at <= now /\ (a.at = now => a.nth < Cardinality(recent))
      <4>1. k \in DOMAIN entered
        BY <1>2, <3>1 DEF within
      <4>2. QED
        BY <1>2, <3>1, <4>1 DEF LogsAgree
    <3>2. QED
      BY <3>1
  <2> HIDE DEF this
  <2>6. this \notin recent
    BY <1>2, <2>3, <2>5 DEF Admission
  <2>7. Cardinality(plus) = Cardinality(recent) + 1
    BY <1>2, <2>6, FS_AddElement
  <2>8. Cardinality(plus) <= limitOf(q.path)
    <3>1. ~ (Cardinality(recent) >= limitOf(q.path))
      BY <1>7 DEF tooMany
    <3>2. limitOf(q.path) \in Nat
      BY <2>2, LimitOf
    <3>3. QED
      BY <1>2, <2>7, <3>1, <3>2
  <2>9. \A a \in plus : a.at <= now /\ (a.at = now => a.nth < Cardinality(plus))
    <3>1. \A a \in plus : a.nth \in Nat
      BY <2>4 DEF Admission
    <3>2. QED
      BY <1>2, <2>3, <2>5, <2>7, <3>1
  <2> HIDE DEF plus, recent, k
  <2>10. /\ IsLog(with(hits, k, plus)) /\ IsLog(with(entered, k, plus))
         /\ \A o : within(with(hits, k, plus), o) = IF o = k THEN plus ELSE within(hits, o)
         /\ \A o : within(with(entered, k, plus), o) = IF o = k THEN plus ELSE within(entered, o)
    BY <1>1, <2>4, WithLog DEF LogsAgree
  <2>11. IsLog(hits') /\ \A o : within(hits', o) = IF o = k THEN plus ELSE within(hits, o)
    BY <2>1, <2>10, EvictLog
  <2>12. IsLog(entered') /\ \A o : within(entered', o) = IF o = k THEN plus ELSE within(entered, o)
    BY <2>1, <2>10
  <2>13. /\ DOMAIN entered' = DOMAIN entered \cup {k}
         /\ \A o \in DOMAIN entered' : entered'[o] = IF o = k THEN plus ELSE entered[o]
    BY <2>1 DEF with
  <2>14. \A o \in Keys : within(hits, o)' = within(entered, o)'
    BY <1>4, <2>11, <2>12 DEF LogsAgree
  <2>15. ASSUME NEW o \in DOMAIN entered'
         PROVE  /\ within(entered, o)' = entered'[o]
                /\ Cardinality(entered'[o]) <= limitOf(o.path)
                /\ \A a \in entered'[o] :
                      a.at <= now' /\ (a.at = now' => a.nth < Cardinality(entered'[o]))
    <3>1. CASE o = k
      BY <1>1, <1>4, <2>8, <2>9, <2>12, <2>13, <3>1
    <3>2. CASE o # k
      <4>1. o \in DOMAIN entered /\ entered'[o] = entered[o]
        BY <2>13, <3>2
      <4>2. QED
        BY <1>4, <2>12, <3>2, <4>1 DEF LogsAgree
    <3>3. QED
      BY <3>1, <3>2
  <2>16. QED
    BY <2>11, <2>12, <2>14, <2>15 DEF LogsAgree, IsLog
<1>8. QED
  BY <1>5, <1>6, <1>7

(* As time passes the window lets go of the same calls in both.            *)
LEMMA TickAgrees ==
    ASSUME LogsAgree, now \in Nat, Tick
    PROVE  LogsAgree'
<1>1. /\ now' = now + 1 /\ hits' = hits
      /\ DOMAIN entered' = DOMAIN entered
      /\ \A k \in DOMAIN entered : entered'[k] = {a \in entered[k] : now' - a.at < Window}
  BY DEF Tick
<1>2. Window \in Nat
  BY EdgeAssumption
<1>3. IsLog(hits)'
  BY <1>1 DEF LogsAgree, IsLog
<1>4. ASSUME NEW k \in DOMAIN entered
      PROVE  /\ entered'[k] \subseteq entered[k] /\ entered[k] \subseteq Admission
             /\ IsFiniteSet(entered[k]) /\ IsFiniteSet(entered'[k])
             /\ Cardinality(entered'[k]) <= Cardinality(entered[k])
             /\ Cardinality(entered'[k]) \in Nat /\ Cardinality(entered[k]) \in Nat
             /\ k \in Keys
  <2>1. entered'[k] \subseteq entered[k]
    BY <1>1
  <2>2. entered[k] \subseteq Admission /\ IsFiniteSet(entered[k]) /\ k \in Keys
    BY DEF LogsAgree, IsLog
  <2>3. QED
    BY <2>1, <2>2, FS_Subset, FS_CardinalityType
<1>5. IsLog(entered)'
  BY <1>1, <1>4 DEF IsLog
<1>6. ASSUME NEW k \in Keys PROVE within(hits, k)' = within(entered, k)'
  <2>1. within(entered, k)' = IF k \in DOMAIN entered
                              THEN {a \in entered[k] : now' - a.at < Window} ELSE {}
    BY <1>1 DEF within
  <2>2. within(hits, k)' = IF k \in DOMAIN hits
                           THEN {a \in hits[k] : now' - a.at < Window} ELSE {}
    BY <1>1 DEF within
  <2>3. within(hits, k) = within(entered, k)
    BY DEF LogsAgree
  <2>4. ASSUME NEW log, IsLog(log), k \in DOMAIN log
        PROVE  {a \in log[k] : now' - a.at < Window}
                  = {a \in within(log, k) : now' - a.at < Window}
    <3>1. \A a \in log[k] : a.at \in Nat
      BY <2>4 DEF IsLog, Admission
    <3>2. QED
      BY <1>1, <1>2, <2>4, <3>1 DEF within
  <2>5. within(hits, k)' = {a \in within(hits, k) : now' - a.at < Window}
    <3>1. k \notin DOMAIN hits => within(hits, k) = {}
      BY DEF within
    <3>2. QED
      BY <2>2, <2>4, <3>1 DEF LogsAgree
  <2>6. within(entered, k)' = {a \in within(entered, k) : now' - a.at < Window}
    <3>1. k \notin DOMAIN entered => within(entered, k) = {}
      BY DEF within
    <3>2. QED
      BY <2>1, <2>4, <3>1 DEF LogsAgree
  <2>7. QED
    BY <2>3, <2>5, <2>6
<1>7. ASSUME NEW k \in DOMAIN entered'
      PROVE  /\ within(entered, k)' = entered'[k]
             /\ Cardinality(entered'[k]) <= limitOf(k.path)
             /\ \A a \in entered'[k] :
                   a.at <= now' /\ (a.at = now' => a.nth < Cardinality(entered'[k]))
  <2>1. k \in DOMAIN entered
    BY <1>1
  <2>2. within(entered, k)' = entered'[k]
    BY <1>1, <2>1 DEF within
  <2>3. limitOf(k.path) \in Nat
    <3>1. IsPath(k.path)
      BY <1>4, <2>1, EdgeAssumption DEF Keys, Questions
    <3>2. QED
      BY <3>1, LimitOf
  <2>4. Cardinality(entered[k]) <= limitOf(k.path)
    BY <2>1 DEF LogsAgree
  <2>5. \A a \in entered'[k] : a.at \in Nat /\ a.at <= now
    BY <1>4, <2>1 DEF LogsAgree, Admission
  <2>6. QED
    BY <1>1, <1>4, <2>1, <2>2, <2>3, <2>4, <2>5
<1>8. QED
  BY <1>3, <1>5, <1>6, <1>7 DEF LogsAgree

-----------------------------------------------------------------------------
(* The door as a whole.                                                    *)
EdgeInv == crowd \in BOOLEAN /\ CallsSound /\ LogsAgree

(* A call enters, or is turned away.                                       *)
LEMMA ReceiveSound ==
    ASSUME EdgeInv, NEW c \in Calls, Receive(c)
    PROVE  EdgeInv'
<1>1. CallsSound /\ LogsAgree /\ now \in Nat /\ now' = now /\ crowd' = crowd
  BY DEF EdgeInv, CallsSound, Receive
<1> DEFINE outcomeOf(client, q) ==
              IF tooMany(client, q.path) THEN refused("RATE_LIMITED") ELSE atTheDoor(q)
           callOf(client, q) ==
              [pc |-> outcomeOf(client, q).pc, answer |-> outcomeOf(client, q).answer,
               principal |-> outcomeOf(client, q).principal,
               ran |-> FALSE, client |-> client, request |-> q, at |-> now,
               retryAfter |-> IF outcomeOf(client, q).answer = "RATE_LIMITED"
                              THEN retryAfter(client, q.path) ELSE 0]
<1>2. PICK client \in Clients, q \in Requests[crowd] :
        remember(client, q.path) /\ call' = [call EXCEPT ![c] = callOf(client, q)]
  BY DEF Receive
<1>3. q \in Questions /\ IsPath(q.path) /\ Window \in Nat
  BY EdgeAssumption DEF EdgeInv, Questions
<1>4. LogsAgree'
  BY <1>1, <1>2, <1>3, RememberAgrees
<1> DEFINE o == outcomeOf(client, q)
           d == callOf(client, q)
           r == matchRoute(q.path)
<1>5. \/ tooMany(client, q.path) /\ o = refused("RATE_LIMITED")
      \/ ~ tooMany(client, q.path) /\ r = NoRoute /\ o = refused("NOT_FOUND")
      \/ /\ ~ tooMany(client, q.path) /\ r # NoRoute /\ q.token # NoToken
         /\ o = [pc |-> "VERIFY", answer |-> "NONE", principal |-> NoPrincipal]
      \/ /\ ~ tooMany(client, q.path) /\ r # NoRoute /\ r.public
         /\ o = [pc |-> "FORWARD", answer |-> "NONE", principal |-> NoPrincipal]
      \/ /\ ~ tooMany(client, q.path) /\ r # NoRoute /\ ~ r.public
         /\ o = refused("UNAUTHENTICATED")
  BY DEF atTheDoor
<1>6. (IF o.answer = "RATE_LIMITED" THEN retryAfter(client, q.path) ELSE 0) \in Int
  <2>1. CASE tooMany(client, q.path)
    <3> DEFINE recent == within(hits, key(client, q.path))
    <3>1. recent \subseteq Admission /\ IsFiniteSet(recent)
      BY <1>1, WithinLog DEF LogsAgree
    <3>2. recent # {}
      <4>1. limitOf(q.path) >= 1 /\ limitOf(q.path) \in Nat
        BY <1>3, <2>1, LimitOf DEF tooMany
      <4>2. Cardinality(recent) >= limitOf(q.path)
        BY <2>1 DEF tooMany
      <4>3. QED
        BY <4>1, <4>2, FS_EmptySet
    <3>3. oldest(recent) \in Nat
      BY <3>1, <3>2, Oldest
    <3>4. QED
      BY <1>1, <1>3, <3>3 DEF retryAfter
  <2>2. CASE o.answer # "RATE_LIMITED"
    BY <2>2
  <2>3. QED
    BY <1>5, <2>1, <2>2 DEF refused
<1>7. /\ d.request = q /\ d.at = now /\ ~ d.ran /\ d.pc = o.pc /\ d.answer = o.answer
      /\ d.principal = o.principal
  OBVIOUS
<1> HIDE DEF o
<1>8. o.principal = NoPrincipal /\ o.pc \in {"VERIFY", "FORWARD", "OVER"} /\ o.answer \in Answers
  BY <1>5 DEF refused, Answers
<1>9. d \in Received
  BY <1>1, <1>3, <1>6, <1>8 DEF Received, Principals, o
<1> HIDE DEF d
<1>10. Underway(d)
  BY <1>5, <1>7, <1>8 DEF Underway, refused, routeOf
<1>11. Answered(d)
  <2>1. /\ r = NoRoute => declared(q) = NoEndpoint
        /\ declared(q) # NoEndpoint /\ declared(q).public => r.public
    BY <1>3, DeclaredIsCalled
  <2>2. QED
    BY <1>5, <1>7, <1>8, <2>1 DEF Answered, refused
<1>12. CallSound(d, now)
  BY <1>1, <1>7, <1>9, <1>10, <1>11 DEF CallSound
<1>13. CallsSound'
  BY <1>1, <1>2, <1>12, OneCallChanges DEF d
<1>14. QED
  BY <1>1, <1>4, <1>13 DEF EdgeInv

(* The door is shut at first.                                              *)
LEMMA EdgeInit ==
    ASSUME Init
    PROVE  EdgeInv
<1>1. CallsSound
  BY DEF Init, CallsSound, CallSound
<1>2. DOMAIN hits = {} /\ DOMAIN entered = {}
  BY DEF Init
<1>3. LogsAgree
  BY <1>2 DEF LogsAgree, IsLog, within
<1>4. QED
  BY <1>1, <1>3 DEF EdgeInv, Init

(* Every step keeps it sound.                                              *)
LEMMA EdgeStep ==
    ASSUME EdgeInv, [Next]_vars
    PROVE  EdgeInv'
<1>1. ASSUME now' = now, hits' = hits, entered' = entered PROVE LogsAgree'
  BY <1>1 DEF EdgeInv, LogsAgree, IsLog, within
<1>2. CASE UNCHANGED vars
  <2>1. CallsSound'
    BY <1>2 DEF EdgeInv, CallsSound, vars
  <2>2. QED
    BY <1>1, <1>2, <2>1 DEF EdgeInv, vars
<1>3. CASE Tick
  <2>1. now \in Nat /\ now' = now + 1 /\ call' = call /\ crowd' = crowd
    BY <1>3 DEF Tick, EdgeInv, CallsSound
  <2>2. QED
    BY <1>3, <2>1, TickSound, TickAgrees DEF EdgeInv
<1>4. ASSUME NEW c \in Calls, Receive(c) PROVE EdgeInv'
  BY <1>4, ReceiveSound
<1>5. ASSUME NEW c \in Calls, Verify(c) PROVE EdgeInv'
  <2>1. now' = now /\ hits' = hits /\ entered' = entered /\ crowd' = crowd
    BY <1>5 DEF Verify, moves, answers
  <2>2. QED
    BY <1>1, <1>5, <2>1, VerifySound DEF EdgeInv
<1>6. ASSUME NEW c \in Calls, Forward(c) PROVE EdgeInv'
  <2>1. now' = now /\ hits' = hits /\ entered' = entered /\ crowd' = crowd
    BY <1>6 DEF Forward, moves, answers
  <2>2. QED
    BY <1>1, <1>6, <2>1, ForwardSound DEF EdgeInv
<1>7. ASSUME NEW c \in Calls, Serve(c) PROVE EdgeInv'
  <2>1. now' = now /\ hits' = hits /\ entered' = entered /\ crowd' = crowd
    BY <1>7 DEF Serve, answers
  <2>2. QED
    BY <1>1, <1>7, <2>1, ServeSound DEF EdgeInv
<1>8. ASSUME NEW c \in Calls, Return(c) \/ TimeOut(c) \/ BreakOff(c) PROVE EdgeInv'
  <2>1. now' = now /\ hits' = hits /\ entered' = entered /\ crowd' = crowd
    BY <1>8 DEF Return, TimeOut, BreakOff, answers
  <2>2. QED
    BY <1>1, <1>8, <2>1, ReturnSound DEF EdgeInv
<1>9. QED
  BY <1>2, <1>3, <1>4, <1>5, <1>6, <1>7, <1>8 DEF Next, admit, proxy, serve

(* What the guards know of a call is what the property asks.               *)
LEMMA SoundIsAsDeclared ==
    ASSUME CallsSound
    PROVE  EntryAsDeclared
<1> SUFFICES ASSUME NEW c \in Calls, decided(c)
             PROVE  LET e == declared(call[c].request)
                        principal == call[c].principal
                        may == held(c) /\ mayDo(Holder[call[c].request.token], e)
                    IN /\ call[c].ran => e # NoEndpoint /\ (e.public \/ may)
                       /\ call[c].ran /\ ~ e.public => principal = Holder[call[c].request.token]
                       /\ call[c].answer = "NOT_FOUND" => e = NoEndpoint \/ call[c].ran
                       /\ call[c].answer \in {"UNAUTHENTICATED", "TOKEN_EXPIRED", "FORBIDDEN"} =>
                             /\ ~ call[c].ran
                             /\ e # NoEndpoint => ~ e.public
                       /\ call[c].answer = "UNAUTHENTICATED" /\ call[c].request.token # NoToken =>
                             ~ held(c) \/ principal = NoPrincipal
                       /\ call[c].answer = "FORBIDDEN" /\ e # NoEndpoint => held(c) /\ ~ may
                       /\ call[c].answer \in {"RATE_LIMITED", "CIRCUIT_OPEN"} => ~ call[c].ran
  BY DEF EntryAsDeclared
<1> DEFINE d == call[c]
           e == declared(d.request)
<1>1. d \in Received /\ Underway(d) /\ Answered(d)
  BY KnownCall DEF decided
<1>2. held(c) <=> heldBy(d)
  BY DEF held, heldBy
<1>3. d.principal # NoPrincipal => heldBy(d) /\ d.principal = Holder[d.request.token]
  BY <1>1 DEF Underway, identified
<1>4. ASSUME d.ran
      PROVE  e # NoEndpoint /\ (e.public \/ (d.principal # NoPrincipal /\ mayDo(d.principal, e)))
  <2>1. /\ d.request \in Questions /\ d.principal \in Principals
        /\ routeOf(d) # NoRoute /\ called(d) # NoEndpoint
        /\ canActivate(called(d), d.principal) = "OK"
    BY <1>1, <1>4 DEF Underway, Received
  <2>2. e = called(d)
    BY <2>1, DeclaredIsCalled DEF called, routeOf
  <2>3. e.public = TRUE \/ e.public = FALSE
    <3>1. IsPath(d.request.path)
      BY <2>1, EdgeAssumption DEF Questions
    <3>2. routeOf(d).upstream \in DOMAIN ControllerOf
      BY <2>1, <3>1, RouteOfService, PlacesLead DEF routeOf
    <3>3. QED
      BY <2>2, <3>2, EndpointIsPublicOrNot DEF called
  <2> HIDE DEF d, e
  <2>4. QED
    BY <2>1, <2>2, <2>3, GuardDecides
<1>5. QED
  BY <1>1, <1>2, <1>3, <1>4 DEF Answered

(* The doors are sound for good: the routing table sends every path to the *)
(* service that declares it, a call past the gateway's guard carries the   *)
(* principal of a token that held when it came, and what the guard counts  *)
(* is what the window holds.                                               *)
THEOREM DoorsAreSound == FrontSpec => []EdgeInv
<1>1. FrontInit => EdgeInv
  BY EdgeInit DEF FrontInit
<1>2. EdgeInv /\ [FrontNext]_frontVars => EdgeInv'
  <2>1. ASSUME EdgeInv, [FrontNext]_frontVars PROVE [Next]_vars
    BY <2>1 DEF FrontNext, edge, office, frontVars, edgeVars, vars
  <2>2. QED
    BY <2>1, EdgeStep
<1>3. QED
  BY <1>1, <1>2, PTL DEF FrontSpec

(* guards.ts and route-table.ts: a handler runs for whom its controller    *)
(* declares it for and for nobody else, whatever the requests, tokens and  *)
(* roles; what is refused at a door has not run, and nobody is refused     *)
(* what he may do.                                                         *)
THEOREM NobodyElseEnters == FrontSpec => []EntryAsDeclared
BY DoorsAreSound, SoundIsAsDeclared, PTL DEF EdgeInv

(* A call that is refused for its number is refused for the limit, and is  *)
(* told when the oldest of the calls that fill it stops counting.          *)
LEMMA RefusedAtTheLimit ==
    ASSUME EdgeInv, Next, NEW c \in Calls, call'[c] # call[c], call'[c].answer = "RATE_LIMITED"
    PROVE  LET inside == within(entered, key(call'[c].client, call'[c].request.path)) IN
           /\ Cardinality(inside) = limitOf(call'[c].request.path)
           /\ now + call'[c].retryAfter = oldest(inside) + Window
<1>1. CallsSound /\ LogsAgree
  BY DEF EdgeInv
<1>2. Receive(c)
  <2>1. ASSUME NEW code, code # "RATE_LIMITED", NEW to, NEW b \in Calls, call[b].pc # "IDLE",
               call[b].pc # "OVER", answers(b, code, to)
        PROVE  FALSE
    <3>1. call[b] \in Received /\ call[b].answer # "RATE_LIMITED"
      BY <1>1, <2>1, KnownCall DEF Answered
    <3>2. /\ b = c
          /\ call'[c].answer = IF call[c].answer = "NONE" THEN code ELSE call[c].answer
      BY <1>1, <2>1, <3>1 DEF answers, CallsSound, Received
    <3>3. QED
      BY <2>1, <3>1, <3>2
  <2>2. ASSUME NEW to, NEW b \in Calls, call[b].pc # "IDLE", call[b].pc # "OVER", moves(b, to)
        PROVE  FALSE
    <3>1. call[b] \in Received /\ call[b].answer # "RATE_LIMITED"
      BY <1>1, <2>2, KnownCall DEF Answered
    <3>2. b = c /\ call'[c].answer = call[c].answer
      BY <1>1, <2>2, <3>1 DEF moves, CallsSound, Received
    <3>3. QED
      BY <3>1, <3>2
  <2>3. ASSUME NEW b \in Calls, Verify(b) PROVE FALSE
    <3>1. CASE valid(call[b].request.token)
      <4>1. call[b] \in Received /\ call[b].answer # "RATE_LIMITED"
        BY <1>1, <2>3, KnownCall DEF Answered, Verify
      <4> DEFINE e == [[call[b] EXCEPT !.pc = "FORWARD"] EXCEPT !.principal = Holder[call[b].request.token]]
      <4>2. call' = [call EXCEPT ![b] = e]
        BY <1>1, <2>3, <3>1, <4>1 DEF Verify, CallsSound, Received
      <4>3. e.answer = call[b].answer
        BY <4>1 DEF Received
      <4>4. b = c /\ call'[c] = e
        BY <1>1, <4>2 DEF CallsSound
      <4>5. QED
        BY <4>1, <4>3, <4>4
    <3>2. CASE ~ valid(call[b].request.token)
      BY <2>1, <2>2, <2>3, <3>2 DEF Verify
    <3>3. QED
      BY <3>1, <3>2
  <2>4. ASSUME NEW b \in Calls, Forward(b) PROVE FALSE
    BY <2>1, <2>2, <2>4 DEF Forward
  <2>5. ASSUME NEW b \in Calls, Serve(b) PROVE FALSE
    <3>1. call[b] \in Received /\ call[b].pc = "SENT" /\ Underway(call[b])
      BY <1>1, <2>5, KnownCall DEF Serve
    <3>2. CASE call' = [call EXCEPT ![b].pc = "RAN", ![b].ran = TRUE]
      <4>1. b = c /\ call'[c].answer = call[c].answer
        BY <1>1, <3>1, <3>2 DEF CallsSound, Received
      <4>2. QED
        BY <3>1, <4>1 DEF Underway
    <3>3. CASE \E code \in {"NOT_FOUND", "UNAUTHENTICATED", "FORBIDDEN"} : answers(b, code, "OVER")
      BY <2>1, <3>1, <3>3
    <3>4. normalise([kind |-> "HTTP", status |-> 404]) = "NOT_FOUND"
      BY DEF normalise
    <3>5. \A code : normalise([kind |-> "DOMAIN", code |-> code]) = code
      BY DEF normalise
    <3>6. canActivate(endpointAt(b), forwarded(call[b].principal)) \in
             {"OK", "UNAUTHENTICATED", "FORBIDDEN"}
      <4>1. call[b].principal \in Principals /\ routeOf(call[b]) # NoRoute /\ IsPath(call[b].request.path)
        BY <3>1, EdgeAssumption DEF Received, Underway, Questions
      <4>2. upstreamOf(b) \in DOMAIN ControllerOf
        BY <4>1, RouteOfService, PlacesLead DEF routeOf, upstreamOf
      <4>3. QED
        BY <4>1, <4>2, EndpointIsPublicOrNot, GuardDecides DEF endpointAt
    <3>7. QED
      BY <2>5, <3>2, <3>3, <3>4, <3>5, <3>6 DEF Serve
  <2>6. ASSUME NEW b \in Calls, Return(b) \/ TimeOut(b) \/ BreakOff(b) PROVE FALSE
    BY <2>1, <2>6 DEF Return, TimeOut, BreakOff, normalise
  <2>7. ~ Tick
    BY DEF Tick
  <2>8. ASSUME NEW b \in Calls, Receive(b) PROVE b = c
    BY <1>1, <2>8 DEF Receive, CallsSound
  <2>9. QED
    BY <2>3, <2>4, <2>5, <2>6, <2>7, <2>8 DEF Next, admit, proxy, serve
<1>3. PICK client \in Clients, q \in Requests[crowd] :
        LET outcome == IF tooMany(client, q.path) THEN refused("RATE_LIMITED") ELSE atTheDoor(q)
        IN call' = [call EXCEPT ![c] =
              [pc |-> outcome.pc, answer |-> outcome.answer, principal |-> outcome.principal,
               ran |-> FALSE, client |-> client, request |-> q, at |-> now,
               retryAfter |-> IF outcome.answer = "RATE_LIMITED"
                              THEN retryAfter(client, q.path) ELSE 0]]
  BY <1>2 DEF Receive
<1>4. tooMany(client, q.path)
  <2>1. SUFFICES ASSUME ~ tooMany(client, q.path) PROVE FALSE
    OBVIOUS
  <2>2. call'[c].answer = atTheDoor(q).answer
    BY <1>1, <1>3, <2>1 DEF CallsSound
  <2>3. atTheDoor(q).answer # "RATE_LIMITED"
    BY DEF atTheDoor, refused
  <2>4. QED
    BY <2>2, <2>3
<1>5. /\ call'[c].client = client /\ call'[c].request = q
      /\ call'[c].retryAfter = retryAfter(client, q.path)
  BY <1>1, <1>3, <1>4 DEF CallsSound, refused
<1> DEFINE k == key(client, q.path)
           inside == within(entered, k)
<1>6. k \in Keys /\ k.path = q.path /\ IsPath(q.path)
  BY EdgeAssumption DEF key, Keys, Questions, EdgeInv
<1>7. inside = within(hits, k) /\ inside \subseteq Admission /\ Cardinality(inside) \in Nat
      /\ IsFiniteSet(inside)
  BY <1>1, <1>6, WithinLog, FS_CardinalityType DEF LogsAgree
<1>8. Cardinality(inside) >= limitOf(q.path) /\ limitOf(q.path) >= 1 /\ limitOf(q.path) \in Nat
  BY <1>4, <1>6, <1>7, LimitOf DEF tooMany
<1>9. inside # {}
  BY <1>7, <1>8, FS_EmptySet
<1>10. Cardinality(inside) <= limitOf(q.path)
  <2>1. k \in DOMAIN entered
    BY <1>9 DEF within
  <2>2. QED
    BY <1>1, <1>6, <2>1 DEF LogsAgree
<1>11. oldest(inside) \in Nat /\ now \in Nat /\ Window \in Nat
  BY <1>1, <1>7, <1>9, Oldest, EdgeAssumption DEF CallsSound
<1>12. retryAfter(client, q.path) = Window - (now - oldest(inside))
  BY <1>7 DEF retryAfter
<1>13. now + retryAfter(client, q.path) = oldest(inside) + Window
  BY <1>11, <1>12
<1>14. QED
  BY <1>5, <1>7, <1>8, <1>10, <1>13

(* route-rate-limit.guard.ts: no window holds more admitted calls of a     *)
(* client to a path than its route allows, for any limits and any window,  *)
(* however many counters are evicted; who is refused is told when to come  *)
(* back.                                                                   *)
THEOREM LimitsHold == FrontSpec => AdmittedWithinLimit
<1>1. ASSUME EdgeInv, EdgeInv', [FrontNext]_frontVars
      PROVE  [/\ entered' # entered =>
                    \A k \in DOMAIN entered' : Cardinality(entered'[k]) <= limitOf(k.path)
              /\ \A c \in Calls :
                    call'[c] # call[c] /\ call'[c].answer = "RATE_LIMITED" =>
                       LET inside == within(entered, key(call'[c].client, call'[c].request.path)) IN
                       /\ Cardinality(inside) = limitOf(call'[c].request.path)
                       /\ now + call'[c].retryAfter = oldest(inside) + Window]_vars
  <2>1. CASE Next
    <3>1. \A k \in DOMAIN entered' : Cardinality(entered'[k]) <= limitOf(k.path)
      BY <1>1 DEF EdgeInv, LogsAgree
    <3>2. QED
      BY <1>1, <2>1, <3>1, RefusedAtTheLimit
  <2>2. CASE UNCHANGED vars
    BY <2>2
  <2>3. QED
    BY <1>1, <2>1, <2>2 DEF FrontNext, edge, office, frontVars, edgeVars, vars
<1>2. QED
  BY <1>1, DoorsAreSound, PTL DEF FrontSpec, AdmittedWithinLimit

-----------------------------------------------------------------------------
(* The same doors, as the pages of the front ends see them.                *)

(* The pages see the doors that the gateway and the services have.         *)
LEMMA SameDoors ==
    ASSUME NEW path, NEW u, NEW method, NEW e, NEW p
    PROVE  /\ FrontOffice!matchRoute(path) = matchRoute(path)
           /\ FrontOffice!NoRoute = NoRoute
           /\ FrontOffice!endpointOf(u, method, path) = endpointOf(u, method, path)
           /\ FrontOffice!NoEndpoint = NoEndpoint
           /\ FrontOffice!canActivate(e, p) = canActivate(e, p)
<1>1. FrontOffice!ROUTE_TABLE = ROUTE_TABLE /\ FrontOffice!NoRoute = NoRoute
  BY DEF FrontOffice!ROUTE_TABLE, ROUTE_TABLE, FrontOffice!route, route, FrontOffice!NoRoute, NoRoute
<1>2. FrontOffice!candidates(path) = candidates(path)
  BY <1>1 DEF FrontOffice!candidates, candidates, FrontOffice!Sequence!IsPrefix, Sequence!IsPrefix
<1>3. FrontOffice!matchRoute(path) = matchRoute(path)
  BY <1>1, <1>2 DEF FrontOffice!matchRoute, matchRoute
<1>4. FrontOffice!STAFF_ROLES = STAFF_ROLES
  BY DEF FrontOffice!STAFF_ROLES, STAFF_ROLES, FrontOffice!Role, Role
<1>5. FrontOffice!ControllerOf = ControllerOf
  BY <1>4 DEF FrontOffice!ControllerOf, ControllerOf,
      FrontOffice!AuthController, FrontOffice!BookingController, FrontOffice!HotelController,
      FrontOffice!RoomController, FrontOffice!PricingController, FrontOffice!PaymentController,
      FrontOffice!StayController, FrontOffice!FinanceController,
      FrontOffice!HousekeepingController, FrontOffice!MaintenanceController,
      FrontOffice!NotificationController, FrontOffice!ReviewController,
      FrontOffice!ReportingController, FrontOffice!AuditController,
      AuthController, BookingController, HotelController, RoomController, PricingController,
      PaymentController, StayController, FinanceController, HousekeepingController,
      MaintenanceController, NotificationController, ReviewController, ReportingController,
      AuditController, FrontOffice!endpoint, endpoint, FrontOffice!Public, Public,
      FrontOffice!SignedIn, SignedIn, FrontOffice!Requires, Requires, FrontOffice!ForRoles,
      ForRoles, FrontOffice!ForStaff, ForStaff
<1>6. FrontOffice!NoEndpoint = NoEndpoint
  BY DEF FrontOffice!NoEndpoint, NoEndpoint, FrontOffice!endpoint, endpoint
<1>7. ASSUME NEW pattern
      PROVE  FrontOffice!fits(pattern, path) <=> fits(pattern, path)
  BY DEF FrontOffice!fits, fits, FrontOffice!Parameters, Parameters
<1>8. FrontOffice!endpointOf(u, method, path) = endpointOf(u, method, path)
  <2> DEFINE rows == ControllerOf[u]
             fitting == {i \in DOMAIN rows :
                            rows[i].method = method /\ fits(rows[i].path, path)}
             fittingThere == {i \in DOMAIN rows : rows[i].method = method
                                 /\ FrontOffice!fits(rows[i].path, path)}
  <2>1. fittingThere = fitting
    BY <1>7
  <2>2. FrontOffice!endpointOf(u, method, path) =
           IF fittingThere = {} THEN NoEndpoint
           ELSE rows[CHOOSE i \in fittingThere : \A j \in fittingThere : i <= j]
    BY <1>5, <1>6 DEF FrontOffice!endpointOf
  <2>3. endpointOf(u, method, path) =
           IF fitting = {} THEN NoEndpoint
           ELSE rows[CHOOSE i \in fitting : \A j \in fitting : i <= j]
    BY DEF endpointOf
  <2> HIDE DEF fitting, fittingThere, rows
  <2>4. QED
    BY <2>1, <2>2, <2>3
<1>9. FrontOffice!canActivate(e, p) = canActivate(e, p)
  BY DEF FrontOffice!canActivate, canActivate, FrontOffice!NoPrincipal, NoPrincipal,
         FrontOffice!hasPermission, hasPermission, FrontOffice!ROLE_PERMISSIONS, ROLE_PERMISSIONS,
         FrontOffice!Permission, Permission
<1>10. QED
  BY <1>1, <1>3, <1>6, <1>8, <1>9

(* An endpoint that alone fits is the one that is called.                  *)
LEMMA OnlyFits ==
    ASSUME NEW u \in DOMAIN ControllerOf, NEW method, NEW path, NEW k \in DOMAIN ControllerOf[u],
           \A i \in DOMAIN ControllerOf[u] :
              ControllerOf[u][i].method = method /\ fits(ControllerOf[u][i].path, path) <=> i = k
    PROVE  endpointOf(u, method, path) = ControllerOf[u][k]
BY EndpointOf


(* A path asks a principal for one permission and for nothing else.        *)
Asks(method, path, permission) ==
    /\ IsPath(path) /\ Len(path) >= 1 /\ path[1] \in DOMAIN ServiceOf
    /\ LET e == endpointOf(ServiceOf[path[1]], method, path) IN
          /\ e # NoEndpoint
          /\ e.public = FALSE /\ e.roles = {} /\ e.permissions = {permission}

(* It is open then to those who have the permission, with a good token.    *)
LEMMA DoorIsOpen ==
    ASSUME NEW account, NEW method, NEW path, NEW permission, Asks(method, path, permission)
    PROVE  /\ FrontOffice!doors(account, method, path) = "OK"
                 <=> account.fresh /\ hasPermission(account.roles, permission)
           /\ FrontOffice!doors(account, method, path) = "FORBIDDEN"
                 => ~ hasPermission(account.roles, permission)
<1> DEFINE r == matchRoute(path)
           e == endpointOf(r.upstream, method, path)
           bearer == [id |-> "bearer", roles |-> account.roles]
<1>1. r # NoRoute /\ r.upstream = ServiceOf[path[1]]
  BY RouteOfService DEF Asks
<1>2. e # NoEndpoint /\ e.public = FALSE /\ e.roles = {} /\ e.permissions = {permission}
  BY <1>1 DEF Asks
<1>3. FrontOffice!doors(account, method, path) =
         IF ~ account.fresh /\ ~ r.public THEN "TOKEN_EXPIRED"
         ELSE canActivate(e, IF account.fresh THEN bearer ELSE NoPrincipal)
  <2>1. FrontOffice!NoPrincipal = NoPrincipal
    BY DEF FrontOffice!NoPrincipal, NoPrincipal
  <2> HIDE DEF bearer
  <2>2. FrontOffice!doors(account, method, path) =
         CASE r = NoRoute -> "NOT_FOUND"
           [] r # NoRoute /\ ~ account.fresh /\ ~ r.public -> "TOKEN_EXPIRED"
           [] r # NoRoute /\ (account.fresh \/ r.public) ->
                 IF e = NoEndpoint THEN "NOT_FOUND"
                 ELSE canActivate(e, IF account.fresh THEN bearer ELSE NoPrincipal)
    BY <2>1, SameDoors DEF FrontOffice!doors, bearer
  <2> HIDE DEF r, e
  <2>3. QED
    BY <1>1, <1>2, <2>2
<1>4. bearer # NoPrincipal
  BY DEF NoPrincipal
<1>5. canActivate(e, NoPrincipal) = "UNAUTHENTICATED"
  BY <1>2 DEF canActivate
<1>6. canActivate(e, bearer) = IF hasPermission(account.roles, permission) THEN "OK" ELSE "FORBIDDEN"
  <2> HIDE DEF e
  <2>1. canActivate(e, bearer) =
           IF \A p \in e.permissions : hasPermission(bearer.roles, p) THEN "OK" ELSE "FORBIDDEN"
    BY <1>2, <1>4 DEF canActivate
  <2>2. QED
    BY <1>2, <2>1
<1> HIDE DEF r, e, bearer
<1>7. QED
  BY <1>3, <1>5, <1>6

(* What the buttons ask for.                                               *)
LEMMA ButtonsAsk ==
    /\ \A action \in {"assign", "start", "complete"} :
          Asks("POST", <<"housekeeping", "tasks", "x1", action>>, "HOUSEKEEPING_MANAGE")
    /\ \A action \in {"assign", "start", "resolve"} :
          Asks("POST", <<"maintenance", "tickets", "x1", action>>, "MAINTENANCE_MANAGE")
<1>1. ASSUME NEW action \in {"assign", "start", "complete"}
      PROVE  Asks("POST", <<"housekeeping", "tasks", "x1", action>>, "HOUSEKEEPING_MANAGE")
  <2> DEFINE path == <<"housekeeping", "tasks", "x1", action>>
             k == IF action = "assign" THEN 5 ELSE IF action = "start" THEN 6 ELSE 7
             C == HousekeepingController
  <2>1. IsPath(path) /\ Len(path) = 4 /\ path[1] = "housekeeping"
    BY DEF IsPath
  <2>2. ServiceOf["housekeeping"] = "housekeeping" /\ "housekeeping" \in DOMAIN ServiceOf
    BY DEF ServiceOf
  <2>3. ControllerOf["housekeeping"] = C /\ "housekeeping" \in DOMAIN ControllerOf
    BY DEF ControllerOf
  <2>4. k \in DOMAIN C /\ C[k] # NoEndpoint /\ C[k].public = FALSE /\ C[k].roles = {}
        /\ C[k].permissions = {"HOUSEKEEPING_MANAGE"}
    BY DEF HousekeepingController, Requires, endpoint, NoEndpoint
  <2>5. \A i \in DOMAIN C : C[i].method = "POST" /\ fits(C[i].path, path) <=> i = k
    BY DEF HousekeepingController, Requires, endpoint, fits, Parameters
  <2>6. endpointOf("housekeeping", "POST", path) = C[k]
    BY <2>3, <2>4, <2>5, OnlyFits
  <2> HIDE DEF C, k
  <2>7. QED
    BY <2>1, <2>2, <2>4, <2>6 DEF Asks
<1>2. ASSUME NEW action \in {"assign", "start", "resolve"}
      PROVE  Asks("POST", <<"maintenance", "tickets", "x1", action>>, "MAINTENANCE_MANAGE")
  <2> DEFINE path == <<"maintenance", "tickets", "x1", action>>
             k == IF action = "assign" THEN 6 ELSE IF action = "start" THEN 7 ELSE 8
             C == MaintenanceController
  <2>1. IsPath(path) /\ Len(path) = 4 /\ path[1] = "maintenance"
    BY DEF IsPath
  <2>2. ServiceOf["maintenance"] = "maintenance" /\ "maintenance" \in DOMAIN ServiceOf
    BY DEF ServiceOf
  <2>3. ControllerOf["maintenance"] = C /\ "maintenance" \in DOMAIN ControllerOf
    BY DEF ControllerOf
  <2>4. k \in DOMAIN C /\ C[k] # NoEndpoint /\ C[k].public = FALSE /\ C[k].roles = {}
        /\ C[k].permissions = {"MAINTENANCE_MANAGE"}
    BY DEF MaintenanceController, Requires, SignedIn, endpoint, NoEndpoint
  <2>5. \A i \in DOMAIN C : C[i].method = "POST" /\ fits(C[i].path, path) <=> i = k
    BY DEF MaintenanceController, Requires, SignedIn, endpoint, fits, Parameters
  <2>6. endpointOf("maintenance", "POST", path) = C[k]
    BY <2>3, <2>4, <2>5, OnlyFits
  <2> HIDE DEF C, k
  <2>7. QED
    BY <2>1, <2>2, <2>4, <2>6 DEF Asks
<1>3. QED
  BY <1>1, <1>2

(* What the reads of the staff app's workspaces ask for.                   *)
LEMMA ReadsAsk ==
    /\ Asks("GET", <<"bookings">>, "BOOKING_READ")
    /\ Asks("GET", <<"stays", "in-house">>, "BOOKING_READ")
    /\ Asks("GET", <<"housekeeping", "tasks">>, "HOUSEKEEPING_MANAGE")
    /\ Asks("GET", <<"maintenance", "tickets">>, "MAINTENANCE_MANAGE")
    /\ Asks("GET", <<"payments">>, "PAYMENT_READ")
    /\ Asks("GET", <<"invoices">>, "PAYMENT_READ")
<1>1. Asks("GET", <<"bookings">>, "BOOKING_READ")
  <2> DEFINE path == <<"bookings">>
             C == BookingController
  <2>1. IsPath(path) /\ Len(path) = 1 /\ path[1] = "bookings"
    BY DEF IsPath
  <2>2. ServiceOf["bookings"] = "booking" /\ "bookings" \in DOMAIN ServiceOf
    BY DEF ServiceOf
  <2>3. ControllerOf["booking"] = C /\ "booking" \in DOMAIN ControllerOf
    BY DEF ControllerOf
  <2>4. 3 \in DOMAIN C /\ C[3] # NoEndpoint /\ C[3].public = FALSE /\ C[3].roles = {}
        /\ C[3].permissions = {"BOOKING_READ"}
    BY DEF BookingController, Public, Requires, endpoint, NoEndpoint
  <2>5. \A i \in DOMAIN C : C[i].method = "GET" /\ fits(C[i].path, path) <=> i = 3
    BY DEF BookingController, Public, Requires, endpoint, fits, Parameters
  <2>6. endpointOf("booking", "GET", path) = C[3]
    BY <2>3, <2>4, <2>5, OnlyFits
  <2> HIDE DEF C
  <2>7. QED
    BY <2>1, <2>2, <2>4, <2>6 DEF Asks
<1>2. Asks("GET", <<"stays", "in-house">>, "BOOKING_READ")
  <2> DEFINE path == <<"stays", "in-house">>
             C == StayController
  <2>1. IsPath(path) /\ Len(path) = 2 /\ path[1] = "stays"
    BY DEF IsPath
  <2>2. ServiceOf["stays"] = "stay" /\ "stays" \in DOMAIN ServiceOf
    BY DEF ServiceOf
  <2>3. ControllerOf["stay"] = C /\ "stay" \in DOMAIN ControllerOf
    BY DEF ControllerOf
  <2>4. 3 \in DOMAIN C /\ C[3] # NoEndpoint /\ C[3].public = FALSE /\ C[3].roles = {}
        /\ C[3].permissions = {"BOOKING_READ"}
    BY DEF StayController, Requires, endpoint, NoEndpoint
  <2>5. \A i \in DOMAIN C : C[i].method = "GET" /\ fits(C[i].path, path) <=> i = 3
    BY DEF StayController, Requires, endpoint, fits, Parameters
  <2>6. endpointOf("stay", "GET", path) = C[3]
    BY <2>3, <2>4, <2>5, OnlyFits
  <2> HIDE DEF C
  <2>7. QED
    BY <2>1, <2>2, <2>4, <2>6 DEF Asks
<1>3. Asks("GET", <<"housekeeping", "tasks">>, "HOUSEKEEPING_MANAGE")
  <2> DEFINE path == <<"housekeeping", "tasks">>
             C == HousekeepingController
  <2>1. IsPath(path) /\ Len(path) = 2 /\ path[1] = "housekeeping"
    BY DEF IsPath
  <2>2. ServiceOf["housekeeping"] = "housekeeping" /\ "housekeeping" \in DOMAIN ServiceOf
    BY DEF ServiceOf
  <2>3. ControllerOf["housekeeping"] = C /\ "housekeeping" \in DOMAIN ControllerOf
    BY DEF ControllerOf
  <2>4. 2 \in DOMAIN C /\ C[2] # NoEndpoint /\ C[2].public = FALSE /\ C[2].roles = {}
        /\ C[2].permissions = {"HOUSEKEEPING_MANAGE"}
    BY DEF HousekeepingController, Requires, endpoint, NoEndpoint
  <2>5. \A i \in DOMAIN C : C[i].method = "GET" /\ fits(C[i].path, path) <=> i = 2
    BY DEF HousekeepingController, Requires, endpoint, fits, Parameters
  <2>6. endpointOf("housekeeping", "GET", path) = C[2]
    BY <2>3, <2>4, <2>5, OnlyFits
  <2> HIDE DEF C
  <2>7. QED
    BY <2>1, <2>2, <2>4, <2>6 DEF Asks
<1>4. Asks("GET", <<"maintenance", "tickets">>, "MAINTENANCE_MANAGE")
  <2> DEFINE path == <<"maintenance", "tickets">>
             C == MaintenanceController
  <2>1. IsPath(path) /\ Len(path) = 2 /\ path[1] = "maintenance"
    BY DEF IsPath
  <2>2. ServiceOf["maintenance"] = "maintenance" /\ "maintenance" \in DOMAIN ServiceOf
    BY DEF ServiceOf
  <2>3. ControllerOf["maintenance"] = C /\ "maintenance" \in DOMAIN ControllerOf
    BY DEF ControllerOf
  <2>4. 1 \in DOMAIN C /\ C[1] # NoEndpoint /\ C[1].public = FALSE /\ C[1].roles = {}
        /\ C[1].permissions = {"MAINTENANCE_MANAGE"}
    BY DEF MaintenanceController, Requires, SignedIn, endpoint, NoEndpoint
  <2>5. \A i \in DOMAIN C : C[i].method = "GET" /\ fits(C[i].path, path) <=> i = 1
    BY DEF MaintenanceController, Requires, SignedIn, endpoint, fits, Parameters
  <2>6. endpointOf("maintenance", "GET", path) = C[1]
    BY <2>3, <2>4, <2>5, OnlyFits
  <2> HIDE DEF C
  <2>7. QED
    BY <2>1, <2>2, <2>4, <2>6 DEF Asks
<1>5. Asks("GET", <<"payments">>, "PAYMENT_READ")
  <2> DEFINE path == <<"payments">>
             C == PaymentController
  <2>1. IsPath(path) /\ Len(path) = 1 /\ path[1] = "payments"
    BY DEF IsPath
  <2>2. ServiceOf["payments"] = "payment" /\ "payments" \in DOMAIN ServiceOf
    BY DEF ServiceOf
  <2>3. ControllerOf["payment"] = C /\ "payment" \in DOMAIN ControllerOf
    BY DEF ControllerOf
  <2>4. 2 \in DOMAIN C /\ C[2] # NoEndpoint /\ C[2].public = FALSE /\ C[2].roles = {}
        /\ C[2].permissions = {"PAYMENT_READ"}
    BY DEF PaymentController, Requires, endpoint, NoEndpoint
  <2>5. \A i \in DOMAIN C : C[i].method = "GET" /\ fits(C[i].path, path) <=> i = 2
    BY DEF PaymentController, Requires, endpoint, fits, Parameters
  <2>6. endpointOf("payment", "GET", path) = C[2]
    BY <2>3, <2>4, <2>5, OnlyFits
  <2> HIDE DEF C
  <2>7. QED
    BY <2>1, <2>2, <2>4, <2>6 DEF Asks
<1>6. Asks("GET", <<"invoices">>, "PAYMENT_READ")
  <2> DEFINE path == <<"invoices">>
             C == FinanceController
  <2>1. IsPath(path) /\ Len(path) = 1 /\ path[1] = "invoices"
    BY DEF IsPath
  <2>2. ServiceOf["invoices"] = "finance" /\ "invoices" \in DOMAIN ServiceOf
    BY DEF ServiceOf
  <2>3. ControllerOf["finance"] = C /\ "finance" \in DOMAIN ControllerOf
    BY DEF ControllerOf
  <2>4. 2 \in DOMAIN C /\ C[2] # NoEndpoint /\ C[2].public = FALSE /\ C[2].roles = {}
        /\ C[2].permissions = {"PAYMENT_READ"}
    BY DEF FinanceController, Requires, endpoint, NoEndpoint
  <2>5. \A i \in DOMAIN C : C[i].method = "GET" /\ fits(C[i].path, path) <=> i = 2
    BY DEF FinanceController, Requires, endpoint, fits, Parameters
  <2>6. endpointOf("finance", "GET", path) = C[2]
    BY <2>3, <2>4, <2>5, OnlyFits
  <2> HIDE DEF C
  <2>7. QED
    BY <2>1, <2>2, <2>4, <2>6 DEF Asks
<1>7. QED
  BY <1>1, <1>2, <1>3, <1>4, <1>5, <1>6

(* The permission that all reads of a workspace ask for.                   *)
PagePermission ==
    [reception |-> "BOOKING_READ", housekeeping |-> "HOUSEKEEPING_MANAGE",
     maintenance |-> "MAINTENANCE_MANAGE", finance |-> "PAYMENT_READ"]

(* A page of a workspace asks for one permission.                          *)
LEMMA PagesAsk ==
    /\ DOMAIN FrontOffice!StaffPages = DOMAIN PagePermission
    /\ \A p \in DOMAIN PagePermission : \A r \in DOMAIN FrontOffice!StaffPages[p] :
          /\ Asks("GET", FrontOffice!StaffPages[p][r].path, PagePermission[p])
          /\ FrontOffice!StaffPages[p][r].onFailure \in {"ALERT", "INSTEAD", "NONE"}
<1>1. DOMAIN FrontOffice!StaffPages = DOMAIN PagePermission
  BY DEF FrontOffice!StaffPages, PagePermission
<1>2. ASSUME NEW r \in DOMAIN FrontOffice!ReceptionPage
      PROVE  /\ Asks("GET", FrontOffice!ReceptionPage[r].path, "BOOKING_READ")
             /\ FrontOffice!ReceptionPage[r].onFailure \in {"ALERT", "INSTEAD", "NONE"}
  BY ReadsAsk DEF FrontOffice!ReceptionPage, FrontOffice!read, FrontOffice!StaffData
<1>3. ASSUME NEW r \in DOMAIN FrontOffice!FinancePage
      PROVE  /\ Asks("GET", FrontOffice!FinancePage[r].path, "PAYMENT_READ")
             /\ FrontOffice!FinancePage[r].onFailure \in {"ALERT", "INSTEAD", "NONE"}
  BY ReadsAsk DEF FrontOffice!FinancePage, FrontOffice!read, FrontOffice!StaffData
<1>4. ASSUME NEW r \in DOMAIN FrontOffice!HousekeepingPage
      PROVE  /\ Asks("GET", FrontOffice!HousekeepingPage[r].path, "HOUSEKEEPING_MANAGE")
             /\ FrontOffice!HousekeepingPage[r].onFailure \in {"ALERT", "INSTEAD", "NONE"}
  BY ReadsAsk DEF FrontOffice!HousekeepingPage, FrontOffice!read, FrontOffice!StaffData
<1>5. ASSUME NEW r \in DOMAIN FrontOffice!MaintenancePage
      PROVE  /\ Asks("GET", FrontOffice!MaintenancePage[r].path, "MAINTENANCE_MANAGE")
             /\ FrontOffice!MaintenancePage[r].onFailure \in {"ALERT", "INSTEAD", "NONE"}
  BY ReadsAsk DEF FrontOffice!MaintenancePage, FrontOffice!read, FrontOffice!StaffData
<1>6. QED
  BY <1>1, <1>2, <1>3, <1>4, <1>5 DEF FrontOffice!StaffPages, PagePermission

(* roles.ts of the staff app and of contracts: who has a workspace listed  *)
(* has the permission that it asks for.                                    *)
LEMMA ListedMaySee ==
    ASSUME NEW roles, NEW p \in FrontOffice!listed(roles)
    PROVE  p \in DOMAIN PagePermission /\ hasPermission(roles, PagePermission[p])
<1>1. PICK i \in 1 .. 4 : /\ p = FrontOffice!WORKSPACES[i].id
                         /\ FrontOffice!WORKSPACES[i].roles \cap roles # {}
  BY DEF FrontOffice!listed, FrontOffice!workspacesFor, FrontOffice!WORKSPACES
<1>2. PICK role \in roles : role \in FrontOffice!WORKSPACES[i].roles
  BY <1>1
<1>3. p \in DOMAIN PagePermission
  BY <1>1 DEF FrontOffice!WORKSPACES, FrontOffice!workspace, PagePermission
<1>4. PagePermission[p] \in ROLE_PERMISSIONS[role]
  BY <1>1, <1>2 DEF FrontOffice!WORKSPACES, FrontOffice!workspace, PagePermission,
                    ROLE_PERMISSIONS, Permission
<1>5. QED
  BY <1>2, <1>3, <1>4 DEF hasPermission

-----------------------------------------------------------------------------
(* The front ends. What is told of a row, of a page and of a button.       *)

(* A token that is good, and the permission that is asked for.             *)
May(account, permission) == account.fresh /\ hasPermission(account.roles, permission)

RowPermission(id) == IF id \in Tasks THEN "HOUSEKEEPING_MANAGE" ELSE "MAINTENANCE_MANAGE"

TaskStatuses == DOMAIN FrontOffice!HousekeepingService!TASK_TRANSITIONS

TicketStatuses == DOMAIN FrontOffice!MaintenanceService!TICKET_TRANSITIONS

(* A row has a status of its table, and so has the one a handler is at.    *)
HasStatus(row, statuses) == "status" \in DOMAIN row /\ row.status \in statuses

TasksSound ==
    /\ DOMAIN task = Tasks /\ DOMAIN keeper = Handlers
    /\ \A t \in Tasks : task[t] # NoTask => HasStatus(task[t], TaskStatuses)
    /\ \A h \in Handlers : keeper[h].pc # "FREE" =>
          keeper[h].task \in Tasks /\ HasStatus(task[keeper[h].task], TaskStatuses)

TicketsSound ==
    /\ DOMAIN ticket = Tickets /\ DOMAIN bench = Handlers
    /\ \A k \in Tickets : ticket[k] # NoTicket => HasStatus(ticket[k], TicketStatuses)
    /\ \A h \in Handlers : bench[h].pc # "FREE" =>
          bench[h].ticket \in Tickets /\ HasStatus(ticket[bench[h].ticket], TicketStatuses)

(* A row with a status of its table, shown to whom may change it.          *)
ShownTo(account, id, status) ==
    /\ \/ id \in Tasks /\ status \in TaskStatuses
       \/ id \in Tickets /\ status \in TicketStatuses
    /\ May(account, RowPermission(id))

(* A listed workspace does not say that the role may not see it.           *)
Welcoming(account, v) ==
    v.dest.app = "STAFF" /\ v.dest.page \in FrontOffice!listed(account.roles) =>
        \A r \in DOMAIN v.drawn : v.drawn[r] # "NOT_FOR_ROLE"

PageSound(account, v) ==
    v.place = "PAGE" =>
        /\ account # NoAccount
        /\ Welcoming(account, v)
        /\ \A id \in DOMAIN v.rows : ShownTo(account, id, v.rows[id])

(* What is told of a refusal.                                              *)
Excused(account, c) ==
    \/ c.code \in FrontOffice!unanswered \cup {"INTERNAL_ERROR"}
    \/ c.found.status # c.shown
    \/ c.action = "start" /\ c.found.assignee # account.id
    \/ c.action = "complete" /\ c.found.open # {} /\ c.found.status = "IN_PROGRESS"

Pressed(account, c) ==
    /\ {"id", "action", "shown"} \subseteq DOMAIN c
    /\ ShownTo(account, c.id, c.shown)
    /\ c.action = FrontOffice!offered(c.id, c.shown)
    /\ c.action # "none"

ClickSound(account, c) ==
    /\ "pc" \in DOMAIN c
    /\ c.pc # "NONE" => account # NoAccount
    /\ c.pc \in {"SENT", "AT_WORK", "WRITTEN"} => Pressed(account, c)
    /\ c.pc = "REFUSED" => Excused(account, c)

BrowsersSound ==
    /\ DOMAIN session = Browsers /\ DOMAIN visit = Browsers /\ DOMAIN click = Browsers
    /\ \A b \in Browsers : PageSound(session[b], visit[b]) /\ ClickSound(session[b], click[b])

(* What the front ends keep true together.                                 *)
OfficeInv == TasksSound /\ TicketsSound /\ BrowsersSound

(* gateway.ts of app-core: a call that seems answered was.                 *)
LEMMA FetchedIsAnswered ==
    ASSUME NEW outcome \in Replies, NEW code, NEW answer \in {"OK", "FORBIDDEN"},
           FrontOffice!gatewayFetch(outcome, code) = answer
    PROVE  code = answer
<1>1. outcome \in {"ENVELOPE", "TIMEOUT", "REFUSED", "UNREADABLE"}
  BY OfficeAssumption DEF FrontOffice!Outcomes
<1>2. QED
  BY <1>1 DEF FrontOffice!gatewayFetch

(* The reads of a page are answered by the doors.                          *)
LEMMA AnsweredByDoors ==
    ASSUME NEW account, NEW d, NEW codes \in FrontOffice!answers(account, d)
    PROVE  /\ DOMAIN codes = DOMAIN FrontOffice!readsOf(d)
           /\ \A r \in DOMAIN codes : codes[r] \in {"OK", "FORBIDDEN"} =>
                 FrontOffice!doors(account, "GET", FrontOffice!readsOf(d)[r].path) = codes[r]
<1> DEFINE door == [r \in DOMAIN FrontOffice!readsOf(d) |->
                       FrontOffice!doors(account, "GET", FrontOffice!readsOf(d)[r].path)]
<1>1. PICK outcome \in [DOMAIN door -> Replies] :
        codes = [r \in DOMAIN door |-> FrontOffice!gatewayFetch(outcome[r], door[r])]
  BY DEF FrontOffice!answers
<1>2. DOMAIN door = DOMAIN FrontOffice!readsOf(d)
  OBVIOUS
<1>3. ASSUME NEW r \in DOMAIN codes, codes[r] \in {"OK", "FORBIDDEN"}
      PROVE  door[r] = codes[r]
  BY <1>1, <1>3, FetchedIsAnswered
<1>4. QED
  BY <1>1, <1>2, <1>3

(* section-state.tsx: a listed workspace is never drawn as not for the     *)
(* role, whatever its reads are answered.                                  *)
LEMMA DrawnPageWelcomes ==
    ASSUME NEW account, NEW d, NEW found,
           NEW codes, found => codes \in FrontOffice!answers(account, d)
    PROVE  Welcoming(account, FrontOffice!drawnPage(d, found, codes))
<1> DEFINE v == FrontOffice!drawnPage(d, found, codes)
           reads == FrontOffice!StaffPages[d.page]
<1>1. v.dest = d /\ v.drawn = IF found THEN FrontOffice!draw(d, codes) ELSE <<>>
  BY DEF FrontOffice!drawnPage
<1>2. CASE ~ found
  <2>1. DOMAIN v.drawn = {}
    BY <1>1, <1>2
  <2>2. QED
    BY <2>1 DEF Welcoming
<1>3. ASSUME found, d.app = "STAFF", d.page \in FrontOffice!listed(account.roles),
             NEW r \in DOMAIN v.drawn
      PROVE  v.drawn[r] # "NOT_FOR_ROLE"
  <2>1. d.page \in DOMAIN PagePermission /\ hasPermission(account.roles, PagePermission[d.page])
    BY <1>3, ListedMaySee
  <2>2. FrontOffice!readsOf(d) = reads
    BY <1>3, <2>1 DEF FrontOffice!readsOf, PagePermission
  <2>3. DOMAIN codes = DOMAIN reads /\ \A s \in DOMAIN codes : codes[s] # "FORBIDDEN"
    <3>1. DOMAIN codes = DOMAIN reads
      BY <1>3, <2>2, AnsweredByDoors
    <3>2. ASSUME NEW s \in DOMAIN codes, codes[s] = "FORBIDDEN" PROVE FALSE
      <4>1. FrontOffice!doors(account, "GET", reads[s].path) = "FORBIDDEN"
        BY <1>3, <2>2, <3>2, AnsweredByDoors
      <4>2. Asks("GET", reads[s].path, PagePermission[d.page])
        BY <2>1, <3>1, PagesAsk
      <4>3. QED
        BY <2>1, <4>1, <4>2, DoorIsOpen
    <3>3. QED
      BY <3>1, <3>2
  <2>4. \A s \in DOMAIN reads : reads[s].onFailure # "NOT_FOR_ROLE"
    BY <2>1, PagesAsk
  <2>5. r \in DOMAIN reads
        /\ v.drawn[r] = IF codes[r] = "OK" THEN "ROWS"
                        ELSE IF reads[r].onFailure \in {"ALERT", "INSTEAD"}
                             THEN FrontOffice!sayFailure(d, codes[r]) ELSE reads[r].onFailure
    <3> HIDE DEF reads
    <3>1. v.drawn = FrontOffice!draw(d, codes)
      BY <1>1, <1>3
    <3> HIDE DEF v
    <3>2. QED
      BY <1>3, <2>2, <3>1 DEF FrontOffice!draw
  <2>6. FrontOffice!sayFailure(d, codes[r]) # "NOT_FOR_ROLE"
    <3>1. codes[r] # "FORBIDDEN"
      BY <2>3, <2>5
    <3>2. QED
      BY <1>3, <3>1 DEF FrontOffice!sayFailure, FrontOffice!SectionFailure
  <2>7. QED
    BY <2>4, <2>5, <2>6
<1>4. QED
  BY <1>1, <1>2, <1>3 DEF Welcoming

(* The rows of a drawn page are those that its account may change.         *)
LEMMA DrawnRowsAreShown ==
    ASSUME TasksSound, TicketsSound, NEW account, NEW d, NEW found,
           NEW codes, found => codes \in FrontOffice!answers(account, d),
           NEW id \in DOMAIN FrontOffice!drawnPage(d, found, codes).rows
    PROVE  ShownTo(account, id, FrontOffice!drawnPage(d, found, codes).rows[id])
<1> DEFINE rows == FrontOffice!drawnPage(d, found, codes).rows
<1>1. rows = IF found /\ \A r \in DOMAIN codes : codes[r] = "OK" THEN FrontOffice!rowsOf(d) ELSE <<>>
  BY DEF FrontOffice!drawnPage
<1>2. found /\ (\A r \in DOMAIN codes : codes[r] = "OK") /\ rows = FrontOffice!rowsOf(d)
  BY <1>1
<1>3. \A r \in DOMAIN FrontOffice!readsOf(d) :
         FrontOffice!doors(account, "GET", FrontOffice!readsOf(d)[r].path) = "OK"
  BY <1>2, AnsweredByDoors
<1>4. CASE d = FrontOffice!dest("STAFF", "housekeeping")
  <2>1. rows = [t \in {o \in Tasks : task[o] # NoTask} |-> task[t].status]
    BY <1>2, <1>4 DEF FrontOffice!rowsOf, FrontOffice!dest
  <2>2. id \in Tasks /\ task[id] # NoTask /\ rows[id] = task[id].status
    BY <2>1
  <2>3. rows[id] \in TaskStatuses
    BY <2>2 DEF TasksSound, HasStatus
  <2>4. FrontOffice!doors(account, "GET", <<"housekeeping", "tasks">>) = "OK"
    BY <1>3, <1>4 DEF FrontOffice!readsOf, FrontOffice!dest, FrontOffice!StaffPages,
           FrontOffice!HousekeepingPage, FrontOffice!read, FrontOffice!StaffData
  <2>5. May(account, "HOUSEKEEPING_MANAGE")
    BY <2>4, ReadsAsk, DoorIsOpen DEF May
  <2>6. QED
    BY <2>2, <2>3, <2>5 DEF ShownTo, RowPermission
<1>5. CASE d = FrontOffice!dest("STAFF", "maintenance")
  <2>1. rows = [k \in {o \in Tickets : ticket[o] # NoTicket} |-> ticket[k].status]
    BY <1>2, <1>5 DEF FrontOffice!rowsOf, FrontOffice!dest
  <2>2. id \in Tickets /\ ticket[id] # NoTicket /\ rows[id] = ticket[id].status
    BY <2>1
  <2>3. rows[id] \in TicketStatuses /\ id \notin Tasks
    BY <2>2, OfficeAssumption DEF TicketsSound, HasStatus
  <2>4. FrontOffice!doors(account, "GET", <<"maintenance", "tickets">>) = "OK"
    BY <1>3, <1>5 DEF FrontOffice!readsOf, FrontOffice!dest, FrontOffice!StaffPages,
           FrontOffice!MaintenancePage, FrontOffice!read, FrontOffice!StaffData
  <2>5. May(account, "MAINTENANCE_MANAGE")
    BY <2>4, ReadsAsk, DoorIsOpen DEF May
  <2>6. QED
    BY <2>2, <2>3, <2>5 DEF ShownTo, RowPermission
<1>6. CASE d # FrontOffice!dest("STAFF", "housekeeping") /\ d # FrontOffice!dest("STAFF", "maintenance")
  <2>1. rows = <<>>
    BY <1>2, <1>6 DEF FrontOffice!rowsOf
  <2>2. QED
    BY <2>1
<1>7. QED
  BY <1>4, <1>5, <1>6

(* prioritisation.ts, sla.ts and the two pages: the button of a row does   *)
(* what the table lets become of its status.                               *)
LEMMA ButtonsFit ==
    /\ \A status \in TaskStatuses :
          FrontOffice!TaskAction(status) # "none" =>
              /\ FrontOffice!TaskAction(status) \in {"assign", "start", "complete"}
              /\ FrontOffice!becomes(FrontOffice!TaskAction(status))
                    \in FrontOffice!HousekeepingService!TASK_TRANSITIONS[status]
              /\ FrontOffice!TaskAction(status) = "complete" => status = "IN_PROGRESS"
    /\ \A status \in TicketStatuses :
          FrontOffice!TicketAction(status) # "none" =>
              /\ FrontOffice!TicketAction(status) \in {"assign", "start", "resolve"}
              /\ FrontOffice!becomes(FrontOffice!TicketAction(status))
                    \in FrontOffice!MaintenanceService!TICKET_TRANSITIONS[status]
<1>1. ASSUME NEW status \in TaskStatuses, FrontOffice!TaskAction(status) # "none"
      PROVE  /\ FrontOffice!TaskAction(status) \in {"assign", "start", "complete"}
             /\ FrontOffice!becomes(FrontOffice!TaskAction(status))
                   \in FrontOffice!HousekeepingService!TASK_TRANSITIONS[status]
             /\ FrontOffice!TaskAction(status) = "complete" => status = "IN_PROGRESS"
  BY <1>1 DEF TaskStatuses, FrontOffice!TaskAction, FrontOffice!becomes,
              FrontOffice!HousekeepingService!TASK_TRANSITIONS
<1>2. ASSUME NEW status \in TicketStatuses, FrontOffice!TicketAction(status) # "none"
      PROVE  /\ FrontOffice!TicketAction(status) \in {"assign", "start", "resolve"}
             /\ FrontOffice!becomes(FrontOffice!TicketAction(status))
                   \in FrontOffice!MaintenanceService!TICKET_TRANSITIONS[status]
  BY <1>2 DEF TicketStatuses, FrontOffice!TicketAction, FrontOffice!becomes,
              FrontOffice!MaintenanceService!TICKET_TRANSITIONS
<1>3. QED
  BY <1>1, <1>2

(* What the account of a pressed button is let through the doors.          *)
LEMMA PressedIsLetIn ==
    ASSUME NEW account, NEW c, Pressed(account, c)
    PROVE  FrontOffice!doors(account, "POST", FrontOffice!actionPath(c.id, c.action)) = "OK"
<1>1. CASE c.id \in Tasks
  <2>1. c.shown \in TaskStatuses
    BY <1>1, OfficeAssumption DEF Pressed, ShownTo
  <2>2. c.action = FrontOffice!TaskAction(c.shown) /\ c.action # "none"
    BY <1>1 DEF Pressed, FrontOffice!offered
  <2>3. c.action \in {"assign", "start", "complete"}
    BY <2>1, <2>2, ButtonsFit
  <2>4. FrontOffice!actionPath(c.id, c.action) = <<"housekeeping", "tasks", "x1", c.action>>
    BY <1>1 DEF FrontOffice!actionPath
  <2>5. May(account, "HOUSEKEEPING_MANAGE")
    BY <1>1 DEF Pressed, ShownTo, RowPermission
  <2>6. QED
    BY <2>3, <2>4, <2>5, ButtonsAsk, DoorIsOpen DEF May
<1>2. CASE c.id \notin Tasks
  <2>1. c.shown \in TicketStatuses
    BY <1>2 DEF Pressed, ShownTo
  <2>2. c.action = FrontOffice!TicketAction(c.shown) /\ c.action # "none"
    BY <1>2 DEF Pressed, FrontOffice!offered
  <2>3. c.action \in {"assign", "start", "resolve"}
    BY <2>1, <2>2, ButtonsFit
  <2>4. FrontOffice!actionPath(c.id, c.action) = <<"maintenance", "tickets", "x1", c.action>>
    BY <1>2 DEF FrontOffice!actionPath
  <2>5. May(account, "MAINTENANCE_MANAGE")
    BY <1>2 DEF Pressed, ShownTo, RowPermission
  <2>6. QED
    BY <2>3, <2>4, <2>5, ButtonsAsk, DoorIsOpen DEF May
<1>3. QED
  BY <1>1, <1>2

(* And the service refuses it only if the row has moved on, is somebody    *)
(* else's, or has items open.                                              *)
LEMMA RefusalIsExcused ==
    ASSUME NEW b \in Browsers, NEW account, Pressed(account, click[b]), NEW code,
           \/ code = FrontOffice!reason(click[b].id, click[b].action, account) /\ code # "OK"
           \/ code \in FrontOffice!unanswered \cup {"INTERNAL_ERROR"}
    PROVE  Excused(account, FrontOffice!refusal(b, code))
<1> DEFINE c == click[b]
           row == FrontOffice!row(c.id)
           x == FrontOffice!refusal(b, code)
<1>1. /\ x.code = code /\ x.action = c.action /\ x.shown = c.shown
      /\ x.found.status = row.status /\ x.found.assignee = row.assignee
      /\ x.found.open = FrontOffice!openItems(c.id)
  BY DEF FrontOffice!refusal
<1>2. CASE code \in FrontOffice!unanswered \cup {"INTERNAL_ERROR"}
  BY <1>1, <1>2 DEF Excused
<1>3. CASE c.action = "start" /\ row.assignee # account.id
  BY <1>1, <1>3 DEF Excused
<1>4. CASE row.status # c.shown
  BY <1>1, <1>4 DEF Excused
<1>5. ASSUME row.status = c.shown, ~ (c.action = "start" /\ row.assignee # account.id),
             code = FrontOffice!reason(c.id, c.action, account), code # "OK"
      PROVE  Excused(account, x)
  <2>1. FrontOffice!becomes(c.action) \in FrontOffice!transitions(c.id)
        /\ (c.action = "complete" => c.shown = "IN_PROGRESS")
    <3>1. CASE c.id \in Tasks
      <4>1. c.shown \in TaskStatuses
        BY <3>1, OfficeAssumption DEF Pressed, ShownTo
      <4>2. c.action = FrontOffice!TaskAction(c.shown) /\ c.action # "none"
        BY <3>1 DEF Pressed, FrontOffice!offered
      <4>3. FrontOffice!transitions(c.id) = FrontOffice!HousekeepingService!TASK_TRANSITIONS[c.shown]
        BY <1>5, <3>1 DEF FrontOffice!transitions
      <4>4. QED
        BY <4>1, <4>2, <4>3, ButtonsFit
    <3>2. CASE c.id \notin Tasks
      <4>1. c.shown \in TicketStatuses
        BY <3>2 DEF Pressed, ShownTo
      <4>2. c.action = FrontOffice!TicketAction(c.shown) /\ c.action # "none"
        BY <3>2 DEF Pressed, FrontOffice!offered
      <4>3. FrontOffice!transitions(c.id) = FrontOffice!MaintenanceService!TICKET_TRANSITIONS[c.shown]
        BY <1>5, <3>2 DEF FrontOffice!transitions
      <4>4. c.action \in {"assign", "start", "resolve"}
        BY <4>1, <4>2, ButtonsFit
      <4>5. QED
        BY <4>1, <4>2, <4>3, <4>4, ButtonsFit
    <3>3. QED
      BY <3>1, <3>2
  <2>2. code = IF c.action = "complete" /\ FrontOffice!openItems(c.id) # {} THEN "CONFLICT" ELSE "OK"
    BY <1>5, <2>1 DEF FrontOffice!reason
  <2>3. QED
    BY <1>1, <1>5, <2>1, <2>2 DEF Excused
<1>6. QED
  BY <1>2, <1>3, <1>4, <1>5

-----------------------------------------------------------------------------
(* The steps. A service writes one row or none, and one of its handlers    *)
(* moves or none.                                                          *)
LEMMA TasksMove ==
    ASSUME TasksSound,
           \/ task' = task
           \/ \E t \in Tasks : \E written :
                 HasStatus(written, TaskStatuses) /\ task' = [task EXCEPT ![t] = written],
           \/ keeper' = keeper
           \/ \E h \in Handlers : \E request :
                 /\ keeper' = [keeper EXCEPT ![h] = request]
                 /\ request.pc # "FREE" =>
                       request.task \in Tasks /\ HasStatus(task[request.task], TaskStatuses)
    PROVE  TasksSound'
<1>1. DOMAIN task' = Tasks /\ DOMAIN keeper' = Handlers
  BY DEF TasksSound
<1>2. ASSUME NEW t \in Tasks
      PROVE  task'[t] = task[t] \/ HasStatus(task'[t], TaskStatuses)
  BY DEF TasksSound
<1>3. ASSUME NEW h \in Handlers, keeper'[h].pc # "FREE"
      PROVE  keeper'[h].task \in Tasks /\ HasStatus(task[keeper'[h].task], TaskStatuses)
  BY <1>3 DEF TasksSound
<1>4. ASSUME NEW t \in Tasks, task'[t] # NoTask PROVE HasStatus(task'[t], TaskStatuses)
  BY <1>2, <1>4 DEF TasksSound
<1>5. ASSUME NEW h \in Handlers, keeper'[h].pc # "FREE"
      PROVE  HasStatus(task'[keeper'[h].task], TaskStatuses)
  BY <1>2, <1>3, <1>5
<1>6. QED
  BY <1>1, <1>3, <1>4, <1>5 DEF TasksSound, HasStatus, TaskStatuses

(* The same of the repairs.                                                *)
LEMMA TicketsMove ==
    ASSUME TicketsSound,
           \/ ticket' = ticket
           \/ \E k \in Tickets : \E written :
                 HasStatus(written, TicketStatuses) /\ ticket' = [ticket EXCEPT ![k] = written],
           \/ bench' = bench
           \/ \E h \in Handlers : \E request :
                 /\ bench' = [bench EXCEPT ![h] = request]
                 /\ request.pc # "FREE" =>
                       request.ticket \in Tickets /\ HasStatus(ticket[request.ticket], TicketStatuses)
    PROVE  TicketsSound'
<1>1. DOMAIN ticket' = Tickets /\ DOMAIN bench' = Handlers
  BY DEF TicketsSound
<1>2. ASSUME NEW k \in Tickets
      PROVE  ticket'[k] = ticket[k] \/ HasStatus(ticket'[k], TicketStatuses)
  BY DEF TicketsSound
<1>3. ASSUME NEW h \in Handlers, bench'[h].pc # "FREE"
      PROVE  bench'[h].ticket \in Tickets /\ HasStatus(ticket[bench'[h].ticket], TicketStatuses)
  BY <1>3 DEF TicketsSound
<1>4. ASSUME NEW k \in Tickets, ticket'[k] # NoTicket PROVE HasStatus(ticket'[k], TicketStatuses)
  BY <1>2, <1>4 DEF TicketsSound
<1>5. ASSUME NEW h \in Handlers, bench'[h].pc # "FREE"
      PROVE  HasStatus(ticket'[bench'[h].ticket], TicketStatuses)
  BY <1>2, <1>3, <1>5
<1>6. QED
  BY <1>1, <1>3, <1>4, <1>5 DEF TicketsSound, HasStatus, TicketStatuses

(* A request that is begun is about a row that is there.                   *)
LEMMA TaskBegun ==
    ASSUME TasksSound, NEW h \in Handlers, NEW request, request.task \in Tasks,
           NEW status, FrontOffice!HousekeepingService!mayBecome(request.task, status),
           FrontOffice!HousekeepingService!begin(h, request), task' = task
    PROVE  TasksSound'
<1>1. HasStatus(task[request.task], TaskStatuses)
  BY DEF FrontOffice!HousekeepingService!mayBecome, FrontOffice!HousekeepingService!exists, TasksSound
<1>2. keeper' = [keeper EXCEPT ![h] = request]
  BY DEF FrontOffice!HousekeepingService!begin
<1>3. QED
  BY <1>1, <1>2, TasksMove

(* The same of a ticket.                                                   *)
LEMMA TicketBegun ==
    ASSUME TicketsSound, NEW h \in Handlers, NEW request, request.ticket \in Tickets,
           NEW status, FrontOffice!MaintenanceService!mayBecome(request.ticket, status),
           FrontOffice!MaintenanceService!begin(h, request), ticket' = ticket
    PROVE  TicketsSound'
<1>1. HasStatus(ticket[request.ticket], TicketStatuses)
  BY DEF FrontOffice!MaintenanceService!mayBecome, FrontOffice!MaintenanceService!exists, TicketsSound
<1>2. bench' = [bench EXCEPT ![h] = request]
  BY DEF FrontOffice!MaintenanceService!begin
<1>3. QED
  BY <1>1, <1>2, TicketsMove

(* A handler that ends has written to its row, or left it alone.           *)
LEMMA TaskEnded ==
    ASSUME TasksSound, NEW h \in Handlers, FrontOffice!HousekeepingService!end(h),
           \/ task' = task
           \/ \E written : /\ HasStatus(written, TaskStatuses)
                           /\ keeper[h].task \in Tasks
                           /\ task' = [task EXCEPT ![keeper[h].task] = written]
    PROVE  TasksSound'
<1>1. keeper' = [keeper EXCEPT ![h] = FrontOffice!HousekeepingService!Free]
      /\ FrontOffice!HousekeepingService!Free.pc = "FREE"
  BY DEF FrontOffice!HousekeepingService!end, FrontOffice!HousekeepingService!Free
<1>2. QED
  BY <1>1, TasksMove

(* The same of a ticket.                                                   *)
LEMMA TicketEnded ==
    ASSUME TicketsSound, NEW h \in Handlers, FrontOffice!MaintenanceService!end(h),
           \/ ticket' = ticket
           \/ \E written : /\ HasStatus(written, TicketStatuses)
                           /\ bench[h].ticket \in Tickets
                           /\ ticket' = [ticket EXCEPT ![bench[h].ticket] = written]
    PROVE  TicketsSound'
<1>1. bench' = [bench EXCEPT ![h] = FrontOffice!MaintenanceService!Free]
      /\ FrontOffice!MaintenanceService!Free.pc = "FREE"
  BY DEF FrontOffice!MaintenanceService!end, FrontOffice!MaintenanceService!Free
<1>2. QED
  BY <1>1, TicketsMove

(* housekeeping-service: the reads that a button starts.                   *)
LEMMA TaskReadsSound ==
    ASSUME TasksSound, NEW h \in Handlers, NEW t \in Tasks, NEW s, NEW report,
           \/ FrontOffice!HousekeepingService!readForAssign(h, t, s)
           \/ FrontOffice!HousekeepingService!readForStart(h, t, s)
           \/ FrontOffice!HousekeepingService!readForComplete(h, t, report)
    PROVE  TasksSound'
<1>1. task' = task
  BY DEF FrontOffice!HousekeepingService!readForAssign, FrontOffice!HousekeepingService!readForStart,
         FrontOffice!HousekeepingService!readForComplete
<1>2. CASE FrontOffice!HousekeepingService!readForAssign(h, t, s)
  BY <1>1, <1>2, TaskBegun DEF FrontOffice!HousekeepingService!readForAssign
<1>3. CASE FrontOffice!HousekeepingService!readForStart(h, t, s)
  BY <1>1, <1>3, TaskBegun DEF FrontOffice!HousekeepingService!readForStart
<1>4. CASE FrontOffice!HousekeepingService!readForComplete(h, t, report)
  BY <1>1, <1>4, TaskBegun DEF FrontOffice!HousekeepingService!readForComplete
<1>5. QED
  BY <1>2, <1>3, <1>4

(* maintenance-service: the same of the repairs.                           *)
LEMMA TicketReadsSound ==
    ASSUME TicketsSound, NEW h \in Handlers, NEW k \in Tickets, NEW s, NEW returning,
           \/ FrontOffice!MaintenanceService!readForAssign(h, k, s)
           \/ FrontOffice!MaintenanceService!readForStart(h, k, s)
           \/ FrontOffice!MaintenanceService!readForResolve(h, k, returning)
    PROVE  TicketsSound'
<1>1. ticket' = ticket
  BY DEF FrontOffice!MaintenanceService!readForAssign, FrontOffice!MaintenanceService!readForStart,
         FrontOffice!MaintenanceService!readForResolve
<1>2. CASE FrontOffice!MaintenanceService!readForAssign(h, k, s)
  BY <1>1, <1>2, TicketBegun DEF FrontOffice!MaintenanceService!readForAssign
<1>3. CASE FrontOffice!MaintenanceService!readForStart(h, k, s)
  BY <1>1, <1>3, TicketBegun DEF FrontOffice!MaintenanceService!readForStart
<1>4. CASE FrontOffice!MaintenanceService!readForResolve(h, k, returning)
  BY <1>1, <1>4, TicketBegun DEF FrontOffice!MaintenanceService!readForResolve
<1>5. QED
  BY <1>2, <1>3, <1>4

(* housekeeping-service: every step of a handler keeps the rows sound.     *)
LEMMA TaskHandlersSound ==
    ASSUME TasksSound, NEW h \in Handlers,
           \/ FrontOffice!HousekeepingService!Assign(h)
           \/ FrontOffice!HousekeepingService!Start(h)
           \/ FrontOffice!HousekeepingService!complete(h)
           \/ FrontOffice!HousekeepingService!verify(h)
           \/ FrontOffice!HousekeepingService!Crash(h)
    PROVE  TasksSound'
<1> DEFINE t == keeper[h].task
<1>1. keeper[h].pc # "FREE" => t \in Tasks /\ HasStatus(task[t], TaskStatuses)
  BY DEF TasksSound
<1>2. ASSUME NEW written, HasStatus(written, TaskStatuses), keeper[h].pc # "FREE",
             FrontOffice!HousekeepingService!end(h), task' = [task EXCEPT ![t] = written]
      PROVE  TasksSound'
  BY <1>1, <1>2, TaskEnded
<1>3. CASE FrontOffice!HousekeepingService!Assign(h)
  <2> DEFINE written == [task[t] EXCEPT !.status = "ASSIGNED", !.assignee = keeper[h].staff]
  <2>1. keeper[h].pc # "FREE" /\ FrontOffice!HousekeepingService!end(h)
    BY <1>3 DEF FrontOffice!HousekeepingService!Assign
  <2>2. task' = [task EXCEPT ![t] = written]
    BY <1>1, <1>3, <2>1 DEF FrontOffice!HousekeepingService!Assign, TasksSound
  <2>3. HasStatus(written, TaskStatuses)
    BY <1>1, <2>1 DEF HasStatus, TaskStatuses, FrontOffice!HousekeepingService!TASK_TRANSITIONS
  <2> HIDE DEF written, t
  <2>4. QED
    BY <1>2, <2>1, <2>2, <2>3
<1>4. CASE FrontOffice!HousekeepingService!Start(h)
  <2> DEFINE written == [task[t] EXCEPT !.status = "IN_PROGRESS"]
  <2>1. keeper[h].pc # "FREE" /\ FrontOffice!HousekeepingService!end(h)
    BY <1>4 DEF FrontOffice!HousekeepingService!Start
  <2>2. task' = [task EXCEPT ![t] = written]
    BY <1>1, <1>4, <2>1 DEF FrontOffice!HousekeepingService!Start, TasksSound
  <2>3. HasStatus(written, TaskStatuses)
    BY <1>1, <2>1 DEF HasStatus, TaskStatuses, FrontOffice!HousekeepingService!TASK_TRANSITIONS
  <2> HIDE DEF written, t
  <2>4. QED
    BY <1>2, <2>1, <2>2, <2>3
<1>5. CASE FrontOffice!HousekeepingService!complete(h)
  <2>1. CASE FrontOffice!HousekeepingService!ReadForComplete(h)
    <3>1. PICK o \in Tasks, report \in Reports :
             FrontOffice!HousekeepingService!readForComplete(h, o, report)
      BY <2>1 DEF FrontOffice!HousekeepingService!ReadForComplete
    <3>2. QED
      BY <3>1, TaskReadsSound
  <2>2. CASE FrontOffice!HousekeepingService!Complete(h)
    <3> DEFINE written == [task[t] EXCEPT !.status = "COMPLETED", !.done = TRUE]
    <3>1. keeper[h].pc # "FREE" /\ FrontOffice!HousekeepingService!end(h)
      BY <2>2 DEF FrontOffice!HousekeepingService!Complete
    <3>2. task' = [task EXCEPT ![t] = written]
      BY <1>1, <2>2, <3>1 DEF FrontOffice!HousekeepingService!Complete, TasksSound
    <3>3. HasStatus(written, TaskStatuses)
      BY <1>1, <3>1 DEF HasStatus, TaskStatuses, FrontOffice!HousekeepingService!TASK_TRANSITIONS
    <3> HIDE DEF written, t
    <3>4. QED
      BY <1>2, <3>1, <3>2, <3>3
  <2>3. QED
    BY <1>5, <2>1, <2>2 DEF FrontOffice!HousekeepingService!complete
<1>6. CASE FrontOffice!HousekeepingService!verify(h)
  <2>1. CASE FrontOffice!HousekeepingService!ReadForVerify(h)
    <3>1. PICK o \in Tasks, outcome \in {"VERIFIED", "ASSIGNED"} :
             /\ FrontOffice!HousekeepingService!mayBecome(o, outcome)
             /\ FrontOffice!HousekeepingService!begin(h, [pc |-> "VERIFY", task |-> o, outcome |-> outcome])
      BY <2>1 DEF FrontOffice!HousekeepingService!ReadForVerify
    <3>2. task' = task
      BY <2>1 DEF FrontOffice!HousekeepingService!ReadForVerify
    <3>3. QED
      BY <3>1, <3>2, TaskBegun
  <2>2. CASE FrontOffice!HousekeepingService!Verify(h)
    <3> DEFINE passed == [task[t] EXCEPT !.status = "VERIFIED"]
               failed == [task[t] EXCEPT !.status = "ASSIGNED", !.done = FALSE, !.priority = "CRITICAL"]
    <3>1. keeper[h].pc # "FREE" /\ FrontOffice!HousekeepingService!end(h)
      BY <2>2 DEF FrontOffice!HousekeepingService!Verify
    <3>2. task' = [task EXCEPT ![t] = passed] \/ task' = [task EXCEPT ![t] = failed]
      BY <1>1, <2>2, <3>1 DEF FrontOffice!HousekeepingService!Verify, TasksSound
    <3>3. HasStatus(passed, TaskStatuses) /\ HasStatus(failed, TaskStatuses)
      BY <1>1, <3>1 DEF HasStatus, TaskStatuses, FrontOffice!HousekeepingService!TASK_TRANSITIONS
    <3> HIDE DEF passed, failed, t
    <3>4. QED
      BY <1>2, <3>1, <3>2, <3>3
  <2>3. QED
    BY <1>6, <2>1, <2>2 DEF FrontOffice!HousekeepingService!verify
<1>7. CASE FrontOffice!HousekeepingService!Crash(h)
  BY <1>7, TaskEnded DEF FrontOffice!HousekeepingService!Crash
<1>8. QED
  BY <1>3, <1>4, <1>5, <1>6, <1>7

(* maintenance-service: the same of the repairs.                           *)
LEMMA TicketHandlersSound ==
    ASSUME TicketsSound, NEW h \in Handlers,
           \/ FrontOffice!MaintenanceService!Assign(h)
           \/ FrontOffice!MaintenanceService!Start(h)
           \/ FrontOffice!MaintenanceService!Resolve(h)
           \/ FrontOffice!MaintenanceService!close(h)
           \/ FrontOffice!MaintenanceService!Crash(h)
    PROVE  TicketsSound'
<1> DEFINE k == bench[h].ticket
<1>1. bench[h].pc # "FREE" => k \in Tickets /\ HasStatus(ticket[k], TicketStatuses)
  BY DEF TicketsSound
<1>2. ASSUME NEW written, HasStatus(written, TicketStatuses), bench[h].pc # "FREE",
             FrontOffice!MaintenanceService!end(h), ticket' = [ticket EXCEPT ![k] = written]
      PROVE  TicketsSound'
  BY <1>1, <1>2, TicketEnded
<1>3. CASE FrontOffice!MaintenanceService!Assign(h)
  <2> DEFINE written == [ticket[k] EXCEPT !.status = "ASSIGNED", !.assignee = bench[h].engineer]
  <2>1. bench[h].pc # "FREE" /\ FrontOffice!MaintenanceService!end(h)
    BY <1>3 DEF FrontOffice!MaintenanceService!Assign
  <2>2. ticket' = [ticket EXCEPT ![k] = written]
    BY <1>1, <1>3, <2>1 DEF FrontOffice!MaintenanceService!Assign, TicketsSound
  <2>3. HasStatus(written, TicketStatuses)
    BY <1>1, <2>1 DEF HasStatus, TicketStatuses, FrontOffice!MaintenanceService!TICKET_TRANSITIONS
  <2> HIDE DEF written, k
  <2>4. QED
    BY <1>2, <2>1, <2>2, <2>3
<1>4. CASE FrontOffice!MaintenanceService!Start(h)
  <2> DEFINE written == [ticket[k] EXCEPT !.status = "IN_PROGRESS"]
  <2>1. bench[h].pc # "FREE" /\ FrontOffice!MaintenanceService!end(h)
    BY <1>4 DEF FrontOffice!MaintenanceService!Start
  <2>2. ticket' = [ticket EXCEPT ![k] = written]
    BY <1>1, <1>4, <2>1 DEF FrontOffice!MaintenanceService!Start, TicketsSound
  <2>3. HasStatus(written, TicketStatuses)
    BY <1>1, <2>1 DEF HasStatus, TicketStatuses, FrontOffice!MaintenanceService!TICKET_TRANSITIONS
  <2> HIDE DEF written, k
  <2>4. QED
    BY <1>2, <2>1, <2>2, <2>3
<1>5. CASE FrontOffice!MaintenanceService!Resolve(h)
  <2> DEFINE written == [ticket[k] EXCEPT !.status = "RESOLVED"]
  <2>1. bench[h].pc # "FREE" /\ FrontOffice!MaintenanceService!end(h)
    BY <1>5 DEF FrontOffice!MaintenanceService!Resolve
  <2>2. ticket' = [ticket EXCEPT ![k] = written]
    BY <1>1, <1>5, <2>1 DEF FrontOffice!MaintenanceService!Resolve, TicketsSound
  <2>3. HasStatus(written, TicketStatuses)
    BY <1>1, <2>1 DEF HasStatus, TicketStatuses, FrontOffice!MaintenanceService!TICKET_TRANSITIONS
  <2> HIDE DEF written, k
  <2>4. QED
    BY <1>2, <2>1, <2>2, <2>3
<1>6. CASE FrontOffice!MaintenanceService!close(h)
  <2>1. CASE FrontOffice!MaintenanceService!ReadForClose(h)
    <3>1. PICK o \in Tickets :
             /\ FrontOffice!MaintenanceService!mayBecome(o, "CLOSED")
             /\ FrontOffice!MaintenanceService!begin(h, [pc |-> "CLOSE", ticket |-> o])
      BY <2>1 DEF FrontOffice!MaintenanceService!ReadForClose
    <3>2. ticket' = ticket
      BY <2>1 DEF FrontOffice!MaintenanceService!ReadForClose
    <3>3. QED
      BY <3>1, <3>2, TicketBegun
  <2>2. CASE FrontOffice!MaintenanceService!Close(h)
    <3> DEFINE written == [ticket[k] EXCEPT !.status = "CLOSED"]
    <3>1. bench[h].pc # "FREE" /\ FrontOffice!MaintenanceService!end(h)
      BY <2>2 DEF FrontOffice!MaintenanceService!Close
    <3>2. ticket' = [ticket EXCEPT ![k] = written]
      BY <1>1, <2>2, <3>1 DEF FrontOffice!MaintenanceService!Close, TicketsSound
    <3>3. HasStatus(written, TicketStatuses)
      BY <1>1, <3>1 DEF HasStatus, TicketStatuses, FrontOffice!MaintenanceService!TICKET_TRANSITIONS
    <3> HIDE DEF written, k
    <3>4. QED
      BY <1>2, <3>1, <3>2, <3>3
  <2>3. QED
    BY <1>6, <2>1, <2>2 DEF FrontOffice!MaintenanceService!close
<1>7. CASE FrontOffice!MaintenanceService!Crash(h)
  BY <1>7, TicketEnded DEF FrontOffice!MaintenanceService!Crash
<1>8. QED
  BY <1>3, <1>4, <1>5, <1>6, <1>7

(* What other clients of the API raise.                                    *)
LEMMA RaisedSound ==
    ASSUME TasksSound, TicketsSound, FrontOffice!Raise
    PROVE  TasksSound' /\ TicketsSound'
<1>1. CASE (\E t \in Tasks : FrontOffice!HousekeepingService!CreateTask(t))
           /\ UNCHANGED FrontOffice!ticketVars
  <2>1. PICK t \in Tasks : FrontOffice!HousekeepingService!CreateTask(t)
    BY <1>1
  <2>2. PICK clean \in Cleans :
           task' = [task EXCEPT ![t] =
              [type |-> clean.type, status |-> "PENDING", assignee |-> NoOne,
               priority |-> FrontOffice!HousekeepingService!computePriority(clean), done |-> FALSE]]
    BY <2>1 DEF FrontOffice!HousekeepingService!CreateTask
  <2>3. keeper' = keeper
    BY <2>1 DEF FrontOffice!HousekeepingService!CreateTask
  <2> DEFINE written == [type |-> clean.type, status |-> "PENDING", assignee |-> NoOne,
                 priority |-> FrontOffice!HousekeepingService!computePriority(clean), done |-> FALSE]
  <2>4. HasStatus(written, TaskStatuses)
    BY DEF HasStatus, TaskStatuses, FrontOffice!HousekeepingService!TASK_TRANSITIONS
  <2> HIDE DEF written
  <2>5. task' = [task EXCEPT ![t] = written]
    BY <2>2 DEF written
  <2>6. TasksSound'
    BY <2>3, <2>4, <2>5, TasksMove
  <2>7. ticket' = ticket /\ bench' = bench
    BY <1>1 DEF FrontOffice!ticketVars
  <2>8. QED
    BY <2>6, <2>7, TicketsMove
<1>2. CASE (\E k \in Tickets : FrontOffice!MaintenanceService!Create(k))
           /\ UNCHANGED FrontOffice!taskVars
  <2>1. PICK k \in Tickets : FrontOffice!MaintenanceService!Create(k)
    BY <1>2
  <2>2. PICK f \in Faults :
           ticket' = [ticket EXCEPT ![k] =
              [status |-> "REPORTED", assignee |-> NoOne,
               priority |-> FrontOffice!MaintenanceService!triage(f),
               takesRoomOffline |-> f.disabling]]
    BY <2>1 DEF FrontOffice!MaintenanceService!Create
  <2>3. bench' = bench
    BY <2>1 DEF FrontOffice!MaintenanceService!Create
  <2> DEFINE written == [status |-> "REPORTED", assignee |-> NoOne,
                         priority |-> FrontOffice!MaintenanceService!triage(f),
                         takesRoomOffline |-> f.disabling]
  <2>4. HasStatus(written, TicketStatuses)
    BY DEF HasStatus, TicketStatuses, FrontOffice!MaintenanceService!TICKET_TRANSITIONS
  <2> HIDE DEF written
  <2>5. ticket' = [ticket EXCEPT ![k] = written]
    BY <2>2 DEF written
  <2>6. TicketsSound'
    BY <2>3, <2>4, <2>5, TicketsMove
  <2>7. task' = task /\ keeper' = keeper
    BY <1>2 DEF FrontOffice!taskVars
  <2>8. QED
    BY <2>6, <2>7, TasksMove
<1>3. QED
  BY <1>1, <1>2 DEF FrontOffice!Raise

(* Rows that no step of the services touches stay as they are.             *)
LEMMA RowsUntouched ==
    ASSUME TasksSound, TicketsSound, UNCHANGED FrontOffice!serviceVars
    PROVE  TasksSound' /\ TicketsSound'
<1>1. task' = task /\ keeper' = keeper /\ ticket' = ticket /\ bench' = bench
  BY DEF FrontOffice!serviceVars, FrontOffice!taskVars, FrontOffice!ticketVars
<1>2. QED
  BY <1>1, TasksMove, TicketsMove

-----------------------------------------------------------------------------
(* Browsers. Only one moves at a time, but where a handler ends and answers*)
(* whoever waits for it.                                                   *)
LEMMA OneBrowserMoves ==
    ASSUME BrowsersSound, NEW b \in Browsers,
           \/ session' = session
           \/ \E a : session' = [session EXCEPT ![b] = a],
           \/ visit' = visit
           \/ \E v : visit' = [visit EXCEPT ![b] = v],
           \/ click' = click
           \/ \E c : click' = [click EXCEPT ![b] = c],
           PageSound(session'[b], visit'[b]),
           ClickSound(session'[b], click'[b])
    PROVE  BrowsersSound'
<1>1. DOMAIN session' = Browsers /\ DOMAIN visit' = Browsers /\ DOMAIN click' = Browsers
  BY DEF BrowsersSound
<1>2. ASSUME NEW o \in Browsers, o # b
      PROVE  session'[o] = session[o] /\ visit'[o] = visit[o] /\ click'[o] = click[o]
  BY <1>2 DEF BrowsersSound
<1>3. ASSUME NEW o \in Browsers
      PROVE  PageSound(session'[o], visit'[o]) /\ ClickSound(session'[o], click'[o])
  <2>1. CASE o = b
    BY <2>1
  <2>2. CASE o # b
    BY <1>2, <2>2 DEF BrowsersSound
  <2>3. QED
    BY <2>1, <2>2
<1>4. QED
  BY <1>1, <1>3 DEF BrowsersSound, PageSound, ClickSound, Welcoming, ShownTo, Pressed, Excused,
                    TaskStatuses, TicketStatuses, May, RowPermission

(* A page is drawn for the account that is signed in.                      *)
LEMMA DrawnSound ==
    ASSUME TasksSound, TicketsSound, BrowsersSound, NEW b \in Browsers, session[b] # NoAccount,
           NEW d, FrontOffice!Draw(b, d)
    PROVE  \E v : visit' = [visit EXCEPT ![b] = v] /\ PageSound(session[b], v)
<1>1. PICK found, codes :
         /\ found => codes \in FrontOffice!answers(session[b], d)
         /\ visit' = [visit EXCEPT ![b] = FrontOffice!drawnPage(d, found, codes)]
  BY DEF FrontOffice!Draw
<1> DEFINE v == FrontOffice!drawnPage(d, found, codes)
<1>2. Welcoming(session[b], v)
  BY <1>1, DrawnPageWelcomes
<1>3. \A id \in DOMAIN v.rows : ShownTo(session[b], id, v.rows[id])
  BY <1>1, DrawnRowsAreShown
<1>4. PageSound(session[b], v)
  BY <1>2, <1>3 DEF PageSound
<1>5. QED
  BY <1>1, <1>4

(* A handler that takes a button's call reads a row that is there.         *)
LEMMA AcceptedSound ==
    ASSUME TasksSound, TicketsSound, NEW h \in Handlers, NEW account, NEW c, Pressed(account, c),
           FrontOffice!accepted(h, c.id, c.action, account)
    PROVE  TasksSound' /\ TicketsSound'
<1>1. CASE c.id \in Tasks
  <2>1. c.action \in {"assign", "start", "complete"}
    <3>1. c.shown \in TaskStatuses
      BY <1>1, OfficeAssumption DEF Pressed, ShownTo
    <3>2. c.action = FrontOffice!TaskAction(c.shown) /\ c.action # "none"
      BY <1>1 DEF Pressed, FrontOffice!offered
    <3>3. QED
      BY <3>1, <3>2, ButtonsFit
  <2>2. \/ FrontOffice!HousekeepingService!readForAssign(h, c.id, account.id)
        \/ FrontOffice!HousekeepingService!readForStart(h, c.id, account.id)
        \/ FrontOffice!HousekeepingService!readForComplete(h, c.id, [ticked |-> {}, unticked |-> {}])
    BY <1>1, <2>1 DEF FrontOffice!accepted
  <2>3. TasksSound'
    BY <1>1, <2>2, TaskReadsSound
  <2>4. ticket' = ticket /\ bench' = bench
    BY <1>1 DEF FrontOffice!accepted, FrontOffice!ticketVars
  <2>5. QED
    BY <2>3, <2>4, TicketsMove
<1>2. CASE c.id \notin Tasks
  <2>1. c.id \in Tickets /\ c.action \in {"assign", "start", "resolve"}
    <3>1. c.id \in Tickets /\ c.shown \in TicketStatuses
      BY <1>2 DEF Pressed, ShownTo
    <3>2. c.action = FrontOffice!TicketAction(c.shown) /\ c.action # "none"
      BY <1>2 DEF Pressed, FrontOffice!offered
    <3>3. QED
      BY <3>1, <3>2, ButtonsFit
  <2>2. \/ FrontOffice!MaintenanceService!readForAssign(h, c.id, account.id)
        \/ FrontOffice!MaintenanceService!readForStart(h, c.id, account.id)
        \/ FrontOffice!MaintenanceService!readForResolve(h, c.id, TRUE)
    BY <1>2, <2>1 DEF FrontOffice!accepted
  <2>3. TicketsSound'
    BY <2>1, <2>2, TicketReadsSound
  <2>4. task' = task /\ keeper' = keeper
    BY <1>2 DEF FrontOffice!accepted, FrontOffice!taskVars
  <2>5. QED
    BY <2>3, <2>4, TasksMove
<1>3. QED
  BY <1>1, <1>2

(* sign-in/actions.ts and the pages: a browser that signs in, opens a page *)
(* or leaves it.                                                           *)
LEMMA BrowseSound ==
    ASSUME OfficeInv, NEW b \in Browsers, FrontOffice!browse(b)
    PROVE  OfficeInv'
<1>1. TasksSound /\ TicketsSound /\ BrowsersSound
  BY DEF OfficeInv
<1>2. PageSound(session[b], visit[b]) /\ ClickSound(session[b], click[b])
      /\ DOMAIN session = Browsers /\ DOMAIN visit = Browsers /\ DOMAIN click = Browsers
  BY <1>1 DEF BrowsersSound
<1>3. UNCHANGED FrontOffice!serviceVars
  BY DEF FrontOffice!browse, FrontOffice!SignIn, FrontOffice!Open, FrontOffice!Home, FrontOffice!Leave
<1>4. TasksSound' /\ TicketsSound'
  BY <1>1, <1>3, RowsUntouched
<1>5. \A account, v : v.place # "PAGE" => PageSound(account, v)
  BY DEF PageSound
<1>6. CASE FrontOffice!SignIn(b)
  <2>1. session[b] = NoAccount /\ click' = click
    BY <1>6 DEF FrontOffice!SignIn
  <2>2. \/ session' = session
        \/ session' = [session EXCEPT ![b] = shift.who[b]]
    BY <1>6 DEF FrontOffice!SignIn
  <2>3. \E v : visit' = [visit EXCEPT ![b] = v] /\ v.place # "PAGE"
    <3>1. PICK code \in FrontOffice!LoginCodes :
            \/ visit' = [visit EXCEPT ![b] =
                  [place |-> "SIGN_IN", said |-> FrontOffice!signInMessage(code)]]
            \/ visit' = [visit EXCEPT ![b] = FrontOffice!NoVisit]
            \/ visit' = [visit EXCEPT ![b] = [place |-> "SIGN_IN", said |-> "NO_ACCESS"]]
      BY <1>6 DEF FrontOffice!SignIn
    <3>2. /\ FrontOffice!NoVisit.place # "PAGE"
          /\ \A said : [place |-> "SIGN_IN", said |-> said].place # "PAGE"
      BY DEF FrontOffice!NoVisit
    <3>3. ASSUME NEW v, v.place # "PAGE", visit' = [visit EXCEPT ![b] = v]
          PROVE  \E w : visit' = [visit EXCEPT ![b] = w] /\ w.place # "PAGE"
      BY <3>3
    <3>4. QED
      BY <3>1, <3>2, <3>3
  <2>4. PageSound(session'[b], visit'[b])
    BY <1>2, <1>5, <2>3
  <2>5. ClickSound(session'[b], click'[b])
    BY <1>2, <2>1 DEF ClickSound
  <2>6. BrowsersSound'
    BY <1>1, <2>1, <2>2, <2>3, <2>4, <2>5, OneBrowserMoves
  <2>7. QED
    BY <1>4, <2>6 DEF OfficeInv
<1>7. CASE FrontOffice!Open(b) \/ FrontOffice!Home(b)
  <2>1. session[b] # NoAccount /\ session' = session /\ click' = click
    BY <1>7 DEF FrontOffice!Open, FrontOffice!Home
  <2>2. \E v : visit' = [visit EXCEPT ![b] = v] /\ PageSound(session[b], v)
    <3>1. CASE \E d : FrontOffice!Draw(b, d)
      BY <1>1, <2>1, <3>1, DrawnSound
    <3>2. CASE visit' = [visit EXCEPT ![b] = [place |-> "NO_WORKSPACE"]]
      <4> DEFINE v == [place |-> "NO_WORKSPACE"]
      <4>1. PageSound(session[b], v)
        BY <1>5
      <4>2. visit' = [visit EXCEPT ![b] = v]
        BY <3>2
      <4> HIDE DEF v
      <4>3. QED
        BY <4>1, <4>2
    <3>3. QED
      BY <1>7, <3>1, <3>2 DEF FrontOffice!Open, FrontOffice!Home
  <2>3. PageSound(session'[b], visit'[b]) /\ ClickSound(session'[b], click'[b])
    BY <1>2, <2>1, <2>2
  <2>4. BrowsersSound'
    BY <1>1, <2>1, <2>2, <2>3, OneBrowserMoves
  <2>5. QED
    BY <1>4, <2>4 DEF OfficeInv
<1>8. CASE FrontOffice!Leave(b)
  <2>1. /\ session' = session
        /\ visit' = [visit EXCEPT ![b] = FrontOffice!NoVisit]
        /\ click' = [click EXCEPT ![b] = FrontOffice!NoClick]
    BY <1>8 DEF FrontOffice!Leave
  <2>2. PageSound(session'[b], visit'[b])
    BY <1>2, <1>5, <2>1 DEF FrontOffice!NoVisit
  <2>3. ClickSound(session'[b], click'[b])
    BY <1>2, <2>1 DEF FrontOffice!NoClick, ClickSound
  <2>4. BrowsersSound'
    BY <1>1, <2>1, <2>2, <2>3, OneBrowserMoves
  <2>5. QED
    BY <1>4, <2>4 DEF OfficeInv
<1>9. QED
  BY <1>6, <1>7, <1>8 DEF FrontOffice!browse

(* row-action.tsx and actions.ts: a button that is pressed, reaches its    *)
(* service, is answered or given up.                                       *)
LEMMA PressSound ==
    ASSUME OfficeInv, NEW b \in Browsers, FrontOffice!press(b)
    PROVE  OfficeInv'
<1> DEFINE c == click[b]
<1>1. TasksSound /\ TicketsSound /\ BrowsersSound
  BY DEF OfficeInv
<1>2. PageSound(session[b], visit[b]) /\ ClickSound(session[b], c)
      /\ DOMAIN session = Browsers /\ DOMAIN visit = Browsers /\ DOMAIN click = Browsers
  BY <1>1 DEF BrowsersSound
<1>3. c.pc \in {"SENT", "AT_WORK", "WRITTEN"} => session[b] # NoAccount /\ Pressed(session[b], c)
  BY <1>2 DEF ClickSound
<1>4. ASSUME session' = session, visit' = visit, UNCHANGED FrontOffice!serviceVars,
             NEW x, click' = [click EXCEPT ![b] = x], ClickSound(session[b], x)
      PROVE  OfficeInv'
  <2>1. PageSound(session'[b], visit'[b]) /\ ClickSound(session'[b], click'[b])
    BY <1>2, <1>4
  <2>2. BrowsersSound'
    BY <1>1, <1>4, <2>1, OneBrowserMoves
  <2>3. QED
    BY <1>1, <1>4, <2>2, RowsUntouched DEF OfficeInv
<1>5. ASSUME c.pc \in {"SENT", "AT_WORK", "WRITTEN"}, NEW code,
             \/ code = FrontOffice!reason(c.id, c.action, session[b]) /\ code # "OK"
             \/ code \in FrontOffice!unanswered \cup {"INTERNAL_ERROR"}
      PROVE  ClickSound(session[b], FrontOffice!refusal(b, code))
  <2>1. Excused(session[b], FrontOffice!refusal(b, code))
    BY <1>3, <1>5, RefusalIsExcused
  <2>2. "pc" \in DOMAIN FrontOffice!refusal(b, code) /\ FrontOffice!refusal(b, code).pc = "REFUSED"
    BY DEF FrontOffice!refusal
  <2>3. QED
    BY <1>3, <1>5, <2>1, <2>2 DEF ClickSound
<1>6. CASE FrontOffice!Click(b)
  <2>1. session' = session /\ visit' = visit /\ UNCHANGED FrontOffice!serviceVars
        /\ visit[b].place = "PAGE"
    BY <1>6 DEF FrontOffice!Click
  <2>2. PICK id \in DOMAIN visit[b].rows, brief \in BOOLEAN :
           LET shown == visit[b].rows[id]
               action == FrontOffice!offered(id, shown)
           IN /\ action # "none"
              /\ click' = [click EXCEPT ![b] =
                    [pc |-> IF brief THEN "NONE" ELSE "SENT", id |-> id, action |-> action,
                     shown |-> shown]]
    BY <1>6 DEF FrontOffice!Click
  <2> DEFINE x == [pc |-> IF brief THEN "NONE" ELSE "SENT", id |-> id,
                   action |-> FrontOffice!offered(id, visit[b].rows[id]),
                   shown |-> visit[b].rows[id]]
  <2>3. session[b] # NoAccount /\ ShownTo(session[b], id, visit[b].rows[id])
    BY <1>2, <2>1 DEF PageSound
  <2>4. Pressed(session[b], x)
    BY <2>2, <2>3 DEF Pressed
  <2>5. "pc" \in DOMAIN x /\ x.pc \in {"NONE", "SENT"}
    OBVIOUS
  <2> HIDE DEF x
  <2>6. ClickSound(session[b], x)
    BY <2>3, <2>4, <2>5 DEF ClickSound
  <2>7. click' = [click EXCEPT ![b] = x]
    BY <2>2 DEF x
  <2>8. QED
    BY <1>4, <2>1, <2>6, <2>7
<1>7. CASE FrontOffice!Reach(b)
  <2> DEFINE door == FrontOffice!doors(session[b], "POST", FrontOffice!actionPath(c.id, c.action))
             why == FrontOffice!reason(c.id, c.action, session[b])
  <2>1. c.pc = "SENT" /\ session' = session /\ visit' = visit
    BY <1>7 DEF FrontOffice!Reach
  <2>2. door = "OK"
    BY <1>3, <2>1, PressedIsLetIn
  <2>3. \/ /\ door # "OK"
           /\ click' = [click EXCEPT ![b] = FrontOffice!refusal(b, door)]
           /\ UNCHANGED FrontOffice!serviceVars
        \/ /\ door = "OK" /\ why # "OK"
           /\ click' = [click EXCEPT ![b] = FrontOffice!refusal(b, why)]
           /\ UNCHANGED FrontOffice!serviceVars
        \/ /\ door = "OK" /\ why = "OK"
           /\ \E h \in Handlers :
                 /\ FrontOffice!accepted(h, c.id, c.action, session[b])
                 /\ click' = [click EXCEPT ![b] =
                       [pc |-> "AT_WORK", id |-> c.id, action |-> c.action, shown |-> @.shown,
                        handler |-> h]]
    BY <1>7 DEF FrontOffice!Reach
  <2>4. CASE why # "OK"
    <3>1. click' = [click EXCEPT ![b] = FrontOffice!refusal(b, why)]
          /\ UNCHANGED FrontOffice!serviceVars
      BY <2>2, <2>3, <2>4
    <3>2. ClickSound(session[b], FrontOffice!refusal(b, why))
      BY <1>5, <2>1, <2>4
    <3>3. QED
      BY <1>4, <2>1, <3>1, <3>2
  <2>5. CASE why = "OK"
    <3>1. PICK h \in Handlers :
             /\ FrontOffice!accepted(h, c.id, c.action, session[b])
             /\ click' = [click EXCEPT ![b] =
                   [pc |-> "AT_WORK", id |-> c.id, action |-> c.action, shown |-> c.shown,
                    handler |-> h]]
      BY <2>2, <2>3, <2>5
    <3> DEFINE x == [pc |-> "AT_WORK", id |-> c.id, action |-> c.action, shown |-> c.shown,
                     handler |-> h]
    <3>2. Pressed(session[b], x)
      BY <1>3, <2>1 DEF Pressed
    <3>3. "pc" \in DOMAIN x /\ x.pc = "AT_WORK"
      OBVIOUS
    <3> HIDE DEF x
    <3>4. ClickSound(session[b], x)
      BY <1>3, <2>1, <3>2, <3>3 DEF ClickSound
    <3>5. click' = [click EXCEPT ![b] = x]
      BY <3>1 DEF x
    <3>6. PageSound(session'[b], visit'[b]) /\ ClickSound(session'[b], click'[b])
      BY <1>2, <2>1, <3>4, <3>5
    <3>7. BrowsersSound'
      BY <1>1, <2>1, <3>5, <3>6, OneBrowserMoves
    <3>8. TasksSound' /\ TicketsSound'
      BY <1>1, <1>3, <2>1, <3>1, AcceptedSound
    <3>9. QED
      BY <3>7, <3>8 DEF OfficeInv
  <2>6. QED
    BY <2>4, <2>5
<1>8. CASE FrontOffice!Reload(b)
  <2>1. c.pc = "WRITTEN" /\ session' = session /\ UNCHANGED FrontOffice!serviceVars
        /\ click' = [click EXCEPT ![b] = FrontOffice!NoClick]
    BY <1>8 DEF FrontOffice!Reload
  <2>2. session[b] # NoAccount
    BY <1>3, <2>1
  <2>3. \E v : visit' = [visit EXCEPT ![b] = v] /\ PageSound(session[b], v)
    BY <1>1, <1>8, <2>2, DrawnSound DEF FrontOffice!Reload
  <2>4. PageSound(session'[b], visit'[b])
    BY <1>2, <2>1, <2>3
  <2>5. ClickSound(session'[b], click'[b])
    BY <1>2, <2>1 DEF FrontOffice!NoClick, ClickSound
  <2>6. BrowsersSound'
    BY <1>1, <2>1, <2>3, <2>4, <2>5, OneBrowserMoves
  <2>7. QED
    BY <1>1, <2>1, <2>6, RowsUntouched DEF OfficeInv
<1>9. CASE FrontOffice!GiveUp(b)
  <2>1. c.pc \in {"SENT", "AT_WORK", "WRITTEN"} /\ session' = session /\ visit' = visit
        /\ UNCHANGED FrontOffice!serviceVars
    BY <1>9 DEF FrontOffice!GiveUp
  <2>2. PICK outcome \in Replies \ {"ENVELOPE"} :
           click' = [click EXCEPT ![b] =
              FrontOffice!refusal(b, FrontOffice!gatewayFetch(outcome, "OK"))]
    BY <1>9 DEF FrontOffice!GiveUp
  <2>3. FrontOffice!gatewayFetch(outcome, "OK") \in FrontOffice!unanswered \cup {"INTERNAL_ERROR"}
    BY OfficeAssumption DEF FrontOffice!Outcomes, FrontOffice!gatewayFetch, FrontOffice!unanswered
  <2>4. ClickSound(session[b], FrontOffice!refusal(b, FrontOffice!gatewayFetch(outcome, "OK")))
    BY <1>5, <2>1, <2>3
  <2>5. QED
    BY <1>4, <2>1, <2>2, <2>4
<1>10. QED
  BY <1>6, <1>7, <1>8, <1>9 DEF FrontOffice!press

(* Both services: a handler writes for whoever still waits, or dies and is *)
(* said to be unavailable.                                                 *)
LEMMA HandleSound ==
    ASSUME OfficeInv, NEW h \in Handlers, FrontOffice!handle(h)
    PROVE  OfficeInv'
<1>1. TasksSound /\ TicketsSound /\ BrowsersSound
  BY DEF OfficeInv
<1>2. session' = session /\ visit' = visit
  BY DEF FrontOffice!handle, FrontOffice!Write, FrontOffice!Die, FrontOffice!Inspect
<1>3. TasksSound' /\ TicketsSound'
  <2>1. ASSUME UNCHANGED FrontOffice!ticketVars PROVE TicketsSound'
    BY <1>1, <2>1, TicketsMove DEF FrontOffice!ticketVars
  <2>2. ASSUME UNCHANGED FrontOffice!taskVars PROVE TasksSound'
    BY <1>1, <2>2, TasksMove DEF FrontOffice!taskVars
  <2>3. CASE FrontOffice!Write(h)
    BY <1>1, <2>1, <2>2, <2>3, TaskHandlersSound, TicketHandlersSound DEF FrontOffice!Write,
       FrontOffice!HousekeepingService!complete
  <2>4. CASE FrontOffice!Die(h)
    BY <1>1, <2>1, <2>2, <2>4, TaskHandlersSound, TicketHandlersSound DEF FrontOffice!Die
  <2>5. CASE FrontOffice!Inspect(h)
    BY <1>1, <2>1, <2>2, <2>5, TaskHandlersSound, TicketHandlersSound DEF FrontOffice!Inspect
  <2>6. QED
    BY <2>3, <2>4, <2>5 DEF FrontOffice!handle
<1>4. ASSUME DOMAIN click' = Browsers,
             \A b \in Browsers : ClickSound(session[b], click'[b])
      PROVE  OfficeInv'
  <2>1. DOMAIN session' = Browsers /\ DOMAIN visit' = Browsers
    BY <1>1, <1>2 DEF BrowsersSound
  <2>2. \A b \in Browsers : PageSound(session'[b], visit'[b]) /\ ClickSound(session'[b], click'[b])
    BY <1>1, <1>2, <1>4 DEF BrowsersSound
  <2>3. BrowsersSound'
    BY <1>4, <2>1, <2>2
       DEF BrowsersSound, PageSound, ClickSound, Welcoming, ShownTo, Pressed, Excused,
           TaskStatuses, TicketStatuses, May, RowPermission
  <2>4. QED
    BY <1>3, <2>3 DEF OfficeInv
<1>5. \A b \in Browsers : ClickSound(session[b], click[b])
  BY <1>1 DEF BrowsersSound
<1>6. CASE FrontOffice!Write(h)
  <2>1. click' = [b \in Browsers |-> IF b \in FrontOffice!workingFor(h)
                                     THEN [click[b] EXCEPT !.pc = "WRITTEN"] ELSE click[b]]
    BY <1>6 DEF FrontOffice!Write
  <2>2. ASSUME NEW b \in FrontOffice!workingFor(h), b \in Browsers
        PROVE  ClickSound(session[b], [click[b] EXCEPT !.pc = "WRITTEN"])
    <3> DEFINE x == [click[b] EXCEPT !.pc = "WRITTEN"]
    <3>1. click[b].pc = "AT_WORK"
      BY <2>2 DEF FrontOffice!workingFor
    <3>2. session[b] # NoAccount /\ Pressed(session[b], click[b]) /\ "pc" \in DOMAIN click[b]
      BY <1>5, <2>2, <3>1 DEF ClickSound
    <3>3. /\ DOMAIN x = DOMAIN click[b] /\ x.pc = "WRITTEN"
          /\ x.id = click[b].id /\ x.action = click[b].action /\ x.shown = click[b].shown
      BY <3>2 DEF Pressed
    <3> HIDE DEF x
    <3>4. Pressed(session[b], x)
      BY <3>2, <3>3 DEF Pressed
    <3>5. QED
      BY <3>2, <3>3, <3>4 DEF ClickSound, x
  <2>3. QED
    BY <1>4, <1>5, <2>1, <2>2
<1>7. CASE FrontOffice!Die(h)
  <2>1. click' = [b \in Browsers |-> IF b \in FrontOffice!workingFor(h)
                     THEN FrontOffice!refusal(b, "UPSTREAM_UNAVAILABLE") ELSE click[b]]
    BY <1>7 DEF FrontOffice!Die
  <2>2. ASSUME NEW b \in FrontOffice!workingFor(h), b \in Browsers
        PROVE  ClickSound(session[b], FrontOffice!refusal(b, "UPSTREAM_UNAVAILABLE"))
    <3> DEFINE x == FrontOffice!refusal(b, "UPSTREAM_UNAVAILABLE")
    <3>1. click[b].pc = "AT_WORK"
      BY <2>2 DEF FrontOffice!workingFor
    <3>2. session[b] # NoAccount /\ Pressed(session[b], click[b])
      BY <1>5, <2>2, <3>1 DEF ClickSound
    <3>3. "UPSTREAM_UNAVAILABLE" \in FrontOffice!unanswered \cup {"INTERNAL_ERROR"}
      BY DEF FrontOffice!unanswered
    <3>4. Excused(session[b], x)
      BY <2>2, <3>2, <3>3, RefusalIsExcused
    <3>5. "pc" \in DOMAIN x /\ x.pc = "REFUSED"
      BY DEF FrontOffice!refusal
    <3> HIDE DEF x
    <3>6. QED
      BY <3>2, <3>4, <3>5 DEF ClickSound, x
  <2>3. QED
    BY <1>4, <1>5, <2>1, <2>2
<1>8. CASE FrontOffice!Inspect(h)
  <2>1. click' = click
    BY <1>8 DEF FrontOffice!Inspect
  <2>2. QED
    BY <1>1, <1>4, <1>5, <2>1 DEF BrowsersSound
<1>9. QED
  BY <1>6, <1>7, <1>8 DEF FrontOffice!handle

(* Steps that leave the browsers alone.                                    *)
LEMMA BrowsersUntouched ==
    ASSUME BrowsersSound, session' = session, visit' = visit, click' = click
    PROVE  BrowsersSound'
BY DEF BrowsersSound, PageSound, ClickSound, Welcoming, ShownTo, Pressed, Excused,
       TaskStatuses, TicketStatuses, May, RowPermission

(* No row, no session and no button at first.                              *)
LEMMA OfficeInit == FrontOffice!Init => OfficeInv
<1> SUFFICES ASSUME FrontOffice!Init PROVE OfficeInv
  OBVIOUS
<1>1. TasksSound
  BY DEF FrontOffice!Init, FrontOffice!HousekeepingService!Init,
         FrontOffice!HousekeepingService!Free, TasksSound
<1>2. TicketsSound
  BY DEF FrontOffice!Init, FrontOffice!MaintenanceService!Init,
         FrontOffice!MaintenanceService!Free, TicketsSound
<1>3. BrowsersSound
  BY DEF FrontOffice!Init, FrontOffice!NoVisit, FrontOffice!NoClick, BrowsersSound, PageSound,
         ClickSound
<1>4. QED
  BY <1>1, <1>2, <1>3 DEF OfficeInv

(* Every step of the front ends and of their two services.                 *)
LEMMA OfficeStep == OfficeInv /\ [FrontOffice!Next]_officeVars => OfficeInv'
<1> SUFFICES ASSUME OfficeInv, [FrontOffice!Next]_officeVars PROVE OfficeInv'
  OBVIOUS
<1>1. TasksSound /\ TicketsSound /\ BrowsersSound
  BY DEF OfficeInv
<1>2. CASE UNCHANGED officeVars
  <2>1. /\ session' = session /\ visit' = visit /\ click' = click
        /\ task' = task /\ keeper' = keeper /\ ticket' = ticket /\ bench' = bench
    BY <1>2 DEF officeVars
  <2>2. QED
    BY <1>1, <2>1, TasksMove, TicketsMove, BrowsersUntouched DEF OfficeInv
<1>3. CASE FrontOffice!Raise
  <2>1. session' = session /\ visit' = visit /\ click' = click
    BY <1>3 DEF FrontOffice!Raise
  <2>2. QED
    BY <1>1, <1>3, <2>1, RaisedSound, BrowsersUntouched DEF OfficeInv
<1>4. CASE FrontOffice!Publish \/ FrontOffice!Revalidate
  <2>1. session' = session /\ visit' = visit /\ click' = click /\ UNCHANGED FrontOffice!serviceVars
    BY <1>4 DEF FrontOffice!Publish, FrontOffice!Revalidate
  <2>2. QED
    BY <1>1, <2>1, RowsUntouched, BrowsersUntouched DEF OfficeInv
<1>5. ASSUME NEW b \in Browsers, FrontOffice!browse(b) \/ FrontOffice!press(b) PROVE OfficeInv'
  BY <1>5, BrowseSound, PressSound
<1>6. ASSUME NEW h \in Handlers, FrontOffice!handle(h) PROVE OfficeInv'
  BY <1>6, HandleSound
<1>7. QED
  BY <1>2, <1>3, <1>4, <1>5, <1>6 DEF FrontOffice!Next

(* The pages and the buttons are sound for good: rows and handlers have a  *)
(* status of their table, a row is shown only to whom may change it, and   *)
(* what a button sends is what the table lets become of the row it showed. *)
THEOREM PagesAreSound == FrontSpec => []OfficeInv
<1>1. FrontInit => OfficeInv
  BY OfficeInit DEF FrontInit
<1>2. OfficeInv /\ [FrontNext]_frontVars => OfficeInv'
  <2>1. ASSUME OfficeInv, [FrontNext]_frontVars PROVE [FrontOffice!Next]_officeVars
    BY <2>1 DEF FrontNext, edge, office, frontVars
  <2>2. QED
    BY <2>1, OfficeStep
<1>3. QED
  BY <1>1, <1>2, PTL DEF FrontSpec

(* roles.ts of the staff app, housekeeping/page.tsx, maintenance/page.tsx: *)
(* a workspace listed for an account never says that its role may not see  *)
(* it, and a button is refused only because the row has moved on, the work *)
(* is somebody else's, items are open that have to pass, or nobody         *)
(* answered: whatever the accounts, the rows and the handlers.             *)
THEOREM OfferedIsAcceptedHolds == FrontSpec => []OfferedIsAccepted
<1>1. OfficeInv => OfferedIsAccepted
  BY DEF OfficeInv, BrowsersSound, PageSound, ClickSound, Welcoming, Excused,
         OfferedIsAccepted, FrontOffice!OfferedIsAccepted, FrontOffice!page
<1>2. QED
  BY <1>1, PagesAreSound, PTL
=============================================================================
