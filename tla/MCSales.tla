------------------------------ MODULE MCSales ------------------------------
(***************************************************************************)
(* Small instances of Sales. The services share no state, so one model     *)
(* value may stand for a request or a key of each.                         *)
(***************************************************************************)
EXTENDS Sales, TLC
CONSTANTS r1, r2, c1, c2, p1, p2, f1, f2, f3, k1, k2, k3, none

(* Bookings. *)

MCRoomTypes == {"double"}

(* One room left: every request competes for it. *)
LastRoom == {1}
LastRoomProjection == [n \in LastRoom |-> [roomType |-> "double", status |-> "RESERVED",
                                           maxOccupancy |-> 2]]

(* Rooms whose type, status, size or rate plan rules them out. *)
MixedRooms == {1, 2, 3, 10}
MixedTypes == {"double", "suite", "attic", "unbuilt"}
MixedProjection ==
    (1 :> [roomType |-> "double", status |-> "MAINTENANCE", maxOccupancy |-> 2]) @@
    (2 :> [roomType |-> "double", status |-> "AVAILABLE", maxOccupancy |-> 2]) @@
    (3 :> [roomType |-> "suite", status |-> "OUT_OF_SERVICE", maxOccupancy |-> 4]) @@
    (10 :> [roomType |-> "attic", status |-> "AVAILABLE", maxOccupancy |-> 1])
MixedPriced == {"double", "suite", "unbuilt"}

Stay(i, o) == [checkIn |-> i, checkOut |-> o]
Dto(s, t, g, k) == [stay |-> s, roomType |-> t, guests |-> g, key |-> k]

CancelDtos == {Dto(s, "double", 2, none) : s \in {Stay(8, 10), Stay(9, 10)}}

(* At the clock readings of the run, 96 and 200 hours, these stays start   *)
(* in every band of the cancellation policy and after the last one; the    *)
(* rest are refused, each for another reason.                              *)
MixedDtos == {Dto(Stay(8, 10), "double", 2, none), Dto(Stay(9, 10), "double", 2, k1),
              Dto(Stay(11, 12), "double", 1, none), Dto(Stay(8, 9), "double", 3, none),
              Dto(Stay(8, 9), "suite", 3, none), Dto(Stay(8, 9), "attic", 1, none),
              Dto(Stay(8, 9), "unbuilt", 1, none), Dto(Stay(9, 9), "double", 1, none),
              Dto(Stay(1, 2), "double", 1, none), Dto(Stay(8, 12), "double", 1, none)}

-----------------------------------------------------------------------------
(* Payments. *)

(* As payment.module.ts wires it: cash is taken by hand, cards are not     *)
(* configured.                                                             *)
WiredGateways == [CASH |-> {"CAPTURED"}]

(* A card provider behind the PaymentGateway interface, and the cash desk. *)
CardGateways == [STRIPE |-> ChargeOutcome, CASH |-> {"CAPTURED"}]

Charged(k, p, n) == [key |-> k, provider |-> p, amount |-> n]
WiredCharges == {Charged(k1, "CASH", 3), Charged(k2, "CASH", 2), Charged(k2, "STRIPE", 2)}
CardCharges == {Charged(k1, "STRIPE", 3), Charged(k2, "CASH", 2)}

Body(k, n) == [key |-> k, amount |-> n]
(* Two partial refunds and the whole amount, with keys that may repeat.    *)
Returns == {Body(k1, 1), Body(k2, 2), Body(k3, 3)}

RequestSymmetry == Permutations(Refunds)
=============================================================================
