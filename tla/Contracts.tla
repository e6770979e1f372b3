----------------------------- MODULE Contracts -----------------------------
(***************************************************************************)
(* The shared vocabulary of packages/contracts: the lifecycle statuses the *)
(* services exchange, the one table of status changes it publishes, and    *)
(* the money arithmetic (integers in minor units).                         *)
(***************************************************************************)
EXTENDS Integers

BookingStatus ==
    {"PENDING", "CONFIRMED", "CHECKED_IN", "CHECKED_OUT", "CANCELLED", "NO_SHOW"}

BOOKING_TRANSITIONS ==
    [PENDING     |-> {"CONFIRMED", "CANCELLED"},
     CONFIRMED   |-> {"CHECKED_IN", "CANCELLED", "NO_SHOW"},
     CHECKED_IN  |-> {"CHECKED_OUT"},
     CHECKED_OUT |-> {},
     CANCELLED   |-> {},
     NO_SHOW     |-> {}]

(* Mutant: every live booking may become anything.                         *)
canTransition_unchecked(from, to) == from # "CANCELLED"

canTransition(from, to) == to \in BOOKING_TRANSITIONS[from]

(* Statuses of a booking that keep its room off the market. *)
INVENTORY_HOLDING_STATUSES == {"PENDING", "CONFIRMED", "CHECKED_IN"}

PaymentStatus ==
    {"PENDING", "AUTHORIZED", "COMPLETED", "FAILED", "REFUNDED", "PARTIALLY_REFUNDED"}

RoomStatus ==
    {"AVAILABLE", "OCCUPIED", "RESERVED", "CLEANING", "MAINTENANCE", "OUT_OF_SERVICE"}

SELLABLE_ROOM_STATUSES == {"AVAILABLE", "RESERVED"}

(* multiplyMoney with the factor num/den: Math.round rounds halves up. *)
multiplyMoney(amount, num, den) == (2 * amount * num + den) \div (2 * den)
=============================================================================
