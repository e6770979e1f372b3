------------------------------- MODULE Sales -------------------------------
(***************************************************************************)
(* What a guest buys and pays for: booking-service and payment-service.    *)
(* They have a database each and nothing in the repository carries the     *)
(* events of one to the other, so they share no state: a behaviour is one  *)
(* of either service while the other has not been asked for anything.      *)
(***************************************************************************)
EXTENDS Bookings, Payments

VARIABLE service \* whose behaviour this is

salesVars == <<vars, paymentVars, service>>

SalesInit ==
    /\ service \in {"BOOKING", "PAYMENT"}
    /\ Init
    /\ PaymentInit
    /\ service = "PAYMENT" => \A t \in ClockTimes : now <= t

booking ==
    /\ service = "BOOKING"
    /\ Next
    /\ UNCHANGED <<paymentVars, service>>

paying ==
    /\ service = "PAYMENT"
    /\ PaymentNext
    /\ UNCHANGED <<vars, service>>

SalesNext == booking \/ paying

SalesSpec == SalesInit /\ [][SalesNext]_salesVars
=============================================================================
