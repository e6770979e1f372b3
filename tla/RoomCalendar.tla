---------------------------- MODULE RoomCalendar ----------------------------
(***************************************************************************)
(* What the reservation desk promises, without requests, reads, retries or *)
(* a database: every night of every room belongs to at most one booking; a *)
(* booking takes the nights of its stay at once, from nobody, and gives    *)
(* all of them back at once; and a booking that has given them back never  *)
(* takes a night again.                                                    *)
(***************************************************************************)
EXTENDS Integers

CONSTANTS Rooms, Nights, Bookings

VARIABLES
    held,     \* held[b]: the room nights <<room, night>> that belong to b
    released  \* the bookings that have ended

vars == <<held, released>>

Init ==
    /\ held = [b \in Bookings |-> {}]
    /\ released = {}

Hold(b) ==
    /\ b \notin released
    /\ held[b] = {} /\ held'[b] # {}
    /\ \E room \in Rooms, first, last \in Nights :
          LET wanted == {room} \X (first .. last) IN
          /\ first <= last
          /\ \A other \in Bookings : held[other] \cap wanted = {}
          /\ held' = [held EXCEPT ![b] = wanted]
    /\ UNCHANGED released

Release(b) ==
    /\ held[b] # {}
    /\ held' = [held EXCEPT ![b] = {}]
    /\ released' = released \cup {b}

Next == \E b \in Bookings : Hold(b) \/ Release(b)

Spec == Init /\ [][Next]_vars
=============================================================================
