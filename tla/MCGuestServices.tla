-------------------------- MODULE MCGuestServices --------------------------
(* Small instances of GuestServices. The services share no state, so rows  *)
(* of all of them are named u1, u2 and u3 and their handlers w1 and w2:    *)
(* the first two rows are interchangeable, and so are the handlers.        *)
EXTENDS GuestServices, TLC

CONSTANTS u1, u2, u3, w1, w2, confirmed, stayed, root, clerk, cleaner, guest

FewerIfBusy == [q \in BOOLEAN |-> IF q THEN 4 ELSE 2]
FewIfBusy == [q \in BOOLEAN |-> IF q THEN 5 ELSE 3]
ThreeEach == [q \in BOOLEAN |-> 3]
FourEach == [q \in BOOLEAN |-> 4]

TwoCards == {[CLEANLINESS |-> 5], [CLEANLINESS |-> 4, VALUE |-> 5]}

Flagged == {{}, {"TOO_SHORT"}, {"TOO_SHORT", "PROFANITY"}}

Caused ==
    (confirmed :> [template |-> "BOOKING_CONFIRMED", preferred |-> <<"SMS", "EMAIL">>,
                   address |-> {"EMAIL"}, complete |-> TRUE])
    @@ (stayed :> [template |-> "REVIEW_INVITATION", preferred |-> <<"EMAIL">>,
                   address |-> {"EMAIL"}, complete |-> FALSE])

Cards ==
    [from : {1, 2}, to : {2, NoBound}, base : {100}, min : {90, NoBound}, max : {80, 110, NoBound}]

(* A code for this and that, one for any suite, and three that are refused.*)
Local ==
    [type |-> "FIXED_AMOUNT", value |-> 100, currency |-> "USD", validFrom |-> 2, validTo |-> 3,
     hotelId |-> "GALLE", roomTypeIds |-> {}, minNights |-> 3, minSpend |-> 50,
     maxRedemptions |-> 1, maxPerCustomer |-> 1]

Suites ==
    [type |-> "PERCENTAGE", value |-> 9000, currency |-> NoBound, validFrom |-> 0, validTo |-> 9,
     hotelId |-> NoBound, roomTypeIds |-> {"SUITE"}, minNights |-> 1, minSpend |-> 0,
     maxRedemptions |-> NoBound, maxPerCustomer |-> 2]

Codes ==
    {Local, [Local EXCEPT !.validTo = 2],
     Suites, [Suites EXCEPT !.value = 12000], [Suites EXCEPT !.type = "FIXED_AMOUNT"]}

(* On the day, before and after, at another hotel, of another room type,   *)
(* and in another currency.                                                *)
Occasions ==
    {<<2, "GALLE", "SUITE", "USD">>, <<1, "GALLE", "SUITE", "USD">>, <<4, "GALLE", "SUITE", "USD">>,
     <<2, "KANDY", "SUITE", "USD">>, <<2, "GALLE", "TWIN", "USD">>, <<2, "GALLE", "SUITE", "EUR">>}

Spent ==
    {[now |-> w[1], hotelId |-> w[2], room |-> w[3], nights |-> n, subtotal |-> s, currency |-> w[4]] :
        w \in Occasions, n \in {2, 3}, s \in {1, 60, 800}}

OneAndTwoWords == {<<"seaside">>, <<"sea", "side">>}

Letters == [name \in OneAndTwoWords |-> "seaside"]

(* A full night and a quiet one; a Sunday and the days that follow it.     *)
Nightly ==
    {[roomsAvailable |-> 9, roomsSold |-> 7, roomRevenue |-> 730, serviceRevenue |-> 0],
     [roomsAvailable |-> 10, roomsSold |-> 1, roomRevenue |-> 250, serviceRevenue |-> 0]}

(* Three channels that share a third each, one booking that fell through.  *)
Booked ==
    {[id |-> i, channel |-> ch, status |-> "CONFIRMED", createdOn |-> 6, total |-> 100,
      nights |-> i, lead |-> 3 * i] :
        <<i, ch>> \in {<<1, "WEB">>, <<2, "PHONE">>, <<3, "AGENT">>}}
    \cup {[id |-> 4, channel |-> "AGENT", status |-> "NO_SHOW", createdOn |-> 7, total |-> 70,
           nights |-> 1, lead |-> 0],
          [id |-> 5, channel |-> "WEB", status |-> "PENDING", createdOn |-> 8, total |-> 0,
           nights |-> 2, lead |-> 0]}

Cleaned ==
    {[id |-> 1, staff |-> "ANN", date |-> 6, tasks |-> 3, minutes |-> 100, rework |-> 3],
     [id |-> 2, staff |-> "ANN", date |-> 7, tasks |-> 4, minutes |-> 90, rework |-> 0],
     [id |-> 3, staff |-> "BEN", date |-> 7, tasks |-> 0, minutes |-> 15, rework |-> 0]}

Months == [d \in {6, 7, 8} |-> IF d < 8 THEN 1 ELSE 2]

(* Listed newest first without a filter, by rank for guests, in no order.  *)
SomeLists == {"bookings", "hotels", "rooms"}

room(key) == <<"terms", "rates", "peak", "room", key>>

(* Versions of a record with values, secrets and nulls at several depths.  *)
SomeVersions ==
    {<<>>,
     (<<"name">> :> 2) @@ (<<"token">> :> 1),
     (<<"name">> :> 2) @@ (<<"token">> :> 2) @@ (<<"version">> :> 2),
     (<<"name">> :> Null) @@ (<<"terms", "min">> :> 1),
     (<<"terms", "min">> :> 2) @@ (room("a") :> 1),
     (<<"terms", "min">> :> 2) @@ (room("a") :> 2) @@ (room("token") :> 1),
     (<<"terms", "token">> :> 2) @@ (room("a") :> 1) @@ (room("token") :> 2),
     (<<"terms">> :> 1)}

Claims ==
    {[id |-> root, roles |-> {"SUPER_ADMIN"}, hotelId |-> NoHotelId],
     [id |-> clerk, roles |-> {"RECEPTIONIST"}, hotelId |-> "GALLE"],
     [id |-> cleaner, roles |-> {"HOUSEKEEPING"}, hotelId |-> "KANDY"],
     [id |-> guest, roles |-> {"CUSTOMER"}, hotelId |-> NoHotelId]}

Interchangeable == Permutations({u1, u2}) \cup Permutations({w1, w2})
=============================================================================
