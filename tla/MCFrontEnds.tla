---------------------------- MODULE MCFrontEnds ----------------------------
(* Small instances of FrontEnds. Alone, a call may ask for every endpoint  *)
(* that a controller declares and for a few that none does, with a token   *)
(* of every role, one that runs out, one that is forged, or none. In a     *)
(* crowd, calls of two clients hit the paths with a limit; the guard takes *)
(* them one by one, so one that is under way at a time is enough.          *)
EXTENDS FrontEnds, TLC

CONSTANTS p1, p2, c1, c2, w1, w2

SoonOver == {"SOON_OVER"}
Forged == {"FORGED"}
AllTokens == Role \cup SoonOver \cup Forged

Bearer ==
    [t \in AllTokens |->
        [id |-> t, roles |-> IF t \in Role THEN {t} ELSE {"MANAGER"}]]

Sound == [t \in AllTokens |-> t \notin Forged]

RunsOut == [t \in AllTokens |-> IF t \in SoonOver THEN 1 ELSE 9]

Declared == UNION {{ControllerOf[u][i] : i \in DOMAIN ControllerOf[u]} : u \in DOMAIN ControllerOf}

filled(path) == [i \in DOMAIN path |-> IF path[i] \in Parameters THEN "x1" ELSE path[i]]

Asked ==
    {[method |-> e.method, path |-> filled(e.path)] : e \in Declared}
    \cup {[method |-> "GET", path |-> <<"users">>], [method |-> "GET", path |-> <<"hotels-admin">>],
          [method |-> "POST", path |-> <<"auth", "password-reset">>]}

limitedPaths == {<<"auth", "password-reset">>, <<"auth", "register">>}

AllRequests ==
    [b \in BOOLEAN |->
        IF b THEN {[method |-> "POST", path |-> path, token |-> NoToken] : path \in limitedPaths}
        ELSE {[method |-> a.method, path |-> a.path, token |-> t] :
                 a \in Asked, t \in AllTokens \cup {NoToken}}]

SixOrOne == [b \in BOOLEAN |-> IF b THEN 6 ELSE 1]

ThreeOrOne == [b \in BOOLEAN |-> IF b THEN 3 ELSE 1]

AllButReporting == DOMAIN ControllerOf \ {"reporting"}

-----------------------------------------------------------------------------
holding(id, roles, hotel) == [id |-> id, roles |-> roles, hotel |-> hotel, fresh |-> TRUE]

One(account) == [b \in Browsers |-> IF b = p1 THEN account ELSE NoAccount]

Visitors ==
    {holding(1, {role}, "GALLE") : role \in STAFF_ROLES}
    \cup {holding(1, {"SUPER_ADMIN"}, NoHotelId), holding(1, {"HOUSEKEEPING", "RECEPTIONIST"}, "GALLE"),
          holding(1, {"CUSTOMER"}, NoHotelId), [holding(1, {"FINANCE"}, "GALLE") EXCEPT !.fresh = FALSE]}

AllPages ==
    {{[app |-> "STAFF", page |-> p] :
        p \in {"reception", "finance", "housekeeping", "maintenance", "notifications"}},
     {[app |-> "CONSOLE", page |-> p] :
        p \in {"overview", "reservations", "arrivals", "rooms", "housekeeping", "maintenance",
               "rates", "payments", "invoices", "analytics", "reports", "audit", "settings",
               "promotions", "staff"}},
     {[app |-> "SITE", page |-> "bookings"]}}

AllShifts ==
    {[who |-> One(v), visits |-> d, rows |-> "NONE", published |-> {}] :
        v \in Visitors, d \in AllPages}
    \cup {[who |-> [b \in Browsers |-> IF b = p1 THEN holding(1, {"HOUSEKEEPING"}, NoHotelId)
                                       ELSE holding(2, {"MANAGER"}, NoHotelId)],
           visits |-> {[app |-> "STAFF", page |-> "housekeeping"]}, rows |-> "TASKS",
           published |-> {"GALLE"}],
          [who |-> [b \in Browsers |-> IF b = p1 THEN holding(1, {"MAINTENANCE"}, NoHotelId)
                                       ELSE holding(2, {"MANAGER"}, NoHotelId)],
           visits |-> {[app |-> "STAFF", page |-> "maintenance"]}, rows |-> "TICKETS",
           published |-> {"GALLE"}]}

OneHotel == <<"GALLE">>

Two == [s \in {1, 2} |-> 2]

OneClean == {[type |-> "CHECKOUT_CLEAN", hours |-> 1, vip |-> FALSE]}

AllTicked == {[ticked |-> {"BED"}, unticked |-> {}]}

OneFault == {[disabling |-> TRUE, occupied |-> FALSE, imminent |-> FALSE, reported |-> Unrated]}

Interchangeable == Permutations({c1, c2}) \cup Permutations({w1, w2})
=============================================================================
