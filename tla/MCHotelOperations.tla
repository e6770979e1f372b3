------------------------- MODULE MCHotelOperations -------------------------
(***************************************************************************)
(* Small instances of HotelOperations. The departments share no state, so  *)
(* one model value may stand for a row of each: a1 is the row whose        *)
(* handlers take turns, a2 another; b, c, d and e are pairs of             *)
(* interchangeable handlers and rows.                                      *)
(***************************************************************************)
EXTENDS HotelOperations, TLC

CONSTANTS a1, a2, b1, b2, c1, c2, d1, d2, e1, e2, USD, beds, mirrors

Interchangeable == UNION {Permutations(pair) : pair \in {{b1, b2}, {c1, c2}, {d1, d2}, {e1, e2}}}

(* No two properties share a prefix: each stands for its own. *)
OwnPrefixes == [h \in Hotels |-> {h}]

HomeItems == [price : {0, 2}, currency : {USD}]

Corrections == {[kind |-> "ADJUSTMENT", amount |-> -1], [kind |-> "DISCOUNT", amount |-> 2]}

OneFloor == {<<101, 102>>}

SomeCleans ==
    {[type |-> "CHECKOUT_CLEAN", hours |-> 2, vip |-> FALSE],
     [type |-> "DEEP_CLEAN", hours |-> Never, vip |-> FALSE]}

TwoShifts == [s \in Staff |-> IF s = 1 THEN 1 ELSE 2]

(* An item may be listed as done, as not done, as both or not at all. *)
AllReports == [ticked : SUBSET {beds, mirrors}, unticked : SUBSET {beds, mirrors}]

(* Of clients that list an item once at most. *)
PlainReports == {r \in AllReports : r.ticked \cap r.unticked = {}}

SomeFaults ==
    [disabling : BOOLEAN, occupied : {FALSE}, imminent : BOOLEAN, reported : {"LOW", Unrated}]

(* -9 is a credit. *)
Line == [amount : {-9, 0, 1, 4, 7, 120}, taxable : BOOLEAN]
SmallInvoices == UNION {[1..n -> Line] : n \in 0..2}

Component == [basisPoints : {0, 50, 1200, 5000}, exclusive : BOOLEAN]
UpToTwo == UNION {[1..n -> Component] : n \in 0..2}

(* The first is the plan of quote.spec.ts, with tiers of fewer nights.    *)
SomePlans ==
    {[base |-> 12000, weekend |-> 120, seasons |-> <<[from |-> 4, to |-> 5, rate |-> 19000]>>,
      tiers |-> <<[minNights |-> 3, percentOff |-> 10], [minNights |-> 5, percentOff |-> 20]>>,
      taxBasisPoints |-> 1250],
     [base |-> 7, weekend |-> 75, seasons |-> <<[from |-> 0, to |-> 2, rate |-> 1],
                                              [from |-> 2, to |-> 4, rate |-> 50]>>,
      tiers |-> <<[minNights |-> 2, percentOff |-> 33], [minNights |-> 1, percentOff |-> 5]>>,
      taxBasisPoints |-> 50]}

UpToAWeek ==
    {r \in [checkIn : 0 .. 9, checkOut : 0 .. 12] : r.checkOut \in r.checkIn .. r.checkIn + 7}
=============================================================================
