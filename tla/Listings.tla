------------------------------ MODULE Listings ------------------------------
(***************************************************************************)
(* The paged lists of the services: list of ten services and the inbox,    *)
(* each a findMany and a count that Promise.all starts together, and a     *)
(* client that asks for page after page while rows are written.            *)
(*                                                                         *)
(* Rows that a filter on columns that never change excludes (the property, *)
(* the customer, the day) are not in the list and left out; a query is     *)
(* whether it filters on columns that do change, and a row is whether it   *)
(* passes, and the key it is ordered by. The order of rows with one key,   *)
(* and of a list without an order, is the database's, and may be another   *)
(* for the next page.                                                      *)
(***************************************************************************)
EXTENDS Integers, FiniteSets, Sequences, FiniteSetsExt

CONSTANTS
    Lists,     \* names of the lists that are read
    Keys,      \* what a ranked list is ordered by
    PageSizes,
    MaxRows,   \* bound on the rows of a list
    MaxMoves,  \* bound on updates of them
    NotRead

VARIABLES
    query, \* that is asked in the walk: list, page size and filters
    entry, \* entry[i]: the row that was inserted as the i-th
    moves, \* updates so far
    walk   \* where the client is, and what it has been given

vars == <<query, entry, moves, walk>>

-----------------------------------------------------------------------------
(* How the services order a list, and the columns that may change under   *)
(* its filters: those a caller may filter by, those it is always filtered  *)
(* by.                                                                     *)

list(order, offered, always) == [order |-> order, offered |-> offered, always |-> always]

bookings == list("NEWEST", {"status"}, {})
payments == list("NEWEST", {"status"}, {})
invoices == list("NEWEST", {"status"}, {})
stays == list("NEWEST", {"status"}, {})
inbox == list("NEWEST", {"readAt"}, {})
auditTrail == list("NEWEST", {}, {})
tickets == list("RANKED", {"status", "assignedToId", "overdue"}, {})
rooms == list("NONE", {"status"}, {})
tasks == list("NONE", {"status", "assignedToId"}, {})

(* Guests see what is published only, and may not ask for anything else.   *)
reviews(includeUnpublished) ==
    IF includeUnpublished THEN list("NEWEST", {"status"}, {}) ELSE list("NEWEST", {}, {"status"})

hotels(includeUnpublished) ==
    IF includeUnpublished THEN list("RANKED", {"status", "city", "amenities"}, {})
    ELSE list("RANKED", {"city", "amenities"}, {"status"})

listed(name) ==
    CASE name = "bookings" -> bookings
      [] name = "payments" -> payments
      [] name = "invoices" -> invoices
      [] name = "stays" -> stays
      [] name = "inbox" -> inbox
      [] name = "audit trail" -> auditTrail
      [] name = "tickets" -> tickets
      [] name = "rooms" -> rooms
      [] name = "tasks" -> tasks
      [] name = "reviews" -> reviews(FALSE)
      [] name = "all reviews" -> reviews(TRUE)
      [] name = "hotels" -> hotels(FALSE)
      [] name = "all hotels" -> hotels(TRUE)

queries ==
    {q \in [list : Lists, pageSize : PageSizes, filtered : BOOLEAN] :
        /\ q.filtered => listed(q.list).offered \cup listed(q.list).always # {}
        /\ listed(q.list).always # {} => q.filtered}

NoWalk ==
    [pc |-> "IDLE", page |-> 0, data |-> NotRead, totalItems |-> NotRead,
     owed |-> {}, heard |-> {}, given |-> 0, left |-> FALSE, stale |-> FALSE]

Init ==
    /\ query \in queries
    /\ entry = <<>>
    /\ moves = 0
    /\ walk = NoWalk

-----------------------------------------------------------------------------
(* The rows. *)

matchingIn(rows) == {i \in DOMAIN rows : query.filtered => rows[i].passes}

matching == matchingIn(entry)

orderBy == listed(query.list).order

(* The last insert first, or by rank. *)
before(i, j) ==
    CASE orderBy = "NEWEST" -> entry[i].key > entry[j].key
      [] orderBy = "RANKED" -> entry[i].key < entry[j].key
      [] orderBy = "NONE" -> FALSE

(* What a walk that is under way misses of a write.                        *)
overtaken(rows) ==
    [walk EXCEPT
        !.left = @ \/ \E i \in matching : i \notin matchingIn(rows) \/ rows[i].key # entry[i].key,
        !.stale = @ \/ (/\ walk.totalItems # NotRead /\ walk.data = NotRead
                        /\ \E i \in matchingIn(rows) : i \notin matching)]

lastKey == IF entry = <<>> THEN 1 ELSE entry[Len(entry)].key

keysOfNext ==
    CASE orderBy = "NEWEST" -> {lastKey, lastKey + 1}
      [] orderBy = "RANKED" -> Keys
      [] orderBy = "NONE" -> {0}

Insert ==
    /\ walk.pc # "DONE"
    /\ Len(entry) < MaxRows
    /\ \E key \in keysOfNext, passes \in {TRUE, ~ query.filtered} :
          entry' = Append(entry, [key |-> key, passes |-> passes])
    /\ walk' = overtaken(entry')
    /\ moves' = moves
    /\ UNCHANGED query

(* A filtered column changes, or what a ranked row is ordered by.          *)
Move ==
    /\ walk.pc # "DONE"
    /\ moves < MaxMoves
    /\ moves' = moves + 1
    /\ \E i \in DOMAIN entry :
          \/ query.filtered /\ entry' = [entry EXCEPT ![i].passes = ~ @]
          \/ /\ orderBy = "RANKED"
             /\ \E key \in Keys \ {entry[i].key} : entry' = [entry EXCEPT ![i].key = key]
    /\ walk' = overtaken(entry')
    /\ UNCHANGED query

-----------------------------------------------------------------------------
(* A page. *)

skip == (walk.page - 1) * query.pageSize

(* Rows that may be those after the first skip of them, in some order that *)
(* obeys orderBy.                                                          *)
follows(data, skipped) ==
    LET rest == matching \ (skipped \cup data) IN
    /\ \A s \in skipped, r \in data \cup rest : ~ before(r, s)
    /\ \A d \in data, r \in rest : ~ before(r, d)

pages ==
    LET skipping == Min({skip, Cardinality(matching)})
        taking   == Min({query.pageSize, Cardinality(matching) - skipping})
    IN {data \in kSubset(taking, matching) :
           \E skipped \in kSubset(skipping, matching \ data) : follows(data, skipped)}

FindMany ==
    /\ walk.pc = "READING"
    /\ walk.data = NotRead
    /\ \E data \in pages : walk' = [walk EXCEPT !.data = data]
    /\ UNCHANGED <<query, entry, moves>>

Count ==
    /\ walk.pc = "READING"
    /\ walk.totalItems = NotRead
    /\ walk' = [walk EXCEPT !.totalItems = Cardinality(matching)]
    /\ UNCHANGED <<query, entry, moves>>

(* Mutant: a page that is not full is not counted.                         *)
totalPages_floor == Max({1, walk.totalItems \div query.pageSize})

totalPages == Max({1, (walk.totalItems + query.pageSize - 1) \div query.pageSize})

hasNextPage == walk.page < totalPages

AskFirst ==
    /\ walk.pc = "IDLE"
    /\ walk' = [NoWalk EXCEPT !.pc = "READING", !.page = 1, !.owed = matching]
    /\ UNCHANGED <<query, entry, moves>>

(* Both have answered; the client asks for the next page while there is one. *)
Answer ==
    /\ walk.pc = "READING"
    /\ walk.data # NotRead /\ walk.totalItems # NotRead
    /\ walk' = [walk EXCEPT
                   !.pc = IF hasNextPage THEN "READING" ELSE "DONE",
                   !.page = IF hasNextPage THEN @ + 1 ELSE @,
                   !.data = NotRead, !.totalItems = NotRead,
                   !.heard = @ \cup walk.data, !.given = @ + Cardinality(walk.data)]
    /\ UNCHANGED <<query, entry, moves>>

Next == Insert \/ Move \/ AskFirst \/ FindMany \/ Count \/ Answer

Spec == Init /\ [][Next]_vars

-----------------------------------------------------------------------------
(* Properties. *)

ordered ==
    orderBy # "NONE" /\ \A i, j \in matching : i = j \/ before(i, j) \/ before(j, i)

(* hasNextPage: in a list whose rows have distinct keys, a client that asks*)
(* until there is no next page has been given every row that was listed    *)
(* when it began, and repeats only for rows that came in meanwhile -       *)
(* provided that no row moved or left the list under it, and that no count *)
(* was older than its page.                                                *)
WalkMeetsAll ==
    walk.pc = "DONE" /\ ordered /\ ~ walk.left /\ ~ walk.stale =>
        /\ walk.owed \subseteq walk.heard
        /\ walk.given - Cardinality(walk.heard) <= Cardinality(matching \ walk.owed)
=============================================================================
