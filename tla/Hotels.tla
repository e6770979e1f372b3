------------------------------- MODULE Hotels -------------------------------
(***************************************************************************)
(* hotel-service: HotelService.create, update, publish and addBranch, run  *)
(* by handlers that share one database, and the web addresses of slug.ts.  *)
(*                                                                         *)
(* Every await ends a step; a transaction is one step. A name is the       *)
(* sequence of its words, an address those words with a number: 1 for the  *)
(* bare address, n for the one that ends in -n. What the page shows of a   *)
(* property is one value; a policy is coherent or the request is refused.  *)
(***************************************************************************)
EXTENDS Naturals, Sequences, FiniteSets, FiniteSetsExt

CONSTANTS
    HotelIds,        \* the properties that may be inserted
    Names,           \* names that give a usable address
    Joined,          \* Joined[n]: the letters and digits of name n as one word
    Facts,           \* what a property's page may show: its amenities
    BranchCodes,
    Registrars,      \* handlers that run at once
    MaxHotelRequests, \* bound on requests: [q] of handlers that are quiet, or not
    NoHotel

VARIABLES
    hotel,         \* hotel[i]: the row of hotels, or NoHotel
    branch,        \* the rows of branches: pairs of property and code
    hotelOutbox,   \* hotelOutbox[i]: what each HOTEL_PUBLISHED said, oldest first
    registrar,     \* registrar[h]: the request handler h is at, and what it has read
    hotelRequests, \* requests begun so far
    quiet          \* do requests never overlap?

vars == <<hotel, branch, hotelOutbox, registrar, hotelRequests, quiet>>

Away == [pc |-> "AWAY"]

Init ==
    /\ hotel = [i \in HotelIds |-> NoHotel]
    /\ branch = {}
    /\ hotelOutbox = [i \in HotelIds |-> <<>>]
    /\ registrar = [h \in Registrars |-> Away]
    /\ hotelRequests = 0
    /\ quiet \in BOOLEAN

begin(h, request) ==
    /\ registrar[h] = Away
    /\ quiet => \A g \in Registrars : registrar[g] = Away
    /\ hotelRequests < MaxHotelRequests[quiet]
    /\ hotelRequests' = hotelRequests + 1
    /\ registrar' = [registrar EXCEPT ![h] = request]

goto(h, request) == registrar' = [registrar EXCEPT ![h] = request] /\ UNCHANGED hotelRequests

exists(i) == hotel[i] # NoHotel

-----------------------------------------------------------------------------
(* create *)

slugs == {hotel[i].slug : i \in {i \in HotelIds : exists(i)}}

(* The prefix looked for is the name without its spaces: an address whose  *)
(* first word it is not is overlooked.                                     *)
takenSlugs(name) == {slug \in slugs : Head(slug.words) = Joined[name]}

resolveSlug(name, taken) ==
    [words |-> name,
     number |-> Min({n \in 1 .. Cardinality(taken) + 1 : [words |-> name, number |-> n] \notin taken})]

(* What a client may give instead, a numbered one too; an address that is  *)
(* derived never has a larger number.                                      *)
givenSlugs(name) == {[words |-> name, number |-> n] : n \in 1 .. Cardinality(HotelIds)}

ReadTakenSlugs(h) ==
    /\ \E name \in Names, facts \in Facts :
          \E slug \in {resolveSlug(name, takenSlugs(name))} \cup givenSlugs(name) :
             begin(h, [pc |-> "LOOK_UP", facts |-> facts, slug |-> slug])
    /\ UNCHANGED <<hotel, branch, hotelOutbox>>

LookUpSlug(h) ==
    /\ registrar[h].pc = "LOOK_UP"
    /\ IF registrar[h].slug \in slugs THEN goto(h, Away)
       ELSE goto(h, [registrar[h] EXCEPT !.pc = "CREATE"])
    /\ UNCHANGED <<hotel, branch, hotelOutbox>>

(* An address taken meanwhile is refused by its unique index.              *)
Create(h) ==
    /\ registrar[h].pc = "CREATE"
    /\ IF registrar[h].slug \in slugs THEN goto(h, Away) /\ UNCHANGED hotel
       ELSE /\ \E i \in HotelIds :
                  /\ ~ exists(i)
                  /\ hotel' = [hotel EXCEPT ![i] =
                        [slug |-> registrar[h].slug, status |-> "DRAFT", facts |-> registrar[h].facts]]
            /\ goto(h, Away)
    /\ UNCHANGED <<branch, hotelOutbox>>

-----------------------------------------------------------------------------
(* update replaces the amenities, and leaves address and status alone.     *)

ReadForUpdate(h) ==
    /\ \E i \in HotelIds, facts \in Facts :
          exists(i) /\ begin(h, [pc |-> "UPDATE", hotel |-> i, facts |-> facts])
    /\ UNCHANGED <<hotel, branch, hotelOutbox>>

Update(h) ==
    /\ registrar[h].pc = "UPDATE"
    /\ hotel' = [hotel EXCEPT ![registrar[h].hotel].facts = registrar[h].facts]
    /\ goto(h, Away)
    /\ UNCHANGED <<branch, hotelOutbox>>

(* publish *)

isLive(i) == exists(i) /\ hotel[i].status = "ACTIVE"

mayPublish(i) == exists(i) /\ ~ isLive(i)

ReadForPublish(h) ==
    /\ \E i \in HotelIds :
          mayPublish(i) /\ begin(h, [pc |-> "PUBLISH", hotel |-> i])
    /\ UNCHANGED <<hotel, branch, hotelOutbox>>

Publish(h) ==
    /\ registrar[h].pc = "PUBLISH"
    /\ LET i == registrar[h].hotel
       IN /\ hotel' = [hotel EXCEPT ![i].status = "ACTIVE"]
          /\ hotelOutbox' = [hotelOutbox EXCEPT ![i] = Append(@, hotel[i].facts)]
    /\ goto(h, Away)
    /\ UNCHANGED branch

(* addBranch: a code inserted meanwhile is refused by the unique index.    *)
ReadForBranch(h) ==
    /\ \E i \in HotelIds, code \in BranchCodes :
          /\ exists(i)
          /\ <<i, code>> \notin branch
          /\ begin(h, [pc |-> "BRANCH", row |-> <<i, code>>])
    /\ UNCHANGED <<hotel, branch, hotelOutbox>>

AddBranch(h) ==
    /\ registrar[h].pc = "BRANCH"
    /\ branch' = branch \cup {registrar[h].row}
    /\ goto(h, Away)
    /\ UNCHANGED <<hotel, hotelOutbox>>

(* The process dies, or the database refuses a statement.                  *)
Crash(h) ==
    /\ registrar[h] # Away
    /\ goto(h, Away)
    /\ UNCHANGED <<hotel, branch, hotelOutbox>>

create(h) == ReadTakenSlugs(h) \/ LookUpSlug(h) \/ Create(h)
update(h) == ReadForUpdate(h) \/ Update(h)
publish(h) == ReadForPublish(h) \/ Publish(h)
addBranch(h) == ReadForBranch(h) \/ AddBranch(h)

Next ==
    /\ \E h \in Registrars : create(h) \/ update(h) \/ publish(h) \/ addBranch(h) \/ Crash(h)
    /\ UNCHANGED quiet

Spec == Init /\ [][Next]_vars

-----------------------------------------------------------------------------
(* Properties. *)

HotelRow ==
    [slug : [words : Names, number : Nat], status : {"DRAFT", "ACTIVE"}, facts : Facts]

(* Every variable stays in the set its columns allow.                      *)
TypeOK ==
    /\ hotel \in [HotelIds -> HotelRow \cup {NoHotel}]
    /\ \A i \in HotelIds : exists(i) => hotel[i].slug.number \in 1 .. Cardinality(HotelIds)
    /\ branch \subseteq HotelIds \X BranchCodes
    /\ hotelRequests \in 0 .. MaxHotelRequests[quiet]

(* publish: "a property can never be live without search and booking       *)
(* having been told". It has been announced whatever overlaps; while       *)
(* requests do not, once.                                                  *)
LiveIsAnnounced ==
    \A i \in HotelIds :
        /\ isLive(i) => hotelOutbox[i] # <<>>
        /\ quiet => Len(hotelOutbox[i]) <= 1
=============================================================================
