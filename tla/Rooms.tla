------------------------------- MODULE Rooms -------------------------------
(***************************************************************************)
(* room-service: RoomService.createRoom, generateFloor, changeStatus,      *)
(* block and unblock, run by handlers that share one database.             *)
(*                                                                         *)
(* Every await ends a step; a transaction is one step. A handler serves    *)
(* one request after the other; a request that is refused at its read      *)
(* changes nothing and is no step. One hotel, whose rooms are identified   *)
(* by their number. The end of a block, notes and reasons are left out.    *)
(***************************************************************************)
EXTENDS Contracts, Sequences, SequencesExt

CONSTANTS
    Numbers,         \* room numbers
    Plans,           \* what generateFloor may be asked for: sequences of numbers
    Desks,           \* handlers that run at once
    Targets,         \* statuses changeStatus may be asked for
    MaxRoomRequests, \* bound on requests that get past their read
    NoRoom,
    QueuedRooms      \* rooms whose handlers run one after the other

VARIABLES
    room,        \* room[n]: the row of the rooms table, or NoRoom
    history,     \* history[n]: the room_status_changes of the room, oldest first
    roomOutbox,  \* roomOutbox[n]: the events written about it, oldest first
    desk,        \* desk[h]: the request handler h is at, and what it has read
    roomRequests \* requests begun so far

vars == <<room, history, roomOutbox, desk, roomRequests>>

Free == [pc |-> "FREE", rooms |-> <<>>]

Init ==
    /\ room = [n \in Numbers |-> NoRoom]
    /\ history = [n \in Numbers |-> <<>>]
    /\ roomOutbox = [n \in Numbers |-> <<>>]
    /\ desk = [h \in Desks |-> Free]
    /\ roomRequests = 0

-----------------------------------------------------------------------------
(* room-status.ts *)

ROOM_TRANSITIONS ==
    [AVAILABLE      |-> {"RESERVED", "OCCUPIED", "CLEANING", "MAINTENANCE", "OUT_OF_SERVICE"},
     RESERVED       |-> {"OCCUPIED", "AVAILABLE", "CLEANING", "MAINTENANCE", "OUT_OF_SERVICE"},
     OCCUPIED       |-> {"CLEANING", "AVAILABLE"},
     CLEANING       |-> {"AVAILABLE", "MAINTENANCE", "OUT_OF_SERVICE"},
     MAINTENANCE    |-> {"CLEANING", "AVAILABLE", "OUT_OF_SERVICE"},
     OUT_OF_SERVICE |-> {"MAINTENANCE", "CLEANING"}]

(* Mutant: a room may be taken out of service whoever is in it.            *)
canTransitionRoom_anyFault(from, to) ==
    from = to \/ to \in ROOM_TRANSITIONS[from] \cup {"MAINTENANCE", "OUT_OF_SERVICE"}

canTransitionRoom(from, to) == from = to \/ to \in ROOM_TRANSITIONS[from]

-----------------------------------------------------------------------------
exists(n) == room[n] # NoRoom

at(n) == \E h \in Desks : n \in Range(desk[h].rooms)

mayTouch(n) == n \in QueuedRooms => ~ at(n)

begin(h, request) ==
    /\ desk[h] = Free
    /\ \A n \in Range(request.rooms) : mayTouch(n)
    /\ roomRequests < MaxRoomRequests
    /\ roomRequests' = roomRequests + 1
    /\ desk' = [desk EXCEPT ![h] = request]

(* createRoom has read the room type, which it needs, and derived the floor. *)
ReadForCreate(h) ==
    /\ \E n \in Numbers : begin(h, [pc |-> "INSERT", rooms |-> <<n>>])
    /\ UNCHANGED <<room, history, roomOutbox>>

(* generateFloor: 'Some of those room numbers already exist.' *)
ReadForFloor(h) ==
    /\ \E plan \in Plans :
          /\ \A n \in Range(plan) : ~ exists(n)
          /\ begin(h, [pc |-> "INSERT", rooms |-> plan])
    /\ UNCHANGED <<room, history, roomOutbox>>

newRoom == [status |-> "AVAILABLE", blocked |-> FALSE]

(* One transaction inserts what was planned, and nothing of it when the    *)
(* unique index on (hotelId, roomNumber) refuses one of the numbers.       *)
InsertRooms(h) ==
    /\ desk[h].pc = "INSERT"
    /\ LET plan == desk[h].rooms IN
       IF \E n \in Range(plan) : exists(n)
       THEN desk' = [desk EXCEPT ![h] = Free] /\ UNCHANGED room
       ELSE /\ room' = [n \in Numbers |-> IF n \in Range(plan) THEN newRoom ELSE room[n]]
            /\ desk' = [desk EXCEPT ![h].pc = "PUBLISH"]
    /\ UNCHANGED <<history, roomOutbox, roomRequests>>

(* Written after the commit, room by room, with the row as it was created. *)
PublishRoomUpserted(h) ==
    /\ desk[h].pc = "PUBLISH"
    /\ LET n == Head(desk[h].rooms)
           rest == Tail(desk[h].rooms)
       IN /\ roomOutbox' = [roomOutbox EXCEPT ![n] =
                Append(@, [type |-> "ROOM_UPSERTED", status |-> newRoom.status])]
          /\ desk' = [desk EXCEPT ![h] =
                IF rest = <<>> THEN Free ELSE [pc |-> "PUBLISH", rooms |-> rest]]
    /\ UNCHANGED <<room, history, roomRequests>>

-----------------------------------------------------------------------------
ReadForStatus(h) ==
    /\ \E n \in Numbers, to \in Targets :
          /\ exists(n)
          /\ canTransitionRoom(room[n].status, to)
          /\ begin(h, [pc |-> "CHANGE", rooms |-> <<n>>, from |-> room[n].status, to |-> to])
    /\ UNCHANGED <<room, history, roomOutbox>>

(* Mutant: a change that changes nothing is not announced.                 *)
statusEvents_ifChanged(from, to) ==
    IF from = to THEN <<>>
    ELSE <<[type |-> "ROOM_STATUS_CHANGED", previous |-> from, status |-> to]>>

statusEvents(from, to) ==
    <<[type |-> "ROOM_STATUS_CHANGED", previous |-> from, status |-> to]>>

ChangeStatus(h) ==
    /\ desk[h].pc = "CHANGE"
    /\ LET n == Head(desk[h].rooms)
           from == desk[h].from
           to == desk[h].to
       IN /\ room' = [room EXCEPT ![n].status = to]
          /\ history' = [history EXCEPT ![n] = Append(@, [from |-> from, to |-> to])]
          /\ roomOutbox' = [roomOutbox EXCEPT ![n] = @ \o statusEvents(from, to)]
    /\ desk' = [desk EXCEPT ![h] = Free]
    /\ UNCHANGED roomRequests

mayBlock(n) == room[n].status # "OCCUPIED"

ReadForBlock(h) ==
    /\ \E n \in Numbers :
          /\ exists(n)
          /\ mayBlock(n)
          /\ begin(h, [pc |-> "BLOCK", rooms |-> <<n>>])
    /\ UNCHANGED <<room, history, roomOutbox>>

ReadForUnblock(h) ==
    /\ \E n \in Numbers : exists(n) /\ begin(h, [pc |-> "UNBLOCK", rooms |-> <<n>>])
    /\ UNCHANGED <<room, history, roomOutbox>>

WriteBlock(h) ==
    /\ desk[h].pc \in {"BLOCK", "UNBLOCK"}
    /\ room' = [room EXCEPT ![Head(desk[h].rooms)].blocked = desk[h].pc = "BLOCK"]
    /\ desk' = [desk EXCEPT ![h] = Free]
    /\ UNCHANGED <<history, roomOutbox, roomRequests>>

(* The process dies, or the database refuses the write. *)
Crash(h) ==
    /\ desk[h] # Free
    /\ desk' = [desk EXCEPT ![h] = Free]
    /\ UNCHANGED <<room, history, roomOutbox, roomRequests>>

createRoom(h) == ReadForCreate(h) \/ InsertRooms(h) \/ PublishRoomUpserted(h)
generateFloor(h) == ReadForFloor(h) \/ InsertRooms(h) \/ PublishRoomUpserted(h)
changeStatus(h) == ReadForStatus(h) \/ ChangeStatus(h)
block(h) == ReadForBlock(h) \/ WriteBlock(h)
unblock(h) == ReadForUnblock(h) \/ WriteBlock(h)

Next ==
    \E h \in Desks :
        \/ createRoom(h) \/ generateFloor(h) \/ changeStatus(h)
        \/ block(h) \/ unblock(h) \/ Crash(h)

Spec == Init /\ [][Next]_vars

-----------------------------------------------------------------------------
(* Properties. *)

RoomRow == [status : RoomStatus, blocked : BOOLEAN]

(* Every variable stays in the set its columns allow.                      *)
TypeOK ==
    /\ room \in [Numbers -> RoomRow \cup {NoRoom}]
    /\ history \in [Numbers -> Seq([from : RoomStatus, to : RoomStatus])]
    /\ roomRequests \in 0 .. MaxRoomRequests
    /\ \A h \in Desks :
          /\ Range(desk[h].rooms) \subseteq Numbers
          /\ desk[h].pc \notin {"FREE", "INSERT"} => exists(Head(desk[h].rooms))

(* Where in the outbox the changes of the room are announced.              *)
announcedAt(n) ==
    {i \in DOMAIN roomOutbox[n] : roomOutbox[n][i].type = "ROOM_STATUS_CHANGED"}

(* changeStatus: "validated, recorded in history and announced in one      *)
(* transaction, so the floor board and every downstream projection see the *)
(* same sequence of changes". Whatever overlaps, the row shows the last    *)
(* change of the history, and the k-th change that is announced is the     *)
(* k-th of the history.                                                    *)
SameSequenceOfChanges ==
    \A n \in Numbers :
        LET changes == history[n] IN
        /\ Cardinality(announcedAt(n)) = Len(changes)
        /\ \A i \in announcedAt(n) :
              LET change == changes[Cardinality({k \in announcedAt(n) : k <= i})] IN
              roomOutbox[n][i] = [type |-> "ROOM_STATUS_CHANGED",
                                  previous |-> change.from, status |-> change.to]
        /\ exists(n) => room[n].status =
              IF changes = <<>> THEN newRoom.status ELSE Last(changes).to

(* ROOM_TRANSITIONS: "MAINTENANCE and OUT_OF_SERVICE are reachable from    *)
(* any non-occupied state". In rooms whose handlers do not overlap, no     *)
(* step takes the room from under its guest, or withholds it from sale     *)
(* while the guest is in it, and the trail has no gap.                     *)
QueuedGuestKeepsRoom ==
    [][\A n \in QueuedRooms : exists(n) =>
          LET from == room[n].status
              to   == room'[n].status
          IN /\ from # to => to \in ROOM_TRANSITIONS[from]
             /\ room'[n].blocked /\ ~ room[n].blocked => from # "OCCUPIED"
             /\ history'[n] # history[n] => Last(history'[n]).from = from]_vars
=============================================================================
