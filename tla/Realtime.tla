------------------------------ MODULE Realtime ------------------------------
(***************************************************************************)
(* api-gateway, realtime: RealtimeGateway with the channels of channels.ts *)
(* and the permissions of contracts/domain/roles.ts.                       *)
(*                                                                         *)
(* A socket asks for the outcome of its token once, when it connects. The  *)
(* adapter joins and leaves a room before the await returns, so a check    *)
(* and its join are one step; a broadcast has no await. A channel is a     *)
(* record; names that are of no recognised shape are refused unread.       *)
(***************************************************************************)
EXTENDS Naturals, FiniteSets

CONSTANTS
    Sockets,
    Principals,  \* what a valid token may say: [id, roles, hotelId]
    HotelsHeard, \* hotels whose events are broadcast
    MaxJoined,   \* bound on the hotel channels of a socket
    NoHotelId, Nobody, Verifying

VARIABLES
    principal, \* principal[s]: whose socket s is, Nobody, or Verifying
    joined,    \* joined[s]: the rooms socket s is in
    emission   \* what the last step emitted, and who heard it

vars == <<principal, joined, emission>>

NoEmission == [type |-> "NONE", about |-> Nobody, heard |-> {}]

Init ==
    /\ principal = [s \in Sockets |-> Nobody]
    /\ joined = [s \in Sockets |-> {}]
    /\ emission = NoEmission

-----------------------------------------------------------------------------
(* roles.ts, the permissions channels ask for *)

ROLE_PERMISSIONS(role) ==
    CASE role \in {"SUPER_ADMIN", "HOTEL_ADMIN", "MANAGER"} ->
            {"BOOKING_READ", "BOOKING_WRITE", "ROOM_READ", "HOUSEKEEPING_MANAGE", "MAINTENANCE_MANAGE"}
      [] role \in {"RECEPTIONIST", "CUSTOMER"} -> {"BOOKING_READ", "BOOKING_WRITE", "ROOM_READ"}
      [] role = "HOUSEKEEPING" -> {"ROOM_READ", "HOUSEKEEPING_MANAGE"}
      [] role = "MAINTENANCE" -> {"ROOM_READ", "MAINTENANCE_MANAGE"}
      [] role = "FINANCE" -> {"BOOKING_READ"}
      [] OTHER -> {} \* a role the table does not list

hasPermission(roles, permission) == \E role \in roles : permission \in ROLE_PERMISSIONS(role)

CHANNEL_PERMISSIONS ==
    [rooms |-> "ROOM_READ", bookings |-> "BOOKING_READ", housekeeping |-> "HOUSEKEEPING_MANAGE",
     maintenance |-> "MAINTENANCE_MANAGE", reception |-> "BOOKING_WRITE",
     notifications |-> "BOOKING_READ"]

(* channels.ts *)

hotelChannel(hotelId, kind) == [scope |-> "HOTEL", of |-> hotelId, kind |-> kind]

userChannel(id) == [scope |-> "USER", of |-> id, kind |-> "notifications"]

hotelChannels == {hotelChannel(h, k) : h \in HotelsHeard, k \in DOMAIN CHANNEL_PERMISSIONS}

userChannels == {userChannel(p.id) : p \in Principals}

(* Mutant: the permission is asked for, the property is not.               *)
canSubscribe_anywhere(p, channel) ==
    IF channel.scope = "USER" THEN channel.of = p.id
    ELSE hasPermission(p.roles, CHANNEL_PERMISSIONS[channel.kind])

canSubscribe(p, channel) ==
    IF channel.scope = "USER" THEN channel.of = p.id
    ELSE /\ "SUPER_ADMIN" \in p.roles \/ (p.hotelId # NoHotelId /\ p.hotelId = channel.of)
         /\ hasPermission(p.roles, CHANNEL_PERMISSIONS[channel.kind])

kindsForEvent ==
    [room_status_changed |-> {"rooms", "reception"},
     booking_created     |-> {"bookings", "reception"},
     booking_confirmed   |-> {"bookings", "reception"},
     booking_cancelled   |-> {"bookings", "reception"},
     guest_checked_in    |-> {"reception", "rooms"},
     guest_checked_out   |-> {"reception", "rooms", "housekeeping"},
     task_created        |-> {"housekeeping", "rooms"},
     task_completed      |-> {"housekeeping", "rooms"},
     ticket_created      |-> {"maintenance", "rooms"},
     ticket_resolved     |-> {"maintenance", "rooms"}]

channelsForEvent(type, hotelId) == {hotelChannel(hotelId, k) : k \in kindsForEvent[type]}

-----------------------------------------------------------------------------
isVerified(s) == principal[s] \in Principals

(* handleConnection: until the token is verified the socket is open, and   *)
(* what it asks for is refused.                                            *)
Connect(s) ==
    /\ principal[s] = Nobody
    /\ principal' = [principal EXCEPT ![s] = Verifying]
    /\ UNCHANGED joined
    /\ emission' = NoEmission

Verified(s) ==
    /\ principal[s] = Verifying
    /\ \E p \in Principals :
          /\ principal' = [principal EXCEPT ![s] = p]
          /\ joined' = [joined EXCEPT ![s] = {userChannel(p.id)}]
    /\ emission' = NoEmission

(* The token is not valid, or either end closes the socket: it leaves its  *)
(* rooms.                                                                  *)
Disconnect(s) ==
    /\ principal[s] # Nobody
    /\ principal' = [principal EXCEPT ![s] = Nobody]
    /\ joined' = [joined EXCEPT ![s] = {}]
    /\ emission' = NoEmission

Subscribe(s) ==
    /\ isVerified(s)
    /\ \E channel \in hotelChannels \cup userChannels :
          /\ canSubscribe(principal[s], channel)
          /\ Cardinality(joined[s] \cap hotelChannels) < MaxJoined
          /\ joined' = [joined EXCEPT ![s] = @ \cup {channel}]
    /\ UNCHANGED principal
    /\ emission' = NoEmission

(* It may leave any room it is in, the one it did not ask for included.    *)
Unsubscribe(s) ==
    /\ \E channel \in joined[s] : joined' = [joined EXCEPT ![s] = @ \ {channel}]
    /\ UNCHANGED principal
    /\ emission' = NoEmission

heardOn(channels) == {principal[s] : s \in {s \in Sockets : joined[s] \cap channels # {}}}

Broadcast ==
    /\ \E type \in DOMAIN kindsForEvent, h \in HotelsHeard :
          emission' = [type |-> type, about |-> h, heard |-> heardOn(channelsForEvent(type, h))]
    /\ UNCHANGED <<principal, joined>>

Notify ==
    /\ \E p \in Principals :
          emission' = [type |-> "notification", about |-> p.id, heard |-> heardOn({userChannel(p.id)})]
    /\ UNCHANGED <<principal, joined>>

Next ==
    \/ \E s \in Sockets :
          Connect(s) \/ Verified(s) \/ Disconnect(s) \/ Subscribe(s) \/ Unsubscribe(s)
    \/ Broadcast
    \/ Notify

Spec == Init /\ [][Next]_vars

-----------------------------------------------------------------------------
(* Properties. *)

(* Every variable stays in its set, and a socket of nobody is in no room.  *)
TypeOK ==
    /\ principal \in [Sockets -> Principals \cup {Nobody, Verifying}]
    /\ joined \in [Sockets -> SUBSET (hotelChannels \cup userChannels)]
    /\ \A s \in Sockets : ~ isVerified(s) => joined[s] = {}

(* canSubscribe: "Authorisation happens on subscribe, not on publish ...   *)
(* getting it wrong once leaks the entire stream". However sockets come,   *)
(* go and change hands between a subscription and an event: what happens   *)
(* in a hotel is heard by its own staff and the platform's administrators  *)
(* only, a booking by nobody who may not read bookings, a repair or a clean*)
(* by nobody who may not read rooms, a notification by its addressee only. *)
ScopedDelivery ==
    \A p \in emission.heard :
        IF emission.type = "notification" THEN p.id = emission.about
        ELSE /\ "SUPER_ADMIN" \in p.roles \/ p.hotelId = emission.about
             /\ hasPermission(p.roles,
                    IF emission.type \in {"booking_created", "booking_confirmed", "booking_cancelled"}
                    THEN "BOOKING_READ" ELSE "ROOM_READ")
=============================================================================
