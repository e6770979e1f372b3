--------------------------- MODULE Notifications ---------------------------
(***************************************************************************)
(* notification-service: NotificationService and the routing it asks, for  *)
(* one recipient in one locale.                                            *)
(*                                                                         *)
(* Every await of a request ends a step. The request that an event causes  *)
(* is fixed: redelivering the event repeats it. A message is identified by *)
(* its dedupe key, the pair of its event and its channel; its words are    *)
(* whether every token the template requires has a value.                  *)
(***************************************************************************)
EXTENDS Naturals, Sequences, FiniteSets, SequencesExt

CONSTANTS
    Causes,           \* events; a function to the request each one causes
    Channels,         \* channels a client may prefer, and "IN_APP"
    Senders,          \* handlers that run at once
    MaxNoticeRequests, \* bound on requests: [q] of handlers that are quiet, or not
    NoMessage, NoTemplate

VARIABLES
    message,        \* message[<<e, c>>]: the row of notifications, or NoMessage
    preference,     \* the rows of notification_preferences, oldest first
    template,       \* template[<<t, c>>]: NoTemplate, or does it require tokens?
    sender,         \* sender[h]: the request handler h is at, and what it has read
    noticeRequests, \* requests begun so far
    answered,       \* answered[e]: the channels that answers to requests of e accounted for
    asked,          \* asked[<<c, t>>]: the recipient's last answer about t on c, if any;
                    \* asked[<<c, Everything>>]: all his answers about all of c
    quiet           \* do requests never overlap?

vars == <<message, preference, template, sender, noticeRequests, answered, asked, quiet>>

Events == DOMAIN Causes

Idle == [pc |-> "IDLE"]

Everything == "EVERYTHING" \* the template of a preference that covers all of them

isSuppressible(t) == t = "REVIEW_INVITATION"

Templates == {Causes[e].template : e \in Events}

Init ==
    /\ message = [m \in Events \X Channels |-> NoMessage]
    /\ preference = <<>>
    /\ \E authored \in {NoTemplate, FALSE} : template = [k \in Templates \X Channels |-> authored]
    /\ sender = [h \in Senders |-> Idle]
    /\ noticeRequests = 0
    /\ answered = [e \in Events |-> {}]
    /\ asked = [k \in Channels \X (Templates \cup {Everything}) |-> {}]
    /\ quiet \in BOOLEAN

-----------------------------------------------------------------------------
(* routing.ts *)

(* An address may pass for one of both kinds, or of neither. *)
hasAddress(c, request) ==
    \/ c = "IN_APP"
    \/ c = "EMAIL" /\ "EMAIL" \in request.address
    \/ c = "SMS" /\ "PHONE" \in request.address

(* The rows are read in no stated order: of several that match, the first  *)
(* may be any. What preference(s) may decide of channel c and template t.  *)
isEnabled(c, t) ==
    LET matching(scope) == {p \in ToSet(preference) : p.channel = c /\ p.template = scope}
        rows == IF matching(t) # {} THEN matching(t) ELSE matching(Everything)
    IN IF rows = {} THEN {TRUE} ELSE {p.enabled : p \in rows}

candidates(request) == ToSet(request.preferred) \cup {"IN_APP"}

(* The loops take candidates in the order of their first mention.          *)
place(request, c) == Min({i \in 1 .. Len(request.preferred) + 1 :
                             i > Len(request.preferred) \/ request.preferred[i] = c})

first(request, some) == CHOOSE c \in some : \A d \in some : place(request, c) <= place(request, d)

(* The channels that may be chosen together: a set of sets.                *)
routeNotification(request) ==
    LET optional == isSuppressible(request.template)
        reachable == {c \in candidates(request) : hasAddress(c, request)}
        mayBe(c) == IF optional THEN isEnabled(c, request.template) ELSE {TRUE}
    IN {chosen \in SUBSET reachable : \A c \in reachable : (c \in chosen) \in mayBe(c)}

-----------------------------------------------------------------------------
begin(h, request) ==
    /\ sender[h] = Idle
    /\ quiet => \A g \in Senders : sender[g] = Idle
    /\ noticeRequests < MaxNoticeRequests[quiet]
    /\ noticeRequests' = noticeRequests + 1
    /\ sender' = [sender EXCEPT ![h] = request]

(* send: the preferences are read, and the message routed.                 *)
ReadPreferences(h) ==
    /\ \E e \in Events : \E chosen \in routeNotification(Causes[e]) :
          begin(h, [pc |-> "CHANNELS", event |-> e, skipped |-> {},
                    left |-> chosen, suppressed |-> candidates(Causes[e]) \ chosen])
    /\ UNCHANGED <<message, preference, template, answered, asked>>

at(h, pc) == sender[h].pc = pc

nextOf(h, some) == first(Causes[sender[h].event], some)

thisChannel(h) == nextOf(h, sender[h].left)

key(h) == <<sender[h].event, thisChannel(h)>>

toNextChannel(h) == [sender EXCEPT ![h].pc = "CHANNELS", ![h].left = @ \ {thisChannel(h)}]

renders(request) == request.complete

(* The template of the next channel: missing, the channel is skipped; a    *)
(* required token without a value ends the request.                        *)

ReadTemplate(h) ==
    /\ at(h, "CHANNELS")
    /\ sender[h].left # {}
    /\ LET request == Causes[sender[h].event]
           found == template[<<request.template, thisChannel(h)>>]
       IN sender' =
            IF found = NoTemplate
            THEN [toNextChannel(h) EXCEPT ![h].skipped = @ \cup {thisChannel(h)}]
            ELSE IF found /\ ~ renders(request) THEN [sender EXCEPT ![h] = Idle]
            ELSE [sender EXCEPT ![h].pc = "DEDUPE"]
    /\ UNCHANGED <<message, preference, template, noticeRequests, answered, asked>>

(* Mutant: a duplicate ends the loop, not the turn of one channel.         *)
afterDuplicate_stop(h) == [sender EXCEPT ![h].pc = "CHANNELS", ![h].left = {}]

afterDuplicate(h) == toNextChannel(h)

FindDuplicate(h) ==
    /\ at(h, "DEDUPE")
    /\ sender' = IF message[key(h)] # NoMessage THEN afterDuplicate(h)
                 ELSE [sender EXCEPT ![h].pc = "INSERT"]
    /\ UNCHANGED <<message, preference, template, noticeRequests, answered, asked>>

(* The unique index refuses a message inserted meanwhile, and the request  *)
(* fails with the channels that were left.                                 *)
Insert(h) ==
    /\ at(h, "INSERT")
    /\ IF message[key(h)] # NoMessage
       THEN sender' = [sender EXCEPT ![h] = Idle] /\ UNCHANGED message
       ELSE /\ message' = [message EXCEPT ![key(h)] = [status |-> "QUEUED", read |-> FALSE]]
            /\ sender' = toNextChannel(h)
    /\ UNCHANGED <<preference, template, noticeRequests, answered, asked>>

(* What was withheld is recorded; a key that is taken, or any other reason *)
(* to refuse the row, is let be.                                           *)
Withhold(h) ==
    /\ at(h, "CHANNELS")
    /\ sender[h].left = {}
    /\ sender[h].suppressed # {}
    /\ LET c == nextOf(h, sender[h].suppressed)
           m == <<sender[h].event, c>>
           next == [sender EXCEPT ![h].suppressed = @ \ {c}]
       IN \/ /\ message' = [message EXCEPT ![m] =
                    IF @ = NoMessage THEN [status |-> "SUPPRESSED", read |-> FALSE] ELSE @]
             /\ sender' = next
          \/ /\ sender' = [next EXCEPT ![h].skipped = @ \cup {c}]
             /\ UNCHANGED message
    /\ UNCHANGED <<preference, template, noticeRequests, answered, asked>>

Answer(h) ==
    /\ at(h, "CHANNELS")
    /\ sender[h].left = {}
    /\ sender[h].suppressed = {}
    /\ LET e == sender[h].event
       IN answered' = [answered EXCEPT ![e] =
            @ \cup (candidates(Causes[e]) \ sender[h].skipped)]
    /\ sender' = [sender EXCEPT ![h] = Idle]
    /\ UNCHANGED <<message, preference, template, noticeRequests, asked>>

send(h) ==
    \/ ReadPreferences(h) \/ ReadTemplate(h) \/ FindDuplicate(h)
    \/ Insert(h) \/ Withhold(h) \/ Answer(h)

(* The process dies, or the database refuses a statement.                  *)
Crash(h) ==
    /\ sender[h] # Idle
    /\ sender' = [sender EXCEPT ![h] = Idle]
    /\ UNCHANGED <<message, preference, template, noticeRequests, answered, asked>>

-----------------------------------------------------------------------------
(* Requests of one statement. *)

oneStatement ==
    /\ quiet => \A h \in Senders : sender[h] = Idle
    /\ noticeRequests < MaxNoticeRequests[quiet]
    /\ noticeRequests' = noticeRequests + 1
    /\ UNCHANGED <<sender, answered>>

UpsertTemplate ==
    /\ oneStatement
    /\ \E which \in DOMAIN template, requires \in BOOLEAN :
          template' = [template EXCEPT ![which] = requires]
    /\ UNCHANGED <<message, preference, asked>>

(* Mutant: a preference is only ever inserted.                             *)
rowOf_new(c, scope) == 0

(* The row upsert finds: looked up under '' where the scope is null, and   *)
(* inserted under null, one that covers everything is never found.         *)
rowOf(c, scope) ==
    SelectInSeq(preference, LAMBDA p : p.channel = c /\ p.template = scope /\ scope # Everything)

UpdatePreference ==
    /\ oneStatement
    /\ \E c \in Channels, scope \in Templates \cup {Everything}, enabled \in BOOLEAN :
          /\ preference' =
                IF rowOf(c, scope) = 0
                THEN Append(preference, [channel |-> c, template |-> scope, enabled |-> enabled])
                ELSE [preference EXCEPT ![rowOf(c, scope)].enabled = enabled]
          /\ asked' = [asked EXCEPT ![<<c, scope>>] =
                IF scope = Everything THEN @ \cup {enabled} ELSE {enabled}]
    /\ UNCHANGED <<message, template>>

(* markRead reads the row first; only a reader of its own sets what it saw *)
(* unset, so the two steps are one.                                        *)
MarkRead ==
    /\ oneStatement
    /\ \E m \in DOMAIN message :
          /\ message[m] # NoMessage
          /\ message' = [message EXCEPT ![m].read = TRUE]
    /\ UNCHANGED <<preference, template, asked>>

MarkAllRead ==
    /\ oneStatement
    /\ message' = [m \in DOMAIN message |->
          IF m[2] = "IN_APP" /\ message[m] # NoMessage THEN [message[m] EXCEPT !.read = TRUE]
          ELSE message[m]]
    /\ UNCHANGED <<preference, template, asked>>

Next ==
    /\ \/ \E h \in Senders : send(h) \/ Crash(h)
       \/ UpsertTemplate \/ UpdatePreference \/ MarkRead \/ MarkAllRead
    /\ UNCHANGED quiet

Spec == Init /\ [][Next]_vars

-----------------------------------------------------------------------------
(* Properties. *)

MessageRow == [status : {"QUEUED", "SUPPRESSED"}, read : BOOLEAN]

(* Every variable stays in the set its columns allow.                      *)
TypeOK ==
    /\ message \in [Events \X Channels -> MessageRow \cup {NoMessage}]
    /\ template \in [Templates \X Channels -> BOOLEAN \cup {NoTemplate}]
    /\ noticeRequests \in 0 .. MaxNoticeRequests[quiet]

(* notification.service.ts: "Record what was deliberately withheld, so     *)
(* 'why did I not get an email?' has an answer". A send that was answered  *)
(* has left a row for each channel of the message that it did not pass     *)
(* over, for want of a template or because the row of a withheld message   *)
(* was refused, whatever duplicates it met and wherever earlier attempts   *)
(* had died.                                                               *)
AnsweredIsRecorded == \A e \in Events : \A c \in answered[e] : message[<<e, c>>] # NoMessage

(* What the recipient wants of t on c: his answer about t counts before    *)
(* what he said of all the channel. Neither, if that was now yes, now no.  *)
refused(c, t) ==
    \/ asked[<<c, t>>] = {FALSE}
    \/ asked[<<c, t>>] = {} /\ asked[<<c, Everything>>] = {FALSE}

welcome(c, t) ==
    \/ asked[<<c, t>>] = {TRUE}
    \/ asked[<<c, t>>] = {} /\ asked[<<c, Everything>>] \subseteq {TRUE}

(* routing.spec.ts: "honours an opt-out for an optional message", "ignores *)
(* an opt-out for a transactional message". While a request is under way   *)
(* the guest asks for nothing: an optional message he refused is withheld, *)
(* and any other is withheld for want of an address only. For a guest who  *)
(* changed his mind about a whole channel nothing is claimed of messages   *)
(* he has not answered for: his earlier row stays, and may be found first. *)
KeepsToWhatIsAsked ==
    quiet => \A e \in Events, c \in Channels :
        LET t        == Causes[e].template
            status   == message'[<<e, c>>].status
            optional == isSuppressible(t)
        IN message[<<e, c>>] = NoMessage /\ message'[<<e, c>>] # NoMessage =>
              /\ optional /\ refused(c, t) => status = "SUPPRESSED"
              /\ hasAddress(c, Causes[e]) /\ (optional => welcome(c, t)) => status = "QUEUED"

QuietOptOutHolds == [][KeepsToWhatIsAsked]_vars
=============================================================================
