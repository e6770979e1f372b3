---------------------------- MODULE OutboxRelay ----------------------------
(***************************************************************************)
(* packages/service-core: OutboxRelay.drainOnce, run by relay processes    *)
(* over one outbox table. A service commits a record (the transactions of  *)
(* Bookings and Payments); a relay claims a batch, publishes it record by  *)
(* record and marks what was sent. Every await ends a step.                *)
(*                                                                         *)
(* The store and the broker are interfaces: claimBatch returns the oldest  *)
(* unpublished records nobody else holds, a claim is held until the drain  *)
(* ends, markFailed counts one attempt; the broker appends to a log. A     *)
(* crash stands for a killed process and for a store call that throws:     *)
(* either way drainOnce ends without markPublished.                        *)
(***************************************************************************)
EXTENDS Integers, FiniteSets, Sequences, FiniteSetsExt, Functions

CONSTANTS
    Records,      \* 1 .. n, in createdAt order
    Relays,
    BatchSize,
    MaxAttempts,
    Poison,       \* records the broker always refuses
    MaxOutages,   \* bound on refusals of other records
    MaxCrashes    \* bound on relay crashes

VARIABLES
    written,   \* records committed by services: 1 .. written
    published, \* records whose publishedAt is set
    attempts,  \* attempts[n]: the attempts column
    relay,     \* relay[w]: the drain w is in: batch, what is left of it, publishedIds
    log,       \* the broker's log, oldest first
    outages,   \* refusals of records that are not poison so far
    crashes    \* crashes so far

vars == <<written, published, attempts, relay, log, outages, crashes>>

Idle == [pc |-> "IDLE", batch |-> {}, left |-> {}, publishedIds |-> {}]

Init ==
    /\ written = 0
    /\ published = {}
    /\ attempts = [n \in Records |-> 0]
    /\ relay = [w \in Relays |-> Idle]
    /\ log = <<>>
    /\ outages = 0
    /\ crashes = 0

(* A service's transaction commits: its state change and its event. *)
Write ==
    /\ written + 1 \in Records
    /\ written' = written + 1
    /\ UNCHANGED <<published, attempts, relay, log, outages, crashes>>

-----------------------------------------------------------------------------
locked == UNION {relay[w].batch : w \in Relays}

claimable == (1 .. written) \ (published \cup locked)

(* claimBatch: the oldest records, at most BatchSize of them. *)
oldest(S) == {n \in S : Cardinality({m \in S : m < n}) < BatchSize}

ClaimBatch(w) ==
    /\ relay[w].pc = "IDLE"
    /\ claimable # {}
    /\ LET batch == oldest(claimable) IN
       relay' = [relay EXCEPT ![w] = [pc |-> "PUBLISH", batch |-> batch, left |-> batch,
                                      publishedIds |-> {}]]
    /\ UNCHANGED <<written, published, attempts, log, outages, crashes>>

(* The batch is gone through in createdAt order.                           *)
record(w) == Min(relay[w].left)

leftAfter(w) == relay[w].left \ {record(w)}

inLoop(w) == relay[w].pc = "PUBLISH" /\ relay[w].left # {}

isPoisoned(n) == attempts[n] >= MaxAttempts

(* Mutant: a parked record ends the loop.                                  *)
SkipPoisoned_break(w) ==
    /\ inLoop(w)
    /\ isPoisoned(record(w))
    /\ relay' = [relay EXCEPT ![w].left = {}]
    /\ UNCHANGED <<written, published, attempts, log, outages, crashes>>

(* Past maxAttempts: reported through onPoison and left as it is. *)
SkipPoisoned(w) ==
    /\ inLoop(w)
    /\ isPoisoned(record(w))
    /\ relay' = [relay EXCEPT ![w].left = leftAfter(w)]
    /\ UNCHANGED <<written, published, attempts, log, outages, crashes>>

PublishRecord(w) ==
    /\ inLoop(w)
    /\ ~ isPoisoned(record(w))
    /\ record(w) \notin Poison
    /\ log' = Append(log, record(w))
    /\ relay' = [relay EXCEPT ![w].left = leftAfter(w),
                              ![w].publishedIds = @ \cup {record(w)}]
    /\ UNCHANGED <<written, published, attempts, outages, crashes>>

(* publish throws; of a record that is not poison, only the acknowledgement *)
(* may be lost.                                                            *)
PublishThrows(w) ==
    /\ inLoop(w)
    /\ ~ isPoisoned(record(w))
    /\ IF record(w) \in Poison THEN UNCHANGED <<log, outages>>
       ELSE /\ outages < MaxOutages
            /\ outages' = outages + 1
            /\ log' \in {log, Append(log, record(w))}
    /\ relay' = [relay EXCEPT ![w].pc = "MARK_FAILED"]
    /\ UNCHANGED <<written, published, attempts, crashes>>

MarkFailed(w) ==
    /\ relay[w].pc = "MARK_FAILED"
    /\ attempts' = [attempts EXCEPT ![record(w)] = @ + 1]
    /\ relay' = [relay EXCEPT ![w].pc = "PUBLISH", ![w].left = leftAfter(w)]
    /\ UNCHANGED <<written, published, log, outages, crashes>>

idsToMark(w) == relay[w].publishedIds

(* The loop is over: one markPublished call, then the claims are let go. *)
MarkPublished(w) ==
    /\ relay[w].pc = "PUBLISH"
    /\ relay[w].left = {}
    /\ published' = published \cup idsToMark(w)
    /\ relay' = [relay EXCEPT ![w] = Idle]
    /\ UNCHANGED <<written, attempts, log, outages, crashes>>

Crash(w) ==
    /\ relay[w].pc # "IDLE"
    /\ crashes < MaxCrashes
    /\ crashes' = crashes + 1
    /\ relay' = [relay EXCEPT ![w] = Idle]
    /\ UNCHANGED <<written, published, attempts, log, outages>>

drainOnce(w) ==
    \/ ClaimBatch(w) \/ SkipPoisoned(w) \/ PublishRecord(w)
    \/ PublishThrows(w) \/ MarkFailed(w) \/ MarkPublished(w)

Next ==
    \/ Write
    \/ \E w \in Relays : drainOnce(w) \/ Crash(w)

Spec == Init /\ [][Next]_vars

(* A scheduler keeps calling drainOnce and the broker answers: a drain     *)
(* that can take a step does. Nothing forces a service to write.           *)
Fairness == \A w \in Relays : WF_vars(drainOnce(w))

FairSpec == Spec /\ Fairness

-----------------------------------------------------------------------------
(* Properties. *)

(* An event whose change committed is never given up before the broker has *)
(* it: publishedAt is only set on records that are in the log.             *)
PublishedIsInLog == published \subseteq Range(log)

(* As many parked records as a batch holds: nothing behind them is ever    *)
(* claimed again, since the oldest unpublished records are these.          *)
clogged == Cardinality({n \in 1 .. written : isPoisoned(n)}) >= BatchSize

(* No committed event is lost or starved: it reaches the broker unless the *)
(* broker refused it maxAttempts times, or a whole batch of others so often.*)
EventuallyPublished ==
    \A n \in Records : written >= n ~> n \in Range(log) \/ isPoisoned(n) \/ clogged
=============================================================================
