--------------------------- MODULE EventDelivery ---------------------------
(***************************************************************************)
(* The path of an event: a service's outbox, the relay that moves it to    *)
(* the broker's log, and the workers of a consumer group that read the log *)
(* through consumeOnce. The two components share the log and nothing else. *)
(***************************************************************************)
EXTENDS Integers, FiniteSets

CONSTANTS
    Records, Relays, BatchSize, MaxAttempts, Poison, MaxOutages, MaxRelayCrashes,
    Workers, Ttl, MaxTime, MaxThrows, MaxReplays, MaxRebalances, MaxWorkerCrashes

ASSUME DeliveryAssumption ==
    /\ Records = 1 .. Cardinality(Records) /\ Poison \subseteq Records
    /\ BatchSize \in Nat \ {0} /\ MaxAttempts \in Nat \ {0}
    /\ Ttl \in Nat \ {0} /\ MaxTime \in Nat

VARIABLES
    written, published, attempts, relay, log, outages, crashes,
    acked, seen, worker, handled, clock, faults

Relay == INSTANCE OutboxRelay WITH MaxCrashes <- MaxRelayCrashes

Group == INSTANCE ConsumeOnce WITH MaxCrashes <- MaxWorkerCrashes, Events <- Records

relayOnly == <<written, published, attempts, relay, outages, crashes>>
groupOnly == <<acked, seen, worker, handled, clock, faults>>
vars == <<relayOnly, log, groupOnly>>

Init == Relay!Init /\ Group!Init

RelayStep == Relay!Next /\ UNCHANGED groupOnly

GroupStep == Group!Next /\ UNCHANGED relayOnly

Next == RelayStep \/ GroupStep

Spec == Init /\ [][Next]_vars

(* Relays keep draining, the broker keeps delivering what is due, handlers *)
(* end. Faults are bounded and never forced.                               *)
Fairness ==
    /\ \A w \in Relays : WF_vars(Relay!drainOnce(w) /\ UNCHANGED groupOnly)
    /\ \A k \in Workers : WF_vars(Group!consumeOnce(k) /\ UNCHANGED relayOnly)

FairSpec == Spec /\ Fairness

-----------------------------------------------------------------------------
(* Properties. *)

Feed == INSTANCE EventFeed WITH
    Events <- Records, committed <- 1 .. written, effects <- handled

(* consumeOnce: "runs handler at most once per (consumer group, event)".   *)
(* Whatever is duplicated, replayed or crashed within the de-duplication   *)
(* window, no event takes effect twice, or before its change committed:    *)
(* the delivery path implements the safety half of the event feed.         *)
AtMostOnce == Feed!Safety

(* The other half, while no worker has died and no message was delivered   *)
(* again during its handling: the event of every committed change takes    *)
(* effect in the end, unless the broker refused it maxAttempts times.      *)
EventuallyHandled ==
    \A e \in Records :
        written >= e ~> \/ handled[e] = 1 \/ Relay!isPoisoned(e)
                        \/ faults.crashes > 0 \/ faults.rebalances > 0

(* The delivery path implements the event feed: exactly one effect per     *)
(* committed event, in the end.                                            *)
ImplementsEventFeed == Feed!Spec
=============================================================================
