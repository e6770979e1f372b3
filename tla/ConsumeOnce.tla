---------------------------- MODULE ConsumeOnce ----------------------------
(***************************************************************************)
(* packages/service-core: consumeOnce over an IdempotencyStore, run by the *)
(* workers of one consumer group that reads the broker's log.              *)
(*                                                                         *)
(* The log belongs to the broker and is only read here. A delivery stays   *)
(* due until it is acknowledged; it may be made again after that (an       *)
(* offset commit that got lost) and, in a rebalance, while another worker  *)
(* is still at it. A handler either takes effect or throws without one.    *)
(***************************************************************************)
EXTENDS Integers, FiniteSets, Sequences

CONSTANTS
    Events,        \* event ids
    Workers,       \* processes of the consumer group
    Ttl,           \* ttlSeconds
    MaxTime,       \* last reading of the clock
    MaxThrows,     \* bound on handlers that throw
    MaxReplays,    \* bound on lost offset commits
    MaxRebalances, \* bound on deliveries of what is being handled
    MaxCrashes     \* bound on worker crashes

VARIABLES
    log,     \* the broker's log: event ids
    acked,   \* positions of the log whose delivery was acknowledged
    seen,    \* seen[e]: when the claim on e expires, 0 when there is none
    worker,  \* worker[k]: the delivery k is at
    handled, \* handled[e]: how often a handler has taken effect on e
    clock,
    faults   \* throws, replays, rebalances and crashes so far

groupVars == <<acked, seen, worker, handled, clock, faults>>
vars == <<log, groupVars>>

Init ==
    /\ log = <<>>
    /\ acked = {}
    /\ seen = [e \in Events |-> 0]
    /\ worker = [k \in Workers |-> [pc |-> "IDLE", at |-> 0]]
    /\ handled = [e \in Events |-> 0]
    /\ clock = 0
    /\ faults = [throws |-> 0, replays |-> 0, rebalances |-> 0, crashes |-> 0]

fault(kind, bound) ==
    /\ faults[kind] < bound
    /\ faults' = [faults EXCEPT ![kind] = @ + 1]

inFlight(i) == \E k \in Workers : worker[k].pc # "IDLE" /\ worker[k].at = i

due(i) == i \in DOMAIN log /\ i \notin acked

(* InMemoryIdempotencyStore.claim. *)
claimed(e) == seen[e] > clock

(* The message is delivered and store.claim answers. *)
Deliver(k) ==
    /\ worker[k].pc = "IDLE"
    /\ \E i \in DOMAIN log :
          /\ due(i)
          /\ IF inFlight(i) THEN fault("rebalances", MaxRebalances) ELSE UNCHANGED faults
          /\ IF claimed(log[i])
             THEN /\ worker' = [worker EXCEPT ![k] = [pc |-> "ACK", at |-> i]]
                  /\ UNCHANGED seen
             ELSE /\ worker' = [worker EXCEPT ![k] = [pc |-> "HANDLE", at |-> i]]
                  /\ seen' = [seen EXCEPT ![log[i]] = clock + Ttl]
    /\ UNCHANGED <<log, acked, handled, clock>>

(* Mutant: the claim is released when the handler is done, either way.     *)
claimsAfterHandling_finally(e) == [seen EXCEPT ![e] = 0]

claimsAfterHandling(e) == seen

HandlerReturns(k) ==
    /\ worker[k].pc = "HANDLE"
    /\ LET e == log[worker[k].at] IN
          /\ handled' = [handled EXCEPT ![e] = @ + 1]
          /\ seen' = claimsAfterHandling(e)
    /\ worker' = [worker EXCEPT ![k].pc = "ACK"]
    /\ UNCHANGED <<log, acked, clock, faults>>

HandlerThrows(k) ==
    /\ worker[k].pc = "HANDLE"
    /\ fault("throws", MaxThrows)
    /\ worker' = [worker EXCEPT ![k].pc = "RELEASE"]
    /\ UNCHANGED <<log, acked, seen, handled, clock>>

claimsAfterThrow(e) == [seen EXCEPT ![e] = 0]

(* Mutant: the error stops at consumeOnce and the delivery is acknowledged. *)
Release_swallowed(k) ==
    /\ worker[k].pc = "RELEASE"
    /\ seen' = claimsAfterThrow(log[worker[k].at])
    /\ acked' = acked \cup {worker[k].at}
    /\ worker' = [worker EXCEPT ![k] = [pc |-> "IDLE", at |-> 0]]
    /\ UNCHANGED <<log, handled, clock, faults>>

(* store.release, then the error goes up and the delivery stays due. *)
Release(k) ==
    /\ worker[k].pc = "RELEASE"
    /\ seen' = claimsAfterThrow(log[worker[k].at])
    /\ worker' = [worker EXCEPT ![k] = [pc |-> "IDLE", at |-> 0]]
    /\ UNCHANGED <<log, acked, handled, clock, faults>>

Acknowledge(k) ==
    /\ worker[k].pc = "ACK"
    /\ acked' = acked \cup {worker[k].at}
    /\ worker' = [worker EXCEPT ![k] = [pc |-> "IDLE", at |-> 0]]
    /\ UNCHANGED <<log, seen, handled, clock, faults>>

Replay ==
    /\ \E i \in acked : acked' = acked \ {i}
    /\ fault("replays", MaxReplays)
    /\ UNCHANGED <<log, seen, worker, handled, clock>>

(* The process dies; what it claimed stays claimed. *)
Crash(k) ==
    /\ worker[k].pc # "IDLE"
    /\ fault("crashes", MaxCrashes)
    /\ worker' = [worker EXCEPT ![k] = [pc |-> "IDLE", at |-> 0]]
    /\ UNCHANGED <<log, acked, seen, handled, clock>>

Tick ==
    /\ clock < MaxTime
    /\ clock' = clock + 1
    /\ UNCHANGED <<log, acked, seen, worker, handled, faults>>

consumeOnce(k) ==
    \/ Deliver(k) \/ HandlerReturns(k) \/ Release(k) \/ Acknowledge(k)

Next ==
    \/ \E k \in Workers : consumeOnce(k) \/ HandlerThrows(k) \/ Crash(k)
    \/ Replay
    \/ Tick
=============================================================================
