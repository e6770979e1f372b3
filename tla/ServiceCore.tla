---------------------------- MODULE ServiceCore ----------------------------
(***************************************************************************)
(* packages/service-core inside one process: the circuit breaker of an     *)
(* upstream, the outbox relay of its database, and the connection it opens *)
(* as it starts. They share no state, so a behaviour is one of them while  *)
(* the others have not begun.                                              *)
(***************************************************************************)
EXTENDS CircuitBreaker

CONSTANTS Records, Relays, BatchSize, MaxAttempts, Poison, MaxOutages, MaxCrashes,
          Attempts, BaseDelay, MaxDelay, WakeTimes

VARIABLES written, published, attempts, relay, log, outages, crashes,
          boot, attempt, wakesIn, patient,
          part \* which of the three this behaviour is of

Relay == INSTANCE OutboxRelay
Connection == INSTANCE ColdStart

relayVars == <<written, published, attempts, relay, log, outages, crashes>>
bootVars == <<boot, attempt, wakesIn, patient>>
coreVars == <<vars, relayVars, bootVars, part>>

CoreInit ==
    /\ part \in {"BREAKER", "RELAY", "BOOT"}
    /\ Init
    /\ Relay!Init
    /\ Connection!Init
    /\ part # "BOOT" => wakesIn = Connection!Refusing /\ patient

ofBreaker(step) == part = "BREAKER" /\ step /\ UNCHANGED <<relayVars, bootVars, part>>
ofRelay(step) == part = "RELAY" /\ step /\ UNCHANGED <<vars, bootVars, part>>
ofBoot(step) == part = "BOOT" /\ step /\ UNCHANGED <<vars, relayVars, part>>

CoreNext == ofBreaker(Next) \/ ofRelay(Relay!Next) \/ ofBoot(Connection!Next)

(* The fairness of the parts, as argued in their modules.              *)
CoreFairness ==
    /\ WF_coreVars(ofBreaker(Tick))
    /\ \A c \in Calls : /\ WF_coreVars(ofBreaker(Start(c)))
                        /\ WF_coreVars(ofBreaker(Succeed(c) \/ Fail(c)))
    /\ \A w \in Relays : WF_coreVars(ofRelay(Relay!drainOnce(w)))
    /\ WF_coreVars(ofBoot(Connection!starting))

CoreSpec == CoreInit /\ [][CoreNext]_coreVars /\ CoreFairness

-----------------------------------------------------------------------------
(* The properties of the parts, under the names the run uses. *)

(* An upstream that heals gets its traffic back, and a database that was   *)
(* asleep is reached once it wakes.                                        *)
ComesBack ==
    /\ Recovers
    /\ part = "BOOT" => Connection!StartsCold

(* No committed event is lost or starved, or given up before the broker    *)
(* has it: publishedAt is set on records that are in the log only, and each*)
(* reaches the log unless the broker refused it maxAttempts times, or a    *)
(* whole batch of others so often.                                         *)
EventuallyPublished ==
    part = "RELAY" => []Relay!PublishedIsInLog /\ Relay!EventuallyPublished
=============================================================================
