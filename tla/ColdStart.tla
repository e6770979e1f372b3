----------------------------- MODULE ColdStart -----------------------------
(***************************************************************************)
(* packages/service-core: connectWithRetry (datastore-connect.ts) over     *)
(* withRetry (retry.ts), as onModuleInit of every PrismaService calls it   *)
(* while its service starts. Time is in seconds and an attempt takes none; *)
(* a serverless database that is asleep wakes some time after the first    *)
(* attempt reaches it, and one that is misconfigured refuses every attempt.*)
(***************************************************************************)
EXTENDS Integers, FiniteSets, FiniteSetsExt

CONSTANTS
    Attempts,  \* how often connectWithRetry tries
    BaseDelay, \* ceiling of the delay after the first attempt
    MaxDelay,  \* ceiling of every delay
    WakeTimes  \* how long a database may take to wake

Refusing == -1

VARIABLES
    boot,      \* what onModuleInit is at: TRY, SLEEP, READY or EXITED
    attempt,   \* the number of the attempt, from 1
    wakesIn,   \* time until the database answers, or Refusing
    patient    \* is every random delay as long as it may be?

vars == <<boot, attempt, wakesIn, patient>>

Init ==
    /\ boot = "TRY"
    /\ attempt = 1
    /\ wakesIn \in WakeTimes \cup {Refusing}
    /\ patient \in BOOLEAN

-----------------------------------------------------------------------------
(* The delay doubles from attempt to attempt.                              *)
ceiling(n) == Min({MaxDelay, BaseDelay * 2 ^ (n - 1)})

(* Math.floor of the ceiling and a random factor below one.                *)
backoffDelay(n) == IF patient THEN {ceiling(n) - 1} ELSE 0 .. ceiling(n) - 1

isReachabilityError == wakesIn > 0

Connect ==
    /\ boot = "TRY"
    /\ wakesIn = 0
    /\ boot' = "READY"
    /\ UNCHANGED <<attempt, wakesIn, patient>>

(* Mutant: the last attempt is given up.                                   *)
isLast_oneFewer == attempt = Attempts - 1

isLast == attempt = Attempts

Refused ==
    /\ boot = "TRY"
    /\ wakesIn # 0
    /\ boot' = IF isLast \/ ~ isReachabilityError THEN "EXITED" ELSE "SLEEP"
    /\ UNCHANGED <<attempt, wakesIn, patient>>

Sleep ==
    /\ boot = "SLEEP"
    /\ \E delay \in backoffDelay(attempt) : wakesIn' = Max({0, wakesIn - delay})
    /\ boot' = "TRY"
    /\ attempt' = attempt + 1
    /\ UNCHANGED patient

(* onModuleInit has returned or thrown: the start is over.                 *)
over == boot \in {"READY", "EXITED"}

Over == over /\ UNCHANGED vars

starting == Connect \/ Refused \/ Sleep

Next == starting \/ Over

(* The event loop runs what is due, and a timer that was set expires.      *)
Spec == Init /\ [][Next]_vars /\ WF_vars(starting)

-----------------------------------------------------------------------------
(* Properties. *)

(* What the delays add up to if each is as long as it may be.              *)
longestWait == MapThenSumSet(LAMBDA n : ceiling(n) - 1, 1 .. Attempts - 1)

(* connectWithRetry: "tolerating a cold start", and "Only reachability     *)
(* errors are retried". A start ends; a misconfiguration ends it at once,  *)
(* a sleeping database not before the last attempt; and a database that    *)
(* wakes within the longest wait is reached if the delays are that long.   *)
StartsCold ==
    /\ <>over
    /\ [](wakesIn = Refusing => attempt = 1)
    /\ [](boot = "EXITED" => wakesIn = Refusing \/ attempt = Attempts)
    /\ patient /\ wakesIn \in 0 .. longestWait => <>(boot = "READY")
=============================================================================
