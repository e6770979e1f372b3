--------------------------- MODULE DeliveryProofs ---------------------------
(***************************************************************************)
(* Proofs about the path of an event from the outbox to its handler, for   *)
(* any number of records, relays, workers, faults and rebalances: what is  *)
(* marked as published is in the broker's log, and within the lifetime of  *)
(* a claim no event takes effect twice.                                    *)
(***************************************************************************)
EXTENDS EventDelivery, SequenceTheorems, WellFoundedInduction, TLAPS

Stored == 1 .. written

RelayState ==
    [pc : {"IDLE", "PUBLISH", "MARK_FAILED"}, batch : SUBSET Stored, left : SUBSET Stored,
     publishedIds : SUBSET Stored]

WorkerState == [pc : {"IDLE", "HANDLE", "RELEASE", "ACK"}, at : Nat]

Columns ==
    /\ written \in Nat
    /\ Stored \subseteq Records
    /\ log \in Seq(Records)

Drains ==
    /\ \A w \in Relays : relay[w] \in RelayState
    /\ DOMAIN relay = Relays
    /\ \A w \in Relays : relay[w].pc = "MARK_FAILED" => relay[w].left # {}

Deliveries ==
    /\ seen \in [Records -> Nat]
    /\ handled \in [Records -> {0, 1}]
    /\ clock \in 0 .. MaxTime
    /\ worker \in [Workers -> WorkerState]
    /\ \A k \in Workers : worker[k].pc # "IDLE" => worker[k].at \in DOMAIN log

(* Nothing gets into the log but records of the outbox, and nothing is     *)
(* marked before it is there.                                              *)
LogOfStored == \A i \in DOMAIN log : log[i] \in Stored

MarkedIsLogged ==
    /\ published \subseteq Range(log)
    /\ \A w \in Relays : relay[w].publishedIds \subseteq Range(log)

(* Who has claimed an event and not let it go, one way or the other.       *)
claims(k, e) == worker[k].pc \in {"HANDLE", "RELEASE"} /\ log[worker[k].at] = e

(* A claim outlasts the clock, has one owner while the event is handled,   *)
(* and stays when it has been.                                             *)
ClaimsHold ==
    /\ \A e \in Records : seen[e] = 0 \/ seen[e] > MaxTime
    /\ \A e \in Records : handled[e] = 1 => seen[e] # 0
    /\ \A k \in Workers, e \in Records : claims(k, e) => seen[e] # 0 /\ handled[e] = 0
    /\ \A k, j \in Workers, e \in Records : claims(k, e) /\ claims(j, e) => k = j

RelayInv == Columns /\ Drains /\ LogOfStored /\ MarkedIsLogged

Inv == RelayInv /\ Deliveries /\ ClaimsHold

LogGrows ==
    DOMAIN log \subseteq DOMAIN log' /\ \A i \in DOMAIN log : log'[i] = log[i]

-----------------------------------------------------------------------------
(* The relay. *)

(* A record is left to take the first of whenever one is left.             *)
LEMMA Smallest ==
    ASSUME NEW S \in SUBSET Nat, S # {}
    PROVE  Relay!Min(S) \in S
<1>1. PICK R : R = OpToRel(<, Nat)
  OBVIOUS
<1>2. IsWellFoundedOn(R, Nat)
  BY <1>1, NatLessThanWellFounded
<1>3. PICK x \in S : \A y \in S : ~ (<<y, x>> \in R)
  BY <1>2, WFMin
<1>4. R = {ss \in Nat \X Nat : ss[1] < ss[2]}
  BY <1>1 DEF OpToRel
<1>5. \A y \in S : x <= y
  <2>1. SUFFICES ASSUME NEW y \in S, y < x PROVE FALSE
    OBVIOUS
  <2>2. PICK p : p = <<y, x>>
    OBVIOUS
  <2>3. p \in Nat \X Nat /\ p[1] = y /\ p[2] = x
    BY <2>2
  <2>4. p \in R
    BY <1>4, <2>1, <2>3
  <2>5. QED
    BY <1>3, <2>2, <2>4
<1>6. QED
  BY <1>5 DEF Relay!Min

(* Records of the outbox are numbered.                                     *)
LEMMA StoredIsNat == ASSUME Columns PROVE Stored \subseteq Nat
BY DEF Columns, Stored

(* What a drain is at is a record of the outbox, in its range.             *)
LEMMA AtRecord ==
    ASSUME RelayInv, NEW w \in Relays, relay[w].left # {}
    PROVE  /\ Relay!record(w) \in Stored /\ Relay!record(w) \in Records
           /\ Relay!leftAfter(w) \in SUBSET Stored
<1>1. relay[w].left \in SUBSET Stored /\ relay[w].left \in SUBSET Nat
  BY StoredIsNat DEF RelayInv, Drains, RelayState
<1>2. Relay!record(w) \in relay[w].left
  BY <1>1, Smallest DEF Relay!record
<1>3. QED
  BY <1>1, <1>2 DEF RelayInv, Columns, Relay!leftAfter

(* Steps that move one drain and at most append to the log a record of the *)
(* outbox.                                                                 *)
LEMMA DrainMoves ==
    ASSUME RelayInv, NEW w \in Relays, NEW next \in RelayState,
           relay' = [relay EXCEPT ![w] = next],
           next.pc = "MARK_FAILED" => next.left # {},
           log' = log \/ \E e \in Stored : log' = Append(log, e),
           next.publishedIds \subseteq Range(log'),
           published' \subseteq Range(log'),
           UNCHANGED written
    PROVE  RelayInv' /\ LogGrows
<1>1. log \in Seq(Records) /\ Stored \subseteq Records
  BY DEF RelayInv, Columns
<1>2. /\ log' \in Seq(Records) /\ DOMAIN log \subseteq DOMAIN log'
      /\ \A i \in DOMAIN log : log'[i] = log[i]
      /\ \A i \in DOMAIN log' : i \in DOMAIN log \/ log'[i] \in Stored
  <2>1. ASSUME NEW e \in Stored, log' = Append(log, e)
        PROVE  /\ log' \in Seq(Records) /\ DOMAIN log \subseteq DOMAIN log'
               /\ \A i \in DOMAIN log : log'[i] = log[i]
               /\ \A i \in DOMAIN log' : i \in DOMAIN log \/ log'[i] \in Stored
    <3>1. /\ log' \in Seq(Records) /\ Len(log') = Len(log) + 1 /\ Len(log) \in Nat
          /\ \A i \in 1 .. Len(log) : log'[i] = log[i]
          /\ log'[Len(log) + 1] = e
      BY <1>1, <2>1, AppendProperties, LenProperties
    <3>2. DOMAIN log' = 1 .. Len(log') /\ DOMAIN log = 1 .. Len(log)
      BY <1>1, <3>1, LenProperties
    <3>3. QED
      BY <3>1, <3>2
  <2>2. QED
    BY <1>1, <2>1
<1>3. Columns'
  BY <1>2 DEF RelayInv, Columns, Stored
<1>4. Drains'
  BY DEF RelayInv, Drains, RelayState, Stored
<1>5. LogOfStored'
  BY <1>2 DEF RelayInv, LogOfStored, Stored
<1>6. MarkedIsLogged'
  <2>1. Range(log) \subseteq Range(log')
    BY <1>2 DEF Range
  <2>2. QED
    BY <2>1 DEF RelayInv, MarkedIsLogged, Drains
<1>7. QED
  BY <1>2, <1>3, <1>4, <1>5, <1>6 DEF RelayInv, LogGrows

(* A service commits one record more.                                      *)
LEMMA WriteKeeps ==
    ASSUME RelayInv, Relay!Write
    PROVE  /\ RelayInv' /\ LogGrows /\ written + 1 \in Records
           /\ Stored' = Stored \cup {written + 1} /\ written + 1 \notin Stored
<1>1. /\ written' = written + 1 /\ written + 1 \in Records /\ written \in Nat
      /\ UNCHANGED <<published, attempts, relay, log, outages, crashes>>
  BY DEF Relay!Write, RelayInv, Columns
<1>2. Stored' = Stored \cup {written + 1} /\ written + 1 \notin Stored
  BY <1>1 DEF Stored
<1>3. Columns'
  BY <1>1, <1>2 DEF RelayInv, Columns
<1>4. Drains' /\ LogOfStored' /\ MarkedIsLogged'
  BY <1>1, <1>2 DEF RelayInv, Drains, RelayState, LogOfStored, MarkedIsLogged
<1>5. QED
  BY <1>1, <1>2, <1>3, <1>4 DEF RelayInv, LogGrows

(* Whatever a drain does or fails to do, or a crash ends.                  *)
LEMMA RelayKeeps ==
    ASSUME RelayInv, NEW w \in Relays, Relay!drainOnce(w) \/ Relay!Crash(w)
    PROVE  RelayInv' /\ LogGrows /\ UNCHANGED written
<1>1. UNCHANGED written
  BY DEF Relay!drainOnce, Relay!Crash, Relay!ClaimBatch, Relay!SkipPoisoned,
     Relay!PublishRecord, Relay!PublishThrows, Relay!MarkFailed, Relay!MarkPublished
<1>2. relay[w] \in RelayState /\ DOMAIN relay = Relays
  BY DEF RelayInv, Drains
<1>3. published \subseteq Range(log) /\ relay[w].publishedIds \subseteq Range(log)
  BY DEF RelayInv, MarkedIsLogged
<1>4. Relay!Idle \in RelayState /\ Relay!Idle.pc = "IDLE" /\ Relay!Idle.publishedIds = {}
  BY DEF Relay!Idle, RelayState
<1>5. ASSUME Relay!ClaimBatch(w) PROVE RelayInv' /\ LogGrows
  <2>1. PICK batch : batch = Relay!oldest(Relay!claimable)
    OBVIOUS
  <2>2. batch \in SUBSET Stored
    BY <2>1 DEF Relay!oldest, Relay!claimable, Stored
  <2>3. PICK next : next = [pc |-> "PUBLISH", batch |-> batch, left |-> batch,
                            publishedIds |-> {}]
    OBVIOUS
  <2>4. next \in RelayState /\ next.pc = "PUBLISH" /\ next.publishedIds = {}
    BY <2>2, <2>3 DEF RelayState
  <2>5. relay' = [relay EXCEPT ![w] = next] /\ UNCHANGED <<published, log>>
    BY <1>5, <2>1, <2>3 DEF Relay!ClaimBatch
  <2>6. QED
    BY <1>1, <1>3, <2>4, <2>5, DrainMoves
<1>6. ASSUME Relay!inLoop(w), Relay!SkipPoisoned(w) \/ Relay!PublishRecord(w) \/ Relay!PublishThrows(w)
      PROVE  RelayInv' /\ LogGrows
  <2>1. PICK e, left : e = Relay!record(w) /\ left = Relay!leftAfter(w)
    OBVIOUS
  <2>2. e \in Stored /\ left \in SUBSET Stored /\ relay[w].left # {}
    BY <1>6, <2>1, AtRecord DEF Relay!inLoop
  <2>3. CASE Relay!SkipPoisoned(w)
    <3>1. PICK next : next = [relay[w] EXCEPT !.left = left]
      OBVIOUS
    <3>2. /\ next \in RelayState /\ next.pc = relay[w].pc
          /\ next.publishedIds = relay[w].publishedIds
      BY <1>2, <2>2, <3>1 DEF RelayState
    <3>3. relay' = [relay EXCEPT ![w] = next] /\ UNCHANGED <<published, log>>
      BY <2>1, <2>3, <3>1 DEF Relay!SkipPoisoned
    <3>4. next.pc # "MARK_FAILED"
      BY <1>6, <3>2 DEF Relay!inLoop
    <3>5. QED
      BY <1>1, <1>3, <2>2, <3>2, <3>3, <3>4, DrainMoves
  <2>4. CASE Relay!PublishRecord(w)
    <3>1. PICK next : next = [relay[w] EXCEPT !.left = left,
                                              !.publishedIds = @ \cup {e}]
      OBVIOUS
    <3>2. /\ next \in RelayState /\ next.pc = relay[w].pc
          /\ next.publishedIds = relay[w].publishedIds \cup {e}
      BY <1>2, <2>2, <3>1 DEF RelayState
    <3>3. /\ relay' = [relay EXCEPT ![w] = next] /\ UNCHANGED published
          /\ log' = Append(log, e)
      BY <1>2, <2>1, <2>4, <3>1 DEF Relay!PublishRecord
    <3>4. next.pc # "MARK_FAILED"
      BY <1>6, <3>2 DEF Relay!inLoop
    <3>5. Range(log) \cup {e} \subseteq Range(log')
      <4>1. log \in Seq(Records) /\ e \in Records
        BY <2>2 DEF RelayInv, Columns
      <4>2. /\ Len(log') = Len(log) + 1 /\ log' \in Seq(Records) /\ Len(log) \in Nat
            /\ \A i \in 1 .. Len(log) : log'[i] = log[i]
            /\ log'[Len(log) + 1] = e
        BY <3>3, <4>1, AppendProperties, LenProperties
      <4>3. DOMAIN log' = 1 .. Len(log') /\ DOMAIN log = 1 .. Len(log)
        BY <4>1, <4>2, LenProperties
      <4>4. QED
        BY <4>2, <4>3 DEF Range
    <3>6. QED
      BY <1>1, <1>3, <2>2, <3>2, <3>3, <3>4, <3>5, DrainMoves
  <2>5. CASE Relay!PublishThrows(w)
    <3>1. PICK next : next = [relay[w] EXCEPT !.pc = "MARK_FAILED"]
      OBVIOUS
    <3>2. /\ next \in RelayState /\ next.left = relay[w].left
          /\ next.publishedIds = relay[w].publishedIds
      BY <1>2, <3>1 DEF RelayState
    <3>3. /\ relay' = [relay EXCEPT ![w] = next] /\ UNCHANGED published
          /\ log' \in {log, Append(log, e)}
      BY <2>1, <2>5, <3>1 DEF Relay!PublishThrows
    <3>4. Range(log) \subseteq Range(log')
      <4>1. log \in Seq(Records) /\ e \in Records
        BY <2>2 DEF RelayInv, Columns
      <4>2. log' = log \/ (/\ \A i \in 1 .. Len(log) : log'[i] = log[i]
                           /\ Len(log') = Len(log) + 1 /\ log' \in Seq(Records))
        BY <3>3, <4>1, AppendProperties
      <4>3. DOMAIN log = 1 .. Len(log) /\ Len(log) \in Nat
            /\ (log' \in Seq(Records) => DOMAIN log' = 1 .. Len(log'))
        BY <4>1, LenProperties
      <4>4. QED
        BY <4>2, <4>3 DEF Range
    <3>5. QED
      BY <1>1, <1>3, <2>2, <3>2, <3>3, <3>4, DrainMoves
  <2>6. QED
    BY <1>6, <2>3, <2>4, <2>5
<1>7. ASSUME Relay!MarkFailed(w) PROVE RelayInv' /\ LogGrows
  <2>1. relay[w].pc = "MARK_FAILED" /\ relay[w].left # {}
    BY <1>7 DEF Relay!MarkFailed, RelayInv, Drains
  <2>2. PICK e, left : e = Relay!record(w) /\ left = Relay!leftAfter(w)
    OBVIOUS
  <2>3. e \in Stored /\ left \in SUBSET Stored
    BY <2>1, <2>2, AtRecord
  <2>4. PICK next : next = [relay[w] EXCEPT !.pc = "PUBLISH", !.left = left]
    OBVIOUS
  <2>5. /\ next \in RelayState /\ next.pc = "PUBLISH"
        /\ next.publishedIds = relay[w].publishedIds
    BY <1>2, <2>3, <2>4 DEF RelayState
  <2>6. relay' = [relay EXCEPT ![w] = next] /\ UNCHANGED <<published, log>>
    BY <1>2, <1>7, <2>2, <2>4 DEF Relay!MarkFailed
  <2>7. QED
    BY <1>1, <1>3, <2>3, <2>5, <2>6, DrainMoves
<1>8. ASSUME Relay!MarkPublished(w) \/ Relay!Crash(w) PROVE RelayInv' /\ LogGrows
  <2>1. /\ relay' = [relay EXCEPT ![w] = Relay!Idle] /\ UNCHANGED log
        /\ published' \subseteq published \cup relay[w].publishedIds
    BY <1>8 DEF Relay!MarkPublished, Relay!Crash, Relay!idsToMark
  <2>2. QED
    BY <1>1, <1>3, <1>4, <1>8, <2>1, DrainMoves
<1>9. QED
  BY <1>1, <1>5, <1>6, <1>7, <1>8
     DEF Relay!drainOnce, Relay!SkipPoisoned, Relay!PublishRecord, Relay!PublishThrows

(* A worker is at a position of the log, and that only grows.              *)
LEMMA GroupKept ==
    ASSUME Deliveries, ClaimsHold, LogGrows, UNCHANGED groupOnly
    PROVE  Deliveries' /\ ClaimsHold'
<1>1. Deliveries'
  BY DEF Deliveries, LogGrows, groupOnly
<1>2. \A k \in Workers : worker[k].pc # "IDLE" => log'[worker[k].at] = log[worker[k].at]
  BY DEF Deliveries, LogGrows
<1>3. \A k \in Workers, r \in Records : claims(k, r)' <=> claims(k, r)
  BY <1>2 DEF claims, groupOnly
<1>4. ClaimsHold'
  BY <1>3 DEF ClaimsHold, groupOnly
<1>5. QED
  BY <1>1, <1>4

(* The group writes nothing of the relay's, and not the log.               *)
LEMMA RelayKept ==
    ASSUME RelayInv, UNCHANGED <<relayOnly, log>>
    PROVE  RelayInv'
BY DEF RelayInv, Columns, Stored, Drains, RelayState, LogOfStored, MarkedIsLogged, relayOnly

-----------------------------------------------------------------------------
(* The consumer group. *)

(* What a worker that is not idle is at: a record of the outbox.           *)
LEMMA WorkerFacts ==
    ASSUME Inv, NEW k \in Workers
    PROVE  /\ worker \in [Workers -> WorkerState] /\ worker[k] \in WorkerState
           /\ worker[k].pc # "IDLE" =>
                 /\ worker[k].at \in DOMAIN log /\ log[worker[k].at] \in Stored
                 /\ log[worker[k].at] \in Records
BY DEF Inv, RelayInv, Deliveries, LogOfStored, Columns

(* Steps of one worker that change no claim.                               *)
LEMMA WorkerMoves ==
    ASSUME Inv, NEW k \in Workers, NEW next \in WorkerState,
           worker' = [worker EXCEPT ![k] = next],
           next.pc # "IDLE" => next.at \in DOMAIN log,
           next.pc \in {"IDLE", "ACK"} \/ (next.pc = "RELEASE" /\ worker[k].pc = "HANDLE"
                                           /\ next.at = worker[k].at),
           UNCHANGED <<seen, handled, clock>>, UNCHANGED <<relayOnly, log>>
    PROVE  Inv'
<1>1. RelayInv'
  BY RelayKept DEF Inv
<1>2. Deliveries'
  BY DEF Inv, Deliveries
<1>3. \A j \in Workers, e \in Records : claims(j, e)' => claims(j, e)
  BY WorkerFacts DEF claims
<1>4. ClaimsHold'
  BY <1>3 DEF Inv, ClaimsHold
<1>5. QED
  BY <1>1, <1>2, <1>4 DEF Inv

(* Steps that write the claim of event e: worker k takes it, or gives it   *)
(* up.                                                                     *)
LEMMA ClaimMoves ==
    ASSUME Inv, NEW k \in Workers, NEW next \in WorkerState, NEW e \in Records, NEW until \in Nat,
           worker' = [worker EXCEPT ![k] = next],
           next.pc # "IDLE" => next.at \in DOMAIN log,
           seen' = [seen EXCEPT ![e] = until],
           \/ /\ next.pc = "HANDLE" /\ log[next.at] = e /\ seen[e] = 0
              /\ until > MaxTime /\ until # 0
           \/ next.pc = "IDLE" /\ until = 0 /\ claims(k, e),
           UNCHANGED <<handled, clock>>, UNCHANGED <<relayOnly, log>>
    PROVE  Inv'
<1>1. RelayInv'
  BY RelayKept DEF Inv
<1>2. Deliveries'
  BY DEF Inv, Deliveries
<1>3. /\ seen'[e] = until /\ \A r \in Records : r # e => seen'[r] = seen[r]
      /\ \A r \in Records : handled[r] \in {0, 1}
  BY DEF Inv, Deliveries
<1>4. /\ \A j \in Workers, r \in Records : j # k => (claims(j, r)' <=> claims(j, r))
      /\ \A r \in Records : claims(k, r)' => r = e /\ next.pc = "HANDLE"
  BY WorkerFacts DEF claims
<1>5. handled[e] = 0 /\ \A j \in Workers : j # k => ~ claims(j, e)
  BY <1>3 DEF Inv, ClaimsHold
<1>6. ClaimsHold'
  <2>1. \A r \in Records : seen'[r] = 0 \/ seen'[r] > MaxTime
    BY <1>3 DEF Inv, ClaimsHold
  <2>2. \A r \in Records : handled[r] = 1 => seen'[r] # 0
    BY <1>3, <1>5 DEF Inv, ClaimsHold
  <2>3. \A j \in Workers, r \in Records : claims(j, r)' => seen'[r] # 0 /\ handled[r] = 0
    BY <1>3, <1>4, <1>5 DEF Inv, ClaimsHold
  <2>4. \A i, j \in Workers, r \in Records : claims(i, r)' /\ claims(j, r)' => i = j
    BY <1>4, <1>5 DEF Inv, ClaimsHold
  <2>5. QED
    BY <2>1, <2>2, <2>3, <2>4 DEF ClaimsHold
<1>7. QED
  BY <1>1, <1>2, <1>6 DEF Inv

(* A handler that takes effect does so on an event no handler has taken    *)
(* effect on, and that is of a committed change.                           *)
LEMMA ReturnKeeps ==
    ASSUME Inv, NEW k \in Workers, Group!HandlerReturns(k), UNCHANGED relayOnly
    PROVE  /\ Inv'
           /\ \E e \in Stored : e \in Records /\ handled[e] = 0
                                /\ handled' = [handled EXCEPT ![e] = 1]
<1>1. /\ worker[k].pc = "HANDLE" /\ worker[k] \in WorkerState
      /\ worker \in [Workers -> WorkerState] /\ worker[k].at \in DOMAIN log
      /\ UNCHANGED <<log, acked, clock, faults>>
  BY WorkerFacts DEF Group!HandlerReturns
<1>2. PICK e : e = log[worker[k].at]
  OBVIOUS
<1>3. e \in Stored /\ e \in Records
  BY <1>1, <1>2, WorkerFacts
<1>4. claims(k, e) /\ handled[e] = 0 /\ seen[e] # 0 /\ handled \in [Records -> {0, 1}]
  BY <1>1, <1>2, <1>3 DEF claims, Inv, ClaimsHold, Deliveries
<1>5. handled' = [handled EXCEPT ![e] = 1] /\ UNCHANGED seen
  BY <1>2, <1>3, <1>4 DEF Group!HandlerReturns, Group!claimsAfterHandling
<1>6. PICK next : next = [worker[k] EXCEPT !.pc = "ACK"]
  OBVIOUS
<1>7. next \in WorkerState /\ next.pc = "ACK" /\ next.at = worker[k].at
  BY <1>1, <1>6 DEF WorkerState
<1>8. worker' = [worker EXCEPT ![k] = next]
  BY <1>1, <1>6 DEF Group!HandlerReturns
<1>9. RelayInv'
  BY <1>1, RelayKept DEF Inv
<1>10. Deliveries'
  BY <1>1, <1>4, <1>5, <1>7, <1>8 DEF Inv, Deliveries
<1>11. \A j \in Workers, r \in Records : claims(j, r)' => claims(j, r) /\ j # k
  BY <1>1, <1>7, <1>8 DEF claims
<1>12. \A j \in Workers, r \in Records : claims(j, r)' => r # e
  BY <1>3, <1>4, <1>11 DEF Inv, ClaimsHold
<1>13. ClaimsHold'
  <2>1. \A r \in Records : r # e => handled'[r] = handled[r]
    BY <1>4, <1>5
  <2>2. QED
    BY <1>4, <1>5, <1>11, <1>12, <2>1 DEF Inv, ClaimsHold
<1>14. QED
  BY <1>3, <1>4, <1>5, <1>9, <1>10, <1>13 DEF Inv

(* The steps of the group in which no handler takes effect.                *)
LEMMA GroupKeeps ==
    ASSUME Inv, Ttl > MaxTime, Group!Next, UNCHANGED relayOnly,
           \A k \in Workers : ~ Group!HandlerReturns(k)
    PROVE  Inv' /\ UNCHANGED handled
<1>1. UNCHANGED handled /\ UNCHANGED log
  BY DEF Group!Next, Group!consumeOnce, Group!Deliver, Group!HandlerThrows, Group!Release,
     Group!Acknowledge, Group!Replay, Group!Crash, Group!Tick
<1>2. /\ log \in Seq(Records) /\ clock \in Nat /\ Ttl \in Nat /\ MaxTime \in Nat
      /\ clock <= MaxTime
  BY DeliveryAssumption DEF Inv, RelayInv, Columns, Deliveries
<1>3. ASSUME NEW k \in Workers, Group!Deliver(k) PROVE Inv'
  <2>1. PICK i \in DOMAIN log :
           IF Group!claimed(log[i])
           THEN /\ worker' = [worker EXCEPT ![k] = [pc |-> "ACK", at |-> i]]
                /\ UNCHANGED seen
           ELSE /\ worker' = [worker EXCEPT ![k] = [pc |-> "HANDLE", at |-> i]]
                /\ seen' = [seen EXCEPT ![log[i]] = clock + Ttl]
    BY <1>3 DEF Group!Deliver
  <2>2. UNCHANGED <<log, handled, clock>>
    BY <1>3 DEF Group!Deliver
  <2>3. i \in Nat /\ log[i] \in Records
    BY <1>2, <2>1, LenProperties
  <2>4. CASE Group!claimed(log[i])
    <3>1. PICK next : next = [pc |-> "ACK", at |-> i]
      OBVIOUS
    <3>2. next \in WorkerState /\ next.pc = "ACK" /\ next.at = i
      BY <2>3, <3>1 DEF WorkerState
    <3>3. worker' = [worker EXCEPT ![k] = next] /\ UNCHANGED seen
      BY <2>1, <2>4, <3>1
    <3>4. QED
      BY <2>1, <2>2, <3>2, <3>3, WorkerMoves
  <2>5. CASE ~ Group!claimed(log[i])
    <3>1. PICK next, e, until :
             next = [pc |-> "HANDLE", at |-> i] /\ e = log[i] /\ until = clock + Ttl
      OBVIOUS
    <3>2. next \in WorkerState /\ next.pc = "HANDLE" /\ next.at = i /\ e \in Records
      BY <2>3, <3>1 DEF WorkerState
    <3>3. worker' = [worker EXCEPT ![k] = next] /\ seen' = [seen EXCEPT ![e] = until]
      BY <2>1, <2>5, <3>1
    <3>4. seen[e] = 0
      <4>1. seen[e] \in Nat /\ ~ seen[e] > clock
        BY <2>5, <3>1, <3>2 DEF Group!claimed, Inv, Deliveries
      <4>2. seen[e] = 0 \/ seen[e] > MaxTime
        BY <3>2 DEF Inv, ClaimsHold
      <4>3. QED
        BY <1>2, <4>1, <4>2
    <3>5. until \in Nat /\ until > MaxTime /\ until # 0
      BY <1>2, <3>1
    <3>6. QED
      BY <2>1, <2>2, <3>1, <3>2, <3>3, <3>4, <3>5, ClaimMoves
  <2>6. QED
    BY <2>4, <2>5
<1>4. ASSUME NEW k \in Workers, Group!HandlerThrows(k) PROVE Inv'
  <2>1. PICK next : next = [worker[k] EXCEPT !.pc = "RELEASE"]
    OBVIOUS
  <2>2. worker[k].pc = "HANDLE" /\ worker[k] \in WorkerState /\ worker[k].at \in DOMAIN log
    BY <1>4, WorkerFacts DEF Group!HandlerThrows
  <2>3. next \in WorkerState /\ next.pc = "RELEASE" /\ next.at = worker[k].at
    BY <2>1, <2>2 DEF WorkerState
  <2>4. worker' = [worker EXCEPT ![k] = next] /\ UNCHANGED <<log, seen, handled, clock>>
    BY <1>4, <2>1 DEF Group!HandlerThrows
  <2>5. QED
    BY <2>2, <2>3, <2>4, WorkerMoves
<1>5. PICK idle : idle = [pc |-> "IDLE", at |-> 0]
  OBVIOUS
<1>6. idle \in WorkerState /\ idle.pc = "IDLE"
  BY <1>5 DEF WorkerState
<1>7. ASSUME NEW k \in Workers, Group!Release(k) PROVE Inv'
  <2>1. PICK e : e = log[worker[k].at]
    OBVIOUS
  <2>2. worker[k].pc = "RELEASE" /\ e \in Records
    BY <1>7, <2>1, WorkerFacts DEF Group!Release
  <2>3. claims(k, e)
    BY <2>1, <2>2 DEF claims
  <2>4. /\ worker' = [worker EXCEPT ![k] = idle] /\ seen' = [seen EXCEPT ![e] = 0]
        /\ UNCHANGED <<log, handled, clock>>
    BY <1>5, <1>7, <2>1 DEF Group!Release, Group!claimsAfterThrow
  <2>5. QED
    BY <1>6, <2>2, <2>3, <2>4, ClaimMoves
<1>8. ASSUME NEW k \in Workers, Group!Acknowledge(k) \/ Group!Crash(k) PROVE Inv'
  <2>1. worker' = [worker EXCEPT ![k] = idle] /\ UNCHANGED <<log, seen, handled, clock>>
    BY <1>5, <1>8 DEF Group!Acknowledge, Group!Crash
  <2>2. QED
    BY <1>6, <2>1, WorkerMoves
<1>9. ASSUME Group!Replay \/ Group!Tick PROVE Inv'
  <2>1. UNCHANGED <<log, seen, worker, handled>> /\ clock' \in 0 .. MaxTime
    BY <1>2, <1>9 DEF Group!Replay, Group!Tick
  <2>2. RelayInv'
    BY <2>1, RelayKept DEF Inv
  <2>3. Deliveries' /\ ClaimsHold'
    BY <2>1 DEF Inv, Deliveries, ClaimsHold, claims
  <2>4. QED
    BY <2>2, <2>3 DEF Inv
<1>10. QED
  BY <1>1, <1>3, <1>4, <1>7, <1>8, <1>9 DEF Group!Next, Group!consumeOnce

-----------------------------------------------------------------------------
(* The theorems. *)

(* An empty outbox, an empty log and idle processes satisfy the invariant. *)
LEMMA InitInv == Init => Inv
<1> SUFFICES ASSUME Init PROVE Inv
  OBVIOUS
<1>1. /\ written = 0 /\ published = {} /\ relay = [w \in Relays |-> Relay!Idle] /\ log = <<>>
      /\ seen = [e \in Records |-> 0] /\ handled = [e \in Records |-> 0] /\ clock = 0
      /\ worker = [k \in Workers |-> [pc |-> "IDLE", at |-> 0]]
  BY DEF Init, Relay!Init, Group!Init
<1>2. Stored = {}
  BY <1>1 DEF Stored
<1>3. log \in Seq(Records) /\ DOMAIN log = {}
  BY <1>1
<1>4. Columns
  BY <1>1, <1>2, <1>3 DEF Columns
<1>5. Drains /\ MarkedIsLogged
  BY <1>1 DEF Drains, MarkedIsLogged, RelayState, Relay!Idle
<1>6. Deliveries /\ LogOfStored
  BY <1>1, <1>3, DeliveryAssumption DEF Deliveries, LogOfStored, WorkerState
<1>7. ClaimsHold
  BY <1>1 DEF ClaimsHold, claims
<1>8. QED
  BY <1>4, <1>5, <1>6, <1>7 DEF Inv, RelayInv

(* The relay's part of the invariant needs nothing of the group's.         *)
LEMMA RelayInvKept ==
    ASSUME RelayInv, [Next]_vars
    PROVE  /\ RelayInv'
           /\ RelayStep => /\ LogGrows
                           /\ UNCHANGED written \/ Relay!Write
<1>1. CASE UNCHANGED vars
  <2>1. UNCHANGED <<relayOnly, log>> /\ UNCHANGED written
    BY <1>1 DEF vars, relayOnly
  <2>2. QED
    BY <2>1, RelayKept DEF LogGrows
<1>2. CASE RelayStep
  <2>1. CASE Relay!Write
    BY <2>1, WriteKeeps
  <2>2. ASSUME NEW w \in Relays, Relay!drainOnce(w) \/ Relay!Crash(w)
        PROVE  RelayInv' /\ LogGrows /\ UNCHANGED written
    BY <2>2, RelayKeeps
  <2>3. QED
    BY <1>2, <2>1, <2>2 DEF RelayStep, Relay!Next
<1>3. CASE GroupStep
  <2>1. UNCHANGED <<relayOnly, log>> /\ UNCHANGED written
    BY <1>3 DEF GroupStep, relayOnly, Group!Next, Group!consumeOnce, Group!Deliver,
       Group!HandlerReturns, Group!HandlerThrows, Group!Release, Group!Acknowledge, Group!Replay,
       Group!Crash, Group!Tick
  <2>2. QED
    BY <2>1, RelayKept DEF LogGrows
<1>4. QED
  BY <1>1, <1>2, <1>3 DEF Next

(* What a step is: nothing, a record more, one effect of an event that has *)
(* had none, or a step that is neither.                                    *)
LEMMA StepShape ==
    ASSUME Inv, [Next]_vars, Ttl > MaxTime
    PROVE  /\ Inv'
           /\ \/ UNCHANGED <<written, handled>>
              \/ /\ Stored' = Stored \cup {written + 1} /\ written + 1 \notin Stored
                 /\ written + 1 \in Records /\ UNCHANGED handled
              \/ /\ \E e \in Stored : e \in Records /\ handled[e] = 0
                                      /\ handled' = [handled EXCEPT ![e] = 1]
                 /\ UNCHANGED written
<1>1. CASE UNCHANGED vars
  <2>1. /\ LogGrows /\ UNCHANGED groupOnly /\ RelayInv'
        /\ UNCHANGED <<written, handled>>
    BY <1>1, RelayInvKept DEF vars, relayOnly, groupOnly, LogGrows, Inv
  <2>2. QED
    BY <2>1, GroupKept DEF Inv
<1>2. CASE RelayStep
  <2>1. RelayInv' /\ LogGrows /\ UNCHANGED groupOnly /\ UNCHANGED handled
    BY <1>2, RelayInvKept DEF Inv, RelayStep, groupOnly
  <2>2. Inv'
    BY <2>1, GroupKept DEF Inv
  <2>3. CASE Relay!Write
    BY <2>1, <2>2, <2>3, WriteKeeps DEF Inv
  <2>4. CASE UNCHANGED written
    BY <2>1, <2>2, <2>4
  <2>5. QED
    BY <1>2, <2>3, <2>4, RelayInvKept DEF Inv
<1>3. CASE GroupStep
  <2>1. UNCHANGED written
    BY <1>3 DEF GroupStep, relayOnly
  <2>2. ASSUME NEW k \in Workers, Group!HandlerReturns(k)
        PROVE  Inv' /\ \E e \in Stored : e \in Records /\ handled[e] = 0
                                         /\ handled' = [handled EXCEPT ![e] = 1]
    BY <1>3, <2>2, ReturnKeeps DEF GroupStep
  <2>3. CASE \A k \in Workers : ~ Group!HandlerReturns(k)
    BY <1>3, <2>1, <2>3, GroupKeeps DEF GroupStep
  <2>4. QED
    BY <2>1, <2>2, <2>3
<1>4. QED
  BY <1>1, <1>2, <1>3 DEF Next

(* Such a step is one of the event feed, or a stutter.                     *)
LEMMA FeedStep ==
    ASSUME Inv, [Next]_vars, Ttl > MaxTime
    PROVE  [Feed!Next]_(Feed!vars)
<1>1. CASE UNCHANGED <<written, handled>>
  BY <1>1 DEF Feed!vars
<1>2. CASE /\ Stored' = Stored \cup {written + 1} /\ written + 1 \notin Stored
           /\ written + 1 \in Records /\ UNCHANGED handled
  <2>1. Feed!Commit(written + 1)
    BY <1>2 DEF Feed!Commit, Stored
  <2>2. QED
    BY <1>2, <2>1 DEF Feed!Next
<1>3. CASE /\ \E e \in Stored : e \in Records /\ handled[e] = 0
                                /\ handled' = [handled EXCEPT ![e] = 1]
           /\ UNCHANGED written
  <2>1. PICK e \in Stored : /\ e \in Records /\ handled[e] = 0
                            /\ handled' = [handled EXCEPT ![e] = 1]
    BY <1>3
  <2>2. Feed!TakeEffect(e)
    BY <1>3, <2>1 DEF Feed!TakeEffect, Stored
  <2>3. QED
    BY <2>1, <2>2 DEF Feed!Next
<1>4. QED
  BY <1>1, <1>2, <1>3, StepShape

(* They map to the first state of the event feed.                          *)
LEMMA FeedInit == Init => Feed!Init
BY DEF Init, Relay!Init, Group!Init, Feed!Init

(* consumeOnce: while no claim has run out (the clock stays below the      *)
(* lifetime of a claim), whatever is published twice, replayed, delivered  *)
(* during its handling or left behind by a crash, no event takes effect    *)
(* twice, or before its change committed.                                  *)
THEOREM AtMostOnceHolds == ASSUME Ttl > MaxTime PROVE Spec => AtMostOnce
<1>1. Inv /\ [Next]_vars => Inv' /\ [Feed!Next]_(Feed!vars)
  BY StepShape, FeedStep
<1>2. QED
  BY InitInv, FeedInit, <1>1, PTL DEF Spec, AtMostOnce, Feed!Safety

(* OutboxRelay.drainOnce: publishedAt is only set on records the broker's  *)
(* log holds, so a drain that fails or dies anywhere loses none of them,   *)
(* for however long the system runs.                                       *)
THEOREM PublishedIsInLogHolds == Spec => []Relay!PublishedIsInLog
<1>1. Init => RelayInv
  BY InitInv DEF Inv
<1>2. RelayInv /\ [Next]_vars => RelayInv'
  BY RelayInvKept
<1>3. RelayInv => Relay!PublishedIsInLog
  BY DEF RelayInv, MarkedIsLogged, Relay!PublishedIsInLog, Relay!Range, Range
<1>4. QED
  BY <1>1, <1>2, <1>3, PTL DEF Spec
=============================================================================
