------------------------------ MODULE Payments ------------------------------
(***************************************************************************)
(* payment-service: PaymentService.create, capture and refund, run by      *)
(* concurrent HTTP requests against one database and a payment gateway.    *)
(*                                                                         *)
(* Every await ends a step: a handler reads the row, calls the gateway and *)
(* commits in steps that other handlers interleave with. A transaction is  *)
(* one step; a request that never takes its next step has crashed.         *)
(*                                                                         *)
(* A payment is identified by the create request that inserted its row,    *)
(* a refund by its refund request. Amounts are in minor units of a single  *)
(* currency; a request in another currency is refused before anything is   *)
(* read and is left out.                                                   *)
(***************************************************************************)
EXTENDS Contracts, Sequences, FiniteSets, Functions

CONSTANTS
    Payments,     \* create requests, and the payments they may insert
    Captures,     \* capture requests
    Refunds,      \* refund requests, and the refund rows they may insert
    Charges,      \* bodies and keys of create requests: [key, provider, amount]
    Gateways,     \* GatewayRegistry: [configured provider -> outcomes of charge]
    RefundBodies, \* bodies and keys of refund requests: [key, amount]
    CaptureAmounts, \* amountMinor of capture requests; 0 when it is absent
    NoRow,
    Queued        \* payments whose handlers run one after the other

ChargeOutcome == {"CAPTURED", "AUTHORIZED", "DECLINED", "ERROR"}

ASSUME ChargesAssumption ==
    /\ \A d \in Charges : d.amount \in Nat \ {0}
    /\ \A d \in RefundBodies : d.amount \in Nat \ {0}
    /\ CaptureAmounts \subseteq Nat
    /\ \A p \in DOMAIN Gateways : Gateways[p] \subseteq ChargeOutcome
    /\ NoRow \notin [key : {d.key : d \in Charges}, provider : {d.provider : d \in Charges},
                     amount : Nat, captured : Nat, refunded : Nat, status : PaymentStatus]
    /\ NoRow \notin [payment : Payments, key : {d.key : d \in RefundBodies}, amount : Nat]
    /\ Queued \subseteq Payments

VARIABLES
    create,    \* create[p]: where create request p is, and what it has read
    capture,   \* capture[c]: the same for capture request c
    refund,    \* refund[f]: the same for refund request f
    payment,   \* payment[p]: the row of the payments table, or NoRow
    refundRow, \* refundRow[f]: the row of the refunds table, or NoRow
    paymentOutbox     \* paymentOutbox[p]: the events written about p, oldest first

paymentVars == <<create, capture, refund, payment, refundRow, paymentOutbox>>

PaymentInit ==
    /\ create = [p \in Payments |-> [pc |-> "NEW"]]
    /\ capture = [c \in Captures |-> [pc |-> "NEW"]]
    /\ refund = [f \in Refunds |-> [pc |-> "NEW"]]
    /\ payment = [p \in Payments |-> NoRow]
    /\ refundRow = [f \in Refunds |-> NoRow]
    /\ paymentOutbox = [p \in Payments |-> <<>>]

-----------------------------------------------------------------------------
(* payment-state.ts and refund.ts. *)

PAYMENT_TRANSITIONS ==
    [PENDING            |-> {"AUTHORIZED", "COMPLETED", "FAILED"},
     AUTHORIZED         |-> {"COMPLETED", "FAILED"},
     COMPLETED          |-> {"PARTIALLY_REFUNDED", "REFUNDED"},
     PARTIALLY_REFUNDED |-> {"REFUNDED"},
     FAILED             |-> {},
     REFUNDED           |-> {}]

canTransitionPayment(from, to) == to \in PAYMENT_TRANSITIONS[from]

REFUNDABLE_STATUSES == {"COMPLETED", "PARTIALLY_REFUNDED"}

(* Mutant: the cap forgets what has already been returned.                 *)
refundableAmount_captured(row) ==
    IF row.status \in REFUNDABLE_STATUSES THEN row.captured ELSE 0

refundableAmount(row) ==
    IF row.status \in REFUNDABLE_STATUSES /\ row.captured > row.refunded
    THEN row.captured - row.refunded ELSE 0

(* Mutant: returning the last cent still leaves the payment partial.       *)
nextStatus_strict(row, amount) ==
    IF row.refunded + amount > row.captured THEN "REFUNDED" ELSE "PARTIALLY_REFUNDED"

nextStatus(row, amount) ==
    IF row.refunded + amount >= row.captured THEN "REFUNDED" ELSE "PARTIALLY_REFUNDED"

-----------------------------------------------------------------------------
(* create: look the key up, charge, record what the gateway said. *)

exists(p) == payment[p] # NoRow

keyUsed(key) == \E p \in Payments : exists(p) /\ payment[p].key = key

configured(provider) == provider \in DOMAIN Gateways

LookUpPaymentKey(p) ==
    /\ create[p].pc = "NEW"
    /\ \E d \in Charges :
          create' = [create EXCEPT ![p] =
              CASE keyUsed(d.key) -> [pc |-> "REPLAYED"]
                [] ~ keyUsed(d.key) /\ ~ configured(d.provider) ->
                       [pc |-> "UPSTREAM_UNAVAILABLE"]
                [] OTHER -> [pc |-> "CHARGE", body |-> d]]
    /\ UNCHANGED <<capture, refund, payment, refundRow, paymentOutbox>>

Charge(p) ==
    /\ create[p].pc = "CHARGE"
    /\ \E outcome \in Gateways[create[p].body.provider] :
          create' = [create EXCEPT ![p] =
              [pc |-> "RECORD", body |-> create[p].body, outcome |-> outcome]]
    /\ UNCHANGED <<capture, refund, payment, refundRow, paymentOutbox>>

statusAfter(outcome) ==
    CASE outcome = "CAPTURED" -> "COMPLETED"
      [] outcome = "AUTHORIZED" -> "AUTHORIZED"
      [] OTHER -> "FAILED"

(* Mutant: only the look-up, no unique index on payments.idempotencyKey.   *)
canInsert_noIndex(key) == TRUE

canInsert(key) == ~ keyUsed(key)

InsertPayment(p, captured) ==
    LET d == create[p].body IN
    payment' = [payment EXCEPT ![p] =
        [key |-> d.key, provider |-> d.provider, amount |-> d.amount,
         captured |-> captured, refunded |-> 0,
         status |-> statusAfter(create[p].outcome)]]

event(type, amount) == [type |-> type, amount |-> amount]

(* The gateway answered: row and event in one transaction. *)
RecordCharge(p) ==
    /\ create[p].pc = "RECORD"
    /\ create[p].outcome # "ERROR"
    /\ canInsert(create[p].body.key)
    /\ LET settled == create[p].outcome = "CAPTURED"
           amount  == create[p].body.amount
       IN /\ InsertPayment(p, IF settled THEN amount ELSE 0)
          /\ paymentOutbox' = [paymentOutbox EXCEPT ![p] =
                Append(@, event(IF settled THEN "PAYMENT_COMPLETED"
                                ELSE "PAYMENT_INITIATED", amount))]
    /\ create' = [create EXCEPT ![p] = [pc |-> "CREATED"]]
    /\ UNCHANGED <<capture, refund, refundRow>>

(* The gateway threw: the FAILED row is written on its own ... *)
RecordFailure(p) ==
    /\ create[p].pc = "RECORD"
    /\ create[p].outcome = "ERROR"
    /\ canInsert(create[p].body.key)
    /\ InsertPayment(p, 0)
    /\ create' = [create EXCEPT ![p] = [pc |-> "ANNOUNCE"]]
    /\ UNCHANGED <<capture, refund, refundRow, paymentOutbox>>

(* ... and its event after it, outside any transaction. *)
publishPaymentFailed(p) ==
    /\ create[p].pc = "ANNOUNCE"
    /\ paymentOutbox' = [paymentOutbox EXCEPT ![p] =
                             Append(@, event("PAYMENT_FAILED", payment[p].amount))]
    /\ create' = [create EXCEPT ![p] = [pc |-> "PAYMENT_DECLINED"]]
    /\ UNCHANGED <<capture, refund, payment, refundRow>>

(* P2002 on idempotencyKey: nothing is written, the error goes out. *)
RecordRefused(p) ==
    /\ create[p].pc = "RECORD"
    /\ ~ canInsert(create[p].body.key)
    /\ create' = [create EXCEPT ![p] = [pc |-> "INTERNAL_ERROR"]]
    /\ UNCHANGED <<capture, refund, payment, refundRow, paymentOutbox>>

-----------------------------------------------------------------------------
(* capture: read and check, then an unconditional update. *)

busy(p) ==
    \/ \E c \in Captures : capture[c].pc = "SETTLE" /\ capture[c].payment = p
    \/ \E f \in Refunds : refund[f].pc \in {"RETURN", "COMMIT"} /\ refund[f].payment = p

mayRead(p) == p \in Queued => ~ busy(p)

captureMinor(asked, row) == IF asked = 0 THEN row.amount ELSE asked

ReadForCapture(c) ==
    /\ capture[c].pc = "NEW"
    /\ \E p \in Payments, asked \in CaptureAmounts :
          /\ mayRead(p)
          /\ capture' = [capture EXCEPT ![c] =
               CASE ~ exists(p) -> [pc |-> "NOT_FOUND"]
                 [] exists(p) /\ ~ canTransitionPayment(payment[p].status, "COMPLETED") ->
                        [pc |-> "CONFLICT"]
                 [] exists(p) /\ canTransitionPayment(payment[p].status, "COMPLETED")
                      /\ captureMinor(asked, payment[p]) > payment[p].amount ->
                        [pc |-> "VALIDATION"]
                 [] OTHER -> [pc |-> "SETTLE", payment |-> p,
                              amount |-> captureMinor(asked, payment[p])]]
    /\ UNCHANGED <<create, refund, payment, refundRow, paymentOutbox>>

CommitCapture(c) ==
    /\ capture[c].pc = "SETTLE"
    /\ LET p == capture[c].payment IN
          /\ payment' = [payment EXCEPT ![p].status = "COMPLETED",
                                        ![p].captured = capture[c].amount]
          /\ paymentOutbox' = [paymentOutbox EXCEPT ![p] =
                           Append(@, event("PAYMENT_COMPLETED", capture[c].amount))]
    /\ capture' = [capture EXCEPT ![c] = [pc |-> "CAPTURED"]]
    /\ UNCHANGED <<create, refund, refundRow>>

-----------------------------------------------------------------------------
(* refund: look the key up, read and assess, pay back, commit. *)

refundKeyUsed(key) == \E f \in Refunds : refundRow[f] # NoRow /\ refundRow[f].key = key

LookUpRefundKey(f) ==
    /\ refund[f].pc = "NEW"
    /\ \E d \in RefundBodies, p \in Payments :
          refund' = [refund EXCEPT ![f] =
              IF refundKeyUsed(d.key) THEN [pc |-> "REPLAYED"]
              ELSE [pc |-> "READ", body |-> d, payment |-> p]]
    /\ UNCHANGED <<create, capture, payment, refundRow, paymentOutbox>>

(* assessRefund: the error it throws, or "OK". *)
refundProblem(row, amount) ==
    CASE row = NoRow -> "NOT_FOUND"
      [] row # NoRow /\ row.status \notin REFUNDABLE_STATUSES -> "CONFLICT"
      [] row # NoRow /\ row.status \in REFUNDABLE_STATUSES /\ amount > refundableAmount(row) ->
             "REFUND_EXCEEDS_CAPTURE"
      [] OTHER -> "OK"

AssessRefund(f) ==
    /\ refund[f].pc = "READ"
    /\ LET d   == refund[f].body
           p   == refund[f].payment
           row == payment[p]
       IN /\ mayRead(p)
          /\ refund' = [refund EXCEPT ![f] =
               IF refundProblem(row, d.amount) # "OK" THEN [pc |-> refundProblem(row, d.amount)]
               ELSE [pc |-> "RETURN", body |-> d, payment |-> p,
                     total |-> row.refunded + d.amount,
                     status |-> nextStatus(row, d.amount)]]
    /\ UNCHANGED <<create, capture, payment, refundRow, paymentOutbox>>

(* gateway.refund: the provider pays, or throws. *)
ReturnMoney(f) ==
    /\ refund[f].pc = "RETURN"
    /\ \/ refund' = [refund EXCEPT ![f] =
              [pc |-> "COMMIT", body |-> refund[f].body, payment |-> refund[f].payment,
               total |-> refund[f].total, status |-> refund[f].status]]
       \/ /\ "ERROR" \in Gateways[payment[refund[f].payment].provider]
          /\ refund' = [refund EXCEPT ![f] = [pc |-> "GATEWAY_ERROR"]]
    /\ UNCHANGED <<create, capture, payment, refundRow, paymentOutbox>>

canInsertRefund(key) == ~ refundKeyUsed(key)

refundEvents(f) == <<event("PAYMENT_REFUNDED", refund[f].body.amount)>>

CommitRefund(f) ==
    /\ refund[f].pc = "COMMIT"
    /\ canInsertRefund(refund[f].body.key)
    /\ LET p == refund[f].payment
           d == refund[f].body
       IN /\ refundRow' = [refundRow EXCEPT ![f] =
                              [payment |-> p, key |-> d.key, amount |-> d.amount]]
          /\ payment' = [payment EXCEPT ![p].refunded = refund[f].total,
                                        ![p].status = refund[f].status]
          /\ paymentOutbox' = [paymentOutbox EXCEPT ![p] = @ \o refundEvents(f)]
    /\ refund' = [refund EXCEPT ![f] = [pc |-> "REFUNDED"]]
    /\ UNCHANGED <<create, capture>>

(* P2002 on the refund's idempotencyKey: the transaction rolls back. *)
RefundRefused(f) ==
    /\ refund[f].pc = "COMMIT"
    /\ ~ canInsertRefund(refund[f].body.key)
    /\ refund' = [refund EXCEPT ![f] = [pc |-> "INTERNAL_ERROR"]]
    /\ UNCHANGED <<create, capture, payment, refundRow, paymentOutbox>>

-----------------------------------------------------------------------------
CreatePayment(p) ==
    \/ LookUpPaymentKey(p) \/ Charge(p)
    \/ RecordCharge(p) \/ RecordFailure(p) \/ publishPaymentFailed(p) \/ RecordRefused(p)

Capture(c) == ReadForCapture(c) \/ CommitCapture(c)

Refund(f) ==
    \/ LookUpRefundKey(f) \/ AssessRefund(f) \/ ReturnMoney(f)
    \/ CommitRefund(f) \/ RefundRefused(f)

PaymentNext ==
    \/ \E p \in Payments : CreatePayment(p)
    \/ \E c \in Captures : Capture(c)
    \/ \E f \in Refunds : Refund(f)

PaymentSpec == PaymentInit /\ [][PaymentNext]_paymentVars

-----------------------------------------------------------------------------
(* Properties. *)

PaymentRow ==
    [key : {d.key : d \in Charges}, provider : {d.provider : d \in Charges}, amount : Nat,
     captured : Nat, refunded : Nat, status : PaymentStatus]

RefundRow == [payment : Payments, key : {d.key : d \in RefundBodies}, amount : Nat]

PaymentEvent ==
    [type : {"PAYMENT_COMPLETED", "PAYMENT_INITIATED", "PAYMENT_FAILED", "PAYMENT_REFUNDED"},
     amount : Nat]

CreateState ==
    [pc : {"NEW", "REPLAYED", "UPSTREAM_UNAVAILABLE", "CREATED", "ANNOUNCE",
           "PAYMENT_DECLINED", "INTERNAL_ERROR"}]
    \cup [pc : {"CHARGE"}, body : Charges]
    \cup [pc : {"RECORD"}, body : Charges, outcome : ChargeOutcome]

CaptureState ==
    [pc : {"NEW", "NOT_FOUND", "CONFLICT", "VALIDATION", "CAPTURED"}]
    \cup [pc : {"SETTLE"}, payment : Payments, amount : Nat]

RefundState ==
    [pc : {"NEW", "REPLAYED", "NOT_FOUND", "CONFLICT", "REFUND_EXCEEDS_CAPTURE",
           "GATEWAY_ERROR", "REFUNDED", "INTERNAL_ERROR"}]
    \cup [pc : {"READ"}, body : RefundBodies, payment : Payments]
    \cup [pc : {"RETURN", "COMMIT"}, body : RefundBodies, payment : Payments,
          total : Nat, status : REFUNDABLE_STATUSES \cup {"REFUNDED"}]

(* Every variable stays in the set its column or request state allows.     *)
PaymentTypeOK ==
    /\ create \in [Payments -> CreateState]
    /\ capture \in [Captures -> CaptureState]
    /\ refund \in [Refunds -> RefundState]
    /\ payment \in [Payments -> PaymentRow \cup {NoRow}]
    /\ refundRow \in [Refunds -> RefundRow \cup {NoRow}]
    /\ paymentOutbox \in [Payments -> Seq(PaymentEvent)]

refundsOf(p) == {f \in Refunds : refundRow[f] # NoRow /\ refundRow[f].payment = p}

refundedRows(p) == SumFunction([f \in refundsOf(p) |-> refundRow[f].amount])

announced(p, type) == {i \in DOMAIN paymentOutbox[p] : paymentOutbox[p][i].type = type}

refundsAnnounced(p) ==
    SumFunction([i \in announced(p, "PAYMENT_REFUNDED") |-> paymentOutbox[p][i].amount])

(* A retry, even one that overlaps its first attempt, leaves one row per   *)
(* Idempotency-Key, of payments and of refunds.                            *)
OneRowPerKey ==
    /\ \A p, q \in Payments : p # q /\ exists(p) /\ exists(q) => payment[p].key # payment[q].key
    /\ \A f, g \in Refunds :
          f # g /\ refundRow[f] # NoRow /\ refundRow[g] # NoRow
          => refundRow[f].key # refundRow[g].key

(* PaymentService.refund: "repeated partial refunds can never exceed the   *)
(* original charge". The refund rows of a payment add up to at most what   *)
(* was captured.                                                           *)
RefundsWithinCapture ==
    \A p \in Payments :
        refundsOf(p) # {} => exists(p) /\ refundedRows(p) <= payment[p].captured

(* Rows stay in the sets of their columns, and the money announced as      *)
(* refunded is that of the refund rows, whatever overlaps. Where handlers  *)
(* do not overlap the status column, the two amounts and the refund rows   *)
(* tell the same story.                                                    *)
StatusMatchesAmounts ==
    /\ PaymentTypeOK
    /\ \A p \in Payments : refundsAnnounced(p) = refundedRows(p)
    /\ \A p \in Queued : exists(p) =>
          LET row == payment[p] IN
          /\ row.refunded = refundedRows(p)
          /\ row.status = "REFUNDED" <=> row.captured > 0 /\ row.refunded = row.captured
          /\ row.status = "PARTIALLY_REFUNDED" <=> 0 < row.refunded /\ row.refunded < row.captured
          /\ row.status \in {"AUTHORIZED", "FAILED"} => row.captured = 0
          /\ row.captured <= row.amount

(* Payments whose handlers do not overlap implement the ledger: money is   *)
(* taken once and returned within what is left.                            *)
Ledger == INSTANCE PaymentLedger WITH
    Accounts <- Queued,
    Amounts <- {d.amount : d \in Charges} \cup {d.amount : d \in RefundBodies}
               \cup (CaptureAmounts \ {0}),
    taken <- [p \in Queued |-> IF exists(p) THEN payment[p].captured ELSE 0],
    returned <- [p \in Queued |-> IF exists(p) THEN payment[p].refunded ELSE 0]

ImplementsLedger == Ledger!Spec
=============================================================================
