--------------------------- MODULE PaymentsProofs ---------------------------
(***************************************************************************)
(* Theorems about Payments, for any number of requests and gateways,       *)
(* whether or not handlers overlap.                                        *)
(***************************************************************************)
EXTENDS Payments, SumTheorems

(* A row is there once its request has written it, and not before.         *)
RowsAreWritten ==
    /\ \A p \in Payments :
          /\ exists(p) => create[p].pc \in {"CREATED", "ANNOUNCE", "PAYMENT_DECLINED"}
          /\ create[p].pc = "ANNOUNCE" => exists(p)
    /\ \A f \in Refunds : refundRow[f] # NoRow => refund[f].pc = "REFUNDED"

settling(c) == capture[c].pc = "SETTLE"

returning(f) == refund[f].pc \in {"RETURN", "COMMIT"}

(* A handler goes on with a payment it found, a charge with a gateway that *)
(* is configured.                                                          *)
HandlersFindRow ==
    /\ \A c \in Captures : settling(c) => exists(capture[c].payment)
    /\ \A f \in Refunds : returning(f) => exists(refund[f].payment)
    /\ \A p \in Payments :
          create[p].pc = "CHARGE" => create[p].body.provider \in DOMAIN Gateways

(* However many refund requests there are, finitely many have a row.       *)
RefundsAreFinite == IsFiniteSet({f \in Refunds : refundRow[f] # NoRow})

RefundsAgree == \A p \in Payments : refundsAnnounced(p) = refundedRows(p)

(* What the status column says of the two amounts.                         *)
AmountsFit(row) ==
    /\ row.status # "PENDING"
    /\ row.refunded <= row.captured /\ row.captured <= row.amount
    /\ row.status = "REFUNDED" <=> row.captured > 0 /\ row.refunded = row.captured
    /\ row.status = "PARTIALLY_REFUNDED" <=> 0 < row.refunded /\ row.refunded < row.captured
    /\ row.status \in {"AUTHORIZED", "FAILED"} => row.captured = 0

QueuedRows ==
    \A p \in Queued : exists(p) => payment[p].refunded = refundedRows(p) /\ AmountsFit(payment[p])

(* What a handler has read of its payment still holds.                     *)
captureHolds(c) ==
    LET row == payment[capture[c].payment] IN
    /\ row.status = "AUTHORIZED" /\ capture[c].amount <= row.amount
    /\ capture[c].amount \in (CaptureAmounts \ {0}) \cup {row.amount}

refundHolds(f) ==
    LET row == payment[refund[f].payment] IN
    /\ row.status \in REFUNDABLE_STATUSES
    /\ refund[f].total = row.refunded + refund[f].body.amount
    /\ refund[f].total <= row.captured
    /\ refund[f].status = nextStatus(row, refund[f].body.amount)

(* Without overlap it holds until the handler writes, and no other handler *)
(* of the payment comes between.                                           *)
QueuedHandlers ==
    /\ \A c \in Captures : settling(c) /\ capture[c].payment \in Queued =>
          /\ captureHolds(c)
          /\ \A d \in Captures :
                settling(d) /\ capture[d].payment = capture[c].payment => d = c
    /\ \A f \in Refunds : returning(f) /\ refund[f].payment \in Queued =>
          /\ refundHolds(f)
          /\ \A g \in Refunds :
                returning(g) /\ refund[g].payment = refund[f].payment => g = f

(* A refund row is of a payment that has a row.                            *)
RefundsHavePayment ==
    \A f \in Refunds : refundRow[f] # NoRow => exists(refundRow[f].payment)

AmountsAreAsked ==
    \A p \in Payments : exists(p) => \E d \in Charges : payment[p].amount = d.amount

Inv ==
    /\ PaymentTypeOK
    /\ RowsAreWritten
    /\ HandlersFindRow
    /\ OneRowPerKey
    /\ RefundsAreFinite
    /\ RefundsAgree
    /\ QueuedRows
    /\ QueuedHandlers
    /\ RefundsHavePayment
    /\ AmountsAreAsked

-----------------------------------------------------------------------------
(* What the stages of a request have read. *)

(* A create request that goes on has its body, one that records an outcome.*)
LEMMA CreateFacts ==
    ASSUME PaymentTypeOK, NEW p \in Payments
    PROVE  /\ create[p].pc \in {"CHARGE", "RECORD"} => create[p].body \in Charges
           /\ create[p].pc = "RECORD" => create[p].outcome \in ChargeOutcome
BY DEF PaymentTypeOK, CreateState

(* A capture that settles has its payment and an amount.                   *)
LEMMA CaptureFacts ==
    ASSUME PaymentTypeOK, NEW c \in Captures, settling(c)
    PROVE  capture[c].payment \in Payments /\ capture[c].amount \in Nat
BY DEF PaymentTypeOK, CaptureState, settling

(* A refund that goes on has its body and its payment, and one that pays   *)
(* back what it will write.                                                *)
LEMMA RefundFacts ==
    ASSUME PaymentTypeOK, NEW f \in Refunds, refund[f].pc \in {"READ", "RETURN", "COMMIT"}
    PROVE  /\ refund[f].body \in RefundBodies /\ refund[f].payment \in Payments
           /\ returning(f) => /\ refund[f].total \in Nat
                              /\ refund[f].status \in {"COMPLETED", "PARTIALLY_REFUNDED", "REFUNDED"}
BY DEF PaymentTypeOK, RefundState, returning, REFUNDABLE_STATUSES

(* Columns of a row that exists.                                           *)
LEMMA RowFacts ==
    ASSUME PaymentTypeOK, NEW p \in Payments, exists(p)
    PROVE  /\ payment[p] \in PaymentRow
           /\ payment[p].amount \in Nat /\ payment[p].captured \in Nat
           /\ payment[p].refunded \in Nat /\ payment[p].status \in PaymentStatus
BY DEF PaymentTypeOK, PaymentRow, exists

(* What nextStatus may answer.                                             *)
LEMMA NextStatusType ==
    ASSUME NEW row, NEW amount
    PROVE  nextStatus(row, amount) \in {"PARTIALLY_REFUNDED", "REFUNDED"}
BY DEF nextStatus

-----------------------------------------------------------------------------
(* The types, request by request. *)

(* The steps of create keep the columns in their sets.                     *)
LEMMA CreateTypes ==
    ASSUME PaymentTypeOK, HandlersFindRow, RowsAreWritten, NEW p \in Payments, CreatePayment(p)
    PROVE  PaymentTypeOK'
<1> USE DEF PaymentTypeOK
<1>1. CASE LookUpPaymentKey(p)
  <2>1. PICK d \in Charges : create' = [create EXCEPT ![p] =
              CASE keyUsed(d.key) -> [pc |-> "REPLAYED"]
                [] ~ keyUsed(d.key) /\ ~ configured(d.provider) ->
                       [pc |-> "UPSTREAM_UNAVAILABLE"]
                [] OTHER -> [pc |-> "CHARGE", body |-> d]]
    BY <1>1 DEF LookUpPaymentKey
  <2>2. /\ [pc |-> "REPLAYED"] \in CreateState /\ [pc |-> "UPSTREAM_UNAVAILABLE"] \in CreateState
        /\ [pc |-> "CHARGE", body |-> d] \in CreateState
    BY DEF CreateState
  <2>3. create' \in [Payments -> CreateState]
    BY <2>1, <2>2
  <2>4. QED
    BY <1>1, <2>3 DEF LookUpPaymentKey
<1>2. CASE Charge(p)
  <2>1. PICK outcome \in Gateways[create[p].body.provider] : create' = [create EXCEPT ![p] =
              [pc |-> "RECORD", body |-> create[p].body, outcome |-> outcome]]
    BY <1>2 DEF Charge
  <2>2. outcome \in ChargeOutcome
    BY <1>2, ChargesAssumption DEF Charge, HandlersFindRow
  <2>3. [pc |-> "RECORD", body |-> create[p].body, outcome |-> outcome] \in CreateState
    BY <1>2, <2>2, CreateFacts DEF CreateState, Charge
  <2>4. QED
    BY <1>2, <2>1, <2>3 DEF Charge
<1>3. ASSUME NEW captured \in Nat, create[p].pc = "RECORD", InsertPayment(p, captured)
      PROVE  payment' \in [Payments -> PaymentRow \cup {NoRow}]
  <2>1. create[p].body \in Charges /\ create[p].outcome \in ChargeOutcome
    BY <1>3, CreateFacts
  <2>2. statusAfter(create[p].outcome) \in PaymentStatus
    BY DEF statusAfter, PaymentStatus
  <2>3. create[p].body.amount \in Nat
    BY <2>1, ChargesAssumption
  <2>4. [key |-> create[p].body.key, provider |-> create[p].body.provider,
         amount |-> create[p].body.amount, captured |-> captured, refunded |-> 0,
         status |-> statusAfter(create[p].outcome)] \in PaymentRow
    BY <2>1, <2>2, <2>3 DEF PaymentRow
  <2>5. QED
    BY <1>3, <2>4 DEF InsertPayment
<1>4. ASSUME NEW pc \in {"CREATED", "ANNOUNCE", "PAYMENT_DECLINED", "INTERNAL_ERROR"},
             create' = [create EXCEPT ![p] = [pc |-> pc]]
      PROVE  create' \in [Payments -> CreateState]
  <2>1. [pc |-> pc] \in CreateState
    BY DEF CreateState
  <2>2. QED
    BY <1>4, <2>1
<1>5. ASSUME NEW type \in {"PAYMENT_COMPLETED", "PAYMENT_INITIATED", "PAYMENT_FAILED"},
             NEW amount \in Nat, paymentOutbox' = [paymentOutbox EXCEPT ![p] = Append(@, event(type, amount))]
      PROVE  paymentOutbox' \in [Payments -> Seq(PaymentEvent)]
  <2>1. event(type, amount) \in PaymentEvent
    BY DEF event, PaymentEvent
  <2>2. QED
    BY <1>5, <2>1
<1>6. CASE RecordCharge(p)
  <2>1. create[p].pc = "RECORD" /\ create[p].body.amount \in Nat
    BY <1>6, CreateFacts, ChargesAssumption DEF RecordCharge
  <2>2. payment' \in [Payments -> PaymentRow \cup {NoRow}]
    BY <1>3, <1>6, <2>1 DEF RecordCharge
  <2>3. paymentOutbox' \in [Payments -> Seq(PaymentEvent)]
    BY <1>5, <1>6, <2>1 DEF RecordCharge
  <2>4. create' \in [Payments -> CreateState]
    BY <1>4, <1>6 DEF RecordCharge
  <2>5. QED
    BY <1>6, <2>2, <2>3, <2>4 DEF RecordCharge
<1>7. CASE RecordFailure(p)
  BY <1>3, <1>4, <1>7 DEF RecordFailure
<1>8. CASE publishPaymentFailed(p)
  <2>1. payment[p].amount \in Nat
    BY <1>8, RowFacts DEF publishPaymentFailed, RowsAreWritten
  <2>2. paymentOutbox' \in [Payments -> Seq(PaymentEvent)]
    BY <1>5, <1>8, <2>1 DEF publishPaymentFailed
  <2>3. create' \in [Payments -> CreateState]
    BY <1>4, <1>8 DEF publishPaymentFailed
  <2>4. QED
    BY <1>8, <2>2, <2>3 DEF publishPaymentFailed
<1>9. CASE RecordRefused(p)
  BY <1>4, <1>9 DEF RecordRefused
<1>10. QED
  BY <1>1, <1>2, <1>6, <1>7, <1>8, <1>9 DEF CreatePayment

(* So do the steps of capture.                                             *)
LEMMA CaptureTypes ==
    ASSUME PaymentTypeOK, HandlersFindRow, NEW c \in Captures, Capture(c)
    PROVE  PaymentTypeOK'
<1> USE DEF PaymentTypeOK
<1>1. CASE ReadForCapture(c)
  <2>1. PICK p \in Payments, asked \in CaptureAmounts : capture' = [capture EXCEPT ![c] =
               CASE ~ exists(p) -> [pc |-> "NOT_FOUND"]
                 [] exists(p) /\ ~ canTransitionPayment(payment[p].status, "COMPLETED") ->
                        [pc |-> "CONFLICT"]
                 [] exists(p) /\ canTransitionPayment(payment[p].status, "COMPLETED")
                      /\ captureMinor(asked, payment[p]) > payment[p].amount ->
                        [pc |-> "VALIDATION"]
                 [] OTHER -> [pc |-> "SETTLE", payment |-> p,
                              amount |-> captureMinor(asked, payment[p])]]
    BY <1>1 DEF ReadForCapture
  <2>2. /\ [pc |-> "NOT_FOUND"] \in CaptureState /\ [pc |-> "CONFLICT"] \in CaptureState
        /\ [pc |-> "VALIDATION"] \in CaptureState
    BY DEF CaptureState
  <2>3. exists(p) => captureMinor(asked, payment[p]) \in Nat
    BY RowFacts, ChargesAssumption DEF captureMinor
  <2>4. exists(p) => [pc |-> "SETTLE", payment |-> p,
                      amount |-> captureMinor(asked, payment[p])] \in CaptureState
    BY <2>3 DEF CaptureState
  <2>5. capture' \in [Captures -> CaptureState]
    BY <2>1, <2>2, <2>4
  <2>6. QED
    BY <1>1, <2>5 DEF ReadForCapture
<1>2. CASE CommitCapture(c)
  <2> DEFINE p == capture[c].payment
  <2>1. p \in Payments /\ capture[c].amount \in Nat /\ exists(p)
    BY <1>2, CaptureFacts DEF CommitCapture, settling, HandlersFindRow
  <2>2. payment' \in [Payments -> PaymentRow \cup {NoRow}]
    <3>1. [payment[p] EXCEPT !.status = "COMPLETED", !.captured = capture[c].amount] \in PaymentRow
      BY <2>1, RowFacts DEF PaymentRow, PaymentStatus
    <3>2. payment' = [payment EXCEPT ![p] =
                        [payment[p] EXCEPT !.status = "COMPLETED", !.captured = capture[c].amount]]
      BY <1>2, <2>1 DEF CommitCapture
    <3>3. QED
      BY <3>1, <3>2
  <2>3. event("PAYMENT_COMPLETED", capture[c].amount) \in PaymentEvent
    BY <2>1 DEF event, PaymentEvent
  <2>4. paymentOutbox' \in [Payments -> Seq(PaymentEvent)]
    BY <1>2, <2>1, <2>3 DEF CommitCapture
  <2>5. [pc |-> "CAPTURED"] \in CaptureState
    BY DEF CaptureState
  <2>6. QED
    BY <1>2, <2>2, <2>4, <2>5 DEF CommitCapture
<1>3. QED
  BY <1>1, <1>2 DEF Capture

(* And the steps of refund.                                                *)
LEMMA RefundTypes ==
    ASSUME PaymentTypeOK, HandlersFindRow, NEW f \in Refunds, Refund(f)
    PROVE  PaymentTypeOK'
<1> USE DEF PaymentTypeOK
<1>0. ASSUME NEW pc \in {"REPLAYED", "NOT_FOUND", "CONFLICT", "REFUND_EXCEEDS_CAPTURE",
                         "GATEWAY_ERROR", "REFUNDED", "INTERNAL_ERROR"}
      PROVE  [pc |-> pc] \in RefundState
  BY DEF RefundState
<1>1. CASE LookUpRefundKey(f)
  <2>1. PICK d \in RefundBodies, p \in Payments : refund' = [refund EXCEPT ![f] =
              IF refundKeyUsed(d.key) THEN [pc |-> "REPLAYED"]
              ELSE [pc |-> "READ", body |-> d, payment |-> p]]
    BY <1>1 DEF LookUpRefundKey
  <2>2. [pc |-> "READ", body |-> d, payment |-> p] \in RefundState
    BY DEF RefundState
  <2>3. refund' \in [Refunds -> RefundState]
    BY <1>0, <2>1, <2>2
  <2>4. QED
    BY <1>1, <2>3 DEF LookUpRefundKey
<1>2. CASE AssessRefund(f)
  <2> DEFINE d == refund[f].body
             p == refund[f].payment
             problem == refundProblem(payment[p], d.amount)
             next == [pc |-> "RETURN", body |-> d, payment |-> p,
                      total |-> payment[p].refunded + d.amount,
                      status |-> nextStatus(payment[p], d.amount)]
  <2>1. d \in RefundBodies /\ p \in Payments /\ d.amount \in Nat
    BY <1>2, RefundFacts, ChargesAssumption DEF AssessRefund
  <2>2. problem \in {"NOT_FOUND", "CONFLICT", "REFUND_EXCEEDS_CAPTURE", "OK"}
    BY DEF refundProblem
  <2>3. problem = "OK" => exists(p)
    BY DEF refundProblem, exists
  <2>4. exists(p) => next \in RefundState
    <3>1. exists(p) => payment[p].refunded + d.amount \in Nat
      <4>1. exists(p) => payment[p].refunded \in Nat
        BY <2>1, RowFacts
      <4> HIDE DEF d, p
      <4>2. QED
        BY <2>1, <4>1
    <3>2. nextStatus(payment[p], d.amount) \in REFUNDABLE_STATUSES \cup {"REFUNDED"}
      BY NextStatusType DEF REFUNDABLE_STATUSES
    <3>3. QED
      BY <2>1, <3>1, <3>2 DEF RefundState
  <2>5. refund' = [refund EXCEPT ![f] = IF problem # "OK" THEN [pc |-> problem] ELSE next]
    BY <1>2 DEF AssessRefund
  <2>6. refund' \in [Refunds -> RefundState]
    <3> HIDE DEF problem, next
    <3>1. QED
      BY <1>0, <2>2, <2>3, <2>4, <2>5
  <2>7. QED
    BY <1>2, <2>6 DEF AssessRefund
<1>3. CASE ReturnMoney(f)
  <2> DEFINE next == [pc |-> "COMMIT", body |-> refund[f].body, payment |-> refund[f].payment,
                      total |-> refund[f].total, status |-> refund[f].status]
  <2>1. next \in RefundState
    BY <1>3, RefundFacts DEF ReturnMoney, RefundState, returning, REFUNDABLE_STATUSES
  <2>2. refund' = [refund EXCEPT ![f] = next] \/ refund' = [refund EXCEPT ![f] = [pc |-> "GATEWAY_ERROR"]]
    BY <1>3 DEF ReturnMoney
  <2>3. refund' \in [Refunds -> RefundState]
    BY <1>0, <2>1, <2>2
  <2>4. QED
    BY <1>3, <2>3 DEF ReturnMoney
<1>4. CASE CommitRefund(f)
  <2> DEFINE d == refund[f].body
             p == refund[f].payment
  <2>1. /\ d \in RefundBodies /\ p \in Payments /\ d.amount \in Nat /\ exists(p)
        /\ refund[f].total \in Nat
        /\ refund[f].status \in {"COMPLETED", "PARTIALLY_REFUNDED", "REFUNDED"}
    BY <1>4, RefundFacts, ChargesAssumption DEF CommitRefund, HandlersFindRow, returning
  <2>2. [payment |-> p, key |-> d.key, amount |-> d.amount] \in RefundRow
    BY <2>1 DEF RefundRow
  <2>3. refundRow' \in [Refunds -> RefundRow \cup {NoRow}]
    BY <1>4, <2>2 DEF CommitRefund
  <2>4. payment' \in [Payments -> PaymentRow \cup {NoRow}]
    <3>1. [payment[p] EXCEPT !.refunded = refund[f].total, !.status = refund[f].status] \in PaymentRow
      BY <2>1, RowFacts DEF PaymentRow, PaymentStatus
    <3>2. payment' = [payment EXCEPT ![p] =
             [payment[p] EXCEPT !.refunded = refund[f].total, !.status = refund[f].status]]
      BY <1>4, <2>1 DEF CommitRefund
    <3>3. QED
      BY <3>1, <3>2
  <2>5. refundEvents(f) \in Seq(PaymentEvent)
    BY <2>1 DEF refundEvents, event, PaymentEvent
  <2>6. paymentOutbox' \in [Payments -> Seq(PaymentEvent)]
    BY <1>4, <2>1, <2>5 DEF CommitRefund
  <2>7. refund' \in [Refunds -> RefundState]
    BY <1>0, <1>4 DEF CommitRefund
  <2>8. QED
    BY <1>4, <2>3, <2>4, <2>6, <2>7 DEF CommitRefund
<1>5. CASE RefundRefused(f)
  BY <1>0, <1>5 DEF RefundRefused
<1>6. QED
  BY <1>1, <1>2, <1>3, <1>4, <1>5 DEF Refund

(* No step takes a column out of its set.                                  *)
LEMMA TypeStep ==
    ASSUME Inv, [PaymentNext]_paymentVars
    PROVE  PaymentTypeOK'
<1>1. PaymentTypeOK /\ HandlersFindRow /\ RowsAreWritten
  BY DEF Inv
<1>2. CASE UNCHANGED paymentVars
  BY <1>1, <1>2 DEF paymentVars, PaymentTypeOK
<1>3. QED
  BY <1>1, <1>2, CreateTypes, CaptureTypes, RefundTypes DEF PaymentNext

-----------------------------------------------------------------------------
(* How a step may change the tables. *)

(* The row create writes.                                                  *)
created(p, captured) ==
    [key |-> create[p].body.key, provider |-> create[p].body.provider,
     amount |-> create[p].body.amount, captured |-> captured, refunded |-> 0,
     status |-> statusAfter(create[p].outcome)]

Inserts(p) ==
    /\ create[p].pc = "RECORD" /\ ~ keyUsed(create[p].body.key)
    /\ payment' = [payment EXCEPT ![p] =
          created(p, IF create[p].outcome = "CAPTURED" THEN create[p].body.amount ELSE 0)]
    /\ create'[p].pc \in {"CREATED", "ANNOUNCE"}
    /\ \A q \in Payments \ {p} : create'[q] = create[q]
    /\ UNCHANGED <<capture, refund, refundRow>>

(* Both ways of recording a charge insert a row, if the key is free.      *)
LEMMA InsertShape ==
    ASSUME PaymentTypeOK, NEW p \in Payments, RecordCharge(p) \/ RecordFailure(p)
    PROVE  Inserts(p)
<1>1. CASE RecordCharge(p)
  BY <1>1 DEF RecordCharge, InsertPayment, Inserts, created, canInsert, PaymentTypeOK
<1>2. CASE RecordFailure(p)
  BY <1>2 DEF RecordFailure, InsertPayment, Inserts, created, canInsert, PaymentTypeOK
<1>3. QED
  BY <1>1, <1>2

(* Three kinds of step write rows.                                         *)
LEMMA StepShape ==
    ASSUME PaymentTypeOK, [PaymentNext]_paymentVars
    PROVE  \/ \E p \in Payments : Inserts(p)
           \/ \E c \in Captures : CommitCapture(c)
           \/ \E f \in Refunds : CommitRefund(f)
           \/ UNCHANGED <<payment, refundRow>>
<1>1. ASSUME NEW p \in Payments, CreatePayment(p) PROVE Inserts(p) \/ UNCHANGED <<payment, refundRow>>
  BY <1>1, InsertShape
     DEF CreatePayment, LookUpPaymentKey, Charge, publishPaymentFailed, RecordRefused
<1>2. ASSUME NEW c \in Captures, Capture(c) PROVE CommitCapture(c) \/ UNCHANGED <<payment, refundRow>>
  BY <1>2 DEF Capture, ReadForCapture
<1>3. ASSUME NEW f \in Refunds, Refund(f) PROVE CommitRefund(f) \/ UNCHANGED <<payment, refundRow>>
  BY <1>3 DEF Refund, LookUpRefundKey, AssessRefund, ReturnMoney, RefundRefused
<1>4. QED
  BY <1>1, <1>2, <1>3 DEF PaymentNext, paymentVars

(* A capture sets the status and the captured amount of a row that exists. *)
LEMMA CaptureWrites ==
    ASSUME Inv, NEW c \in Captures, CommitCapture(c)
    PROVE  LET p == capture[c].payment IN
           /\ settling(c) /\ p \in Payments /\ exists(p) /\ capture[c].amount \in Nat
           /\ payment' = [payment EXCEPT ![p] =
                 [payment[p] EXCEPT !.status = "COMPLETED", !.captured = capture[c].amount]]
           /\ payment'[p] = [payment[p] EXCEPT !.status = "COMPLETED",
                                               !.captured = capture[c].amount]
           /\ payment'[p] \in PaymentRow
           /\ \A q \in Payments \ {p} : payment'[q] = payment[q]
<1> DEFINE p == capture[c].payment
           row == [payment[p] EXCEPT !.status = "COMPLETED", !.captured = capture[c].amount]
<1>1. PaymentTypeOK /\ settling(c)
  BY DEF Inv, CommitCapture, settling
<1>2. p \in Payments /\ exists(p) /\ capture[c].amount \in Nat
  BY <1>1, CaptureFacts DEF Inv, HandlersFindRow
<1>3. payment \in [Payments -> PaymentRow \cup {NoRow}]
  BY <1>1 DEF PaymentTypeOK
<1>4. payment' = [payment EXCEPT ![p] = row]
  BY <1>2, <1>3 DEF CommitCapture
<1>5. row \in PaymentRow
  BY <1>1, <1>2, RowFacts DEF PaymentRow, PaymentStatus
<1>6. QED
  BY <1>1, <1>2, <1>3, <1>4, <1>5

(* A refund sets the status and the refunded amount of a row that exists.  *)
LEMMA RefundWrites ==
    ASSUME Inv, NEW f \in Refunds, CommitRefund(f)
    PROVE  /\ returning(f) /\ refund[f].payment \in Payments /\ exists(refund[f].payment)
           /\ refund[f].body.amount \in Nat \ {0} /\ refund[f].total \in Nat
           /\ payment'[refund[f].payment] =
                 [payment[refund[f].payment] EXCEPT !.refunded = refund[f].total,
                                                    !.status = refund[f].status]
           /\ payment'[refund[f].payment] \in PaymentRow
           /\ \A q \in Payments \ {refund[f].payment} : payment'[q] = payment[q]
<1> DEFINE p == refund[f].payment
           row == [payment[p] EXCEPT !.refunded = refund[f].total, !.status = refund[f].status]
<1>1. PaymentTypeOK /\ returning(f) /\ refund[f].pc = "COMMIT"
  BY DEF Inv, CommitRefund, returning
<1>2. /\ p \in Payments /\ exists(p) /\ refund[f].body \in RefundBodies
      /\ refund[f].total \in Nat
      /\ refund[f].status \in {"COMPLETED", "PARTIALLY_REFUNDED", "REFUNDED"}
  BY <1>1, RefundFacts DEF Inv, HandlersFindRow
<1>3. refund[f].body.amount \in Nat \ {0}
  BY <1>2, ChargesAssumption
<1>4. payment \in [Payments -> PaymentRow \cup {NoRow}]
  BY <1>1 DEF PaymentTypeOK
<1>5. payment' = [payment EXCEPT ![p] = row]
  BY <1>2, <1>4 DEF CommitRefund
<1>6. row \in PaymentRow
  BY <1>1, <1>2, RowFacts DEF PaymentRow, PaymentStatus
<1>7. QED
  BY <1>1, <1>2, <1>3, <1>4, <1>5, <1>6

(* It has a row of its own, which was not there before.                    *)
LEMMA RefundAdds ==
    ASSUME Inv, NEW f \in Refunds, CommitRefund(f)
    PROVE  /\ refundRow[f] = NoRow /\ refundRow'[f] # NoRow
           /\ refundRow'[f].payment = refund[f].payment
           /\ refundRow'[f].key = refund[f].body.key
           /\ refundRow'[f].amount = refund[f].body.amount
           /\ \A g \in Refunds : g # f => refundRow'[g] = refundRow[g]
<1> DEFINE d == refund[f].body
           new == [payment |-> refund[f].payment, key |-> d.key, amount |-> d.amount]
<1>1. PaymentTypeOK /\ refund[f].pc = "COMMIT"
  BY DEF Inv, CommitRefund
<1>2. refund[f].payment \in Payments /\ d \in RefundBodies
  BY <1>1, RefundFacts
<1>3. d.amount \in Nat
  BY <1>2, ChargesAssumption
<1>4. new # NoRow
  BY <1>2, <1>3, ChargesAssumption
<1>5. refundRow[f] = NoRow
  BY <1>1 DEF Inv, RowsAreWritten
<1>6. refundRow \in [Refunds -> RefundRow \cup {NoRow}]
  BY <1>1 DEF PaymentTypeOK
<1>7. refundRow' = [refundRow EXCEPT ![f] = new]
  BY DEF CommitRefund
<1>8. QED
  BY <1>4, <1>5, <1>6, <1>7

(* Rows are never deleted, and keep their key and their amount.            *)
LEMMA RowsPersist ==
    ASSUME Inv, [PaymentNext]_paymentVars, NEW p \in Payments, exists(p)
    PROVE  /\ payment'[p] # NoRow
           /\ payment'[p].key = payment[p].key /\ payment'[p].amount = payment[p].amount
           /\ payment'[p].provider = payment[p].provider
<1>0. PaymentTypeOK /\ RowsAreWritten /\ payment \in [Payments -> PaymentRow \cup {NoRow}]
  BY DEF Inv, PaymentTypeOK
<1>1. ASSUME NEW q \in Payments, Inserts(q) PROVE payment'[p] = payment[p]
  BY <1>0, <1>1 DEF Inserts, RowsAreWritten
<1>2. NoRow \notin PaymentRow
  BY ChargesAssumption DEF PaymentRow
<1>3. payment[p] \in PaymentRow
  BY <1>0, RowFacts
<1>4. ASSUME NEW c \in Captures, CommitCapture(c)
      PROVE  \/ payment'[p] = payment[p]
             \/ /\ payment'[p] \in PaymentRow
                /\ payment'[p] = [payment[p] EXCEPT !.status = "COMPLETED",
                                                    !.captured = capture[c].amount]
  BY <1>4, CaptureWrites
<1>5. ASSUME NEW f \in Refunds, CommitRefund(f)
      PROVE  \/ payment'[p] = payment[p]
             \/ /\ payment'[p] \in PaymentRow
                /\ payment'[p] = [payment[p] EXCEPT !.refunded = refund[f].total,
                                                    !.status = refund[f].status]
  BY <1>5, RefundWrites
<1>6. QED
  BY <1>0, <1>1, <1>2, <1>3, <1>4, <1>5, StepShape DEF exists, PaymentRow

(* A row that a step inserts is there afterwards.                          *)
LEMMA InsertedExists ==
    ASSUME PaymentTypeOK, NEW p \in Payments, Inserts(p)
    PROVE  /\ payment'[p] = created(p, IF create[p].outcome = "CAPTURED"
                                       THEN create[p].body.amount ELSE 0)
           /\ payment'[p] # NoRow
           /\ payment'[p].key = create[p].body.key
           /\ payment'[p].amount = create[p].body.amount
           /\ create[p].body \in Charges /\ create[p].outcome \in ChargeOutcome
           /\ create[p].body.amount \in Nat \ {0}
           /\ \A q \in Payments : q # p => payment'[q] = payment[q]
<1> DEFINE captured == IF create[p].outcome = "CAPTURED" THEN create[p].body.amount ELSE 0
<1>1. create[p].body \in Charges /\ create[p].outcome \in ChargeOutcome
  BY CreateFacts DEF Inserts
<1>2. create[p].body.amount \in Nat \ {0} /\ captured \in Nat
  BY <1>1, ChargesAssumption
<1>3. statusAfter(create[p].outcome) \in PaymentStatus
  BY DEF statusAfter, PaymentStatus
<1>4. created(p, captured) # NoRow
  BY <1>1, <1>2, <1>3, ChargesAssumption DEF created
<1>5. payment \in [Payments -> PaymentRow \cup {NoRow}]
  BY DEF PaymentTypeOK
<1>6. payment' = [payment EXCEPT ![p] = created(p, captured)]
  BY DEF Inserts
<1>7. payment'[p] = created(p, captured) /\ \A q \in Payments : q # p => payment'[q] = payment[q]
  BY <1>5, <1>6
<1>8. /\ created(p, captured).key = create[p].body.key
      /\ created(p, captured).amount = create[p].body.amount
  BY DEF created
<1>9. QED
  BY <1>1, <1>2, <1>4, <1>7, <1>8

-----------------------------------------------------------------------------
(* The conjuncts of the invariant, one by one. *)

(* In the initial state there are no rows and no handlers.                 *)
LEMMA InitInv == PaymentInit => Inv
<1> SUFFICES ASSUME PaymentInit PROVE Inv
  OBVIOUS
<1> USE DEF PaymentInit
<1>1. PaymentTypeOK
  <2>1. /\ [pc |-> "NEW"] \in CreateState /\ [pc |-> "NEW"] \in CaptureState
        /\ [pc |-> "NEW"] \in RefundState
    BY DEF CreateState, CaptureState, RefundState
  <2>2. <<>> \in Seq(PaymentEvent)
    OBVIOUS
  <2>3. QED
    BY <2>1, <2>2 DEF PaymentTypeOK
<1>2. RowsAreWritten /\ OneRowPerKey /\ QueuedRows /\ AmountsAreAsked /\ RefundsHavePayment
  BY ChargesAssumption
     DEF RowsAreWritten, OneRowPerKey, QueuedRows, AmountsAreAsked, RefundsHavePayment, exists
<1>3. HandlersFindRow /\ QueuedHandlers
  BY DEF HandlersFindRow, QueuedHandlers, settling, returning
<1>4. RefundsAreFinite
  <2>1. {f \in Refunds : refundRow[f] # NoRow} = {}
    OBVIOUS
  <2>2. QED
    BY <2>1, FS_EmptySet DEF RefundsAreFinite
<1>5. ASSUME NEW p \in Payments PROVE refundsAnnounced(p) = refundedRows(p)
  <2>1. announced(p, "PAYMENT_REFUNDED") = {} /\ refundsOf(p) = {}
    BY DEF announced, refundsOf
  <2>2. refundsAnnounced(p) = 0
    BY <2>1, SumFunctionOfNone DEF refundsAnnounced
  <2>3. refundedRows(p) = 0
    BY <2>1, SumFunctionOfNone DEF refundedRows
  <2>4. QED
    BY <2>2, <2>3
<1>6. QED
  BY <1>1, <1>2, <1>3, <1>4, <1>5 DEF Inv, RefundsAgree

(* Rows appear with the last step of the request that writes them.         *)
LEMMA WrittenStep ==
    ASSUME Inv, [PaymentNext]_paymentVars
    PROVE  RowsAreWritten'
<1> USE DEF RowsAreWritten, exists
<1>1. RowsAreWritten /\ PaymentTypeOK
  BY DEF Inv
<1>2. /\ create \in [Payments -> CreateState] /\ refund \in [Refunds -> RefundState]
      /\ payment \in [Payments -> PaymentRow \cup {NoRow}]
      /\ refundRow \in [Refunds -> RefundRow \cup {NoRow}]
  BY <1>1 DEF PaymentTypeOK
<1>3. ASSUME NEW p \in Payments, CreatePayment(p) PROVE RowsAreWritten'
  <2>1. CASE LookUpPaymentKey(p)
    <3>1. create[p].pc = "NEW" /\ UNCHANGED <<refund, payment, refundRow>>
      BY <2>1 DEF LookUpPaymentKey
    <3>2. create'[p].pc \in {"REPLAYED", "UPSTREAM_UNAVAILABLE", "CHARGE"}
      BY <1>2, <2>1 DEF LookUpPaymentKey
    <3>3. \A q \in Payments \ {p} : create'[q] = create[q]
      BY <1>2, <2>1 DEF LookUpPaymentKey
    <3>4. QED
      BY <1>1, <3>1, <3>2, <3>3
  <2>2. CASE Charge(p)
    <3>1. create[p].pc = "CHARGE" /\ UNCHANGED <<refund, payment, refundRow>>
      BY <2>2 DEF Charge
    <3>2. create'[p].pc = "RECORD"
      BY <1>2, <2>2 DEF Charge
    <3>3. \A q \in Payments \ {p} : create'[q] = create[q]
      BY <1>2, <2>2 DEF Charge
    <3>4. QED
      BY <1>1, <3>1, <3>2, <3>3
  <2>3. CASE RecordCharge(p) \/ RecordFailure(p)
    <3>1. Inserts(p)
      BY <1>1, <2>3, InsertShape
    <3>2. payment'[p] # NoRow /\ \A q \in Payments \ {p} : payment'[q] = payment[q]
      BY <1>1, <3>1, InsertedExists
    <3>3. QED
      BY <1>1, <3>1, <3>2 DEF Inserts
  <2>4. CASE publishPaymentFailed(p)
    BY <1>1, <1>2, <2>4 DEF publishPaymentFailed
  <2>5. CASE RecordRefused(p)
    BY <1>1, <1>2, <2>5 DEF RecordRefused
  <2>6. QED
    BY <1>3, <2>1, <2>2, <2>3, <2>4, <2>5 DEF CreatePayment
<1>4. ASSUME NEW c \in Captures, Capture(c) PROVE RowsAreWritten'
  <2>1. CASE ReadForCapture(c)
    BY <1>1, <2>1 DEF ReadForCapture
  <2>2. CASE CommitCapture(c)
    <3>1. \A q \in Payments : payment'[q] # NoRow <=> payment[q] # NoRow
      <4>1. NoRow \notin PaymentRow
        BY ChargesAssumption DEF PaymentRow
      <4>2. QED
        BY <2>2, <4>1, CaptureWrites
    <3>2. UNCHANGED <<create, refund, refundRow>>
      BY <2>2 DEF CommitCapture
    <3>3. QED
      BY <1>1, <3>1, <3>2
  <2>3. QED
    BY <1>4, <2>1, <2>2 DEF Capture
<1>5. ASSUME NEW f \in Refunds, Refund(f) PROVE RowsAreWritten'
  <2>1. CASE CommitRefund(f)
    <3>1. \A q \in Payments : payment'[q] # NoRow <=> payment[q] # NoRow
      <4>1. NoRow \notin PaymentRow
        BY ChargesAssumption DEF PaymentRow
      <4>2. QED
        <5>1. exists(refund[f].payment) /\ payment'[refund[f].payment] # NoRow
          BY <2>1, <4>1, RefundWrites
        <5>2. \A q \in Payments \ {refund[f].payment} : payment'[q] = payment[q]
          BY <2>1, RefundWrites
        <5>3. QED
          BY <5>1, <5>2
    <3>2. refund'[f].pc = "REFUNDED" /\ \A g \in Refunds \ {f} : refund'[g] = refund[g]
      BY <1>2, <2>1 DEF CommitRefund
    <3>3. \A g \in Refunds \ {f} : refundRow'[g] = refundRow[g]
      BY <2>1, RefundAdds
    <3>4. UNCHANGED create
      BY <2>1 DEF CommitRefund
    <3>5. QED
      BY <1>1, <3>1, <3>2, <3>3, <3>4
  <2>2. CASE ~ CommitRefund(f)
    <3>1. /\ UNCHANGED <<create, payment, refundRow>> /\ refund[f].pc # "REFUNDED"
          /\ \A g \in Refunds \ {f} : refund'[g] = refund[g]
      BY <1>2, <1>5, <2>2
         DEF Refund, LookUpRefundKey, AssessRefund, ReturnMoney, RefundRefused
    <3>2. QED
      BY <1>1, <3>1
  <2>3. QED
    BY <2>1, <2>2
<1>6. CASE UNCHANGED paymentVars
  BY <1>1, <1>6 DEF paymentVars
<1>7. QED
  BY <1>3, <1>4, <1>5, <1>6 DEF PaymentNext

(* A handler goes on only with a payment it has found, and rows stay.      *)
LEMMA FoundStep ==
    ASSUME Inv, [PaymentNext]_paymentVars
    PROVE  HandlersFindRow'
<1>1. PaymentTypeOK /\ HandlersFindRow
  BY DEF Inv
<1>2. /\ create \in [Payments -> CreateState] /\ capture \in [Captures -> CaptureState]
      /\ refund \in [Refunds -> RefundState]
  BY <1>1 DEF PaymentTypeOK
<1>3. \A p \in Payments : exists(p) => exists(p)'
  BY RowsPersist DEF exists
<1>4. ASSUME NEW c \in Captures, settling(c)'
      PROVE  exists(capture[c].payment)'
  <2>1. CASE settling(c) /\ capture'[c] = capture[c]
    <3>1. exists(capture[c].payment) /\ capture[c].payment \in Payments
      BY <1>1, <2>1, CaptureFacts DEF HandlersFindRow
    <3>2. exists(capture[c].payment)'
      BY <1>3, <2>1, <3>1 DEF exists
    <3>3. QED
      BY <3>2
  <2>2. CASE ReadForCapture(c)
    <3>1. PICK p \in Payments, asked \in CaptureAmounts : capture' = [capture EXCEPT ![c] =
               CASE ~ exists(p) -> [pc |-> "NOT_FOUND"]
                 [] exists(p) /\ ~ canTransitionPayment(payment[p].status, "COMPLETED") ->
                        [pc |-> "CONFLICT"]
                 [] exists(p) /\ canTransitionPayment(payment[p].status, "COMPLETED")
                      /\ captureMinor(asked, payment[p]) > payment[p].amount ->
                        [pc |-> "VALIDATION"]
                 [] OTHER -> [pc |-> "SETTLE", payment |-> p,
                              amount |-> captureMinor(asked, payment[p])]]
      BY <2>2 DEF ReadForCapture
    <3>2. exists(p) /\ capture'[c].payment = p
      BY <1>2, <1>4, <3>1 DEF settling
    <3>3. exists(p)'
      BY <1>3, <3>2
    <3>4. QED
      BY <3>2, <3>3 DEF exists
  <2>3. capture'[c] = capture[c] \/ ReadForCapture(c) \/ CommitCapture(c)
    BY <1>2 DEF PaymentNext, paymentVars, CreatePayment, LookUpPaymentKey, Charge, RecordCharge, RecordFailure,
           publishPaymentFailed, RecordRefused, Capture, ReadForCapture, CommitCapture,
           Refund, LookUpRefundKey, AssessRefund, ReturnMoney, CommitRefund, RefundRefused
  <2>4. ~ CommitCapture(c)
    BY <1>2, <1>4 DEF CommitCapture, settling
  <2>5. QED
    BY <1>4, <2>1, <2>2, <2>3, <2>4 DEF settling
<1>5. ASSUME NEW f \in Refunds, returning(f)'
      PROVE  exists(refund[f].payment)'
  <2>1. CASE returning(f) /\ refund'[f].payment = refund[f].payment
    <3>1. exists(refund[f].payment) /\ refund[f].payment \in Payments
      BY <1>1, <2>1, RefundFacts DEF HandlersFindRow, returning
    <3>2. QED
      BY <1>3, <2>1, <3>1 DEF exists
  <2>2. CASE AssessRefund(f)
    <3> DEFINE p == refund[f].payment
               d == refund[f].body
               problem == refundProblem(payment[p], d.amount)
    <3>1. refund'[f] = IF problem # "OK" THEN [pc |-> problem]
                       ELSE [pc |-> "RETURN", body |-> d, payment |-> p,
                             total |-> payment[p].refunded + d.amount,
                             status |-> nextStatus(payment[p], d.amount)]
      BY <1>2, <2>2 DEF AssessRefund
    <3>2. problem \in {"NOT_FOUND", "CONFLICT", "REFUND_EXCEEDS_CAPTURE", "OK"}
      BY DEF refundProblem
    <3>3. problem = "OK" => exists(p)
      BY DEF refundProblem, exists
    <3>4. p \in Payments
      BY <1>1, <2>2, RefundFacts DEF AssessRefund
    <3>5. problem = "OK" /\ refund'[f].payment = p
      <4> HIDE DEF problem
      <4>1. QED
        BY <1>5, <3>1, <3>2 DEF returning
    <3>6. QED
      BY <1>3, <3>3, <3>4, <3>5 DEF exists
  <2>3. CASE ReturnMoney(f)
    <3>1. returning(f)
      BY <2>3 DEF ReturnMoney, returning
    <3>2. refund'[f].payment = refund[f].payment
      BY <1>2, <1>5, <2>3 DEF ReturnMoney, returning
    <3>3. QED
      BY <2>1, <3>1, <3>2
  <2>4. \/ refund'[f] = refund[f] \/ refund'[f].pc \notin {"RETURN", "COMMIT"}
        \/ AssessRefund(f) \/ ReturnMoney(f)
    <3>1. ASSUME NEW g \in Refunds, Refund(g), g # f PROVE refund'[f] = refund[f]
      BY <1>2, <3>1 DEF Refund, LookUpRefundKey, AssessRefund, ReturnMoney, CommitRefund,
                        RefundRefused
    <3>2. ASSUME Refund(f)
          PROVE  \/ refund'[f].pc \notin {"RETURN", "COMMIT"}
                 \/ AssessRefund(f) \/ ReturnMoney(f)
      BY <1>2, <3>2 DEF Refund, LookUpRefundKey, CommitRefund, RefundRefused
    <3>3. QED
      BY <3>1, <3>2 DEF PaymentNext, paymentVars, CreatePayment, LookUpPaymentKey, Charge, RecordCharge, RecordFailure,
           publishPaymentFailed, RecordRefused, Capture, ReadForCapture, CommitCapture
  <2>5. QED
    BY <1>5, <2>1, <2>2, <2>3, <2>4 DEF returning
<1>6. ASSUME NEW p \in Payments, create'[p].pc = "CHARGE"
      PROVE  create'[p].body.provider \in DOMAIN Gateways
  <2>1. ASSUME NEW q \in Payments, q # p, CreatePayment(q) PROVE create'[p] = create[p]
    BY <1>2, <2>1 DEF CreatePayment, LookUpPaymentKey, Charge, RecordCharge, RecordFailure,
                      publishPaymentFailed, RecordRefused
  <2>2. ASSUME CreatePayment(p) PROVE LookUpPaymentKey(p)
    BY <1>2, <1>6, <2>2 DEF CreatePayment, LookUpPaymentKey, Charge, RecordCharge, RecordFailure,
                      publishPaymentFailed, RecordRefused
  <2>3. ASSUME LookUpPaymentKey(p) PROVE create'[p].body.provider \in DOMAIN Gateways
    BY <1>2, <1>6, <2>3 DEF LookUpPaymentKey, configured
  <2>4. create'[p] = create[p] \/ CreatePayment(p)
    BY <2>1 DEF PaymentNext, paymentVars, Capture, ReadForCapture, CommitCapture,
           Refund, LookUpRefundKey, AssessRefund, ReturnMoney, CommitRefund, RefundRefused
  <2>5. QED
    BY <1>1, <1>6, <2>2, <2>3, <2>4 DEF HandlersFindRow
<1>7. QED
  BY <1>4, <1>5, <1>6 DEF HandlersFindRow

(* What a row says was charged is what some request asked for.             *)
LEMMA AskedStep ==
    ASSUME Inv, [PaymentNext]_paymentVars
    PROVE  AmountsAreAsked'
<1> SUFFICES ASSUME NEW p \in Payments, payment'[p] # NoRow
             PROVE  \E d \in Charges : payment'[p].amount = d.amount
  BY DEF AmountsAreAsked, exists
<1>1. PaymentTypeOK /\ AmountsAreAsked
  BY DEF Inv
<1>2. CASE exists(p)
  BY <1>1, <1>2, RowsPersist DEF AmountsAreAsked
<1>3. CASE ~ exists(p)
  <2>1. ASSUME NEW c \in Captures, CommitCapture(c) PROVE payment'[p] = payment[p]
    BY <1>3, <2>1, CaptureWrites
  <2>2. ASSUME NEW f \in Refunds, CommitRefund(f) PROVE payment'[p] = payment[p]
    BY <1>3, <2>2, RefundWrites
  <2>3. ASSUME NEW q \in Payments, Inserts(q)
        PROVE  \E d \in Charges : payment'[p].amount = d.amount
    <3>1. p = q
      BY <1>1, <1>3, <2>3, InsertedExists DEF exists
    <3>2. payment'[p].amount = create[p].body.amount /\ create[p].body \in Charges
      BY <1>1, <2>3, <3>1, InsertedExists
    <3>3. QED
      BY <3>2
  <2>4. QED
    BY <1>1, <1>3, <2>1, <2>2, <2>3, StepShape DEF exists
<1>4. QED
  BY <1>2, <1>3

(* The unique indexes: a row is only inserted under a key no row has.      *)
LEMMA KeysStep ==
    ASSUME Inv, [PaymentNext]_paymentVars
    PROVE  OneRowPerKey'
<1>1. PaymentTypeOK /\ OneRowPerKey
  BY DEF Inv
<1>2. ASSUME NEW p \in Payments, NEW q \in Payments, p # q,
             payment'[p] # NoRow, payment'[q] # NoRow
      PROVE  payment'[p].key # payment'[q].key
  <2>1. CASE exists(p) /\ exists(q)
    BY <1>1, <1>2, <2>1, RowsPersist DEF OneRowPerKey
  <2>2. ASSUME NEW x \in Payments, payment'[x] # NoRow, ~ exists(x)
        PROVE  Inserts(x)
    <3>1. ASSUME NEW c \in Captures, CommitCapture(c) PROVE FALSE
      BY <2>2, <3>1, CaptureWrites DEF exists
    <3>2. ASSUME NEW f \in Refunds, CommitRefund(f) PROVE FALSE
      BY <2>2, <3>2, RefundWrites DEF exists
    <3>3. ASSUME NEW y \in Payments, Inserts(y), y # x PROVE FALSE
      BY <1>1, <2>2, <3>3, InsertedExists DEF exists
    <3>4. QED
      BY <1>1, <2>2, <3>1, <3>2, <3>3, StepShape DEF exists
  <2>3. ASSUME NEW x \in Payments, NEW y \in Payments, x # y,
               Inserts(x), payment'[y] # NoRow
        PROVE  payment'[x].key # payment'[y].key
    <3>1. payment'[x].key = create[x].body.key /\ payment'[y] = payment[y]
      BY <1>1, <2>3, InsertedExists
    <3>2. ~ keyUsed(create[x].body.key)
      BY <2>3 DEF Inserts
    <3>3. QED
      BY <2>3, <3>1, <3>2 DEF keyUsed, exists
  <2>4. QED
    BY <1>2, <2>1, <2>2, <2>3
<1>3. ASSUME NEW f \in Refunds, NEW g \in Refunds, f # g,
             refundRow'[f] # NoRow, refundRow'[g] # NoRow
      PROVE  refundRow'[f].key # refundRow'[g].key
  <2>1. CASE UNCHANGED refundRow
    BY <1>1, <1>3, <2>1 DEF OneRowPerKey
  <2>2. ASSUME NEW h \in Refunds, CommitRefund(h) PROVE refundRow'[f].key # refundRow'[g].key
    <3>1. /\ refundRow'[h].key = refund[h].body.key
          /\ \A x \in Refunds : x # h => refundRow'[x] = refundRow[x]
      BY <2>2, RefundAdds
    <3>2. ~ refundKeyUsed(refund[h].body.key)
      BY <2>2 DEF CommitRefund, canInsertRefund
    <3>3. QED
      BY <1>1, <1>3, <3>1, <3>2 DEF OneRowPerKey, refundKeyUsed
  <2>3. QED
    BY <1>1, <2>1, <2>2, StepShape DEF Inserts, CommitCapture
<1>4. QED
  BY <1>2, <1>3 DEF OneRowPerKey, exists

-----------------------------------------------------------------------------
(* The money announced as refunded. *)

refundsIn(s) ==
    [i \in {i \in DOMAIN s : s[i].type = "PAYMENT_REFUNDED"} |-> s[i].amount]

(* An event of another kind announces no refund.                           *)
LEMMA OtherEvent ==
    ASSUME NEW s \in Seq(PaymentEvent), NEW type, type # "PAYMENT_REFUNDED", NEW amount
    PROVE  refundsIn(Append(s, event(type, amount))) = refundsIn(s)
<1> DEFINE t == Append(s, event(type, amount))
<1>1. /\ DOMAIN s = 1 .. Len(s) /\ DOMAIN t = 1 .. Len(s) + 1 /\ Len(s) \in Nat
      /\ t[Len(s) + 1] = event(type, amount) /\ \A i \in DOMAIN s : t[i] = s[i]
  OBVIOUS
<1> HIDE DEF t
<1>2. t[Len(s) + 1].type # "PAYMENT_REFUNDED"
  BY <1>1 DEF event
<1>3. {i \in DOMAIN t : t[i].type = "PAYMENT_REFUNDED"}
      = {i \in DOMAIN s : s[i].type = "PAYMENT_REFUNDED"}
  BY <1>1, <1>2
<1>4. QED
  BY <1>1, <1>3 DEF refundsIn, t

(* The event of a refund announces its amount.                             *)
LEMMA RefundEvent ==
    ASSUME NEW s \in Seq(PaymentEvent), NEW amount \in Nat
    PROVE  OneMore(refundsIn(s), refundsIn(Append(s, event("PAYMENT_REFUNDED", amount))), amount)
<1> DEFINE t == Append(s, event("PAYMENT_REFUNDED", amount))
           n == Len(s) + 1
           S == {i \in DOMAIN s : s[i].type = "PAYMENT_REFUNDED"}
           T == {i \in DOMAIN t : t[i].type = "PAYMENT_REFUNDED"}
<1>1. /\ DOMAIN s = 1 .. Len(s) /\ DOMAIN t = 1 .. Len(s) + 1 /\ Len(s) \in Nat
      /\ t[n] = event("PAYMENT_REFUNDED", amount) /\ \A i \in DOMAIN s : t[i] = s[i]
  OBVIOUS
<1>0. \A i \in DOMAIN s : s[i].amount \in Nat
  <2>1. \A i \in DOMAIN s : s[i] \in PaymentEvent
    OBVIOUS
  <2>2. QED
    BY <2>1 DEF PaymentEvent
<1> HIDE DEF t
<1>2. t[n].type = "PAYMENT_REFUNDED" /\ t[n].amount = amount
  BY <1>1 DEF event
<1>3. T = S \cup {n} /\ n \notin S
  BY <1>1, <1>2
<1>4. IsFiniteSet(S)
  <2>1. IsFiniteSet(1 .. Len(s))
    BY <1>1, FS_Interval
  <2>2. S \subseteq 1 .. Len(s)
    BY <1>1
  <2>3. QED
    BY <2>1, <2>2, FS_Subset
<1>5. refundsIn(s) \in [S -> Nat]
  BY <1>0 DEF refundsIn
<1>6. refundsIn(t) = [i \in S \cup {n} |-> t[i].amount]
  BY <1>3 DEF refundsIn
<1>7. refundsIn(t) \in [S \cup {n} -> Nat] /\ refundsIn(t)[n] = amount
  BY <1>0, <1>1, <1>2, <1>6
<1>8. \A i \in S : refundsIn(t)[i] = refundsIn(s)[i]
  BY <1>1, <1>6 DEF refundsIn
<1> HIDE DEF S, n
<1>9. QED
  BY <1>3, <1>4, <1>5, <1>7, <1>8 DEF OneMore, t

(* The refunds announced of a payment, by its paymentOutbox.                      *)
LEMMA AnnouncedBy ==
    ASSUME NEW p
    PROVE  refundsAnnounced(p) = SumFunction(refundsIn(paymentOutbox[p]))
BY DEF refundsAnnounced, refundsIn, announced

(* The refund rows of a payment are natural amounts of finitely many rows. *)
LEMMA RowsAdd ==
    ASSUME PaymentTypeOK, RefundsAreFinite, NEW p \in Payments
    PROVE  /\ IsFiniteSet(refundsOf(p))
           /\ [f \in refundsOf(p) |-> refundRow[f].amount] \in [refundsOf(p) -> Nat]
           /\ refundedRows(p) \in Nat
<1>1. IsFiniteSet(refundsOf(p))
  <2>1. refundsOf(p) \subseteq {f \in Refunds : refundRow[f] # NoRow}
    BY DEF refundsOf
  <2>2. QED
    BY <2>1, FS_Subset DEF RefundsAreFinite
<1>2. \A f \in refundsOf(p) : refundRow[f].amount \in Nat
  BY DEF PaymentTypeOK, refundsOf, RefundRow
<1>3. [f \in refundsOf(p) |-> refundRow[f].amount] \in [refundsOf(p) -> Nat]
  BY <1>2
<1>4. QED
  BY <1>1, <1>3, SumFunctionIsNat DEF refundedRows

(* A committed refund adds its amount to the rows of its payment, and to   *)
(* those of no other; nothing else changes them.                           *)
LEMMA RowsStep ==
    ASSUME Inv, NEW f \in Refunds, CommitRefund(f), NEW p \in Payments
    PROVE  /\ p = refund[f].payment => refundedRows(p)' = refundedRows(p) + refund[f].body.amount
           /\ p # refund[f].payment => refundedRows(p)' = refundedRows(p)
<1> DEFINE n == refund[f].body.amount
           S == refundsOf(p)
           g == [x \in refundsOf(p) |-> refundRow[x].amount]
           h == [x \in refundsOf(p)' |-> refundRow'[x].amount]
<1>1. PaymentTypeOK /\ RefundsAreFinite
  BY DEF Inv
<1>2. /\ refundRow[f] = NoRow /\ refundRow'[f] # NoRow /\ n \in Nat
      /\ refundRow'[f].payment = refund[f].payment /\ refundRow'[f].amount = n
      /\ \A x \in Refunds : x # f => refundRow'[x] = refundRow[x]
  BY RefundAdds, RefundWrites
<1>3. f \notin S /\ S \subseteq Refunds
  BY <1>2 DEF refundsOf
<1>4. refundedRows(p) = SumFunction(g) /\ refundedRows(p)' = SumFunction(h)
  BY DEF refundedRows
<1>5. CASE p = refund[f].payment
  <2>1. refundsOf(p)' = S \cup {f}
    BY <1>2, <1>5 DEF refundsOf
  <2>2. /\ \A x \in S : h[x] = g[x] /\ g[x] = refundRow[x].amount
        /\ h[f] = n
    BY <1>2, <1>3, <2>1
  <2>3. IsFiniteSet(S) /\ g \in [S -> Nat]
    BY <1>1, RowsAdd
  <2>4. h \in [S \cup {f} -> Nat]
    <3>1. \A x \in S \cup {f} : refundRow'[x].amount \in Nat
      BY <1>2, <1>3, <2>3, <2>2
    <3>2. QED
      BY <2>1, <3>1
  <2> HIDE DEF g, h, S
  <2>5. OneMore(g, h, n)
    <3>1. f \notin S /\ (\A x \in S : h[x] = g[x]) /\ h[f] = n
      BY <1>3, <2>2
    <3>2. QED
      BY <3>1, <2>3, <2>4 DEF OneMore
  <2>6. SumFunction(h) = SumFunction(g) + n
    BY <2>5, OneMoreAdds
  <2>7. QED
    BY <1>4, <1>5, <2>6
<1>6. CASE p # refund[f].payment
  <2>1. refundsOf(p)' = S
    BY <1>2, <1>6 DEF refundsOf
  <2>2. h = g
    BY <1>2, <1>3, <2>1
  <2>3. QED
    BY <1>4, <1>6, <2>2
<1>7. QED
  BY <1>5, <1>6

(* Each refund is one more row.                                            *)
LEMMA FiniteStep ==
    ASSUME Inv, [PaymentNext]_paymentVars
    PROVE  RefundsAreFinite'
<1> DEFINE S == {f \in Refunds : refundRow[f] # NoRow}
           T == {f \in Refunds : refundRow'[f] # NoRow}
<1>1. IsFiniteSet(S) /\ PaymentTypeOK
  BY DEF Inv, RefundsAreFinite
<1>2. CASE UNCHANGED refundRow
  BY <1>1, <1>2 DEF RefundsAreFinite
<1>3. ASSUME NEW f \in Refunds, CommitRefund(f) PROVE IsFiniteSet(T)
  <2>1. T = S \cup {f}
    BY <1>3, RefundAdds
  <2>2. QED
    BY <1>1, <2>1, FS_AddElement
<1>4. QED
  BY <1>1, <1>2, <1>3, StepShape DEF RefundsAreFinite, Inserts, CommitCapture

(* Every refund row is announced with it, and nothing else announces one.  *)
LEMMA AgreeStep ==
    ASSUME Inv, [PaymentNext]_paymentVars
    PROVE  RefundsAgree'
<1> SUFFICES ASSUME NEW p \in Payments
             PROVE  refundsAnnounced(p)' = refundedRows(p)'
  BY DEF RefundsAgree
<1> DEFINE sum(s) == SumFunction(refundsIn(s))
<1>1. /\ PaymentTypeOK /\ refundsAnnounced(p) = refundedRows(p)
      /\ paymentOutbox \in [Payments -> Seq(PaymentEvent)] /\ paymentOutbox[p] \in Seq(PaymentEvent)
  BY DEF Inv, RefundsAgree, PaymentTypeOK
<1>2. refundsAnnounced(p) = sum(paymentOutbox[p]) /\ refundsAnnounced(p)' = sum(paymentOutbox'[p])
  <2>1. refundsAnnounced(p) = SumFunction(refundsIn(paymentOutbox[p]))
    BY AnnouncedBy
  <2>2. refundsAnnounced(p)' = SumFunction(refundsIn(paymentOutbox'[p]))
    BY DEF refundsAnnounced, refundsIn, announced
  <2>3. QED
    BY <2>1, <2>2
<1>3. CASE /\ UNCHANGED refundRow
           /\ \/ paymentOutbox'[p] = paymentOutbox[p]
              \/ \E type \in {"PAYMENT_COMPLETED", "PAYMENT_INITIATED", "PAYMENT_FAILED"} :
                    \E amount : paymentOutbox'[p] = Append(paymentOutbox[p], event(type, amount))
  <2>1. refundedRows(p)' = refundedRows(p)
    BY <1>3 DEF refundedRows, refundsOf
  <2>2. sum(paymentOutbox'[p]) = sum(paymentOutbox[p])
    BY <1>1, <1>3, OtherEvent
  <2>3. QED
    BY <1>1, <1>2, <2>1, <2>2
<1>4. ASSUME NEW q \in Payments, CreatePayment(q)
      PROVE  <1>3!1
  <2>1. CASE UNCHANGED <<refundRow, paymentOutbox>>
    BY <2>1
  <2>2. CASE RecordCharge(q)
    <3> DEFINE type == IF create[q].outcome = "CAPTURED" THEN "PAYMENT_COMPLETED"
                       ELSE "PAYMENT_INITIATED"
    <3>1. /\ UNCHANGED refundRow
          /\ paymentOutbox' = [paymentOutbox EXCEPT ![q] = Append(@, event(type, create[q].body.amount))]
      BY <2>2 DEF RecordCharge
    <3>2. type \in {"PAYMENT_COMPLETED", "PAYMENT_INITIATED", "PAYMENT_FAILED"}
      OBVIOUS
    <3> HIDE DEF type
    <3>3. QED
      BY <1>1, <3>1, <3>2
  <2>3. CASE publishPaymentFailed(q)
    BY <1>1, <2>3 DEF publishPaymentFailed
  <2>4. QED
    BY <1>4, <2>1, <2>2, <2>3 DEF CreatePayment, LookUpPaymentKey, Charge, RecordFailure, RecordRefused
<1>5. ASSUME NEW c \in Captures, Capture(c)
      PROVE  <1>3!1
  <2>1. CASE ReadForCapture(c)
    BY <2>1 DEF ReadForCapture
  <2>2. CASE CommitCapture(c)
    <3>1. capture[c].payment \in Payments
      BY <2>2, CaptureWrites
    <3>2. paymentOutbox' = [paymentOutbox EXCEPT ![capture[c].payment] =
                        Append(@, event("PAYMENT_COMPLETED", capture[c].amount))]
      BY <2>2 DEF CommitCapture
    <3>3. UNCHANGED refundRow
      BY <2>2 DEF CommitCapture
    <3>4. QED
      BY <1>1, <3>1, <3>2, <3>3
  <2>3. QED
    BY <1>5, <2>1, <2>2 DEF Capture
<1>6. ASSUME NEW f \in Refunds, Refund(f)
      PROVE  refundsAnnounced(p)' = refundedRows(p)'
  <2>1. CASE CommitRefund(f)
    <3> DEFINE q == refund[f].payment
               n == refund[f].body.amount
    <3>1. q \in Payments /\ n \in Nat
      BY <2>1, RefundWrites
    <3>2. \A s \in Seq(PaymentEvent) : s \o refundEvents(f) = Append(s, event("PAYMENT_REFUNDED", n))
      <4>1. event("PAYMENT_REFUNDED", n) \in PaymentEvent
        BY <3>1 DEF event, PaymentEvent
      <4>2. QED
        BY <4>1 DEF refundEvents
    <3>3. paymentOutbox' = [paymentOutbox EXCEPT ![q] = @ \o refundEvents(f)]
      BY <2>1 DEF CommitRefund
    <3>4. CASE p = q
      <4>1. paymentOutbox'[p] = Append(paymentOutbox[p], event("PAYMENT_REFUNDED", n))
        BY <1>1, <3>1, <3>2, <3>3, <3>4
      <4>2. sum(paymentOutbox'[p]) = sum(paymentOutbox[p]) + n
        BY <1>1, <3>1, <4>1, RefundEvent, OneMoreAdds
      <4>3. refundedRows(p)' = refundedRows(p) + n
        BY <2>1, <3>4, RowsStep
      <4>4. QED
        BY <1>1, <1>2, <4>2, <4>3
    <3>5. CASE p # q
      <4>1. paymentOutbox'[p] = paymentOutbox[p]
        BY <1>1, <3>1, <3>3, <3>5
      <4>2. refundedRows(p)' = refundedRows(p)
        BY <2>1, <3>5, RowsStep
      <4>3. QED
        BY <1>1, <1>2, <4>1, <4>2
    <3>6. QED
      BY <3>4, <3>5
  <2>2. CASE UNCHANGED <<refundRow, paymentOutbox>>
    BY <1>3, <2>2
  <2>3. QED
    BY <1>6, <2>1, <2>2 DEF Refund, LookUpRefundKey, AssessRefund, ReturnMoney, RefundRefused
<1>7. CASE UNCHANGED paymentVars
  BY <1>3, <1>7 DEF paymentVars
<1>8. QED
  BY <1>3, <1>4, <1>5, <1>6, <1>7 DEF PaymentNext

(* Only payments that exist are refunded.                                  *)
LEMMA RefundedStep ==
    ASSUME Inv, [PaymentNext]_paymentVars
    PROVE  RefundsHavePayment'
<1> SUFFICES ASSUME NEW f \in Refunds, refundRow'[f] # NoRow
             PROVE  payment'[refundRow'[f].payment] # NoRow
  BY DEF RefundsHavePayment, exists
<1>1. PaymentTypeOK /\ RefundsHavePayment
  BY DEF Inv
<1>2. \A p \in Payments : exists(p) => payment'[p] # NoRow
  BY RowsPersist
<1>3. CASE refundRow'[f] = refundRow[f]
  <2>1. exists(refundRow[f].payment)
    BY <1>1, <1>3 DEF RefundsHavePayment
  <2>2. refundRow[f].payment \in Payments
    BY <1>1, <1>3 DEF PaymentTypeOK, RefundRow
  <2>3. QED
    BY <1>2, <1>3, <2>1, <2>2
<1>4. ASSUME NEW g \in Refunds, CommitRefund(g)
      PROVE  payment'[refundRow'[f].payment] # NoRow
  <2>1. CASE f = g
    BY <1>2, <1>4, <2>1, RefundWrites, RefundAdds
  <2>2. CASE f # g
    BY <1>3, <1>4, <2>2, RefundAdds
  <2>3. QED
    BY <2>1, <2>2
<1>5. QED
  BY <1>1, <1>3, <1>4, StepShape DEF Inserts, CommitCapture

-----------------------------------------------------------------------------
(* Payments whose handlers do not overlap. *)

(* The statuses a capture may start from.                                  *)
LEMMA CompletesFrom ==
    ASSUME NEW status \in PaymentStatus, canTransitionPayment(status, "COMPLETED")
    PROVE  status \in {"PENDING", "AUTHORIZED"}
BY DEF canTransitionPayment, PAYMENT_TRANSITIONS, PaymentStatus

(* A new row shows what the gateway took, and no refund.                   *)
LEMMA NewRowFits ==
    ASSUME Inv, NEW p \in Payments, Inserts(p)
    PROVE  /\ AmountsFit(payment'[p]) /\ payment'[p].refunded = 0
           /\ refundedRows(p)' = 0
<1> DEFINE amount == create[p].body.amount
           captured == IF create[p].outcome = "CAPTURED" THEN amount ELSE 0
           row == created(p, captured)
<1>1. /\ payment'[p] = row /\ create[p].outcome \in ChargeOutcome /\ amount \in Nat \ {0}
      /\ ~ exists(p) /\ UNCHANGED refundRow
  BY InsertedExists DEF Inv, Inserts, RowsAreWritten
<1>2. /\ row.captured = captured /\ row.refunded = 0 /\ row.amount = amount
      /\ row.status = statusAfter(create[p].outcome)
  BY DEF created
<1>3. \/ row.status = "COMPLETED" /\ captured = amount
      \/ row.status \in {"AUTHORIZED", "FAILED"} /\ captured = 0
  BY <1>1, <1>2 DEF statusAfter, ChargeOutcome
<1>4. AmountsFit(row)
  <2> HIDE DEF row, captured, amount
  <2>1. QED
    BY <1>1, <1>2, <1>3 DEF AmountsFit
<1>5. refundsOf(p)' = {}
  BY <1>1 DEF Inv, RefundsHavePayment, refundsOf
<1>6. refundedRows(p)' = 0
  BY <1>5, SumFunctionOfNone DEF refundedRows
<1>7. QED
  BY <1>1, <1>2, <1>4, <1>6

(* A capture that still finds what it read leaves a completed payment.     *)
LEMMA CapturedRowFits ==
    ASSUME Inv, NEW c \in Captures, CommitCapture(c), capture[c].payment \in Queued
    PROVE  /\ AmountsFit(payment'[capture[c].payment])
           /\ payment[capture[c].payment].captured = 0
           /\ payment'[capture[c].payment].refunded = payment[capture[c].payment].refunded
           /\ payment'[capture[c].payment].captured = capture[c].amount
<1> DEFINE p == capture[c].payment
           old == payment[p]
           new == payment'[p]
<1>1. /\ settling(c) /\ p \in Payments /\ exists(p) /\ capture[c].amount \in Nat
      /\ new = [old EXCEPT !.status = "COMPLETED", !.captured = capture[c].amount]
  BY CaptureWrites
<1>2. old \in PaymentRow /\ old.refunded \in Nat /\ old.captured \in Nat /\ old.amount \in Nat
  BY <1>1, RowFacts DEF Inv
<1>3. /\ new.status = "COMPLETED" /\ new.captured = capture[c].amount
      /\ new.refunded = old.refunded /\ new.amount = old.amount
  BY <1>1, <1>2 DEF PaymentRow
<1>4. old.status = "AUTHORIZED" /\ capture[c].amount <= old.amount
  BY <1>1 DEF Inv, QueuedHandlers, captureHolds
<1>5. AmountsFit(old)
  BY <1>1 DEF Inv, QueuedRows
<1>6. old.captured = 0 /\ old.refunded = 0
  <2> HIDE DEF old
  <2>1. QED
    BY <1>2, <1>4, <1>5 DEF AmountsFit
<1>7. AmountsFit(new)
  <2> HIDE DEF old, new, p
  <2>1. QED
    BY <1>1, <1>2, <1>3, <1>4, <1>6 DEF AmountsFit
<1>8. QED
  BY <1>3, <1>6, <1>7

(* A refund that still finds what it read leaves a payment whose status    *)
(* says whether anything is left.                                          *)
LEMMA RefundedRowFits ==
    ASSUME Inv, NEW f \in Refunds, CommitRefund(f), refund[f].payment \in Queued
    PROVE  /\ AmountsFit(payment'[refund[f].payment])
           /\ payment'[refund[f].payment].refunded
              = payment[refund[f].payment].refunded + refund[f].body.amount
           /\ payment'[refund[f].payment].captured = payment[refund[f].payment].captured
           /\ payment[refund[f].payment].refunded + refund[f].body.amount
              <= payment[refund[f].payment].captured
<1> DEFINE p == refund[f].payment
           n == refund[f].body.amount
           old == payment[p]
           new == payment'[p]
<1>1. /\ returning(f) /\ p \in Payments /\ exists(p) /\ n \in Nat \ {0}
      /\ new = [old EXCEPT !.refunded = refund[f].total, !.status = refund[f].status]
  BY RefundWrites
<1>2. old \in PaymentRow /\ old.refunded \in Nat /\ old.captured \in Nat /\ old.amount \in Nat
  BY <1>1, RowFacts DEF Inv
<1>3. /\ new.status = refund[f].status /\ new.refunded = refund[f].total
      /\ new.captured = old.captured /\ new.amount = old.amount
  BY <1>1, <1>2 DEF PaymentRow
<1>4. /\ refund[f].total = old.refunded + n /\ refund[f].total <= old.captured
      /\ refund[f].status = nextStatus(old, n)
  BY <1>1 DEF Inv, QueuedHandlers, refundHolds
<1>5. AmountsFit(old)
  BY <1>1 DEF Inv, QueuedRows
<1>6. AmountsFit(new)
  <2> HIDE DEF old, new, p, n
  <2>1. QED
    BY <1>1, <1>2, <1>3, <1>4, <1>5 DEF AmountsFit, nextStatus
<1>7. QED
  BY <1>3, <1>4, <1>6

(* So the columns of a queued payment always agree.                        *)
LEMMA QueuedRowsStep ==
    ASSUME Inv, [PaymentNext]_paymentVars
    PROVE  QueuedRows'
<1> SUFFICES ASSUME NEW p \in Queued, payment'[p] # NoRow
             PROVE  payment'[p].refunded = refundedRows(p)' /\ AmountsFit(payment'[p])
  BY DEF QueuedRows, exists, AmountsFit
<1>1. PaymentTypeOK /\ p \in Payments /\ QueuedRows
  BY ChargesAssumption DEF Inv
<1>2. CASE UNCHANGED refundRow /\ payment'[p] = payment[p]
  <2>1. refundedRows(p)' = refundedRows(p)
    BY <1>2 DEF refundedRows, refundsOf
  <2>2. QED
    BY <1>1, <1>2, <2>1 DEF QueuedRows, exists
<1>3. ASSUME NEW q \in Payments, Inserts(q)
      PROVE  payment'[p].refunded = refundedRows(p)' /\ AmountsFit(payment'[p])
  <2>1. CASE q = p
    BY <1>3, <2>1, NewRowFits
  <2>2. CASE q # p
    BY <1>1, <1>2, <1>3, <2>2, InsertedExists DEF Inserts
  <2>3. QED
    BY <2>1, <2>2
<1>4. ASSUME NEW c \in Captures, CommitCapture(c)
      PROVE  payment'[p].refunded = refundedRows(p)' /\ AmountsFit(payment'[p])
  <2>1. UNCHANGED refundRow /\ refundedRows(p)' = refundedRows(p)
    BY <1>4 DEF CommitCapture, refundedRows, refundsOf
  <2>2. CASE capture[c].payment = p
    <3>1. payment'[p].refunded = payment[p].refunded /\ AmountsFit(payment'[p])
      BY <1>4, <2>2, CapturedRowFits
    <3>2. exists(p)
      BY <1>4, <2>2, CaptureWrites
    <3>3. QED
      BY <1>1, <2>1, <3>1, <3>2 DEF QueuedRows
  <2>3. CASE capture[c].payment # p
    BY <1>1, <1>2, <1>4, <2>1, <2>3, CaptureWrites
  <2>4. QED
    BY <2>2, <2>3
<1>5. ASSUME NEW f \in Refunds, CommitRefund(f)
      PROVE  payment'[p].refunded = refundedRows(p)' /\ AmountsFit(payment'[p])
  <2>1. CASE refund[f].payment = p
    <3>1. /\ payment'[p].refunded = payment[p].refunded + refund[f].body.amount
          /\ AmountsFit(payment'[p])
      BY <1>5, <2>1, RefundedRowFits
    <3>2. exists(p)
      BY <1>5, <2>1, RefundWrites
    <3>3. refundedRows(p)' = refundedRows(p) + refund[f].body.amount
      BY <1>1, <1>5, <2>1, RowsStep
    <3>4. payment[p].refunded = refundedRows(p)
      BY <1>1, <3>2 DEF QueuedRows
    <3>5. QED
      BY <3>1, <3>3, <3>4
  <2>2. CASE refund[f].payment # p
    <3>1. payment'[p] = payment[p]
      BY <1>1, <1>5, <2>2, RefundWrites
    <3>2. refundedRows(p)' = refundedRows(p)
      BY <1>1, <1>5, <2>2, RowsStep
    <3>3. QED
      BY <1>1, <3>1, <3>2 DEF QueuedRows, exists
  <2>3. QED
    BY <2>1, <2>2
<1>6. QED
  BY <1>1, <1>2, <1>3, <1>4, <1>5, StepShape

(* Handlers that keep their place and their payment's row still hold.      *)
kept(C, F) ==
    /\ \A c \in Captures \ C : settling(c)' =>
          /\ capture'[c] = capture[c] /\ settling(c)
          /\ payment'[capture[c].payment] = payment[capture[c].payment]
    /\ \A f \in Refunds \ F : returning(f)' =>
          /\ returning(f) /\ refund'[f].payment = refund[f].payment
          /\ refund'[f].body = refund[f].body /\ refund'[f].total = refund[f].total
          /\ refund'[f].status = refund[f].status
          /\ payment'[refund[f].payment] = payment[refund[f].payment]

(* Where every handler is kept or gone, what they have read holds.         *)
LEMMA KeptHolds ==
    ASSUME Inv, kept({}, {})
    PROVE  QueuedHandlers'
<1>1. QueuedHandlers
  BY DEF Inv
<1>2. ASSUME NEW c \in Captures, settling(c)', capture'[c].payment \in Queued
      PROVE  /\ captureHolds(c)'
             /\ \A d \in Captures :
                   settling(d)' /\ capture'[d].payment = capture'[c].payment => d = c
  <2>1. /\ settling(c) /\ capture'[c] = capture[c]
        /\ payment'[capture[c].payment] = payment[capture[c].payment]
    BY <1>2 DEF kept
  <2>2. captureHolds(c)
    BY <1>1, <1>2, <2>1 DEF QueuedHandlers
  <2>3. captureHolds(c)'
    BY <2>1, <2>2 DEF captureHolds
  <2>4. \A d \in Captures :
           settling(d)' /\ capture'[d].payment = capture'[c].payment => d = c
    BY <1>1, <1>2, <2>1 DEF kept, QueuedHandlers
  <2>5. QED
    BY <2>3, <2>4
<1>3. ASSUME NEW f \in Refunds, returning(f)', refund'[f].payment \in Queued
      PROVE  /\ refundHolds(f)'
             /\ \A g \in Refunds :
                   returning(g)' /\ refund'[g].payment = refund'[f].payment => g = f
  <2>1. /\ returning(f) /\ refund'[f].payment = refund[f].payment
        /\ refund'[f].body = refund[f].body /\ refund'[f].total = refund[f].total
        /\ refund'[f].status = refund[f].status
        /\ payment'[refund[f].payment] = payment[refund[f].payment]
    BY <1>3 DEF kept
  <2>2. refundHolds(f)
    BY <1>1, <1>3, <2>1 DEF QueuedHandlers
  <2>3. refundHolds(f)'
    BY <2>1, <2>2 DEF refundHolds
  <2>4. \A g \in Refunds :
           returning(g)' /\ refund'[g].payment = refund'[f].payment => g = f
    BY <1>1, <1>3, <2>1 DEF kept, QueuedHandlers
  <2>5. QED
    BY <2>3, <2>4
<1>4. QED
  BY <1>2, <1>3 DEF QueuedHandlers

(* create writes no row that a handler has read.                           *)
LEMMA CreateKeeps ==
    ASSUME Inv, NEW p \in Payments, CreatePayment(p)
    PROVE  kept({}, {})
<1>1. PaymentTypeOK /\ HandlersFindRow /\ RowsAreWritten
  BY DEF Inv
<1>2. UNCHANGED <<capture, refund>>
  BY DEF CreatePayment, LookUpPaymentKey, Charge, RecordCharge, RecordFailure, publishPaymentFailed,
         RecordRefused
<1>3. ASSUME NEW q \in Payments, exists(q) PROVE payment'[q] = payment[q]
  <2>1. CASE Inserts(p)
    BY <1>1, <1>3, <2>1, InsertedExists DEF Inserts, RowsAreWritten
  <2>2. CASE UNCHANGED payment
    BY <2>2
  <2>3. Inserts(p) \/ UNCHANGED payment
    BY <1>1, InsertShape DEF CreatePayment, LookUpPaymentKey, Charge, publishPaymentFailed, RecordRefused
  <2>4. QED
    BY <2>1, <2>2, <2>3
<1>4. \A c \in Captures : settling(c) =>
         capture[c].payment \in Payments /\ exists(capture[c].payment)
  BY <1>1, CaptureFacts DEF HandlersFindRow
<1>5. \A f \in Refunds : returning(f) =>
         refund[f].payment \in Payments /\ exists(refund[f].payment)
  BY <1>1, RefundFacts DEF HandlersFindRow, returning
<1>6. QED
  BY <1>2, <1>3, <1>4, <1>5 DEF kept, settling, returning

(* A capture that passes its checks is the only handler of its payment.    *)
LEMMA ReadKeeps ==
    ASSUME Inv, NEW c \in Captures, ReadForCapture(c)
    PROVE  QueuedHandlers'
<1>1. PaymentTypeOK /\ QueuedHandlers /\ capture \in [Captures -> CaptureState]
  BY DEF Inv, PaymentTypeOK
<1>2. PICK p \in Payments, asked \in CaptureAmounts :
          /\ mayRead(p)
          /\ capture' = [capture EXCEPT ![c] =
               CASE ~ exists(p) -> [pc |-> "NOT_FOUND"]
                 [] exists(p) /\ ~ canTransitionPayment(payment[p].status, "COMPLETED") ->
                        [pc |-> "CONFLICT"]
                 [] exists(p) /\ canTransitionPayment(payment[p].status, "COMPLETED")
                      /\ captureMinor(asked, payment[p]) > payment[p].amount ->
                        [pc |-> "VALIDATION"]
                 [] OTHER -> [pc |-> "SETTLE", payment |-> p,
                              amount |-> captureMinor(asked, payment[p])]]
  BY DEF ReadForCapture
<1>3. UNCHANGED <<refund, payment>> /\ \A d \in Captures : d # c => capture'[d] = capture[d]
  BY <1>1 DEF ReadForCapture
<1>4. kept({c}, {})
  BY <1>3 DEF kept, settling, returning
<1>5. CASE ~ settling(c)'
  <2>1. kept({}, {})
    BY <1>4, <1>5 DEF kept
  <2>2. QED
    BY <2>1, KeptHolds
<1>6. CASE settling(c)'
  <2> DEFINE row == payment[p]
             amount == captureMinor(asked, row)
  <2>1. /\ exists(p) /\ canTransitionPayment(row.status, "COMPLETED") /\ ~ (amount > row.amount)
        /\ capture'[c].payment = p /\ capture'[c].amount = amount
    <3> HIDE DEF amount, row
    <3>1. capture'[c] = CASE ~ exists(p) -> [pc |-> "NOT_FOUND"]
                 [] exists(p) /\ ~ canTransitionPayment(row.status, "COMPLETED") ->
                        [pc |-> "CONFLICT"]
                 [] exists(p) /\ canTransitionPayment(row.status, "COMPLETED")
                      /\ amount > row.amount ->
                        [pc |-> "VALIDATION"]
                 [] OTHER -> [pc |-> "SETTLE", payment |-> p, amount |-> amount]
      BY <1>1, <1>2 DEF amount, row
    <3>2. QED
      BY <1>6, <3>1 DEF settling, exists, canTransitionPayment
  <2>2. /\ row.amount \in Nat \ {0} /\ row.status \in PaymentStatus /\ asked \in Nat
    BY <1>1, <2>1, RowFacts, ChargesAssumption DEF Inv, AmountsAreAsked
  <2>3. amount \in Nat /\ amount <= row.amount
        /\ amount \in (CaptureAmounts \ {0}) \cup {row.amount}
    <3> HIDE DEF row
    <3>1. QED
      BY <2>1, <2>2 DEF captureMinor
  <2>4. CASE p \notin Queued
    <3>1. \A d \in Captures : settling(d)' /\ capture'[d].payment \in Queued =>
             d # c /\ settling(d) /\ capture'[d] = capture[d]
      BY <1>3, <2>1, <2>4 DEF settling
    <3>2. QED
      BY <1>1, <1>3, <3>1 DEF QueuedHandlers, settling, returning, captureHolds, refundHolds
  <2>5. CASE p \in Queued
    <3>1. row.status = "AUTHORIZED"
      <4>1. row.status \in {"PENDING", "AUTHORIZED"}
        BY <2>1, <2>2, CompletesFrom
      <4>2. row.status # "PENDING"
        BY <2>1, <2>5 DEF Inv, QueuedRows, AmountsFit
      <4>3. QED
        BY <4>1, <4>2
    <3>2. captureHolds(c)'
      BY <1>3, <2>1, <2>3, <3>1 DEF captureHolds
    <3>3. \A d \in Captures : ~ (settling(d) /\ capture[d].payment = p)
      BY <1>2, <2>5 DEF mayRead, busy, settling
    <3>4. ASSUME NEW d \in Captures, settling(d)', capture'[d].payment \in Queued, d # c
          PROVE  /\ captureHolds(d)'
                 /\ \A e \in Captures :
                       settling(e)' /\ capture'[e].payment = capture'[d].payment => e = d
      <4>1. settling(d) /\ capture'[d] = capture[d] /\ UNCHANGED payment
        BY <1>3, <3>4 DEF settling
      <4>2. captureHolds(d)'
        BY <1>1, <3>4, <4>1 DEF QueuedHandlers, captureHolds
      <4>3. capture'[d].payment # p
        BY <3>3, <4>1
      <4>4. QED
        BY <1>1, <1>3, <2>1, <3>4, <4>1, <4>2, <4>3 DEF QueuedHandlers, settling
    <3>5. \A e \in Captures : settling(e)' /\ capture'[e].payment = capture'[c].payment => e = c
      BY <1>3, <2>1, <3>3 DEF settling
    <3>6. \A f \in Refunds : returning(f)' /\ refund'[f].payment \in Queued =>
             /\ refundHolds(f)'
             /\ \A g \in Refunds :
                   returning(g)' /\ refund'[g].payment = refund'[f].payment => g = f
      BY <1>1, <1>3 DEF QueuedHandlers, returning, refundHolds
    <3>7. QED
      BY <3>2, <3>4, <3>5, <3>6 DEF QueuedHandlers
  <2>6. QED
    BY <2>4, <2>5
<1>7. QED
  BY <1>5, <1>6

(* A capture that commits is the last handler of its payment to hold what  *)
(* it has read, if handlers do not overlap.                                *)
LEMMA CaptureKeeps ==
    ASSUME Inv, NEW c \in Captures, CommitCapture(c)
    PROVE  QueuedHandlers'
<1> DEFINE p == capture[c].payment
<1>1. PaymentTypeOK /\ QueuedHandlers /\ capture \in [Captures -> CaptureState]
  BY DEF Inv, PaymentTypeOK
<1>2. settling(c) /\ \A q \in Payments \ {p} : payment'[q] = payment[q]
  BY CaptureWrites
<1>3. /\ UNCHANGED refund /\ ~ settling(c)'
      /\ \A d \in Captures : d # c => capture'[d] = capture[d]
  BY <1>1 DEF CommitCapture, settling
<1>4. ASSUME NEW d \in Captures, settling(d)', capture'[d].payment \in Queued
      PROVE  /\ captureHolds(d)'
             /\ \A e \in Captures :
                   settling(e)' /\ capture'[e].payment = capture'[d].payment => e = d
  <2>1. d # c /\ capture'[d] = capture[d] /\ settling(d) /\ capture[d].payment \in Payments
    BY <1>1, <1>3, <1>4, CaptureFacts DEF settling
  <2>2. capture[d].payment # p
    BY <1>1, <1>2, <1>4, <2>1 DEF QueuedHandlers
  <2>3. payment'[capture[d].payment] = payment[capture[d].payment]
    BY <1>2, <2>1, <2>2
  <2>4. captureHolds(d)'
    BY <1>1, <1>4, <2>1, <2>3 DEF QueuedHandlers, captureHolds
  <2>5. QED
    BY <1>1, <1>3, <1>4, <2>1, <2>4 DEF QueuedHandlers, settling
<1>5. ASSUME NEW f \in Refunds, returning(f)', refund'[f].payment \in Queued
      PROVE  /\ refundHolds(f)'
             /\ \A g \in Refunds :
                   returning(g)' /\ refund'[g].payment = refund'[f].payment => g = f
  <2>1. returning(f) /\ refund[f].payment \in Queued /\ refund[f].payment \in Payments
    BY <1>1, <1>3, <1>5, RefundFacts DEF returning
  <2>2. refund[f].payment # p
    <3>1. payment[refund[f].payment].status \in REFUNDABLE_STATUSES
      BY <1>1, <2>1 DEF QueuedHandlers, refundHolds
    <3>2. p \in Queued => payment[p].status = "AUTHORIZED"
      BY <1>1, <1>2 DEF QueuedHandlers, captureHolds
    <3>3. QED
      BY <2>1, <3>1, <3>2 DEF REFUNDABLE_STATUSES
  <2>3. payment'[refund[f].payment] = payment[refund[f].payment]
    BY <1>2, <2>1, <2>2
  <2>4. refundHolds(f)'
    BY <1>1, <1>3, <2>1, <2>3 DEF QueuedHandlers, refundHolds
  <2>5. QED
    BY <1>1, <1>3, <2>1, <2>4 DEF QueuedHandlers, returning
<1>6. QED
  BY <1>4, <1>5 DEF QueuedHandlers

(* A refund that passes its checks is the only handler of its payment.     *)
LEMMA AssessKeeps ==
    ASSUME Inv, NEW f \in Refunds, AssessRefund(f)
    PROVE  QueuedHandlers'
<1> DEFINE p == refund[f].payment
           d == refund[f].body
           row == payment[p]
           problem == refundProblem(row, d.amount)
<1>1. PaymentTypeOK /\ QueuedHandlers /\ refund \in [Refunds -> RefundState]
  BY DEF Inv, PaymentTypeOK
<1>2. UNCHANGED <<capture, payment>> /\ \A g \in Refunds : g # f => refund'[g] = refund[g]
  BY <1>1 DEF AssessRefund
<1>3. /\ mayRead(p) /\ p \in Payments /\ d \in RefundBodies
      /\ refund'[f] = IF problem # "OK" THEN [pc |-> problem]
                      ELSE [pc |-> "RETURN", body |-> d, payment |-> p,
                            total |-> row.refunded + d.amount,
                            status |-> nextStatus(row, d.amount)]
  BY <1>1, RefundFacts DEF AssessRefund
<1>4. CASE ~ returning(f)'
  <2>1. kept({}, {})
    BY <1>2, <1>4 DEF kept, settling, returning
  <2>2. QED
    BY <2>1, KeptHolds
<1>5. CASE returning(f)'
  <2>1. problem = "OK"
    <3>1. problem \in {"NOT_FOUND", "CONFLICT", "REFUND_EXCEEDS_CAPTURE", "OK"}
      BY DEF refundProblem
    <3> HIDE DEF problem
    <3>2. QED
      BY <1>3, <1>5, <3>1 DEF returning
  <2>2. /\ refund'[f].payment = p /\ refund'[f].body = d
        /\ refund'[f].total = row.refunded + d.amount
        /\ refund'[f].status = nextStatus(row, d.amount)
    <3> HIDE DEF problem, p, d, row
    <3>1. QED
      BY <1>3, <2>1
  <2>3. /\ exists(p) /\ row.status \in REFUNDABLE_STATUSES /\ ~ (d.amount > refundableAmount(row))
    BY <2>1 DEF refundProblem, exists
  <2>4. row.refunded \in Nat /\ row.captured \in Nat /\ d.amount \in Nat \ {0}
    BY <1>1, <1>3, <2>3, RowFacts, ChargesAssumption
  <2>5. row.refunded + d.amount <= row.captured
    <3> HIDE DEF row, d
    <3>1. QED
      BY <2>3, <2>4 DEF refundableAmount
  <2>6. refundHolds(f)'
    <3>1. /\ refund'[f].total <= row.captured /\ payment'[refund'[f].payment] = row
          /\ refund'[f].body.amount = d.amount
      BY <1>2, <2>2, <2>5
    <3> HIDE DEF row, d, problem
    <3>2. QED
      BY <2>2, <2>3, <3>1 DEF refundHolds
  <2>7. p \in Queued => /\ \A c \in Captures : ~ (settling(c) /\ capture[c].payment = p)
                        /\ \A g \in Refunds : ~ (returning(g) /\ refund[g].payment = p)
    BY <1>3 DEF mayRead, busy, settling, returning
  <2>8. ASSUME NEW c \in Captures, settling(c)', capture'[c].payment \in Queued
        PROVE  /\ captureHolds(c)'
               /\ \A e \in Captures :
                     settling(e)' /\ capture'[e].payment = capture'[c].payment => e = c
    BY <1>1, <1>2, <2>8 DEF QueuedHandlers, captureHolds, settling
  <2>9. ASSUME NEW g \in Refunds, returning(g)', refund'[g].payment \in Queued
        PROVE  /\ refundHolds(g)'
               /\ \A h \in Refunds :
                     returning(h)' /\ refund'[h].payment = refund'[g].payment => h = g
    <3>1. CASE g = f
      <4>1. p \in Queued
        BY <2>2, <2>9, <3>1
      <4>2. \A h \in Refunds : returning(h)' /\ refund'[h].payment = refund'[f].payment => h = f
        BY <1>2, <2>2, <2>7, <4>1 DEF returning
      <4>3. QED
        BY <2>6, <3>1, <4>2
    <3>2. CASE g # f
      <4>1. returning(g) /\ refund'[g] = refund[g] /\ UNCHANGED payment
        BY <1>2, <2>9, <3>2 DEF returning
      <4>2. refundHolds(g)'
        BY <1>1, <2>9, <4>1 DEF QueuedHandlers, refundHolds
      <4>3. refund'[g].payment # p
        BY <2>7, <2>9, <4>1
      <4>4. \A h \in Refunds : returning(h)' /\ refund'[h].payment = refund'[g].payment => h = g
        BY <1>1, <1>2, <2>2, <2>9, <4>1, <4>3 DEF QueuedHandlers, returning
      <4>5. QED
        BY <4>2, <4>4
    <3>3. QED
      BY <3>1, <3>2
  <2>10. QED
    BY <2>8, <2>9 DEF QueuedHandlers
<1>6. QED
  BY <1>4, <1>5

(* A refund that commits leaves no other handler of its payment behind.    *)
LEMMA RefundKeeps ==
    ASSUME Inv, NEW f \in Refunds, CommitRefund(f)
    PROVE  QueuedHandlers'
<1> DEFINE p == refund[f].payment
<1>1. PaymentTypeOK /\ QueuedHandlers /\ refund \in [Refunds -> RefundState]
  BY DEF Inv, PaymentTypeOK
<1>2. returning(f) /\ \A q \in Payments \ {p} : payment'[q] = payment[q]
  BY RefundWrites
<1>3. /\ UNCHANGED capture /\ ~ returning(f)'
      /\ \A g \in Refunds : g # f => refund'[g] = refund[g]
  BY <1>1 DEF CommitRefund, returning
<1>4. ASSUME NEW c \in Captures, settling(c)', capture'[c].payment \in Queued
      PROVE  /\ captureHolds(c)'
             /\ \A e \in Captures :
                   settling(e)' /\ capture'[e].payment = capture'[c].payment => e = c
  <2>1. settling(c) /\ capture[c].payment \in Queued /\ capture[c].payment \in Payments
    BY <1>1, <1>3, <1>4, CaptureFacts DEF settling
  <2>2. capture[c].payment # p
    <3>1. payment[capture[c].payment].status = "AUTHORIZED"
      BY <1>1, <2>1 DEF QueuedHandlers, captureHolds
    <3>2. p \in Queued => payment[p].status \in REFUNDABLE_STATUSES
      BY <1>1, <1>2 DEF QueuedHandlers, refundHolds
    <3>3. QED
      BY <2>1, <3>1, <3>2 DEF REFUNDABLE_STATUSES
  <2>3. payment'[capture[c].payment] = payment[capture[c].payment]
    BY <1>2, <2>1, <2>2
  <2>4. captureHolds(c)'
    BY <1>1, <1>3, <2>1, <2>3 DEF QueuedHandlers, captureHolds
  <2>5. QED
    BY <1>1, <1>3, <2>1, <2>4 DEF QueuedHandlers, settling
<1>5. ASSUME NEW g \in Refunds, returning(g)', refund'[g].payment \in Queued
      PROVE  /\ refundHolds(g)'
             /\ \A h \in Refunds :
                   returning(h)' /\ refund'[h].payment = refund'[g].payment => h = g
  <2>1. g # f /\ refund'[g] = refund[g] /\ returning(g) /\ refund[g].payment \in Payments
    BY <1>1, <1>3, <1>5, RefundFacts DEF returning
  <2>2. refund[g].payment # p
    BY <1>1, <1>2, <1>5, <2>1 DEF QueuedHandlers
  <2>3. payment'[refund[g].payment] = payment[refund[g].payment]
    BY <1>2, <2>1, <2>2
  <2>4. refundHolds(g)'
    BY <1>1, <1>5, <2>1, <2>3 DEF QueuedHandlers, refundHolds
  <2>5. QED
    BY <1>1, <1>3, <1>5, <2>1, <2>4 DEF QueuedHandlers, returning
<1>6. QED
  BY <1>4, <1>5 DEF QueuedHandlers

(* What the handler of a queued payment has read holds until it writes.    *)
LEMMA QueuedHandlersStep ==
    ASSUME Inv, [PaymentNext]_paymentVars
    PROVE  QueuedHandlers'
<1>1. ASSUME NEW p \in Payments, CreatePayment(p) PROVE QueuedHandlers'
  BY <1>1, CreateKeeps, KeptHolds
<1>2. ASSUME NEW c \in Captures, Capture(c) PROVE QueuedHandlers'
  BY <1>2, ReadKeeps, CaptureKeeps DEF Capture
<1>3. ASSUME NEW f \in Refunds, Refund(f) PROVE QueuedHandlers'
  <2>1. CASE AssessRefund(f) \/ CommitRefund(f)
    BY <2>1, AssessKeeps, RefundKeeps
  <2>2. CASE LookUpRefundKey(f) \/ ReturnMoney(f) \/ RefundRefused(f)
    <3>1. refund \in [Refunds -> RefundState]
      BY DEF Inv, PaymentTypeOK
    <3>2. /\ UNCHANGED <<capture, payment>>
          /\ \A g \in Refunds : g # f => refund'[g] = refund[g]
      BY <2>2, <3>1 DEF LookUpRefundKey, ReturnMoney, RefundRefused
    <3>3. returning(f)' =>
             /\ returning(f) /\ refund'[f].payment = refund[f].payment
             /\ refund'[f].body = refund[f].body /\ refund'[f].total = refund[f].total
             /\ refund'[f].status = refund[f].status
      BY <2>2, <3>1 DEF LookUpRefundKey, ReturnMoney, RefundRefused, returning
    <3>4. kept({}, {})
      BY <3>2, <3>3 DEF kept, settling, returning
    <3>5. QED
      BY <3>4, KeptHolds
  <2>3. QED
    BY <1>3, <2>1, <2>2 DEF Refund
<1>4. CASE UNCHANGED paymentVars
  <2>1. kept({}, {})
    BY <1>4 DEF paymentVars, kept, settling, returning
  <2>2. QED
    BY <2>1, KeptHolds
<1>5. QED
  BY <1>1, <1>2, <1>3, <1>4 DEF PaymentNext

-----------------------------------------------------------------------------
(* The theorems. *)

(* The conjuncts carry one another through every step.                     *)
LEMMA InvStep == Inv /\ [PaymentNext]_paymentVars => Inv'
BY TypeStep, WrittenStep, FoundStep, KeysStep, FiniteStep, AgreeStep, QueuedRowsStep,
   QueuedHandlersStep, RefundedStep, AskedStep DEF Inv

(* So the invariant holds in every reachable state.                        *)
LEMMA Invariance == PaymentSpec => []Inv
BY InitInv, InvStep, PTL DEF PaymentSpec

(* A retry of a create or of a refund, even one that overlaps its first    *)
(* attempt, leaves one row per Idempotency-Key, for any number of requests,*)
(* keys and gateways.                                                      *)
THEOREM OneRowPerKeyHolds == PaymentSpec => []OneRowPerKey
<1>1. Inv => OneRowPerKey
  BY DEF Inv
<1>2. QED
  BY <1>1, Invariance, PTL

(* A queued row that fits has the amounts and status of the property.      *)
LEMMA FittingRows == Inv => StatusMatchesAmounts
BY DEF Inv, StatusMatchesAmounts, RefundsAgree, QueuedRows, AmountsFit

(* The columns keep their types and the money announced as refunded is the *)
(* sum of the refund rows, however handlers overlap; where they do not, the*)
(* status, the two amounts and the refund rows of a payment agree.         *)
THEOREM StatusMatchesAmountsHolds == PaymentSpec => []StatusMatchesAmounts
BY Invariance, FittingRows, PTL

-----------------------------------------------------------------------------
(* The ledger. *)

takenFrom(p) == IF exists(p) THEN payment[p].captured ELSE 0
returnedTo(p) == IF exists(p) THEN payment[p].refunded ELSE 0
amounts == {d.amount : d \in Charges} \cup {d.amount : d \in RefundBodies}
           \cup (CaptureAmounts \ {0})

(* A step that takes from a queued payment, or gives back, or does neither.*)
ledgerStep ==
    \/ \A p \in Queued : UNCHANGED <<takenFrom(p), returnedTo(p)>>
    \/ \E p \in Queued, n \in amounts :
          /\ \A q \in Queued : q # p => UNCHANGED <<takenFrom(q), returnedTo(q)>>
          /\ \/ takenFrom(p) = 0 /\ takenFrom(p)' = n /\ UNCHANGED returnedTo(p)
             \/ /\ returnedTo(p) + n <= takenFrom(p)
                /\ returnedTo(p)' = returnedTo(p) + n /\ UNCHANGED takenFrom(p)

(* Such a step is a step of the ledger.                                    *)
LEMMA LedgerMaps ==
    ASSUME ledgerStep
    PROVE  [Ledger!Next]_(Ledger!vars)
<1> DEFINE T == [p \in Queued |-> takenFrom(p)]
           R == [p \in Queued |-> returnedTo(p)]
<1>1. /\ T = [p \in Queued |-> IF exists(p) THEN payment[p].captured ELSE 0]
      /\ R = [p \in Queued |-> IF exists(p) THEN payment[p].refunded ELSE 0]
  BY DEF takenFrom, returnedTo
<1>2. CASE \A p \in Queued : UNCHANGED <<takenFrom(p), returnedTo(p)>>
  <2>1. T' = T /\ R' = R
    BY <1>2
  <2>2. QED
    BY <2>1 DEF Ledger!vars, takenFrom, returnedTo
<1>3. ASSUME NEW p \in Queued, NEW n \in amounts,
             \A q \in Queued : q # p => UNCHANGED <<takenFrom(q), returnedTo(q)>>,
             takenFrom(p) = 0 /\ takenFrom(p)' = n /\ UNCHANGED returnedTo(p)
      PROVE  Ledger!Take(p)
  <2>1. R' = R /\ T[p] = 0 /\ T' = [T EXCEPT ![p] = n]
    BY <1>3
  <2>2. QED
    BY <2>1 DEF Ledger!Take, takenFrom, returnedTo, amounts
<1>4. ASSUME NEW p \in Queued, NEW n \in amounts,
             \A q \in Queued : q # p => UNCHANGED <<takenFrom(q), returnedTo(q)>>,
             returnedTo(p) + n <= takenFrom(p),
             returnedTo(p)' = returnedTo(p) + n /\ UNCHANGED takenFrom(p)
      PROVE  Ledger!Return(p)
  <2>1. T' = T /\ R[p] + n <= T[p] /\ R' = [R EXCEPT ![p] = @ + n]
    BY <1>4
  <2>2. QED
    BY <2>1 DEF Ledger!Return, takenFrom, returnedTo, amounts
<1>5. QED
  BY <1>2, <1>3, <1>4 DEF ledgerStep, Ledger!Next

(* A charge takes, a capture takes, a refund returns, and nothing else     *)
(* touches the money of a queued payment.                                  *)
LEMMA StepsOfLedger ==
    ASSUME Inv, [PaymentNext]_paymentVars
    PROVE  ledgerStep
<1>0. PaymentTypeOK /\ Queued \subseteq Payments
  BY ChargesAssumption DEF Inv
<1>1. ASSUME NEW p \in Payments, payment'[p] = payment[p]
      PROVE  UNCHANGED <<takenFrom(p), returnedTo(p)>>
  BY <1>1 DEF takenFrom, returnedTo, exists
<1>2. ASSUME NEW p \in Payments, p \notin Queued,
             \A q \in Payments \ {p} : payment'[q] = payment[q]
      PROVE  ledgerStep
  BY <1>0, <1>1, <1>2 DEF ledgerStep
<1>3. ASSUME NEW p \in Payments, Inserts(p), p \in Queued PROVE ledgerStep
  <2> DEFINE n == create[p].body.amount
             captured == IF create[p].outcome = "CAPTURED" THEN n ELSE 0
  <2>1. /\ payment'[p] = created(p, captured) /\ payment'[p] # NoRow /\ ~ exists(p)
        /\ create[p].body \in Charges /\ \A q \in Payments : q # p => payment'[q] = payment[q]
    BY <1>0, <1>3, InsertedExists DEF Inv, Inserts, RowsAreWritten
  <2>2. /\ takenFrom(p) = 0 /\ returnedTo(p) = 0
        /\ takenFrom(p)' = captured /\ returnedTo(p)' = 0
    BY <2>1 DEF takenFrom, returnedTo, exists, created
  <2>3. \A q \in Queued : q # p => UNCHANGED <<takenFrom(q), returnedTo(q)>>
    BY <1>0, <1>1, <2>1
  <2>4. CASE captured = 0
    BY <2>2, <2>3, <2>4 DEF ledgerStep
  <2>5. CASE captured = n
    <3>1. n \in amounts
      BY <2>1 DEF amounts
    <3>2. QED
      BY <1>3, <2>2, <2>3, <2>5, <3>1 DEF ledgerStep
  <2>6. QED
    BY <2>4, <2>5
<1>4. ASSUME NEW c \in Captures, CommitCapture(c), capture[c].payment \in Queued
      PROVE  ledgerStep
  <2>0. PICK p \in Queued : p = capture[c].payment
    BY <1>4
  <2>1. /\ settling(c) /\ p \in Payments /\ exists(p) /\ payment'[p] # NoRow
        /\ \A q \in Payments \ {p} : payment'[q] = payment[q]
    BY <1>4, <2>0, CaptureWrites, ChargesAssumption DEF PaymentRow
  <2>2. /\ payment[p].captured = 0 /\ payment'[p].captured = capture[c].amount
        /\ payment'[p].refunded = payment[p].refunded
    BY <1>4, <2>0, CapturedRowFits
  <2>3. capture[c].amount \in amounts
    <3>1. capture[c].amount \in (CaptureAmounts \ {0}) \cup {payment[p].amount}
      BY <1>4, <2>0, <2>1 DEF Inv, QueuedHandlers, captureHolds
    <3>2. payment[p].amount \in amounts
      BY <2>1 DEF Inv, AmountsAreAsked, amounts
    <3>3. QED
      BY <3>1, <3>2 DEF amounts
  <2>4. takenFrom(p) = 0 /\ takenFrom(p)' = capture[c].amount /\ UNCHANGED returnedTo(p)
    BY <2>1, <2>2 DEF takenFrom, returnedTo, exists
  <2>5. \A q \in Queued : q # p => UNCHANGED <<takenFrom(q), returnedTo(q)>>
    BY <1>0, <1>1, <2>1
  <2>6. QED
    BY <1>4, <2>3, <2>4, <2>5 DEF ledgerStep
<1>5. ASSUME NEW f \in Refunds, CommitRefund(f), refund[f].payment \in Queued
      PROVE  ledgerStep
  <2> DEFINE n == refund[f].body.amount
  <2>0. PICK p \in Queued : p = refund[f].payment
    BY <1>5
  <2>1. /\ p \in Payments /\ exists(p) /\ payment'[p] # NoRow
        /\ \A q \in Payments \ {p} : payment'[q] = payment[q]
    BY <1>5, <2>0, RefundWrites, ChargesAssumption DEF PaymentRow
  <2>2. n \in amounts
    BY <1>5, RefundFacts DEF Inv, CommitRefund, amounts
  <2>3. /\ payment'[p].refunded = payment[p].refunded + n
        /\ payment'[p].captured = payment[p].captured
        /\ payment[p].refunded + n <= payment[p].captured
    BY <1>5, <2>0, RefundedRowFits
  <2>4. /\ returnedTo(p) + n <= takenFrom(p)
        /\ returnedTo(p)' = returnedTo(p) + n /\ UNCHANGED takenFrom(p)
    BY <2>1, <2>3 DEF takenFrom, returnedTo, exists
  <2>5. \A q \in Queued : q # p => UNCHANGED <<takenFrom(q), returnedTo(q)>>
    BY <1>0, <1>1, <2>1
  <2>6. QED
    BY <1>5, <2>2, <2>4, <2>5 DEF ledgerStep
<1>6. CASE UNCHANGED payment
  BY <1>0, <1>1, <1>6 DEF ledgerStep
<1>7. ASSUME NEW p \in Payments, Inserts(p) PROVE ledgerStep
  BY <1>0, <1>2, <1>3, <1>7, InsertedExists
<1>8. ASSUME NEW c \in Captures, CommitCapture(c) PROVE ledgerStep
  BY <1>2, <1>4, <1>8, CaptureWrites
<1>9. ASSUME NEW f \in Refunds, CommitRefund(f) PROVE ledgerStep
  BY <1>2, <1>5, <1>9, RefundWrites
<1>10. QED
  BY <1>0, <1>6, <1>7, <1>8, <1>9, StepShape

(* payment-service implements the ledger for the payments whose handlers do*)
(* not overlap: money is taken at most once and returned within what is    *)
(* left, whatever gateways answer and however often requests are repeated. *)
THEOREM LedgerImplemented == PaymentSpec => ImplementsLedger
<1>1. PaymentInit => Ledger!Init
  BY ChargesAssumption DEF PaymentInit, Ledger!Init, exists
<1>2. Inv /\ [PaymentNext]_paymentVars => [Ledger!Next]_(Ledger!vars)
  BY StepsOfLedger, LedgerMaps
<1>3. QED
  BY <1>1, <1>2, Invariance, PTL DEF PaymentSpec, ImplementsLedger, Ledger!Spec
=============================================================================
