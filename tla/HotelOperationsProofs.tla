----------------------- MODULE HotelOperationsProofs -----------------------
(***************************************************************************)
(* Theorems about the services behind the front desk, for any number of    *)
(* requests, properties, rooms, tasks, tickets and stays: Invoices and     *)
(* Rooms, whose handlers may overlap; then Rooms, Maintenance,             *)
(* Housekeeping and Stays for the entities whose handlers run one after    *)
(* the other. Each part has its assumption on the constants, its inductive *)
(* invariant, a lemma per handler and its theorem.                         *)
(***************************************************************************)
EXTENDS HotelOperations, SumTheorems

(* Only the request that is answered ISSUED has a row.                     *)
RowsAreIssued == \A r \in Issues : exists(r) <=> issue[r].pc = "ISSUED"

(* A handler updates an invoice it found.                                  *)
UpdatesFindRow ==
    /\ \A p \in Payments : payment[p].pc = "WRITE" => exists(payment[p].invoice)
    /\ \A v \in Voids : voiding[v].pc = "WRITE" => exists(voiding[v].invoice)

(* An announcement is kept with the property that issued the invoice.      *)
AnnouncedWithProperty ==
    \A h \in Hotels : \A i \in DOMAIN outbox[h] : invoice[outbox[h][i].invoice].hotel = h

Inv ==
    /\ TypeOK
    /\ RowsAreIssued
    /\ UpdatesFindRow
    /\ NumbersGapFree
    /\ OneInvoicePerStay
    /\ AnnouncedInOrder
    /\ AnnouncedWithProperty

(* What a step that issues nothing does to the numbers: nothing.           *)
NumbersKept ==
    /\ UNCHANGED <<counter, outbox>>
    /\ \A r \in Issues : exists(r)' <=> exists(r)
    /\ \A r \in Issues : exists(r) =>
          /\ invoice'[r].hotel = invoice[r].hotel
          /\ invoice'[r].stay = invoice[r].stay
          /\ invoice'[r].number = invoice[r].number

-----------------------------------------------------------------------------
(* The invariant holds before any request. *)
LEMMA InitInv == Init => Inv
<1> SUFFICES ASSUME Init PROVE Inv
  OBVIOUS
<1> USE DEF Init, exists, issued
<1>1. TypeOK
  BY DEF TypeOK, IssueState, PaymentState, VoidState
<1>2. RowsAreIssued /\ UpdatesFindRow /\ OneInvoicePerStay
  BY DEF RowsAreIssued, UpdatesFindRow, OneInvoicePerStay
<1>3. NumbersGapFree
  <2>1. \A h \in Hotels, y \in Years : lastSequence(h, y) = 0 /\ ofYear(h, y) = {}
    BY DEF lastSequence, ofYear
  <2>2. QED
    BY <2>1 DEF NumbersGapFree
<1>4. AnnouncedInOrder /\ AnnouncedWithProperty
  BY DEF AnnouncedInOrder, AnnouncedWithProperty
<1>5. QED
  BY <1>1, <1>2, <1>3, <1>4 DEF Inv

(* The last number of a property's year. *)
LEMMA LastIsNat ==
    ASSUME TypeOK, NEW h \in Hotels, NEW y \in Years
    PROVE  lastSequence(h, y) \in Nat
<1>1. counter[h][y] \in CounterRow \cup {NoRow}
  BY DEF TypeOK
<1>2. counter[h][y] # NoRow => counter[h][y].next \in 2..(MaxSequence + 1)
  BY <1>1 DEF CounterRow
<1>3. QED
  BY <1>2, InputsAssumption DEF lastSequence

(* The number a committing transaction takes is the next one of its        *)
(* property and year, whether or not the counter row was there before.     *)
LEMMA NextNumber ==
    ASSUME TypeOK, NEW h \in Hotels, NEW y \in Years, NEW prefix \in PrefixesOf[h],
           inRange(sequenceOf(upserted(h, y, prefix)))
    PROVE  LET c == upserted(h, y, prefix) IN
           /\ c \in CounterRow
           /\ sequenceOf(c) = lastSequence(h, y) + 1
           /\ sequenceOf(c) \in 1..MaxSequence
           /\ numberOf(c, y) \in Number
<1> DEFINE c == upserted(h, y, prefix)
<1>1. prefix \in AllPrefixes
  BY DEF AllPrefixes
<1>2. CASE counter[h][y] = NoRow
  <2>1. c = [prefix |-> prefix, next |-> 2]
    BY <1>2 DEF upserted
  <2>2. sequenceOf(c) = 1 /\ 1 <= MaxSequence
    BY <2>1 DEF sequenceOf, inRange
  <2>3. QED
    BY <1>1, <1>2, <2>1, <2>2, InputsAssumption DEF CounterRow, lastSequence, numberOf, Number
<1>3. CASE counter[h][y] # NoRow
  <2>1. counter[h][y] \in CounterRow
    BY <1>3 DEF TypeOK
  <2>2. c = [prefix |-> counter[h][y].prefix, next |-> counter[h][y].next + 1]
    BY <1>3, <2>1 DEF upserted, CounterRow
  <2>3. sequenceOf(c) = counter[h][y].next /\ counter[h][y].next <= MaxSequence
    BY <2>1, <2>2, InputsAssumption DEF sequenceOf, inRange, CounterRow
  <2>4. QED
    BY <1>3, <2>1, <2>2, <2>3, InputsAssumption
    DEF CounterRow, lastSequence, numberOf, Number
<1>4. QED
  BY <1>2, <1>3

(* A step issues an invoice or leaves the numbers alone. *)
LEMMA QuietStep ==
    ASSUME Inv, [Next]_vars, \A r \in Issues : ~ IssueInvoice(r)
    PROVE  NumbersKept
<1> USE DEF Inv, TypeOK
<1>1. CASE invoice' = invoice /\ UNCHANGED <<counter, outbox>>
  BY <1>1 DEF NumbersKept, exists
<1>2. ASSUME NEW p \in Payments, WritePayment(p) PROVE NumbersKept
  <2>1. payment[p].invoice \in Issues /\ exists(payment[p].invoice)
    BY <1>2 DEF WritePayment, PaymentState, UpdatesFindRow
  <2>2. \A r \in Issues : exists(r) => invoice[r] \in InvoiceRow
    BY DEF exists
  <2> DEFINE row == paidUp(invoice[payment[p].invoice], payment[p].paid)
  <2>3. invoice' = [invoice EXCEPT ![payment[p].invoice] = row]
    BY <1>2, <2>1 DEF WritePayment
  <2>4. payment[p].paid \in Nat
    BY <1>2 DEF WritePayment, PaymentState
  <2>5. /\ row \in InvoiceRow
        /\ row.hotel = invoice[payment[p].invoice].hotel
        /\ row.stay = invoice[payment[p].invoice].stay
        /\ row.number = invoice[payment[p].invoice].number
    BY <2>1, <2>2, <2>4 DEF InvoiceRow, paidUp
  <2>6. counter' = counter /\ outbox' = outbox
    BY <1>2 DEF WritePayment
  <2> HIDE DEF row
  <2>7. QED
    BY <2>1, <2>3, <2>5, <2>6, NoRowAssumption DEF NumbersKept, exists
<1>3. ASSUME NEW v \in Voids, WriteVoid(v) PROVE NumbersKept
  <2>1. voiding[v].invoice \in Issues /\ exists(voiding[v].invoice)
    BY <1>3 DEF WriteVoid, VoidState, UpdatesFindRow
  <2>2. invoice[voiding[v].invoice] \in InvoiceRow
    BY <2>1 DEF exists
  <2> DEFINE voidRow == [invoice[voiding[v].invoice] EXCEPT !.status = "VOID"]
  <2>3. invoice' = [invoice EXCEPT ![voiding[v].invoice] = voidRow]
    BY <1>3, <2>1 DEF WriteVoid, voided
  <2>4. /\ voidRow \in InvoiceRow
        /\ voidRow.hotel = invoice[voiding[v].invoice].hotel
        /\ voidRow.stay = invoice[voiding[v].invoice].stay
        /\ voidRow.number = invoice[voiding[v].invoice].number
    BY <2>2 DEF InvoiceRow
  <2>5. counter' = counter /\ outbox' = outbox
    BY <1>3 DEF WriteVoid
  <2> HIDE DEF voidRow
  <2>6. QED
    BY <2>1, <2>3, <2>4, <2>5, NoRowAssumption DEF NumbersKept, exists
<1>4. QED
  BY <1>1, <1>2, <1>3
  DEF Next, vars, Issue, RecordPayment, Void, NewYear, LookUpStay, IssueRefused, rolledBack,
      ReadForPayment, ReadForVoid, requests, tables

(* What a committing transaction writes: the next number of its property   *)
(* and year on the counter, on a row for a stay that had none, and in the  *)
(* announcement.                                                           *)
LEMMA IssueShape ==
    ASSUME Inv, NEW r \in Issues, IssueInvoice(r)
    PROVE  \E h \in Hotels, y \in Years, c \in CounterRow, row \in InvoiceRow,
              ann \in Announcement :
             /\ ~ exists(r) /\ ~ invoiced(row.stay)
             /\ row.hotel = h /\ row.number.year = y
             /\ row.number.sequence = lastSequence(h, y) + 1
             /\ c.next = lastSequence(h, y) + 2
             /\ ann.invoice = r /\ ann.number = row.number
             /\ counter' = [counter EXCEPT ![h][y] = c]
             /\ invoice' = [invoice EXCEPT ![r] = row]
             /\ outbox' = [outbox EXCEPT ![h] = Append(@, ann)]
<1> USE DEF Inv
<1> DEFINE q == issue[r]
           h == q.hotel
           y == q.year
<1>1. /\ q.pc = "INSERT" /\ h \in Hotels /\ y \in Years
      /\ q.stay \in Stays /\ q.total \in Totals /\ q.paid \in Deposits
  BY DEF IssueInvoice, TypeOK, IssueState
<1>2. q.total \in Int /\ q.paid \in Nat
  BY <1>1, InputsAssumption
<1>3. PICK prefix \in PrefixesOf[h] :
        LET c == upserted(h, y, prefix) IN
        /\ inRange(sequenceOf(c))
        /\ stayIsFree(q.stay)
        /\ counter' = [counter EXCEPT ![h][y] = c]
        /\ invoice' = [invoice EXCEPT ![r] =
              [hotel |-> h, stay |-> q.stay, number |-> numberOf(c, y),
               status |-> statusFor(q.paid, q.total), total |-> q.total, paid |-> q.paid]]
        /\ outbox' = [outbox EXCEPT ![h] = Append(@, announcement(r, c, q))]
  BY DEF IssueInvoice
<1> DEFINE c == upserted(h, y, prefix)
           row == [hotel |-> h, stay |-> q.stay, number |-> numberOf(c, y),
                   status |-> statusFor(q.paid, q.total), total |-> q.total, paid |-> q.paid]
           ann == announcement(r, c, q)
<1>4. /\ c \in CounterRow
      /\ sequenceOf(c) = lastSequence(h, y) + 1
      /\ numberOf(c, y) \in Number
  BY <1>1, <1>3, NextNumber
<1>5. row \in InvoiceRow
  BY <1>1, <1>2, <1>4 DEF InvoiceRow, statusFor
<1>6. ann \in Announcement /\ ann.invoice = r /\ ann.number = row.number
  BY <1>1, <1>2, <1>4 DEF Announcement, announcement
<1>7. row.hotel = h /\ row.number.year = y /\ row.number.sequence = lastSequence(h, y) + 1
  BY <1>4 DEF numberOf
<1>8. c.next = lastSequence(h, y) + 2
  <2>1. lastSequence(h, y) \in Nat
    BY <1>1, LastIsNat
  <2>2. c.next \in Nat
    BY <1>4, InputsAssumption DEF CounterRow
  <2>3. QED
    BY <1>4, <2>1, <2>2 DEF sequenceOf
<1>9. ~ exists(r) /\ ~ invoiced(row.stay)
  BY <1>1, <1>3 DEF RowsAreIssued, stayIsFree
<1>10. /\ counter' = [counter EXCEPT ![h][y] = c]
       /\ invoice' = [invoice EXCEPT ![r] = row]
       /\ outbox' = [outbox EXCEPT ![h] = Append(@, ann)]
  BY <1>3
<1> HIDE DEF c, row, ann, h, y
<1>11. h \in Hotels /\ y \in Years
  BY <1>1 DEF h, y
<1>12. QED
  BY <1>4, <1>5, <1>6, <1>7, <1>8, <1>9, <1>10, <1>11

-----------------------------------------------------------------------------
(* The types, action by action. *)
LEMMA TypeStep ==
    ASSUME Inv, [Next]_vars
    PROVE  TypeOK'
<1> USE DEF TypeOK
<1>0. TypeOK /\ UpdatesFindRow
  BY DEF Inv
<1>1. CASE UNCHANGED vars
  BY <1>0, <1>1 DEF vars
<1>2. CASE NewYear
  BY <1>0, <1>2 DEF NewYear, requests, tables
<1>3. ASSUME NEW r \in Issues, LookUpStay(r) PROVE TypeOK'
  <2>1. issue' \in [Issues -> IssueState]
    BY <1>0, <1>3 DEF LookUpStay, IssueState
  <2>2. QED
    BY <1>0, <1>3, <2>1 DEF LookUpStay, tables
<1>4. ASSUME NEW r \in Issues, IssueInvoice(r) PROVE TypeOK'
  <2>1. issue' \in [Issues -> IssueState]
    BY <1>0, <1>4 DEF IssueInvoice, IssueState
  <2>2. UNCHANGED <<year, payment, voiding>>
    BY <1>0, <1>4 DEF IssueInvoice
  <2>3. PICK h \in Hotels, y \in Years, c \in CounterRow, row \in InvoiceRow,
             ann \in Announcement :
             /\ ~ exists(r) /\ ~ invoiced(row.stay)
             /\ row.hotel = h /\ row.number.year = y
             /\ row.number.sequence = lastSequence(h, y) + 1
             /\ c.next = lastSequence(h, y) + 2
             /\ ann.invoice = r /\ ann.number = row.number
             /\ counter' = [counter EXCEPT ![h][y] = c]
             /\ invoice' = [invoice EXCEPT ![r] = row]
             /\ outbox' = [outbox EXCEPT ![h] = Append(@, ann)]
    BY <1>4, IssueShape, Zenon
  <2>4. counter' \in [Hotels -> [Years -> CounterRow \cup {NoRow}]]
    BY <1>0, <2>3
  <2>5. invoice' \in [Issues -> InvoiceRow \cup {NoRow}]
    BY <1>0, <2>3
  <2>6. outbox' \in [Hotels -> Seq(Announcement)]
    BY <1>0, <2>3
  <2>7. QED
    BY <1>0, <2>1, <2>2, <2>4, <2>5, <2>6
<1>5. ASSUME NEW r \in Issues, IssueRefused(r) PROVE TypeOK'
  <2>1. issue' \in [Issues -> IssueState]
    BY <1>0, <1>5 DEF IssueRefused, IssueState
  <2>2. QED
    BY <1>0, <1>5, <2>1 DEF IssueRefused, rolledBack
<1>6. ASSUME NEW p \in Payments, ReadForPayment(p) PROVE TypeOK'
  <2>1. payment' \in [Payments -> PaymentState]
    <3>1. \A r \in Issues : exists(r) => invoice[r].paid \in Nat
      BY <1>0 DEF exists, InvoiceRow
    <3>2. Amounts \subseteq Nat
      BY InputsAssumption
    <3>3. PICK r \in Issues, amount \in Amounts :
            payment' = [payment EXCEPT ![p] =
               IF ~ exists(r) THEN [pc |-> "NOT_FOUND"]
               ELSE IF invoice[r].status = "VOID" THEN [pc |-> "CONFLICT"]
               ELSE IF exceeds(r, amount) THEN [pc |-> "EXCEEDS_BALANCE"]
               ELSE [pc |-> "WRITE", invoice |-> r, amount |-> amount,
                     paid |-> invoice[r].paid + amount]]
      BY <1>0, <1>6 DEF ReadForPayment
    <3>4. exists(r) => invoice[r].paid + amount \in Nat
      BY <3>1, <3>2 DEF exists
    <3>5. QED
      BY <1>0, <3>3, <3>4 DEF PaymentState
  <2>2. QED
    BY <1>0, <1>6, <2>1 DEF ReadForPayment, tables
<1>7. ASSUME NEW p \in Payments, WritePayment(p) PROVE TypeOK'
  <2>1. payment' \in [Payments -> PaymentState]
    BY <1>0, <1>7 DEF WritePayment, PaymentState
  <2>2. invoice' \in [Issues -> InvoiceRow \cup {NoRow}]
    <3>1. payment[p].invoice \in Issues /\ payment[p].paid \in Nat
      BY <1>0, <1>7 DEF WritePayment, PaymentState
    <3>2. invoice[payment[p].invoice] \in InvoiceRow
      BY <1>0, <1>7, <3>1 DEF WritePayment, UpdatesFindRow, exists
    <3>3. paidUp(invoice[payment[p].invoice], payment[p].paid) \in InvoiceRow
      BY <3>1, <3>2 DEF paidUp, InvoiceRow
    <3>4. QED
      BY <1>0, <1>7, <3>1, <3>3 DEF WritePayment
  <2>3. QED
    BY <1>0, <1>7, <2>1, <2>2 DEF WritePayment
<1>8. ASSUME NEW v \in Voids, ReadForVoid(v) PROVE TypeOK'
  <2>1. voiding' \in [Voids -> VoidState]
    <3>1. PICK r \in Issues :
            voiding' = [voiding EXCEPT ![v] =
               IF ~ exists(r) THEN [pc |-> "NOT_FOUND"]
               ELSE IF ~ mayVoid(r) THEN [pc |-> "CONFLICT"]
               ELSE [pc |-> "WRITE", invoice |-> r]]
      BY <1>0, <1>8 DEF ReadForVoid
    <3>2. QED
      BY <1>0, <3>1 DEF VoidState
  <2>2. QED
    BY <1>0, <1>8, <2>1 DEF ReadForVoid, tables
<1>9. ASSUME NEW v \in Voids, WriteVoid(v) PROVE TypeOK'
  <2>1. voiding[v].invoice \in Issues
    BY <1>0, <1>9 DEF WriteVoid, VoidState
  <2>2. voiding' \in [Voids -> VoidState]
    BY <1>0, <1>9, <2>1 DEF WriteVoid, VoidState
  <2>3. invoice' \in [Issues -> InvoiceRow \cup {NoRow}]
    <3>1. invoice[voiding[v].invoice] \in InvoiceRow
      BY <1>0, <1>9, <2>1 DEF WriteVoid, UpdatesFindRow, exists
    <3>2. voided(invoice[voiding[v].invoice]) \in InvoiceRow
      BY <3>1 DEF voided, InvoiceRow
    <3>3. QED
      BY <1>0, <1>9, <2>1, <3>2 DEF WriteVoid
  <2>4. QED
    BY <1>0, <1>9, <2>2, <2>3 DEF WriteVoid
<1>10. QED
  BY <1>1, <1>2, <1>3, <1>4, <1>5, <1>6, <1>7, <1>8, <1>9
  DEF Next, Issue, RecordPayment, Void

-----------------------------------------------------------------------------
(* A row is there exactly when its request was answered. *)
LEMMA RowsStep ==
    ASSUME Inv, [Next]_vars
    PROVE  RowsAreIssued'
<1>0. TypeOK /\ RowsAreIssued
  BY DEF Inv
<1>1. CASE \E r \in Issues : IssueInvoice(r)
  <2>1. PICK r \in Issues : IssueInvoice(r)
    BY <1>1
  <2>2. PICK row \in InvoiceRow : invoice' = [invoice EXCEPT ![r] = row]
    BY <2>1, IssueShape
  <2>3. issue' = [issue EXCEPT ![r] = [pc |-> "ISSUED"]]
    BY <2>1 DEF IssueInvoice
  <2>4. QED
    BY <1>0, <2>2, <2>3, NoRowAssumption DEF RowsAreIssued, exists, TypeOK
<1>2. CASE \A r \in Issues : ~ IssueInvoice(r)
  <2>1. NumbersKept
    BY <1>2, QuietStep
  <2> DEFINE Same == \A r \in Issues : issue'[r].pc = "ISSUED" <=> issue[r].pc = "ISSUED"
  <2>2. Same
    <3>1. CASE UNCHANGED issue
      BY <3>1
    <3>2. ASSUME NEW r \in Issues, LookUpStay(r) PROVE Same
      BY <1>0, <3>2 DEF LookUpStay, TypeOK
    <3>3. ASSUME NEW r \in Issues, IssueRefused(r) PROVE Same
      <4>1. PICK pc \in {"EXHAUSTED", "STAY_TAKEN", "NUMBER_TAKEN"} :
              issue' = [issue EXCEPT ![r] = [pc |-> pc]]
        BY <3>3 DEF IssueRefused
      <4>2. issue[r].pc = "INSERT"
        BY <3>3 DEF IssueRefused
      <4>3. QED
        BY <1>0, <4>1, <4>2 DEF TypeOK
    <3>4. QED
      BY <1>2, <3>1, <3>2, <3>3
      DEF Next, vars, Issue, RecordPayment, Void, NewYear, ReadForPayment, WritePayment,
          ReadForVoid, WriteVoid, requests
  <2>3. QED
    BY <1>0, <2>1, <2>2 DEF RowsAreIssued, NumbersKept
<1>3. QED
  BY <1>1, <1>2

(* Rows are never removed, so an update still finds what its read found. *)
LEMMA UpdatesStep ==
    ASSUME Inv, [Next]_vars
    PROVE  UpdatesFindRow'
<1>0. TypeOK /\ UpdatesFindRow
  BY DEF Inv
<1> DEFINE PaymentsFind ==
             \A p \in Payments : payment'[p].pc = "WRITE" => invoice'[payment'[p].invoice] # NoRow
           VoidsFind ==
             \A v \in Voids : voiding'[v].pc = "WRITE" => invoice'[voiding'[v].invoice] # NoRow
<1>1. \A r \in Issues : invoice[r] # NoRow => invoice'[r] # NoRow
  <2>1. CASE \E r \in Issues : IssueInvoice(r)
    <3>1. PICK r \in Issues : IssueInvoice(r)
      BY <2>1
    <3>2. PICK row \in InvoiceRow : invoice' = [invoice EXCEPT ![r] = row]
      BY <3>1, IssueShape
    <3>3. QED
      BY <1>0, <3>2, NoRowAssumption DEF exists, TypeOK
  <2>2. CASE \A r \in Issues : ~ IssueInvoice(r)
    BY <2>2, QuietStep DEF NumbersKept, exists
  <2>3. QED
    BY <2>1, <2>2
<1>2. PaymentsFind
  <2>0. \A p \in Payments : payment[p].pc = "WRITE" =>
           payment[p].invoice \in Issues /\ invoice[payment[p].invoice] # NoRow
    BY <1>0 DEF TypeOK, PaymentState, UpdatesFindRow, exists
  <2>1. CASE UNCHANGED payment
    BY <1>1, <2>0, <2>1
  <2>2. ASSUME NEW p \in Payments, ReadForPayment(p) PROVE PaymentsFind
    <3>1. PICK r \in Issues, amount \in Amounts :
            payment' = [payment EXCEPT ![p] =
               IF ~ exists(r) THEN [pc |-> "NOT_FOUND"]
               ELSE IF invoice[r].status = "VOID" THEN [pc |-> "CONFLICT"]
               ELSE IF exceeds(r, amount) THEN [pc |-> "EXCEEDS_BALANCE"]
               ELSE [pc |-> "WRITE", invoice |-> r, amount |-> amount,
                     paid |-> invoice[r].paid + amount]]
      BY <2>2 DEF ReadForPayment
    <3>2. payment'[p].pc = "WRITE" => invoice[r] # NoRow /\ payment'[p].invoice = r
      BY <1>0, <3>1 DEF TypeOK, exists
    <3>3. \A q \in Payments : q # p => payment'[q] = payment[q]
      BY <1>0, <3>1 DEF TypeOK
    <3>4. QED
      BY <1>1, <2>0, <3>2, <3>3
  <2>3. ASSUME NEW p \in Payments, WritePayment(p) PROVE PaymentsFind
    <3>1. payment'[p].pc = "RECORDED" /\ \A q \in Payments : q # p => payment'[q] = payment[q]
      BY <1>0, <2>3 DEF WritePayment, TypeOK
    <3>2. QED
      BY <1>1, <2>0, <3>1
  <2>4. QED
    BY <2>1, <2>2, <2>3
    DEF Next, vars, Issue, RecordPayment, Void, NewYear, LookUpStay, IssueInvoice,
        IssueRefused, ReadForVoid, WriteVoid, requests
<1>3. VoidsFind
  <2>0. \A v \in Voids : voiding[v].pc = "WRITE" =>
           voiding[v].invoice \in Issues /\ invoice[voiding[v].invoice] # NoRow
    BY <1>0 DEF TypeOK, VoidState, UpdatesFindRow, exists
  <2>1. CASE UNCHANGED voiding
    BY <1>1, <2>0, <2>1
  <2>2. ASSUME NEW v \in Voids, ReadForVoid(v) PROVE VoidsFind
    <3>1. PICK r \in Issues :
            voiding' = [voiding EXCEPT ![v] =
               IF ~ exists(r) THEN [pc |-> "NOT_FOUND"]
               ELSE IF ~ mayVoid(r) THEN [pc |-> "CONFLICT"]
               ELSE [pc |-> "WRITE", invoice |-> r]]
      BY <2>2 DEF ReadForVoid
    <3>2. voiding'[v].pc = "WRITE" => invoice[r] # NoRow /\ voiding'[v].invoice = r
      BY <1>0, <3>1 DEF TypeOK, exists
    <3>3. \A w \in Voids : w # v => voiding'[w] = voiding[w]
      BY <1>0, <3>1 DEF TypeOK
    <3>4. QED
      BY <1>1, <2>0, <3>2, <3>3
  <2>3. ASSUME NEW v \in Voids, WriteVoid(v) PROVE VoidsFind
    <3>1. voiding'[v].pc = "VOIDED" /\ \A w \in Voids : w # v => voiding'[w] = voiding[w]
      BY <1>0, <2>3 DEF WriteVoid, TypeOK
    <3>2. QED
      BY <1>1, <2>0, <3>1
  <2>4. QED
    BY <2>1, <2>2, <2>3
    DEF Next, vars, Issue, RecordPayment, Void, NewYear, LookUpStay, IssueInvoice,
        IssueRefused, ReadForPayment, WritePayment, requests
<1>4. QED
  BY <1>2, <1>3 DEF UpdatesFindRow, exists

-----------------------------------------------------------------------------
(* The next number is one above every number the property used that year,  *)
(* and it is on the one new row: the numbers stay gap-free.                *)
LEMMA NumbersStep ==
    ASSUME Inv, [Next]_vars
    PROVE  NumbersGapFree'
<1>0. TypeOK /\ NumbersGapFree
  BY DEF Inv
<1>1. CASE \E r \in Issues : IssueInvoice(r)
  <2>1. PICK r \in Issues : IssueInvoice(r)
    BY <1>1
  <2>2. PICK h0 \in Hotels, y0 \in Years, c \in CounterRow, row \in InvoiceRow,
             ann \in Announcement :
             /\ ~ exists(r) /\ ~ invoiced(row.stay)
             /\ row.hotel = h0 /\ row.number.year = y0
             /\ row.number.sequence = lastSequence(h0, y0) + 1
             /\ c.next = lastSequence(h0, y0) + 2
             /\ ann.invoice = r /\ ann.number = row.number
             /\ counter' = [counter EXCEPT ![h0][y0] = c]
             /\ invoice' = [invoice EXCEPT ![r] = row]
             /\ outbox' = [outbox EXCEPT ![h0] = Append(@, ann)]
    BY <2>1, IssueShape, Zenon
  <2>3. /\ invoice'[r] = row /\ row # NoRow /\ invoice[r] = NoRow
        /\ \A t \in Issues : t # r => invoice'[t] = invoice[t]
    BY <1>0, <2>2, NoRowAssumption DEF TypeOK, exists
  <2> SUFFICES ASSUME NEW h \in Hotels, NEW y \in Years
               PROVE  /\ {invoice'[t].number.sequence : t \in ofYear(h, y)'}
                           = 1..lastSequence(h, y)'
                      /\ \A t, u \in ofYear(h, y)' :
                           invoice'[t].number.sequence = invoice'[u].number.sequence => t = u
    BY DEF NumbersGapFree
  <2>4. /\ {invoice[t].number.sequence : t \in ofYear(h, y)} = 1..lastSequence(h, y)
        /\ \A t, u \in ofYear(h, y) :
              invoice[t].number.sequence = invoice[u].number.sequence => t = u
    BY <1>0 DEF NumbersGapFree
  <2>5. r \notin ofYear(h, y) /\ ofYear(h, y) \subseteq Issues
    BY <2>2 DEF ofYear, issued
  <2>6. CASE h = h0 /\ y = y0
    <3>1. ofYear(h, y)' = ofYear(h, y) \cup {r}
      BY <2>2, <2>3, <2>6 DEF ofYear, issued, exists
    <3>2. lastSequence(h, y)' = lastSequence(h, y) + 1
      <4>1. counter'[h][y] = c
        BY <1>0, <2>2, <2>6 DEF TypeOK
      <4>2. c # NoRow /\ c.next \in Int
        BY NoRowAssumption, InputsAssumption DEF CounterRow
      <4>3. QED
        BY <2>2, <2>6, <4>1, <4>2, <1>0, LastIsNat DEF lastSequence
    <3>3. lastSequence(h, y) \in Nat
      BY <1>0, LastIsNat
    <3>4. \A t \in ofYear(h, y) : /\ invoice'[t] = invoice[t]
                                  /\ invoice[t].number.sequence \in 1..lastSequence(h, y)
      BY <2>3, <2>4, <2>5
    <3>5. invoice'[r].number.sequence = lastSequence(h, y) + 1
      BY <2>2, <2>3, <2>6
    <3>6. {invoice'[t].number.sequence : t \in ofYear(h, y)'}
            = {invoice[t].number.sequence : t \in ofYear(h, y)} \cup {lastSequence(h, y) + 1}
      BY <3>1, <3>4, <3>5
    <3>7. QED
      BY <2>4, <3>1, <3>2, <3>3, <3>4, <3>5, <3>6
  <2>7. CASE ~ (h = h0 /\ y = y0)
    <3>1. ofYear(h, y)' = ofYear(h, y)
      BY <2>2, <2>3, <2>7 DEF ofYear, issued, exists
    <3>2. lastSequence(h, y)' = lastSequence(h, y)
      BY <1>0, <2>2, <2>7 DEF lastSequence, TypeOK
    <3>3. \A t \in ofYear(h, y) : invoice'[t] = invoice[t]
      BY <2>3, <2>5
    <3>4. QED
      BY <2>4, <3>1, <3>2, <3>3
  <2>8. QED
    BY <2>6, <2>7
<1>2. CASE \A r \in Issues : ~ IssueInvoice(r)
  <2>1. NumbersKept
    BY <1>2, QuietStep
  <2>2. \A h \in Hotels, y \in Years : ofYear(h, y)' = ofYear(h, y)
    BY <2>1 DEF NumbersKept, ofYear, issued
  <2>3. \A h \in Hotels, y \in Years : lastSequence(h, y)' = lastSequence(h, y)
    BY <2>1 DEF NumbersKept, lastSequence
  <2>4. \A h \in Hotels, y \in Years : \A t \in ofYear(h, y) :
           invoice'[t].number.sequence = invoice[t].number.sequence
    BY <2>1 DEF NumbersKept, ofYear, issued
  <2>5. QED
    BY <1>0, <2>2, <2>3, <2>4 DEF NumbersGapFree
<1>3. QED
  BY <1>1, <1>2

(* The unique index on stayId decides between two requests for a stay. *)
LEMMA StaysStep ==
    ASSUME Inv, [Next]_vars
    PROVE  OneInvoicePerStay'
<1>0. TypeOK /\ OneInvoicePerStay
  BY DEF Inv
<1>1. CASE \E r \in Issues : IssueInvoice(r)
  <2>1. PICK r \in Issues : IssueInvoice(r)
    BY <1>1
  <2>2. PICK row \in InvoiceRow : ~ invoiced(row.stay) /\ invoice' = [invoice EXCEPT ![r] = row]
    BY <2>1, IssueShape
  <2>3. QED
    BY <1>0, <2>2, NoRowAssumption
    DEF OneInvoicePerStay, invoiced, issued, exists, TypeOK
<1>2. CASE \A r \in Issues : ~ IssueInvoice(r)
  <2>1. NumbersKept
    BY <1>2, QuietStep
  <2>2. QED
    BY <1>0, <2>1 DEF OneInvoicePerStay, NumbersKept, issued
<1>3. QED
  BY <1>1, <1>2

(* What the outbox holds. *)
LEMMA AnnouncementType ==
    ASSUME TypeOK, NEW h \in Hotels, NEW i \in DOMAIN outbox[h]
    PROVE  outbox[h][i] \in Announcement
<1>1. outbox[h] \in Seq(Announcement)
  BY DEF TypeOK
<1>2. QED
  BY <1>1

(* An announcement goes after every announcement of a smaller number.      *)
LEMMA AnnouncedStep ==
    ASSUME Inv, [Next]_vars
    PROVE  AnnouncedInOrder' /\ AnnouncedWithProperty'
<1>0. TypeOK /\ NumbersGapFree /\ AnnouncedInOrder /\ AnnouncedWithProperty
  BY DEF Inv
<1>1. CASE \E r \in Issues : IssueInvoice(r)
  <2>1. PICK r \in Issues : IssueInvoice(r)
    BY <1>1
  <2>2. PICK h0 \in Hotels, y0 \in Years, c \in CounterRow, row \in InvoiceRow,
             ann \in Announcement :
             /\ ~ exists(r) /\ ~ invoiced(row.stay)
             /\ row.hotel = h0 /\ row.number.year = y0
             /\ row.number.sequence = lastSequence(h0, y0) + 1
             /\ c.next = lastSequence(h0, y0) + 2
             /\ ann.invoice = r /\ ann.number = row.number
             /\ counter' = [counter EXCEPT ![h0][y0] = c]
             /\ invoice' = [invoice EXCEPT ![r] = row]
             /\ outbox' = [outbox EXCEPT ![h0] = Append(@, ann)]
    BY <2>1, IssueShape, Zenon
  <2>3. /\ invoice'[r] = row /\ row # NoRow /\ invoice[r] = NoRow
        /\ \A t \in Issues : t # r => invoice'[t] = invoice[t]
    BY <1>0, <2>2, NoRowAssumption DEF TypeOK, exists
  <2>4. \A h \in Hotels : h # h0 => outbox'[h] = outbox[h]
    BY <1>0, <2>2 DEF TypeOK
  <2> DEFINE n == Len(outbox[h0])
  <2>5. /\ n \in Nat
        /\ DOMAIN outbox[h0] = 1..n
        /\ DOMAIN outbox'[h0] = 1..(n + 1)
        /\ outbox'[h0][n + 1] = ann
        /\ \A i \in 1..n : outbox'[h0][i] = outbox[h0][i]
    <3>1. outbox[h0] \in Seq(Announcement) /\ outbox'[h0] = Append(outbox[h0], ann)
      BY <1>0, <2>2 DEF TypeOK
    <3>2. QED
      BY <3>1
  <2>6. \A h \in Hotels : \A i \in DOMAIN outbox[h] :
           /\ outbox[h][i].invoice \in Issues
           /\ outbox[h][i].invoice # r
           /\ invoice[outbox[h][i].invoice] # NoRow
           /\ invoice'[outbox[h][i].invoice] = invoice[outbox[h][i].invoice]
    <3>1. \A h \in Hotels : \A i \in DOMAIN outbox[h] : outbox[h][i].invoice \in Issues
      BY <1>0, AnnouncementType DEF Announcement
    <3>2. QED
      BY <1>0, <2>3, <3>1 DEF AnnouncedInOrder, exists
  <2>7. \A i \in 1..n : outbox[h0][i].number.year = y0 =>
           outbox[h0][i].number.sequence \in 1..lastSequence(h0, y0)
    <3>1. ASSUME NEW i \in 1..n, outbox[h0][i].number.year = y0
          PROVE  outbox[h0][i].invoice \in ofYear(h0, y0)
      BY <1>0, <2>5, <2>6, <3>1
      DEF AnnouncedInOrder, AnnouncedWithProperty, ofYear, issued, exists
    <3>2. \A t \in ofYear(h0, y0) : invoice[t].number.sequence \in 1..lastSequence(h0, y0)
      BY <1>0 DEF NumbersGapFree
    <3>3. QED
      BY <1>0, <2>5, <3>1, <3>2 DEF AnnouncedInOrder
  <2>8. AnnouncedWithProperty'
    <3>1. ASSUME NEW h \in Hotels, NEW i \in DOMAIN outbox'[h]
          PROVE  invoice'[outbox'[h][i].invoice].hotel = h
      <4>1. CASE h = h0 /\ i = n + 1
        BY <2>2, <2>3, <2>5, <4>1
      <4>2. CASE ~ (h = h0 /\ i = n + 1)
        <5>1. i \in DOMAIN outbox[h] /\ outbox'[h][i] = outbox[h][i]
          BY <2>4, <2>5, <3>1, <4>2
        <5>2. QED
          BY <1>0, <2>6, <5>1 DEF AnnouncedWithProperty
      <4>3. QED
        BY <4>1, <4>2
    <3>2. QED
      BY <3>1 DEF AnnouncedWithProperty
  <2>9. AnnouncedInOrder'
    <3>1. ASSUME NEW h \in Hotels, NEW i \in DOMAIN outbox'[h]
          PROVE  /\ invoice'[outbox'[h][i].invoice] # NoRow
                 /\ invoice'[outbox'[h][i].invoice].number = outbox'[h][i].number
                 /\ \A j \in 1..(i - 1) :
                       outbox'[h][j].number.year = outbox'[h][i].number.year
                       => outbox'[h][j].number.sequence < outbox'[h][i].number.sequence
      <4>1. CASE h = h0 /\ i = n + 1
        <5>1. outbox'[h][i] = ann /\ \A j \in 1..(i - 1) : outbox'[h][j] = outbox[h][j]
          BY <2>5, <4>1
        <5>2. lastSequence(h0, y0) \in Nat
          BY <1>0, LastIsNat
        <5>3. QED
          BY <2>2, <2>3, <2>5, <2>7, <4>1, <5>1, <5>2
      <4>2. CASE ~ (h = h0 /\ i = n + 1)
        <5>1. /\ i \in DOMAIN outbox[h]
              /\ \A j \in 1..i : outbox'[h][j] = outbox[h][j]
          <6>1. CASE h = h0
            BY <2>5, <3>1, <4>2, <6>1
          <6>2. CASE h # h0
            BY <2>4, <3>1, <6>2
          <6>3. QED
            BY <6>1, <6>2
        <5>2. i \in Nat /\ i >= 1
          BY <1>0, <5>1 DEF TypeOK
        <5>3. QED
          BY <1>0, <2>6, <5>1, <5>2 DEF AnnouncedInOrder, exists
      <4>3. QED
        BY <4>1, <4>2
    <3>2. QED
      BY <3>1 DEF AnnouncedInOrder, exists
  <2>10. QED
    BY <2>8, <2>9
<1>2. CASE \A r \in Issues : ~ IssueInvoice(r)
  <2>1. NumbersKept
    BY <1>2, QuietStep
  <2>2. \A h \in Hotels : \A i \in DOMAIN outbox[h] : outbox[h][i].invoice \in Issues
    BY <1>0, AnnouncementType DEF Announcement
  <2>3. AnnouncedWithProperty'
    BY <1>0, <2>1, <2>2 DEF AnnouncedWithProperty, AnnouncedInOrder, NumbersKept, exists
  <2>4. AnnouncedInOrder'
    BY <1>0, <2>1, <2>2 DEF AnnouncedInOrder, NumbersKept, exists
  <2>5. QED
    BY <2>3, <2>4
<1>3. QED
  BY <1>1, <1>2

-----------------------------------------------------------------------------
(* The invariant holds in every reachable state. *)
LEMMA Invariance == Spec => []Inv
<1>1. Inv /\ [Next]_vars => Inv'
  BY TypeStep, RowsStep, UpdatesStep, NumbersStep, StaysStep, AnnouncedStep DEF Inv
<1>2. QED
  BY InitInv, <1>1, PTL DEF Spec

(* Every column keeps its type, and the sequence never leaves its width. *)
THEOREM TypeCorrect == Spec => []TypeOK
<1>1. Inv => TypeOK
  BY DEF Inv
<1>2. QED
  BY Invariance, <1>1, PTL

(* finance.service.ts: "the counter has to move with the invoice or not at *)
(* all". Because it does, the invoice numbers of a property's year are     *)
(* exactly 1 to the last one, each on one invoice, whatever rolls back or  *)
(* is voided and however requests overlap.                                 *)
THEOREM NumberingIsGapFree == Spec => []NumbersGapFree
<1>1. Inv => NumbersGapFree
  BY DEF Inv
<1>2. QED
  BY Invariance, <1>1, PTL

(* No two requests ever invoice one stay. *)
THEOREM StaysInvoicedOnce == Spec => []OneInvoicePerStay
<1>1. Inv => OneInvoicePerStay
  BY DEF Inv
<1>2. QED
  BY Invariance, <1>1, PTL

(* The announcements of a property carry the numbers of its invoices, in   *)
(* increasing order within a year.                                         *)
THEOREM AnnouncementsInOrder == Spec => []AnnouncedInOrder
<1>1. Inv => AnnouncedInOrder
  BY DEF Inv
<1>2. QED
  BY Invariance, <1>1, PTL

-----------------------------------------------------------------------------
(* The money of an invoice whose payments and voids take turns. *)

recording(p) == payment[p].pc = "WRITE"
voidingNow(v) == voiding[v].pc = "WRITE"

(* What was recorded or voided is an invoice that exists.                  *)
OutcomesFindRow ==
    /\ \A p \in Payments : payment[p].pc = "RECORDED" => exists(payment[p].invoice)
    /\ \A v \in Voids : voiding[v].pc = "VOIDED" => exists(voiding[v].invoice)

(* However many requests there are, finitely many have recorded a payment. *)
FinitelyRecorded == IsFiniteSet({p \in Payments : payment[p].pc = "RECORDED"})

EveryInvoiceAnnounced ==
    \A r \in issued : \E i \in DOMAIN outbox[invoice[r].hotel] :
        outbox[invoice[r].hotel][i].invoice = r

(* The row has what was announced as paid and what was recorded since, and *)
(* payments stop at the total.                                             *)
QueuedInvoices ==
    \A r \in issued \cap Queued :
        /\ invoice[r].paid = invoice[r].total - announcedBalance(r) + received(r)
        /\ recorded(r) # {} => invoice[r].paid <= invoice[r].total

(* What a payment has read still holds when it writes.                     *)
paymentHolds(p) ==
    LET row == invoice[payment[p].invoice] IN
    /\ row.status # "VOID"
    /\ payment[p].paid = row.paid + payment[p].amount /\ payment[p].paid <= row.total

(* No other handler of its invoice stands between a read and its write.    *)
QueuedUpdates ==
    /\ \A p \in Payments : recording(p) /\ payment[p].invoice \in Queued =>
          /\ paymentHolds(p)
          /\ \A q \in Payments :
                recording(q) /\ payment[q].invoice = payment[p].invoice => q = p
          /\ \A v \in Voids : voidingNow(v) => voiding[v].invoice # payment[p].invoice
    /\ \A v \in Voids : voidingNow(v) /\ voiding[v].invoice \in Queued =>
          invoice[voiding[v].invoice].paid = 0

Money ==
    /\ OutcomesFindRow
    /\ FinitelyRecorded
    /\ EveryInvoiceAnnounced
    /\ QueuedInvoices
    /\ QueuedUpdates
    /\ VoidIsFinal

(* Before any request there is no money.                                   *)
LEMMA InitMoney == Init => Money
<1> SUFFICES ASSUME Init PROVE Money
  OBVIOUS
<1>1. issued = {} /\ \A r \in Issues : ~ exists(r)
  BY DEF Init, issued, exists
<1>2. {p \in Payments : payment[p].pc = "RECORDED"} = {}
  BY DEF Init
<1>3. FinitelyRecorded
  BY <1>2, FS_EmptySet DEF FinitelyRecorded
<1>4. OutcomesFindRow /\ QueuedUpdates
  BY DEF Init, OutcomesFindRow, QueuedUpdates, recording, voidingNow
<1>5. EveryInvoiceAnnounced /\ QueuedInvoices /\ VoidIsFinal
  BY <1>1 DEF EveryInvoiceAnnounced, QueuedInvoices, VoidIsFinal
<1>6. QED
  BY <1>3, <1>4, <1>5 DEF Money

(* The announcement of an invoice is the one with its name.                *)
BalanceIsAnnounced ==
    \A r \in issued : \A i \in DOMAIN outbox[invoice[r].hotel] :
        outbox[invoice[r].hotel][i].invoice = r
        => /\ announcedBalance(r) = outbox[invoice[r].hotel][i].balance
           /\ announcedBalance(r) \in Int

(* Two announcements of one invoice would carry one number.                *)
LEMMA OneAnnouncement == Inv => BalanceIsAnnounced
<1> SUFFICES ASSUME Inv, NEW r \in issued, NEW i \in DOMAIN outbox[invoice[r].hotel],
                    outbox[invoice[r].hotel][i].invoice = r
             PROVE  /\ announcedBalance(r) = outbox[invoice[r].hotel][i].balance
                    /\ announcedBalance(r) \in Int
  BY DEF BalanceIsAnnounced
<1> DEFINE h == invoice[r].hotel
           sent == outbox[h]
<1>1. TypeOK /\ AnnouncedInOrder /\ r \in Issues /\ exists(r)
  BY DEF Inv, issued
<1>2. h \in Hotels /\ invoice[r].number.sequence \in Nat
  BY <1>1 DEF TypeOK, InvoiceRow, Number, exists
<1>3. sent \in Seq(Announcement) /\ i \in DOMAIN sent /\ DOMAIN sent = 1 .. Len(sent)
  BY <1>1, <1>2 DEF TypeOK
<1>4. ASSUME NEW j \in DOMAIN sent, sent[j].invoice = r PROVE j = i
  <2>1. sent[i].number = invoice[r].number /\ sent[j].number = invoice[r].number
    BY <1>1, <1>2, <1>3, <1>4 DEF AnnouncedInOrder
  <2>2. ~ (i < j) /\ ~ (j < i)
    <3>1. ASSUME NEW k \in DOMAIN sent, NEW l \in DOMAIN sent, k < l,
                 sent[k].number = invoice[r].number, sent[l].number = invoice[r].number
          PROVE  FALSE
      <4>1. k \in 1 .. (l - 1)
        BY <1>3, <3>1
      <4>2. sent[k].number.sequence < sent[l].number.sequence
        BY <1>1, <1>2, <3>1, <4>1 DEF AnnouncedInOrder
      <4>3. QED
        BY <1>2, <3>1, <4>2
    <3>2. QED
      BY <2>1, <3>1, <1>3, <1>4
  <2>3. QED
    BY <1>3, <2>2
<1>5. (CHOOSE j \in DOMAIN sent : sent[j].invoice = r) = i
  <2> HIDE DEF sent
  <2>1. QED
    BY <1>3, <1>4
<1>6. sent[i] \in Announcement
  BY <1>3
<1>7. QED
  BY <1>5, <1>6 DEF announcedBalance, Announcement

(* Columns of an invoice.                                                  *)
LEMMA InvoiceFacts ==
    ASSUME TypeOK, NEW r \in Issues, exists(r)
    PROVE  /\ invoice[r] \in InvoiceRow /\ invoice[r].hotel \in Hotels
           /\ invoice[r].total \in Int /\ invoice[r].paid \in Nat
BY InputsAssumption DEF TypeOK, exists, InvoiceRow

(* What handlers between their read and their write hold.                  *)
LEMMA UpdateFacts ==
    ASSUME Inv
    PROVE  /\ \A p \in Payments : recording(p) =>
                 /\ payment[p].invoice \in Issues /\ exists(payment[p].invoice)
                 /\ payment[p].amount \in Nat /\ payment[p].paid \in Nat
           /\ \A v \in Voids : voidingNow(v) =>
                 voiding[v].invoice \in Issues /\ exists(voiding[v].invoice)
           /\ \A p \in Payments : payment[p].pc = "RECORDED" =>
                 payment[p].invoice \in Issues /\ payment[p].amount \in Nat
BY InputsAssumption
   DEF Inv, TypeOK, PaymentState, VoidState, UpdatesFindRow, recording, voidingNow

(* A read decides nothing about the outcomes of other requests.            *)
outcomesKept ==
    /\ UNCHANGED <<invoice, outbox>>
    /\ \A p \in Payments :
          /\ payment'[p].pc = "RECORDED" <=> payment[p].pc = "RECORDED"
          /\ payment[p].pc = "RECORDED" => payment'[p] = payment[p]
    /\ \A v \in Voids :
          /\ voiding'[v].pc = "VOIDED" <=> voiding[v].pc = "VOIDED"
          /\ voiding[v].pc = "VOIDED" => voiding'[v] = voiding[v]

(* So it keeps every part of the invariant that is about outcomes.         *)
LEMMA ReadsKeep ==
    ASSUME Money, outcomesKept
    PROVE  /\ OutcomesFindRow' /\ FinitelyRecorded' /\ EveryInvoiceAnnounced'
           /\ QueuedInvoices' /\ VoidIsFinal'
<1>1. issued' = issued /\ UNCHANGED <<invoice, outbox>>
  BY DEF outcomesKept, issued, exists
<1>2. OutcomesFindRow' /\ EveryInvoiceAnnounced' /\ VoidIsFinal'
  BY <1>1 DEF Money, outcomesKept, OutcomesFindRow, EveryInvoiceAnnounced, VoidIsFinal, exists
<1>3. FinitelyRecorded'
  <2>1. {p \in Payments : payment'[p].pc = "RECORDED"} = {p \in Payments : payment[p].pc = "RECORDED"}
    BY DEF outcomesKept
  <2>2. QED
    BY <2>1 DEF Money, FinitelyRecorded
<1>4. ASSUME NEW r \in issued PROVE recorded(r)' = recorded(r) /\ received(r)' = received(r)
  <2>1. recorded(r)' = recorded(r) /\ \A p \in recorded(r) : payment'[p].amount = payment[p].amount
    BY DEF outcomesKept, recorded
  <2>2. QED
    BY <2>1 DEF received
<1>5. \A r \in issued : announcedBalance(r)' = announcedBalance(r)
  BY <1>1 DEF announcedBalance
<1>6. QueuedInvoices'
  BY <1>1, <1>4, <1>5 DEF Money, QueuedInvoices
<1>7. QED
  BY <1>2, <1>3, <1>6

(* Steps of the clock and of issue that insert nothing.                    *)
LEMMA QuietMoney ==
    ASSUME Money, UNCHANGED <<payment, voiding, invoice, outbox>>
    PROVE  Money'
<1>1. outcomesKept
  BY DEF outcomesKept
<1>2. QueuedUpdates'
  BY DEF Money, QueuedUpdates, paymentHolds, recording, voidingNow
<1>3. QED
  BY <1>1, <1>2, ReadsKeep DEF Money

(* A payment that reads: it is the only handler of its invoice.            *)
LEMMA ReadPaymentMoney ==
    ASSUME Inv, Money, NEW p \in Payments, ReadForPayment(p)
    PROVE  Money'
<1>1. PICK r \in Issues, amount \in Amounts :
          /\ mayRead(r)
          /\ payment' = [payment EXCEPT ![p] =
               IF ~ exists(r) THEN [pc |-> "NOT_FOUND"]
               ELSE IF invoice[r].status = "VOID" THEN [pc |-> "CONFLICT"]
               ELSE IF exceeds(r, amount) THEN [pc |-> "EXCEEDS_BALANCE"]
               ELSE [pc |-> "WRITE", invoice |-> r, amount |-> amount,
                     paid |-> invoice[r].paid + amount]]
  BY DEF ReadForPayment
<1>2. TypeOK /\ payment \in [Payments -> PaymentState] /\ QueuedUpdates /\ payment[p].pc = "NEW"
  BY DEF Inv, TypeOK, Money, ReadForPayment
<1>3. UNCHANGED <<voiding, invoice, outbox>> /\ \A q \in Payments : q # p => payment'[q] = payment[q]
  BY <1>1, <1>2 DEF ReadForPayment, tables
<1>4. payment'[p].pc # "RECORDED"
  BY <1>1, <1>2
<1>5. outcomesKept
  BY <1>2, <1>3, <1>4 DEF outcomesKept
<1>6. recording(p)' =>
         /\ exists(r) /\ invoice[r].status # "VOID" /\ ~ exceeds(r, amount)
         /\ payment'[p].invoice = r /\ payment'[p].amount = amount
         /\ payment'[p].paid = invoice[r].paid + amount
  BY <1>1, <1>2 DEF recording, exists
<1>7. recording(p)' => paymentHolds(p)'
  <2>1. exists(r) => invoice[r].paid + amount \in Nat /\ invoice[r].total \in Int
    <3>1. amount \in Nat
      BY InputsAssumption
    <3>2. exists(r) => invoice[r].paid \in Nat /\ invoice[r].total \in Int
      BY <1>2, InvoiceFacts
    <3>3. QED
      BY <3>1, <3>2
  <2>2. QED
    BY <1>3, <1>6, <2>1 DEF paymentHolds, exceeds
<1>8. r \in Queued => /\ \A q \in Payments : ~ (recording(q) /\ payment[q].invoice = r)
                      /\ \A v \in Voids : ~ (voidingNow(v) /\ voiding[v].invoice = r)
  BY <1>1 DEF mayRead, busy, recording, voidingNow
<1>9. ASSUME NEW q \in Payments, recording(q)', payment'[q].invoice \in Queued
      PROVE  /\ paymentHolds(q)'
             /\ \A s \in Payments :
                   recording(s)' /\ payment'[s].invoice = payment'[q].invoice => s = q
             /\ \A v \in Voids : voidingNow(v)' => voiding'[v].invoice # payment'[q].invoice
  <2>1. CASE q = p
    <3>1. r \in Queued
      BY <1>6, <1>9, <2>1
    <3>2. \A s \in Payments : recording(s)' /\ payment'[s].invoice = r => s = p
      BY <1>3, <1>8, <3>1 DEF recording
    <3>3. \A v \in Voids : voidingNow(v)' => voiding'[v].invoice # r
      BY <1>3, <1>8, <3>1 DEF voidingNow
    <3>4. QED
      BY <1>6, <1>7, <1>9, <2>1, <3>2, <3>3
  <2>2. CASE q # p
    <3>1. recording(q) /\ payment'[q] = payment[q]
      BY <1>3, <1>9, <2>2 DEF recording
    <3>2. paymentHolds(q)'
      BY <1>2, <1>3, <1>9, <3>1 DEF QueuedUpdates, paymentHolds
    <3>3. \A v \in Voids : voidingNow(v)' => voiding'[v].invoice # payment'[q].invoice
      BY <1>2, <1>3, <1>9, <3>1 DEF QueuedUpdates, voidingNow
    <3>4. \A s \in Payments : recording(s)' /\ payment'[s].invoice = payment'[q].invoice => s = q
      <4>1. payment'[q].invoice = r => ~ recording(p)'
        BY <1>6, <1>8, <1>9, <3>1
      <4>2. ASSUME NEW s \in Payments, recording(s)', payment'[s].invoice = payment'[q].invoice
            PROVE  s = q
        <5>1. s # p
          BY <1>6, <4>1, <4>2
        <5>2. recording(s) /\ payment'[s] = payment[s]
          BY <1>3, <4>2, <5>1 DEF recording
        <5>3. QED
          BY <1>2, <1>9, <3>1, <4>2, <5>2 DEF QueuedUpdates
      <4>3. QED
        BY <4>2
    <3>5. QED
      BY <3>2, <3>3, <3>4
  <2>3. QED
    BY <2>1, <2>2
<1>10. \A v \in Voids : voidingNow(v)' /\ voiding'[v].invoice \in Queued =>
          invoice'[voiding'[v].invoice].paid = 0
  BY <1>2, <1>3 DEF QueuedUpdates, voidingNow
<1>11. QueuedUpdates'
  BY <1>9, <1>10 DEF QueuedUpdates
<1>12. QED
  BY <1>5, <1>11, ReadsKeep DEF Money

(* So is a void that reads.                                                *)
LEMMA ReadVoidMoney ==
    ASSUME Inv, Money, NEW v \in Voids, ReadForVoid(v)
    PROVE  Money'
<1>1. PICK r \in Issues :
          /\ mayRead(r)
          /\ voiding' = [voiding EXCEPT ![v] =
               IF ~ exists(r) THEN [pc |-> "NOT_FOUND"]
               ELSE IF ~ mayVoid(r) THEN [pc |-> "CONFLICT"]
               ELSE [pc |-> "WRITE", invoice |-> r]]
  BY DEF ReadForVoid
<1>2. TypeOK /\ voiding \in [Voids -> VoidState] /\ QueuedUpdates /\ voiding[v].pc = "NEW"
  BY DEF Inv, TypeOK, Money, ReadForVoid
<1>3. UNCHANGED <<payment, invoice, outbox>> /\ \A w \in Voids : w # v => voiding'[w] = voiding[w]
  BY <1>1, <1>2 DEF ReadForVoid, tables
<1>4. voiding'[v].pc # "VOIDED"
  BY <1>1, <1>2
<1>5. outcomesKept
  BY <1>2, <1>3, <1>4 DEF outcomesKept
<1>6. voidingNow(v)' => mayVoid(r) /\ voiding'[v].invoice = r
  BY <1>1, <1>2 DEF voidingNow, exists, mayVoid
<1>7. r \in Queued => \A q \in Payments : ~ (recording(q) /\ payment[q].invoice = r)
  BY <1>1 DEF mayRead, busy, recording
<1>8. ASSUME NEW q \in Payments, recording(q)', payment'[q].invoice \in Queued
      PROVE  /\ paymentHolds(q)'
             /\ \A s \in Payments :
                   recording(s)' /\ payment'[s].invoice = payment'[q].invoice => s = q
             /\ \A w \in Voids : voidingNow(w)' => voiding'[w].invoice # payment'[q].invoice
  <2>1. paymentHolds(q)'
    BY <1>2, <1>3, <1>8 DEF QueuedUpdates, paymentHolds, recording
  <2>2. \A s \in Payments : recording(s)' /\ payment'[s].invoice = payment'[q].invoice => s = q
    BY <1>2, <1>3, <1>8 DEF QueuedUpdates, recording
  <2>3. \A w \in Voids : voidingNow(w)' => voiding'[w].invoice # payment'[q].invoice
    BY <1>2, <1>3, <1>6, <1>7, <1>8 DEF QueuedUpdates, recording, voidingNow
  <2>4. QED
    BY <2>1, <2>2, <2>3
<1>9. \A w \in Voids : voidingNow(w)' /\ voiding'[w].invoice \in Queued =>
         invoice'[voiding'[w].invoice].paid = 0
  BY <1>2, <1>3, <1>6 DEF QueuedUpdates, voidingNow, mayVoid
<1>10. QueuedUpdates'
  BY <1>8, <1>9 DEF QueuedUpdates
<1>11. QED
  BY <1>5, <1>10, ReadsKeep DEF Money

(* The row and the announcement of a new invoice agree on what is due.     *)
LEMMA IssuedRow ==
    ASSUME Inv, NEW r \in Issues, IssueInvoice(r)
    PROVE  /\ ~ exists(r) /\ UNCHANGED <<payment, voiding>>
           /\ \E row \in InvoiceRow, ann \in Announcement :
                 /\ invoice' = [invoice EXCEPT ![r] = row]
                 /\ outbox' = [outbox EXCEPT ![row.hotel] = Append(@, ann)]
                 /\ ann.invoice = r /\ ann.balance = row.total - row.paid
<1> DEFINE q == issue[r]
<1>1. TypeOK /\ RowsAreIssued /\ q.pc = "INSERT"
  BY DEF Inv, IssueInvoice
<1>2. /\ q.hotel \in Hotels /\ q.year \in Years /\ q.stay \in Stays
      /\ q.total \in Totals /\ q.paid \in Deposits
  BY <1>1 DEF TypeOK, IssueState
<1>3. q.total \in Int /\ q.paid \in Nat
  BY <1>2, InputsAssumption
<1>4. PICK prefix \in PrefixesOf[q.hotel] :
        LET c == upserted(q.hotel, q.year, prefix) IN
        /\ inRange(sequenceOf(c))
        /\ invoice' = [invoice EXCEPT ![r] =
              [hotel |-> q.hotel, stay |-> q.stay, number |-> numberOf(c, q.year),
               status |-> statusFor(q.paid, q.total), total |-> q.total, paid |-> q.paid]]
        /\ outbox' = [outbox EXCEPT ![q.hotel] = Append(@, announcement(r, c, q))]
  BY DEF IssueInvoice
<1> DEFINE c == upserted(q.hotel, q.year, prefix)
           row == [hotel |-> q.hotel, stay |-> q.stay, number |-> numberOf(c, q.year),
                   status |-> statusFor(q.paid, q.total), total |-> q.total, paid |-> q.paid]
           ann == announcement(r, c, q)
<1>5. numberOf(c, q.year) \in Number
  BY <1>1, <1>2, <1>4, NextNumber
<1>6. row \in InvoiceRow
  BY <1>2, <1>3, <1>5 DEF InvoiceRow, statusFor
<1>7. ann \in Announcement /\ ann.invoice = r /\ ann.balance = q.total - q.paid
  BY <1>3, <1>5 DEF Announcement, announcement
<1>8. row.hotel = q.hotel /\ row.total = q.total /\ row.paid = q.paid
  OBVIOUS
<1>9. invoice' = [invoice EXCEPT ![r] = row] /\ outbox' = [outbox EXCEPT ![q.hotel] = Append(@, ann)]
  BY <1>4
<1>10. ~ exists(r) /\ UNCHANGED <<payment, voiding>>
  BY <1>1 DEF RowsAreIssued, IssueInvoice
<1> HIDE DEF row, ann
<1>11. QED
  BY <1>6, <1>7, <1>8, <1>9, <1>10

(* A new invoice starts with what was announced of it, and leaves the      *)
(* others alone.                                                           *)
LEMMA IssueMoney ==
    ASSUME Inv, Inv', BalanceIsAnnounced, BalanceIsAnnounced', Money,
           NEW r \in Issues, IssueInvoice(r)
    PROVE  Money'
<1>1. PICK row \in InvoiceRow, ann \in Announcement :
          /\ invoice' = [invoice EXCEPT ![r] = row]
          /\ outbox' = [outbox EXCEPT ![row.hotel] = Append(@, ann)]
          /\ ann.invoice = r /\ ann.balance = row.total - row.paid
  BY IssuedRow
<1> DEFINE h == row.hotel
<1>2. ~ exists(r) /\ UNCHANGED <<payment, voiding>> /\ TypeOK
  BY IssuedRow DEF Inv
<1>3. /\ invoice \in [Issues -> InvoiceRow \cup {NoRow}] /\ h \in Hotels
      /\ outbox \in [Hotels -> Seq(Announcement)]
      /\ row.total \in Int /\ row.paid \in Nat
  BY <1>2, InputsAssumption DEF TypeOK, InvoiceRow
<1>4. /\ invoice'[r] = row /\ row # NoRow
      /\ \A t \in Issues : t # r => invoice'[t] = invoice[t]
  BY <1>1, <1>3, NoRowAssumption
<1>5. issued' = issued \cup {r} /\ r \notin issued /\ issued \subseteq Issues
  BY <1>2, <1>4 DEF issued, exists
<1>6. \A g \in Hotels : \A i \in DOMAIN outbox[g] :
         i \in DOMAIN outbox'[g] /\ outbox'[g][i] = outbox[g][i]
  <2>1. ASSUME NEW g \in Hotels, NEW i \in DOMAIN outbox[g]
        PROVE  i \in DOMAIN outbox'[g] /\ outbox'[g][i] = outbox[g][i]
    <3>1. CASE g = h
      <4>1. outbox'[g] = Append(outbox[g], ann) /\ outbox[g] \in Seq(Announcement)
        BY <1>1, <1>3, <3>1
      <4>2. QED
        BY <4>1
    <3>2. CASE g # h
      BY <1>1, <1>3, <3>2
    <3>3. QED
      BY <3>1, <3>2
  <2>2. QED
    BY <2>1
<1>7. PICK n \in DOMAIN outbox'[h] : outbox'[h][n] = ann
  <2>1. outbox'[h] = Append(outbox[h], ann) /\ outbox[h] \in Seq(Announcement)
    BY <1>1, <1>3
  <2>2. Len(outbox[h]) + 1 \in DOMAIN outbox'[h] /\ outbox'[h][Len(outbox[h]) + 1] = ann
    BY <2>1
  <2>3. QED
    BY <2>2
<1>8. ASSUME NEW t \in issued
      PROVE  \E i \in DOMAIN outbox'[invoice'[t].hotel] :
                /\ outbox'[invoice'[t].hotel][i].invoice = t
                /\ announcedBalance(t)' = announcedBalance(t)
  <2>1. PICK i \in DOMAIN outbox[invoice[t].hotel] : outbox[invoice[t].hotel][i].invoice = t
    BY DEF Money, EveryInvoiceAnnounced
  <2>2. t \in Issues /\ invoice'[t] = invoice[t] /\ invoice[t].hotel \in Hotels
    BY <1>2, <1>4, <1>5, InvoiceFacts DEF issued
  <2>3. /\ i \in DOMAIN outbox'[invoice'[t].hotel]
        /\ outbox'[invoice'[t].hotel][i] = outbox[invoice[t].hotel][i]
    BY <1>6, <2>2
  <2>4. announcedBalance(t) = outbox[invoice[t].hotel][i].balance
    BY <2>1 DEF BalanceIsAnnounced
  <2>5. announcedBalance(t)' = outbox'[invoice'[t].hotel][i].balance
    <3>1. t \in issued'
      BY <1>5
    <3>2. QED
      BY <2>1, <2>3, <3>1 DEF BalanceIsAnnounced
  <2>6. QED
    BY <2>1, <2>3, <2>4, <2>5
<1>9. announcedBalance(r)' = row.total - row.paid
  <2>1. /\ r \in issued' /\ n \in DOMAIN outbox'[invoice'[r].hotel]
        /\ outbox'[invoice'[r].hotel][n].invoice = r
    BY <1>1, <1>4, <1>5, <1>7
  <2>2. announcedBalance(r)' = outbox'[invoice'[r].hotel][n].balance
    BY <2>1 DEF BalanceIsAnnounced
  <2>3. QED
    BY <1>1, <1>4, <1>7, <2>2
<1>10. recorded(r) = {} /\ \A t \in Issues : recorded(t)' = recorded(t)
  BY <1>2 DEF Money, OutcomesFindRow, recorded
<1>11. received(r)' = 0 /\ \A t \in Issues : received(t)' = received(t)
  <2>1. \A t \in Issues : received(t)' = received(t)
    BY <1>2, <1>10 DEF received
  <2>2. received(r)' = 0
    BY <1>10, SumFunctionOfNone DEF received
  <2>3. QED
    BY <2>1, <2>2
<1>12. EveryInvoiceAnnounced'
  <2>1. \E i \in DOMAIN outbox'[invoice'[r].hotel] : outbox'[invoice'[r].hotel][i].invoice = r
    BY <1>1, <1>4, <1>7
  <2>2. QED
    BY <1>5, <1>8, <2>1 DEF EveryInvoiceAnnounced
<1>13. QueuedInvoices'
  <2>1. ASSUME NEW t \in issued, t \in Queued
        PROVE  /\ invoice'[t].paid = invoice'[t].total - announcedBalance(t)' + received(t)'
               /\ recorded(t)' # {} => invoice'[t].paid <= invoice'[t].total
    <3>1. t \in Issues /\ invoice'[t] = invoice[t]
      BY <1>4, <1>5
    <3>2. announcedBalance(t)' = announcedBalance(t)
      BY <1>8
    <3>3. QED
      BY <1>10, <1>11, <2>1, <3>1, <3>2 DEF Money, QueuedInvoices
  <2>2. /\ invoice'[r].paid = invoice'[r].total - announcedBalance(r)' + received(r)'
        /\ recorded(r)' = {}
    <3>1. row.paid = row.total - (row.total - row.paid) + 0
      BY <1>3
    <3>2. QED
      BY <1>4, <1>9, <1>10, <1>11, <3>1
  <2>3. QED
    BY <1>5, <2>1, <2>2 DEF QueuedInvoices
<1>14. VoidIsFinal'
  <2>1. \A v \in Voids : voiding[v].pc = "VOIDED" => voiding[v].invoice # r
    BY <1>2 DEF Money, OutcomesFindRow
  <2>2. QED
    BY <1>2, <1>4, <1>5, <2>1 DEF Money, VoidIsFinal
<1>15. OutcomesFindRow' /\ FinitelyRecorded'
  <2>1. \A t \in Issues : exists(t) => exists(t)'
    BY <1>4 DEF exists
  <2>2. /\ \A p \in Payments : payment[p].pc = "RECORDED" => payment[p].invoice \in Issues
        /\ \A v \in Voids : voiding[v].pc = "VOIDED" => voiding[v].invoice \in Issues
    BY <1>2 DEF TypeOK, PaymentState, VoidState
  <2>3. OutcomesFindRow'
    BY <1>2, <2>1, <2>2 DEF Money, OutcomesFindRow, exists
  <2>4. FinitelyRecorded'
    BY <1>2 DEF Money, FinitelyRecorded
  <2>5. QED
    BY <2>3, <2>4
<1>16. QueuedUpdates'
  <2>1. /\ \A p \in Payments : recording(p) =>
              payment[p].invoice \in Issues /\ payment[p].invoice # r
        /\ \A v \in Voids : voidingNow(v) => voiding[v].invoice \in Issues /\ voiding[v].invoice # r
    BY <1>2, UpdateFacts
  <2>2. QED
    BY <1>2, <1>4, <2>1 DEF Money, QueuedUpdates, paymentHolds, recording, voidingNow
<1>17. QED
  BY <1>12, <1>13, <1>14, <1>15, <1>16 DEF Money

(* An update by id changes one row, and no number, total or announcement.  *)
LEMMA UpdatedRow ==
    ASSUME TypeOK, NEW r \in Issues, exists(r), NEW row,
           row.hotel = invoice[r].hotel, row.total = invoice[r].total, row # NoRow,
           invoice' = [invoice EXCEPT ![r] = row], UNCHANGED outbox
    PROVE  /\ invoice'[r] = row /\ \A t \in Issues : t # r => invoice'[t] = invoice[t]
           /\ issued' = issued
           /\ \A t \in issued : announcedBalance(t)' = announcedBalance(t)
<1>1. invoice'[r] = row /\ \A t \in Issues : t # r => invoice'[t] = invoice[t]
  BY DEF TypeOK
<1>2. issued' = issued
  BY <1>1 DEF issued, exists
<1>3. \A t \in issued : invoice'[t].hotel = invoice[t].hotel
  BY <1>1 DEF issued
<1>4. \A t \in issued : announcedBalance(t)' = announcedBalance(t)
  BY <1>3 DEF announcedBalance
<1>5. QED
  BY <1>1, <1>2, <1>4

(* A payment that writes adds what it recorded to its invoice.             *)
LEMMA WritePaymentMoney ==
    ASSUME Inv, BalanceIsAnnounced, Money, NEW p \in Payments, WritePayment(p)
    PROVE  Money'
<1> DEFINE q == payment[p]
<1>1. PICK r \in Issues : r = q.invoice
  BY UpdateFacts DEF WritePayment, recording
<1>2. /\ recording(p) /\ exists(r) /\ TypeOK /\ q.amount \in Nat /\ q.paid \in Nat
      /\ payment \in [Payments -> PaymentState]
  BY <1>1, UpdateFacts DEF WritePayment, recording, Inv, TypeOK
<1> DEFINE row == paidUp(invoice[r], q.paid)
<1>3. /\ invoice' = [invoice EXCEPT ![r] = row] /\ UNCHANGED <<voiding, outbox>>
      /\ payment' = [payment EXCEPT ![p] =
            [pc |-> "RECORDED", invoice |-> r, amount |-> q.amount]]
  BY <1>1 DEF WritePayment
<1>4. invoice[r] \in InvoiceRow /\ invoice[r].total \in Int /\ invoice[r].paid \in Nat
  BY <1>2, InvoiceFacts
<1>5. /\ row \in InvoiceRow /\ row.paid = q.paid /\ row.total = invoice[r].total
      /\ row.hotel = invoice[r].hotel /\ row # NoRow
  <2>1. /\ row \in InvoiceRow /\ row.paid = q.paid /\ row.total = invoice[r].total
        /\ row.hotel = invoice[r].hotel
    BY <1>2, <1>4 DEF InvoiceRow, paidUp
  <2>2. QED
    BY <2>1, NoRowAssumption
<1> HIDE DEF row
<1>6. /\ invoice'[r] = row /\ \A t \in Issues : t # r => invoice'[t] = invoice[t]
      /\ issued' = issued /\ \A t \in issued : announcedBalance(t)' = announcedBalance(t)
  BY <1>2, <1>3, <1>5, UpdatedRow
<1>7. /\ payment'[p].pc = "RECORDED" /\ payment'[p].invoice = r /\ payment'[p].amount = q.amount
      /\ \A s \in Payments : s # p => payment'[s] = payment[s]
  BY <1>2, <1>3
<1> HIDE DEF q
<1>8. p \notin recorded(r) /\ recorded(r)' = recorded(r) \cup {p}
  BY <1>2, <1>7 DEF recorded, recording
<1>9. \A t \in Issues : t # r => recorded(t)' = recorded(t) /\ p \notin recorded(t)
  BY <1>2, <1>7 DEF recorded, recording
<1>10. \A t \in Issues : t # r => received(t)' = received(t)
  <2>1. ASSUME NEW t \in Issues, t # r PROVE received(t)' = received(t)
    <3>1. \A s \in recorded(t) : payment'[s] = payment[s]
      BY <1>7, <1>9, <2>1 DEF recorded
    <3>2. QED
      BY <1>9, <2>1, <3>1 DEF received
  <2>2. QED
    BY <2>1
<1>11. received(r)' = received(r) + q.amount
  <2> DEFINE f == [s \in recorded(r) |-> payment[s].amount]
             g == [s \in recorded(r)' |-> payment'[s].amount]
  <2>1. IsFiniteSet(recorded(r))
    <3>1. recorded(r) \subseteq {s \in Payments : payment[s].pc = "RECORDED"}
      BY DEF recorded
    <3>2. QED
      BY <3>1, FS_Subset DEF Money, FinitelyRecorded
  <2>2. \A s \in recorded(r) : payment[s].amount \in Nat /\ payment'[s] = payment[s]
    BY <1>7, <1>8, UpdateFacts DEF recorded
  <2>3. f \in [recorded(r) -> Nat] /\ g \in [recorded(r) \cup {p} -> Nat]
    BY <1>2, <1>7, <1>8, <2>2
  <2>4. (\A s \in recorded(r) : g[s] = f[s]) /\ g[p] = q.amount
    BY <1>7, <1>8, <2>2
  <2>5. received(r) = SumFunction(f) /\ received(r)' = SumFunction(g)
    BY DEF received
  <2> HIDE DEF f, g
  <2>6. OneMore(f, g, q.amount)
    BY <1>8, <2>1, <2>3, <2>4 DEF OneMore
  <2>7. QED
    BY <2>5, <2>6, OneMoreAdds
<1>12. r \in Queued => /\ invoice[r].status # "VOID" /\ q.paid <= invoice[r].total
                       /\ q.paid = invoice[r].paid + q.amount
                       /\ \A s \in Payments : recording(s) /\ payment[s].invoice = r => s = p
                       /\ \A v \in Voids : voidingNow(v) => voiding[v].invoice # r
  BY <1>1, <1>2 DEF Money, QueuedUpdates, paymentHolds, q
<1>13. QueuedInvoices'
  <2>1. ASSUME NEW t \in issued, t \in Queued, t # r
        PROVE  /\ invoice'[t].paid = invoice'[t].total - announcedBalance(t)' + received(t)'
               /\ recorded(t)' # {} => invoice'[t].paid <= invoice'[t].total
    BY <1>6, <1>9, <1>10, <2>1 DEF Money, QueuedInvoices, issued
  <2>2. ASSUME r \in Queued
        PROVE  /\ invoice'[r].paid = invoice'[r].total - announcedBalance(r)' + received(r)'
               /\ invoice'[r].paid <= invoice'[r].total
    <3>1. r \in issued /\ announcedBalance(r)' = announcedBalance(r)
      BY <1>2, <1>6 DEF issued
    <3>2. invoice[r].paid = invoice[r].total - announcedBalance(r) + received(r)
      BY <2>2, <3>1 DEF Money, QueuedInvoices
    <3>3. announcedBalance(r) \in Int
      BY <3>1 DEF BalanceIsAnnounced, Money, EveryInvoiceAnnounced
    <3>4. received(r) \in Nat
      <4>1. IsFiniteSet(recorded(r))
        <5>1. recorded(r) \subseteq {s \in Payments : payment[s].pc = "RECORDED"}
          BY DEF recorded
        <5>2. QED
          BY <5>1, FS_Subset DEF Money, FinitelyRecorded
      <4>2. [s \in recorded(r) |-> payment[s].amount] \in [recorded(r) -> Nat]
        BY UpdateFacts DEF recorded
      <4>3. QED
        BY <4>1, <4>2, SumFunctionIsNat DEF received
    <3>5. QED
      BY <1>2, <1>4, <1>5, <1>6, <1>11, <1>12, <2>2, <3>1, <3>2, <3>3, <3>4
  <2>3. QED
    BY <1>6, <2>1, <2>2 DEF QueuedInvoices
<1>14. VoidIsFinal'
  <2>1. r \in Queued => ~ \E v \in Voids : voiding[v].pc = "VOIDED" /\ voiding[v].invoice = r
    BY <1>2, <1>12 DEF Money, VoidIsFinal, issued
  <2>2. QED
    BY <1>3, <1>6, <2>1 DEF Money, VoidIsFinal, issued
<1>15. OutcomesFindRow' /\ FinitelyRecorded' /\ EveryInvoiceAnnounced'
  <2>1. \A t \in Issues : exists(t) => exists(t)'
    BY <1>5, <1>6 DEF exists
  <2>2. \A v \in Voids : voiding[v].pc = "VOIDED" => voiding[v].invoice \in Issues
    BY <1>2 DEF TypeOK, VoidState
  <2>3. \A s \in Payments : payment'[s].pc = "RECORDED" =>
           payment'[s].invoice \in Issues /\ exists(payment'[s].invoice)
    BY <1>2, <1>7, UpdateFacts DEF Money, OutcomesFindRow
  <2>4. OutcomesFindRow'
    BY <1>3, <2>1, <2>2, <2>3 DEF Money, OutcomesFindRow, exists
  <2>5. {s \in Payments : payment'[s].pc = "RECORDED"}
        = {s \in Payments : payment[s].pc = "RECORDED"} \cup {p}
    BY <1>7
  <2>6. FinitelyRecorded'
    BY <2>5, FS_AddElement DEF Money, FinitelyRecorded
  <2>7. EveryInvoiceAnnounced'
    <3>1. \A t \in issued : invoice'[t].hotel = invoice[t].hotel
      BY <1>5, <1>6 DEF issued
    <3>2. QED
      BY <1>3, <1>6, <3>1 DEF Money, EveryInvoiceAnnounced
  <2>8. QED
    BY <2>4, <2>6, <2>7
<1>16. QueuedUpdates'
  <2>1. ASSUME NEW s \in Payments, recording(s)', payment'[s].invoice \in Queued
        PROVE  /\ paymentHolds(s)'
               /\ \A u \in Payments :
                     recording(u)' /\ payment'[u].invoice = payment'[s].invoice => u = s
               /\ \A v \in Voids : voidingNow(v)' => voiding'[v].invoice # payment'[s].invoice
    <3>1. s # p /\ payment'[s] = payment[s] /\ recording(s)
      BY <1>7, <2>1 DEF recording
    <3>2. payment[s].invoice # r /\ payment[s].invoice \in Issues
      BY <1>12, <2>1, <3>1, UpdateFacts
    <3>3. invoice'[payment[s].invoice] = invoice[payment[s].invoice]
      BY <1>6, <3>2
    <3>4. paymentHolds(s)'
      BY <2>1, <3>1, <3>3 DEF Money, QueuedUpdates, paymentHolds
    <3>5. \A u \in Payments :
             recording(u)' /\ payment'[u].invoice = payment'[s].invoice => u = s
      BY <1>7, <2>1, <3>1 DEF Money, QueuedUpdates, recording
    <3>6. \A v \in Voids : voidingNow(v)' => voiding'[v].invoice # payment'[s].invoice
      BY <1>3, <2>1, <3>1 DEF Money, QueuedUpdates, voidingNow
    <3>7. QED
      BY <3>4, <3>5, <3>6
  <2>2. ASSUME NEW v \in Voids, voidingNow(v)', voiding'[v].invoice \in Queued
        PROVE  invoice'[voiding'[v].invoice].paid = 0
    <3>1. voidingNow(v) /\ voiding'[v] = voiding[v] /\ voiding[v].invoice \in Issues
      BY <1>3, <2>2, UpdateFacts DEF voidingNow
    <3>2. voiding[v].invoice # r
      BY <1>12, <2>2, <3>1
    <3>3. QED
      BY <1>6, <2>2, <3>1, <3>2 DEF Money, QueuedUpdates
  <2>3. QED
    BY <2>1, <2>2 DEF QueuedUpdates
<1>17. QED
  BY <1>13, <1>14, <1>15, <1>16 DEF Money

(* A void that writes finds the invoice as it read it: without money.      *)
LEMMA WriteVoidMoney ==
    ASSUME Inv, Money, NEW v \in Voids, WriteVoid(v)
    PROVE  Money'
<1>1. PICK r \in Issues : r = voiding[v].invoice
  BY UpdateFacts DEF WriteVoid, voidingNow
<1>2. voidingNow(v) /\ exists(r) /\ TypeOK /\ voiding \in [Voids -> VoidState]
  BY <1>1, UpdateFacts DEF WriteVoid, voidingNow, Inv, TypeOK
<1> DEFINE row == voided(invoice[r])
<1>3. /\ invoice' = [invoice EXCEPT ![r] = row] /\ UNCHANGED <<payment, outbox>>
      /\ voiding' = [voiding EXCEPT ![v] = [pc |-> "VOIDED", invoice |-> r]]
  BY <1>1 DEF WriteVoid
<1>4. /\ row \in InvoiceRow /\ row.paid = invoice[r].paid /\ row.total = invoice[r].total
      /\ row.hotel = invoice[r].hotel /\ row.status = "VOID" /\ row # NoRow
  <2>1. invoice[r] \in InvoiceRow
    BY <1>2, InvoiceFacts
  <2>2. /\ row \in InvoiceRow /\ row.paid = invoice[r].paid /\ row.total = invoice[r].total
        /\ row.hotel = invoice[r].hotel /\ row.status = "VOID"
    BY <2>1 DEF InvoiceRow, voided
  <2>3. QED
    BY <2>2, NoRowAssumption
<1> HIDE DEF row
<1>5. /\ invoice'[r] = row /\ \A t \in Issues : t # r => invoice'[t] = invoice[t]
      /\ issued' = issued /\ \A t \in issued : announcedBalance(t)' = announcedBalance(t)
  BY <1>2, <1>3, <1>4, UpdatedRow
<1>6. /\ voiding'[v].pc = "VOIDED" /\ voiding'[v].invoice = r
      /\ \A w \in Voids : w # v => voiding'[w] = voiding[w]
  BY <1>2, <1>3
<1>7. \A t \in issued : invoice'[t].paid = invoice[t].paid /\ invoice'[t].total = invoice[t].total
                        /\ invoice'[t].hotel = invoice[t].hotel
  BY <1>4, <1>5 DEF issued
<1>8. QueuedInvoices'
  <2>1. \A t \in issued : recorded(t)' = recorded(t) /\ received(t)' = received(t)
    BY <1>3 DEF recorded, received
  <2>2. QED
    BY <1>5, <1>7, <2>1 DEF Money, QueuedInvoices
<1>9. VoidIsFinal'
  <2>1. r \in Queued => invoice[r].paid = 0
    BY <1>1, <1>2 DEF Money, QueuedUpdates
  <2>2. SUFFICES ASSUME NEW t \in issued, t \in Queued,
                        NEW w \in Voids, voiding'[w].pc = "VOIDED", voiding'[w].invoice = t
                 PROVE  invoice'[t].status = "VOID" /\ invoice'[t].paid = 0
    BY <1>5 DEF VoidIsFinal
  <2>3. t \in Issues
    BY DEF issued
  <2>4. CASE t = r
    BY <1>4, <1>5, <2>1, <2>2, <2>4
  <2>5. CASE t # r
    <3>1. w # v
      BY <1>6, <2>2, <2>5
    <3>2. voiding[w].pc = "VOIDED" /\ voiding[w].invoice = t
      BY <1>6, <2>2, <3>1
    <3>3. invoice[t].status = "VOID" /\ invoice[t].paid = 0
      BY <2>2, <3>2 DEF Money, VoidIsFinal
    <3>4. QED
      BY <1>5, <2>3, <2>5, <3>3
  <2>6. QED
    BY <2>4, <2>5
<1>10. OutcomesFindRow' /\ FinitelyRecorded' /\ EveryInvoiceAnnounced'
  <2>1. \A t \in Issues : exists(t) => exists(t)'
    BY <1>4, <1>5 DEF exists
  <2>2. \A p \in Payments : payment[p].pc = "RECORDED" => payment[p].invoice \in Issues
    BY UpdateFacts
  <2>3. \A w \in Voids : voiding'[w].pc = "VOIDED" =>
           voiding'[w].invoice \in Issues /\ exists(voiding'[w].invoice)
    BY <1>2, <1>6 DEF Money, OutcomesFindRow, TypeOK, VoidState
  <2>4. OutcomesFindRow'
    BY <1>3, <2>1, <2>2, <2>3 DEF Money, OutcomesFindRow, exists
  <2>5. FinitelyRecorded'
    BY <1>3 DEF Money, FinitelyRecorded
  <2>6. EveryInvoiceAnnounced'
    BY <1>3, <1>5, <1>7 DEF Money, EveryInvoiceAnnounced
  <2>7. QED
    BY <2>4, <2>5, <2>6
<1>11. QueuedUpdates'
  <2>1. ASSUME NEW s \in Payments, recording(s)', payment'[s].invoice \in Queued
        PROVE  /\ paymentHolds(s)'
               /\ \A u \in Payments :
                     recording(u)' /\ payment'[u].invoice = payment'[s].invoice => u = s
               /\ \A w \in Voids : voidingNow(w)' => voiding'[w].invoice # payment'[s].invoice
    <3>1. payment'[s] = payment[s] /\ recording(s) /\ payment[s].invoice \in Issues
      BY <1>3, <2>1, UpdateFacts DEF recording
    <3>2. payment[s].invoice # r
      BY <1>1, <1>2, <2>1, <3>1 DEF Money, QueuedUpdates
    <3>3. invoice'[payment[s].invoice] = invoice[payment[s].invoice]
      BY <1>5, <3>1, <3>2
    <3>4. paymentHolds(s)'
      BY <2>1, <3>1, <3>3 DEF Money, QueuedUpdates, paymentHolds
    <3>5. \A u \in Payments :
             recording(u)' /\ payment'[u].invoice = payment'[s].invoice => u = s
      BY <1>3, <2>1, <3>1 DEF Money, QueuedUpdates, recording
    <3>6. \A w \in Voids : voidingNow(w)' => voiding'[w].invoice # payment'[s].invoice
      BY <1>6, <2>1, <3>1 DEF Money, QueuedUpdates, voidingNow
    <3>7. QED
      BY <3>4, <3>5, <3>6
  <2>2. ASSUME NEW w \in Voids, voidingNow(w)', voiding'[w].invoice \in Queued
        PROVE  invoice'[voiding'[w].invoice].paid = 0
    <3>1. voidingNow(w) /\ voiding'[w] = voiding[w] /\ voiding[w].invoice \in issued
      BY <1>6, <2>2, UpdateFacts DEF voidingNow, issued
    <3>2. QED
      BY <1>7, <2>2, <3>1 DEF Money, QueuedUpdates
  <2>3. QED
    BY <2>1, <2>2 DEF QueuedUpdates
<1>12. QED
  BY <1>8, <1>9, <1>10, <1>11 DEF Money

(* Every step keeps the money in order.                                    *)
LEMMA MoneyStep ==
    ASSUME Inv, Inv', BalanceIsAnnounced, BalanceIsAnnounced', Money, [Next]_vars
    PROVE  Money'
<1>1. CASE NewYear \/ UNCHANGED vars
  BY <1>1, QuietMoney DEF NewYear, requests, tables, vars
<1>2. ASSUME NEW r \in Issues, Issue(r) PROVE Money'
  BY <1>2, IssueMoney, QuietMoney DEF Issue, LookUpStay, IssueRefused, tables
<1>3. ASSUME NEW p \in Payments, RecordPayment(p) PROVE Money'
  BY <1>3, ReadPaymentMoney, WritePaymentMoney DEF RecordPayment
<1>4. ASSUME NEW v \in Voids, Void(v) PROVE Money'
  BY <1>4, ReadVoidMoney, WriteVoidMoney DEF Void
<1>5. QED
  BY <1>1, <1>2, <1>3, <1>4 DEF Next

(* So it stays in order.                                                   *)
LEMMA MoneyInvariance == Spec => []Money
<1>1. Inv /\ Inv' /\ BalanceIsAnnounced /\ BalanceIsAnnounced' /\ Money /\ [Next]_vars => Money'
  BY MoneyStep
<1>2. QED
  BY InitMoney, Invariance, OneAnnouncement, <1>1, PTL DEF Spec

(* recordPayment: 'The payment exceeds the outstanding balance.' Where the *)
(* handlers of an invoice take turns, its row has what was announced as    *)
(* paid and everything recorded since, which never exceeds what was        *)
(* announced as due.                                                       *)
THEOREM PaymentsAddUpHolds == Spec => []PaymentsAddUp
<1>1. Inv /\ BalanceIsAnnounced /\ Money => PaymentsAddUp
  <2> SUFFICES ASSUME Inv, BalanceIsAnnounced, Money, NEW r \in issued, r \in Queued
               PROVE  /\ recorded(r) # {} => received(r) <= announcedBalance(r)
                      /\ invoice[r].paid = invoice[r].total - announcedBalance(r) + received(r)
    BY DEF PaymentsAddUp
  <2>1. /\ invoice[r].paid = invoice[r].total - announcedBalance(r) + received(r)
        /\ recorded(r) # {} => invoice[r].paid <= invoice[r].total
    BY DEF Money, QueuedInvoices
  <2>2. announcedBalance(r) \in Int
    BY DEF BalanceIsAnnounced, Money, EveryInvoiceAnnounced
  <2>3. invoice[r].paid \in Nat /\ invoice[r].total \in Int
    BY InvoiceFacts DEF Inv, issued
  <2>4. received(r) \in Nat
    <3>1. IsFiniteSet(recorded(r))
      <4>1. recorded(r) \subseteq {s \in Payments : payment[s].pc = "RECORDED"}
        BY DEF recorded
      <4>2. QED
        BY <4>1, FS_Subset DEF Money, FinitelyRecorded
    <3>2. [s \in recorded(r) |-> payment[s].amount] \in [recorded(r) -> Nat]
      BY UpdateFacts DEF recorded
    <3>3. QED
      BY <3>1, <3>2, SumFunctionIsNat DEF received
  <2>5. QED
    BY <2>1, <2>2, <2>3, <2>4
<1>2. QED
  BY <1>1, Invariance, OneAnnouncement, MoneyInvariance, PTL

(* void: 'Refund the payment before voiding this invoice.' An invoice that *)
(* was voided stays void and has no money on it, where its handlers take   *)
(* turns.                                                                  *)
THEOREM VoidIsFinalHolds == Spec => []VoidIsFinal
<1>1. Money => VoidIsFinal
  BY DEF Money
<1>2. QED
  BY <1>1, MoneyInvariance, PTL

-----------------------------------------------------------------------------
(* A behaviour of the services behind the front desk is one of finance, so *)
(* the theorems above hold of every one of them.                           *)
THEOREM FinanceInOperations == OperationsSpec => Spec
<1>1. OperationsInit => Init
  BY DEF OperationsInit
<1>2. [OperationsNext]_operationsVars => [Next]_vars
  BY DEF OperationsNext, operationsVars, finance, frontDesk, rooms, housekeeping, maintenance,
         billing
<1>3. QED
  BY <1>1, <1>2, PTL DEF OperationsSpec, Spec

-----------------------------------------------------------------------------
(* Rooms. A request that changes or blocks a room found it, and a room     *)
(* that was never inserted has no history. Of a queued room no two         *)
(* requests are under way, so what one has read is still so.               *)

Change == [from : RoomService!RoomStatus, to : RoomService!RoomStatus]

RoomEvents ==
    [type : {"ROOM_STATUS_CHANGED"}, previous : RoomService!RoomStatus,
     status : RoomService!RoomStatus]
    \cup [type : {"ROOM_UPSERTED"}, status : RoomService!RoomStatus]

Finds(r) ==
    /\ r.pc \in {"CHANGE", "BLOCK", "UNBLOCK"} =>
          \E n \in Numbers : r.rooms = <<n>> /\ RoomService!exists(n)
    /\ r.pc = "CHANGE" => r.from \in RoomService!RoomStatus /\ r.to \in RoomService!RoomStatus
    /\ r.pc = "INSERT" => r = [pc |-> "INSERT", rooms |-> r.rooms]

FindsRoom(h) == Finds(desk[h])

RoomInv ==
    /\ room \in [Numbers -> RoomService!RoomRow \cup {NoRoom}]
    /\ history \in [Numbers -> Seq(Change)]
    /\ roomOutbox \in [Numbers -> Seq(RoomEvents)]
    /\ desk = [h \in Desks |-> desk[h]]
    /\ \A h \in Desks : FindsRoom(h)
    /\ \A n \in Numbers : ~ RoomService!exists(n) => history[n] = <<>>
    /\ SameSequenceOfChanges

RoomStep(h) ==
    \/ RoomService!createRoom(h) \/ RoomService!generateFloor(h)
    \/ RoomService!changeStatus(h) \/ RoomService!block(h) \/ RoomService!unblock(h)
    \/ RoomService!Crash(h)

(* No room, no request and nothing announced at first.                     *)
LEMMA RoomInit == OperationsInit => RoomInv
<1> SUFFICES ASSUME OperationsInit PROVE RoomInv
  OBVIOUS
<1> USE DEF OperationsInit, RoomService!Init
<1>1. ASSUME NEW n \in Numbers
      PROVE  RoomService!announcedAt(n) = {} /\ ~ RoomService!exists(n)
  BY DEF RoomService!announcedAt, RoomService!exists
<1>2. RoomService!Cardinality({}) = 0
  BY DEF RoomService!Cardinality
<1>3. SameSequenceOfChanges
  BY <1>1, <1>2 DEF SameSequenceOfChanges, RoomService!SameSequenceOfChanges
<1>4. QED
  BY <1>1, <1>3 DEF RoomInv, FindsRoom, Finds, RoomService!Free

(* An event that tells of no change leaves the announced ones where they   *)
(* are, and their number in the order.                                     *)
LEMMA UpsertKeepsPlaces ==
    ASSUME RoomInv, NEW n \in Numbers,
           NEW e \in [type : {"ROOM_UPSERTED"}, status : RoomService!RoomStatus],
           roomOutbox'[n] = Append(roomOutbox[n], e)
    PROVE  /\ RoomService!announcedAt(n)' = RoomService!announcedAt(n)
           /\ \A i \in RoomService!announcedAt(n) : roomOutbox'[n][i] = roomOutbox[n][i]
<1>1. roomOutbox[n] \in Seq(RoomEvents) /\ e.type = "ROOM_UPSERTED" /\ e \in RoomEvents
  BY DEF RoomInv, RoomEvents
<1>2. /\ DOMAIN roomOutbox'[n] = DOMAIN roomOutbox[n] \cup {Len(roomOutbox[n]) + 1}
      /\ roomOutbox'[n][Len(roomOutbox[n]) + 1] = e
      /\ \A i \in DOMAIN roomOutbox[n] : roomOutbox'[n][i] = roomOutbox[n][i]
  BY <1>1
<1>3. QED
  BY <1>1, <1>2 DEF RoomService!announcedAt

(* The place of a change that is announced comes after all earlier ones.   *)
LEMMA ChangeAddsPlace ==
    ASSUME RoomInv, NEW n \in Numbers,
           NEW e \in [type : {"ROOM_STATUS_CHANGED"}, previous : RoomService!RoomStatus,
                      status : RoomService!RoomStatus],
           roomOutbox'[n] = Append(roomOutbox[n], e)
    PROVE  LET next == Len(roomOutbox[n]) + 1 IN
           /\ RoomService!announcedAt(n)' = RoomService!announcedAt(n) \cup {next}
           /\ RoomService!announcedAt(n) \subseteq 1 .. Len(roomOutbox[n])
           /\ next \in Nat
           /\ roomOutbox'[n][next] = e
           /\ \A i \in RoomService!announcedAt(n) : roomOutbox'[n][i] = roomOutbox[n][i]
<1>1. roomOutbox[n] \in Seq(RoomEvents) /\ e.type = "ROOM_STATUS_CHANGED" /\ e \in RoomEvents
  BY DEF RoomInv, RoomEvents
<1>2. /\ DOMAIN roomOutbox'[n] = DOMAIN roomOutbox[n] \cup {Len(roomOutbox[n]) + 1}
      /\ roomOutbox'[n][Len(roomOutbox[n]) + 1] = e
      /\ \A i \in DOMAIN roomOutbox[n] : roomOutbox'[n][i] = roomOutbox[n][i]
  BY <1>1
<1>3. DOMAIN roomOutbox[n] = 1 .. Len(roomOutbox[n]) /\ Len(roomOutbox[n]) \in Nat
  BY <1>1
<1>4. QED
  BY <1>1, <1>2, <1>3 DEF RoomService!announcedAt

(* What one room shows of its changes.                                     *)
TellsChanges(n) ==
    LET changes == history[n] IN
    /\ Cardinality(RoomService!announcedAt(n)) = Len(changes)
    /\ \A i \in RoomService!announcedAt(n) :
          LET change == changes[Cardinality(
                                   {k \in RoomService!announcedAt(n) : k <= i})] IN
          roomOutbox[n][i] = [type |-> "ROOM_STATUS_CHANGED",
                              previous |-> change.from, status |-> change.to]

(* A change that is recorded and announced is the next one of both.        *)
LEMMA ChangeTold ==
    ASSUME RoomInv, NEW n \in Numbers, TellsChanges(n), NEW change \in Change,
           history'[n] = Append(history[n], change),
           roomOutbox'[n] = Append(roomOutbox[n],
              [type |-> "ROOM_STATUS_CHANGED", previous |-> change.from, status |-> change.to])
    PROVE  TellsChanges(n)'
<1> DEFINE places == RoomService!announcedAt(n)
           next == Len(roomOutbox[n]) + 1
           e == [type |-> "ROOM_STATUS_CHANGED", previous |-> change.from, status |-> change.to]
           upto(i) == {k \in places : k <= i}
<1>1. /\ RoomService!announcedAt(n)' = places \cup {next}
      /\ places \subseteq 1 .. Len(roomOutbox[n])
      /\ next \in Nat
      /\ roomOutbox'[n][next] = e
      /\ \A i \in places : roomOutbox'[n][i] = roomOutbox[n][i]
  BY ChangeAddsPlace DEF Change
<1>3. /\ history[n] \in Seq(Change)
      /\ Len(history'[n]) = Len(history[n]) + 1
      /\ history'[n][Len(history[n]) + 1] = change
      /\ \A k \in 1 .. Len(history[n]) : history'[n][k] = history[n][k]
  BY DEF RoomInv
<1>4. IsFiniteSet(places) /\ next \notin places
  <2>1. Len(roomOutbox[n]) \in Nat
    BY DEF RoomInv
  <2>2. IsFiniteSet(1 .. Len(roomOutbox[n]))
    <3>1. \A m \in Nat : IsFiniteSet(1 .. m)
      BY FS_Interval
    <3>2. QED
      BY <2>1, <3>1
  <2>3. IsFiniteSet(places)
    BY <1>1, <2>2, FS_Subset
  <2>4. next \notin places
    BY <1>1, <2>1
  <2>5. QED
    BY <2>3, <2>4
<1>5. /\ Cardinality(places) = Len(history[n])
      /\ Cardinality(places \cup {next}) = Len(history[n]) + 1
  <2>1. Cardinality(places) = Len(history[n])
    BY DEF TellsChanges
  <2>2. Cardinality(places \cup {next}) = Cardinality(places) + 1
    BY <1>4, FS_AddElement
  <2>3. QED
    BY <2>1, <2>2
<1>6. \A i \in places : {k \in places \cup {next} : k <= i} = upto(i)
  BY <1>1
<1>7. {k \in places \cup {next} : k <= next} = places \cup {next}
  BY <1>1
<1>8. ASSUME NEW i \in places PROVE Cardinality(upto(i)) \in 1 .. Len(history[n])
  <2>1. IsFiniteSet(upto(i)) /\ Cardinality(upto(i)) <= Cardinality(places)
    BY <1>4, FS_Subset
  <2>2. i \in upto(i)
    BY <1>1
  <2>3. Cardinality(upto(i)) \in Nat \ {0}
    BY <2>1, <2>2, FS_EmptySet, FS_CardinalityType
  <2>4. QED
    BY <1>3, <1>5, <2>1, <2>3
<1>9. \A i \in places : roomOutbox[n][i] =
         [type |-> "ROOM_STATUS_CHANGED", previous |-> history[n][Cardinality(upto(i))].from,
          status |-> history[n][Cardinality(upto(i))].to]
  BY DEF TellsChanges
<1> HIDE DEF places, next, upto
<1>10. ASSUME NEW i \in places \cup {next}
       PROVE  roomOutbox'[n][i] =
                 [type |-> "ROOM_STATUS_CHANGED",
                  previous |-> history'[n][Cardinality({k \in places \cup {next} : k <= i})].from,
                  status |-> history'[n][Cardinality({k \in places \cup {next} : k <= i})].to]
  <2>1. CASE i \in places
    BY <1>1, <1>3, <1>6, <1>8, <1>9, <2>1
  <2>2. CASE i = next
    BY <1>1, <1>3, <1>5, <1>7, <2>2
  <2>3. QED
    BY <2>1, <2>2
<1>11. QED
  BY <1>1, <1>3, <1>5, <1>10 DEF TellsChanges

(* What the rooms show is what every one of them does.                     *)
RoomTells(n) ==
    /\ TellsChanges(n)
    /\ RoomService!exists(n) => room[n].status =
          IF history[n] = <<>> THEN RoomService!newRoom.status
          ELSE RoomService!Last(history[n]).to

(* RoomService counts with the operator of FiniteSets.                     *)
LEMMA RoomsTell ==
    /\ SameSequenceOfChanges <=> \A n \in Numbers : RoomTells(n)
    /\ SameSequenceOfChanges' <=> (\A n \in Numbers : RoomTells(n))'
<1>1. \A S : RoomService!Cardinality(S) = Cardinality(S)
  BY DEF RoomService!Cardinality, Cardinality
<1>2. SameSequenceOfChanges <=> \A n \in Numbers : RoomTells(n)
  BY <1>1 DEF SameSequenceOfChanges, RoomService!SameSequenceOfChanges, RoomTells, TellsChanges
<1>3. SameSequenceOfChanges' <=> (\A n \in Numbers : RoomTells(n))'
  BY <1>1 DEF SameSequenceOfChanges, RoomService!SameSequenceOfChanges, RoomTells, TellsChanges
<1>4. QED
  BY <1>2, <1>3

-----------------------------------------------------------------------------
(* The steps of room-service. *)

(* A room tells the same as before when what it shows of its changes, and  *)
(* where they are announced, are as they were.                             *)
LEMMA TellsKept ==
    ASSUME NEW n \in Numbers, RoomTells(n), history'[n] = history[n],
           RoomService!announcedAt(n)' = RoomService!announcedAt(n),
           \A i \in RoomService!announcedAt(n) : roomOutbox'[n][i] = roomOutbox[n][i],
           RoomService!exists(n)' =>
              room'[n].status = IF history[n] = <<>> THEN RoomService!newRoom.status
                                ELSE RoomService!Last(history[n]).to
    PROVE  RoomTells(n)'
<1>1. TellsChanges(n)'
  BY DEF RoomTells, TellsChanges
<1>2. QED
  BY <1>1 DEF RoomTells, RoomService!newRoom, RoomService!Last

(* So does a room whose row, history and outbox are as they were.          *)
LEMMA TellsSame ==
    ASSUME NEW n \in Numbers, RoomTells(n),
           history'[n] = history[n], roomOutbox'[n] = roomOutbox[n],
           RoomService!exists(n)' => RoomService!exists(n) /\ room'[n].status = room[n].status
    PROVE  RoomTells(n)'
<1>1. RoomService!announcedAt(n)' = RoomService!announcedAt(n)
  BY DEF RoomService!announcedAt
<1>2. QED
  BY <1>1, TellsKept DEF RoomTells

(* A request that is taken up, goes on or ends changes no room.            *)
LEMMA DeskMoves ==
    ASSUME RoomInv, NEW h \in Desks, NEW r, Finds(r), UNCHANGED <<room, history, roomOutbox>>,
           desk' = [desk EXCEPT ![h] = r]
    PROVE  RoomInv'
<1>1. \A k \in Desks : desk'[k] = IF k = h THEN r ELSE desk[k]
  BY DEF RoomInv
<1>2. ASSUME NEW k \in Desks PROVE FindsRoom(k)'
  BY <1>1 DEF RoomInv, FindsRoom, Finds, RoomService!exists
<1>3. SameSequenceOfChanges'
  <2>1. ASSUME NEW n \in Numbers PROVE RoomTells(n)'
    BY RoomsTell, TellsSame DEF RoomInv, RoomService!exists
  <2>2. QED
    BY <2>1, RoomsTell
<1>4. QED
  BY <1>1, <1>2, <1>3 DEF RoomInv, RoomService!exists

(* A request is taken up with what it read of a room that is there.        *)
LEMMA RoomReads ==
    ASSUME RoomInv, RoomsAssumption, NEW h \in Desks,
           \/ RoomService!ReadForCreate(h) \/ RoomService!ReadForFloor(h)
           \/ RoomService!ReadForStatus(h) \/ RoomService!ReadForBlock(h)
           \/ RoomService!ReadForUnblock(h)
    PROVE  RoomInv'
<1>1. ASSUME NEW r, RoomService!begin(h, r), Finds(r), UNCHANGED <<room, history, roomOutbox>>
      PROVE  RoomInv'
  BY <1>1, DeskMoves DEF RoomService!begin
<1>2. CASE RoomService!ReadForCreate(h)
  BY <1>1, <1>2 DEF RoomService!ReadForCreate, Finds
<1>3. CASE RoomService!ReadForFloor(h)
  BY <1>1, <1>3 DEF RoomService!ReadForFloor, Finds
<1>4. CASE RoomService!ReadForStatus(h)
  <2>1. PICK n \in Numbers, to \in Targets :
           /\ RoomService!exists(n)
           /\ RoomService!begin(h, [pc |-> "CHANGE", rooms |-> <<n>>,
                                    from |-> room[n].status, to |-> to])
    BY <1>4 DEF RoomService!ReadForStatus
  <2>2. room[n].status \in RoomService!RoomStatus /\ to \in RoomService!RoomStatus
    BY <2>1 DEF RoomInv, RoomService!exists, RoomService!RoomRow, RoomsAssumption
  <2>3. UNCHANGED <<room, history, roomOutbox>>
    BY <1>4 DEF RoomService!ReadForStatus
  <2>4. QED
    BY <1>1, <2>1, <2>2, <2>3 DEF Finds
<1>5. CASE RoomService!ReadForBlock(h)
  BY <1>1, <1>5 DEF RoomService!ReadForBlock, Finds
<1>6. CASE RoomService!ReadForUnblock(h)
  BY <1>1, <1>6 DEF RoomService!ReadForUnblock, Finds
<1>7. QED
  BY <1>2, <1>3, <1>4, <1>5, <1>6

(* A room is inserted before it has any change, in the status it starts in.*)
LEMMA RoomsInserted ==
    ASSUME RoomInv, RoomsAssumption, NEW h \in Desks, RoomService!InsertRooms(h)
    PROVE  RoomInv'
<1> DEFINE plan == desk[h].rooms
<1>1. desk[h].pc = "INSERT" /\ desk[h] = [pc |-> "INSERT", rooms |-> plan]
  BY DEF RoomInv, FindsRoom, Finds, RoomService!InsertRooms
<1>2. UNCHANGED <<history, roomOutbox>>
  BY DEF RoomService!InsertRooms
<1>3. CASE \E n \in RoomService!Range(plan) : RoomService!exists(n)
  <2>1. desk' = [desk EXCEPT ![h] = RoomService!Free] /\ UNCHANGED room
    BY <1>3 DEF RoomService!InsertRooms
  <2>2. Finds(RoomService!Free)
    BY DEF Finds, RoomService!Free
  <2>3. QED
    BY <1>2, <2>1, <2>2, DeskMoves
<1>4. CASE ~ \E n \in RoomService!Range(plan) : RoomService!exists(n)
  <2>1. /\ room' = [n \in Numbers |-> IF n \in RoomService!Range(plan)
                                      THEN RoomService!newRoom ELSE room[n]]
        /\ desk' = [desk EXCEPT ![h].pc = "PUBLISH"]
    BY <1>4 DEF RoomService!InsertRooms
  <2>2. \A k \in Desks : desk'[k] = IF k = h THEN [pc |-> "PUBLISH", rooms |-> plan] ELSE desk[k]
    <3>1. \A k \in Desks : desk'[k] = IF k = h THEN [desk[h] EXCEPT !.pc = "PUBLISH"] ELSE desk[k]
      BY <2>1 DEF RoomInv
    <3>2. [desk[h] EXCEPT !.pc = "PUBLISH"] = [pc |-> "PUBLISH", rooms |-> plan]
      BY <1>1
    <3>3. QED
      BY <3>1, <3>2
  <2>3. RoomService!newRoom \in RoomService!RoomRow /\ RoomService!newRoom # NoRoom
    <3>1. RoomService!newRoom \in RoomService!RoomRow
      BY DEF RoomService!newRoom, RoomService!RoomRow, RoomService!RoomStatus
    <3>2. QED
      BY <3>1 DEF RoomsAssumption
  <2>4. \A n \in Numbers : RoomService!exists(n) => room'[n] = room[n] /\ RoomService!exists(n)'
    BY <1>4, <2>1 DEF RoomService!exists
  <2>5. ASSUME NEW k \in Desks PROVE FindsRoom(k)'
    <3>1. CASE k = h
      BY <2>2, <3>1 DEF FindsRoom, Finds
    <3>2. CASE k # h
      <4>1. desk'[k] = desk[k] /\ FindsRoom(k)
        BY <2>2, <3>2 DEF RoomInv
      <4>2. QED
        BY <2>4, <4>1 DEF FindsRoom, Finds
    <3>3. QED
      BY <3>1, <3>2
  <2>6. ASSUME NEW n \in Numbers PROVE RoomTells(n)'
    <3>1. RoomTells(n)
      BY RoomsTell DEF RoomInv
    <3>2. CASE RoomService!exists(n)
      BY <1>2, <2>4, <3>1, <3>2, TellsSame
    <3>3. CASE ~ RoomService!exists(n)
      <4>1. history[n] = <<>>
        BY <3>3 DEF RoomInv
      <4>2. RoomService!exists(n)' => room'[n].status = RoomService!newRoom.status
        BY <2>1, <3>3 DEF RoomService!exists
      <4>3. RoomService!announcedAt(n)' = RoomService!announcedAt(n)
        BY <1>2 DEF RoomService!announcedAt
      <4>4. QED
        BY <1>2, <3>1, <4>1, <4>2, <4>3, TellsKept
    <3>4. QED
      BY <3>2, <3>3
  <2>7. room' \in [Numbers -> RoomService!RoomRow \cup {NoRoom}]
    BY <2>1, <2>3 DEF RoomInv
  <2>8. \A n \in Numbers : ~ RoomService!exists(n)' => history'[n] = <<>>
    BY <1>2, <2>4 DEF RoomInv
  <2>9. SameSequenceOfChanges'
    BY <2>6, RoomsTell
  <2>10. desk' = [k \in Desks |-> desk'[k]]
    BY <2>1 DEF RoomInv
  <2>11. QED
    BY <1>2, <2>5, <2>7, <2>8, <2>9, <2>10 DEF RoomInv
<1>5. QED
  BY <1>3, <1>4

(* A room that is announced is no change of it.                            *)
LEMMA RoomUpserted ==
    ASSUME RoomInv, NEW h \in Desks, RoomService!PublishRoomUpserted(h)
    PROVE  RoomInv'
<1> DEFINE n == Head(desk[h].rooms)
           rest == Tail(desk[h].rooms)
           e == [type |-> "ROOM_UPSERTED", status |-> RoomService!newRoom.status]
           r == IF rest = <<>> THEN RoomService!Free ELSE [pc |-> "PUBLISH", rooms |-> rest]
<1>1. /\ roomOutbox' = [roomOutbox EXCEPT ![n] = Append(@, e)]
      /\ desk' = [desk EXCEPT ![h] = r]
      /\ UNCHANGED <<room, history>>
  BY DEF RoomService!PublishRoomUpserted
<1>2. /\ e \in [type : {"ROOM_UPSERTED"}, status : RoomService!RoomStatus]
      /\ e \in RoomEvents
  BY DEF RoomService!newRoom, RoomService!RoomStatus, RoomEvents
<1>3. Finds(r)
  BY DEF Finds, RoomService!Free
<1>4. \A k \in Desks : desk'[k] = IF k = h THEN r ELSE desk[k]
  BY <1>1 DEF RoomInv
<1> HIDE DEF n, rest, e, r
<1>5. ASSUME NEW k \in Desks PROVE FindsRoom(k)'
  BY <1>1, <1>3, <1>4 DEF RoomInv, FindsRoom, Finds, RoomService!exists
<1>6. ASSUME NEW m \in Numbers PROVE RoomTells(m)'
  <2>1. RoomTells(m)
    BY RoomsTell DEF RoomInv
  <2>2. CASE m # n
    <3>1. roomOutbox'[m] = roomOutbox[m]
      BY <1>1, <2>2 DEF RoomInv
    <3>2. QED
      BY <1>1, <2>1, <3>1, TellsSame DEF RoomService!exists
  <2>3. CASE m = n
    <3>1. roomOutbox'[m] = Append(roomOutbox[m], e)
      BY <1>1, <2>3 DEF RoomInv
    <3>2. /\ RoomService!announcedAt(m)' = RoomService!announcedAt(m)
          /\ \A i \in RoomService!announcedAt(m) : roomOutbox'[m][i] = roomOutbox[m][i]
      BY <1>2, <3>1, UpsertKeepsPlaces
    <3>3. QED
      BY <1>1, <2>1, <3>2, TellsKept DEF RoomTells, RoomService!exists
  <2>4. QED
    BY <2>2, <2>3
<1>7. SameSequenceOfChanges'
  BY <1>6, RoomsTell
<1>8. roomOutbox' \in [Numbers -> Seq(RoomEvents)]
  <2>1. \A m \in Numbers : Append(roomOutbox[m], e) \in Seq(RoomEvents)
    BY <1>2 DEF RoomInv
  <2>2. QED
    BY <1>1, <2>1 DEF RoomInv
<1>9. desk' = [k \in Desks |-> desk'[k]]
  BY <1>1 DEF RoomInv
<1>10. QED
  BY <1>1, <1>5, <1>7, <1>8, <1>9 DEF RoomInv, RoomService!exists

(* A change of status is recorded, announced and shown at once.            *)
LEMMA StatusChanges ==
    ASSUME RoomInv, RoomsAssumption, NEW h \in Desks, RoomService!ChangeStatus(h)
    PROVE  RoomInv'
<1>1. PICK n \in Numbers, change \in Change :
         /\ n = Head(desk[h].rooms) /\ RoomService!exists(n)
         /\ change = [from |-> desk[h].from, to |-> desk[h].to]
  BY DEF RoomInv, FindsRoom, Finds, RoomService!ChangeStatus, Change
<1> DEFINE e == [type |-> "ROOM_STATUS_CHANGED", previous |-> change.from, status |-> change.to]
<1>2. /\ room' = [room EXCEPT ![n].status = change.to]
      /\ history' = [history EXCEPT ![n] = Append(@, change)]
      /\ roomOutbox' = [roomOutbox EXCEPT ![n] = @ \o RoomService!statusEvents(change.from, change.to)]
      /\ desk' = [desk EXCEPT ![h] = RoomService!Free]
  BY <1>1 DEF RoomService!ChangeStatus
<1>3. /\ history[n] \in Seq(Change) /\ roomOutbox[n] \in Seq(RoomEvents)
      /\ room[n] \in RoomService!RoomRow
      /\ e \in RoomEvents
  BY <1>1 DEF RoomInv, RoomService!exists, RoomEvents, Change
<1>4. history'[n] = Append(history[n], change) /\ roomOutbox'[n] = Append(roomOutbox[n], e)
  <2>1. roomOutbox'[n] = roomOutbox[n] \o <<e>>
    BY <1>1, <1>2 DEF RoomInv, RoomService!statusEvents
  <2>2. roomOutbox[n] \o <<e>> = Append(roomOutbox[n], e)
    BY <1>3
  <2>3. history'[n] = Append(history[n], change)
    BY <1>1, <1>2 DEF RoomInv
  <2>4. QED
    BY <2>1, <2>2, <2>3
<1>5. /\ room'[n] \in RoomService!RoomRow
      /\ room'[n].status = change.to
  BY <1>1, <1>2, <1>3 DEF RoomInv, RoomService!RoomRow, Change
<1>6. Finds(RoomService!Free)
  BY DEF Finds, RoomService!Free
<1>7. \A k \in Desks : desk'[k] = IF k = h THEN RoomService!Free ELSE desk[k]
  BY <1>2 DEF RoomInv
<1> HIDE DEF e
<1>8. \A m \in Numbers : m # n =>
         room'[m] = room[m] /\ history'[m] = history[m] /\ roomOutbox'[m] = roomOutbox[m]
  BY <1>2 DEF RoomInv
<1>9. \A m \in Numbers : RoomService!exists(m)' <=> RoomService!exists(m)
  BY <1>1, <1>5, <1>8 DEF RoomService!exists, RoomsAssumption
<1>10. ASSUME NEW k \in Desks PROVE FindsRoom(k)'
  BY <1>6, <1>7, <1>9 DEF RoomInv, FindsRoom, Finds
<1>11. ASSUME NEW m \in Numbers PROVE RoomTells(m)'
  <2>1. RoomTells(m)
    BY RoomsTell DEF RoomInv
  <2>2. CASE m # n
    BY <1>8, <2>1, <2>2, TellsSame DEF RoomService!exists
  <2>3. CASE m = n
    <3>1. TellsChanges(n)'
      <4>1. TellsChanges(n)
        BY <2>1, <2>3 DEF RoomTells
      <4>2. QED
        BY <1>4, <4>1, ChangeTold DEF e
    <3>2. history'[n] # <<>> /\ RoomService!Last(history'[n]) = change
      <4>1. /\ Append(history[n], change) # <<>>
            /\ Append(history[n], change)[Len(Append(history[n], change))] = change
        <5> DEFINE s == Append(history[n], change)
        <5>1. s \in Seq(Change) /\ Len(s) = Len(history[n]) + 1 /\ Len(history[n]) \in Nat
          BY <1>3
        <5>2. s[Len(history[n]) + 1] = change
          BY <1>3
        <5>3. s # <<>>
          BY <5>1
        <5>4. QED
          BY <5>1, <5>2, <5>3
      <4>2. QED
        BY <1>4, <4>1 DEF RoomService!Last
    <3>3. RoomTells(n)'
      BY <1>5, <3>1, <3>2 DEF RoomTells, RoomService!Last
    <3>4. QED
      BY <2>3, <3>3
  <2>4. QED
    BY <2>2, <2>3
<1>12. SameSequenceOfChanges'
  BY <1>11, RoomsTell
<1>13. /\ room' \in [Numbers -> RoomService!RoomRow \cup {NoRoom}]
       /\ history' \in [Numbers -> Seq(Change)]
  <2>1. Append(history[n], change) \in Seq(Change)
    BY <1>1, <1>3
  <2>2. DOMAIN room' = Numbers /\ DOMAIN history' = Numbers
        /\ room' = [m \in Numbers |-> room'[m]] /\ history' = [m \in Numbers |-> history'[m]]
    BY <1>2 DEF RoomInv
  <2>3. \A m \in Numbers : room'[m] \in RoomService!RoomRow \cup {NoRoom}
    BY <1>5, <1>8 DEF RoomInv
  <2>4. \A m \in Numbers : history'[m] \in Seq(Change)
    BY <1>4, <1>8, <2>1 DEF RoomInv
  <2>5. QED
    BY <2>2, <2>3, <2>4
<1>14. roomOutbox' \in [Numbers -> Seq(RoomEvents)]
  <2>1. Append(roomOutbox[n], e) \in Seq(RoomEvents)
    BY <1>3
  <2>2. roomOutbox' = [m \in Numbers |-> roomOutbox'[m]]
    BY <1>2 DEF RoomInv
  <2>3. QED
    BY <1>4, <1>8, <2>1, <2>2 DEF RoomInv
<1>15. desk' = [k \in Desks |-> desk'[k]]
  BY <1>2 DEF RoomInv
<1>16. \A m \in Numbers : ~ RoomService!exists(m)' => history'[m] = <<>>
  BY <1>1, <1>8, <1>9 DEF RoomInv
<1>17. QED
  BY <1>10, <1>12, <1>13, <1>14, <1>15, <1>16 DEF RoomInv

(* Blocking leaves the status alone.                                       *)
LEMMA BlockWritten ==
    ASSUME RoomInv, RoomsAssumption, NEW h \in Desks, RoomService!WriteBlock(h)
    PROVE  RoomInv'
<1> DEFINE n == Head(desk[h].rooms)
<1>1. n \in Numbers /\ RoomService!exists(n)
  BY DEF RoomInv, FindsRoom, Finds, RoomService!WriteBlock
<1>2. /\ room' = [room EXCEPT ![n].blocked = desk[h].pc = "BLOCK"]
      /\ desk' = [desk EXCEPT ![h] = RoomService!Free]
      /\ UNCHANGED <<history, roomOutbox>>
  BY DEF RoomService!WriteBlock
<1>3. room[n] \in RoomService!RoomRow
  BY <1>1 DEF RoomInv, RoomService!exists
<1>4. room'[n] \in RoomService!RoomRow /\ room'[n].status = room[n].status
  <2>1. room'[n] = [room[n] EXCEPT !.blocked = desk[h].pc = "BLOCK"]
    BY <1>1, <1>2 DEF RoomInv
  <2>2. (desk[h].pc = "BLOCK") \in BOOLEAN
    OBVIOUS
  <2>3. QED
    BY <1>3, <2>1, <2>2 DEF RoomService!RoomRow
<1>5. Finds(RoomService!Free)
  BY DEF Finds, RoomService!Free
<1>6. \A k \in Desks : desk'[k] = IF k = h THEN RoomService!Free ELSE desk[k]
  BY <1>2 DEF RoomInv
<1> HIDE DEF n
<1>7. \A m \in Numbers : m # n => room'[m] = room[m]
  BY <1>2 DEF RoomInv
<1>8. \A m \in Numbers : /\ RoomService!exists(m)' <=> RoomService!exists(m)
                         /\ room'[m].status = room[m].status
  BY <1>1, <1>4, <1>7 DEF RoomService!exists, RoomsAssumption
<1>9. ASSUME NEW k \in Desks PROVE FindsRoom(k)'
  BY <1>5, <1>6, <1>8 DEF RoomInv, FindsRoom, Finds
<1>10. SameSequenceOfChanges'
  <2>1. ASSUME NEW m \in Numbers PROVE RoomTells(m)'
    BY <1>2, <1>8, RoomsTell, TellsSame DEF RoomInv
  <2>2. QED
    BY <2>1, RoomsTell
<1>11. room' \in [Numbers -> RoomService!RoomRow \cup {NoRoom}]
  <2>1. room' = [m \in Numbers |-> room'[m]]
    BY <1>2 DEF RoomInv
  <2>2. QED
    BY <1>4, <1>7, <2>1 DEF RoomInv
<1>12. desk' = [k \in Desks |-> desk'[k]]
  BY <1>2 DEF RoomInv
<1>13. QED
  BY <1>2, <1>8, <1>9, <1>10, <1>11, <1>12 DEF RoomInv

(* Every step of any department keeps the invariant.                       *)
LEMMA RoomNext ==
    ASSUME RoomInv, RoomsAssumption, [OperationsNext]_operationsVars
    PROVE  RoomInv'
<1>1. ASSUME UNCHANGED roomVars PROVE RoomInv'
  <2>1. SameSequenceOfChanges'
    <3>1. ASSUME NEW n \in Numbers PROVE RoomTells(n)'
      BY <1>1, RoomsTell, TellsSame DEF RoomInv, roomVars, RoomService!exists
    <3>2. QED
      BY <3>1, RoomsTell
  <2>2. QED
    BY <1>1, <2>1 DEF roomVars, RoomInv, FindsRoom, Finds, RoomService!exists
<1>2. CASE rooms
  <2>1. PICK h \in Desks : RoomStep(h)
    BY <1>2 DEF rooms, RoomService!Next, RoomStep
  <2>2. CASE RoomService!Crash(h)
    <3>1. Finds(RoomService!Free)
      BY DEF Finds, RoomService!Free
    <3>2. QED
      BY <2>2, <3>1, DeskMoves DEF RoomService!Crash
  <2>3. CASE ~ RoomService!Crash(h)
    BY <2>1, <2>3, RoomReads, RoomsInserted, RoomUpserted, StatusChanges, BlockWritten
    DEF RoomStep, RoomService!createRoom, RoomService!generateFloor, RoomService!changeStatus,
        RoomService!block, RoomService!unblock
  <2>4. QED
    BY <2>2, <2>3
<1>3. CASE ~ rooms
  BY <1>1, <1>3
  DEF OperationsNext, operationsVars, finance, frontDesk, housekeeping, maintenance, billing
<1>4. QED
  BY <1>2, <1>3

(* SameSequenceOfChanges, whatever handlers overlap.                       *)
THEOREM SameSequenceOfChangesHolds == OperationsSpec => []SameSequenceOfChanges
<1>1. OperationsInit => RoomInv
  BY RoomInit
<1>2. RoomInv /\ [OperationsNext]_operationsVars => RoomInv'
  BY RoomNext, RoomsAssumption
<1>3. RoomInv => SameSequenceOfChanges
  BY DEF RoomInv
<1>4. QED
  BY <1>1, <1>2, <1>3, PTL DEF OperationsSpec

-----------------------------------------------------------------------------
(* Rooms whose handlers queue. No two requests for such a room are under   *)
(* way, so what one of them read of its status still stands when it        *)
(* writes, and only then.                                                  *)
Read(r) ==
    \A n \in QueuedRooms : r.rooms = <<n>> =>
        /\ r.pc = "CHANGE" =>
              r.from = room[n].status /\ RoomService!canTransitionRoom(r.from, r.to)
        /\ r.pc = "BLOCK" => RoomService!mayBlock(n)

Asked(r) == r.rooms \in Seq(Numbers) /\ (r.pc # "FREE" => r.rooms # <<>>)

Apart(r, s) == RoomService!Range(r.rooms) \cap RoomService!Range(s.rooms) \cap QueuedRooms = {}

QueueInv ==
    /\ \A h \in Desks : Asked(desk[h]) /\ Read(desk[h])
    /\ \A h, k \in Desks : h # k => Apart(desk[h], desk[k])

(* A request for one room, and none.                                       *)
LEMMA OneRoom ==
    /\ \A n \in Numbers : <<n>> \in Seq(Numbers) /\ <<n>> # <<>>
    /\ \A n : RoomService!Range(<<n>>) = {n}
    /\ \A n, m : <<n>> = <<m>> => n = m
    /\ RoomService!Range(<<>>) = {}
<1>1. \A n : RoomService!Range(<<n>>) = {n}
  BY DEF RoomService!Range
<1>2. RoomService!Range(<<>>) = {}
  BY DEF RoomService!Range
<1>3. \A n \in Numbers : <<n>> \in Seq(Numbers) /\ <<n>> # <<>>
  OBVIOUS
<1>4. QED
  BY <1>1, <1>2, <1>3

(* A handler that is free asks for nothing.                                *)
LEMMA FreeAsks ==
    /\ Asked(RoomService!Free) /\ Read(RoomService!Free) /\ Read(RoomService!Free)'
    /\ \A s : Apart(RoomService!Free, s)
<1>1. Asked(RoomService!Free)
  BY DEF Asked, RoomService!Free
<1>2. Read(RoomService!Free)
  BY DEF Read, RoomService!Free
<1>3. Read(RoomService!Free)'
  BY DEF Read, RoomService!Free
<1>4. \A s : Apart(RoomService!Free, s)
  BY OneRoom DEF Apart, RoomService!Free
<1>5. QED
  BY <1>1, <1>2, <1>3, <1>4

(* Nobody asks for anything at first.                                      *)
LEMMA QueueInit == OperationsInit => QueueInv
<1> SUFFICES ASSUME OperationsInit PROVE QueueInv
  OBVIOUS
<1>1. \A h \in Desks : desk[h] = RoomService!Free
  BY DEF OperationsInit, RoomService!Init
<1>2. QED
  BY <1>1, FreeAsks DEF QueueInv

(* A step of one handler that leaves alone the status of the queued rooms  *)
(* others are at.                                                          *)
LEMMA QueueMoves ==
    ASSUME RoomInv, QueueInv, NEW h \in Desks, NEW r, desk' = [desk EXCEPT ![h] = r],
           Asked(r), Read(r)',
           \A k \in Desks \ {h} : Apart(r, desk[k]),
           \A k \in Desks \ {h}, n \in QueuedRooms :
              desk[k].rooms = <<n>> /\ RoomService!exists(n) => room'[n].status = room[n].status
    PROVE  QueueInv'
<1>1. \A k \in Desks : desk'[k] = IF k = h THEN r ELSE desk[k]
  BY DEF RoomInv
<1>2. ASSUME NEW k \in Desks PROVE Asked(desk'[k]) /\ Read(desk[k])'
  <2>1. CASE k = h
    BY <1>1, <2>1 DEF Read, RoomService!mayBlock
  <2>2. CASE k # h
    <3>1. desk'[k] = desk[k] /\ Asked(desk[k]) /\ Read(desk[k]) /\ FindsRoom(k)
      BY <1>1, <2>2 DEF QueueInv, RoomInv
    <3>2. ASSUME NEW n \in QueuedRooms, desk[k].rooms = <<n>>, desk[k].pc \in {"CHANGE", "BLOCK"}
          PROVE  room'[n].status = room[n].status
      <4>1. RoomService!exists(n)
        BY <3>1, <3>2 DEF FindsRoom, Finds
      <4>2. QED
        BY <2>2, <3>2, <4>1
    <3>3. QED
      BY <3>1, <3>2 DEF Read, RoomService!mayBlock
  <2>3. QED
    BY <2>1, <2>2
<1>3. ASSUME NEW k \in Desks, NEW l \in Desks, k # l PROVE Apart(desk[k], desk[l])'
  BY <1>1, <1>3 DEF QueueInv, Apart
<1>4. QED
  BY <1>2, <1>3 DEF QueueInv, Asked

(* A request is taken up when no other is under way in its queued rooms.   *)
LEMMA QueueReads ==
    ASSUME RoomInv, QueueInv, RoomsAssumption, NEW h \in Desks,
           \/ RoomService!ReadForCreate(h) \/ RoomService!ReadForFloor(h)
           \/ RoomService!ReadForStatus(h) \/ RoomService!ReadForBlock(h)
           \/ RoomService!ReadForUnblock(h)
    PROVE  QueueInv'
<1>1. ASSUME NEW r, RoomService!begin(h, r), Asked(r), Read(r), UNCHANGED room
      PROVE  QueueInv'
  <2>1. desk' = [desk EXCEPT ![h] = r]
    BY <1>1 DEF RoomService!begin
  <2>2. \A k \in Desks \ {h} : Apart(r, desk[k])
    BY <1>1 DEF RoomService!begin, RoomService!mayTouch, RoomService!at, Apart
  <2>3. Read(r)'
    BY <1>1 DEF Read, RoomService!mayBlock
  <2>4. QED
    BY <1>1, <2>1, <2>2, <2>3, QueueMoves
<1>2. UNCHANGED room
  BY DEF RoomService!ReadForCreate, RoomService!ReadForFloor, RoomService!ReadForStatus,
         RoomService!ReadForBlock, RoomService!ReadForUnblock
<1>3. CASE RoomService!ReadForCreate(h)
  <2>1. PICK n \in Numbers : RoomService!begin(h, [pc |-> "INSERT", rooms |-> <<n>>])
    BY <1>3 DEF RoomService!ReadForCreate
  <2> DEFINE r == [pc |-> "INSERT", rooms |-> <<n>>]
  <2>2. Asked(r) /\ Read(r)
    BY OneRoom DEF Asked, Read
  <2>3. QED
    BY <1>1, <1>2, <2>1, <2>2
<1>4. CASE RoomService!ReadForFloor(h)
  <2>1. PICK plan \in Plans : RoomService!begin(h, [pc |-> "INSERT", rooms |-> plan])
    BY <1>4 DEF RoomService!ReadForFloor
  <2>2. plan \in Seq(Numbers) /\ plan # <<>>
    BY DEF RoomsAssumption
  <2>3. QED
    BY <1>1, <1>2, <2>1, <2>2 DEF Asked, Read
<1>5. CASE RoomService!ReadForStatus(h)
  <2>1. PICK n \in Numbers, to \in Targets, from \in {room[m].status : m \in Numbers} :
           /\ from = room[n].status
           /\ RoomService!canTransitionRoom(from, to)
           /\ RoomService!begin(h, [pc |-> "CHANGE", rooms |-> <<n>>, from |-> from, to |-> to])
    BY <1>5 DEF RoomService!ReadForStatus
  <2> DEFINE r == [pc |-> "CHANGE", rooms |-> <<n>>, from |-> from, to |-> to]
  <2>2. Asked(r)
    BY OneRoom DEF Asked
  <2>3. Read(r)
    BY <2>1, OneRoom DEF Read
  <2>4. QED
    BY <1>1, <1>2, <2>1, <2>2, <2>3
<1>6. CASE RoomService!ReadForBlock(h)
  <2>1. PICK n \in Numbers :
           RoomService!mayBlock(n) /\ RoomService!begin(h, [pc |-> "BLOCK", rooms |-> <<n>>])
    BY <1>6 DEF RoomService!ReadForBlock
  <2> DEFINE r == [pc |-> "BLOCK", rooms |-> <<n>>]
  <2>2. Asked(r)
    BY OneRoom DEF Asked
  <2>3. Read(r)
    BY <2>1, OneRoom DEF Read
  <2>4. QED
    BY <1>1, <1>2, <2>1, <2>2, <2>3
<1>7. CASE RoomService!ReadForUnblock(h)
  <2>1. PICK n \in Numbers : RoomService!begin(h, [pc |-> "UNBLOCK", rooms |-> <<n>>])
    BY <1>7 DEF RoomService!ReadForUnblock
  <2> DEFINE r == [pc |-> "UNBLOCK", rooms |-> <<n>>]
  <2>2. Asked(r) /\ Read(r)
    BY OneRoom DEF Asked, Read
  <2>3. QED
    BY <1>1, <1>2, <2>1, <2>2
<1>8. QED
  BY <1>3, <1>4, <1>5, <1>6, <1>7

(* The room a request goes on with is no queued room another one is at.    *)
LEMMA OthersElsewhere ==
    ASSUME QueueInv, NEW h \in Desks, desk[h].pc # "FREE", NEW k \in Desks \ {h},
           NEW n \in QueuedRooms, desk[k].rooms = <<n>>
    PROVE  Head(desk[h].rooms) # n
<1>1. desk[h].rooms \in Seq(Numbers) /\ desk[h].rooms # <<>>
  BY DEF QueueInv, Asked
<1>2. Head(desk[h].rooms) \in RoomService!Range(desk[h].rooms)
  BY <1>1 DEF RoomService!Range
<1>3. n \in RoomService!Range(desk[k].rooms)
  BY OneRoom
<1>4. Apart(desk[h], desk[k])
  BY DEF QueueInv
<1>5. QED
  BY <1>2, <1>3, <1>4 DEF Apart

(* No step of a handler comes between another's read and write of a queued *)
(* room.                                                                   *)
LEMMA QueueNext ==
    ASSUME RoomInv, QueueInv, RoomsAssumption, [OperationsNext]_operationsVars
    PROVE  QueueInv'
<1>1. CASE rooms
  <2>1. PICK h \in Desks : RoomStep(h)
    BY <1>1 DEF rooms, RoomService!Next, RoomStep
  <2>2. CASE RoomService!Crash(h)
    <3>1. UNCHANGED room /\ desk' = [desk EXCEPT ![h] = RoomService!Free]
      BY <2>2 DEF RoomService!Crash
    <3>2. QED
      BY <3>1, FreeAsks, QueueMoves
  <2>3. CASE RoomService!InsertRooms(h)
    <3>1. PICK plan \in Seq(Numbers) : desk[h] = [pc |-> "INSERT", rooms |-> plan] /\ plan # <<>>
      BY <2>3 DEF RoomInv, FindsRoom, Finds, RoomService!InsertRooms, QueueInv, Asked
    <3>2. CASE \E n \in RoomService!Range(plan) : RoomService!exists(n)
      <4>1. UNCHANGED room /\ desk' = [desk EXCEPT ![h] = RoomService!Free]
        BY <2>3, <3>1, <3>2 DEF RoomService!InsertRooms
      <4>2. QED
        BY <4>1, FreeAsks, QueueMoves
    <3>3. CASE ~ \E n \in RoomService!Range(plan) : RoomService!exists(n)
      <4> DEFINE r == [pc |-> "PUBLISH", rooms |-> plan]
      <4>1. /\ room' = [n \in Numbers |-> IF n \in RoomService!Range(plan)
                                          THEN RoomService!newRoom ELSE room[n]]
            /\ desk' = [desk EXCEPT ![h].pc = "PUBLISH"]
        BY <2>3, <3>1, <3>3 DEF RoomService!InsertRooms
      <4>2. desk' = [desk EXCEPT ![h] = r]
        <5>1. desk' = [desk EXCEPT ![h] = [desk[h] EXCEPT !.pc = "PUBLISH"]]
          BY <4>1 DEF RoomInv
        <5>2. [desk[h] EXCEPT !.pc = "PUBLISH"] = r
          BY <3>1
        <5>3. QED
          BY <5>1, <5>2
      <4>3. Asked(r) /\ Read(r)'
        BY <3>1 DEF QueueInv, Asked, Read
      <4>4. \A k \in Desks \ {h} : Apart(r, desk[k])
        BY <3>1 DEF QueueInv, Apart
      <4>5. \A k \in Desks \ {h}, n \in QueuedRooms :
               desk[k].rooms = <<n>> /\ RoomService!exists(n) => room'[n].status = room[n].status
        <5>1. ASSUME NEW k \in Desks \ {h}, NEW n \in QueuedRooms, desk[k].rooms = <<n>>,
                     RoomService!exists(n)
              PROVE  room'[n] = room[n]
          <6>1. n \in Numbers
            BY <5>1 DEF QueueInv, Asked
          <6>2. QED
            BY <3>3, <4>1, <5>1, <6>1
        <5>2. QED
          BY <5>1
      <4> HIDE DEF r
      <4>6. QED
        BY <4>2, <4>3, <4>4, <4>5, QueueMoves
    <3>4. QED
      BY <3>2, <3>3
  <2>4. CASE RoomService!PublishRoomUpserted(h)
    <3>1. PICK s \in Seq(Numbers) :
             desk[h].rooms = s /\ desk[h].pc = "PUBLISH" /\ s # <<>> /\ UNCHANGED room
      BY <2>4 DEF RoomService!PublishRoomUpserted, QueueInv, Asked
    <3>2. Tail(s) \in Seq(Numbers) /\ RoomService!Range(Tail(s)) \subseteq RoomService!Range(s)
      <4>1. /\ Tail(s) \in Seq(Numbers) /\ Len(Tail(s)) = Len(s) - 1 /\ Len(s) \in Nat
            /\ \A i \in 1 .. Len(Tail(s)) : Tail(s)[i] = s[i + 1]
        BY <3>1
      <4>2. QED
        BY <3>1, <4>1 DEF RoomService!Range
    <3>3. CASE Tail(s) = <<>>
      <4>1. desk' = [desk EXCEPT ![h] = RoomService!Free]
        BY <2>4, <3>1, <3>3 DEF RoomService!PublishRoomUpserted
      <4>2. QED
        BY <3>1, <4>1, FreeAsks, QueueMoves
    <3>4. CASE Tail(s) # <<>>
      <4> DEFINE r == [pc |-> "PUBLISH", rooms |-> Tail(s)]
      <4>1. desk' = [desk EXCEPT ![h] = r]
        BY <2>4, <3>1, <3>4 DEF RoomService!PublishRoomUpserted
      <4>2. Asked(r)
        BY <3>2, <3>4 DEF Asked
      <4>3. Read(r)'
        BY DEF Read
      <4>4. \A k \in Desks \ {h} : Apart(r, desk[k])
        BY <3>1, <3>2 DEF QueueInv, Apart
      <4> HIDE DEF r
      <4>5. QED
        BY <3>1, <4>1, <4>2, <4>3, <4>4, QueueMoves
    <3>5. QED
      BY <3>3, <3>4
  <2>5. CASE RoomService!ChangeStatus(h) \/ RoomService!WriteBlock(h)
    <3>1. desk[h].pc # "FREE" /\ desk' = [desk EXCEPT ![h] = RoomService!Free]
      BY <2>5 DEF RoomService!ChangeStatus, RoomService!WriteBlock
    <3>2. \A n \in Numbers : n # Head(desk[h].rooms) => room'[n] = room[n]
      BY <2>5 DEF RoomService!ChangeStatus, RoomService!WriteBlock, RoomInv
    <3>3. \A k \in Desks \ {h}, n \in QueuedRooms :
             desk[k].rooms = <<n>> /\ RoomService!exists(n) => room'[n].status = room[n].status
      BY <3>1, <3>2, OthersElsewhere DEF RoomsAssumption
    <3>4. QED
      BY <3>1, <3>3, FreeAsks, QueueMoves
  <2>6. CASE ~ (\/ RoomService!Crash(h) \/ RoomService!InsertRooms(h)
                \/ RoomService!PublishRoomUpserted(h) \/ RoomService!ChangeStatus(h)
                \/ RoomService!WriteBlock(h))
    BY <2>1, <2>6, QueueReads
    DEF RoomStep, RoomService!createRoom, RoomService!generateFloor, RoomService!changeStatus,
        RoomService!block, RoomService!unblock
  <2>7. QED
    BY <2>2, <2>3, <2>4, <2>5, <2>6
<1>2. CASE ~ rooms
  <2>1. UNCHANGED roomVars
    BY <1>2
    DEF OperationsNext, operationsVars, finance, frontDesk, housekeeping, maintenance, billing
  <2>2. QED
    BY <2>1 DEF roomVars, QueueInv, Asked, Read, Apart, RoomService!mayBlock
<1>3. QED
  BY <1>1, <1>2

(* What a step may do to a queued room.                                    *)
LEMMA QueuedStep ==
    ASSUME RoomInv, QueueInv, RoomsAssumption, [OperationsNext]_operationsVars,
           NEW n \in QueuedRooms, RoomService!exists(n)
    PROVE  LET from == room[n].status
               to   == room'[n].status
           IN /\ from # to => to \in RoomService!ROOM_TRANSITIONS[from]
              /\ room'[n].blocked /\ ~ room[n].blocked => from # "OCCUPIED"
              /\ history'[n] # history[n] => RoomService!Last(history'[n]).from = from
<1>1. CASE ~ rooms
  BY <1>1
  DEF OperationsNext, operationsVars, finance, frontDesk, housekeeping, maintenance, billing,
      roomVars
<1>2. CASE rooms
  <2>1. PICK h \in Desks : RoomStep(h)
    BY <1>2 DEF rooms, RoomService!Next, RoomStep
  <2>2. CASE RoomService!ChangeStatus(h)
    <3>1. PICK m \in Numbers, change \in Change :
             /\ desk[h].rooms = <<m>> /\ desk[h].pc = "CHANGE" /\ RoomService!exists(m)
             /\ change = [from |-> desk[h].from, to |-> desk[h].to]
      BY <2>2 DEF RoomInv, FindsRoom, Finds, RoomService!ChangeStatus, Change
    <3>2. /\ room' = [room EXCEPT ![m].status = change.to]
          /\ history' = [history EXCEPT ![m] = Append(@, change)]
      BY <2>2, <3>1 DEF RoomService!ChangeStatus
    <3>3. CASE m # n
      BY <3>2, <3>3 DEF RoomInv
    <3>4. CASE m = n
      <4>1. change.from = room[n].status /\ RoomService!canTransitionRoom(change.from, change.to)
        BY <3>1, <3>4 DEF QueueInv, Read
      <4>2. /\ room[n] \in RoomService!RoomRow
            /\ room'[n] = [room[n] EXCEPT !.status = change.to]
            /\ history[n] \in Seq(Change) /\ history'[n] = Append(history[n], change)
        BY <3>1, <3>2, <3>4 DEF RoomInv, RoomService!exists
      <4>3. room'[n].status = change.to /\ room'[n].blocked = room[n].blocked
        BY <4>2 DEF RoomService!RoomRow
      <4>4. RoomService!Last(history'[n]) = change
        <5>1. Append(history[n], change)[Len(Append(history[n], change))] = change
          BY <4>2
        <5>2. QED
          BY <4>2, <5>1 DEF RoomService!Last
      <4>5. QED
        BY <4>1, <4>3, <4>4 DEF RoomService!canTransitionRoom
    <3>5. QED
      BY <3>3, <3>4
  <2>3. CASE RoomService!WriteBlock(h)
    <3>1. PICK m \in Numbers :
             desk[h].rooms = <<m>> /\ desk[h].pc \in {"BLOCK", "UNBLOCK"} /\ RoomService!exists(m)
      BY <2>3 DEF RoomInv, FindsRoom, Finds, RoomService!WriteBlock
    <3>2. room' = [room EXCEPT ![m].blocked = desk[h].pc = "BLOCK"] /\ UNCHANGED history
      BY <2>3, <3>1 DEF RoomService!WriteBlock
    <3>3. CASE m # n
      BY <3>2, <3>3 DEF RoomInv
    <3>4. CASE m = n
      <4>1. room[n] \in RoomService!RoomRow /\ room'[n] = [room[n] EXCEPT !.blocked = desk[h].pc = "BLOCK"]
        BY <3>1, <3>2, <3>4 DEF RoomInv, RoomService!exists
      <4>2. room'[n].status = room[n].status /\ (room'[n].blocked <=> desk[h].pc = "BLOCK")
        BY <4>1 DEF RoomService!RoomRow
      <4>3. desk[h].pc = "BLOCK" => room[n].status # "OCCUPIED"
        BY <3>1, <3>4 DEF QueueInv, Read, RoomService!mayBlock
      <4>4. QED
        BY <3>2, <4>2, <4>3
    <3>5. QED
      BY <3>3, <3>4
  <2>4. CASE RoomService!InsertRooms(h)
    <3>1. n \in Numbers
      BY DEF RoomsAssumption
    <3>2. QED
      BY <2>4, <3>1 DEF RoomService!InsertRooms
  <2>5. CASE ~ (\/ RoomService!ChangeStatus(h) \/ RoomService!WriteBlock(h)
                \/ RoomService!InsertRooms(h))
    BY <2>1, <2>5
    DEF RoomStep, RoomService!createRoom, RoomService!generateFloor, RoomService!changeStatus,
        RoomService!block, RoomService!unblock, RoomService!Crash,
        RoomService!PublishRoomUpserted, RoomService!ReadForCreate, RoomService!ReadForFloor,
        RoomService!ReadForStatus, RoomService!ReadForBlock, RoomService!ReadForUnblock
  <2>6. QED
    BY <2>2, <2>3, <2>4, <2>5
<1>3. QED
  BY <1>1, <1>2

(* QueuedGuestKeepsRoom, for rooms whose handlers run one after another.   *)
THEOREM QueuedGuestKeepsRoomHolds == OperationsSpec => QueuedGuestKeepsRoom
<1>1. OperationsInit => RoomInv /\ QueueInv
  BY RoomInit, QueueInit
<1>2. RoomInv /\ QueueInv /\ [OperationsNext]_operationsVars => RoomInv' /\ QueueInv'
  BY RoomNext, QueueNext, RoomsAssumption
<1>3. RoomInv /\ QueueInv /\ [OperationsNext]_operationsVars =>
         [\A n \in QueuedRooms : RoomService!exists(n) =>
             LET from == room[n].status
                 to   == room'[n].status
             IN /\ from # to => to \in RoomService!ROOM_TRANSITIONS[from]
                /\ room'[n].blocked /\ ~ room[n].blocked => from # "OCCUPIED"
                /\ history'[n] # history[n] => RoomService!Last(history'[n]).from = from]_roomVars
  BY QueuedStep, RoomsAssumption
<1>4. QED
  BY <1>1, <1>2, <1>3, PTL
  DEF OperationsSpec, QueuedGuestKeepsRoom, RoomService!QueuedGuestKeepsRoom, RoomService!vars,
      roomVars
-----------------------------------------------------------------------------
(* Repairs. A request refers to a ticket that is there, and the row says   *)
(* what the body that created it said of the room. Of a queued ticket no   *)
(* two requests are under way, so the transition one of them checked is    *)
(* the one it makes.                                                       *)

TicketEvents ==
    [type : {"MAINTENANCE_TICKET_CREATED"}]
    \cup [type : {"MAINTENANCE_TICKET_RESOLVED"}, roomReturnedToService : BOOLEAN]

AskedOfTicket == [ASSIGN |-> "ASSIGNED", START |-> "IN_PROGRESS", RESOLVE |-> "RESOLVED",
                  CLOSE |-> "CLOSED"]

(* A request that is past its read.                                        *)
TicketRequest(r) ==
    /\ r.pc \in DOMAIN AskedOfTicket
    /\ r.ticket \in Tickets /\ MaintenanceService!exists(r.ticket)
    /\ r.pc = "ASSIGN" => r.engineer \in Engineers
    /\ r.pc = "START" => ticket[r.ticket].assignee # NoOne
    /\ r.pc = "RESOLVE" => r.returnRoomToService \in BOOLEAN

TicketRows ==
    /\ ticket \in [Tickets -> MaintenanceService!TicketRow \cup {NoTicket}]
    /\ fault \in [Tickets -> Faults \cup {NoTicket}]
    /\ ticketOutbox \in [Tickets -> Seq(TicketEvents)]
    /\ bench = [h \in Benches |-> bench[h]]
    /\ ticketRequests \in 0 .. MaxTicketRequests

SaysWhatWasReported(k) ==
    /\ MaintenanceService!exists(k) =>
          /\ fault[k] \in Faults /\ ticket[k].takesRoomOffline = fault[k].disabling
          /\ ticket[k].status \in {"ASSIGNED", "IN_PROGRESS"} => ticket[k].assignee # NoOne
    /\ \A i \in MaintenanceService!resolutions(k) :
          ticketOutbox[k][i].roomReturnedToService => fault[k].disabling

TicketInv ==
    /\ TicketRows
    /\ \A k \in Tickets : SaysWhatWasReported(k)
    /\ \A h \in Benches : bench[h] # MaintenanceService!Free => TicketRequest(bench[h])

(* Without overlap.                                                        *)
TicketStands(r) ==
    r.ticket \in QueuedTickets => MaintenanceService!mayBecome(r.ticket, AskedOfTicket[r.pc])

QueuedTicketInv ==
    /\ \A h \in Benches : bench[h] # MaintenanceService!Free => TicketStands(bench[h])
    /\ \A h, j \in Benches :
          /\ bench[h] # MaintenanceService!Free /\ bench[j] # MaintenanceService!Free
          /\ bench[h].ticket = bench[j].ticket /\ bench[h].ticket \in QueuedTickets
          => h = j

(* What a step of a handler is: it takes up a request, ...                 *)
TicketTakenUp(h) ==
    \E r \in {bench'[h]} :
        /\ MaintenanceService!begin(h, r) /\ TicketRequest(r) /\ r # MaintenanceService!Free
        /\ MaintenanceService!mayBecome(r.ticket, AskedOfTicket[r.pc])
        /\ UNCHANGED <<ticket, fault, ticketOutbox>>

(* ... writes the status it was asked for, and announces a repair, ...     *)
TicketWritten(h) ==
    \E k \in Tickets, r \in {bench[h]} :
        /\ r # MaintenanceService!Free /\ k = r.ticket
        /\ MaintenanceService!end(h)
        /\ \A j \in Tickets \ {k} : ticket'[j] = ticket[j] /\ ticketOutbox'[j] = ticketOutbox[j]
        /\ ticket'[k].status = AskedOfTicket[r.pc]
        /\ ticket'[k].takesRoomOffline = ticket[k].takesRoomOffline
        /\ ticket'[k].assignee = ticket[k].assignee \/ ticket'[k].assignee \in Engineers
        /\ r.pc = "ASSIGN" => ticket'[k].assignee \in Engineers
        /\ ticket' \in [Tickets -> MaintenanceService!TicketRow \cup {NoTicket}]
        /\ ticket'[k] # NoTicket
        /\ IF r.pc = "RESOLVE"
           THEN ticketOutbox' = [ticketOutbox EXCEPT ![k] =
                   Append(@, [type |-> "MAINTENANCE_TICKET_RESOLVED",
                              roomReturnedToService |->
                                 MaintenanceService!returned(k, r.returnRoomToService)])]
           ELSE UNCHANGED ticketOutbox
        /\ UNCHANGED fault

(* ... or is cut off.                                                      *)
TicketDropped(h) ==
    bench[h] # MaintenanceService!Free /\ MaintenanceService!end(h)
    /\ UNCHANGED <<ticket, fault, ticketOutbox>>

TicketCreated ==
    \E k \in Tickets, f \in Faults, p \in DOMAIN MaintenanceService!PRIORITY_RANK :
        /\ ~ MaintenanceService!exists(k)
        /\ fault' = [fault EXCEPT ![k] = f]
        /\ ticket' = [ticket EXCEPT ![k] =
              [status |-> "REPORTED", assignee |-> NoOne, priority |-> p,
               takesRoomOffline |-> f.disabling]]
        /\ ticketOutbox' = [ticketOutbox EXCEPT ![k] = <<[type |-> "MAINTENANCE_TICKET_CREATED"]>>]
        /\ UNCHANGED <<bench, ticketRequests>>

(* triage rates every fault.                                               *)
LEMMA TriageRates ==
    ASSUME MaintenanceAssumption, NEW f \in Faults
    PROVE  MaintenanceService!triage(f) \in DOMAIN MaintenanceService!PRIORITY_RANK
<1>1. /\ f.disabling \in BOOLEAN /\ f.occupied \in BOOLEAN /\ f.imminent \in BOOLEAN
      /\ f.reported \in DOMAIN MaintenanceService!PRIORITY_RANK \cup {Unrated}
  BY DEF MaintenanceAssumption
<1>2. DOMAIN MaintenanceService!PRIORITY_RANK = {"CRITICAL", "HIGH", "MEDIUM", "LOW"}
  BY DEF MaintenanceService!PRIORITY_RANK
<1> DEFINE reported == IF f.reported = Unrated THEN "MEDIUM" ELSE f.reported
<1>3. reported \in {"CRITICAL", "HIGH", "MEDIUM", "LOW"}
  BY <1>1, <1>2
<1>4. MaintenanceService!raiseTo(reported, "HIGH") \in {"CRITICAL", "HIGH", "MEDIUM", "LOW"}
  BY <1>3 DEF MaintenanceService!raiseTo
<1>5. CASE f.disabling
  BY <1>1, <1>2, <1>3, <1>4, <1>5 DEF MaintenanceService!triage
<1>6. CASE ~ f.disabling
  BY <1>1, <1>2, <1>3, <1>4, <1>6 DEF MaintenanceService!triage
<1>7. QED
  BY <1>5, <1>6

(* A request that is past its read is a record of what was asked.          *)
LEMMA TicketTaken ==
    ASSUME MaintenanceAssumption, NEW h \in Benches, TicketInv,
           \/ MaintenanceService!ReadForAssign(h) \/ MaintenanceService!ReadForStart(h)
           \/ MaintenanceService!ReadForResolve(h) \/ MaintenanceService!ReadForClose(h)
    PROVE  TicketTakenUp(h)
<1>1. ASSUME NEW r, MaintenanceService!begin(h, r), TicketRequest(r),
             MaintenanceService!mayBecome(r.ticket, AskedOfTicket[r.pc]),
             UNCHANGED <<ticket, fault, ticketOutbox>>
      PROVE  TicketTakenUp(h)
  <2>1. bench'[h] = r
    BY <1>1 DEF TicketInv, TicketRows, MaintenanceService!begin
  <2>2. r # MaintenanceService!Free
    BY <1>1 DEF TicketRequest, AskedOfTicket, MaintenanceService!Free
  <2>3. QED
    BY <1>1, <2>1, <2>2 DEF TicketTakenUp
<1>2. CASE MaintenanceService!ReadForAssign(h)
  <2>1. PICK k \in Tickets, e \in Engineers : MaintenanceService!readForAssign(h, k, e)
    BY <1>2 DEF MaintenanceService!ReadForAssign
  <2> DEFINE r == [pc |-> "ASSIGN", ticket |-> k, engineer |-> e]
  <2>2. TicketRequest(r) /\ MaintenanceService!mayBecome(r.ticket, AskedOfTicket[r.pc])
    BY <2>1 DEF MaintenanceService!readForAssign, TicketRequest, AskedOfTicket,
                MaintenanceService!mayBecome
  <2>3. QED
    BY <1>1, <2>1, <2>2 DEF MaintenanceService!readForAssign
<1>3. CASE MaintenanceService!ReadForStart(h)
  <2>1. PICK k \in Tickets, e \in Engineers : MaintenanceService!readForStart(h, k, e)
    BY <1>3 DEF MaintenanceService!ReadForStart
  <2> DEFINE r == [pc |-> "START", ticket |-> k]
  <2>2. TicketRequest(r) /\ MaintenanceService!mayBecome(r.ticket, AskedOfTicket[r.pc])
    BY <2>1 DEF MaintenanceService!readForStart, TicketRequest, AskedOfTicket,
                MaintenanceService!mayBecome, MaintenanceAssumption
  <2>3. QED
    BY <1>1, <2>1, <2>2 DEF MaintenanceService!readForStart
<1>4. CASE MaintenanceService!ReadForResolve(h)
  <2>1. PICK k \in Tickets, returning \in BOOLEAN :
           MaintenanceService!readForResolve(h, k, returning)
    BY <1>4 DEF MaintenanceService!ReadForResolve
  <2> DEFINE r == [pc |-> "RESOLVE", ticket |-> k, returnRoomToService |-> returning]
  <2>2. TicketRequest(r) /\ MaintenanceService!mayBecome(r.ticket, AskedOfTicket[r.pc])
    BY <2>1 DEF MaintenanceService!readForResolve, TicketRequest, AskedOfTicket,
                MaintenanceService!mayBecome
  <2>3. QED
    BY <1>1, <2>1, <2>2 DEF MaintenanceService!readForResolve
<1>5. CASE MaintenanceService!ReadForClose(h)
  <2>1. PICK k \in Tickets : /\ MaintenanceService!mayBecome(k, "CLOSED")
                             /\ MaintenanceService!begin(h, [pc |-> "CLOSE", ticket |-> k])
    BY <1>5 DEF MaintenanceService!ReadForClose
  <2> DEFINE r == [pc |-> "CLOSE", ticket |-> k]
  <2>2. TicketRequest(r) /\ MaintenanceService!mayBecome(r.ticket, AskedOfTicket[r.pc])
    BY <2>1 DEF TicketRequest, AskedOfTicket, MaintenanceService!mayBecome
  <2>3. UNCHANGED <<ticket, fault, ticketOutbox>>
    BY <1>5 DEF MaintenanceService!ReadForClose
  <2>4. QED
    BY <1>1, <2>1, <2>2, <2>3
<1>6. QED
  BY <1>2, <1>3, <1>4, <1>5

(* The write of a request moves the ticket it found to what was asked.     *)
LEMMA TicketMoved ==
    ASSUME MaintenanceAssumption, TicketInv, NEW h \in Benches,
           \/ MaintenanceService!Assign(h) \/ MaintenanceService!Start(h)
           \/ MaintenanceService!Resolve(h) \/ MaintenanceService!Close(h)
    PROVE  TicketWritten(h)
<1>1. bench[h].pc \in {"ASSIGN", "START", "RESOLVE", "CLOSE"} /\ bench[h] # MaintenanceService!Free
  BY DEF MaintenanceService!Assign, MaintenanceService!Start, MaintenanceService!Resolve,
         MaintenanceService!Close, MaintenanceService!Free
<1>2. PICK k \in Tickets : k = bench[h].ticket
  BY <1>1 DEF TicketInv, TicketRequest
<1>3. /\ TicketRequest(bench[h]) /\ ticket[k] \in MaintenanceService!TicketRow
      /\ k \in DOMAIN ticket
  BY <1>1, <1>2 DEF TicketInv, TicketRequest, TicketRows, MaintenanceService!exists
<1>4. PICK row \in MaintenanceService!TicketRow :
         /\ ticket' = [ticket EXCEPT ![k] = row]
         /\ row.status = AskedOfTicket[bench[h].pc]
         /\ row.takesRoomOffline = ticket[k].takesRoomOffline
         /\ row.assignee = IF bench[h].pc = "ASSIGN" THEN bench[h].engineer
                           ELSE ticket[k].assignee
  <2>1. CASE MaintenanceService!Assign(h)
    <3>1. bench[h].pc = "ASSIGN" /\ bench[h].engineer \in Engineers
      BY <1>3, <2>1 DEF MaintenanceService!Assign, TicketRequest
    <3>2. PICK row : row = [ticket[k] EXCEPT !.status = "ASSIGNED",
                                             !.assignee = bench[h].engineer]
      OBVIOUS
    <3>3. ticket' = [ticket EXCEPT ![k] = row]
      BY <1>2, <1>3, <2>1, <3>2 DEF MaintenanceService!Assign
    <3>4. /\ row \in MaintenanceService!TicketRow
          /\ row.status = "ASSIGNED" /\ row.assignee = bench[h].engineer
          /\ row.takesRoomOffline = ticket[k].takesRoomOffline
      BY <1>3, <3>1, <3>2 DEF MaintenanceService!TicketRow, MaintenanceService!TICKET_TRANSITIONS
    <3>5. AskedOfTicket[bench[h].pc] = "ASSIGNED"
      BY <3>1 DEF AskedOfTicket
    <3>6. QED
      BY <3>1, <3>3, <3>4, <3>5
  <2>2. ASSUME NEW s \in {"IN_PROGRESS", "RESOLVED", "CLOSED"},
               s = AskedOfTicket[bench[h].pc], bench[h].pc # "ASSIGN",
               ticket' = [ticket EXCEPT ![k].status = s]
        PROVE  \E row \in MaintenanceService!TicketRow :
                  /\ ticket' = [ticket EXCEPT ![k] = row]
                  /\ row.status = AskedOfTicket[bench[h].pc]
                  /\ row.takesRoomOffline = ticket[k].takesRoomOffline
                  /\ row.assignee = IF bench[h].pc = "ASSIGN" THEN bench[h].engineer
                                    ELSE ticket[k].assignee
    <3>1. PICK row : row = [ticket[k] EXCEPT !.status = s]
      OBVIOUS
    <3>2. /\ row \in MaintenanceService!TicketRow
          /\ row.status = s /\ row.takesRoomOffline = ticket[k].takesRoomOffline
          /\ row.assignee = ticket[k].assignee
      BY <1>3, <3>1 DEF MaintenanceService!TicketRow, MaintenanceService!TICKET_TRANSITIONS
    <3>3. ticket' = [ticket EXCEPT ![k] = row]
      BY <2>2, <3>1
    <3>4. QED
      BY <2>2, <3>2, <3>3
  <2>3. CASE MaintenanceService!Start(h)
    <3>1. bench[h].pc = "START" /\ AskedOfTicket[bench[h].pc] = "IN_PROGRESS"
      BY <2>3 DEF MaintenanceService!Start, AskedOfTicket
    <3>2. ticket' = [ticket EXCEPT ![k].status = "IN_PROGRESS"]
      BY <1>2, <2>3 DEF MaintenanceService!Start
    <3>3. QED
      BY <2>2, <3>1, <3>2
  <2>4. CASE MaintenanceService!Resolve(h)
    <3>1. bench[h].pc = "RESOLVE" /\ AskedOfTicket[bench[h].pc] = "RESOLVED"
      BY <2>4 DEF MaintenanceService!Resolve, AskedOfTicket
    <3>2. ticket' = [ticket EXCEPT ![k].status = "RESOLVED"]
      BY <1>2, <2>4 DEF MaintenanceService!Resolve
    <3>3. QED
      BY <2>2, <3>1, <3>2
  <2>5. CASE MaintenanceService!Close(h)
    <3>1. bench[h].pc = "CLOSE" /\ AskedOfTicket[bench[h].pc] = "CLOSED"
      BY <2>5 DEF MaintenanceService!Close, AskedOfTicket
    <3>2. ticket' = [ticket EXCEPT ![k].status = "CLOSED"]
      BY <1>2, <2>5 DEF MaintenanceService!Close
    <3>3. QED
      BY <2>2, <3>1, <3>2
  <2>6. QED
    BY <2>1, <2>3, <2>4, <2>5
<1>5. MaintenanceService!end(h) /\ UNCHANGED fault
  BY DEF MaintenanceService!Assign, MaintenanceService!Start, MaintenanceService!Resolve,
         MaintenanceService!Close
<1>6. IF bench[h].pc = "RESOLVE"
      THEN ticketOutbox' = [ticketOutbox EXCEPT ![k] =
              Append(@, [type |-> "MAINTENANCE_TICKET_RESOLVED",
                         roomReturnedToService |->
                            MaintenanceService!returned(k, bench[h].returnRoomToService)])]
      ELSE UNCHANGED ticketOutbox
  BY <1>2 DEF MaintenanceService!Assign, MaintenanceService!Start, MaintenanceService!Resolve,
         MaintenanceService!Close
<1>7. ticket'[k] = row /\ \A j \in Tickets \ {k} : ticket'[j] = ticket[j]
  BY <1>4 DEF TicketInv, TicketRows
<1>8. \A j \in Tickets \ {k} : ticketOutbox'[j] = ticketOutbox[j]
  BY <1>6 DEF TicketInv, TicketRows
<1>9. ticket' \in [Tickets -> MaintenanceService!TicketRow \cup {NoTicket}] /\ row # NoTicket
  BY <1>4 DEF TicketInv, TicketRows, MaintenanceAssumption
<1>10. bench[h].pc = "ASSIGN" => row.assignee \in Engineers
  BY <1>3, <1>4 DEF TicketRequest
<1>11. row.assignee = ticket[k].assignee \/ row.assignee \in Engineers
  BY <1>4, <1>10
<1>12. QED
  BY <1>1, <1>2, <1>4, <1>5, <1>6, <1>7, <1>8, <1>9, <1>10, <1>11 DEF TicketWritten

(* The steps of maintenance-service.                                       *)
LEMMA TicketSteps ==
    ASSUME MaintenanceAssumption, TicketInv, MaintenanceService!Next
    PROVE  TicketCreated \/ \E h \in Benches : TicketTakenUp(h) \/ TicketWritten(h) \/ TicketDropped(h)
<1>1. ASSUME NEW k \in Tickets, MaintenanceService!Create(k) PROVE TicketCreated
  BY <1>1, TriageRates DEF MaintenanceService!Create, TicketCreated
<1>2. ASSUME NEW h \in Benches, MaintenanceService!Crash(h) PROVE TicketDropped(h)
  BY <1>2 DEF MaintenanceService!Crash, TicketDropped
<1>3. ASSUME NEW h \in Benches,
             \/ MaintenanceService!assign(h) \/ MaintenanceService!start(h)
             \/ MaintenanceService!resolve(h) \/ MaintenanceService!close(h)
      PROVE  TicketTakenUp(h) \/ TicketWritten(h)
  BY <1>3, TicketTaken, TicketMoved
  DEF MaintenanceService!assign, MaintenanceService!start, MaintenanceService!resolve,
      MaintenanceService!close
<1>4. QED
  BY <1>1, <1>2, <1>3 DEF MaintenanceService!Next

(* A ticket a step leaves alone stays as it was, and so does what its      *)
(* events say.                                                             *)
LEMMA TicketLeft ==
    ASSUME NEW k \in Tickets, SaysWhatWasReported(k),
           ticket'[k] = ticket[k], fault'[k] = fault[k], ticketOutbox'[k] = ticketOutbox[k]
    PROVE  SaysWhatWasReported(k)'
BY DEF SaysWhatWasReported, MaintenanceService!exists, MaintenanceService!resolutions

(* An event is appended to those before it.                                *)
LEMMA Announced ==
    ASSUME TicketRows, NEW k \in Tickets, NEW e \in TicketEvents,
           ticketOutbox' = [ticketOutbox EXCEPT ![k] = Append(@, e)]
    PROVE  /\ ticketOutbox' \in [Tickets -> Seq(TicketEvents)]
           /\ e.type = "MAINTENANCE_TICKET_RESOLVED" =>
                 MaintenanceService!resolutions(k)' =
                    MaintenanceService!resolutions(k) \cup {Len(ticketOutbox[k]) + 1}
           /\ \A i \in DOMAIN ticketOutbox[k] : ticketOutbox'[k][i] = ticketOutbox[k][i]
           /\ ticketOutbox'[k][Len(ticketOutbox[k]) + 1] = e
           /\ Len(ticketOutbox[k]) + 1 \notin DOMAIN ticketOutbox[k]
<1>1. ticketOutbox[k] \in Seq(TicketEvents) /\ ticketOutbox'[k] = Append(ticketOutbox[k], e)
  BY DEF TicketRows
<1>2. /\ Append(ticketOutbox[k], e) \in Seq(TicketEvents)
      /\ DOMAIN ticketOutbox'[k] = DOMAIN ticketOutbox[k] \cup {Len(ticketOutbox[k]) + 1}
      /\ \A i \in DOMAIN ticketOutbox[k] : ticketOutbox'[k][i] = ticketOutbox[k][i]
      /\ ticketOutbox'[k][Len(ticketOutbox[k]) + 1] = e
      /\ Len(ticketOutbox[k]) + 1 \notin DOMAIN ticketOutbox[k]
  BY <1>1
<1>3. ticketOutbox' \in [Tickets -> Seq(TicketEvents)]
  BY <1>1, <1>2 DEF TicketRows
<1>4. QED
  BY <1>2, <1>3 DEF MaintenanceService!resolutions

(* The invariant holds of a ticket that was just created, ...              *)
LEMMA CreationKeeps ==
    ASSUME MaintenanceAssumption, TicketInv, TicketCreated PROVE TicketInv'
<1>1. PICK k \in Tickets, f \in Faults, p \in DOMAIN MaintenanceService!PRIORITY_RANK :
         /\ ~ MaintenanceService!exists(k)
         /\ fault' = [fault EXCEPT ![k] = f]
         /\ ticket' = [ticket EXCEPT ![k] =
               [status |-> "REPORTED", assignee |-> NoOne, priority |-> p,
                takesRoomOffline |-> f.disabling]]
         /\ ticketOutbox' = [ticketOutbox EXCEPT ![k] =
               <<[type |-> "MAINTENANCE_TICKET_CREATED"]>>]
         /\ UNCHANGED <<bench, ticketRequests>>
  BY DEF TicketCreated
<1>2. PICK row \in MaintenanceService!TicketRow :
         /\ row.status = "REPORTED" /\ row.takesRoomOffline = f.disabling
         /\ ticket' = [ticket EXCEPT ![k] = row]
  <2>1. PICK row : row = [status |-> "REPORTED", assignee |-> NoOne, priority |-> p,
                          takesRoomOffline |-> f.disabling]
    OBVIOUS
  <2>2. f.disabling \in BOOLEAN
    BY DEF MaintenanceAssumption
  <2>3. row \in MaintenanceService!TicketRow
    BY <2>1, <2>2 DEF MaintenanceService!TicketRow, MaintenanceService!TICKET_TRANSITIONS
  <2>4. row.status = "REPORTED" /\ row.takesRoomOffline = f.disabling
    BY <2>1
  <2>5. ticket' = [ticket EXCEPT ![k] = row]
    BY <1>1, <2>1
  <2>6. QED
    BY <2>3, <2>4, <2>5
<1>3. PICK e \in TicketEvents : /\ e.type = "MAINTENANCE_TICKET_CREATED"
                                /\ ticketOutbox' = [ticketOutbox EXCEPT ![k] = <<e>>]
  BY <1>1 DEF TicketEvents
<1>4. TicketRows'
  <2>1. <<e>> \in Seq(TicketEvents)
    OBVIOUS
  <2>2. ticketOutbox' \in [Tickets -> Seq(TicketEvents)]
    BY <1>3, <2>1 DEF TicketInv, TicketRows
  <2>3. QED
    BY <1>1, <1>2, <2>2 DEF TicketInv, TicketRows
<1>5. SaysWhatWasReported(k)'
  <2>1. ticket'[k] = row /\ fault'[k] = f /\ ticketOutbox'[k] = <<e>>
    BY <1>1, <1>2, <1>3 DEF TicketInv, TicketRows
  <2>2. MaintenanceService!resolutions(k)' = {}
    BY <1>3, <2>1 DEF MaintenanceService!resolutions
  <2>3. QED
    BY <1>2, <2>1, <2>2 DEF SaysWhatWasReported
<1>6. ASSUME NEW j \in Tickets \ {k} PROVE SaysWhatWasReported(j)'
  BY <1>1, TicketLeft DEF TicketInv, TicketRows
<1>7. ASSUME NEW h \in Benches, bench[h] # MaintenanceService!Free
      PROVE  TicketRequest(bench[h])' /\ bench'[h] = bench[h]
  <2>1. TicketRequest(bench[h]) /\ bench[h].ticket # k
    BY <1>1, <1>7 DEF TicketInv, TicketRequest
  <2>2. ticket'[bench[h].ticket] = ticket[bench[h].ticket]
    BY <1>1, <2>1 DEF TicketInv, TicketRows, TicketRequest
  <2>3. QED
    BY <1>1, <2>1, <2>2 DEF TicketRequest, MaintenanceService!exists
<1>8. QED
  BY <1>1, <1>4, <1>5, <1>6, <1>7 DEF TicketInv

(* ... when a request is taken up or cut off, ...                          *)
LEMMA TakingUpKeeps ==
    ASSUME TicketInv, MaintenanceAssumption, NEW h \in Benches,
           TicketTakenUp(h) \/ TicketDropped(h)
    PROVE  TicketInv'
<1>1. UNCHANGED <<ticket, fault, ticketOutbox>>
  BY DEF TicketTakenUp, TicketDropped
<1>2. PICK r : /\ bench' = [bench EXCEPT ![h] = r]
               /\ r = MaintenanceService!Free \/ TicketRequest(r)
  BY DEF TicketTakenUp, TicketDropped, MaintenanceService!begin, MaintenanceService!end
<1>3. ticketRequests' \in 0 .. MaxTicketRequests
  BY DEF TicketTakenUp, TicketDropped, MaintenanceService!begin, MaintenanceService!end,
         TicketInv, TicketRows, MaintenanceAssumption
<1>4. TicketRows'
  BY <1>1, <1>2, <1>3 DEF TicketInv, TicketRows
<1>5. \A k \in Tickets : SaysWhatWasReported(k)'
  BY <1>1, TicketLeft DEF TicketInv
<1>6. ASSUME NEW j \in Benches, bench'[j] # MaintenanceService!Free
      PROVE  TicketRequest(bench[j])'
  <2>1. TicketRequest(bench'[j])
    BY <1>2, <1>6 DEF TicketInv, TicketRows
  <2>2. QED
    BY <1>1, <2>1 DEF TicketRequest, MaintenanceService!exists
<1>7. QED
  BY <1>4, <1>5, <1>6 DEF TicketInv

(* ... and of the ticket a request moves.                                  *)
LEMMA MoveKeeps ==
    ASSUME MaintenanceAssumption, TicketInv, NEW h \in Benches, TicketWritten(h)
    PROVE  TicketInv'
<1>1. PICK k \in Tickets, r \in {bench[h]} :
         /\ r # MaintenanceService!Free /\ k = r.ticket
         /\ MaintenanceService!end(h)
         /\ \A j \in Tickets \ {k} : ticket'[j] = ticket[j] /\ ticketOutbox'[j] = ticketOutbox[j]
         /\ ticket'[k].status = AskedOfTicket[r.pc]
         /\ ticket'[k].takesRoomOffline = ticket[k].takesRoomOffline
         /\ ticket'[k].assignee = ticket[k].assignee \/ ticket'[k].assignee \in Engineers
         /\ r.pc = "ASSIGN" => ticket'[k].assignee \in Engineers
         /\ ticket' \in [Tickets -> MaintenanceService!TicketRow \cup {NoTicket}]
         /\ ticket'[k] # NoTicket
         /\ IF r.pc = "RESOLVE"
            THEN ticketOutbox' = [ticketOutbox EXCEPT ![k] =
                    Append(@, [type |-> "MAINTENANCE_TICKET_RESOLVED",
                               roomReturnedToService |->
                                  MaintenanceService!returned(k, r.returnRoomToService)])]
            ELSE UNCHANGED ticketOutbox
         /\ UNCHANGED fault
  BY DEF TicketWritten
<1>2. /\ TicketRequest(r) /\ SaysWhatWasReported(k)
      /\ ticket[k] \in MaintenanceService!TicketRow
  BY <1>1 DEF TicketInv, TicketRequest, TicketRows, MaintenanceService!exists
<1>3. /\ ticketOutbox' \in [Tickets -> Seq(TicketEvents)]
      /\ \A i \in MaintenanceService!resolutions(k)' :
            ticketOutbox'[k][i].roomReturnedToService => fault'[k].disabling
  <2>1. CASE r.pc = "RESOLVE"
    <3>1. PICK e : e = [type |-> "MAINTENANCE_TICKET_RESOLVED",
                        roomReturnedToService |->
                           MaintenanceService!returned(k, r.returnRoomToService)]
      OBVIOUS
    <3>2. /\ ticketOutbox' = [ticketOutbox EXCEPT ![k] = Append(@, e)]
          /\ e.type = "MAINTENANCE_TICKET_RESOLVED"
          /\ e.roomReturnedToService = MaintenanceService!returned(k, r.returnRoomToService)
      BY <1>1, <2>1, <3>1
    <3>3. ticket[k].takesRoomOffline \in BOOLEAN /\ r.returnRoomToService \in BOOLEAN
      BY <1>2, <2>1 DEF TicketRequest, MaintenanceService!TicketRow
    <3>4. MaintenanceService!returned(k, r.returnRoomToService) \in BOOLEAN
      BY <3>3 DEF MaintenanceService!returned
    <3>5. e \in TicketEvents
      BY <3>1, <3>4 DEF TicketEvents
    <3>6. e.roomReturnedToService => fault'[k].disabling
      BY <1>1, <1>2, <3>2 DEF SaysWhatWasReported, TicketRequest, MaintenanceService!returned
    <3>7. /\ ticketOutbox' \in [Tickets -> Seq(TicketEvents)]
          /\ MaintenanceService!resolutions(k)' \subseteq
                MaintenanceService!resolutions(k) \cup {Len(ticketOutbox[k]) + 1}
          /\ \A i \in DOMAIN ticketOutbox[k] : ticketOutbox'[k][i] = ticketOutbox[k][i]
          /\ ticketOutbox'[k][Len(ticketOutbox[k]) + 1] = e
      <4>1. TicketRows /\ k \in Tickets /\ ticketOutbox' = [ticketOutbox EXCEPT ![k] = Append(@, e)]
        BY <3>2 DEF TicketInv
      <4>2. /\ ticketOutbox' \in [Tickets -> Seq(TicketEvents)]
            /\ MaintenanceService!resolutions(k)' =
                  MaintenanceService!resolutions(k) \cup {Len(ticketOutbox[k]) + 1}
            /\ \A i \in DOMAIN ticketOutbox[k] : ticketOutbox'[k][i] = ticketOutbox[k][i]
            /\ ticketOutbox'[k][Len(ticketOutbox[k]) + 1] = e
        BY <3>2, <3>5, <4>1, Announced
      <4>3. QED
        BY <4>2
    <3>8. QED
      BY <1>1, <1>2, <3>6, <3>7 DEF SaysWhatWasReported, MaintenanceService!resolutions
  <2>2. CASE r.pc # "RESOLVE"
    <3>1. UNCHANGED <<ticketOutbox, fault>>
      BY <1>1, <2>2
    <3>2. QED
      BY <1>2, <3>1 DEF TicketInv, TicketRows, SaysWhatWasReported, MaintenanceService!resolutions
  <2>3. QED
    BY <2>1, <2>2
<1>4. /\ bench' = [bench EXCEPT ![h] = MaintenanceService!Free]
      /\ ticketRequests' = ticketRequests
  BY <1>1 DEF MaintenanceService!end
<1>5. TicketRows'
  BY <1>1, <1>3, <1>4 DEF TicketInv, TicketRows
<1>6. SaysWhatWasReported(k)'
  <2>1. ticket'[k].status \in {"ASSIGNED", "IN_PROGRESS"} => ticket'[k].assignee # NoOne
    <3>1. CASE r.pc = "ASSIGN"
      BY <1>1, <3>1 DEF MaintenanceAssumption
    <3>2. CASE r.pc = "START"
      BY <1>1, <1>2, <3>2 DEF MaintenanceAssumption, TicketRequest
    <3>3. CASE r.pc = "RESOLVE" \/ r.pc = "CLOSE"
      BY <1>1, <3>3 DEF AskedOfTicket
    <3>4. QED
      BY <1>2, <3>1, <3>2, <3>3 DEF TicketRequest, AskedOfTicket
  <2>2. fault'[k] \in Faults /\ ticket'[k].takesRoomOffline = fault'[k].disabling
    BY <1>1, <1>2 DEF SaysWhatWasReported, TicketRequest
  <2>3. QED
    BY <1>3, <2>1, <2>2 DEF SaysWhatWasReported
<1>7. ASSUME NEW j \in Tickets \ {k} PROVE SaysWhatWasReported(j)'
  BY <1>1, TicketLeft DEF TicketInv
<1>8. ASSUME NEW j \in Benches, bench'[j] # MaintenanceService!Free
      PROVE  TicketRequest(bench[j])'
  <2>1. j # h /\ bench'[j] = bench[j] /\ TicketRequest(bench[j])
    BY <1>4, <1>8 DEF TicketInv, TicketRows
  <2>2. /\ MaintenanceService!exists(bench[j].ticket)'
        /\ bench[j].pc = "START" => ticket'[bench[j].ticket].assignee # NoOne
    <3>1. CASE bench[j].ticket = k
      BY <1>1, <2>1, <3>1 DEF TicketRequest, MaintenanceService!exists, MaintenanceAssumption
    <3>2. CASE bench[j].ticket # k
      BY <1>1, <2>1, <3>2 DEF TicketRequest, MaintenanceService!exists
    <3>3. QED
      BY <3>1, <3>2
  <2>3. QED
    BY <2>1, <2>2 DEF TicketRequest, MaintenanceService!exists
<1>9. QED
  BY <1>5, <1>6, <1>7, <1>8 DEF TicketInv

(* No row is there before the first ticket, and nobody is at one.          *)
LEMMA TicketInit == ASSUME MaintenanceAssumption, OperationsInit PROVE TicketInv /\ QueuedTicketInv
<1>1. /\ ticket = [k \in Tickets |-> NoTicket] /\ fault = [k \in Tickets |-> NoTicket]
      /\ ticketOutbox = [k \in Tickets |-> <<>>]
      /\ bench = [h \in Benches |-> MaintenanceService!Free] /\ ticketRequests = 0
  BY DEF OperationsInit, MaintenanceService!Init
<1>2. TicketRows
  BY <1>1 DEF TicketRows, MaintenanceAssumption
<1>3. \A k \in Tickets : SaysWhatWasReported(k)
  BY <1>1 DEF SaysWhatWasReported, MaintenanceService!exists, MaintenanceService!resolutions
<1>4. QED
  BY <1>1, <1>2, <1>3 DEF TicketInv, QueuedTicketInv

(* The other departments leave maintenance-service alone.                  *)
LEMMA NoRepair ==
    ASSUME [OperationsNext]_operationsVars, ~ maintenance PROVE UNCHANGED ticketVars
BY DEF OperationsNext, operationsVars, finance, frontDesk, rooms, housekeeping, billing

(* A step of maintenance-service is one of the four.                       *)
LEMMA RepairSteps ==
    ASSUME MaintenanceAssumption, TicketInv, maintenance
    PROVE  TicketCreated \/ \E h \in Benches : TicketTakenUp(h) \/ TicketWritten(h) \/ TicketDropped(h)
BY TicketSteps DEF maintenance

(* The invariant is inductive.                                             *)
LEMMA TicketNext ==
    ASSUME MaintenanceAssumption, TicketInv, [OperationsNext]_operationsVars
    PROVE  TicketInv'
<1>1. CASE maintenance
  BY <1>1, RepairSteps, CreationKeeps, TakingUpKeeps, MoveKeeps
<1>2. CASE ~ maintenance
  <2>1. UNCHANGED <<ticket, fault, ticketOutbox, bench, ticketRequests>>
    BY <1>2, NoRepair DEF ticketVars
  <2>2. TicketRows'
    BY <2>1 DEF TicketInv, TicketRows
  <2>3. \A k \in Tickets : SaysWhatWasReported(k)'
    BY <2>1, TicketLeft DEF TicketInv
  <2>4. QED
    BY <2>1, <2>2, <2>3 DEF TicketInv, TicketRequest, MaintenanceService!exists
<1>3. QED
  BY <1>1, <1>2

(* What a queued ticket's requests found still stands after a step that    *)
(* leaves the status of their tickets alone.                               *)
LEMMA FoundStatusStands ==
    ASSUME TicketInv, NEW r, TicketRequest(r), TicketStands(r),
           r.ticket \in QueuedTickets =>
              ticket'[r.ticket] # NoTicket /\ ticket'[r.ticket].status = ticket[r.ticket].status
    PROVE  TicketStands(r)'
BY DEF TicketStands, MaintenanceService!mayBecome, MaintenanceService!exists,
       MaintenanceService!canTransitionTicket

(* A request is taken up for a queued ticket only when no other is at it.  *)
LEMMA QueueTakesUp ==
    ASSUME TicketInv, QueuedTicketInv, NEW h \in Benches, TicketTakenUp(h)
    PROVE  QueuedTicketInv'
<1>1. PICK r : /\ bench' = [bench EXCEPT ![h] = r] /\ bench[h] = MaintenanceService!Free
               /\ MaintenanceService!mayTouch(r.ticket)
               /\ MaintenanceService!mayBecome(r.ticket, AskedOfTicket[r.pc])
               /\ UNCHANGED ticket
  BY DEF TicketTakenUp, MaintenanceService!begin
<1>2. \A j \in Benches : bench'[j] = IF j = h THEN r ELSE bench[j]
  BY <1>1 DEF TicketInv, TicketRows
<1>3. ASSUME NEW s, TicketStands(s) PROVE TicketStands(s)'
  BY <1>1, <1>3 DEF TicketStands, MaintenanceService!mayBecome, MaintenanceService!exists
<1>4. TicketStands(r)
  BY <1>1 DEF TicketStands
<1>5. ASSUME NEW j \in Benches, bench'[j] # MaintenanceService!Free
      PROVE  TicketStands(bench[j])'
  <2>1. PICK s : s = bench'[j]
    OBVIOUS
  <2>2. TicketStands(s)
    BY <1>2, <1>4, <1>5, <2>1 DEF QueuedTicketInv
  <2>3. TicketStands(s)'
    BY <1>3, <2>2
  <2>4. QED
    BY <2>1, <2>3 DEF TicketStands
<1>6. ASSUME NEW j \in Benches, bench[j] # MaintenanceService!Free, r.ticket \in QueuedTickets
      PROVE  bench[j].ticket # r.ticket
  BY <1>1, <1>6 DEF MaintenanceService!mayTouch, MaintenanceService!at
<1>7. ASSUME NEW i \in Benches, NEW j \in Benches,
             bench'[i] # MaintenanceService!Free, bench'[j] # MaintenanceService!Free,
             bench'[i].ticket = bench'[j].ticket, bench'[i].ticket \in QueuedTickets
      PROVE  i = j
  BY <1>2, <1>6, <1>7 DEF QueuedTicketInv
<1>8. QED
  BY <1>5, <1>7 DEF QueuedTicketInv

(* Once a request is over, so is its claim; the others' are on other       *)
(* tickets.                                                                *)
LEMMA QueueMovesOn ==
    ASSUME TicketInv, QueuedTicketInv, NEW h \in Benches, TicketWritten(h) \/ TicketDropped(h)
    PROVE  QueuedTicketInv'
<1>1. bench' = [bench EXCEPT ![h] = MaintenanceService!Free] /\ bench[h] # MaintenanceService!Free
  BY DEF TicketWritten, TicketDropped, MaintenanceService!end
<1>2. \A j \in Tickets : j # bench[h].ticket => ticket'[j] = ticket[j]
  BY DEF TicketWritten, TicketDropped
<1>3. \A j \in Benches : bench'[j] = IF j = h THEN MaintenanceService!Free ELSE bench[j]
  BY <1>1 DEF TicketInv, TicketRows
<1>4. ASSUME NEW j \in Benches, bench'[j] # MaintenanceService!Free
      PROVE  TicketStands(bench[j])'
  <2>1. PICK r : r = bench[j] /\ r = bench'[j]
    BY <1>3, <1>4
  <2>2. TicketRequest(r) /\ TicketStands(r)
    BY <1>3, <1>4, <2>1 DEF TicketInv, QueuedTicketInv
  <2>3. r.ticket \in QueuedTickets => r.ticket # bench[h].ticket
    BY <1>1, <1>3, <1>4, <2>1 DEF QueuedTicketInv
  <2>4. r.ticket \in QueuedTickets =>
           ticket'[r.ticket] # NoTicket /\ ticket'[r.ticket].status = ticket[r.ticket].status
    BY <1>2, <2>2, <2>3 DEF TicketRequest, MaintenanceService!exists
  <2>5. TicketStands(r)'
    BY <2>2, <2>4, FoundStatusStands
  <2>6. QED
    BY <2>1, <2>5 DEF TicketStands
<1>5. QED
  BY <1>3, <1>4 DEF QueuedTicketInv

(* No step of a handler comes between another's read and write of a queued *)
(* ticket.                                                                 *)
LEMMA TicketQueueNext ==
    ASSUME MaintenanceAssumption, TicketInv, QueuedTicketInv, [OperationsNext]_operationsVars
    PROVE  QueuedTicketInv'
<1>1. CASE TicketCreated
  <2>1. PICK k \in Tickets : /\ ~ MaintenanceService!exists(k) /\ UNCHANGED bench
                             /\ \A j \in Tickets \ {k} : ticket'[j] = ticket[j]
    BY <1>1 DEF TicketCreated, TicketInv, TicketRows
  <2>2. ASSUME NEW h \in Benches, bench'[h] # MaintenanceService!Free
        PROVE  TicketStands(bench[h])'
    <3>1. PICK r : r = bench[h] /\ r = bench'[h]
      BY <2>1
    <3>2. TicketRequest(r) /\ TicketStands(r)
      BY <2>2, <3>1 DEF TicketInv, QueuedTicketInv
    <3>3. ticket'[r.ticket] = ticket[r.ticket] /\ ticket[r.ticket] # NoTicket
      BY <2>1, <3>2 DEF TicketRequest, MaintenanceService!exists
    <3>4. TicketStands(r)'
      BY <3>2, <3>3, FoundStatusStands
    <3>5. QED
      BY <3>1, <3>4 DEF TicketStands
  <2>3. QED
    BY <2>1, <2>2 DEF QueuedTicketInv
<1>2. CASE ~ maintenance
  BY <1>2, NoRepair DEF ticketVars, QueuedTicketInv, TicketStands, MaintenanceService!mayBecome,
                        MaintenanceService!exists
<1>3. QED
  BY <1>1, <1>2, RepairSteps, QueueTakesUp, QueueMovesOn

(* A room comes back only from a fault that had disabled it.               *)
LEMMA RoomWasDisabled ==
    ASSUME TicketInv'
    PROVE  \A k \in Tickets : \A i \in MaintenanceService!resolutions(k)' :
              ticketOutbox'[k][i].roomReturnedToService => fault'[k].disabling
BY DEF TicketInv, SaysWhatWasReported

(* What a step may do to a queued ticket.                                  *)
LEMMA QueuedTicketStep ==
    ASSUME MaintenanceAssumption, TicketInv, QueuedTicketInv, [OperationsNext]_operationsVars,
           NEW k \in QueuedTickets, MaintenanceService!exists(k)
    PROVE  LET from == ticket[k].status
               to   == ticket'[k].status
           IN /\ from # to => to \in MaintenanceService!TICKET_TRANSITIONS[from]
              /\ MaintenanceService!resolutions(k)' # MaintenanceService!resolutions(k) <=>
                    from = "IN_PROGRESS" /\ to = "RESOLVED"
<1> k \in Tickets
  BY DEF MaintenanceAssumption
<1>1. ASSUME ticket'[k] = ticket[k], ticketOutbox'[k] = ticketOutbox[k]
      PROVE  /\ ticket'[k].status = ticket[k].status
             /\ MaintenanceService!resolutions(k)' = MaintenanceService!resolutions(k)
  BY <1>1 DEF MaintenanceService!resolutions
<1>2. CASE ~ maintenance
  BY <1>1, <1>2, NoRepair DEF ticketVars
<1>3. CASE TicketCreated
  <2>1. ticket'[k] = ticket[k] /\ ticketOutbox'[k] = ticketOutbox[k]
    BY <1>3 DEF TicketCreated, TicketInv, TicketRows
  <2>2. QED
    BY <1>1, <2>1
<1>4. ASSUME NEW h \in Benches, TicketTakenUp(h) \/ TicketDropped(h)
      PROVE  ticket'[k] = ticket[k] /\ ticketOutbox'[k] = ticketOutbox[k]
  BY <1>4 DEF TicketTakenUp, TicketDropped
<1>5. ASSUME NEW h \in Benches, TicketWritten(h), bench[h].ticket # k
      PROVE  ticket'[k] = ticket[k] /\ ticketOutbox'[k] = ticketOutbox[k]
  BY <1>5 DEF TicketWritten
<1>6. ASSUME NEW h \in Benches, TicketWritten(h), bench[h].ticket = k
      PROVE  /\ ticket'[k].status \in MaintenanceService!TICKET_TRANSITIONS[ticket[k].status]
             /\ MaintenanceService!resolutions(k)' # MaintenanceService!resolutions(k) <=>
                   ticket[k].status = "IN_PROGRESS" /\ ticket'[k].status = "RESOLVED"
  <2>1. PICK r \in {bench[h]} :
           /\ r # MaintenanceService!Free /\ k = r.ticket
           /\ ticket'[k].status = AskedOfTicket[r.pc]
           /\ IF r.pc = "RESOLVE"
              THEN ticketOutbox' = [ticketOutbox EXCEPT ![k] =
                      Append(@, [type |-> "MAINTENANCE_TICKET_RESOLVED",
                                 roomReturnedToService |->
                                    MaintenanceService!returned(k, r.returnRoomToService)])]
              ELSE UNCHANGED ticketOutbox
    BY <1>6 DEF TicketWritten
  <2>2. TicketRequest(r) /\ ticket[k] \in MaintenanceService!TicketRow
    BY <2>1 DEF TicketInv, TicketRequest, TicketRows, MaintenanceService!exists
  <2>3. ticket'[k].status \in MaintenanceService!TICKET_TRANSITIONS[ticket[k].status]
    BY <2>1 DEF QueuedTicketInv, TicketStands, MaintenanceService!mayBecome,
                MaintenanceService!canTransitionTicket
  <2>4. ticket'[k].status = "RESOLVED" <=> r.pc = "RESOLVE"
    BY <2>1, <2>2 DEF TicketRequest, AskedOfTicket
  <2>5. ticket'[k].status = "RESOLVED" => ticket[k].status = "IN_PROGRESS"
    BY <2>2, <2>3 DEF MaintenanceService!TICKET_TRANSITIONS, MaintenanceService!TicketRow
  <2>6. ASSUME r.pc = "RESOLVE"
        PROVE  MaintenanceService!resolutions(k)' # MaintenanceService!resolutions(k)
    <3>1. PICK e : e = [type |-> "MAINTENANCE_TICKET_RESOLVED",
                        roomReturnedToService |->
                           MaintenanceService!returned(k, r.returnRoomToService)]
      OBVIOUS
    <3>2. ticketOutbox' = [ticketOutbox EXCEPT ![k] = Append(@, e)]
      BY <2>1, <2>6, <3>1
    <3>3. ticket[k].takesRoomOffline \in BOOLEAN /\ r.returnRoomToService \in BOOLEAN
      BY <2>2, <2>6 DEF TicketRequest, MaintenanceService!TicketRow
    <3>4. MaintenanceService!returned(k, r.returnRoomToService) \in BOOLEAN
      BY <3>3 DEF MaintenanceService!returned
    <3>5. e \in TicketEvents /\ e.type = "MAINTENANCE_TICKET_RESOLVED"
      BY <3>1, <3>4 DEF TicketEvents
    <3>6. TicketRows
      BY DEF TicketInv
    <3>7. /\ MaintenanceService!resolutions(k)' =
                MaintenanceService!resolutions(k) \cup {Len(ticketOutbox[k]) + 1}
          /\ Len(ticketOutbox[k]) + 1 \notin DOMAIN ticketOutbox[k]
      BY <3>2, <3>5, <3>6, Announced
    <3>8. Len(ticketOutbox[k]) + 1 \in MaintenanceService!resolutions(k)'
      BY <3>5, <3>7
    <3>9. Len(ticketOutbox[k]) + 1 \notin MaintenanceService!resolutions(k)
      BY <3>7 DEF MaintenanceService!resolutions
    <3>10. QED
      BY <3>8, <3>9
  <2>7. ASSUME r.pc # "RESOLVE"
        PROVE  MaintenanceService!resolutions(k)' = MaintenanceService!resolutions(k)
    BY <2>1, <2>7 DEF MaintenanceService!resolutions
  <2>8. QED
    BY <2>3, <2>4, <2>5, <2>6, <2>7
<1>7. ASSUME ticket'[k].status = ticket[k].status,
             MaintenanceService!resolutions(k)' = MaintenanceService!resolutions(k)
      PROVE  MaintenanceService!resolutions(k)' # MaintenanceService!resolutions(k) <=>
                   ticket[k].status = "IN_PROGRESS" /\ ticket'[k].status = "RESOLVED"
  BY <1>7
<1>8. QED
  BY <1>1, <1>2, <1>3, <1>4, <1>5, <1>6, <1>7, RepairSteps

(* A room comes back only from a fault that had disabled it, and a ticket  *)
(* whose handlers queue announces each repair once and none after it is    *)
(* closed (resolve, TICKET_TRANSITIONS).                                   *)
THEOREM QueuedRepairReturnsRoomHolds == OperationsSpec => QueuedRepairReturnsRoom
<1>1. OperationsInit => TicketInv /\ QueuedTicketInv
  BY TicketInit, MaintenanceAssumption
<1>2. TicketInv /\ QueuedTicketInv /\ [OperationsNext]_operationsVars
         => TicketInv' /\ QueuedTicketInv'
  BY TicketNext, TicketQueueNext, MaintenanceAssumption
<1>3. TicketInv /\ QueuedTicketInv /\ TicketInv' /\ [OperationsNext]_operationsVars =>
         [/\ \A k \in Tickets : \A i \in MaintenanceService!resolutions(k)' :
                ticketOutbox'[k][i].roomReturnedToService => fault'[k].disabling
          /\ \A k \in QueuedTickets : MaintenanceService!exists(k) =>
                LET from == ticket[k].status
                    to   == ticket'[k].status
                IN /\ from # to => to \in MaintenanceService!TICKET_TRANSITIONS[from]
                   /\ MaintenanceService!resolutions(k)' # MaintenanceService!resolutions(k) <=>
                         from = "IN_PROGRESS" /\ to = "RESOLVED"]_(MaintenanceService!vars)
  BY RoomWasDisabled, QueuedTicketStep, MaintenanceAssumption
<1>4. QED
  BY <1>1, <1>2, <1>3, PTL
  DEF OperationsSpec, QueuedRepairReturnsRoom, MaintenanceService!QueuedRepairReturnsRoom

-----------------------------------------------------------------------------
(* Whom selectAssignee picks. Loads in proportion to capacities are        *)
(* compared by cross products, which order the people on shift.            *)
Loads == [Staff -> Nat]

(* Products grow with their factors, and only with them.                   *)
LEMMA ProductGrows ==
    \A m, n \in Nat, c \in Nat \ {0} :
        /\ m * c \in Nat
        /\ m <= n => m * c <= n * c
        /\ m < n => m * c < n * c
        /\ m * c <= n * c => m <= n
        /\ m * c < n * c => m < n
<1> SUFFICES ASSUME NEW m \in Nat, NEW n \in Nat, NEW c \in Nat \ {0}
             PROVE  /\ m * c \in Nat
                    /\ m <= n => m * c <= n * c
                    /\ m < n => m * c < n * c
                    /\ m * c <= n * c => m <= n
                    /\ m * c < n * c => m < n
  OBVIOUS
<1>1. ASSUME NEW d \in Int, d >= 0 PROVE d * c >= 0 /\ (d > 0 => d * c > 0)
  BY <1>1
<1>2. m * c \in Int /\ m * c >= 0 /\ n * c \in Int
  BY <1>1
<1>3. (n - m) * c = n * c - m * c /\ (m - n) * c = m * c - n * c
  OBVIOUS
<1>4. m <= n => (n - m) * c >= 0
  BY <1>1
<1>5. m < n => (n - m) * c > 0
  BY <1>1
<1>6. n <= m => (m - n) * c >= 0
  BY <1>1
<1>7. n < m => (m - n) * c > 0
  BY <1>1
<1>8. QED
  BY <1>2, <1>3, <1>4, <1>5, <1>6, <1>7

(* before is transitive and total on those who have room for more.         *)
LEMMA BeforeOrders ==
    ASSUME HousekeepingAssumption, NEW loads \in Loads
    PROVE  /\ \A a, b \in HousekeepingService!available(loads) :
                 HousekeepingService!before(loads, a, b) \/ HousekeepingService!before(loads, b, a)
           /\ \A a, b, c \in HousekeepingService!available(loads) :
                 HousekeepingService!before(loads, a, b) /\ HousekeepingService!before(loads, b, c)
                 => HousekeepingService!before(loads, a, c)
<1>1. \A a \in HousekeepingService!available(loads) :
         a \in Staff /\ a \in Int /\ loads[a] \in Nat /\ Capacity[a] \in Nat \ {0}
  <2>1. SUFFICES ASSUME NEW a \in HousekeepingService!available(loads)
                 PROVE  a \in Staff /\ a \in Int /\ loads[a] \in Nat /\ Capacity[a] \in Nat \ {0}
    OBVIOUS
  <2>2. a \in Staff /\ a \in Int /\ loads[a] \in Nat /\ Capacity[a] \in Nat /\ loads[a] < Capacity[a]
    BY DEF HousekeepingService!available, Loads, HousekeepingAssumption
  <2>3. QED
    BY <2>2
<1>2. \A m, n \in Nat, c \in Nat \ {0} : m * c \in Nat /\ m * c = c * m
  BY ProductGrows
<1>3. ASSUME NEW a \in HousekeepingService!available(loads),
             NEW b \in HousekeepingService!available(loads)
      PROVE  HousekeepingService!before(loads, a, b) \/ HousekeepingService!before(loads, b, a)
  <2>1. loads[a] * Capacity[b] \in Nat /\ loads[b] * Capacity[a] \in Nat /\ a \in Int /\ b \in Int
    BY <1>1, <1>2
  <2>2. QED
    BY <2>1 DEF HousekeepingService!before
<1>4. ASSUME NEW m \in Nat, NEW n \in Nat, NEW k \in Nat,
             NEW c \in Nat \ {0}, NEW d \in Nat \ {0}, NEW e \in Nat \ {0},
             m * d <= n * c, n * e <= k * d
      PROVE  /\ m * e <= k * c
             /\ m * d < n * c \/ n * e < k * d => m * e < k * c
  <2>1. /\ m * d \in Nat /\ n * c \in Nat /\ n * e \in Nat /\ k * d \in Nat
        /\ m * e \in Nat /\ k * c \in Nat
    BY <1>2
  <2>2. (m * d) * e <= (n * c) * e /\ (m * d < n * c => (m * d) * e < (n * c) * e)
    BY <1>4, <2>1, ProductGrows
  <2>3. (n * e) * c <= (k * d) * c /\ (n * e < k * d => (n * e) * c < (k * d) * c)
    BY <1>4, <2>1, ProductGrows
  <2>4. /\ (m * d) * e = (m * e) * d /\ (n * c) * e = (n * e) * c /\ (k * d) * c = (k * c) * d
    OBVIOUS
  <2>5. (m * e) * d <= (k * c) * d /\ (m * d < n * c \/ n * e < k * d => (m * e) * d < (k * c) * d)
    <3>1. (m * d) * e \in Nat /\ (n * c) * e \in Nat /\ (k * d) * c \in Nat
      BY <1>2, <2>1
    <3>2. QED
      BY <2>2, <2>3, <2>4, <3>1
  <2>6. QED
    BY <2>1, <2>5, ProductGrows
<1>5. ASSUME NEW a \in HousekeepingService!available(loads),
             NEW b \in HousekeepingService!available(loads),
             NEW c \in HousekeepingService!available(loads),
             HousekeepingService!before(loads, a, b), HousekeepingService!before(loads, b, c)
      PROVE  HousekeepingService!before(loads, a, c)
  <2>1. /\ loads[a] * Capacity[b] \in Nat /\ loads[b] * Capacity[a] \in Nat
        /\ loads[b] * Capacity[c] \in Nat /\ loads[c] * Capacity[b] \in Nat
        /\ loads[a] * Capacity[c] \in Nat /\ loads[c] * Capacity[a] \in Nat
        /\ a \in Int /\ b \in Int /\ c \in Int
    BY <1>1, <1>2
  <2>2. /\ loads[a] * Capacity[b] <= loads[b] * Capacity[a]
        /\ loads[b] * Capacity[c] <= loads[c] * Capacity[b]
    BY <1>5, <2>1 DEF HousekeepingService!before
  <2>3. /\ loads[a] * Capacity[c] <= loads[c] * Capacity[a]
        /\ loads[a] * Capacity[b] < loads[b] * Capacity[a]
           \/ loads[b] * Capacity[c] < loads[c] * Capacity[b]
           => loads[a] * Capacity[c] < loads[c] * Capacity[a]
    BY <1>1, <1>4, <2>2
  <2>4. loads[a] * Capacity[c] < loads[c] * Capacity[a] \/ a <= c
    BY <1>5, <2>1, <2>3 DEF HousekeepingService!before
  <2>5. QED
    BY <2>1, <2>3, <2>4 DEF HousekeepingService!before
<1>6. QED
  BY <1>3, <1>5

(* Somebody who has room is picked, when there is such a person.           *)
LEMMA SomebodyIsSelected ==
    ASSUME HousekeepingAssumption, NEW loads \in Loads, HousekeepingService!available(loads) # {}
    PROVE  HousekeepingService!selectAssignee(loads) \in HousekeepingService!available(loads)
<1> DEFINE A == HousekeepingService!available(loads)
           HasFirst(s) == \E x \in s : \A o \in s : HousekeepingService!before(loads, x, o)
           P == {s \in SUBSET A : s # {} => HasFirst(s)}
<1>1. IsFiniteSet(A)
  <2>1. A \in SUBSET Staff
    BY DEF HousekeepingService!available, Loads
  <2>2. QED
    BY <2>1, FS_Subset DEF HousekeepingAssumption
<1>2. /\ \A a, b \in A : HousekeepingService!before(loads, a, b) \/ HousekeepingService!before(loads, b, a)
      /\ \A a, b, c \in A :
            HousekeepingService!before(loads, a, b) /\ HousekeepingService!before(loads, b, c)
            => HousekeepingService!before(loads, a, c)
  BY BeforeOrders
<1> HIDE DEF A
<1>3. ASSUME NEW s \in SUBSET A, \A t \in SUBSET s : t # s => t \in P PROVE s \in P
  <2>1. SUFFICES ASSUME s # {} PROVE HasFirst(s)
    OBVIOUS
  <2>2. PICK x \in s : TRUE
    BY <2>1
  <2>3. CASE s = {x}
    BY <1>2, <2>3
  <2>4. CASE s # {x}
    <3>1. HasFirst(s \ {x})
      <4>1. s \ {x} \in SUBSET s /\ s \ {x} # s /\ s \ {x} # {}
        BY <2>2, <2>4
      <4>2. s \ {x} \in P
        BY <1>3, <4>1
      <4> HIDE DEF HasFirst
      <4>3. QED
        BY <4>1, <4>2
    <3>2. PICK y \in s \ {x} : \A o \in s \ {x} : HousekeepingService!before(loads, y, o)
      BY <3>1
    <3>3. CASE HousekeepingService!before(loads, y, x)
      BY <3>2, <3>3
    <3>4. CASE ~ HousekeepingService!before(loads, y, x)
      <4>1. HousekeepingService!before(loads, x, y) /\ HousekeepingService!before(loads, x, x)
        BY <1>2, <3>4
      <4>2. \A o \in s : HousekeepingService!before(loads, x, o)
        BY <1>2, <3>2, <4>1
      <4>3. QED
        BY <4>2
    <3>5. QED
      BY <3>3, <3>4
  <2>5. QED
    BY <2>3, <2>4
<1> HIDE DEF P
<1>4. P = SUBSET A
  <2>1. P \in SUBSET SUBSET A
    BY DEF P
  <2>2. QED
    BY <1>1, <1>3, <2>1, SubsetInduction, Zenon
<1>5. HasFirst(A)
  <2>1. A # {}
    BY DEF A
  <2>2. QED
    BY <1>4, <2>1 DEF P
<1>6. QED
  BY <1>5 DEF A, HousekeepingService!selectAssignee

(* The work somebody is at is counted in whole tasks.                      *)
LEMMA LoadIsNat == ASSUME HousekeepingAssumption, NEW s PROVE HousekeepingService!load(s) \in Nat
<1> DEFINE at == {t \in Tasks : /\ task[t] # NoTask
                                /\ task[t].assignee = s
                                /\ task[t].status \in {"ASSIGNED", "IN_PROGRESS"}}
<1>1. at \in SUBSET Tasks
  OBVIOUS
<1>2. IsFiniteSet(at)
  BY <1>1, FS_Subset DEF HousekeepingAssumption
<1>3. Cardinality(at) \in Nat
  BY <1>2, FS_CardinalityType
<1>4. QED
  BY <1>3 DEF HousekeepingService!load, HousekeepingService!Cardinality, Cardinality

(* computePriority rates every clean.                                      *)
LEMMA CleansAreRated ==
    ASSUME HousekeepingAssumption, NEW clean \in Cleans
    PROVE  HousekeepingService!computePriority(clean) \in {"CRITICAL", "HIGH", "MEDIUM", "LOW"}
<1>1. clean.vip \in BOOLEAN /\ (clean.hours # Never => clean.hours \in Int)
  BY DEF HousekeepingAssumption
<1>2. CASE clean.hours = Never
  BY <1>1, <1>2 DEF HousekeepingService!computePriority
<1>3. CASE clean.hours # Never /\ clean.hours <= 6
  BY <1>1, <1>3 DEF HousekeepingService!computePriority
<1>4. CASE clean.hours # Never /\ ~ clean.hours <= 6
  <2>1. ~ clean.hours <= 2
    BY <1>1, <1>4
  <2>2. QED
    BY <1>1, <1>4, <2>1 DEF HousekeepingService!computePriority
<1>5. QED
  BY <1>2, <1>3, <1>4

-----------------------------------------------------------------------------
(* Cleans. A request refers to a task that is there, the loads it has      *)
(* counted are those of people on shift, and whoever starts a task has     *)
(* been assigned it.                                                       *)
AskedOfTask(r) ==
    CASE r.pc \in {"COUNT", "ASSIGN"} -> "ASSIGNED"
      [] r.pc = "START" -> "IN_PROGRESS"
      [] r.pc = "COMPLETE" -> "COMPLETED"
      [] r.pc = "VERIFY" -> r.outcome

(* A request that is past its first read.                                  *)
TaskRequest(r) ==
    /\ r.pc \in {"COUNT", "ASSIGN", "START", "COMPLETE", "VERIFY"}
    /\ r.task \in Tasks /\ HousekeepingService!exists(r.task)
    /\ r.pc = "COUNT" => /\ r = [pc |-> "COUNT", task |-> r.task, loads |-> r.loads]
                         /\ DOMAIN r.loads \subseteq Staff
                         /\ r.loads \in [DOMAIN r.loads -> Nat]
    /\ r.pc = "ASSIGN" => r.staff \in Staff
    /\ r.pc = "START" => task[r.task].assignee # NoOne
    /\ r.pc = "COMPLETE" => r.report \in Reports
    /\ r.pc = "VERIFY" => r.outcome \in {"VERIFIED", "ASSIGNED"}

TaskRows ==
    /\ task \in [Tasks -> HousekeepingService!TaskRow \cup {NoTask}]
    /\ ticked \in [Tasks -> SUBSET ChecklistItems]
    /\ keeper = [h \in Keepers |-> keeper[h]]
    /\ taskRequests \in 0 .. MaxTaskRequests

Staffed(t) ==
    /\ HousekeepingService!exists(t) /\ task[t].status = "IN_PROGRESS" => task[t].assignee # NoOne
    /\ ~ HousekeepingService!exists(t) => ticked[t] = {}

TaskInv ==
    /\ TaskRows
    /\ \A t \in Tasks : Staffed(t)
    /\ \A h \in Keepers : keeper[h] # HousekeepingService!Free => TaskRequest(keeper[h])

(* Without overlap: what a request checked still stands, and a task that   *)
(* is not done is not said to be, and has nothing ticked.                  *)
TaskStands(r) ==
    r.task \in QueuedTasks =>
        /\ HousekeepingService!mayBecome(r.task, AskedOfTask(r))
        /\ r.pc = "COMPLETE" => HousekeepingService!outstanding(r.task, r.report) = {}

Undone(t) ==
    HousekeepingService!exists(t) /\ ~ task[t].done =>
        ticked[t] = {} /\ task[t].status \notin {"COMPLETED", "VERIFIED"}

QueuedTaskInv ==
    /\ \A h \in Keepers : keeper[h] # HousekeepingService!Free => TaskStands(keeper[h])
    /\ \A h, j \in Keepers :
          /\ keeper[h] # HousekeepingService!Free /\ keeper[j] # HousekeepingService!Free
          /\ keeper[h].task = keeper[j].task /\ keeper[h].task \in QueuedTasks
          => h = j
    /\ \A t \in QueuedTasks : Undone(t)

(* What a step of a handler is: it takes up a request, ...                 *)
TaskTakenUp(h) ==
    \E r \in {keeper'[h]} :
        /\ HousekeepingService!begin(h, r) /\ TaskRequest(r) /\ r # HousekeepingService!Free
        /\ HousekeepingService!mayBecome(r.task, AskedOfTask(r))
        /\ r.pc = "COMPLETE" => HousekeepingService!outstanding(r.task, r.report) = {}
        /\ UNCHANGED <<task, ticked, taskOutbox>>

(* ... goes on with it, or leaves it, ...                                  *)
TaskWentOn(h) ==
    \E r \in {keeper'[h]} :
        /\ keeper[h] # HousekeepingService!Free /\ keeper' = [keeper EXCEPT ![h] = r]
        /\ \/ r = HousekeepingService!Free
           \/ /\ TaskRequest(r) /\ r # HousekeepingService!Free
              /\ r.pc \in {"COUNT", "ASSIGN"} /\ r.task = keeper[h].task
              /\ keeper[h].pc = "COUNT"
        /\ UNCHANGED <<task, ticked, taskOutbox, taskRequests>>

(* ... or writes the status it was asked for: and ticks what the report    *)
(* says, starts the checklist over, or leaves it.                          *)
TaskWritten(h) ==
    \E t \in Tasks, r \in {keeper[h]}, row \in HousekeepingService!TaskRow :
        /\ r # HousekeepingService!Free /\ t = r.task /\ r.pc # "COUNT"
        /\ keeper' = [keeper EXCEPT ![h] = HousekeepingService!Free]
        /\ taskRequests' = taskRequests
        /\ task' = [task EXCEPT ![t] = row]
        /\ row.status = AskedOfTask(r)
        /\ row.assignee = task[t].assignee \/ row.assignee \in Staff
        /\ \/ /\ r.pc = "COMPLETE" /\ row.done
              /\ ticked' = [ticked EXCEPT ![t] = (@ \cup r.report.ticked) \ r.report.unticked]
           \/ /\ r.pc = "VERIFY" /\ r.outcome = "ASSIGNED" /\ ~ row.done
              /\ ticked' = [ticked EXCEPT ![t] = {}]
           \/ /\ r.pc # "COMPLETE" /\ row.done = task[t].done
              /\ UNCHANGED ticked

TaskCreated ==
    \E t \in Tasks, row \in HousekeepingService!TaskRow :
        /\ ~ HousekeepingService!exists(t)
        /\ task' = [task EXCEPT ![t] = row]
        /\ row.status = "PENDING" /\ ~ row.done
        /\ UNCHANGED <<ticked, keeper, taskRequests>>

(* A request that is past its first read is a record of what was asked.    *)
LEMMA TaskTaken ==
    ASSUME HousekeepingAssumption, NEW h \in Keepers, TaskInv,
           \/ HousekeepingService!ReadForAssign(h) \/ HousekeepingService!ReadForStart(h)
           \/ HousekeepingService!ReadForComplete(h) \/ HousekeepingService!ReadForVerify(h)
    PROVE  TaskTakenUp(h)
<1>1. ASSUME NEW r, HousekeepingService!begin(h, r), TaskRequest(r),
             HousekeepingService!mayBecome(r.task, AskedOfTask(r)),
             r.pc = "COMPLETE" => HousekeepingService!outstanding(r.task, r.report) = {},
             UNCHANGED <<task, ticked, taskOutbox>>
      PROVE  TaskTakenUp(h)
  <2>1. keeper'[h] = r
    BY <1>1 DEF TaskInv, TaskRows, HousekeepingService!begin
  <2>2. r # HousekeepingService!Free
    BY <1>1 DEF TaskRequest, HousekeepingService!Free
  <2>3. QED
    BY <1>1, <2>1, <2>2 DEF TaskTakenUp
<1>2. CASE HousekeepingService!ReadForAssign(h)
  <2>1. PICK t \in Tasks :
           /\ HousekeepingService!mayBecome(t, "ASSIGNED")
           /\ \/ \E s \in Staff : HousekeepingService!begin(h, [pc |-> "ASSIGN", task |-> t, staff |-> s])
              \/ HousekeepingService!begin(h, [pc |-> "COUNT", task |-> t, loads |-> <<>>])
           /\ UNCHANGED <<task, ticked, taskOutbox>>
    BY <1>2 DEF HousekeepingService!ReadForAssign, HousekeepingService!readForAssign
  <2>2. ASSUME NEW s \in Staff,
               HousekeepingService!begin(h, [pc |-> "ASSIGN", task |-> t, staff |-> s])
        PROVE  TaskTakenUp(h)
    <3> DEFINE r == [pc |-> "ASSIGN", task |-> t, staff |-> s]
    <3>1. TaskRequest(r) /\ HousekeepingService!mayBecome(r.task, AskedOfTask(r))
      BY <2>1 DEF TaskRequest, AskedOfTask, HousekeepingService!mayBecome
    <3>2. QED
      BY <1>1, <2>1, <2>2, <3>1
  <2>3. ASSUME HousekeepingService!begin(h, [pc |-> "COUNT", task |-> t, loads |-> <<>>])
        PROVE  TaskTakenUp(h)
    <3> DEFINE r == [pc |-> "COUNT", task |-> t, loads |-> <<>>]
    <3>1. DOMAIN <<>> = {} /\ <<>> \in [{} -> Nat]
      OBVIOUS
    <3>2. TaskRequest(r) /\ HousekeepingService!mayBecome(r.task, AskedOfTask(r))
      BY <2>1, <3>1 DEF TaskRequest, AskedOfTask, HousekeepingService!mayBecome
    <3>3. QED
      BY <1>1, <2>1, <2>3, <3>2
  <2>4. QED
    BY <2>1, <2>2, <2>3
<1>3. CASE HousekeepingService!ReadForStart(h)
  <2>1. PICK t \in Tasks, s \in Staff : HousekeepingService!readForStart(h, t, s)
    BY <1>3 DEF HousekeepingService!ReadForStart
  <2> DEFINE r == [pc |-> "START", task |-> t]
  <2>2. TaskRequest(r) /\ HousekeepingService!mayBecome(r.task, AskedOfTask(r))
    BY <2>1 DEF HousekeepingService!readForStart, TaskRequest, AskedOfTask,
                HousekeepingService!mayBecome, HousekeepingAssumption
  <2>3. QED
    BY <1>1, <2>1, <2>2 DEF HousekeepingService!readForStart
<1>4. CASE HousekeepingService!ReadForComplete(h)
  <2>1. PICK t \in Tasks, report \in Reports : HousekeepingService!readForComplete(h, t, report)
    BY <1>4 DEF HousekeepingService!ReadForComplete
  <2> DEFINE r == [pc |-> "COMPLETE", task |-> t, report |-> report]
  <2>2. TaskRequest(r) /\ HousekeepingService!mayBecome(r.task, AskedOfTask(r))
    BY <2>1 DEF HousekeepingService!readForComplete, TaskRequest, AskedOfTask,
                HousekeepingService!mayBecome
  <2>3. QED
    BY <1>1, <2>1, <2>2 DEF HousekeepingService!readForComplete
<1>5. CASE HousekeepingService!ReadForVerify(h)
  <2>1. PICK t \in Tasks, outcome \in {"VERIFIED", "ASSIGNED"} :
           /\ HousekeepingService!mayBecome(t, outcome)
           /\ HousekeepingService!begin(h, [pc |-> "VERIFY", task |-> t, outcome |-> outcome])
    BY <1>5 DEF HousekeepingService!ReadForVerify
  <2> DEFINE r == [pc |-> "VERIFY", task |-> t, outcome |-> outcome]
  <2>2. TaskRequest(r) /\ HousekeepingService!mayBecome(r.task, AskedOfTask(r))
    BY <2>1 DEF TaskRequest, AskedOfTask, HousekeepingService!mayBecome
  <2>3. UNCHANGED <<task, ticked, taskOutbox>>
    BY <1>5 DEF HousekeepingService!ReadForVerify
  <2>4. QED
    BY <1>1, <2>1, <2>2, <2>3
<1>6. QED
  BY <1>2, <1>3, <1>4, <1>5

(* Counting one more load, or the last one: then somebody is selected, or  *)
(* nobody has room.                                                        *)
LEMMA LoadCounted ==
    ASSUME HousekeepingAssumption, TaskInv, NEW h \in Keepers, HousekeepingService!CountLoad(h)
    PROVE  TaskWentOn(h)
<1>1. keeper[h].pc = "COUNT" /\ keeper[h] # HousekeepingService!Free
  BY DEF HousekeepingService!CountLoad, HousekeepingService!Free
<1>2. PICK t \in Tasks : /\ t = keeper[h].task /\ HousekeepingService!exists(t)
                         /\ keeper[h] = [pc |-> "COUNT", task |-> t, loads |-> keeper[h].loads]
                         /\ DOMAIN keeper[h].loads \subseteq Staff
                         /\ keeper[h].loads \in [DOMAIN keeper[h].loads -> Nat]
  BY <1>1 DEF TaskInv, TaskRequest
<1>3. PICK s \in Staff :
         LET loads == [p \in DOMAIN keeper[h].loads \cup {s} |->
                          IF p = s THEN HousekeepingService!load(s) ELSE keeper[h].loads[p]]
         IN keeper' = [keeper EXCEPT ![h] =
               IF DOMAIN loads # Staff THEN [keeper[h] EXCEPT !.loads = loads]
               ELSE IF HousekeepingService!available(loads) = {} THEN HousekeepingService!Free
               ELSE [pc |-> "ASSIGN", task |-> t,
                     staff |-> HousekeepingService!selectAssignee(loads)]]
  BY <1>2 DEF HousekeepingService!CountLoad
<1> DEFINE counted == [p \in DOMAIN keeper[h].loads \cup {s} |->
                          IF p = s THEN HousekeepingService!load(s) ELSE keeper[h].loads[p]]
<1>4. PICK loads : loads = counted
  OBVIOUS
<1>5. keeper' = [keeper EXCEPT ![h] =
               IF DOMAIN loads # Staff THEN [keeper[h] EXCEPT !.loads = loads]
               ELSE IF HousekeepingService!available(loads) = {} THEN HousekeepingService!Free
               ELSE [pc |-> "ASSIGN", task |-> t,
                     staff |-> HousekeepingService!selectAssignee(loads)]]
  BY <1>3, <1>4
<1>6. UNCHANGED <<task, ticked, taskOutbox, taskRequests>>
  BY DEF HousekeepingService!CountLoad
<1>7. DOMAIN loads \subseteq Staff /\ loads \in [DOMAIN loads -> Nat]
  BY <1>2, <1>4, LoadIsNat
<1> HIDE DEF counted
<1>8. ASSUME NEW r, keeper' = [keeper EXCEPT ![h] = r],
             \/ r = HousekeepingService!Free
             \/ TaskRequest(r) /\ r.pc \in {"COUNT", "ASSIGN"} /\ r.task = t
      PROVE  TaskWentOn(h)
  <2>1. keeper'[h] = r
    BY <1>8 DEF TaskInv, TaskRows
  <2>2. r.pc \in {"COUNT", "ASSIGN"} => r # HousekeepingService!Free
    BY DEF HousekeepingService!Free
  <2>3. keeper[h].task = t
    BY <1>2
  <2>4. QED
    BY <1>1, <1>6, <1>8, <2>1, <2>2, <2>3 DEF TaskWentOn
<1>9. CASE DOMAIN loads # Staff
  <2>1. PICK r : r = [pc |-> "COUNT", task |-> t, loads |-> loads]
    OBVIOUS
  <2>2. [keeper[h] EXCEPT !.loads = loads] = r
    BY <1>2, <2>1
  <2>3. keeper' = [keeper EXCEPT ![h] = r]
    BY <1>5, <1>9, <2>2
  <2>4. r.pc = "COUNT" /\ r.task = t /\ r.loads = loads
    BY <2>1
  <2>5. TaskRequest(r)
    BY <1>2, <1>7, <2>1, <2>4 DEF TaskRequest
  <2>6. QED
    BY <1>8, <2>3, <2>4, <2>5
<1>10. CASE DOMAIN loads = Staff /\ HousekeepingService!available(loads) = {}
  BY <1>5, <1>8, <1>10
<1>11. CASE DOMAIN loads = Staff /\ HousekeepingService!available(loads) # {}
  <2>1. loads \in Loads
    BY <1>7, <1>11 DEF Loads
  <2>2. HousekeepingService!selectAssignee(loads) \in Staff
    BY <1>11, <2>1, SomebodyIsSelected DEF HousekeepingService!available
  <2>3. PICK r : r = [pc |-> "ASSIGN", task |-> t,
                      staff |-> HousekeepingService!selectAssignee(loads)]
    OBVIOUS
  <2>4. keeper' = [keeper EXCEPT ![h] = r]
    BY <1>5, <1>11, <2>3
  <2>5. TaskRequest(r) /\ r.pc = "ASSIGN" /\ r.task = t
    BY <1>2, <2>2, <2>3 DEF TaskRequest
  <2>6. QED
    BY <1>8, <2>4, <2>5
<1>12. QED
  BY <1>9, <1>10, <1>11

(* The write of a request moves the task it found to what was asked.       *)
LEMMA TaskMoved ==
    ASSUME HousekeepingAssumption, TaskInv, NEW h \in Keepers,
           \/ HousekeepingService!Assign(h) \/ HousekeepingService!Start(h)
           \/ HousekeepingService!Complete(h) \/ HousekeepingService!Verify(h)
    PROVE  TaskWritten(h)
<1>1. /\ keeper[h].pc \in {"ASSIGN", "START", "COMPLETE", "VERIFY"}
      /\ keeper[h] # HousekeepingService!Free
      /\ keeper' = [keeper EXCEPT ![h] = HousekeepingService!Free]
      /\ taskRequests' = taskRequests
  <2>1. /\ keeper[h].pc \in {"ASSIGN", "START", "COMPLETE", "VERIFY"}
        /\ HousekeepingService!end(h)
    BY DEF HousekeepingService!Assign, HousekeepingService!Start, HousekeepingService!Complete,
           HousekeepingService!Verify
  <2>2. QED
    BY <2>1 DEF HousekeepingService!Free, HousekeepingService!end
<1>2. PICK t \in Tasks, r \in {keeper[h]} : t = r.task
  BY <1>1 DEF TaskInv, TaskRequest
<1>3. TaskRequest(r) /\ task[t] \in HousekeepingService!TaskRow /\ t \in DOMAIN task
  BY <1>1, <1>2 DEF TaskInv, TaskRequest, TaskRows, HousekeepingService!exists
<1>4. ASSUME NEW row \in HousekeepingService!TaskRow, task' = [task EXCEPT ![t] = row],
             row.status = AskedOfTask(r),
             row.assignee = task[t].assignee \/ row.assignee \in Staff,
             \/ /\ r.pc = "COMPLETE" /\ row.done
                /\ ticked' = [ticked EXCEPT ![t] = (@ \cup r.report.ticked) \ r.report.unticked]
             \/ /\ r.pc = "VERIFY" /\ r.outcome = "ASSIGNED" /\ ~ row.done
                /\ ticked' = [ticked EXCEPT ![t] = {}]
             \/ /\ r.pc # "COMPLETE" /\ row.done = task[t].done
                /\ UNCHANGED ticked
      PROVE  TaskWritten(h)
  <2>1. r # HousekeepingService!Free /\ r.pc # "COUNT"
    BY <1>1, <1>2
  <2>2. QED
    BY <1>1, <1>2, <1>4, <2>1 DEF TaskWritten
<1>5. CASE HousekeepingService!Assign(h)
  <2>1. r.pc = "ASSIGN" /\ r.staff \in Staff /\ AskedOfTask(r) = "ASSIGNED"
    BY <1>2, <1>3, <1>5 DEF HousekeepingService!Assign, TaskRequest, AskedOfTask
  <2>2. PICK row : row = [task[t] EXCEPT !.status = "ASSIGNED", !.assignee = r.staff]
    OBVIOUS
  <2>3. task' = [task EXCEPT ![t] = row] /\ UNCHANGED ticked
    BY <1>2, <1>3, <1>5, <2>2 DEF HousekeepingService!Assign
  <2>4. /\ row \in HousekeepingService!TaskRow /\ row.status = "ASSIGNED"
        /\ row.assignee = r.staff /\ row.done = task[t].done
    BY <1>3, <2>1, <2>2 DEF HousekeepingService!TaskRow, HousekeepingService!TASK_TRANSITIONS
  <2>5. QED
    BY <1>4, <2>1, <2>3, <2>4
<1>6. CASE HousekeepingService!Start(h)
  <2>1. r.pc = "START" /\ AskedOfTask(r) = "IN_PROGRESS"
    BY <1>2, <1>6 DEF HousekeepingService!Start, AskedOfTask
  <2>2. PICK row : row = [task[t] EXCEPT !.status = "IN_PROGRESS"]
    OBVIOUS
  <2>3. task' = [task EXCEPT ![t] = row] /\ UNCHANGED ticked
    BY <1>2, <1>3, <1>6, <2>2 DEF HousekeepingService!Start
  <2>4. /\ row \in HousekeepingService!TaskRow /\ row.status = "IN_PROGRESS"
        /\ row.assignee = task[t].assignee /\ row.done = task[t].done
    BY <1>3, <2>2 DEF HousekeepingService!TaskRow, HousekeepingService!TASK_TRANSITIONS
  <2>5. QED
    BY <1>4, <2>1, <2>3, <2>4
<1>7. CASE HousekeepingService!Complete(h)
  <2>1. r.pc = "COMPLETE" /\ AskedOfTask(r) = "COMPLETED"
    BY <1>2, <1>7 DEF HousekeepingService!Complete, AskedOfTask
  <2>2. PICK row : row = [task[t] EXCEPT !.status = "COMPLETED", !.done = TRUE]
    OBVIOUS
  <2>3. /\ task' = [task EXCEPT ![t] = row]
        /\ ticked' = [ticked EXCEPT ![t] = (@ \cup r.report.ticked) \ r.report.unticked]
    BY <1>2, <1>3, <1>7, <2>2 DEF HousekeepingService!Complete,
       HousekeepingService!ticksAfter
  <2>4. /\ row \in HousekeepingService!TaskRow /\ row.status = "COMPLETED"
        /\ row.assignee = task[t].assignee /\ row.done
    BY <1>3, <2>2 DEF HousekeepingService!TaskRow, HousekeepingService!TASK_TRANSITIONS
  <2>5. QED
    BY <1>4, <2>1, <2>3, <2>4
<1>8. CASE HousekeepingService!Verify(h) /\ r.outcome = "VERIFIED"
  <2>1. r.pc = "VERIFY" /\ AskedOfTask(r) = "VERIFIED"
    BY <1>2, <1>8 DEF HousekeepingService!Verify, AskedOfTask
  <2>2. PICK row : row = [task[t] EXCEPT !.status = "VERIFIED"]
    OBVIOUS
  <2>3. task' = [task EXCEPT ![t] = row] /\ UNCHANGED ticked
    BY <1>2, <1>3, <1>8, <2>2 DEF HousekeepingService!Verify
  <2>4. /\ row \in HousekeepingService!TaskRow /\ row.status = "VERIFIED"
        /\ row.assignee = task[t].assignee /\ row.done = task[t].done
    BY <1>3, <2>2 DEF HousekeepingService!TaskRow, HousekeepingService!TASK_TRANSITIONS
  <2>5. QED
    BY <1>4, <2>1, <2>3, <2>4
<1>9. CASE HousekeepingService!Verify(h) /\ r.outcome # "VERIFIED"
  <2>1. r.pc = "VERIFY" /\ r.outcome = "ASSIGNED" /\ AskedOfTask(r) = "ASSIGNED"
    BY <1>2, <1>3, <1>9 DEF HousekeepingService!Verify, AskedOfTask, TaskRequest
  <2>2. PICK row : row = [task[t] EXCEPT !.status = "ASSIGNED", !.done = FALSE,
                                         !.priority = "CRITICAL"]
    OBVIOUS
  <2>3. task' = [task EXCEPT ![t] = row] /\ ticked' = [ticked EXCEPT ![t] = {}]
    <3>1. keeper[h].outcome # "VERIFIED" /\ keeper[h].task = t
      BY <1>2, <1>9
    <3>2. /\ task' = [task EXCEPT ![t].status = "ASSIGNED", ![t].done = FALSE,
                                  ![t].priority = "CRITICAL"]
          /\ ticked' = [ticked EXCEPT ![t] = {}]
      BY <1>9, <3>1 DEF HousekeepingService!Verify, HousekeepingService!reworkChecklist
    <3>3. QED
      BY <1>3, <2>2, <3>2
  <2>4. /\ row \in HousekeepingService!TaskRow /\ row.status = "ASSIGNED"
        /\ row.assignee = task[t].assignee /\ ~ row.done
    BY <1>3, <2>2 DEF HousekeepingService!TaskRow, HousekeepingService!TASK_TRANSITIONS
  <2>5. QED
    BY <1>4, <2>1, <2>3, <2>4
<1>10. QED
  BY <1>5, <1>6, <1>7, <1>8, <1>9

(* A task that is created is typed.                                        *)
LEMMA TaskMade ==
    ASSUME HousekeepingAssumption, NEW t \in Tasks, HousekeepingService!CreateTask(t)
    PROVE  TaskCreated
<1>1. PICK clean \in Cleans :
         task' = [task EXCEPT ![t] =
             [type |-> clean.type, status |-> "PENDING", assignee |-> NoOne,
              priority |-> HousekeepingService!computePriority(clean), done |-> FALSE]]
  BY DEF HousekeepingService!CreateTask
<1>2. PICK row : row = [type |-> clean.type, status |-> "PENDING", assignee |-> NoOne,
                        priority |-> HousekeepingService!computePriority(clean), done |-> FALSE]
  OBVIOUS
<1>3. clean.type \in HousekeepingService!TaskType
  BY DEF HousekeepingAssumption
<1>4. row \in HousekeepingService!TaskRow
  BY <1>2, <1>3, CleansAreRated
  DEF HousekeepingService!TaskRow, HousekeepingService!TASK_TRANSITIONS
<1>5. row.status = "PENDING" /\ ~ row.done /\ task' = [task EXCEPT ![t] = row]
  BY <1>1, <1>2
<1>6. ~ HousekeepingService!exists(t) /\ UNCHANGED <<ticked, keeper, taskRequests>>
  BY DEF HousekeepingService!CreateTask
<1>7. QED
  BY <1>4, <1>5, <1>6 DEF TaskCreated

(* A step of housekeeping-service is one of the four.                      *)
LEMMA CleaningSteps ==
    ASSUME HousekeepingAssumption, TaskInv, housekeeping
    PROVE  TaskCreated \/ \E h \in Keepers : TaskTakenUp(h) \/ TaskWentOn(h) \/ TaskWritten(h)
<1>1. ASSUME NEW t \in Tasks, HousekeepingService!CreateTask(t) PROVE TaskCreated
  BY <1>1, TaskMade
<1>2. ASSUME NEW h \in Keepers, HousekeepingService!Crash(h) PROVE TaskWentOn(h)
  <2>1. keeper'[h] = HousekeepingService!Free
    BY <1>2 DEF HousekeepingService!Crash, HousekeepingService!end, TaskInv, TaskRows
  <2>2. QED
    BY <1>2, <2>1 DEF HousekeepingService!Crash, HousekeepingService!end, TaskWentOn
<1>3. ASSUME NEW h \in Keepers,
             \/ HousekeepingService!assign(h) \/ HousekeepingService!start(h)
             \/ HousekeepingService!complete(h) \/ HousekeepingService!verify(h)
      PROVE  TaskTakenUp(h) \/ TaskWentOn(h) \/ TaskWritten(h)
  BY <1>3, TaskTaken, LoadCounted, TaskMoved
  DEF HousekeepingService!assign, HousekeepingService!start, HousekeepingService!complete,
      HousekeepingService!verify
<1>4. QED
  BY <1>1, <1>2, <1>3 DEF housekeeping, HousekeepingService!Next

(* The other departments leave housekeeping-service alone.                 *)
LEMMA NoCleaning ==
    ASSUME [OperationsNext]_operationsVars, ~ housekeeping PROVE UNCHANGED taskVars
BY DEF OperationsNext, operationsVars, finance, frontDesk, rooms, maintenance, billing

(* A request whose task and its assignee are still there is one still.     *)
LEMMA RequestKept ==
    ASSUME HousekeepingAssumption, NEW r, TaskRequest(r), task'[r.task] # NoTask,
           task'[r.task].assignee = task[r.task].assignee \/ task'[r.task].assignee \in Staff
    PROVE  TaskRequest(r)'
BY DEF TaskRequest, HousekeepingService!exists, HousekeepingAssumption

(* The invariant holds before the first task, ...                          *)
LEMMA TaskInit == ASSUME HousekeepingAssumption, OperationsInit PROVE TaskInv /\ QueuedTaskInv
<1>1. /\ task = [t \in Tasks |-> NoTask] /\ ticked = [t \in Tasks |-> {}]
      /\ keeper = [h \in Keepers |-> HousekeepingService!Free] /\ taskRequests = 0
  BY DEF OperationsInit, HousekeepingService!Init
<1>2. TaskRows
  BY <1>1 DEF TaskRows, HousekeepingAssumption
<1>3. \A t \in Tasks : Staffed(t)
  BY <1>1 DEF Staffed, HousekeepingService!exists
<1>4. \A t \in QueuedTasks : Undone(t)
  BY <1>1 DEF Undone, HousekeepingService!exists, HousekeepingAssumption
<1>5. QED
  BY <1>1, <1>2, <1>3, <1>4 DEF TaskInv, QueuedTaskInv

(* ... and after every step.                                               *)
LEMMA TaskNext ==
    ASSUME HousekeepingAssumption, TaskInv, [OperationsNext]_operationsVars
    PROVE  TaskInv'
<1>1. CASE TaskCreated
  <2>1. PICK t \in Tasks, row \in HousekeepingService!TaskRow :
           /\ ~ HousekeepingService!exists(t)
           /\ task' = [task EXCEPT ![t] = row]
           /\ row.status = "PENDING" /\ ~ row.done
           /\ UNCHANGED <<ticked, keeper, taskRequests>>
    BY <1>1 DEF TaskCreated
  <2>2. TaskRows'
    BY <2>1 DEF TaskInv, TaskRows
  <2>3. /\ row # NoTask
        /\ \A u \in Tasks : task'[u] = IF u = t THEN row ELSE task[u]
    BY <2>1 DEF TaskInv, TaskRows, HousekeepingAssumption
  <2>4. \A u \in Tasks : Staffed(u)'
    BY <2>1, <2>3 DEF TaskInv, Staffed, HousekeepingService!exists
  <2>5. ASSUME NEW h \in Keepers, keeper'[h] # HousekeepingService!Free
        PROVE  TaskRequest(keeper[h])'
    <3>1. PICK r : r = keeper[h] /\ r = keeper'[h]
      BY <2>1
    <3>2. TaskRequest(r) /\ r.task # t
      BY <2>1, <2>5, <3>1 DEF TaskInv, TaskRequest
    <3>3. task'[r.task] = task[r.task] /\ task[r.task] # NoTask
      BY <2>3, <3>2 DEF TaskRequest, HousekeepingService!exists
    <3>4. TaskRequest(r)'
      BY <3>2, <3>3, RequestKept
    <3>5. QED
      BY <3>1, <3>4 DEF TaskRequest
  <2>6. QED
    BY <2>2, <2>4, <2>5 DEF TaskInv
<1>2. ASSUME NEW h \in Keepers, TaskTakenUp(h) \/ TaskWentOn(h) PROVE TaskInv'
  <2>1. UNCHANGED <<task, ticked>>
    BY <1>2 DEF TaskTakenUp, TaskWentOn
  <2>2. PICK r : /\ keeper' = [keeper EXCEPT ![h] = r]
                 /\ r = HousekeepingService!Free \/ TaskRequest(r)
    BY <1>2 DEF TaskTakenUp, TaskWentOn, HousekeepingService!begin
  <2>3. taskRequests' \in 0 .. MaxTaskRequests
    BY <1>2 DEF TaskTakenUp, TaskWentOn, HousekeepingService!begin, TaskInv, TaskRows,
                HousekeepingAssumption
  <2>4. TaskRows'
    BY <2>1, <2>2, <2>3 DEF TaskInv, TaskRows
  <2>5. \A t \in Tasks : Staffed(t)'
    BY <2>1 DEF TaskInv, Staffed, HousekeepingService!exists
  <2>6. ASSUME NEW j \in Keepers, keeper'[j] # HousekeepingService!Free
        PROVE  TaskRequest(keeper[j])'
    <3>1. PICK s : s = keeper'[j]
      OBVIOUS
    <3>2. TaskRequest(s)
      BY <2>2, <2>6, <3>1 DEF TaskInv, TaskRows
    <3>3. TaskRequest(s)'
      BY <2>1, <3>2 DEF TaskRequest, HousekeepingService!exists
    <3>4. QED
      BY <3>1, <3>3 DEF TaskRequest
  <2>7. QED
    BY <2>4, <2>5, <2>6 DEF TaskInv
<1>3. ASSUME NEW h \in Keepers, TaskWritten(h) PROVE TaskInv'
  <2>1. PICK t \in Tasks, r \in {keeper[h]}, row \in HousekeepingService!TaskRow :
           /\ r # HousekeepingService!Free /\ t = r.task
           /\ keeper' = [keeper EXCEPT ![h] = HousekeepingService!Free]
           /\ taskRequests' = taskRequests
           /\ task' = [task EXCEPT ![t] = row]
           /\ row.status = AskedOfTask(r)
           /\ row.assignee = task[t].assignee \/ row.assignee \in Staff
           /\ \/ /\ r.pc = "COMPLETE"
                 /\ ticked' = [ticked EXCEPT ![t] = (@ \cup r.report.ticked) \ r.report.unticked]
              \/ ticked' = [ticked EXCEPT ![t] = {}]
              \/ UNCHANGED ticked
    BY <1>3 DEF TaskWritten
  <2>2. TaskRequest(r)
    BY <2>1 DEF TaskInv
  <2>3. ticked' \in [Tasks -> SUBSET ChecklistItems]
    <3>1. CASE r.pc = "COMPLETE"
      <4>1. r.report.ticked \subseteq ChecklistItems
        BY <2>2, <3>1 DEF TaskRequest, HousekeepingAssumption
      <4>2. QED
        BY <2>1, <4>1 DEF TaskInv, TaskRows
    <3>2. CASE r.pc # "COMPLETE"
      BY <2>1, <3>2 DEF TaskInv, TaskRows
    <3>3. QED
      BY <3>1, <3>2
  <2>4. TaskRows'
    BY <2>1, <2>3 DEF TaskInv, TaskRows
  <2>5. /\ row # NoTask
        /\ \A u \in Tasks : task'[u] = IF u = t THEN row ELSE task[u]
        /\ \A u \in Tasks \ {t} : ticked'[u] = ticked[u]
    BY <2>1 DEF TaskInv, TaskRows, HousekeepingAssumption
  <2>6. Staffed(t)'
    <3>1. row.status = "IN_PROGRESS" => r.pc = "START"
      BY <2>1, <2>2 DEF AskedOfTask, TaskRequest
    <3>2. row.status = "IN_PROGRESS" => row.assignee # NoOne
      BY <2>1, <2>2, <3>1 DEF TaskRequest, HousekeepingAssumption
    <3>3. QED
      BY <2>5, <3>2 DEF Staffed, HousekeepingService!exists
  <2>7. \A u \in Tasks \ {t} : Staffed(u)'
    BY <2>5 DEF TaskInv, Staffed, HousekeepingService!exists
  <2>8. ASSUME NEW j \in Keepers, keeper'[j] # HousekeepingService!Free
        PROVE  TaskRequest(keeper[j])'
    <3>1. PICK s : s = keeper[j] /\ s = keeper'[j]
      BY <2>1, <2>8 DEF TaskInv, TaskRows
    <3>2. TaskRequest(s)
      BY <2>8, <3>1 DEF TaskInv
    <3>3. /\ task'[s.task] # NoTask
          /\ task'[s.task].assignee = task[s.task].assignee \/ task'[s.task].assignee \in Staff
      <4>1. CASE s.task = t
        BY <2>1, <2>5, <4>1
      <4>2. CASE s.task # t
        BY <2>5, <3>2, <4>2 DEF TaskRequest, HousekeepingService!exists
      <4>3. QED
        BY <4>1, <4>2
    <3>4. TaskRequest(s)'
      BY <3>2, <3>3, RequestKept
    <3>5. QED
      BY <3>1, <3>4 DEF TaskRequest
  <2>9. QED
    BY <2>4, <2>6, <2>7, <2>8 DEF TaskInv
<1>4. CASE ~ housekeeping
  <2>1. UNCHANGED <<task, ticked, taskOutbox, keeper, taskRequests>>
    BY <1>4, NoCleaning DEF taskVars
  <2>2. TaskRows' /\ \A t \in Tasks : Staffed(t)'
    BY <2>1 DEF TaskInv, TaskRows, Staffed, HousekeepingService!exists
  <2>3. ASSUME NEW h \in Keepers, keeper'[h] # HousekeepingService!Free
        PROVE  TaskRequest(keeper[h])'
    BY <2>1, <2>3 DEF TaskInv, TaskRequest, HousekeepingService!exists
  <2>4. QED
    BY <2>2, <2>3 DEF TaskInv
<1>5. QED
  BY <1>1, <1>2, <1>3, <1>4, CleaningSteps

(* What a request checked still stands while its task and the checklist    *)
(* are left alone.                                                         *)
LEMMA CheckStands ==
    ASSUME NEW r, TaskStands(r), r.task \in QueuedTasks =>
              task'[r.task] = task[r.task] /\ ticked'[r.task] = ticked[r.task]
    PROVE  TaskStands(r)'
BY DEF TaskStands, AskedOfTask, HousekeepingService!mayBecome, HousekeepingService!exists,
       HousekeepingService!canTransitionTask, HousekeepingService!outstanding

(* Only the handler of a queued task is at it.                             *)
LEMMA CleanQueueNext ==
    ASSUME HousekeepingAssumption, TaskInv, QueuedTaskInv, [OperationsNext]_operationsVars
    PROVE  QueuedTaskInv'
<1>1. CASE TaskCreated
  <2>1. PICK t \in Tasks, row \in HousekeepingService!TaskRow :
           /\ ~ HousekeepingService!exists(t)
           /\ task' = [task EXCEPT ![t] = row]
           /\ row.status = "PENDING" /\ ~ row.done
           /\ UNCHANGED <<ticked, keeper>>
    BY <1>1 DEF TaskCreated
  <2>2. \A u \in Tasks : task'[u] = IF u = t THEN row ELSE task[u]
    BY <2>1 DEF TaskInv, TaskRows
  <2>3. ASSUME NEW h \in Keepers, keeper'[h] # HousekeepingService!Free
        PROVE  TaskStands(keeper[h])'
    <3>1. PICK r : r = keeper[h] /\ r = keeper'[h]
      BY <2>1
    <3>2. TaskRequest(r) /\ TaskStands(r)
      BY <2>3, <3>1 DEF TaskInv, QueuedTaskInv
    <3>3. task'[r.task] = task[r.task] /\ ticked'[r.task] = ticked[r.task]
      BY <2>1, <2>2, <3>2 DEF TaskRequest, HousekeepingService!exists
    <3>4. TaskStands(r)'
      BY <3>2, <3>3, CheckStands
    <3>5. QED
      BY <3>1, <3>4 DEF TaskStands, AskedOfTask
  <2>4. ASSUME NEW u \in QueuedTasks PROVE Undone(u)'
    <3>1. u \in Tasks /\ Undone(u) /\ Staffed(u)
      BY DEF HousekeepingAssumption, TaskInv, QueuedTaskInv
    <3>2. QED
      BY <2>1, <2>2, <3>1 DEF Undone, Staffed, HousekeepingService!exists
  <2>5. QED
    BY <2>1, <2>3, <2>4 DEF QueuedTaskInv
<1>2. ASSUME NEW h \in Keepers, TaskTakenUp(h) \/ TaskWentOn(h) PROVE QueuedTaskInv'
  <2>1. UNCHANGED <<task, ticked>>
    BY <1>2 DEF TaskTakenUp, TaskWentOn
  <2>2. PICK r : /\ keeper' = [keeper EXCEPT ![h] = r]
                 /\ \/ r = HousekeepingService!Free
                    \/ /\ r.task \in QueuedTasks =>
                             \A j \in Keepers \ {h} :
                                keeper[j] # HousekeepingService!Free => keeper[j].task # r.task
                       /\ TaskStands(r)
    <3>1. CASE TaskTakenUp(h)
      <4>1. PICK r : /\ keeper' = [keeper EXCEPT ![h] = r]
                     /\ HousekeepingService!mayTouch(r.task)
                     /\ HousekeepingService!mayBecome(r.task, AskedOfTask(r))
                     /\ r.pc = "COMPLETE" => HousekeepingService!outstanding(r.task, r.report) = {}
        BY <3>1 DEF TaskTakenUp, HousekeepingService!begin
      <4>2. r.task \in QueuedTasks =>
               \A j \in Keepers : keeper[j] # HousekeepingService!Free => keeper[j].task # r.task
        BY <4>1 DEF HousekeepingService!mayTouch, HousekeepingService!at
      <4>3. TaskStands(r)
        BY <4>1 DEF TaskStands
      <4>4. QED
        BY <4>1, <4>2, <4>3
    <3>2. CASE TaskWentOn(h)
      <4>1. PICK r : /\ keeper' = [keeper EXCEPT ![h] = r] /\ keeper[h] # HousekeepingService!Free
                     /\ \/ r = HousekeepingService!Free
                        \/ /\ r.pc \in {"COUNT", "ASSIGN"} /\ r.task = keeper[h].task
                           /\ keeper[h].pc = "COUNT"
        BY <3>2 DEF TaskWentOn
      <4>2. CASE r = HousekeepingService!Free
        BY <4>1, <4>2
      <4>3. CASE r.pc \in {"COUNT", "ASSIGN"} /\ r.task = keeper[h].task /\ keeper[h].pc = "COUNT"
        <5>1. TaskStands(keeper[h]) /\ AskedOfTask(keeper[h]) = "ASSIGNED" /\ AskedOfTask(r) = "ASSIGNED"
          BY <4>1, <4>3 DEF QueuedTaskInv, AskedOfTask
        <5>2. TaskStands(r)
          BY <4>3, <5>1 DEF TaskStands
        <5>3. r.task \in QueuedTasks =>
                 \A j \in Keepers \ {h} :
                    keeper[j] # HousekeepingService!Free => keeper[j].task # r.task
          BY <4>1, <4>3 DEF QueuedTaskInv
        <5>4. QED
          BY <4>1, <5>2, <5>3
      <4>4. QED
        BY <4>1, <4>2, <4>3
    <3>3. QED
      BY <1>2, <3>1, <3>2
  <2>3. \A j \in Keepers : keeper'[j] = IF j = h THEN r ELSE keeper[j]
    BY <2>2 DEF TaskInv, TaskRows
  <2>4. ASSUME NEW j \in Keepers, keeper'[j] # HousekeepingService!Free
        PROVE  TaskStands(keeper[j])'
    <3>1. PICK s : s = keeper'[j]
      OBVIOUS
    <3>2. TaskStands(s)
      BY <2>2, <2>3, <2>4, <3>1 DEF QueuedTaskInv
    <3>3. TaskStands(s)'
      BY <2>1, <3>2, CheckStands
    <3>4. QED
      BY <3>1, <3>3 DEF TaskStands, AskedOfTask
  <2>5. ASSUME NEW i \in Keepers, NEW j \in Keepers,
               keeper'[i] # HousekeepingService!Free, keeper'[j] # HousekeepingService!Free,
               keeper'[i].task = keeper'[j].task, keeper'[i].task \in QueuedTasks
        PROVE  i = j
    BY <2>2, <2>3, <2>5 DEF QueuedTaskInv
  <2>6. \A t \in QueuedTasks : Undone(t)'
    BY <2>1 DEF QueuedTaskInv, Undone, HousekeepingService!exists
  <2>7. QED
    BY <2>4, <2>5, <2>6 DEF QueuedTaskInv
<1>3. ASSUME NEW h \in Keepers, TaskWritten(h) PROVE QueuedTaskInv'
  <2>1. PICK t \in Tasks, r \in {keeper[h]}, row \in HousekeepingService!TaskRow :
           /\ r # HousekeepingService!Free /\ t = r.task
           /\ keeper' = [keeper EXCEPT ![h] = HousekeepingService!Free]
           /\ task' = [task EXCEPT ![t] = row]
           /\ row.status = AskedOfTask(r)
           /\ \/ /\ r.pc = "COMPLETE" /\ row.done
                 /\ ticked' = [ticked EXCEPT ![t] = (@ \cup r.report.ticked) \ r.report.unticked]
              \/ /\ r.pc = "VERIFY" /\ r.outcome = "ASSIGNED" /\ ~ row.done
                 /\ ticked' = [ticked EXCEPT ![t] = {}]
              \/ /\ r.pc # "COMPLETE" /\ row.done = task[t].done
                 /\ UNCHANGED ticked
    BY <1>3 DEF TaskWritten
  <2>2. /\ \A u \in Tasks : task'[u] = IF u = t THEN row ELSE task[u]
        /\ \A u \in Tasks \ {t} : ticked'[u] = ticked[u]
        /\ \A j \in Keepers : keeper'[j] = IF j = h THEN HousekeepingService!Free ELSE keeper[j]
    BY <2>1 DEF TaskInv, TaskRows
  <2>3. ASSUME NEW j \in Keepers, keeper'[j] # HousekeepingService!Free
        PROVE  TaskStands(keeper[j])'
    <3>1. PICK s : s = keeper[j] /\ s = keeper'[j] /\ j # h
      BY <2>2, <2>3
    <3>2. TaskRequest(s) /\ TaskStands(s)
      BY <2>3, <3>1 DEF TaskInv, QueuedTaskInv
    <3>3. s.task \in QueuedTasks => s.task # t
      BY <2>1, <2>3, <3>1 DEF QueuedTaskInv
    <3>4. s.task \in QueuedTasks => task'[s.task] = task[s.task] /\ ticked'[s.task] = ticked[s.task]
      BY <2>2, <3>2, <3>3 DEF TaskRequest
    <3>5. TaskStands(s)'
      BY <3>2, <3>4, CheckStands
    <3>6. QED
      BY <3>1, <3>5 DEF TaskStands, AskedOfTask
  <2>4. ASSUME NEW u \in QueuedTasks, u # t PROVE Undone(u)'
    <3>1. u \in Tasks /\ Undone(u)
      BY DEF HousekeepingAssumption, QueuedTaskInv
    <3>2. QED
      BY <2>2, <2>4, <3>1 DEF Undone, HousekeepingService!exists
  <2>5. ASSUME t \in QueuedTasks PROVE Undone(t)'
    <3>1. /\ TaskRequest(r) /\ TaskStands(r) /\ Undone(t)
          /\ task[t] # NoTask /\ task[t] \in HousekeepingService!TaskRow
      BY <2>1, <2>5 DEF TaskInv, QueuedTaskInv, TaskRequest, TaskRows, HousekeepingService!exists
    <3>2. CASE r.pc = "COMPLETE"
      BY <2>1, <2>2, <3>2 DEF Undone
    <3>3. CASE r.pc = "VERIFY" /\ r.outcome = "ASSIGNED" /\ ticked' = [ticked EXCEPT ![t] = {}]
      <4>1. ticked'[t] = {} /\ row.status = "ASSIGNED"
        BY <2>1, <3>3 DEF AskedOfTask, TaskInv, TaskRows
      <4>2. QED
        BY <2>2, <4>1 DEF Undone
    <3>4. CASE r.pc # "COMPLETE" /\ row.done = task[t].done /\ UNCHANGED ticked
      <4>1. ~ row.done => row.status # "COMPLETED"
        BY <2>1, <3>1, <3>4 DEF AskedOfTask, TaskRequest
      <4>2. row.status = "VERIFIED" => task[t].status = "COMPLETED"
        BY <2>1, <2>5, <3>1
        DEF TaskStands, HousekeepingService!mayBecome, HousekeepingService!canTransitionTask,
            HousekeepingService!TASK_TRANSITIONS, HousekeepingService!TaskRow
      <4>3. ~ row.done => ticked[t] = {} /\ task[t].status \notin {"COMPLETED", "VERIFIED"}
        BY <3>1, <3>4 DEF Undone, HousekeepingService!exists
      <4>4. QED
        BY <2>2, <3>4, <4>1, <4>2, <4>3 DEF Undone
    <3>5. QED
      BY <2>1, <3>2, <3>3, <3>4
  <2>6. QED
    BY <2>2, <2>3, <2>4, <2>5 DEF QueuedTaskInv
<1>4. CASE ~ housekeeping
  BY <1>4, NoCleaning DEF taskVars, QueuedTaskInv, TaskStands, Undone, AskedOfTask,
     HousekeepingService!mayBecome, HousekeepingService!exists, HousekeepingService!outstanding
<1>5. QED
  BY <1>1, <1>2, <1>3, <1>4, CleaningSteps

(* The report that a task was finished with: it names all that is required,*)
(* and what stands ticked is its own.                                      *)
finishing(h, t) ==
    /\ keeper[h] # HousekeepingService!Free /\ keeper[h].task = t /\ keeper[h].pc = "COMPLETE"
    /\ Required \subseteq keeper[h].report.ticked
    /\ ticked'[t] = keeper[h].report.ticked \ keeper[h].report.unticked

(* A queued task is finished by one report with all that is required.      *)
LEMMA FinishedByReport ==
    ASSUME HousekeepingAssumption, TaskInv, QueuedTaskInv, [OperationsNext]_operationsVars,
           NEW t \in QueuedTasks, HousekeepingService!exists(t), ~ task[t].done, task'[t].done
    PROVE  \E h \in Keepers : finishing(h, t)
<1>1. t \in Tasks /\ task'[t] # task[t] /\ ticked[t] = {}
  BY DEF HousekeepingAssumption, QueuedTaskInv, Undone
<1>2. housekeeping
  BY <1>1, NoCleaning DEF taskVars
<1>3. ~ TaskCreated
  <2>1. TaskCreated => task'[t] = task[t]
    BY <1>1 DEF TaskCreated, TaskInv, TaskRows
  <2>2. QED
    BY <1>1, <2>1
<1>4. PICK h \in Keepers : TaskWritten(h)
  <2>1. \A h \in Keepers : TaskTakenUp(h) \/ TaskWentOn(h) => task' = task
    BY DEF TaskTakenUp, TaskWentOn
  <2>2. QED
    BY <1>1, <1>2, <1>3, <2>1, CleaningSteps
<1>5. PICK r \in {keeper[h]} :
         /\ r # HousekeepingService!Free /\ t = r.task
         /\ r.pc = "COMPLETE"
         /\ ticked' = [ticked EXCEPT ![t] = (@ \cup r.report.ticked) \ r.report.unticked]
  <2>1. PICK u \in Tasks, r \in {keeper[h]}, row \in HousekeepingService!TaskRow :
           /\ r # HousekeepingService!Free /\ u = r.task
           /\ task' = [task EXCEPT ![u] = row]
           /\ \/ /\ r.pc = "COMPLETE" /\ row.done
                 /\ ticked' = [ticked EXCEPT ![u] = (@ \cup r.report.ticked) \ r.report.unticked]
              \/ /\ r.pc = "VERIFY" /\ r.outcome = "ASSIGNED" /\ ~ row.done
                 /\ ticked' = [ticked EXCEPT ![u] = {}]
              \/ /\ r.pc # "COMPLETE" /\ row.done = task[u].done
                 /\ UNCHANGED ticked
    BY <1>4 DEF TaskWritten
  <2>2. u = t /\ task'[t] = row
    BY <1>1, <2>1 DEF TaskInv, TaskRows
  <2>3. QED
    BY <2>1, <2>2
<1>6. TaskRequest(r) /\ TaskStands(r)
  BY <1>5 DEF TaskInv, QueuedTaskInv
<1>7. Required \subseteq r.report.ticked
  BY <1>1, <1>5, <1>6 DEF TaskStands, HousekeepingService!outstanding
<1>8. ticked'[t] = r.report.ticked \ r.report.unticked
  BY <1>1, <1>5 DEF TaskInv, TaskRows
<1>9. finishing(h, t)
  BY <1>5, <1>7, <1>8 DEF finishing
<1>10. QED
  BY <1>9

(* A task whose handlers queue has nothing ticked until it is finished,    *)
(* and is finished, the first time and after a failed inspection, by one   *)
(* report that names as done everything that is required, with no tick but *)
(* its own (complete, verify).                                             *)
THEOREM QueuedCleanIsRedoneHolds == OperationsSpec => QueuedCleanIsRedone
<1>1. OperationsInit => TaskInv /\ QueuedTaskInv
  BY TaskInit, HousekeepingAssumption
<1>2. TaskInv /\ QueuedTaskInv /\ [OperationsNext]_operationsVars => TaskInv' /\ QueuedTaskInv'
  BY TaskNext, CleanQueueNext, HousekeepingAssumption
<1>3. TaskInv /\ QueuedTaskInv /\ [OperationsNext]_operationsVars =>
         [\A t \in QueuedTasks : HousekeepingService!exists(t) /\ ~ task[t].done =>
             /\ ticked[t] = {} /\ task[t].status \notin {"COMPLETED", "VERIFIED"}
             /\ task'[t].done => \E h \in Keepers : finishing(h, t)]_(HousekeepingService!vars)
  <2>1. SUFFICES ASSUME TaskInv, QueuedTaskInv, [OperationsNext]_operationsVars,
                        NEW t \in QueuedTasks, HousekeepingService!exists(t), ~ task[t].done
                 PROVE  /\ ticked[t] = {} /\ task[t].status \notin {"COMPLETED", "VERIFIED"}
                        /\ task'[t].done => \E h \in Keepers : finishing(h, t)
    OBVIOUS
  <2>2. QED
    BY <2>1, FinishedByReport, HousekeepingAssumption DEF QueuedTaskInv, Undone
<1>4. QED
  BY <1>1, <1>2, <1>3, PTL
  DEF OperationsSpec, QueuedCleanIsRedone, HousekeepingService!QueuedCleanIsRedone, finishing

-----------------------------------------------------------------------------
(* The front desk. A stay has a row once its check-in is over, and no two  *)
(* stays one booking; the other handlers hold a stay that is there.        *)

(* What a balance may come to.                                             *)
Balances == {StayService!computeFolioBalance(lines) : lines \in Seq(StayService!FolioLine)}

StayEvents ==
    [type : {"GUEST_CHECKED_IN", "SERVICE_REQUESTED"}]
    \cup [type : {"GUEST_CHECKED_OUT"}, balance : Balances]

StayRows ==
    /\ stay \in [CheckIns -> StayService!StayRow \cup {NoRow}]
    /\ folio \in [CheckIns -> Seq(StayService!FolioLine)]
    /\ stayOutbox \in [CheckIns -> Seq(StayEvents)]
    /\ checkIn = [s \in CheckIns |-> checkIn[s]]
    /\ checkOut = [o \in CheckOuts |-> checkOut[o]]
    /\ service = [v \in Services |-> service[v]]
    /\ charge = [g \in Charges |-> charge[g]]

(* The check-in that is over, and it alone, has inserted the row.          *)
CheckInOwns(s) ==
    /\ StayService!exists(s) <=> checkIn[s].pc = "CHECKED_IN"
    /\ checkIn[s].pc = "OPEN" => checkIn[s].booking \in Bookings
    /\ ~ StayService!exists(s) => stayOutbox[s] = <<>>

(* What the other handlers have read.                                      *)
FindsToClose(r) ==
    r.pc = "CLOSE" => /\ r.stay \in CheckIns /\ StayService!exists(r.stay)
                      /\ r.amount \in Settlements /\ r.balance \in Balances

FindsToServe(r) ==
    r.pc \in {"PRICE", "REQUEST"} => /\ r.stay \in CheckIns /\ StayService!exists(r.stay)
                                     /\ r.pc = "REQUEST" => r.item \in Items

FindsToCharge(r) == r.pc = "POST" => r.stay \in CheckIns /\ StayService!exists(r.stay)

OneStayPerBooking ==
    \A s, t \in CheckIns : s # t /\ StayService!exists(s) /\ StayService!exists(t) =>
        stay[s].booking # stay[t].booking

DeskInv ==
    /\ StayRows
    /\ \A s \in CheckIns : CheckInOwns(s)
    /\ OneStayPerBooking
    /\ \A o \in CheckOuts : FindsToClose(checkOut[o])
    /\ \A v \in Services : FindsToServe(service[v])
    /\ \A g \in Charges : FindsToCharge(charge[g])

(* The tables a step leaves a stay with: it is there if it was.            *)
StaysStay == \A s \in CheckIns : StayService!exists(s) => stay'[s] # NoRow

(* What a handler found it finds again.                                    *)
LEMMA FindsAgain ==
    ASSUME StaysStay
    PROVE  /\ \A r : FindsToClose(r) => FindsToClose(r)'
           /\ \A r : FindsToServe(r) => FindsToServe(r)'
           /\ \A r : FindsToCharge(r) => FindsToCharge(r)'
BY DEF StaysStay, FindsToClose, FindsToServe, FindsToCharge, StayService!exists

(* Lines of a folio.                                                       *)
LEMMA LinesTyped ==
    ASSUME FrontDeskAssumption
    PROVE  /\ \A amount \in RoomCharges, currency \in Currencies :
                 StayService!openingLines(amount, currency) \in Seq(StayService!FolioLine)
           /\ \A amount \in Settlements, currency \in Currencies :
                 StayService!settlementLines(amount, currency) \in Seq(StayService!FolioLine)
           /\ \A item \in Items : StayService!serviceLines(item) \in Seq(StayService!FolioLine)
           /\ \A l \in Posted, currency \in Currencies :
                 StayService!line(l.kind, l.amount, currency) \in StayService!FolioLine
<1>1. ASSUME NEW amount \in RoomCharges, NEW currency \in Currencies
      PROVE  StayService!openingLines(amount, currency) \in Seq(StayService!FolioLine)
  <2>1. [kind |-> "ROOM", amount |-> amount, currency |-> currency] \in StayService!FolioLine
    BY DEF StayService!FolioLine
  <2>2. QED
    BY <2>1 DEF StayService!openingLines, StayService!line
<1>2. ASSUME NEW amount \in Settlements, NEW currency \in Currencies
      PROVE  StayService!settlementLines(amount, currency) \in Seq(StayService!FolioLine)
  <2>1. CASE amount > 0
    <3>1. [kind |-> "PAYMENT", amount |-> amount, currency |-> currency] \in StayService!FolioLine
      BY <2>1 DEF StayService!FolioLine
    <3>2. QED
      BY <2>1, <3>1 DEF StayService!settlementLines, StayService!line
  <2>2. CASE ~ amount > 0
    BY <2>2 DEF StayService!settlementLines
  <2>3. QED
    BY <2>1, <2>2
<1>3. ASSUME NEW item \in Items
      PROVE  StayService!serviceLines(item) \in Seq(StayService!FolioLine)
  <2>1. [kind |-> "SERVICE", amount |-> item.price, currency |-> item.currency]
           \in StayService!FolioLine
    BY DEF StayService!FolioLine, FrontDeskAssumption
  <2>2. QED
    BY <2>1 DEF StayService!serviceLines, StayService!line
<1>4. ASSUME NEW l \in Posted, NEW currency \in Currencies
      PROVE  StayService!line(l.kind, l.amount, currency) \in StayService!FolioLine
  BY DEF StayService!FolioLine, FrontDeskAssumption, StayService!line
<1>5. QED
  BY <1>1, <1>2, <1>3, <1>4

(* Check-ins: looking a booking up, and losing the race for it.            *)
LEMMA CheckInReads ==
    ASSUME FrontDeskAssumption, DeskInv, NEW s \in CheckIns,
           StayService!LookUpBooking(s) \/ StayService!OpenRefused(s)
    PROVE  DeskInv'
<1>1. PICK r : /\ checkIn' = [checkIn EXCEPT ![s] = r]
               /\ r.pc # "CHECKED_IN" /\ (r.pc = "OPEN" => r.booking \in Bookings)
               /\ checkIn[s].pc # "CHECKED_IN"
  BY DEF StayService!LookUpBooking, StayService!OpenRefused
<1>2. UNCHANGED <<checkOut, service, charge, stay, folio, stayOutbox>>
  BY DEF StayService!LookUpBooking, StayService!OpenRefused, StayService!table
<1>3. \A t \in CheckIns : checkIn'[t] = IF t = s THEN r ELSE checkIn[t]
  BY <1>1 DEF DeskInv, StayRows
<1>4. StayRows'
  BY <1>1, <1>2 DEF DeskInv, StayRows
<1>5. \A t \in CheckIns : CheckInOwns(t)'
  BY <1>1, <1>2, <1>3 DEF DeskInv, CheckInOwns, StayService!exists
<1>6. OneStayPerBooking'
  BY <1>2 DEF DeskInv, OneStayPerBooking, StayService!exists
<1>7. StaysStay
  BY <1>2 DEF StaysStay, StayService!exists
<1>8. QED
  BY <1>2, <1>4, <1>5, <1>6, <1>7, FindsAgain DEF DeskInv

(* The transaction of a check-in: a booking is refused if it has a stay.   *)
LEMMA CheckInOpens ==
    ASSUME FrontDeskAssumption, DeskInv, NEW s \in CheckIns, StayService!OpenStay(s)
    PROVE  DeskInv' /\ StaysStay
<1>1. PICK row \in StayService!StayRow, lines \in Seq(StayService!FolioLine) :
         /\ row.booking = checkIn[s].booking /\ row.status = "IN_HOUSE"
         /\ stay' = [stay EXCEPT ![s] = row] /\ folio' = [folio EXCEPT ![s] = lines]
  <2>1. PICK amount \in RoomCharges, currency \in Currencies :
           /\ stay' = [stay EXCEPT ![s] = [booking |-> checkIn[s].booking,
                                           currency |-> currency, status |-> "IN_HOUSE"]]
           /\ folio' = [folio EXCEPT ![s] = StayService!openingLines(amount, currency)]
    BY DEF StayService!OpenStay
  <2>2. PICK row : row = [booking |-> checkIn[s].booking, currency |-> currency,
                          status |-> "IN_HOUSE"]
    OBVIOUS
  <2>3. checkIn[s].booking \in Bookings
    BY DEF StayService!OpenStay, DeskInv, CheckInOwns
  <2>4. row \in StayService!StayRow
    BY <2>2, <2>3 DEF StayService!StayRow
  <2>5. row.booking = checkIn[s].booking /\ row.status = "IN_HOUSE"
    BY <2>2
  <2>6. PICK lines \in Seq(StayService!FolioLine) :
           lines = StayService!openingLines(amount, currency)
    BY LinesTyped
  <2>7. QED
    BY <2>1, <2>2, <2>4, <2>5, <2>6
<1>2. /\ checkIn' = [checkIn EXCEPT ![s] = [pc |-> "CHECKED_IN"]]
      /\ stayOutbox' = [stayOutbox EXCEPT ![s] = Append(@, [type |-> "GUEST_CHECKED_IN"])]
      /\ UNCHANGED <<checkOut, service, charge>>
      /\ ~ StayService!exists(s) /\ ~ StayService!checkedIn(row.booking)
  BY <1>1 DEF StayService!OpenStay, StayService!canOpen, DeskInv, CheckInOwns
<1>3. /\ \A t \in CheckIns : stay'[t] = IF t = s THEN row ELSE stay[t]
      /\ \A t \in CheckIns \ {s} : stayOutbox'[t] = stayOutbox[t] /\ checkIn'[t] = checkIn[t]
      /\ row # NoRow /\ checkIn'[s].pc = "CHECKED_IN"
  BY <1>1, <1>2 DEF DeskInv, StayRows, FrontDeskAssumption
<1>4. StayRows'
  <2>1. [type |-> "GUEST_CHECKED_IN"] \in StayEvents
    BY DEF StayEvents
  <2>2. stayOutbox' \in [CheckIns -> Seq(StayEvents)]
    BY <1>2, <2>1 DEF DeskInv, StayRows
  <2>3. stay' \in [CheckIns -> StayService!StayRow \cup {NoRow}]
        /\ folio' \in [CheckIns -> Seq(StayService!FolioLine)]
    BY <1>1 DEF DeskInv, StayRows
  <2>4. QED
    BY <1>2, <2>2, <2>3 DEF DeskInv, StayRows
<1>5. \A t \in CheckIns : CheckInOwns(t)'
  BY <1>3 DEF DeskInv, CheckInOwns, StayService!exists
<1>6. OneStayPerBooking'
  BY <1>2, <1>3 DEF DeskInv, OneStayPerBooking, StayService!exists, StayService!checkedIn
<1>7. StaysStay
  BY <1>3 DEF StaysStay, StayService!exists
<1>8. QED
  BY <1>2, <1>4, <1>5, <1>6, <1>7, FindsAgain DEF DeskInv

(* The reads of the other handlers.                                        *)
LEMMA DeskReads ==
    ASSUME FrontDeskAssumption, DeskInv,
           \/ \E o \in CheckOuts : StayService!ReadForCheckOut(o)
           \/ \E v \in Services : StayService!ReadForService(v) \/ StayService!ReadCatalogue(v)
           \/ \E g \in Charges : StayService!ReadForCharge(g)
    PROVE  DeskInv'
<1>1. UNCHANGED <<checkIn, stay, folio, stayOutbox>>
  BY DEF StayService!ReadForCheckOut, StayService!ReadForService, StayService!ReadCatalogue,
         StayService!ReadForCharge, StayService!table
<1>2. /\ \A s \in CheckIns : CheckInOwns(s)'
      /\ OneStayPerBooking'
  BY <1>1 DEF DeskInv, CheckInOwns, OneStayPerBooking, StayService!exists
<1>3. StaysStay
  BY <1>1 DEF StaysStay, StayService!exists
<1>4. ASSUME NEW o \in CheckOuts, StayService!ReadForCheckOut(o) PROVE DeskInv'
  <2>1. UNCHANGED <<service, charge>>
    BY <1>4 DEF StayService!ReadForCheckOut
  <2>2. PICK r : checkOut' = [checkOut EXCEPT ![o] = r] /\ FindsToClose(r)
    <3>1. PICK s \in CheckIns, amount \in Settlements, allowUnsettled \in BOOLEAN :
             LET lines == StayService!finalLines(s, amount) IN
             checkOut' = [checkOut EXCEPT ![o] =
               IF ~ StayService!exists(s) THEN [pc |-> "NOT_FOUND"]
               ELSE IF ~ StayService!isOpen(s) THEN [pc |-> "ALREADY_CLOSED"]
               ELSE IF ~ StayService!summable(lines, stay[s].currency)
                 THEN [pc |-> "INTERNAL_ERROR"]
               ELSE IF ~ StayService!mayDepart(lines, allowUnsettled)
                 THEN [pc |-> "NOT_SETTLED"]
               ELSE [pc |-> "CLOSE", stay |-> s, amount |-> amount,
                     balance |-> StayService!computeFolioBalance(lines)]]
      BY <1>4 DEF StayService!ReadForCheckOut
    <3>2. PICK r : r = [pc |-> "CLOSE", stay |-> s, amount |-> amount,
                        balance |-> StayService!computeFolioBalance(
                                       StayService!finalLines(s, amount))]
      OBVIOUS
    <3>3. ASSUME StayService!exists(s) PROVE FindsToClose(r)
      <4>1. stay[s].currency \in Currencies /\ folio[s] \in Seq(StayService!FolioLine)
        BY <3>3 DEF DeskInv, StayRows, StayService!exists, StayService!StayRow
      <4>2. StayService!settlementLines(amount, stay[s].currency) \in Seq(StayService!FolioLine)
        BY <4>1, LinesTyped
      <4>3. StayService!finalLines(s, amount) \in Seq(StayService!FolioLine)
        BY <4>1, <4>2 DEF StayService!finalLines
      <4>4. StayService!computeFolioBalance(StayService!finalLines(s, amount)) \in Balances
        BY <4>3 DEF Balances
      <4>5. QED
        BY <3>2, <3>3, <4>4 DEF FindsToClose
    <3>4. \A p \in {"NOT_FOUND", "ALREADY_CLOSED", "INTERNAL_ERROR", "NOT_SETTLED"} :
             FindsToClose([pc |-> p])
      BY DEF FindsToClose
    <3>5. \/ checkOut' = [checkOut EXCEPT ![o] = r] /\ StayService!exists(s)
          \/ \E p \in {"NOT_FOUND", "ALREADY_CLOSED", "INTERNAL_ERROR", "NOT_SETTLED"} :
                checkOut' = [checkOut EXCEPT ![o] = [pc |-> p]]
      BY <3>1, <3>2
    <3>6. QED
      BY <3>3, <3>4, <3>5
  <2>3. \A p \in CheckOuts : FindsToClose(checkOut[p])'
    <3>1. \A p \in CheckOuts : checkOut'[p] = r \/ checkOut'[p] = checkOut[p]
      BY <2>2 DEF DeskInv, StayRows
    <3>2. \A p \in CheckOuts : FindsToClose(checkOut'[p])
      BY <2>2, <3>1 DEF DeskInv
    <3>3. QED
      BY <1>1, <3>2 DEF FindsToClose, StayService!exists
  <2>4. StayRows'
    BY <1>1, <2>1, <2>2 DEF DeskInv, StayRows
  <2>5. QED
    BY <1>2, <1>3, <2>1, <2>3, <2>4, FindsAgain DEF DeskInv
<1>5. ASSUME NEW v \in Services, StayService!ReadForService(v) \/ StayService!ReadCatalogue(v)
      PROVE  DeskInv'
  <2>1. UNCHANGED <<checkOut, charge>>
    BY <1>5 DEF StayService!ReadForService, StayService!ReadCatalogue
  <2>2. PICK r : service' = [service EXCEPT ![v] = r] /\ FindsToServe(r)
    <3>1. CASE StayService!ReadForService(v)
      <4>1. PICK s \in CheckIns :
               service' = [service EXCEPT ![v] =
                   CASE ~ StayService!exists(s) -> [pc |-> "NOT_FOUND"]
                     [] StayService!exists(s) /\ ~ StayService!isOpen(s) -> [pc |-> "CONFLICT"]
                     [] OTHER -> [pc |-> "PRICE", stay |-> s]]
        BY <3>1 DEF StayService!ReadForService
      <4>2. \A p \in {"NOT_FOUND", "CONFLICT"} : FindsToServe([pc |-> p])
        BY DEF FindsToServe
      <4>3. StayService!exists(s) => FindsToServe([pc |-> "PRICE", stay |-> s])
        BY DEF FindsToServe
      <4>4. \/ \E p \in {"NOT_FOUND", "CONFLICT"} : service' = [service EXCEPT ![v] = [pc |-> p]]
            \/ /\ StayService!exists(s)
               /\ service' = [service EXCEPT ![v] = [pc |-> "PRICE", stay |-> s]]
        BY <4>1
      <4>5. QED
        BY <4>2, <4>3, <4>4
    <3>2. CASE StayService!ReadCatalogue(v)
      <4>1. FindsToServe(service[v]) /\ service[v].pc = "PRICE"
        BY <3>2 DEF DeskInv, StayService!ReadCatalogue
      <4>2. \A item \in Items :
               FindsToServe([pc |-> "REQUEST", stay |-> service[v].stay, item |-> item])
        BY <4>1 DEF FindsToServe
      <4>3. FindsToServe([pc |-> "NOT_FOUND"])
        BY DEF FindsToServe
      <4>4. QED
        BY <3>2, <4>2, <4>3 DEF StayService!ReadCatalogue
    <3>3. QED
      BY <1>5, <3>1, <3>2
  <2>3. \A w \in Services : FindsToServe(service[w])'
    <3>1. \A w \in Services : service'[w] = r \/ service'[w] = service[w]
      BY <2>2 DEF DeskInv, StayRows
    <3>2. \A w \in Services : FindsToServe(service'[w])
      BY <2>2, <3>1 DEF DeskInv
    <3>3. QED
      BY <1>1, <3>2 DEF FindsToServe, StayService!exists
  <2>4. StayRows'
    BY <1>1, <2>1, <2>2 DEF DeskInv, StayRows
  <2>5. QED
    BY <1>2, <1>3, <2>1, <2>3, <2>4, FindsAgain DEF DeskInv
<1>6. ASSUME NEW g \in Charges, StayService!ReadForCharge(g) PROVE DeskInv'
  <2>1. UNCHANGED <<checkOut, service>>
    BY <1>6 DEF StayService!ReadForCharge
  <2>2. PICK r : charge' = [charge EXCEPT ![g] = r] /\ FindsToCharge(r)
    <3>1. PICK s \in CheckIns :
             charge' = [charge EXCEPT ![g] =
                 IF ~ StayService!exists(s) THEN [pc |-> "NOT_FOUND"]
                 ELSE [pc |-> "POST", stay |-> s]]
      BY <1>6 DEF StayService!ReadForCharge
    <3>2. FindsToCharge([pc |-> "NOT_FOUND"])
      BY DEF FindsToCharge
    <3>3. StayService!exists(s) => FindsToCharge([pc |-> "POST", stay |-> s])
      BY DEF FindsToCharge
    <3>4. QED
      BY <3>1, <3>2, <3>3
  <2>3. \A i \in Charges : FindsToCharge(charge[i])'
    <3>1. \A i \in Charges : charge'[i] = r \/ charge'[i] = charge[i]
      BY <2>2 DEF DeskInv, StayRows
    <3>2. \A i \in Charges : FindsToCharge(charge'[i])
      BY <2>2, <3>1 DEF DeskInv
    <3>3. QED
      BY <1>1, <3>2 DEF FindsToCharge, StayService!exists
  <2>4. StayRows'
    BY <1>1, <2>1, <2>2 DEF DeskInv, StayRows
  <2>5. QED
    BY <1>2, <1>3, <2>1, <2>3, <2>4, FindsAgain DEF DeskInv
<1>7. QED
  BY <1>4, <1>5, <1>6

(* A step that adds lines to the folio of a stay that is there, and leaves *)
(* who it is for.                                                          *)
FolioGrows(s) ==
    \E row \in StayService!StayRow, lines \in Seq(StayService!FolioLine),
       events \in Seq(StayEvents) :
        /\ StayService!exists(s)
        /\ stay' = [stay EXCEPT ![s] = row] /\ row.booking = stay[s].booking
        /\ folio' = [folio EXCEPT ![s] = lines]
        /\ stayOutbox' = [stayOutbox EXCEPT ![s] = events]
        /\ UNCHANGED checkIn

(* Such a step keeps what is said of the tables.                           *)
LEMMA GrowthKeeps ==
    ASSUME FrontDeskAssumption, DeskInv, NEW s \in CheckIns, FolioGrows(s)
    PROVE  /\ stay' \in [CheckIns -> StayService!StayRow \cup {NoRow}]
           /\ folio' \in [CheckIns -> Seq(StayService!FolioLine)]
           /\ stayOutbox' \in [CheckIns -> Seq(StayEvents)]
           /\ \A t \in CheckIns : CheckInOwns(t)'
           /\ OneStayPerBooking'
           /\ StaysStay
<1>1. PICK row \in StayService!StayRow, lines \in Seq(StayService!FolioLine),
           events \in Seq(StayEvents) :
         /\ StayService!exists(s)
         /\ stay' = [stay EXCEPT ![s] = row] /\ row.booking = stay[s].booking
         /\ folio' = [folio EXCEPT ![s] = lines]
         /\ stayOutbox' = [stayOutbox EXCEPT ![s] = events]
         /\ UNCHANGED checkIn
  BY DEF FolioGrows
<1>2. /\ \A t \in CheckIns : stay'[t] = IF t = s THEN row ELSE stay[t]
      /\ \A t \in CheckIns \ {s} : stayOutbox'[t] = stayOutbox[t]
      /\ row # NoRow
  BY <1>1 DEF DeskInv, StayRows, FrontDeskAssumption
<1>3. /\ stay' \in [CheckIns -> StayService!StayRow \cup {NoRow}]
      /\ folio' \in [CheckIns -> Seq(StayService!FolioLine)]
      /\ stayOutbox' \in [CheckIns -> Seq(StayEvents)]
  BY <1>1 DEF DeskInv, StayRows
<1>4. \A t \in CheckIns : CheckInOwns(t)'
  BY <1>1, <1>2 DEF DeskInv, CheckInOwns, StayService!exists
<1>5. OneStayPerBooking'
  BY <1>1, <1>2 DEF DeskInv, OneStayPerBooking, StayService!exists
<1>6. StaysStay
  BY <1>2 DEF StaysStay, StayService!exists
<1>7. QED
  BY <1>3, <1>4, <1>5, <1>6

(* Folios and outboxes are appended to.                                    *)
LEMMA Appended ==
    /\ \A a, b \in Seq(StayService!FolioLine) : a \o b \in Seq(StayService!FolioLine)
    /\ \A a \in Seq(StayService!FolioLine), l \in StayService!FolioLine :
          StayService!posted(a, l) \in Seq(StayService!FolioLine)
    /\ \A a \in Seq(StayEvents), e \in StayEvents : Append(a, e) \in Seq(StayEvents)
BY DEF StayService!posted

(* The transaction of a check-out.                                         *)
LEMMA CheckOutCloses ==
    ASSUME FrontDeskAssumption, DeskInv, NEW o \in CheckOuts, StayService!CloseStay(o)
    PROVE  DeskInv' /\ StaysStay
<1>1. checkOut[o].pc = "CLOSE" /\ FindsToClose(checkOut[o])
  BY DEF StayService!CloseStay, DeskInv
<1>2. PICK s \in CheckIns, amount \in Settlements, balance \in Balances :
         /\ s = checkOut[o].stay /\ amount = checkOut[o].amount /\ balance = checkOut[o].balance
         /\ StayService!exists(s)
  BY <1>1 DEF FindsToClose
<1>3. /\ stay[s] \in StayService!StayRow /\ folio[s] \in Seq(StayService!FolioLine)
      /\ stayOutbox[s] \in Seq(StayEvents) /\ s \in DOMAIN stay
      /\ stay[s].currency \in Currencies
  BY <1>2 DEF DeskInv, StayRows, StayService!exists, StayService!StayRow
<1>4. /\ folio' = [folio EXCEPT ![s] =
                      @ \o StayService!settlementLines(amount, stay[s].currency)]
      /\ stay' = [stay EXCEPT ![s].status =
                     IF balance <= 0 THEN "CHECKED_OUT" ELSE "DEPARTED_UNSETTLED"]
      /\ stayOutbox' = [stayOutbox EXCEPT ![s] =
                           Append(@, [type |-> "GUEST_CHECKED_OUT", balance |-> balance])]
      /\ checkOut' = [checkOut EXCEPT ![o] = [pc |-> "CHECKED_OUT"]]
      /\ UNCHANGED <<checkIn, service, charge>>
  BY <1>2 DEF StayService!CloseStay
<1>5. FolioGrows(s)
  <2>1. PICK row : row = [stay[s] EXCEPT !.status =
                             IF balance <= 0 THEN "CHECKED_OUT" ELSE "DEPARTED_UNSETTLED"]
    OBVIOUS
  <2>2. row \in StayService!StayRow /\ row.booking = stay[s].booking
    BY <1>3, <2>1 DEF StayService!StayRow
  <2>3. stay' = [stay EXCEPT ![s] = row]
    BY <1>3, <1>4, <2>1
  <2>4. PICK e \in StayEvents : e = [type |-> "GUEST_CHECKED_OUT", balance |-> balance]
    BY DEF StayEvents
  <2>5. PICK lines \in Seq(StayService!FolioLine) :
           lines = folio[s] \o StayService!settlementLines(amount, stay[s].currency)
    BY <1>3, LinesTyped, Appended
  <2>6. PICK events \in Seq(StayEvents) : events = Append(stayOutbox[s], e)
    BY <1>3, Appended
  <2>7. /\ folio' = [folio EXCEPT ![s] = lines]
        /\ stayOutbox' = [stayOutbox EXCEPT ![s] = events]
    BY <1>4, <2>4, <2>5, <2>6
  <2>8. QED
    BY <1>2, <1>4, <2>2, <2>3, <2>7 DEF FolioGrows
<1>6. \A p \in CheckOuts : FindsToClose(checkOut[p])'
  <2>1. \A p \in CheckOuts : checkOut'[p] = [pc |-> "CHECKED_OUT"] \/ checkOut'[p] = checkOut[p]
    BY <1>4 DEF DeskInv, StayRows
  <2>2. \A p \in CheckOuts : FindsToClose(checkOut'[p])
    BY <2>1 DEF DeskInv, FindsToClose
  <2>3. QED
    BY <1>5, <2>2, GrowthKeeps DEF FindsToClose, StaysStay, StayService!exists
<1>7. StayRows'
  BY <1>4, <1>5, GrowthKeeps DEF DeskInv, StayRows
<1>8. QED
  BY <1>4, <1>5, <1>6, <1>7, GrowthKeeps, FindsAgain DEF DeskInv

(* The transactions of requestService and postCharge.                      *)
LEMMA DeskPosts ==
    ASSUME FrontDeskAssumption, DeskInv,
           \/ \E v \in Services : StayService!RecordService(v)
           \/ \E g \in Charges : StayService!PostCharge(g)
    PROVE  DeskInv' /\ StaysStay
<1>1. ASSUME NEW s \in CheckIns, StayService!exists(s), UNCHANGED <<stay, checkIn>>,
             NEW lines \in Seq(StayService!FolioLine), folio' = [folio EXCEPT ![s] = lines],
             NEW events \in Seq(StayEvents), stayOutbox' = [stayOutbox EXCEPT ![s] = events]
      PROVE  FolioGrows(s)
  <2>1. PICK row \in StayService!StayRow : row = stay[s]
    BY <1>1 DEF DeskInv, StayRows, StayService!exists
  <2>2. stay' = [stay EXCEPT ![s] = row]
    BY <1>1, <2>1 DEF DeskInv, StayRows
  <2>3. QED
    BY <1>1, <2>1, <2>2 DEF FolioGrows
<1>2. ASSUME NEW v \in Services, StayService!RecordService(v) PROVE DeskInv' /\ StaysStay
  <2>1. service[v].pc = "REQUEST" /\ FindsToServe(service[v])
    BY <1>2 DEF StayService!RecordService, DeskInv
  <2>2. PICK s \in CheckIns, item \in Items :
           s = service[v].stay /\ item = service[v].item /\ StayService!exists(s)
    BY <2>1 DEF FindsToServe
  <2>3. /\ folio' = [folio EXCEPT ![s] = @ \o StayService!serviceLines(item)]
        /\ stayOutbox' = [stayOutbox EXCEPT ![s] = Append(@, [type |-> "SERVICE_REQUESTED"])]
        /\ service' = [service EXCEPT ![v] = [pc |-> "REQUESTED", stay |-> s]]
        /\ UNCHANGED <<checkIn, checkOut, charge, stay>>
    BY <1>2, <2>2 DEF StayService!RecordService
  <2>4. [type |-> "SERVICE_REQUESTED"] \in StayEvents
    BY DEF StayEvents
  <2>5. PICK lines \in Seq(StayService!FolioLine), events \in Seq(StayEvents) :
           /\ lines = folio[s] \o StayService!serviceLines(item)
           /\ events = Append(stayOutbox[s], [type |-> "SERVICE_REQUESTED"])
    BY <2>4, LinesTyped, Appended DEF DeskInv, StayRows
  <2>6. FolioGrows(s)
    <3>1. /\ folio' = [folio EXCEPT ![s] = lines]
          /\ stayOutbox' = [stayOutbox EXCEPT ![s] = events]
      BY <2>3, <2>5
    <3>2. QED
      BY <1>1, <2>2, <2>3, <3>1
  <2>7. \A w \in Services : FindsToServe(service[w])'
    <3>1. \A w \in Services : service'[w].pc = "REQUESTED" \/ service'[w] = service[w]
      BY <2>3 DEF DeskInv, StayRows
    <3>2. \A w \in Services : FindsToServe(service'[w])
      BY <3>1 DEF DeskInv, FindsToServe
    <3>3. QED
      BY <2>6, <3>2, GrowthKeeps DEF FindsToServe, StaysStay, StayService!exists
  <2>8. StayRows'
    BY <2>3, <2>6, GrowthKeeps DEF DeskInv, StayRows
  <2>9. QED
    BY <2>3, <2>6, <2>7, <2>8, GrowthKeeps, FindsAgain DEF DeskInv
<1>3. ASSUME NEW g \in Charges, StayService!PostCharge(g) PROVE DeskInv' /\ StaysStay
  <2>1. charge[g].pc = "POST" /\ FindsToCharge(charge[g])
    BY <1>3 DEF StayService!PostCharge, DeskInv
  <2>2. PICK s \in CheckIns : s = charge[g].stay /\ StayService!exists(s)
    BY <2>1 DEF FindsToCharge
  <2>3. PICK l \in Posted :
           folio' = [folio EXCEPT ![s] = StayService!posted(@,
                        StayService!line(l.kind, l.amount, stay[s].currency))]
    BY <1>3, <2>2 DEF StayService!PostCharge
  <2>4. /\ charge' = [charge EXCEPT ![g] = [pc |-> "POSTED"]]
        /\ UNCHANGED <<checkIn, checkOut, service, stay, stayOutbox>>
    BY <1>3 DEF StayService!PostCharge
  <2>5. stay[s].currency \in Currencies /\ folio[s] \in Seq(StayService!FolioLine)
    BY <2>2 DEF DeskInv, StayRows, StayService!exists, StayService!StayRow
  <2>6. PICK l2 \in StayService!FolioLine :
           l2 = StayService!line(l.kind, l.amount, stay[s].currency)
    BY <2>5, LinesTyped
  <2>7. PICK lines \in Seq(StayService!FolioLine), events \in Seq(StayEvents) :
           lines = StayService!posted(folio[s], l2) /\ events = stayOutbox[s]
    BY <2>5, Appended DEF DeskInv, StayRows
  <2>8. FolioGrows(s)
    <3>1. folio' = [folio EXCEPT ![s] = lines]
      BY <2>3, <2>6, <2>7
    <3>2. stayOutbox' = [stayOutbox EXCEPT ![s] = events]
      BY <2>4, <2>7 DEF DeskInv, StayRows
    <3>3. QED
      BY <1>1, <2>2, <2>4, <3>1, <3>2
  <2>9. \A i \in Charges : FindsToCharge(charge[i])'
    <3>1. \A i \in Charges : charge'[i].pc = "POSTED" \/ charge'[i] = charge[i]
      BY <2>4 DEF DeskInv, StayRows
    <3>2. \A i \in Charges : FindsToCharge(charge'[i])
      BY <3>1 DEF DeskInv, FindsToCharge
    <3>3. QED
      BY <2>8, <3>2, GrowthKeeps DEF FindsToCharge, StaysStay, StayService!exists
  <2>10. StayRows'
    BY <2>4, <2>8, GrowthKeeps DEF DeskInv, StayRows
  <2>11. QED
    BY <2>4, <2>8, <2>9, <2>10, GrowthKeeps, FindsAgain DEF DeskInv
<1>4. QED
  BY <1>2, <1>3

(* The other departments leave stay-service alone.                         *)
LEMMA NoStay ==
    ASSUME [OperationsNext]_operationsVars, ~ frontDesk PROVE UNCHANGED stayVars
BY DEF OperationsNext, operationsVars, finance, rooms, housekeeping, maintenance, billing

(* The invariant holds before the first guest, ...                         *)
LEMMA DeskInit == ASSUME FrontDeskAssumption, OperationsInit PROVE DeskInv
<1>1. /\ checkIn = [s \in CheckIns |-> [pc |-> "NEW"]]
      /\ checkOut = [o \in CheckOuts |-> [pc |-> "NEW"]]
      /\ service = [v \in Services |-> [pc |-> "NEW"]]
      /\ charge = [g \in Charges |-> [pc |-> "NEW"]]
      /\ stay = [s \in CheckIns |-> NoRow]
      /\ folio = [s \in CheckIns |-> <<>>]
      /\ stayOutbox = [s \in CheckIns |-> <<>>]
  BY DEF OperationsInit, StayService!Init
<1>2. StayRows
  BY <1>1 DEF StayRows
<1>3. /\ \A s \in CheckIns : CheckInOwns(s)
      /\ OneStayPerBooking
      /\ \A o \in CheckOuts : FindsToClose(checkOut[o])
      /\ \A v \in Services : FindsToServe(service[v])
      /\ \A g \in Charges : FindsToCharge(charge[g])
  BY <1>1 DEF CheckInOwns, OneStayPerBooking, FindsToClose, FindsToServe, FindsToCharge,
              StayService!exists
<1>4. QED
  BY <1>2, <1>3 DEF DeskInv

(* ... and after every step.                                               *)
LEMMA DeskNext ==
    ASSUME FrontDeskAssumption, DeskInv, [OperationsNext]_operationsVars
    PROVE  DeskInv'
<1>1. CASE frontDesk
  BY <1>1, CheckInReads, CheckInOpens, DeskReads, CheckOutCloses, DeskPosts
  DEF frontDesk, StayService!Next, StayService!CheckIn, StayService!CheckOut,
      StayService!RequestService, StayService!Charge
<1>2. CASE ~ frontDesk
  <2>1. UNCHANGED <<checkIn, checkOut, service, charge, stay, folio, stayOutbox>>
    BY <1>2, NoStay DEF stayVars
  <2>2. /\ StayRows'
        /\ \A s \in CheckIns : CheckInOwns(s)'
        /\ OneStayPerBooking'
        /\ StaysStay
    BY <2>1 DEF DeskInv, StayRows, CheckInOwns, OneStayPerBooking, StaysStay, StayService!exists
  <2>3. QED
    BY <2>1, <2>2, FindsAgain DEF DeskInv
<1>3. QED
  BY <1>1, <1>2

-----------------------------------------------------------------------------
(* Stays whose handlers queue. Whoever closes such a stay is the only      *)
(* handler at it, so the balance that was computed is that of the folio,   *)
(* and the departure is announced once.                                    *)
ClosesAt(r, s) == r.pc = "CLOSE" /\ r.stay = s
ServesAt(r, s) == r.pc \in {"PRICE", "REQUEST"} /\ r.stay = s
ChargesAt(r, s) == r.pc = "POST" /\ r.stay = s

DeparturesIn(events) == {i \in DOMAIN events : events[i].type = "GUEST_CHECKED_OUT"}

Departed(s) ==
    /\ DeparturesIn(stayOutbox[s]) = {} \/ \E i \in Nat : DeparturesIn(stayOutbox[s]) = {i}
    /\ StayService!exists(s) =>
          (stay[s].status # "IN_HOUSE" <=> DeparturesIn(stayOutbox[s]) # {})

ClosesAlone(s) ==
    \A o \in CheckOuts : ClosesAt(checkOut[o], s) =>
        /\ \A p \in CheckOuts \ {o} : ~ ClosesAt(checkOut[p], s)
        /\ \A v \in Services : ~ ServesAt(service[v], s)
        /\ \A g \in Charges : ~ ChargesAt(charge[g], s)

BalanceStands(s) ==
    \A o \in CheckOuts : ClosesAt(checkOut[o], s) =>
        /\ StayService!isOpen(s)
        /\ checkOut[o].balance =
              StayService!computeFolioBalance(StayService!finalLines(s, checkOut[o].amount))

QueuedAt(s) == Departed(s) /\ ClosesAlone(s) /\ BalanceStands(s)

(* What a step may do to a queued stay: nothing, ...                       *)
SameAt(s) == stay'[s] = stay[s] /\ folio'[s] = folio[s] /\ stayOutbox'[s] = stayOutbox[s]

NoNewAt(s) ==
    /\ \A o \in CheckOuts : ClosesAt(checkOut'[o], s) => checkOut'[o] = checkOut[o]
    /\ \A v \in Services : ServesAt(service'[v], s) => ServesAt(service[v], s)
    /\ \A g \in Charges : ChargesAt(charge'[g], s) => ChargesAt(charge[g], s)

(* An event more.                                                          *)
LEMMA DepartureAdded ==
    ASSUME NEW events \in Seq(StayEvents), NEW e \in StayEvents
    PROVE  /\ e.type # "GUEST_CHECKED_OUT" =>
                 DeparturesIn(Append(events, e)) = DeparturesIn(events)
           /\ e.type = "GUEST_CHECKED_OUT" =>
                 DeparturesIn(Append(events, e)) = DeparturesIn(events) \cup {Len(events) + 1}
           /\ StayService!Last(Append(events, e)) = e
           /\ Len(events) + 1 \in Nat
<1>1. /\ DOMAIN Append(events, e) = DOMAIN events \cup {Len(events) + 1}
      /\ \A i \in DOMAIN events : Append(events, e)[i] = events[i]
      /\ Append(events, e)[Len(events) + 1] = e
      /\ Len(Append(events, e)) = Len(events) + 1 /\ Len(events) + 1 \in Nat
  OBVIOUS
<1>2. QED
  BY <1>1 DEF DeparturesIn, StayService!Last

(* What holds of a stay that is left alone, ...                            *)
LEMMA QuietAt ==
    ASSUME NEW s \in QueuedStays, QueuedAt(s), SameAt(s), NoNewAt(s)
    PROVE  QueuedAt(s)'
<1>1. Departed(s)'
  BY DEF QueuedAt, Departed, SameAt, StayService!exists
<1>2. ClosesAlone(s)'
  BY DEF QueuedAt, ClosesAlone, NoNewAt
<1>3. BalanceStands(s)'
  BY DEF QueuedAt, BalanceStands, NoNewAt, SameAt, StayService!isOpen, StayService!finalLines
<1>4. QED
  BY <1>1, <1>2, <1>3 DEF QueuedAt

(* ... and of one that nobody closes.                                      *)
LEMMA NobodyCloses ==
    ASSUME NEW s, Departed(s)', \A o \in CheckOuts : ~ ClosesAt(checkOut'[o], s)
    PROVE  QueuedAt(s)'
BY DEF QueuedAt, ClosesAlone, BalanceStands

(* A check-in of the stay.                                                 *)
LEMMA QueuedOpens ==
    ASSUME FrontDeskAssumption, DeskInv, NEW s \in QueuedStays, QueuedAt(s),
           NEW t \in CheckIns, StayService!OpenStay(t)
    PROVE  QueuedAt(s)' /\ DeparturesIn(stayOutbox'[s]) = DeparturesIn(stayOutbox[s])
<1>1. s \in CheckIns
  BY DEF FrontDeskAssumption
<1>2. NoNewAt(s)
  BY DEF StayService!OpenStay, NoNewAt
<1>3. CASE t # s
  <2>1. SameAt(s)
    BY <1>1, <1>3 DEF StayService!OpenStay, SameAt, DeskInv, StayRows
  <2>2. QED
    BY <1>2, <2>1, QuietAt DEF SameAt
<1>4. CASE t = s
  <2>1. ~ StayService!exists(s) /\ stayOutbox[s] = <<>>
    BY <1>1, <1>4 DEF StayService!OpenStay, DeskInv, CheckInOwns
  <2>2. \A o \in CheckOuts : ~ ClosesAt(checkOut'[o], s)
    BY <1>2, <2>1 DEF NoNewAt, DeskInv, FindsToClose, ClosesAt
  <2>3. PICK e \in StayEvents : e.type = "GUEST_CHECKED_IN" /\ stayOutbox'[s] = Append(stayOutbox[s], e)
    <3>1. PICK e \in StayEvents : e = [type |-> "GUEST_CHECKED_IN"]
      BY DEF StayEvents
    <3>2. QED
      BY <1>1, <1>4, <3>1 DEF StayService!OpenStay, DeskInv, StayRows
  <2>4. DeparturesIn(stayOutbox[s]) = {} /\ DeparturesIn(stayOutbox'[s]) = {}
    <3>1. stayOutbox[s] \in Seq(StayEvents)
      BY <1>1 DEF DeskInv, StayRows
    <3>2. DeparturesIn(stayOutbox[s]) = {}
      BY <2>1 DEF DeparturesIn
    <3>3. QED
      BY <2>3, <3>1, <3>2, DepartureAdded
  <2>5. stay'[s].status = "IN_HOUSE"
    BY <1>1, <1>4 DEF StayService!OpenStay, DeskInv, StayRows
  <2>6. Departed(s)'
    BY <2>4, <2>5 DEF Departed
  <2>7. QED
    BY <2>2, <2>4, <2>6, NobodyCloses
<1>5. QED
  BY <1>3, <1>4

(* The reads of a handler.                                                 *)
LEMMA QueuedReads ==
    ASSUME FrontDeskAssumption, DeskInv, NEW s \in QueuedStays, QueuedAt(s),
           \/ \E t \in CheckIns : StayService!LookUpBooking(t) \/ StayService!OpenRefused(t)
           \/ \E o \in CheckOuts : StayService!ReadForCheckOut(o)
           \/ \E v \in Services : StayService!ReadForService(v) \/ StayService!ReadCatalogue(v)
           \/ \E g \in Charges : StayService!ReadForCharge(g)
    PROVE  QueuedAt(s)' /\ stayOutbox' = stayOutbox
<1>1. SameAt(s) /\ stayOutbox' = stayOutbox
  BY DEF StayService!LookUpBooking, StayService!OpenRefused, StayService!ReadForCheckOut,
         StayService!ReadForService, StayService!ReadCatalogue, StayService!ReadForCharge,
         StayService!table, SameAt
<1>2. Departed(s)'
  BY <1>1 DEF QueuedAt, Departed, SameAt, StayService!exists
<1>3. ASSUME NEW t \in CheckIns, StayService!LookUpBooking(t) \/ StayService!OpenRefused(t)
      PROVE  NoNewAt(s)
  BY <1>3 DEF StayService!LookUpBooking, StayService!OpenRefused, NoNewAt
<1>4. ASSUME NEW o \in CheckOuts, StayService!ReadForCheckOut(o) PROVE QueuedAt(s)'
  <2>1. UNCHANGED <<service, charge>>
    BY <1>4 DEF StayService!ReadForCheckOut
  <2>2. PICK r : /\ checkOut' = [checkOut EXCEPT ![o] = r]
                 /\ ClosesAt(r, s) =>
                       /\ ~ StayService!busy(s) /\ StayService!isOpen(s)
                       /\ r.balance = StayService!computeFolioBalance(
                                         StayService!finalLines(s, r.amount))
    <3>1. PICK t \in CheckIns, amount \in Settlements, allowUnsettled \in BOOLEAN :
             /\ StayService!mayRead(t)
             /\ LET lines == StayService!finalLines(t, amount) IN
                checkOut' = [checkOut EXCEPT ![o] =
                  IF ~ StayService!exists(t) THEN [pc |-> "NOT_FOUND"]
                  ELSE IF ~ StayService!isOpen(t) THEN [pc |-> "ALREADY_CLOSED"]
                  ELSE IF ~ StayService!summable(lines, stay[t].currency)
                    THEN [pc |-> "INTERNAL_ERROR"]
                  ELSE IF ~ StayService!mayDepart(lines, allowUnsettled)
                    THEN [pc |-> "NOT_SETTLED"]
                  ELSE [pc |-> "CLOSE", stay |-> t, amount |-> amount,
                        balance |-> StayService!computeFolioBalance(lines)]]
      BY <1>4 DEF StayService!ReadForCheckOut
    <3>2. PICK r : r = [pc |-> "CLOSE", stay |-> t, amount |-> amount,
                        balance |-> StayService!computeFolioBalance(
                                       StayService!finalLines(t, amount))]
      OBVIOUS
    <3>3. \A p \in {"NOT_FOUND", "ALREADY_CLOSED", "INTERNAL_ERROR", "NOT_SETTLED"} :
             ~ ClosesAt([pc |-> p], s)
      BY DEF ClosesAt
    <3>4. \/ checkOut' = [checkOut EXCEPT ![o] = r] /\ StayService!isOpen(t)
          \/ \E p \in {"NOT_FOUND", "ALREADY_CLOSED", "INTERNAL_ERROR", "NOT_SETTLED"} :
                checkOut' = [checkOut EXCEPT ![o] = [pc |-> p]]
      BY <3>1, <3>2
    <3>5. ClosesAt(r, s) => t = s
      BY <3>2 DEF ClosesAt
    <3>6. r.amount = amount /\ r.balance = StayService!computeFolioBalance(
                                              StayService!finalLines(t, amount))
      BY <3>2
    <3>7. t = s => ~ StayService!busy(s)
      BY <3>1 DEF StayService!mayRead
    <3>8. QED
      BY <3>3, <3>4, <3>5, <3>6, <3>7
  <2>3. \A p \in CheckOuts : checkOut'[p] = IF p = o THEN r ELSE checkOut[p]
    BY <2>2 DEF DeskInv, StayRows
  <2>4. CASE ~ ClosesAt(r, s)
    <3>1. NoNewAt(s)
      BY <2>1, <2>3, <2>4 DEF NoNewAt
    <3>2. QED
      BY <1>1, <3>1, QuietAt
  <2>5. CASE ClosesAt(r, s)
    <3>1. /\ \A p \in CheckOuts : ~ ClosesAt(checkOut[p], s)
          /\ \A v \in Services : ~ ServesAt(service[v], s)
          /\ \A g \in Charges : ~ ChargesAt(charge[g], s)
      BY <2>2, <2>5 DEF StayService!busy, ClosesAt, ServesAt, ChargesAt
    <3>2. ClosesAlone(s)'
      BY <2>1, <2>3, <3>1 DEF ClosesAlone
    <3>3. BalanceStands(s)'
      <4>1. ASSUME NEW p \in CheckOuts, ClosesAt(checkOut'[p], s) PROVE checkOut'[p] = r
        BY <2>3, <3>1, <4>1
      <4>2. StayService!isOpen(s)' /\ \A a : StayService!finalLines(s, a)' = StayService!finalLines(s, a)
        BY <1>1, <2>2, <2>5 DEF SameAt, StayService!isOpen, StayService!finalLines
      <4>3. QED
        BY <2>2, <2>5, <4>1, <4>2 DEF BalanceStands
    <3>4. QED
      BY <1>2, <3>2, <3>3 DEF QueuedAt
  <2>6. QED
    BY <2>4, <2>5
<1>5. ASSUME NEW v \in Services, StayService!ReadForService(v) PROVE QueuedAt(s)'
  <2>1. UNCHANGED <<checkOut, charge>>
    BY <1>5 DEF StayService!ReadForService
  <2>2. PICK r : /\ service' = [service EXCEPT ![v] = r]
                 /\ ServesAt(r, s) => ~ StayService!busy(s)
    BY <1>5 DEF StayService!ReadForService, ServesAt, StayService!mayRead
  <2>3. CASE ServesAt(r, s)
    BY <1>2, <2>1, <2>2, <2>3, NobodyCloses DEF StayService!busy, ClosesAt
  <2>4. CASE ~ ServesAt(r, s)
    <3>1. NoNewAt(s)
      BY <2>1, <2>2, <2>4 DEF NoNewAt, DeskInv, StayRows
    <3>2. QED
      BY <1>1, <3>1, QuietAt
  <2>5. QED
    BY <2>3, <2>4
<1>6. ASSUME NEW v \in Services, StayService!ReadCatalogue(v) PROVE NoNewAt(s)
  <2>1. UNCHANGED <<checkOut, charge>> /\ service[v].pc = "PRICE"
    BY <1>6 DEF StayService!ReadCatalogue
  <2>2. PICK r : service' = [service EXCEPT ![v] = r] /\ (ServesAt(r, s) => service[v].stay = s)
    BY <1>6 DEF StayService!ReadCatalogue, ServesAt
  <2>3. QED
    BY <2>1, <2>2 DEF NoNewAt, ServesAt, DeskInv, StayRows
<1>7. ASSUME NEW g \in Charges, StayService!ReadForCharge(g) PROVE QueuedAt(s)'
  <2>1. UNCHANGED <<checkOut, service>>
    BY <1>7 DEF StayService!ReadForCharge
  <2>2. PICK r : /\ charge' = [charge EXCEPT ![g] = r]
                 /\ ChargesAt(r, s) => ~ StayService!busy(s)
    <3>1. PICK t \in CheckIns :
             /\ StayService!mayRead(t)
             /\ charge' = [charge EXCEPT ![g] =
                   IF ~ StayService!exists(t) THEN [pc |-> "NOT_FOUND"]
                   ELSE [pc |-> "POST", stay |-> t]]
      BY <1>7 DEF StayService!ReadForCharge
    <3>2. ~ ChargesAt([pc |-> "NOT_FOUND"], s)
      BY DEF ChargesAt
    <3>3. ChargesAt([pc |-> "POST", stay |-> t], s) => ~ StayService!busy(s)
      BY <3>1 DEF ChargesAt, StayService!mayRead
    <3>4. QED
      BY <3>1, <3>2, <3>3
  <2>3. CASE ChargesAt(r, s)
    BY <1>2, <2>1, <2>2, <2>3, NobodyCloses DEF StayService!busy, ClosesAt
  <2>4. CASE ~ ChargesAt(r, s)
    <3>1. NoNewAt(s)
      BY <2>1, <2>2, <2>4 DEF NoNewAt, DeskInv, StayRows
    <3>2. QED
      BY <1>1, <3>1, QuietAt
  <2>5. QED
    BY <2>3, <2>4
<1>8. QED
  BY <1>1, <1>3, <1>4, <1>5, <1>6, <1>7, QuietAt

(* A check-out closes the stay with the balance of its folio.              *)
LEMMA QueuedCloses ==
    ASSUME FrontDeskAssumption, DeskInv, NEW s \in QueuedStays, QueuedAt(s),
           NEW o \in CheckOuts, StayService!CloseStay(o)
    PROVE  /\ QueuedAt(s)'
           /\ \/ stayOutbox'[s] = stayOutbox[s]
              \/ LET due == StayService!computeFolioBalance(folio'[s]) IN
                 /\ StayService!Last(stayOutbox'[s]).balance = due
                 /\ stay'[s].status = IF due <= 0 THEN "CHECKED_OUT" ELSE "DEPARTED_UNSETTLED"
<1>1. s \in CheckIns
  BY DEF FrontDeskAssumption
<1>2. checkOut[o].pc = "CLOSE" /\ FindsToClose(checkOut[o])
  BY DEF StayService!CloseStay, DeskInv
<1>3. PICK t \in CheckIns, amount \in Settlements, balance \in Balances :
         /\ t = checkOut[o].stay /\ amount = checkOut[o].amount /\ balance = checkOut[o].balance
         /\ StayService!exists(t)
  BY <1>2 DEF FindsToClose
<1>4. /\ folio' = [folio EXCEPT ![t] =
                      @ \o StayService!settlementLines(amount, stay[t].currency)]
      /\ stay' = [stay EXCEPT ![t].status =
                     IF balance <= 0 THEN "CHECKED_OUT" ELSE "DEPARTED_UNSETTLED"]
      /\ stayOutbox' = [stayOutbox EXCEPT ![t] =
                           Append(@, [type |-> "GUEST_CHECKED_OUT", balance |-> balance])]
      /\ checkOut' = [checkOut EXCEPT ![o] = [pc |-> "CHECKED_OUT"]]
      /\ UNCHANGED <<service, charge>>
  BY <1>3 DEF StayService!CloseStay
<1>5. \A p \in CheckOuts : checkOut'[p] = IF p = o THEN [pc |-> "CHECKED_OUT"] ELSE checkOut[p]
  BY <1>4 DEF DeskInv, StayRows
<1>6. CASE t # s
  <2>1. SameAt(s)
    BY <1>1, <1>4, <1>6 DEF SameAt, DeskInv, StayRows
  <2>2. NoNewAt(s)
    BY <1>4, <1>5 DEF NoNewAt, ClosesAt
  <2>3. QED
    BY <2>1, <2>2, QuietAt DEF SameAt
<1>7. CASE t = s
  <2>1. ClosesAt(checkOut[o], s)
    BY <1>2, <1>3, <1>7 DEF ClosesAt
  <2>2. \A p \in CheckOuts : ~ ClosesAt(checkOut'[p], s)
    BY <1>5, <2>1 DEF QueuedAt, ClosesAlone, ClosesAt
  <2>3. /\ stay[s].status = "IN_HOUSE"
        /\ balance = StayService!computeFolioBalance(StayService!finalLines(s, amount))
    BY <1>3, <2>1 DEF QueuedAt, BalanceStands, StayService!isOpen
  <2>4. folio'[s] = StayService!finalLines(s, amount)
    BY <1>1, <1>4, <1>7 DEF StayService!finalLines, DeskInv, StayRows
  <2>5. stay'[s].status = IF balance <= 0 THEN "CHECKED_OUT" ELSE "DEPARTED_UNSETTLED"
    <3>1. stay[s] \in StayService!StayRow /\ s \in DOMAIN stay
      BY <1>1, <1>3, <1>7 DEF DeskInv, StayRows, StayService!exists
    <3>2. stay'[s] = [stay[s] EXCEPT !.status =
                         IF balance <= 0 THEN "CHECKED_OUT" ELSE "DEPARTED_UNSETTLED"]
      BY <1>4, <1>7, <3>1
    <3>3. QED
      BY <3>1, <3>2 DEF StayService!StayRow
  <2>6. PICK e \in StayEvents : /\ e.type = "GUEST_CHECKED_OUT" /\ e.balance = balance
                                /\ stayOutbox'[s] = Append(stayOutbox[s], e)
    <3>1. PICK e \in StayEvents : e = [type |-> "GUEST_CHECKED_OUT", balance |-> balance]
      BY DEF StayEvents
    <3>2. e.type = "GUEST_CHECKED_OUT" /\ e.balance = balance
      BY <3>1
    <3>3. stayOutbox'[s] = Append(stayOutbox[s], e)
      BY <1>1, <1>4, <1>7, <3>1 DEF DeskInv, StayRows
    <3>4. QED
      BY <3>2, <3>3
  <2>7. stayOutbox[s] \in Seq(StayEvents)
    BY <1>1 DEF DeskInv, StayRows
  <2>8. DeparturesIn(stayOutbox[s]) = {}
    BY <1>3, <1>7, <2>3 DEF QueuedAt, Departed
  <2>9. /\ DeparturesIn(stayOutbox'[s]) = {Len(stayOutbox[s]) + 1}
        /\ Len(stayOutbox[s]) + 1 \in Nat
        /\ StayService!Last(stayOutbox'[s]) = e
    BY <2>6, <2>7, <2>8, DepartureAdded
  <2>10. Departed(s)'
    BY <2>5, <2>9 DEF Departed
  <2>11. QED
    BY <2>2, <2>3, <2>4, <2>5, <2>6, <2>9, <2>10, NobodyCloses
<1>8. QED
  BY <1>6, <1>7

(* Whoever adds a line to a queued stay does so while nobody closes it.    *)
LEMMA QueuedPosts ==
    ASSUME FrontDeskAssumption, DeskInv, NEW s \in QueuedStays, QueuedAt(s),
           \/ \E v \in Services : StayService!RecordService(v)
           \/ \E g \in Charges : StayService!PostCharge(g)
    PROVE  QueuedAt(s)' /\ DeparturesIn(stayOutbox'[s]) = DeparturesIn(stayOutbox[s])
<1>1. s \in CheckIns
  BY DEF FrontDeskAssumption
<1>2. UNCHANGED <<checkOut, stay>> /\ NoNewAt(s)
  <2>1. UNCHANGED <<checkOut, stay>>
    BY DEF StayService!RecordService, StayService!PostCharge
  <2>2. ASSUME NEW v \in Services, StayService!RecordService(v) PROVE NoNewAt(s)
    BY <2>2 DEF StayService!RecordService, NoNewAt, ServesAt, DeskInv, StayRows
  <2>3. ASSUME NEW g \in Charges, StayService!PostCharge(g) PROVE NoNewAt(s)
    BY <2>3 DEF StayService!PostCharge, NoNewAt, ChargesAt, DeskInv, StayRows
  <2>4. QED
    BY <2>1, <2>2, <2>3
<1>3. ASSUME \A o \in CheckOuts : ~ ClosesAt(checkOut[o], s),
             DeparturesIn(stayOutbox'[s]) = DeparturesIn(stayOutbox[s])
      PROVE  QueuedAt(s)' /\ DeparturesIn(stayOutbox'[s]) = DeparturesIn(stayOutbox[s])
  <2>1. Departed(s)'
    BY <1>2, <1>3 DEF QueuedAt, Departed, StayService!exists
  <2>2. QED
    BY <1>2, <1>3, <2>1, NobodyCloses
<1>4. ASSUME SameAt(s)
      PROVE  QueuedAt(s)' /\ DeparturesIn(stayOutbox'[s]) = DeparturesIn(stayOutbox[s])
  BY <1>2, <1>4, QuietAt DEF SameAt
<1>5. ASSUME NEW v \in Services, StayService!RecordService(v)
      PROVE  QueuedAt(s)' /\ DeparturesIn(stayOutbox'[s]) = DeparturesIn(stayOutbox[s])
  <2>1. CASE service[v].stay # s
    <3>1. SameAt(s)
      BY <1>1, <1>5, <2>1 DEF StayService!RecordService, SameAt, DeskInv, StayRows
    <3>2. QED
      BY <1>4, <3>1
  <2>2. CASE service[v].stay = s
    <3>1. ServesAt(service[v], s)
      BY <1>5, <2>2 DEF StayService!RecordService, ServesAt
    <3>2. \A o \in CheckOuts : ~ ClosesAt(checkOut[o], s)
      BY <3>1 DEF QueuedAt, ClosesAlone
    <3>3. PICK e \in StayEvents : e = [type |-> "SERVICE_REQUESTED"]
      BY DEF StayEvents
    <3>4. /\ e.type # "GUEST_CHECKED_OUT" /\ stayOutbox[s] \in Seq(StayEvents)
          /\ stayOutbox'[s] = Append(stayOutbox[s], e)
      BY <1>1, <1>5, <2>2, <3>3 DEF StayService!RecordService, DeskInv, StayRows
    <3>5. DeparturesIn(stayOutbox'[s]) = DeparturesIn(stayOutbox[s])
      BY <3>4, DepartureAdded
    <3>6. QED
      BY <1>3, <3>2, <3>5
  <2>3. QED
    BY <2>1, <2>2
<1>6. ASSUME NEW g \in Charges, StayService!PostCharge(g)
      PROVE  QueuedAt(s)' /\ DeparturesIn(stayOutbox'[s]) = DeparturesIn(stayOutbox[s])
  <2>1. stayOutbox' = stayOutbox
    BY <1>6 DEF StayService!PostCharge
  <2>2. CASE charge[g].stay # s
    <3>1. SameAt(s)
      BY <1>1, <1>6, <2>2 DEF StayService!PostCharge, SameAt, DeskInv, StayRows
    <3>2. QED
      BY <1>4, <3>1
  <2>3. CASE charge[g].stay = s
    <3>1. ChargesAt(charge[g], s)
      BY <1>6, <2>3 DEF StayService!PostCharge, ChargesAt
    <3>2. \A o \in CheckOuts : ~ ClosesAt(checkOut[o], s)
      BY <3>1 DEF QueuedAt, ClosesAlone
    <3>3. QED
      BY <1>3, <2>1, <3>2
  <2>4. QED
    BY <2>2, <2>3
<1>7. QED
  BY <1>5, <1>6

(* What a step does to a queued stay.                                      *)
LEMMA QueuedStayNext ==
    ASSUME FrontDeskAssumption, DeskInv, NEW s \in QueuedStays, QueuedAt(s),
           [OperationsNext]_operationsVars
    PROVE  /\ QueuedAt(s)'
           /\ \/ DeparturesIn(stayOutbox'[s]) = DeparturesIn(stayOutbox[s])
              \/ LET due == StayService!computeFolioBalance(folio'[s]) IN
                 /\ StayService!Last(stayOutbox'[s]).balance = due
                 /\ stay'[s].status = IF due <= 0 THEN "CHECKED_OUT" ELSE "DEPARTED_UNSETTLED"
<1>1. CASE ~ frontDesk
  <2>1. UNCHANGED <<checkIn, checkOut, service, charge, stay, folio, stayOutbox>>
    BY <1>1, NoStay DEF stayVars
  <2>2. SameAt(s) /\ NoNewAt(s)
    BY <2>1 DEF SameAt, NoNewAt
  <2>3. QED
    BY <2>1, <2>2, QuietAt
<1>2. CASE \E o \in CheckOuts : StayService!CloseStay(o)
  BY <1>2, QueuedCloses
<1>3. CASE \E t \in CheckIns : StayService!OpenStay(t)
  BY <1>3, QueuedOpens
<1>4. CASE \/ \E v \in Services : StayService!RecordService(v)
           \/ \E g \in Charges : StayService!PostCharge(g)
  BY <1>4, QueuedPosts
<1>5. CASE \/ \E t \in CheckIns : StayService!LookUpBooking(t) \/ StayService!OpenRefused(t)
           \/ \E o \in CheckOuts : StayService!ReadForCheckOut(o)
           \/ \E v \in Services : StayService!ReadForService(v) \/ StayService!ReadCatalogue(v)
           \/ \E g \in Charges : StayService!ReadForCharge(g)
  BY <1>5, QueuedReads
<1>6. QED
  BY <1>1, <1>2, <1>3, <1>4, <1>5
  DEF frontDesk, StayService!Next, StayService!CheckIn, StayService!CheckOut,
      StayService!RequestService, StayService!Charge

(* A queued stay has announced no departure, or one.                       *)
LEMMA NoneOrOne ==
    ASSUME NEW D, D = {} \/ \E i \in Nat : D = {i}
    PROVE  StayService!Cardinality(D) = 0 \/ StayService!Cardinality(D) = 1
<1>1. StayService!Cardinality(D) = Cardinality(D)
  BY DEF StayService!Cardinality, Cardinality
<1>2. CASE D = {}
  <2>1. Cardinality(D) = 0
    BY <1>2, FS_EmptySet, Zenon
  <2>2. QED
    BY <1>1, <2>1
<1>3. CASE \E i \in Nat : D = {i}
  <2>1. PICK i \in Nat : D = {i}
    BY <1>3
  <2>2. Cardinality({i}) = 1
    BY FS_Singleton
  <2>3. Cardinality(D) = 1
    BY <2>1, <2>2, Zenon
  <2>4. QED
    BY <1>1, <2>3
<1>4. QED
  BY <1>2, <1>3

(* The departures a property counts.                                       *)
LEMMA EventsOf ==
    \A s : /\ StayService!eventsOf(s, "GUEST_CHECKED_OUT") = DeparturesIn(stayOutbox[s])
           /\ StayService!eventsOf(s, "GUEST_CHECKED_OUT")' = DeparturesIn(stayOutbox'[s])
BY DEF StayService!eventsOf, DeparturesIn

(* One departure of a booking is announced, when the stay leaves the       *)
(* house; of a stay whose handlers queue with the balance of its folio at  *)
(* that moment, which says how it is left (checkOut).                      *)
THEOREM AnnouncedBalanceHolds == OperationsSpec => AnnouncedBalance
<1> DEFINE QueuedInv == \A s \in QueuedStays : QueuedAt(s)
<1>1. OperationsInit => DeskInv /\ QueuedInv
  <2>1. SUFFICES ASSUME OperationsInit, NEW s \in QueuedStays PROVE QueuedAt(s)
    BY DeskInit, FrontDeskAssumption
  <2>2. /\ checkOut = [o \in CheckOuts |-> [pc |-> "NEW"]]
        /\ stay[s] = NoRow /\ stayOutbox[s] = <<>>
    BY <2>1, FrontDeskAssumption DEF FrontDeskAssumption, OperationsInit, StayService!Init
  <2>3. Departed(s)
    BY <2>2 DEF Departed, DeparturesIn, StayService!exists
  <2>4. QED
    BY <2>2, <2>3 DEF QueuedAt, ClosesAlone, BalanceStands, ClosesAt
<1>2. DeskInv /\ QueuedInv /\ [OperationsNext]_operationsVars => DeskInv' /\ QueuedInv'
  BY DeskNext, QueuedStayNext, FrontDeskAssumption
<1>3. DeskInv /\ QueuedInv => \A s \in QueuedStays : StayService!departsOnce(s)
  <2>1. SUFFICES ASSUME DeskInv, NEW s \in QueuedStays, QueuedAt(s)
                 PROVE  StayService!departsOnce(s)
    OBVIOUS
  <2>2. StayService!Cardinality(DeparturesIn(stayOutbox[s])) <= 1
    <3>1. \/ StayService!Cardinality(DeparturesIn(stayOutbox[s])) = 0
          \/ StayService!Cardinality(DeparturesIn(stayOutbox[s])) = 1
      BY <2>1, NoneOrOne DEF QueuedAt, Departed
    <3>2. QED
      BY <3>1
  <2>3. StayService!exists(s) =>
           /\ stay[s].status # "IN_HOUSE" <=> DeparturesIn(stayOutbox[s]) # {}
           /\ \A t \in CheckIns : s # t /\ StayService!exists(t) =>
                 stay[s].booking # stay[t].booking
    BY <2>1, FrontDeskAssumption DEF QueuedAt, Departed, DeskInv, OneStayPerBooking, FrontDeskAssumption
  <2>4. StayService!eventsOf(s, "GUEST_CHECKED_OUT") = DeparturesIn(stayOutbox[s])
    BY EventsOf
  <2>5. QED
    BY <2>2, <2>3, <2>4 DEF StayService!departsOnce
<1>4. DeskInv /\ QueuedInv /\ [OperationsNext]_operationsVars =>
         [\A s \in QueuedStays :
             StayService!Cardinality(StayService!eventsOf(s, "GUEST_CHECKED_OUT"))
                 < StayService!Cardinality(StayService!eventsOf(s, "GUEST_CHECKED_OUT")')
             => LET due == StayService!computeFolioBalance(folio'[s]) IN
                /\ StayService!Last(stayOutbox'[s]).balance = due
                /\ stay'[s].status = IF due <= 0 THEN "CHECKED_OUT" ELSE "DEPARTED_UNSETTLED"
         ]_(StayService!vars)
  <2>1. SUFFICES ASSUME DeskInv, [OperationsNext]_operationsVars, NEW s \in QueuedStays, QueuedAt(s),
                        StayService!Cardinality(DeparturesIn(stayOutbox[s]))
                           < StayService!Cardinality(DeparturesIn(stayOutbox'[s]))
                 PROVE  LET due == StayService!computeFolioBalance(folio'[s]) IN
                        /\ StayService!Last(stayOutbox'[s]).balance = due
                        /\ stay'[s].status = IF due <= 0 THEN "CHECKED_OUT" ELSE "DEPARTED_UNSETTLED"
    BY EventsOf
  <2>2. StayService!Cardinality(DeparturesIn(stayOutbox[s])) \in Nat
    <3>1. \/ StayService!Cardinality(DeparturesIn(stayOutbox[s])) = 0
          \/ StayService!Cardinality(DeparturesIn(stayOutbox[s])) = 1
      BY <2>1, NoneOrOne DEF QueuedAt, Departed
    <3>2. QED
      BY <3>1
  <2>3. DeparturesIn(stayOutbox[s]) # DeparturesIn(stayOutbox'[s])
    BY <2>1, <2>2
  <2>4. QED
    BY <2>1, <2>3, QueuedStayNext, FrontDeskAssumption
<1>5. QED
  BY <1>1, <1>2, <1>3, <1>4, PTL DEF OperationsSpec, AnnouncedBalance, StayService!AnnouncedBalance

-----------------------------------------------------------------------------
(* Types. The balance of a folio is a whole amount: the fold that adds up  *)
(* its lines has a recursive function behind it, which is that of their    *)
(* sum with the terms the other way round.                                 *)
AddsUp(lines, h) ==
    h = [s \in SUBSET DOMAIN lines |->
            IF s = {} THEN 0
            ELSE h[s \ {first(s)}] + StayService!owes(lines[first(s)])]

(* What a line owes is whole, whatever its kind.                           *)
LEMMA OwesWhole ==
    ASSUME FrontDeskAssumption, NEW l \in StayService!FolioLine
    PROVE  StayService!owes(l) \in Int
BY DEF FrontDeskAssumption, StayService!FolioLine, StayService!owes,
       StayService!DEBIT_LINE_KINDS

(* The fold is the last value of such a function.                          *)
LEMMA BalanceIsFold ==
    ASSUME NEW lines
    PROVE  StayService!computeFolioBalance(lines) = (CHOOSE h : AddsUp(lines, h))[DOMAIN lines]
BY DEF StayService!computeFolioBalance, StayService!FoldSeq, StayService!FoldFunction,
       StayService!FoldFunctionOnSet, StayService!MapThenFoldSet, AddsUp, first

(* There is one, whose values are whole: that of the sum.                  *)
LEMMA BalanceExists ==
    ASSUME NEW lines, IsFiniteSet(DOMAIN lines),
           \A i \in DOMAIN lines : StayService!owes(lines[i]) \in Int
    PROVE  \E h : AddsUp(lines, h)
<1> DEFINE D == DOMAIN lines
           f == [i \in D |-> StayService!owes(lines[i])]
<1>1. PICK g : Sums(f, D, g)
  BY SumsExist
<1> DEFINE P == {s \in SUBSET D : g[s] \in Int}
<1>2. \A s \in SUBSET D : s # {} =>
         /\ first(s) \in s /\ s \ {first(s)} \in SUBSET s /\ s \ {first(s)} # s
         /\ f[first(s)] = StayService!owes(lines[first(s)]) /\ f[first(s)] \in Int
  BY FirstIn
<1>3. \A s \in SUBSET D : g[s] = IF s = {} THEN 0 ELSE f[first(s)] + g[s \ {first(s)}]
  BY <1>1 DEF Sums, step
<1> HIDE DEF f
<1>4. ASSUME NEW s \in SUBSET D, \A t \in SUBSET s : t # s => t \in P PROVE s \in P
  <2>1. CASE s = {}
    <3>1. g[s] = 0
      BY <1>3, <2>1
    <3>2. QED
      BY <3>1
  <2>2. CASE s # {}
    <3>1. g[s \ {first(s)}] \in Int
      BY <1>2, <1>4, <2>2
    <3>2. g[s] \in Int
      BY <1>2, <1>3, <2>2, <3>1
    <3>3. QED
      BY <3>2
  <2>3. QED
    BY <2>1, <2>2
<1>5. P = SUBSET D
  <2>1. P \in SUBSET SUBSET D
    OBVIOUS
  <2> HIDE DEF P, D
  <2>2. IsFiniteSet(D)
    BY DEF D
  <2>3. QED
    BY <1>4, <2>1, <2>2, SubsetInduction, Zenon
<1>6. \A s \in SUBSET D : g[s] \in Int
  BY <1>5
<1>7. ASSUME NEW s \in SUBSET D, s # {}
      PROVE  g[s] = g[s \ {first(s)}] + StayService!owes(lines[first(s)])
  <2>1. s \ {first(s)} \in SUBSET D
    OBVIOUS
  <2>2. g[s \ {first(s)}] \in Int
    BY <1>6, <2>1
  <2>3. QED
    BY <1>2, <1>3, <1>7, <2>2
<1>8. g = [s \in SUBSET D |-> g[s]]
  BY <1>1 DEF Sums
<1>9. AddsUp(lines, g)
  <2>1. \A s \in SUBSET D :
           g[s] = IF s = {} THEN 0 ELSE g[s \ {first(s)}] + StayService!owes(lines[first(s)])
    BY <1>3, <1>7
  <2>2. QED
    BY <1>8, <2>1 DEF AddsUp
<1>10. QED
  BY <1>9

(* So every balance is whole.                                              *)
LEMMA BalancesWhole == ASSUME FrontDeskAssumption PROVE Balances \subseteq Int
<1> SUFFICES ASSUME NEW lines \in Seq(StayService!FolioLine)
             PROVE  StayService!computeFolioBalance(lines) \in Int
  BY DEF Balances
<1> DEFINE D == DOMAIN lines
           h == CHOOSE g : AddsUp(lines, g)
           P == {s \in SUBSET D : h[s] \in Int}
<1>1. IsFiniteSet(D) /\ \A i \in D : StayService!owes(lines[i]) \in Int
  <2>1. D = 1 .. Len(lines) /\ Len(lines) \in Nat /\ \A i \in D : lines[i] \in StayService!FolioLine
    OBVIOUS
  <2>2. IsFiniteSet(D)
    BY <2>1, FS_Interval
  <2>3. QED
    BY <2>1, <2>2, OwesWhole
<1>2. AddsUp(lines, h)
  BY <1>1, BalanceExists
<1> HIDE DEF h
<1>3. ASSUME NEW s \in SUBSET D, \A t \in SUBSET s : t # s => t \in P PROVE s \in P
  <2>1. h[s] = IF s = {} THEN 0 ELSE h[s \ {first(s)}] + StayService!owes(lines[first(s)])
    BY <1>2 DEF AddsUp
  <2>2. CASE s = {}
    BY <2>1, <2>2
  <2>3. CASE s # {}
    <3>1. first(s) \in s
      BY <2>3, FirstIn
    <3>2. s \ {first(s)} \in SUBSET s /\ s \ {first(s)} # s
      BY <3>1
    <3>3. h[s \ {first(s)}] \in Int /\ StayService!owes(lines[first(s)]) \in Int
      BY <1>1, <1>3, <3>1, <3>2
    <3>4. QED
      BY <2>1, <2>3, <3>3
  <2>4. QED
    BY <2>2, <2>3
<1>4. P = SUBSET D
  <2>1. P \in SUBSET SUBSET D
    OBVIOUS
  <2> HIDE DEF P, D
  <2>2. QED
    BY <1>1, <1>3, <2>1, SubsetInduction, Zenon
<1>5. h[D] \in Int
  BY <1>4
<1>6. QED
  BY <1>5, BalanceIsFold DEF h

(* A stay's rows, and what its handlers have read, are of their types.     *)
LEMMA StaysTyped == ASSUME FrontDeskAssumption, DeskInv PROVE StayService!TypeOK
<1>1. StayEvents \subseteq StayService!OutboxEvent
  BY BalancesWhole DEF StayEvents, StayService!OutboxEvent
<1>2. stayOutbox \in [CheckIns -> Seq(StayService!OutboxEvent)]
  <2>1. Seq(StayEvents) \subseteq Seq(StayService!OutboxEvent)
    BY <1>1
  <2>2. QED
    BY <2>1 DEF DeskInv, StayRows
<1>3. /\ \A o \in CheckOuts : checkOut[o].pc = "CLOSE" => StayService!exists(checkOut[o].stay)
      /\ \A v \in Services :
            service[v].pc \in {"PRICE", "REQUEST"} => StayService!exists(service[v].stay)
      /\ \A g \in Charges : charge[g].pc = "POST" => StayService!exists(charge[g].stay)
  BY DEF DeskInv, FindsToClose, FindsToServe, FindsToCharge
<1>4. QED
  BY <1>2, <1>3 DEF StayService!TypeOK, DeskInv, StayRows

(* So are the rows of the tasks.                                           *)
LEMMA TasksTyped == ASSUME TaskInv PROVE HousekeepingService!TypeOK
BY DEF TaskInv, TaskRows, Staffed, TaskRequest, HousekeepingService!TypeOK

(* And those of the tickets.                                               *)
LEMMA TicketsTyped == ASSUME TicketInv PROVE MaintenanceService!TypeOK
BY DEF TicketInv, TicketRows, SaysWhatWasReported, TicketRequest, MaintenanceService!TypeOK

(* A request of room-service is about rooms of the hotel, and announces    *)
(* rooms that it has inserted.                                             *)
ProperRequest(r) ==
    /\ r.rooms \in Seq(Numbers)
    /\ r.pc \in {"FREE", "INSERT", "PUBLISH", "CHANGE", "BLOCK", "UNBLOCK"}
    /\ r.pc # "FREE" => r.rooms # <<>>
    /\ r.pc = "PUBLISH" => \A i \in DOMAIN r.rooms : RoomService!exists(r.rooms[i])

RequestInv ==
    /\ roomRequests \in 0 .. MaxRoomRequests
    /\ \A h \in Desks : ProperRequest(desk[h])

(* A room that was inserted stays.                                         *)
RoomsStay == \A n \in Numbers : RoomService!exists(n) => RoomService!exists(n)'

(* A request that is kept is as proper as it was.                          *)
LEMMA StaysProper ==
    ASSUME NEW r, ProperRequest(r), RoomsStay
    PROVE  ProperRequest(r)'
BY DEF ProperRequest, RoomsStay

(* Rooms are where a handler is, and so is what it turns to.               *)
LEMMA RequestMoves ==
    ASSUME RoomInv, RequestInv, RoomsStay, NEW h \in Desks, NEW r, ProperRequest(r)',
           desk' = [desk EXCEPT ![h] = r], roomRequests' \in 0 .. MaxRoomRequests
    PROVE  RequestInv'
<1>1. \A k \in Desks : desk'[k] = IF k = h THEN r ELSE desk[k]
  BY DEF RoomInv
<1>2. ASSUME NEW k \in Desks PROVE ProperRequest(desk[k])'
  <2>1. CASE k = h
    BY <1>1, <2>1 DEF ProperRequest
  <2>2. CASE k # h
    BY <1>1, <2>2, StaysProper DEF RequestInv, ProperRequest, RoomsStay
  <2>3. QED
    BY <2>1, <2>2
<1>3. QED
  BY <1>2 DEF RequestInv

(* What a handler takes up is about a room, or a floor of rooms.           *)
LEMMA ReadsProper ==
    ASSUME RoomsAssumption, RoomInv, RequestInv, NEW h \in Desks,
           \/ RoomService!ReadForCreate(h) \/ RoomService!ReadForFloor(h)
           \/ RoomService!ReadForStatus(h) \/ RoomService!ReadForBlock(h)
           \/ RoomService!ReadForUnblock(h)
    PROVE  RequestInv'
<1>1. RoomsStay
  BY DEF RoomsStay, RoomService!exists, RoomService!ReadForCreate, RoomService!ReadForFloor,
         RoomService!ReadForStatus, RoomService!ReadForBlock, RoomService!ReadForUnblock
<1>2. ASSUME NEW r, RoomService!begin(h, r), r.rooms \in Seq(Numbers), r.rooms # <<>>,
             r.pc \in {"INSERT", "CHANGE", "BLOCK", "UNBLOCK"}
      PROVE  RequestInv'
  <2>1. ProperRequest(r)'
    BY <1>2 DEF ProperRequest
  <2>2. roomRequests' \in 0 .. MaxRoomRequests /\ desk' = [desk EXCEPT ![h] = r]
    BY <1>2, RoomsAssumption DEF RoomService!begin, RequestInv, RoomsAssumption
  <2>3. QED
    BY <1>1, <2>1, <2>2, RequestMoves
<1>3. \A n \in Numbers : <<n>> \in Seq(Numbers) /\ <<n>> # <<>>
  OBVIOUS
<1>4. CASE RoomService!ReadForCreate(h)
  BY <1>2, <1>3, <1>4 DEF RoomService!ReadForCreate
<1>5. CASE RoomService!ReadForFloor(h)
  <2>1. PICK plan \in Plans : RoomService!begin(h, [pc |-> "INSERT", rooms |-> plan])
    BY <1>5 DEF RoomService!ReadForFloor
  <2>2. plan \in Seq(Numbers) /\ plan # <<>>
    BY DEF RoomsAssumption
  <2>3. QED
    BY <1>2, <2>1, <2>2
<1>6. CASE RoomService!ReadForStatus(h)
  <2>1. PICK n \in Numbers, to \in Targets :
           RoomService!begin(h, [pc |-> "CHANGE", rooms |-> <<n>>,
                                 from |-> room[n].status, to |-> to])
    BY <1>6 DEF RoomService!ReadForStatus
  <2>2. QED
    BY <1>2, <1>3, <2>1
<1>7. CASE RoomService!ReadForBlock(h)
  BY <1>2, <1>3, <1>7 DEF RoomService!ReadForBlock
<1>8. CASE RoomService!ReadForUnblock(h)
  BY <1>2, <1>3, <1>8 DEF RoomService!ReadForUnblock
<1>9. QED
  BY <1>4, <1>5, <1>6, <1>7, <1>8

(* What a handler goes on with, or returns from, is proper as well.        *)
LEMMA WritesProper ==
    ASSUME RoomsAssumption, RoomInv, RequestInv, NEW h \in Desks,
           \/ RoomService!InsertRooms(h) \/ RoomService!PublishRoomUpserted(h)
           \/ RoomService!ChangeStatus(h) \/ RoomService!WriteBlock(h) \/ RoomService!Crash(h)
    PROVE  RequestInv'
<1> DEFINE rs == desk[h].rooms
<1>1. ProperRequest(RoomService!Free)'
  BY DEF ProperRequest, RoomService!Free
<1>2. ASSUME RoomsStay, desk' = [desk EXCEPT ![h] = RoomService!Free], UNCHANGED roomRequests
      PROVE  RequestInv'
  BY <1>1, <1>2, RequestMoves DEF RequestInv
<1>3. rs \in Seq(Numbers)
  BY DEF RequestInv, ProperRequest
<1>4. CASE RoomService!Crash(h)
  BY <1>2, <1>4 DEF RoomService!Crash, RoomsStay, RoomService!exists
<1>5. CASE RoomService!InsertRooms(h)
  <2>1. desk[h] = [pc |-> "INSERT", rooms |-> rs] /\ UNCHANGED roomRequests
    BY <1>5 DEF RoomInv, FindsRoom, Finds, RoomService!InsertRooms
  <2>2. CASE \E n \in RoomService!Range(rs) : RoomService!exists(n)
    BY <1>2, <1>5, <2>2 DEF RoomService!InsertRooms, RoomsStay, RoomService!exists
  <2>3. CASE ~ \E n \in RoomService!Range(rs) : RoomService!exists(n)
    <3>1. /\ room' = [n \in Numbers |-> IF n \in RoomService!Range(rs)
                                        THEN RoomService!newRoom ELSE room[n]]
          /\ desk' = [desk EXCEPT ![h].pc = "PUBLISH"]
      BY <1>5, <2>3 DEF RoomService!InsertRooms
    <3>2. RoomService!newRoom # NoRoom
      <4>1. RoomService!newRoom \in RoomService!RoomRow
        BY DEF RoomService!newRoom, RoomService!RoomRow, RoomService!RoomStatus
      <4>2. QED
        BY <4>1 DEF RoomsAssumption
    <3>3. RoomsStay /\ \A i \in DOMAIN rs : room'[rs[i]] # NoRoom
      <4>1. \A i \in DOMAIN rs : rs[i] \in Numbers /\ rs[i] \in RoomService!Range(rs)
        BY <1>3 DEF RoomService!Range
      <4>2. QED
        BY <2>3, <3>1, <3>2, <4>1 DEF RoomsStay, RoomService!exists
    <3>4. desk' = [desk EXCEPT ![h] = [pc |-> "PUBLISH", rooms |-> rs]]
      <4>1. [desk[h] EXCEPT !.pc = "PUBLISH"] = [pc |-> "PUBLISH", rooms |-> rs]
        BY <2>1
      <4>2. desk' = [desk EXCEPT ![h] = [desk[h] EXCEPT !.pc = "PUBLISH"]]
        BY <3>1 DEF RoomInv
      <4>3. QED
        BY <4>1, <4>2
    <3>5. rs # <<>>
      BY <2>1 DEF RequestInv, ProperRequest
    <3> HIDE DEF rs
    <3>6. ASSUME NEW r, r = [pc |-> "PUBLISH", rooms |-> rs] PROVE ProperRequest(r)'
      BY <1>3, <3>3, <3>5, <3>6 DEF ProperRequest, RoomService!exists
    <3>7. QED
      BY <2>1, <3>3, <3>4, <3>6, RequestMoves DEF RequestInv
  <2>4. QED
    BY <2>2, <2>3
<1>6. CASE RoomService!PublishRoomUpserted(h)
  <2>1. /\ rs # <<>> /\ \A i \in DOMAIN rs : RoomService!exists(rs[i])
        /\ UNCHANGED <<room, roomRequests>>
        /\ desk' = [desk EXCEPT ![h] = IF Tail(rs) = <<>> THEN RoomService!Free
                                       ELSE [pc |-> "PUBLISH", rooms |-> Tail(rs)]]
    BY <1>6 DEF RoomService!PublishRoomUpserted, RequestInv, ProperRequest
  <2>2. RoomsStay
    BY <2>1 DEF RoomsStay, RoomService!exists
  <2>3. CASE Tail(rs) = <<>>
    BY <1>2, <2>1, <2>2, <2>3
  <2>4. CASE Tail(rs) # <<>>
    <3> DEFINE rest == Tail(rs)
    <3>1. /\ rest \in Seq(Numbers)
          /\ \A i \in DOMAIN rest : i + 1 \in DOMAIN rs /\ rest[i] = rs[i + 1]
      BY <1>3, <2>1
    <3>2. \A i \in DOMAIN rest : room'[rest[i]] # NoRoom
      BY <2>1, <3>1 DEF RoomService!exists
    <3>3. desk' = [desk EXCEPT ![h] = [pc |-> "PUBLISH", rooms |-> rest]] /\ rest # <<>>
      BY <2>1, <2>4
    <3> HIDE DEF rest
    <3>4. ASSUME NEW r, r = [pc |-> "PUBLISH", rooms |-> rest] PROVE ProperRequest(r)'
      BY <3>1, <3>2, <3>3, <3>4 DEF ProperRequest, RoomService!exists
    <3>5. QED
      BY <2>1, <2>2, <3>3, <3>4, RequestMoves DEF RequestInv
  <2>5. QED
    BY <2>3, <2>4
<1>7. CASE RoomService!ChangeStatus(h)
  <2>1. PICK n \in Numbers : n = Head(rs) /\ RoomService!exists(n)
    BY <1>7 DEF RoomInv, FindsRoom, Finds, RoomService!ChangeStatus
  <2>2. room' = [room EXCEPT ![n].status = desk[h].to] /\ desk[h].to \in RoomService!RoomStatus
    BY <1>7, <2>1 DEF RoomInv, FindsRoom, Finds, RoomService!ChangeStatus
  <2>3. room[n] \in RoomService!RoomRow
    BY <2>1 DEF RoomInv, RoomService!exists
  <2>4. room'[n] \in RoomService!RoomRow /\ \A m \in Numbers : m # n => room'[m] = room[m]
    BY <2>2, <2>3 DEF RoomInv, RoomService!RoomRow
  <2>5. RoomsStay
    BY <2>4 DEF RoomsStay, RoomService!exists, RoomsAssumption
  <2>6. QED
    BY <1>2, <1>7, <2>5 DEF RoomService!ChangeStatus
<1>8. CASE RoomService!WriteBlock(h)
  <2>1. PICK n \in Numbers : n = Head(rs) /\ RoomService!exists(n)
    BY <1>8 DEF RoomInv, FindsRoom, Finds, RoomService!WriteBlock
  <2>2. PICK b \in BOOLEAN : room' = [room EXCEPT ![n].blocked = b]
    BY <1>8, <2>1 DEF RoomService!WriteBlock
  <2>3. room[n] \in RoomService!RoomRow
    BY <2>1 DEF RoomInv, RoomService!exists
  <2>4. room'[n] \in RoomService!RoomRow /\ \A m \in Numbers : m # n => room'[m] = room[m]
    BY <2>2, <2>3 DEF RoomInv, RoomService!RoomRow
  <2>5. RoomsStay
    BY <2>4 DEF RoomsStay, RoomService!exists, RoomsAssumption
  <2>6. QED
    BY <1>2, <1>8, <2>5 DEF RoomService!WriteBlock
<1>9. QED
  BY <1>4, <1>5, <1>6, <1>7, <1>8

(* Every step of any department leaves the requests proper.                *)
LEMMA RequestNext ==
    ASSUME RoomsAssumption, RoomInv, RequestInv, [OperationsNext]_operationsVars
    PROVE  RequestInv'
<1>1. CASE UNCHANGED roomVars
  BY <1>1 DEF roomVars, RequestInv, ProperRequest, RoomService!exists
<1>2. CASE rooms
  <2>1. PICK h \in Desks : RoomStep(h)
    BY <1>2 DEF rooms, RoomService!Next, RoomStep
  <2>2. QED
    BY <2>1, ReadsProper, WritesProper
    DEF RoomStep, RoomService!createRoom, RoomService!generateFloor, RoomService!changeStatus,
        RoomService!block, RoomService!unblock
<1>3. CASE ~ rooms
  BY <1>1, <1>3
  DEF OperationsNext, operationsVars, finance, frontDesk, housekeeping, maintenance, billing
<1>4. QED
  BY <1>2, <1>3

(* So the rows of the rooms, and what is asked of them, are of their types.*)
LEMMA RoomsTyped == ASSUME RoomInv, RequestInv PROVE RoomService!TypeOK
<1>1. ASSUME NEW h \in Desks
      PROVE  /\ RoomService!Range(desk[h].rooms) \subseteq Numbers
             /\ desk[h].pc \notin {"FREE", "INSERT"} => RoomService!exists(Head(desk[h].rooms))
  <2>1. ProperRequest(desk[h]) /\ FindsRoom(h)
    BY DEF RoomInv, RequestInv
  <2>2. RoomService!Range(desk[h].rooms) \subseteq Numbers
    BY <2>1 DEF ProperRequest, RoomService!Range
  <2>3. desk[h].pc = "PUBLISH" => RoomService!exists(Head(desk[h].rooms))
    BY <2>1 DEF ProperRequest
  <2>4. desk[h].pc \in {"CHANGE", "BLOCK", "UNBLOCK"} => RoomService!exists(Head(desk[h].rooms))
    BY <2>1 DEF FindsRoom, Finds
  <2>5. QED
    BY <2>1, <2>2, <2>3, <2>4 DEF ProperRequest
<1>2. QED
  BY <1>1 DEF RoomService!TypeOK, RoomInv, RequestInv, Change

(* Whatever overlaps in any department, every row and request is of its    *)
(* type, and a request past its read found the row it will write to.       *)
THEOREM OperationsTypeOKHolds == OperationsSpec => []OperationsTypeOK
<1> DEFINE All == DeskInv /\ RoomInv /\ RequestInv /\ TaskInv /\ TicketInv
<1>1. OperationsInit => All
  <2>1. OperationsInit => RequestInv
    <3>1. SUFFICES ASSUME OperationsInit PROVE RequestInv
      OBVIOUS
    <3>2. desk = [h \in Desks |-> RoomService!Free] /\ roomRequests = 0
      BY <3>1 DEF OperationsInit, RoomService!Init
    <3>3. ProperRequest(RoomService!Free)
      BY DEF ProperRequest, RoomService!Free
    <3>4. roomRequests \in 0 .. MaxRoomRequests
      BY <3>2, RoomsAssumption DEF RoomsAssumption
    <3>5. QED
      BY <3>2, <3>3, <3>4 DEF RequestInv
  <2>2. QED
    BY <2>1, DeskInit, RoomInit, TaskInit, TicketInit, FrontDeskAssumption,
       HousekeepingAssumption, MaintenanceAssumption
<1>2. All /\ [OperationsNext]_operationsVars => All'
  BY DeskNext, RoomNext, RequestNext, TaskNext, TicketNext, FrontDeskAssumption,
     RoomsAssumption, HousekeepingAssumption, MaintenanceAssumption
<1>3. All /\ TypeOK => OperationsTypeOK
  BY StaysTyped, RoomsTyped, TasksTyped, TicketsTyped, FrontDeskAssumption DEF OperationsTypeOK
<1>4. QED
  BY <1>1, <1>2, <1>3, FinanceInOperations, TypeCorrect, PTL DEF OperationsSpec
=============================================================================
