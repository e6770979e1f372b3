------------------------------ MODULE Invoices ------------------------------
(***************************************************************************)
(* finance-service: FinanceService.issue, recordPayment and void, run by   *)
(* concurrent HTTP requests against one database.                          *)
(*                                                                         *)
(* Every await ends a step; a transaction is one step. An invoice is       *)
(* identified by the issue request that inserted it. Its lines, its taxes  *)
(* and its dates are left out: the total is an input here and computed in  *)
(* Bills. The DRAFT and OVERDUE statuses are never written.                *)
(***************************************************************************)
EXTENDS Integers, Sequences, FiniteSets, Functions

CONSTANTS
    Issues,       \* issue requests, and the invoices they may insert
    Payments,     \* recordPayment requests
    Voids,        \* void requests
    Hotels,
    Stays,        \* what an invoice may be for
    Years,        \* years the clock may show, in order
    PrefixesOf,   \* PrefixesOf[h]: what derivePrefix makes of the names given for h
    MaxSequence,  \* the last sequence number formatInvoiceNumber accepts
    Totals,       \* total of an invoice, below zero where credits prevail
    Deposits,     \* paidMinor of an invoice being issued
    Amounts,      \* amountMinor of a recorded payment
    NoRow,
    Queued        \* invoices whose payments and voids run one after the other

ASSUME InputsAssumption ==
    /\ Years \subseteq Nat /\ MaxSequence \in Nat
    /\ Totals \subseteq Int /\ Deposits \subseteq Nat /\ Amounts \subseteq Nat \ {0}
    /\ DOMAIN PrefixesOf = Hotels
    /\ Queued \subseteq Issues

VARIABLES
    year,      \* what the clock shows
    issue,     \* issue[r]: where issue request r is, and what it has read
    payment,   \* payment[p]: the same for recordPayment request p
    voiding,   \* voiding[v]: the same for void request v
    counter,   \* counter[h][y]: the row of invoice_counters, or NoRow
    invoice,   \* invoice[r]: the row of invoices, or NoRow
    outbox     \* outbox[h]: the announced invoices of a property, in commit order

vars == <<year, issue, payment, voiding, counter, invoice, outbox>>
requests == <<issue, payment, voiding>>
tables == <<counter, invoice, outbox>>

Init ==
    /\ year \in Years
    /\ issue = [r \in Issues |-> [pc |-> "NEW"]]
    /\ payment = [p \in Payments |-> [pc |-> "NEW"]]
    /\ voiding = [v \in Voids |-> [pc |-> "NEW"]]
    /\ counter = [h \in Hotels |-> [y \in Years |-> NoRow]]
    /\ invoice = [r \in Issues |-> NoRow]
    /\ outbox = [h \in Hotels |-> <<>>]

(* The clock moves on to another year. *)
NewYear ==
    /\ \E y \in Years : y > year /\ year' = y
    /\ UNCHANGED <<requests, tables>>

-----------------------------------------------------------------------------
(* issue *)

exists(r) == invoice[r] # NoRow
issued == {r \in Issues : exists(r)}

invoiced(stay) == \E r \in issued : invoice[r].stay = stay

LookUpStay(r) ==
    /\ issue[r].pc = "NEW"
    /\ \E h \in Hotels, s \in Stays, total \in Totals, paid \in Deposits :
          issue' = [issue EXCEPT ![r] =
              IF invoiced(s) THEN [pc |-> "CONFLICT"]
              ELSE [pc |-> "INSERT", hotel |-> h, stay |-> s, year |-> year,
                    total |-> total, paid |-> paid]]
    /\ UNCHANGED <<year, payment, voiding, tables>>

(* upsert: the counter row after the transaction has taken its number.     *)
upserted(h, y, prefix) ==
    IF counter[h][y] = NoRow THEN [prefix |-> prefix, next |-> 2]
    ELSE [counter[h][y] EXCEPT !.next = @ + 1]

sequenceOf(c) == c.next - 1

numberOf(c, y) == [prefix |-> c.prefix, year |-> y, sequence |-> sequenceOf(c)]

inRange(sequence) == sequence <= MaxSequence

taken(number) == \E r \in issued : invoice[r].number = number

(* Mutant: no unique index on invoices.stayId.                             *)
stayIsFree_noIndex(s) == TRUE

stayIsFree(s) == ~ invoiced(s)

statusFor(paid, total) ==
    IF paid >= total THEN "PAID" ELSE IF paid > 0 THEN "PARTIALLY_PAID" ELSE "ISSUED"

announcement(r, c, q) ==
    [invoice |-> r, number |-> numberOf(c, q.year), balance |-> q.total - q.paid]

(* The transaction commits: the counter moves with the invoice.            *)
IssueInvoice(r) ==
    /\ issue[r].pc = "INSERT"
    /\ \E prefix \in PrefixesOf[issue[r].hotel] :
         LET q == issue[r]
             c == upserted(q.hotel, q.year, prefix)
         IN
         /\ inRange(sequenceOf(c))
         /\ stayIsFree(q.stay) /\ ~ taken(numberOf(c, q.year))
         /\ counter' = [counter EXCEPT ![q.hotel][q.year] = c]
         /\ invoice' = [invoice EXCEPT ![r] =
               [hotel |-> q.hotel, stay |-> q.stay, number |-> numberOf(c, q.year),
                status |-> statusFor(q.paid, q.total), total |-> q.total, paid |-> q.paid]]
         /\ outbox' = [outbox EXCEPT ![q.hotel] = Append(@, announcement(r, c, q))]
    /\ issue' = [issue EXCEPT ![r] = [pc |-> "ISSUED"]]
    /\ UNCHANGED <<year, payment, voiding>>

(* Mutant: the counter moves outside the transaction, as a sequence would. *)
rolledBack_burnt(h, y, c) == [counter EXCEPT ![h][y] = c]

rolledBack(h, y, c) == counter

(* The transaction rolls back: the yearly sequence is exhausted, or one of *)
(* the two unique indexes refuses the row.                                 *)
IssueRefused(r) ==
    /\ issue[r].pc = "INSERT"
    /\ \E prefix \in PrefixesOf[issue[r].hotel] :
         LET q == issue[r]
             c == upserted(q.hotel, q.year, prefix)
         IN
         /\ \/ /\ ~ inRange(sequenceOf(c))
               /\ issue' = [issue EXCEPT ![r] = [pc |-> "EXHAUSTED"]]
            \/ /\ inRange(sequenceOf(c))
               /\ ~ stayIsFree(q.stay)
               /\ issue' = [issue EXCEPT ![r] = [pc |-> "STAY_TAKEN"]]
            \/ /\ inRange(sequenceOf(c))
               /\ stayIsFree(q.stay) /\ taken(numberOf(c, q.year))
               /\ issue' = [issue EXCEPT ![r] = [pc |-> "NUMBER_TAKEN"]]
         /\ counter' = rolledBack(q.hotel, q.year, c)
    /\ UNCHANGED <<year, payment, voiding, invoice, outbox>>

-----------------------------------------------------------------------------
(* recordPayment and void: read the invoice, then update it by id. *)

busy(r) ==
    \/ \E p \in Payments : payment[p].pc = "WRITE" /\ payment[p].invoice = r
    \/ \E v \in Voids : voiding[v].pc = "WRITE" /\ voiding[v].invoice = r

mayRead(r) == r \in Queued => ~ busy(r)

(* Mutant: a payment is compared with the total, not with what is due.     *)
exceeds_theTotal(r, amount) == amount > invoice[r].total

exceeds(r, amount) == invoice[r].paid + amount > invoice[r].total

ReadForPayment(p) ==
    /\ payment[p].pc = "NEW"
    /\ \E r \in Issues, amount \in Amounts :
          /\ mayRead(r)
          /\ payment' = [payment EXCEPT ![p] =
               IF ~ exists(r) THEN [pc |-> "NOT_FOUND"]
               ELSE IF invoice[r].status = "VOID" THEN [pc |-> "CONFLICT"]
               ELSE IF exceeds(r, amount) THEN [pc |-> "EXCEEDS_BALANCE"]
               ELSE [pc |-> "WRITE", invoice |-> r, amount |-> amount,
                     paid |-> invoice[r].paid + amount]]
    /\ UNCHANGED <<year, issue, voiding, tables>>

(* recordPayment knows no ISSUED: what it writes is PAID or PARTIALLY_PAID. *)
paidUp(row, paid) ==
    [row EXCEPT !.paid = paid,
                !.status = IF paid >= row.total THEN "PAID" ELSE "PARTIALLY_PAID"]

WritePayment(p) ==
    /\ payment[p].pc = "WRITE"
    /\ LET q == payment[p] IN
          /\ invoice' = [invoice EXCEPT ![q.invoice] = paidUp(@, q.paid)]
          /\ payment' = [payment EXCEPT ![p] =
                [pc |-> "RECORDED", invoice |-> q.invoice, amount |-> q.amount]]
    /\ UNCHANGED <<year, issue, voiding, counter, outbox>>

(* Mutant: an invoice that took money may be voided.                       *)
mayVoid_paid(r) == invoice[r].status # "VOID"

mayVoid(r) == invoice[r].status # "VOID" /\ invoice[r].paid = 0

ReadForVoid(v) ==
    /\ voiding[v].pc = "NEW"
    /\ \E r \in Issues :
          /\ mayRead(r)
          /\ voiding' = [voiding EXCEPT ![v] =
               IF ~ exists(r) THEN [pc |-> "NOT_FOUND"]
               ELSE IF ~ mayVoid(r) THEN [pc |-> "CONFLICT"]
               ELSE [pc |-> "WRITE", invoice |-> r]]
    /\ UNCHANGED <<year, issue, payment, tables>>

voided(row) == [row EXCEPT !.status = "VOID"]

WriteVoid(v) ==
    /\ voiding[v].pc = "WRITE"
    /\ invoice' = [invoice EXCEPT ![voiding[v].invoice] = voided(@)]
    /\ voiding' = [voiding EXCEPT ![v] = [pc |-> "VOIDED", invoice |-> voiding[v].invoice]]
    /\ UNCHANGED <<year, issue, payment, counter, outbox>>

-----------------------------------------------------------------------------
Issue(r) == LookUpStay(r) \/ IssueInvoice(r) \/ IssueRefused(r)
RecordPayment(p) == ReadForPayment(p) \/ WritePayment(p)
Void(v) == ReadForVoid(v) \/ WriteVoid(v)

Next ==
    \/ NewYear
    \/ \E r \in Issues : Issue(r)
    \/ \E p \in Payments : RecordPayment(p)
    \/ \E v \in Voids : Void(v)

Spec == Init /\ [][Next]_vars

-----------------------------------------------------------------------------
(* Properties. *)

AllPrefixes == UNION {PrefixesOf[h] : h \in Hotels}

Number == [prefix : AllPrefixes, year : Years, sequence : 1..MaxSequence]

CounterRow == [prefix : AllPrefixes, next : 2..(MaxSequence + 1)]

InvoiceRow ==
    [hotel : Hotels, stay : Stays, number : Number, total : Totals, paid : Nat,
     status : {"ISSUED", "PARTIALLY_PAID", "PAID", "VOID"}]

Announcement == [invoice : Issues, number : Number, balance : Int]

ASSUME NoRowAssumption == NoRow \notin CounterRow /\ NoRow \notin InvoiceRow

IssueState ==
    [pc : {"NEW", "CONFLICT", "ISSUED", "EXHAUSTED", "STAY_TAKEN", "NUMBER_TAKEN"}]
    \cup [pc : {"INSERT"}, hotel : Hotels, stay : Stays, year : Years,
          total : Totals, paid : Deposits]

PaymentState ==
    [pc : {"NEW", "NOT_FOUND", "CONFLICT", "EXCEEDS_BALANCE"}]
    \cup [pc : {"WRITE"}, invoice : Issues, amount : Amounts, paid : Nat]
    \cup [pc : {"RECORDED"}, invoice : Issues, amount : Amounts]

VoidState ==
    [pc : {"NEW", "NOT_FOUND", "CONFLICT"}]
    \cup [pc : {"WRITE", "VOIDED"}, invoice : Issues]

(* Every column stays in its domain; in particular no number is allocated  *)
(* that formatInvoiceNumber would have refused.                            *)
TypeOK ==
    /\ year \in Years
    /\ issue \in [Issues -> IssueState]
    /\ payment \in [Payments -> PaymentState]
    /\ voiding \in [Voids -> VoidState]
    /\ counter \in [Hotels -> [Years -> CounterRow \cup {NoRow}]]
    /\ invoice \in [Issues -> InvoiceRow \cup {NoRow}]
    /\ outbox \in [Hotels -> Seq(Announcement)]

(* What a property has issued in a year.                                   *)
ofYear(h, y) == {r \in issued : invoice[r].hotel = h /\ invoice[r].number.year = y}

lastSequence(h, y) == IF counter[h][y] = NoRow THEN 0 ELSE counter[h][y].next - 1

(* schema.prisma: "Sequential, gap-free per property per year". The        *)
(* numbers of a property's year are 1, 2, 3, ... with none left out and    *)
(* none used twice, whatever rolled back and whatever was voided.          *)
NumbersGapFree ==
    \A h \in Hotels, y \in Years :
        /\ {invoice[r].number.sequence : r \in ofYear(h, y)} = 1..lastSequence(h, y)
        /\ \A r, t \in ofYear(h, y) :
              invoice[r].number.sequence = invoice[t].number.sequence => r = t

(* A stay is invoiced once, however many requests try at once.             *)
OneInvoicePerStay ==
    \A r, t \in issued : invoice[r].stay = invoice[t].stay => r = t

(* Invoices are announced to the other services in the order of their      *)
(* numbers, and only with the number the row still has.                    *)
AnnouncedInOrder ==
    \A h \in Hotels : \A i \in DOMAIN outbox[h] :
        /\ exists(outbox[h][i].invoice)
        /\ invoice[outbox[h][i].invoice].number = outbox[h][i].number
        /\ \A j \in 1..(i - 1) :
              outbox[h][j].number.year = outbox[h][i].number.year
              => outbox[h][j].number.sequence < outbox[h][i].number.sequence

recorded(r) == {p \in Payments : payment[p].pc = "RECORDED" /\ payment[p].invoice = r}

received(r) == SumFunction([p \in recorded(r) |-> payment[p].amount])

announcedBalance(r) ==
    LET sent == outbox[invoice[r].hotel] IN
    sent[CHOOSE i \in DOMAIN sent : sent[i].invoice = r].balance

(* recordPayment: 'The payment exceeds the outstanding balance.' What was  *)
(* recorded on an invoice whose handlers do not overlap never exceeds what *)
(* was announced as due, and the row has all of it.                        *)
PaymentsAddUp ==
    \A r \in issued \cap Queued :
        /\ recorded(r) # {} => received(r) <= announcedBalance(r)
        /\ invoice[r].paid = invoice[r].total - announcedBalance(r) + received(r)

(* void: 'Refund the payment before voiding this invoice.' recordPayment:  *)
(* 'A voided invoice cannot receive a payment.' A voided invoice stays     *)
(* void and has no money on it, if its handlers do not overlap.            *)
VoidIsFinal ==
    \A r \in issued \cap Queued :
        (\E v \in Voids : voiding[v].pc = "VOIDED" /\ voiding[v].invoice = r)
        => invoice[r].status = "VOID" /\ invoice[r].paid = 0
=============================================================================
