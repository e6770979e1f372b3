------------------------------- MODULE Bills -------------------------------
(***************************************************************************)
(* What a guest is told to pay, twice: booking-service quotes a stay       *)
(* (domain/quote.ts, over the nights of date-range.ts) with the promotion  *)
(* its signature accepts, and finance-service totals an invoice (tax.ts).  *)
(*                                                                         *)
(* Amounts are integers in minor units; a line of an invoice may be a      *)
(* credit, below zero. Taxes are in basis points, discounts and the        *)
(* weekend multiplier in hundredths. The code divides in floating point    *)
(* and then rounds; here the division is exact. Days are numbered from a   *)
(* Monday.                                                                 *)
(***************************************************************************)
EXTENDS Contracts, Sequences, SequencesExt

CONSTANTS
    Lines,         \* invoices to total: sequences of [amount \in Int, taxable]
    Discounts,     \* discountMinor, in Nat
    Components,    \* taxComponents: sequences of [basisPoints \in 0 .. 10000, exclusive]
    RatePlans,     \* [base, weekend, seasons, tiers, taxBasisPoints]
    StayRanges,    \* [checkIn, checkOut], in days
    PromotionsOff, \* promotionPercentOff; the service itself gives none
    NotAsked, NotComputed

VARIABLES
    dto,         \* the lines, the discount and the tax components of an invoice
    totals,      \* what is written on it
    stayRequest, \* what a price is asked for
    quote        \* what the guest is quoted

invoices == [lines : Lines, discount : Discounts, components : Components]

stays == [plan : RatePlans, range : StayRanges, promotion : PromotionsOff]

(* Either an invoice is to be totalled, or a price is asked for.           *)
Init ==
    /\ totals = NotComputed
    /\ quote = NotComputed
    /\ \/ dto \in invoices /\ stayRequest = NotAsked
       \/ dto = NotAsked /\ stayRequest \in stays

-----------------------------------------------------------------------------
(* Invoices. *)

(* Math.round(n / d): to the nearest integer, halves upwards.              *)
round(n, d) == (2 * n + d) \div (2 * d)

sum(amounts) == FoldSeq(+, 0, amounts)

amountsOf(lines) == [i \in DOMAIN lines |-> lines[i].amount]

taxableBase(lines) == sum(amountsOf(SelectSeq(lines, LAMBDA l : l.taxable)))

taxOn(base, component) ==
    IF component.exclusive
    THEN round(base * component.basisPoints, 10000)
    ELSE round(base * component.basisPoints, 10000 + component.basisPoints)

taxLines(base, components) == [i \in DOMAIN components |-> taxOn(base, components[i])]

capped(discount, subtotal) == IF discount <= subtotal THEN discount ELSE subtotal

(* Mutant: the discount is left for after the tax.                         *)
discounted_not(lines, discount, subtotal) == lines

(* The discount is spread over the lines in proportion to their amounts.   *)
(* One capped at a subtotal below zero is all of it, as any that reaches   *)
(* the subtotal, and leaves nothing of a line.                             *)
discounted(lines, discount, subtotal) ==
    [i \in DOMAIN lines |->
        [lines[i] EXCEPT !.amount =
            CASE subtotal = 0 -> @
              [] subtotal # 0 /\ discount = subtotal -> 0
              [] subtotal # 0 /\ discount # subtotal -> round(@ * (subtotal - discount), subtotal)]]

computeInvoiceTotals(d) ==
    LET subtotal == sum(amountsOf(d.lines))
        discount == capped(d.discount, subtotal)
        base     == taxableBase(discounted(d.lines, discount, subtotal))
        taxes    == taxLines(base, d.components)
    IN  [subtotal |-> subtotal, discount |-> discount, base |-> base, taxLines |-> taxes,
         tax |-> sum(taxes), total |-> subtotal - discount + sum(taxes)]

Compute ==
    /\ dto # NotAsked
    /\ totals = NotComputed
    /\ totals' = computeInvoiceTotals(dto)
    /\ UNCHANGED <<dto, stayRequest, quote>>

-----------------------------------------------------------------------------
(* Quotes. *)

(* Mutant: the day of departure is charged as a night.                     *)
eachNight_closed(range) ==
    [i \in 1 .. range.checkOut - range.checkIn + 1 |-> range.checkIn + i - 1]

(* The nights of [checkIn, checkOut): the day of departure is not one.     *)
eachNight(range) == [i \in 1 .. range.checkOut - range.checkIn |-> range.checkIn + i - 1]

(* Friday and Saturday.                                                    *)
isWeekendNight(day) == day % 7 \in {4, 5}

(* The seasons that include a day, as they were declared.                  *)
seasonsOn(plan, day) == SelectSeq(plan.seasons, LAMBDA s : s.from <= day /\ day <= s.to)

charge(plan, day) ==
    IF seasonsOn(plan, day) # <<>>
    THEN [kind |-> "SEASONAL", amount |-> seasonsOn(plan, day)[1].rate]
    ELSE IF isWeekendNight(day)
    THEN [kind |-> "WEEKEND", amount |-> multiplyMoney(plan.base, plan.weekend, 100)]
    ELSE [kind |-> "BASE", amount |-> plan.base]

nightlyCharges(plan, range) ==
    LET nights == eachNight(range) IN [i \in DOMAIN nights |-> charge(plan, nights[i])]

sumMoney(charges) == sum(amountsOf(charges))

(* Of the tiers a stay is long enough for, the longest, declared first.    *)
resolveLongStayDiscount(tiers, nights) ==
    LET qualifying == SelectSeq(tiers, LAMBDA t : nights >= t.minNights)
        longest    == {i \in DOMAIN qualifying : \A j \in DOMAIN qualifying :
                          /\ qualifying[j].minNights <= qualifying[i].minNights
                          /\ j < i => qualifying[j].minNights < qualifying[i].minNights}
    IN IF longest = {} THEN 0 ELSE qualifying[CHOOSE i \in longest : TRUE].percentOff

atMostNinety(percent) == IF percent <= 90 THEN percent ELSE 90

quoteStay(plan, range, promotion) ==
    LET nightly  == nightlyCharges(plan, range)
        subtotal == sumMoney(nightly)
        percent  == atMostNinety(resolveLongStayDiscount(plan.tiers, Len(nightly)) + promotion)
        discount == multiplyMoney(subtotal, percent, 100)
        tax      == multiplyMoney(subtotal - discount, plan.taxBasisPoints, 10000)
    IN [nightly |-> nightly, subtotal |-> subtotal, discount |-> discount,
        taxable |-> subtotal - discount, tax |-> tax, total |-> subtotal - discount + tax]

Quote ==
    /\ stayRequest # NotAsked
    /\ quote = NotComputed
    /\ quote' = quoteStay(stayRequest.plan, stayRequest.range, stayRequest.promotion)
    /\ UNCHANGED <<stayRequest, dto, totals>>

Next == Compute \/ Quote

vars == <<dto, totals, stayRequest, quote>>

Spec == Init /\ [][Next]_vars

-----------------------------------------------------------------------------
(* Properties. *)

computed == totals # NotComputed

(* computeInvoiceTotals: the discount is capped at the subtotal. It never  *)
(* takes the price below zero, and a guest who was given everything pays   *)
(* nothing. Of the title of tax.spec.ts, "so the total never goes          *)
(* negative", this much holds: a total is below zero only where credits    *)
(* are, and then only by the tax they give back.                           *)
TotalNeverNegative ==
    computed =>
        /\ totals.discount <= totals.subtotal
        /\ totals.base >= 0 => totals.tax >= 0 /\ totals.total >= 0
        /\ totals.total < 0 => \E i \in DOMAIN dto.lines : dto.lines[i].taxable /\ dto.lines[i].amount < 0
        /\ totals.discount = totals.subtotal /\ totals.subtotal # 0 => totals.total = 0

(* computeInvoiceTotals: "a guest is not taxed on money they did not pay". *)
(* The base of the tax is the taxable share of the net price, up to half a *)
(* minor unit for each line.                                               *)
DiscountBeforeTax ==
    computed /\ totals.subtotal > 0 =>
        LET net   == totals.subtotal - totals.discount
            error == totals.base * totals.subtotal - taxableBase(dto.lines) * net
            bound == Len(dto.lines) * totals.subtotal
        IN  2 * error <= bound /\ - 2 * error <= bound

(* computeTax: "an inclusive tax is already inside it and must be          *)
(* extracted". What is left of the price after extraction, taxed at the    *)
(* rate, gives the extracted amount, up to the rounding of one component.  *)
InclusiveExtracted ==
    computed => \A i \in DOMAIN dto.components : ~ dto.components[i].exclusive =>
        LET rate  == dto.components[i].basisPoints
            tax   == totals.taxLines[i]
            error == tax * 10000 - (totals.base - tax) * rate
        IN  2 * error <= 10000 + rate /\ - 2 * error <= 10000 + rate

(* computeTax: "Each component is computed on the same base, not           *)
(* compounded on the previous one". On a bill of exclusive taxes alone a   *)
(* guest pays the net price and each tax once on its taxable share, up to  *)
(* half a unit for each tax and the tax on half a unit for each line. A    *)
(* bill with an inclusive tax totals more: see InclusiveNotAddedAgain.     *)
ExclusiveAddedOnce ==
    computed /\ totals.subtotal > 0 /\ (\A i \in DOMAIN dto.components : dto.components[i].exclusive) =>
        LET net   == totals.subtotal - totals.discount
            rates == sum([i \in DOMAIN dto.components |-> dto.components[i].basisPoints])
            due   == 10000 * net * totals.subtotal + taxableBase(dto.lines) * net * rates
            error == 10000 * totals.total * totals.subtotal - due
            bound == (10000 * Len(dto.components) + rates * Len(dto.lines)) * totals.subtotal
        IN  2 * error <= bound /\ - 2 * error <= bound

(* computeTax: "an inclusive tax is already inside it and must be          *)
(* extracted, not added again. Treating an inclusive tax as exclusive      *)
(* overcharges every guest". A bill with inclusive taxes alone totals the  *)
(* net price. The code adds what it has extracted.                         *)
InclusiveNotAddedAgain ==
    computed /\ (\A i \in DOMAIN dto.components : ~ dto.components[i].exclusive) =>
        totals.total = totals.subtotal - totals.discount

(* What holds of a bill: the discount, each tax computed on the net price, *)
(* and the total where the taxes are exclusive ones.                       *)
TotalsAreRight ==
    TotalNeverNegative /\ DiscountBeforeTax /\ InclusiveExtracted /\ ExclusiveAddedOnce

(* quoteStay: "per-night pricing is what lets a stay straddle a season     *)
(* boundary or a weekend and still be billed correctly": a stay costs what *)
(* the two stays cost that it divides into on any day, the night of that   *)
(* day being charged once, and the empty stay costs nothing.               *)
NightsChargedOnce ==
    \A day \in stayRequest.range.checkIn .. stayRequest.range.checkOut :
        nightlyCharges(stayRequest.plan, [stayRequest.range EXCEPT !.checkOut = day])
            \o nightlyCharges(stayRequest.plan, [stayRequest.range EXCEPT !.checkIn = day])
        = quote.nightly

(* quote.spec.ts: "picks the most generous qualifying tier regardless of   *)
(* declaration order", "caps stacked discounts at 90% so a folio can never *)
(* go negative". The quote is the same with the tiers declared backwards,  *)
(* and a night more costs the guest less only if it earns a longer tier.   *)
DiscountsInOrder ==
    LET plan   == stayRequest.plan
        range  == stayRequest.range
        nights == Len(quote.nightly)
        sooner == quoteStay(plan, [range EXCEPT !.checkOut = @ - 1], stayRequest.promotion)
    IN /\ quoteStay([plan EXCEPT !.tiers = Reverse(@)], range, stayRequest.promotion) = quote
       /\ quote.total >= 0 /\ 10 * quote.discount <= 9 * quote.subtotal + 5
       /\ nights > 0 /\ resolveLongStayDiscount(plan.tiers, nights)
                          = resolveLongStayDiscount(plan.tiers, nights - 1) =>
             sooner.total <= quote.total

(* What the guest is quoted: each night once, less the discounts.          *)
QuoteIsRight == quote # NotComputed => NightsChargedOnce /\ DiscountsInOrder
=============================================================================
