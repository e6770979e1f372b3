------------------------------ MODULE Pricing ------------------------------
(***************************************************************************)
(* pricing-service: PricingService with the rate plans of one room type    *)
(* and one promotion code, and the demand pricing it quotes from.          *)
(*                                                                         *)
(* Every await ends a step; a transaction is one step, and a read of a row *)
(* that nothing changes again belongs to the step before it. Days and      *)
(* money are naturals; the seasons and long-stay discounts of a plan, which*)
(* this service only stores, are left out.                                 *)
(***************************************************************************)
EXTENDS Contracts, FiniteSets, FiniteSetsExt, Sequences

CONSTANTS
    RateCards,          \* what a plan may say: [from, to, base, min, max]
    Plans,              \* the plans that may be inserted
    StayDays,           \* days a rate may be quoted on
    Promotions,         \* terms a promotion may be asked for with
    Spendings,          \* bookings a code may be checked for: [now, hotelId, room, nights, subtotal, currency]
    Redeemers,          \* bookings that may redeem the code
    Pricers,            \* handlers that run at once
    MaxPricingRequests, \* bound on requests: [q] of handlers that are quiet, or not
    NoPlan, NoBound, NoTerms

VARIABLES
    plan,            \* plan[p]: the row of rate_plans, or NoPlan
    planOutbox,      \* planOutbox[p]: how often RATE_PLAN_PUBLISHED was written
    terms,           \* the row of the promotion, or NoTerms
    redemptionCount, \* the column of the promotion
    redemption,      \* the bookings of promotion_redemptions
    pricer,          \* pricer[h]: the request handler h is at, and what it has read
    pricingRequests, \* requests begun so far
    quiet            \* do requests never overlap?

Amount == Nat \cup {NoBound}

RateCard == [from : Nat, to : Amount, base : Nat, min : Amount, max : Amount]

Promotion ==
    [type : {"PERCENTAGE", "FIXED_AMOUNT"}, value : Nat, currency : STRING \cup {NoBound},
     validFrom : Nat, validTo : Nat, hotelId : STRING \cup {NoBound}, roomTypeIds : SUBSET STRING,
     minNights : Nat, minSpend : Nat, maxRedemptions : Amount, maxPerCustomer : Nat]

Spending ==
    [now : Nat, hotelId : STRING, room : STRING, nights : Nat, subtotal : Nat, currency : STRING]

vars == <<plan, planOutbox, terms, redemptionCount, redemption, pricer,
          pricingRequests, quiet>>
plans == <<plan, planOutbox>>
promotion == <<terms, redemptionCount, redemption>>

Rests == [pc |-> "REST"]

Init ==
    /\ plan = [p \in Plans |-> NoPlan]
    /\ planOutbox = [p \in Plans |-> 0]
    /\ terms = NoTerms
    /\ redemptionCount = 0
    /\ redemption = {}
    /\ pricer = [h \in Pricers |-> Rests]
    /\ pricingRequests = 0
    /\ quiet \in BOOLEAN

begin(h, request) ==
    /\ pricer[h] = Rests
    /\ quiet => \A g \in Pricers : pricer[g] = Rests
    /\ pricingRequests < MaxPricingRequests[quiet]
    /\ pricingRequests' = pricingRequests + 1
    /\ pricer' = [pricer EXCEPT ![h] = request]

done(h) == pricer' = [pricer EXCEPT ![h] = Rests] /\ UNCHANGED pricingRequests

-----------------------------------------------------------------------------
(* Rate plans. *)

exists(p) == plan[p] # NoPlan

isLive(p) == exists(p) /\ plan[p].published

(* Mutant: floor and ceiling are not compared.                             *)
coherent_unchecked(card) == TRUE

coherent(card) == card.min # NoBound /\ card.max # NoBound => card.min <= card.max

(* One insert; two plans of a room type never start on one day.            *)
CreateRatePlan(h) ==
    /\ begin(h, Rests)
    /\ \E p \in Plans, card \in RateCards :
          /\ ~ exists(p)
          /\ coherent(card)
          /\ \A q \in Plans : exists(q) => plan[q].card.from # card.from
          /\ plan' = [plan EXCEPT ![p] = [card |-> card, published |-> FALSE]]
    /\ UNCHANGED <<planOutbox, promotion>>

ReadForPublish(h) ==
    /\ \E p \in Plans : exists(p) /\ ~ isLive(p) /\ begin(h, [pc |-> "PUBLISH", plan |-> p])
    /\ UNCHANGED <<plans, promotion>>

Publish(h) ==
    /\ pricer[h].pc = "PUBLISH"
    /\ plan' = [plan EXCEPT ![pricer[h].plan].published = TRUE]
    /\ planOutbox' = [planOutbox EXCEPT ![pricer[h].plan] = @ + 1]
    /\ done(h)
    /\ UNCHANGED promotion

inForce(p, on) ==
    isLive(p) /\ plan[p].card.from <= on /\ (plan[p].card.to = NoBound \/ plan[p].card.to >= on)

(* The most recently effective plan in force, if any.                      *)
activeRatePlan(on) ==
    {p \in Plans : inForce(p, on) /\ \A q \in Plans : inForce(q, on) =>
        plan[q].card.from <= plan[p].card.from}

(* dynamic-rate.ts. Occupancy in hundredths; the multipliers have the      *)
(* denominators 800, 100 and 20.                                           *)
occupancyMultiplier(occupancy) == IF occupancy <= 60 THEN 800 ELSE 800 + 7 * (occupancy - 60)

leadTimeMultiplier(days) ==
    CASE days <= 1 -> 85 [] days \in 2..3 -> 92 [] days \in 4..14 -> 100
      [] days \in 15..90 -> 103 [] OTHER -> 105

clamp(amount, card) ==
    LET raised == IF card.min = NoBound THEN amount ELSE Max({card.min, amount})
    IN IF card.max = NoBound THEN raised ELSE Min({card.max, raised})

applyDemandPricing(card, signal) ==
    clamp(multiplyMoney(card.base,
                        occupancyMultiplier(signal.occupancy) * leadTimeMultiplier(signal.lead)
                            * (IF signal.high THEN 23 ELSE 20),
                        800 * 100 * 20),
          card)

quoteNightlyRate(p, signal) == applyDemandPricing(plan[p].card, signal)

-----------------------------------------------------------------------------
(* The promotion. *)

(* Mutant: the limit of a percentage is forgotten.                         *)
mayPromote_anyPercentage(t) ==
    /\ t.type = "FIXED_AMOUNT" => t.currency # NoBound
    /\ t.validTo > t.validFrom

mayPromote(t) ==
    /\ t.type = "PERCENTAGE" => t.value <= 9000
    /\ t.type = "FIXED_AMOUNT" => t.currency # NoBound
    /\ t.validTo > t.validFrom

ReadForPromotion(h) ==
    /\ terms = NoTerms
    /\ \E t \in Promotions : mayPromote(t) /\ begin(h, [pc |-> "PROMOTE", terms |-> t])
    /\ UNCHANGED <<plans, promotion>>

(* A code inserted meanwhile is refused by its unique index.               *)
CreatePromotion(h) ==
    /\ pricer[h].pc = "PROMOTE"
    /\ terms' = IF terms = NoTerms THEN pricer[h].terms ELSE terms
    /\ done(h)
    /\ UNCHANGED <<plans, redemptionCount, redemption>>

(* promotion.ts: the reasons to refuse a code, the one that is tested first *)
(* being the one given. Nothing deactivates a code, so that is never it.   *)
REJECTIONS ==
    <<"NOT_YET_VALID", "EXPIRED", "WRONG_PROPERTY", "ROOM_TYPE_EXCLUDED", "STAY_TOO_SHORT",
      "SPEND_TOO_LOW", "FULLY_REDEEMED", "CUSTOMER_LIMIT_REACHED", "CURRENCY_MISMATCH">>

(* Does it refuse booking c of a customer who has used the code so often?  *)
refuses(reason, t, c, used) ==
    \/ reason = "NOT_YET_VALID" /\ c.now < t.validFrom
    \/ reason = "EXPIRED" /\ c.now > t.validTo
    \/ reason = "WRONG_PROPERTY" /\ t.hotelId # NoBound /\ t.hotelId # c.hotelId
    \/ reason = "ROOM_TYPE_EXCLUDED" /\ t.roomTypeIds # {} /\ c.room \notin t.roomTypeIds
    \/ reason = "STAY_TOO_SHORT" /\ c.nights < t.minNights
    \/ reason = "SPEND_TOO_LOW" /\ c.subtotal < t.minSpend
    \/ reason = "FULLY_REDEEMED" /\ t.maxRedemptions # NoBound /\ redemptionCount >= t.maxRedemptions
    \/ reason = "CUSTOMER_LIMIT_REACHED" /\ used >= t.maxPerCustomer
    \/ reason = "CURRENCY_MISMATCH" /\ t.type = "FIXED_AMOUNT" /\ t.currency # c.currency

rejections(t, c, used) == {i \in DOMAIN REJECTIONS : refuses(REJECTIONS[i], t, c, used)}

discountOf(t, c) ==
    IF t.type = "FIXED_AMOUNT" THEN Min({t.value, c.subtotal})
                               ELSE multiplyMoney(c.subtotal, t.value, 10000)

assessPromotion(t, c, used) ==
    LET refused == rejections(t, c, used)
    IN IF refused = {} THEN [applicable |-> TRUE, discount |-> discountOf(t, c)]
       ELSE [applicable |-> FALSE, rejection |-> REJECTIONS[Min(refused)], discount |-> 0]

(* Read-only: a code that is typed in is not yet used.                     *)
validatePromotion(c, used) == assessPromotion(terms, c, used)

ReadForRedeem(h) ==
    /\ terms # NoTerms
    /\ \E b \in Redeemers : b \notin redemption /\ begin(h, [pc |-> "REDEEM", booking |-> b])
    /\ UNCHANGED <<plans, promotion>>

(* A redemption inserted meanwhile takes the whole transaction back.       *)
countAfter(b) == IF b \in redemption THEN redemptionCount ELSE redemptionCount + 1

Redeem(h) ==
    /\ pricer[h].pc = "REDEEM"
    /\ redemptionCount' = countAfter(pricer[h].booking)
    /\ redemption' = redemption \cup {pricer[h].booking}
    /\ done(h)
    /\ UNCHANGED <<plans, terms>>

(* The process dies, or the database refuses a statement.                  *)
Crash(h) ==
    /\ pricer[h] # Rests
    /\ done(h)
    /\ UNCHANGED <<plans, promotion>>

Next ==
    /\ \E h \in Pricers :
          \/ CreateRatePlan(h) \/ ReadForPublish(h) \/ Publish(h)
          \/ ReadForPromotion(h) \/ CreatePromotion(h) \/ ReadForRedeem(h) \/ Redeem(h)
          \/ Crash(h)
    /\ UNCHANGED quiet

Spec == Init /\ [][Next]_vars

-----------------------------------------------------------------------------
(* Properties. *)

PlanRow == [card : RateCards, published : BOOLEAN]

(* Every variable stays in the set its columns allow.                      *)
TypeOK ==
    /\ plan \in [Plans -> PlanRow \cup {NoPlan}]
    /\ planOutbox \in [Plans -> Nat]
    /\ terms \in Promotions \cup {NoTerms}
    /\ redemption \subseteq Redeemers
    /\ pricingRequests \in 0 .. MaxPricingRequests[quiet]

(* publishRatePlan: "a plan can never be live without booking knowing". It *)
(* has been announced whatever overlaps; while requests do not, once.      *)
LiveIsAnnounced ==
    \A p \in Plans :
        /\ isLive(p) => planOutbox[p] > 0
        /\ quiet => planOutbox[p] <= 1

Signals == [occupancy : {0, 60, 61, 100}, lead : {0, 10, 91}, high : BOOLEAN]

(* applyDemandPricing: "an algorithm can never quote an absurd price". Of  *)
(* a plan that could be created and published, every quote lies between    *)
(* its floor and its ceiling, and the last rooms are never the cheaper.    *)
QuotesBounded ==
    \A on \in StayDays : \A p \in activeRatePlan(on) : \A s \in Signals :
        LET card == plan[p].card
            rate == quoteNightlyRate(p, s)
        IN /\ card.min # NoBound => card.min <= rate
           /\ card.max # NoBound => rate <= card.max
           /\ \A t \in Signals :
                 t.lead = s.lead /\ t.high = s.high /\ t.occupancy >= s.occupancy =>
                    quoteNightlyRate(p, t) >= rate

(* createPromotion: "cannot exceed 90%"; assessPromotion: a discount "can  *)
(* never exceed the bill". Under the terms the code was created with, it   *)
(* takes at most nine tenths by percentage and never more than the bill,   *)
(* nothing where it is refused; and the guest told that the stay is too    *)
(* short or the bill too small was told what to change: a longer or dearer *)
(* booking never gets less off.                                            *)
PromotionsBounded ==
    terms # NoTerms =>
    \A c \in Spendings, used \in 0 .. Cardinality(redemption) :
        LET given == validatePromotion(c, used)
        IN /\ given.discount \in 0 .. c.subtotal
           /\ terms.type = "PERCENTAGE" => 10 * given.discount <= 9 * c.subtotal + 5
           /\ \A b \in {b \in Spendings : /\ b.nights >= c.nights /\ b.subtotal >= c.subtotal
                                         /\ [b EXCEPT !.nights = c.nights,
                                                      !.subtotal = c.subtotal] = c} :
                 LET more == validatePromotion(b, used)
                 IN /\ given.applicable => more.applicable
                    /\ more.discount >= given.discount

(* What the service tells a guest to pay, of a room and with a code.       *)
PricesBounded == QuotesBounded /\ PromotionsBounded
=============================================================================
