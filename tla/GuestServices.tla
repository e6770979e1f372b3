---------------------------- MODULE GuestServices ----------------------------
(***************************************************************************)
(* The services around a guest's stay: accounts and sessions, hotels,      *)
(* prices, reviews, notifications, reports, the audit trail, the paged     *)
(* lists that all of them serve, and the realtime gateway. Each            *)
(* has a database of its own and none reads another's events, so they      *)
(* share no state: a behaviour is one of a single service while the others *)
(* have not started.                                                       *)
(***************************************************************************)
EXTENDS Sessions

CONSTANTS
    ReviewedStays, ScoreCards, FlagSets, Moderators, MaxReviewRequests, NoReview,
    Causes, Channels, Senders, MaxNoticeRequests, NoMessage, NoTemplate,
    RateCards, Plans, StayDays, Promotions, Spendings, Redeemers, Pricers,
    MaxPricingRequests, NoPlan, NoBound, NoTerms,
    HotelIds, Names, Joined, Facts, BranchCodes, Registrars, MaxHotelRequests, NoHotel,
    Nights, Performances, MonthOf, BookingFacts, CleaningFacts, NoNight, NoReport,
    Versions, IgnoredKeys, SecretKeys, MaxChanges, Null, REDACTED,
    Lists, Keys, PageSizes, MaxRows, MaxMoves, NotRead,
    Sockets, Principals, HotelsHeard, MaxJoined, NoHotelId, Nobody, Verifying

VARIABLES
    review, rating, reviewOutbox, moderator, reviewRequests, lost,
    message, preference, template, sender, noticeRequests, answered, asked,
    plan, planOutbox, terms, redemptionCount, redemption, pricer, pricingRequests,
    hotel, branch, hotelOutbox, registrar, hotelRequests,
    night, report,
    version, reported, trail, changed, clock,
    query, entry, moves, walk,
    principal, joined, emission,
    part \* whose behaviour this is

ReviewService == INSTANCE Reviews
NotificationService == INSTANCE Notifications
PricingService == INSTANCE Pricing
HotelService == INSTANCE Hotels
ReportingService == INSTANCE Reporting
AuditService == INSTANCE AuditTrail
PagedLists == INSTANCE Listings
RealtimeGateway == INSTANCE Realtime

(* What stands for a missing row or principal is none, nor is what covers  *)
(* every template one of them, and tables are finite.                      *)
ASSUME GuestAssumption ==
    /\ NoReview \notin ReviewService!ReviewRow
    /\ NoPlan \notin PricingService!PlanRow
    /\ NoHotel \notin HotelService!HotelRow
    /\ IsFiniteSet(HotelIds)
    /\ Nobody \notin Principals
    /\ NoMessage \notin NotificationService!MessageRow
    /\ NotificationService!Everything \notin NotificationService!Templates
    /\ "IN_APP" \in Channels /\ \A e \in DOMAIN Causes : Causes[e].preferred \in Seq(Channels)

(* What the schemas of rate plans, promotions and bookings allow, and what *)
(* stands for an absent bound or an absent promotion is none.              *)
ASSUME PricesAssumption ==
    /\ NoBound \notin Nat /\ NoTerms \notin Promotions
    /\ RateCards \subseteq PricingService!RateCard
    /\ Promotions \subseteq PricingService!Promotion
    /\ Spendings \subseteq PricingService!Spending

(* A rating is of finitely many stays, the schema of a review asks for one *)
(* to five in a category at least, and the bounds of the model are numbers.*)
ASSUME RowsAssumption ==
    /\ IsFiniteSet(ReviewedStays)
    /\ \A card \in ScoreCards :
          IsFiniteSet(DOMAIN card) /\ DOMAIN card # {} /\ card \in [DOMAIN card -> 1 .. 5]
    /\ MaxReviewRequests \in [BOOLEAN -> Nat] /\ MaxNoticeRequests \in [BOOLEAN -> Nat]
    /\ MaxPricingRequests \in [BOOLEAN -> Nat] /\ MaxHotelRequests \in [BOOLEAN -> Nat]

authVars == <<account, identityOutbox, session, token, cookie, call, calls, streak>>
reviewVars == <<review, rating, reviewOutbox, moderator, reviewRequests, lost>>
noticeVars == <<message, preference, template, sender, noticeRequests, answered, asked>>
pricingVars ==
    <<plan, planOutbox, terms, redemptionCount, redemption, pricer, pricingRequests>>
hotelVars == <<hotel, branch, hotelOutbox, registrar, hotelRequests>>
reportVars == <<night, report>>
readVars == <<version, reported, trail, changed, clock, query, entry, moves, walk>>
socketVars == <<principal, joined, emission>>
guestVars ==
    <<authVars, reviewVars, noticeVars, pricingVars, hotelVars, reportVars, readVars, socketVars, quiet, part>>

Parts ==
    {"AUTH", "REVIEWS", "NOTIFICATIONS", "PRICING", "HOTELS", "REPORTS", "AUDIT", "LISTS", "REALTIME"}

GuestInit ==
    /\ part \in Parts
    /\ Init
    /\ part \in {"REPORTS", "AUDIT", "LISTS", "REALTIME"} => ~ quiet
    /\ ReviewService!Init
    /\ NotificationService!Init
    /\ part # "NOTIFICATIONS" => \A k \in DOMAIN template : template[k] = NoTemplate
    /\ PricingService!Init
    /\ HotelService!Init
    /\ ReportingService!Init
    /\ AuditService!Init
    /\ PagedLists!Init
    /\ part # "LISTS" => query = CHOOSE q \in PagedLists!queries : TRUE
    /\ RealtimeGateway!Init

auth ==
    /\ part = "AUTH"
    /\ Next
    /\ UNCHANGED <<reviewVars, noticeVars, pricingVars, hotelVars, reportVars, readVars, socketVars>>

reviews ==
    /\ part = "REVIEWS"
    /\ ReviewService!Next
    /\ UNCHANGED <<authVars, noticeVars, pricingVars, hotelVars, reportVars, readVars, socketVars>>

notifications ==
    /\ part = "NOTIFICATIONS"
    /\ NotificationService!Next
    /\ UNCHANGED <<authVars, reviewVars, pricingVars, hotelVars, reportVars, readVars, socketVars>>

pricing ==
    /\ part = "PRICING"
    /\ PricingService!Next
    /\ UNCHANGED <<authVars, reviewVars, noticeVars, hotelVars, reportVars, readVars, socketVars>>

hotels ==
    /\ part = "HOTELS"
    /\ HotelService!Next
    /\ UNCHANGED <<authVars, reviewVars, noticeVars, pricingVars, reportVars, readVars, socketVars>>

reports ==
    /\ part = "REPORTS"
    /\ ReportingService!Next
    /\ UNCHANGED <<authVars, reviewVars, noticeVars, pricingVars, hotelVars, readVars, socketVars,
                   quiet>>

auditing ==
    /\ part = "AUDIT"
    /\ AuditService!Next
    /\ UNCHANGED <<authVars, reviewVars, noticeVars, pricingVars, hotelVars, reportVars,
                   query, entry, moves, walk, socketVars, quiet>>

lists ==
    /\ part = "LISTS"
    /\ PagedLists!Next
    /\ UNCHANGED <<authVars, reviewVars, noticeVars, pricingVars, hotelVars, reportVars,
                   version, reported, trail, changed, clock, socketVars, quiet>>

realtime ==
    /\ part = "REALTIME"
    /\ RealtimeGateway!Next
    /\ UNCHANGED <<authVars, reviewVars, noticeVars, pricingVars, hotelVars, reportVars, readVars,
                   quiet>>

GuestNext ==
    /\ auth \/ reviews \/ notifications \/ pricing \/ hotels \/ reports \/ auditing \/ lists \/ realtime
    /\ UNCHANGED part

GuestSpec == GuestInit /\ [][GuestNext]_guestVars

-----------------------------------------------------------------------------
(* The properties of the services, each argued in its module.              *)

(* Every variable of every service stays in the set its columns allow.     *)
GuestTypeOK ==
    /\ TypeOK
    /\ ReviewService!TypeOK
    /\ NotificationService!TypeOK
    /\ PricingService!TypeOK
    /\ HotelService!TypeOK
    /\ ReportingService!TypeOK
    /\ RealtimeGateway!TypeOK

(* Reviews: without overlap the stored rating is that of what is published.*)
QuietRatingCurrent == ReviewService!QuietRatingCurrent

(* Reviews, rate plans and hotels: what the public sees has been announced,*)
(* and without overlap it is announced when it enters and then only.       *)
EntryIsAnnounced ==
    /\ ReviewService!EntryIsAnnounced
    /\ [](PricingService!LiveIsAnnounced /\ HotelService!LiveIsAnnounced)

(* Notifications: an answered send has accounted for every channel.        *)
AnsweredIsRecorded == NotificationService!AnsweredIsRecorded

(* Notifications: an optional message the guest refused is withheld, and   *)
(* any other only for want of an address; unless he changed his mind about *)
(* a whole channel.                                                        *)
QuietOptOutHolds == NotificationService!QuietOptOutHolds

(* Pricing: quotes lie between floor and ceiling, and no code takes more   *)
(* than the bill or less off a longer stay.                                *)
PricesBounded == PricingService!PricesBounded

(* Reports, lists and the audit trail: what is read later is what was      *)
(* written. The points of a trend add up, rates multiply back and a        *)
(* comparison is with the nights just before; a walk over the pages of a   *)
(* list meets every row; and a record's history tells what it is now, but  *)
(* no secret that the walk of its versions came to.                        *)
ReadsAreTrue ==
    /\ ReportingService!FiguresHold
    /\ PagedLists!WalkMeetsAll
    /\ AuditService!HistoryTells
    /\ AuditService!SecretsAreKept

(* Realtime: events are heard by those who may hear them.                  *)
ScopedDelivery == RealtimeGateway!ScopedDelivery
=============================================================================
