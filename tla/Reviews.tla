------------------------------ MODULE Reviews ------------------------------
(***************************************************************************)
(* review-service: ReviewService.create, moderateReview, respond and the   *)
(* recomputation of a hotel's rating, run by handlers that share one       *)
(* database.                                                               *)
(*                                                                         *)
(* Every await ends a step; a transaction is one step, and the rating is   *)
(* recomputed in two more after it. One hotel; its reviews are identified  *)
(* by their stay. Ratings are counted in tenths. The text of a review is   *)
(* the set of flags the screening raises on it.                            *)
(***************************************************************************)
EXTENDS Integers, FiniteSets, FiniteSetsExt

CONSTANTS
    ReviewedStays,     \* stays a guest may review
    ScoreCards,        \* what a guest may score: functions from categories to 1 .. 5
    FlagSets,          \* what the screening may raise
    Moderators,        \* handlers that run at once
    MaxReviewRequests, \* bound on requests: [q] of handlers that are quiet, or not
    NoReview

VARIABLES
    review,         \* review[s]: the row of the reviews table, or NoReview
    rating,         \* the row of hotel_ratings
    reviewOutbox,   \* reviewOutbox[s]: how often REVIEW_PUBLISHED was written
    moderator,      \* moderator[h]: the request handler h is at, and what it has read
    reviewRequests, \* requests begun so far
    lost,           \* has a handler died between its commit and the rating?
    quiet           \* do requests never overlap?

vars == <<review, rating, reviewOutbox, moderator, reviewRequests, lost, quiet>>

AtRest == [pc |-> "REST"]

-----------------------------------------------------------------------------
(* contracts/domain/review.ts and aggregation.ts *)

(* Math.round of a quotient of naturals.                                   *)
rounded(a, b) == (2 * a + b) \div (2 * b)

(* Mutant: the scores are added up and not divided.                        *)
overallRating_sum(scores) == 10 * MapThenSumSet(LAMBDA c : scores[c], DOMAIN scores)

overallRating(scores) ==
    rounded(10 * MapThenSumSet(LAMBDA c : scores[c], DOMAIN scores), Cardinality(DOMAIN scores))

EMPTY_AGGREGATE ==
    [reviewCount |-> 0, overallRating |-> 0, categoryAverages |-> <<>>,
     distribution |-> [star \in 1..5 |-> 0]]

star(overall) ==
    LET nearest == rounded(overall, 10) IN IF nearest > 5 THEN 5 ELSE IF nearest < 1 THEN 1 ELSE nearest

(* rows: a function whose values are reviews.                              *)
aggregateRatings(rows) ==
    LET n         == Cardinality(DOMAIN rows)
        scored(c) == {s \in DOMAIN rows : c \in DOMAIN rows[s].scores}
    IN IF n = 0 THEN EMPTY_AGGREGATE
       ELSE [reviewCount |-> n,
             overallRating |->
                rounded(MapThenSumSet(LAMBDA s : rows[s].overallRating, DOMAIN rows), n),
             categoryAverages |->
                [c \in UNION {DOMAIN rows[s].scores : s \in DOMAIN rows} |->
                   rounded(10 * MapThenSumSet(LAMBDA s : rows[s].scores[c], scored(c)),
                           Cardinality(scored(c)))],
             distribution |->
                [k \in 1..5 |->
                   Cardinality({s \in DOMAIN rows : star(rows[s].overallRating) = k})]]

-----------------------------------------------------------------------------
Init ==
    /\ review = [s \in ReviewedStays |-> NoReview]
    /\ rating = EMPTY_AGGREGATE
    /\ reviewOutbox = [s \in ReviewedStays |-> 0]
    /\ moderator = [h \in Moderators |-> AtRest]
    /\ reviewRequests = 0
    /\ lost = FALSE
    /\ quiet \in BOOLEAN

exists(s) == review[s] # NoReview

isPublished(s) == exists(s) /\ review[s].status = "PUBLISHED"

published == {s \in ReviewedStays : isPublished(s)}

(* What is selected of them to compute the rating from.                    *)
publishedRatings ==
    [s \in published |-> [overallRating |-> review[s].overallRating, scores |-> review[s].scores]]

begin(h, request) ==
    /\ moderator[h] = AtRest
    /\ quiet => \A m \in Moderators : moderator[m] = AtRest
    /\ reviewRequests < MaxReviewRequests[quiet]
    /\ reviewRequests' = reviewRequests + 1
    /\ moderator' = [moderator EXCEPT ![h] = request]

(* moderation.ts: some flags reject, the others hold for a person.         *)
moderate(flags) ==
    IF flags \cap {"PROFANITY", "CONTAINS_URL", "CONTAINS_CONTACT_DETAILS"} # {} THEN "REJECTED"
    ELSE IF flags # {} THEN "PENDING_MODERATION"
    ELSE "PUBLISHED"

ReadForCreate(h) ==
    /\ \E s \in ReviewedStays, scores \in ScoreCards, flags \in FlagSets :
          /\ ~ exists(s)
          /\ begin(h, [pc |-> "CREATE", stay |-> s, scores |-> scores, status |-> moderate(flags)])
    /\ UNCHANGED <<review, rating, reviewOutbox, lost>>

(* After the commit: recompute the rating, or be done.                     *)
thenRecompute(h, changed) ==
    moderator' = [moderator EXCEPT ![h] = IF changed THEN [pc |-> "RECOMPUTE"] ELSE AtRest]

publishReviewEvent(s, entering) ==
    reviewOutbox' = [reviewOutbox EXCEPT ![s] = @ + (IF entering THEN 1 ELSE 0)]

(* The unique index on stayId refuses the second of two.                   *)
Create(h) ==
    /\ moderator[h].pc = "CREATE"
    /\ LET s == moderator[h].stay
           status == moderator[h].status
       IN IF exists(s)
          THEN thenRecompute(h, FALSE) /\ UNCHANGED <<review, reviewOutbox>>
          ELSE /\ review' = [review EXCEPT ![s] =
                    [status |-> status, scores |-> moderator[h].scores,
                     overallRating |-> overallRating(moderator[h].scores), answered |-> FALSE]]
               /\ publishReviewEvent(s, status = "PUBLISHED")
               /\ thenRecompute(h, status = "PUBLISHED")
    /\ UNCHANGED <<rating, reviewRequests, lost>>

ReadForModerate(h) ==
    /\ \E s \in ReviewedStays, status \in {"PUBLISHED", "REJECTED", "HIDDEN"} :
          /\ exists(s)
          /\ begin(h, [pc |-> "MODERATE", stay |-> s, status |-> status,
                       wasPublished |-> isPublished(s)])
    /\ UNCHANGED <<review, rating, reviewOutbox, lost>>

(* Mutant: the rating is recomputed only when a review enters publication. *)
aggregateChanges_entering(wasPublished, status) == ~ wasPublished /\ status = "PUBLISHED"

aggregateChanges(wasPublished, status) == wasPublished # (status = "PUBLISHED")

(* Mutant: every decision to publish is announced.                         *)
announces_always(wasPublished, status) == status = "PUBLISHED"

announces(wasPublished, status) == status = "PUBLISHED" /\ ~ wasPublished

Moderate(h) ==
    /\ moderator[h].pc = "MODERATE"
    /\ LET s == moderator[h].stay
           status == moderator[h].status
           wasPublished == moderator[h].wasPublished
       IN /\ review' = [review EXCEPT ![s].status = status]
          /\ publishReviewEvent(s, announces(wasPublished, status))
          /\ thenRecompute(h, aggregateChanges(wasPublished, status))
    /\ UNCHANGED <<rating, reviewRequests, lost>>

ReadForRespond(h) ==
    /\ \E s \in ReviewedStays :
          /\ isPublished(s)
          /\ begin(h, [pc |-> "RESPOND", stay |-> s])
    /\ UNCHANGED <<review, rating, reviewOutbox, lost>>

Respond(h) ==
    /\ moderator[h].pc = "RESPOND"
    /\ review' = [review EXCEPT ![moderator[h].stay].answered = TRUE]
    /\ moderator' = [moderator EXCEPT ![h] = AtRest]
    /\ UNCHANGED <<rating, reviewOutbox, reviewRequests, lost>>

(* recomputeRating reads the published reviews ...                         *)
ReadPublished(h) ==
    /\ moderator[h].pc = "RECOMPUTE"
    /\ moderator' = [moderator EXCEPT ![h] =
          [pc |-> "UPSERT", aggregate |-> aggregateRatings(publishedRatings)]]
    /\ UNCHANGED <<review, rating, reviewOutbox, reviewRequests, lost>>

(* ... and writes what it made of them.                                    *)
UpsertRating(h) ==
    /\ moderator[h].pc = "UPSERT"
    /\ rating' = moderator[h].aggregate
    /\ moderator' = [moderator EXCEPT ![h] = AtRest]
    /\ UNCHANGED <<review, reviewOutbox, reviewRequests, lost>>

(* The process dies, or the database refuses a statement.                  *)
Crash(h) ==
    /\ moderator[h] # AtRest
    /\ lost' = (lost \/ moderator[h].pc \in {"RECOMPUTE", "UPSERT"})
    /\ moderator' = [moderator EXCEPT ![h] = AtRest]
    /\ UNCHANGED <<review, rating, reviewOutbox, reviewRequests>>

create(h) == ReadForCreate(h) \/ Create(h)
moderateReview(h) == ReadForModerate(h) \/ Moderate(h)
respond(h) == ReadForRespond(h) \/ Respond(h)
recomputeRating(h) == ReadPublished(h) \/ UpsertRating(h)

Next ==
    /\ \E h \in Moderators :
          \/ create(h) \/ moderateReview(h) \/ respond(h) \/ recomputeRating(h) \/ Crash(h)
    /\ UNCHANGED quiet

Spec == Init /\ [][Next]_vars

-----------------------------------------------------------------------------
(* Properties. *)

ReviewStatus == {"PENDING_MODERATION", "PUBLISHED", "REJECTED", "HIDDEN"}

ReviewRow ==
    [status : ReviewStatus, scores : ScoreCards, overallRating : {overallRating(c) : c \in ScoreCards},
     answered : BOOLEAN]

(* Every variable stays in the set its columns allow.                      *)
TypeOK ==
    /\ review \in [ReviewedStays -> ReviewRow \cup {NoReview}]
    /\ \A s \in ReviewedStays : exists(s) => review[s].overallRating \in 10 .. 50
    /\ rating.reviewCount \in 0 .. Cardinality(ReviewedStays)
    /\ reviewOutbox \in [ReviewedStays -> Nat]
    /\ reviewRequests \in 0 .. MaxReviewRequests[quiet]

allAtRest == \A h \in Moderators : moderator[h] = AtRest

ratingIsCurrent == rating = aggregateRatings(publishedRatings)

(* HotelRating: "Rolling aggregate per property, recomputed when a review  *)
(* is published or hidden". When requests do not overlap and none died on  *)
(* its way to the rating, the stored rating is that of the published       *)
(* reviews, whatever decisions follow each other.                          *)
QuietRatingCurrent == quiet /\ allAtRest /\ ~ lost => ratingIsCurrent

(* REVIEW_PUBLISHED is written with the row: a review that is on the page  *)
(* has been announced whatever overlaps, and one whose requests do not     *)
(* overlap is announced when it enters publication and then only.          *)
EntryIsAnnounced ==
    /\ [][quiet => \A s \in ReviewedStays :
             reviewOutbox'[s] - reviewOutbox[s] =
                IF isPublished(s)' /\ ~ isPublished(s) THEN 1 ELSE 0]_vars
    /\ [](\A s \in published : reviewOutbox[s] > 0)
=============================================================================
