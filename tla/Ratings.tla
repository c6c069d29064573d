------------------------------- MODULE Ratings -------------------------------
(***************************************************************************)
(* profiles-service: a completed trip makes its driver and its confirmed   *)
(* passengers eligible to rate each other; a rating and its sum in the     *)
(* rated user's aggregate are written in one transaction; an administrator *)
(* deletes ratings. Transactions run side by side at READ COMMITTED: a row *)
(* inserted or locked by one makes another wait that needs it.             *)
(***************************************************************************)
EXTENDS Integers, FiniteSets, FiniteSetsExt

CONSTANTS
  RatedTrips,
  Driver,         \* the driver of a trip
  Confirmed,      \* confirmedBookings of the trip's trip.completed
  Users,
  Scores,
  Raters,         \* POST /ratings under way
  Moderators,     \* DELETE /admin/ratings/:id under way
  NoRating

Roles == {"DRIVER_RATES_PASSENGER", "PASSENGER_RATES_DRIVER"}

\* The unique index of ratings: the rows there can be.
RatingKeys == [trip : RatedTrips, rater : Users, role : Roles]

ASSUME TripsAssumption ==
  Driver \in [RatedTrips -> Users] /\ Confirmed \in [RatedTrips -> SUBSET Users]
ASSUME ScoresAssumption == Scores \subseteq Nat /\ IsFiniteSet(Scores)
ASSUME NoRatingAssumption == NoRating \notin RatingKeys

VARIABLES
  eligible,    \* rating_eligibilities, as <<trip, passenger>>
  windowOpen,  \* RATING_WINDOW_DAYS since the trip was completed are not over
  rating,      \* ratings: status ("NONE" if there is no row), rated user, score
  aggregate,   \* rating_aggregates: whether the row exists, count, sum
  rater,       \* what each request has done
  moderator    \* the rating each deletion has locked

ratingVars == <<eligible, windowOpen, rating, aggregate, rater, moderator>>

IdleRater == [at |-> "idle", key |-> NoRating, rated |-> NoRating, score |-> 0,
              count |-> 0, sum |-> 0]

\* No rating counts twice: counts and sums stay below these.
MaxCount == Cardinality(RatingKeys)
MaxSum == MaxCount * Max(Scores)

RatingsTypeOK ==
  /\ eligible \subseteq RatedTrips \X Users
  /\ windowOpen \in [RatedTrips -> BOOLEAN]
  /\ rating \in [RatingKeys ->
       [status : {"NONE", "ACTIVE", "DELETED"}, rated : Users \cup {NoRating},
        score : Scores \cup {0}]]
  /\ aggregate \in [Users -> [exists : BOOLEAN, count : 0 .. MaxCount, sum : 0 .. MaxSum]]
  /\ rater \in [Raters ->
       [at : {"idle", "eligible", "inserted", "locked", "absent", "refused"},
        key : RatingKeys \cup {NoRating}, rated : Users \cup {NoRating},
        score : Scores \cup {0}, count : 0 .. MaxCount, sum : 0 .. MaxSum]]
  /\ moderator \in [Moderators -> RatingKeys \cup {NoRating}]

RatingsInit ==
  /\ eligible = {}
  /\ windowOpen = [t \in RatedTrips |-> TRUE]
  /\ rating = [k \in RatingKeys |-> [status |-> "NONE", rated |-> NoRating, score |-> 0]]
  /\ aggregate = [u \in Users |-> [exists |-> FALSE, count |-> 0, sum |-> 0]]
  /\ rater = [p \in Raters |-> IdleRater]
  /\ moderator = [d \in Moderators |-> NoRating]

-----------------------------------------------------------------------------
(* Eligibility                                                             *)

\* OnTripCompletedHandler: a row for each passenger whose booking was confirmed.
Eligibilities(t) == {t} \X Confirmed[t]

\* trip.completed, any number of times: rows that exist are left alone.
ConsumesTripCompleted(t) ==
  /\ eligible' = eligible \cup Eligibilities(t)
  /\ eligible' # eligible
  /\ UNCHANGED <<windowOpen, rating, aggregate, rater, moderator>>

WindowCloses(t) ==
  /\ windowOpen[t]
  /\ windowOpen' = [windowOpen EXCEPT ![t] = FALSE]
  /\ UNCHANGED <<eligible, rating, aggregate, rater, moderator>>

\* Who rates whom under which role is read off the eligibility.
RatingRequest(t, passenger, byDriver) ==
  IF byDriver
    THEN [key |-> [trip |-> t, rater |-> Driver[t], role |-> "DRIVER_RATES_PASSENGER"],
          rated |-> passenger]
    ELSE [key |-> [trip |-> t, rater |-> passenger, role |-> "PASSENGER_RATES_DRIVER"],
          rated |-> Driver[t]]

\* Outside the transaction.
ChecksEligibility(p, t, passenger, byDriver, score) ==
  /\ rater[p].at \in {"idle", "refused"}
  /\ <<t, passenger>> \in eligible
  /\ windowOpen[t]
  /\ LET request == RatingRequest(t, passenger, byDriver)
     IN  rater' = [rater EXCEPT ![p] =
           [IdleRater EXCEPT !.at = "eligible", !.key = request.key,
                             !.rated = request.rated, !.score = score]]
  /\ UNCHANGED <<eligible, windowOpen, rating, aggregate, moderator>>

-----------------------------------------------------------------------------
(* createWithAggregate, statement by statement                             *)

InsertUnderWay(key) ==
  \E p \in Raters : rater[p].at \in {"inserted", "locked", "absent"} /\ rater[p].key = key

Exists(key) == rating[key].status # "NONE"

\* The insert of a key waits for another insert of it.
InsertsRating(p) ==
  /\ rater[p].at = "eligible"
  /\ ~Exists(rater[p].key)
  /\ ~InsertUnderWay(rater[p].key)
  /\ rater' = [rater EXCEPT ![p].at = "inserted"]
  /\ UNCHANGED <<eligible, windowOpen, rating, aggregate, moderator>>

\* P2002, wherever it comes from, is answered DUPLICATE_RATING.
AnswersDuplicate(p) ==
  /\ rater' = [rater EXCEPT ![p] = [IdleRater EXCEPT !.at = "refused", !.key = rater[p].key]]
  /\ UNCHANGED <<eligible, windowOpen, rating, aggregate, moderator>>

FindsRating(p) ==
  /\ rater[p].at = "eligible"
  /\ Exists(rater[p].key)
  /\ AnswersDuplicate(p)

\* Mutant: the aggregate is read without FOR UPDATE.
AggregateFree_Always(user) == TRUE

AggregateFree(user) == \A p \in Raters : rater[p].at = "locked" => rater[p].rated # user

\* SELECT ... FOR UPDATE of the aggregate: no row, no lock.
LocksAggregate(p) ==
  /\ rater[p].at = "inserted"
  /\ AggregateFree(rater[p].rated)
  /\ LET agg == aggregate[rater[p].rated]
     IN  rater' = [rater EXCEPT
           ![p].at = IF agg.exists THEN "locked" ELSE "absent",
           ![p].count = agg.count, ![p].sum = agg.sum]
  /\ UNCHANGED <<eligible, windowOpen, rating, aggregate, moderator>>

WritesRating(p, count, sum) ==
  LET r == rater[p]
  IN  /\ rating' = [rating EXCEPT ![r.key] =
           [status |-> "ACTIVE", rated |-> r.rated, score |-> r.score]]
      /\ aggregate' = [aggregate EXCEPT ![r.rated] =
           [exists |-> TRUE, count |-> count, sum |-> sum]]
      /\ rater' = [rater EXCEPT ![p] = IdleRater]
      /\ UNCHANGED <<eligible, windowOpen, moderator>>

UpdatesAggregate(p) ==
  /\ rater[p].at = "locked"
  /\ WritesRating(p, rater[p].count + 1, rater[p].sum + rater[p].score)

CreatesAggregate(p) ==
  /\ rater[p].at = "absent"
  /\ ~aggregate[rater[p].rated].exists
  /\ WritesRating(p, 1, rater[p].score)

\* Another rating of the user was the first: P2002 on rating_aggregates, and the
\* transaction with the rating is rolled back.
FindsAggregate(p) ==
  /\ rater[p].at = "absent"
  /\ aggregate[rater[p].rated].exists
  /\ AnswersDuplicate(p)

\* The transaction is rolled back for another reason.
RatingFails(p) ==
  /\ rater[p].at \notin {"idle", "refused"}
  /\ rater' = [rater EXCEPT ![p] = IdleRater]
  /\ UNCHANGED <<eligible, windowOpen, rating, aggregate, moderator>>

-----------------------------------------------------------------------------
(* Deletion                                                                *)

Deletable(key) == rating[key].status = "ACTIVE"

\* SELECT ... FOR UPDATE of the rating.
LocksRating(d, key) ==
  /\ moderator[d] = NoRating
  /\ \A other \in Moderators : moderator[other] # key
  /\ Deletable(key)
  /\ moderator' = [moderator EXCEPT ![d] = key]
  /\ UNCHANGED <<eligible, windowOpen, rating, aggregate, rater>>

\* softDelete and commit; the aggregate is locked and, if it counts any, lowered.
DeletesRating(d) ==
  /\ moderator[d] # NoRating
  /\ LET r == rating[moderator[d]]
         agg == aggregate[r.rated]
     IN  /\ AggregateFree(r.rated)
         /\ rating' = [rating EXCEPT ![moderator[d]].status = "DELETED"]
         /\ aggregate' =
              IF agg.exists /\ agg.count > 0
                THEN [aggregate EXCEPT ![r.rated] =
                       [agg EXCEPT !.count = @ - 1, !.sum = @ - r.score]]
                ELSE aggregate
  /\ moderator' = [moderator EXCEPT ![d] = NoRating]
  /\ UNCHANGED <<eligible, windowOpen, rater>>

DeletionFails(d) ==
  /\ moderator[d] # NoRating
  /\ moderator' = [moderator EXCEPT ![d] = NoRating]
  /\ UNCHANGED <<eligible, windowOpen, rating, aggregate, rater>>

RatingsNext ==
  \/ \E t \in RatedTrips :
       \/ ConsumesTripCompleted(t) \/ WindowCloses(t)
       \/ \E p \in Raters, passenger \in Users, byDriver \in BOOLEAN, score \in Scores :
            ChecksEligibility(p, t, passenger, byDriver, score)
  \/ \E p \in Raters :
       \/ InsertsRating(p) \/ FindsRating(p) \/ LocksAggregate(p) \/ UpdatesAggregate(p)
       \/ CreatesAggregate(p) \/ FindsAggregate(p) \/ RatingFails(p)
  \/ \E d \in Moderators :
       (\E key \in RatingKeys : LocksRating(d, key)) \/ DeletesRating(d) \/ DeletionFails(d)

RatingsSpec == RatingsInit /\ [][RatingsNext]_ratingVars

-----------------------------------------------------------------------------
(* Properties                                                              *)

ScoreOf == [k \in RatingKeys |-> rating[k].score]

ActiveOf(user) == {k \in RatingKeys : rating[k].status = "ACTIVE" /\ rating[k].rated = user}

\* The aggregate on a user's profile counts and sums the ratings the user has,
\* whatever ratings and deletions ran side by side.
AggregateIsExact ==
  \A u \in Users :
    /\ aggregate[u].count = Cardinality(ActiveOf(u))
    /\ aggregate[u].sum = SumFunctionOnSet(ScoreOf, ActiveOf(u))

=============================================================================
