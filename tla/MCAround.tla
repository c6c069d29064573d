------------------------------ MODULE MCAround ------------------------------
(***************************************************************************)
(* Instances for TLC of what stands around bookings and payments: the      *)
(* outbox that delivers their events, what the events and the captures set *)
(* off (notifications, receipts, ratings), and what the edge keeps in      *)
(* Redis (search answers, rate limits). None shares state with another, so *)
(* that a behaviour of all of them is no more than one of each: a          *)
(* behaviour here is one of the component that part names.                 *)
(***************************************************************************)
EXTENDS Outbox, Notifications, Receipts, Ratings, SearchCache, RateLimit, TLC

CONSTANTS
  payments, notifications, unrouted,
  captured, cancelled, held, broken, key, typo, trip, driver, ann, bob, osh

VARIABLE part

\* booking.cancelled has two targets (docker-compose.yml), a type missing from
\* OUTBOX_TARGETS none.
MCTargets == cancelled :> {payments, notifications} @@ unrouted :> {}

MCEventType ==
  captured :> "payment.captured" @@ cancelled :> "booking.cancelled"
  @@ held :> "payment.intent.hold_placed" @@ broken :> "booking.expired"
MCKeyTemplate == key :> <<"PAYMENT_HOLD_PLACED", "PUSH">> @@ typo :> <<"BOOKING_CANCELLED", "PUSH">>
\* A build of before the template of captured bookings.
MCGone == {<<"BOOKING_CONFIRMED", "PUSH">>}

MCDriver == trip :> driver
MCConfirmed == trip :> {ann, bob}

\* A listed city by its name, typed with a space and without, and by its id.
MCQueries ==
  {[by |-> "name", town |-> osh, padded |-> FALSE, seats |-> 1],
   [by |-> "name", town |-> osh, padded |-> TRUE, seats |-> 1],
   [by |-> "id", town |-> osh, padded |-> FALSE, seats |-> 1]}

\* Requests, instances and rows of one component differ in nothing but their name. One
\* name stands for a request and for an instance, which nothing compares.
AroundSymmetry == Permutations(Notices) \cup Permutations(Callers)

consumerVars == <<notificationVars, receiptVars, ratingVars>>
redisVars == <<searchVars, limitVars>>
aroundVars == <<part, vars, consumerVars, redisVars>>

\* What is offered to notifications-service in a behaviour: two causes at a time.
Offered ==
  "captures" :> {captured, key} @@ "cancellations" :> {cancelled, broken} @@ "holds" :> {held, typo}

AroundInit ==
  /\ part \in DOMAIN Offered \cup {"outbox", "receipts", "ratings", "search", "limit"}
  /\ Init /\ NotificationsInit /\ ReceiptsInit /\ RatingsInit /\ SearchInit /\ LimitInit

ConsumersNext ==
  \/ /\ part \in DOMAIN Offered
     /\ NotificationsNext
     /\ \A c \in Callers : caller'[c] \in Offered[part] \cup {NoCause}
     /\ UNCHANGED <<receiptVars, ratingVars>>
  \/ part = "receipts" /\ ReceiptsNext /\ UNCHANGED <<notificationVars, ratingVars>>
  \/ part = "ratings" /\ RatingsNext /\ UNCHANGED <<notificationVars, receiptVars>>

RedisNext ==
  \/ part = "search" /\ SearchNext /\ UNCHANGED limitVars
  \/ part = "limit" /\ LimitNext /\ UNCHANGED searchVars

AroundNext ==
  /\ \/ part = "outbox" /\ Next /\ UNCHANGED <<consumerVars, redisVars>>
     \/ ConsumersNext /\ UNCHANGED <<vars, redisVars>>
     \/ RedisNext /\ UNCHANGED <<vars, consumerVars>>
  /\ UNCHANGED part

AroundSpec == AroundInit /\ [][AroundNext]_aroundVars

=============================================================================
