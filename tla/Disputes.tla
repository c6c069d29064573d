------------------------------ MODULE Disputes ------------------------------
(***************************************************************************)
(* admin-service: disputes on bookings. A moderator opens one, resolves it *)
(* before the deadline or closes it; a resolution about money is told to   *)
(* payments-service by dispute.resolved.                                   *)
(***************************************************************************)
EXTENDS Naturals, FiniteSets

CONSTANTS
  DisputeIds,
  DisputedBookings,
  NoBooking,
  Judges            \* resolve and close requests under way

ASSUME NoBookingAssumption == NoBooking \notin DisputedBookings

VARIABLES
  dispute,      \* the rows of disputes
  overdue,      \* disputes whose depart_at + SLA_RESOLVE_HOURS has passed
  judge,        \* what each request is doing: its transaction, and the lock it holds
  announced     \* the dispute.resolved events in the outbox

disputeVars == <<dispute, overdue, judge, announced>>

PaymentResolutions == {"REFUND", "PARTIAL", "NO_REFUND"}
Resolutions == PaymentResolutions \cup {"BAN_USER"}
NoResolution == "none"

DisputeType ==
  [status : {"NONE", "OPEN", "RESOLVED", "CLOSED"}, booking : DisputedBookings \cup {NoBooking},
   resolution : Resolutions \cup {NoResolution}]

EventType == [dispute : DisputeIds, booking : DisputedBookings, resolution : PaymentResolutions]

DisputesTypeOK ==
  /\ dispute \in [DisputeIds -> DisputeType]
  /\ overdue \in SUBSET DisputeIds
  /\ judge \in [Judges -> [at : {"idle", "resolving", "closing"},
                           holds : SUBSET DisputeIds]]
  /\ announced \in SUBSET EventType

IdleJudge == [at |-> "idle", holds |-> {}]

DisputesInit ==
  /\ dispute = [d \in DisputeIds |->
       [status |-> "NONE", booking |-> NoBooking, resolution |-> NoResolution]]
  /\ overdue = {}
  /\ judge = [j \in Judges |-> IdleJudge]
  /\ announced = {}

\* With its audit row. Nothing forbids several disputes on a booking.
CreatesDispute(d, b) ==
  /\ dispute[d].status = "NONE"
  /\ dispute' = [dispute EXCEPT ![d] =
       [status |-> "OPEN", booking |-> b, resolution |-> NoResolution]]
  /\ UNCHANGED <<overdue, judge, announced>>

DeadlinePasses(d) ==
  /\ overdue' = overdue \cup {d}
  /\ UNCHANGED <<dispute, judge, announced>>

\* Mutant: SELECT without FOR UPDATE.
Unlocked_Always(d) == TRUE

\* FOR UPDATE waits for the transaction that has the row.
Unlocked(d) == \A j \in Judges : d \notin judge[j].holds

\* The row is there and OPEN, the deadline ahead: DISPUTE_NOT_FOUND,
\* INVALID_STATE or SLA_WINDOW_EXPIRED otherwise.
LooksToResolve(j, d) ==
  /\ judge[j].at = "idle"
  /\ Unlocked(d)
  /\ dispute[d].status = "OPEN"
  /\ d \notin overdue
  /\ judge' = [judge EXCEPT ![j] = [at |-> "resolving", holds |-> {d}]]
  /\ UNCHANGED <<dispute, overdue, announced>>

\* Only resolutions about money are published; BAN_USER bans nobody.
Published(resolution) == resolution \in PaymentResolutions

\* The row, the event and the audit row, then the commit.
Resolves(j, resolution) ==
  /\ judge[j].at = "resolving"
  /\ \E d \in judge[j].holds :
       /\ dispute' = [dispute EXCEPT ![d].status = "RESOLVED", ![d].resolution = resolution]
       /\ announced' =
            IF Published(resolution)
            THEN announced \cup
                   {[dispute |-> d, booking |-> dispute[d].booking, resolution |-> resolution]}
            ELSE announced
  /\ judge' = [judge EXCEPT ![j] = IdleJudge]
  /\ UNCHANGED overdue

LooksToClose(j, d) ==
  /\ judge[j].at = "idle"
  /\ Unlocked(d)
  /\ dispute[d].status \in {"OPEN", "RESOLVED"}
  /\ judge' = [judge EXCEPT ![j] = [at |-> "closing", holds |-> {d}]]
  /\ UNCHANGED <<dispute, overdue, announced>>

Closes(j) ==
  /\ judge[j].at = "closing"
  /\ \E d \in judge[j].holds : dispute' = [dispute EXCEPT ![d].status = "CLOSED"]
  /\ judge' = [judge EXCEPT ![j] = IdleJudge]
  /\ UNCHANGED <<overdue, announced>>

\* The transaction is rolled back, or its timeout has passed.
RollsBack(j) ==
  /\ judge[j].at # "idle"
  /\ judge' = [judge EXCEPT ![j] = IdleJudge]
  /\ UNCHANGED <<dispute, overdue, announced>>

DisputesNext ==
  \/ \E d \in DisputeIds :
       DeadlinePasses(d) \/ \E b \in DisputedBookings : CreatesDispute(d, b)
  \/ \E j \in Judges :
       \/ \E d \in DisputeIds : LooksToResolve(j, d) \/ LooksToClose(j, d)
       \/ \E resolution \in Resolutions : Resolves(j, resolution)
       \/ Closes(j) \/ RollsBack(j)

DisputesSpec == DisputesInit /\ [][DisputesNext]_disputeVars

-----------------------------------------------------------------------------
(* Properties                                                              *)

\* payments-service is told of a dispute once, and what it is told is what the
\* dispute says, also after it is closed: two moderators who resolve it at once
\* do not both have their way.
EventsTellResolutions ==
  /\ \A e \in announced : dispute[e.dispute].resolution = e.resolution
  /\ \A d \in DisputeIds :
       dispute[d].resolution \in PaymentResolutions => \E e \in announced : e.dispute = d

\* A closed dispute stays as it is: neither a resolution under way nor a second
\* close touches it.
ClosedIsFinal ==
  [][\A d \in DisputeIds :
       dispute[d].status = "CLOSED" => dispute'[d] = dispute[d]]_disputeVars

=============================================================================
