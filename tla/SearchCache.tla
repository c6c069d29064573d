---------------------------- MODULE SearchCache ----------------------------
(***************************************************************************)
(* Trip search: the rows of the database, the answers Redis keeps for a    *)
(* while under a key made of the query, and searches that read the one or  *)
(* the other. Nothing tells the cache that a trip has changed.             *)
(***************************************************************************)
EXTENDS Naturals, FiniteSets, FiniteSetsExt

CONSTANTS
  SearchTrips,   \* trips that drivers offer
  Towns,         \* names of towns, as everybody but a careless typist writes them
  Listed,        \* the towns of the cities table
  Queries,       \* what passengers ask for: a set of Asked
  Searches,      \* searches under way
  MaxSeats,      \* bound: seats of a trip
  Ttl,           \* SEARCH_CACHE_TTL_SEC in ticks
  Lag            \* ticks that a search lasts at most, its SET included

ASSUME TownsAssumption == Listed \subseteq Towns
ASSUME TtlAssumption == Ttl \in Nat \ {0} /\ Lag \in Nat
ASSUME SeatsAssumption == MaxSeats \in Nat \ {0}

VARIABLES
  trips,      \* the rows: status, town of departure and how it was typed, seats left
  cached,     \* Redis: the answer under each key, with its age, or NoEntry
  search,     \* each search: where it is, what it asks, what it has read
  settled     \* history: ticks since a trip last began or ceased to match a query

searchVars == <<trips, cached, search, settled>>

(* A query by the city's id, or by a name, which may have been typed with  *)
(* a space too many (padded); seats is minSeats.                           *)
Asked == [by : {"id", "name"}, town : Towns, padded : BOOLEAN, seats : 1 .. MaxSeats]

ASSUME QueriesAssumption ==
  /\ Queries # {}
  /\ Queries \subseteq {q \in Asked : q.by = "id" => q.town \in Listed /\ ~q.padded}

Fresh == Ttl + Lag                 \* an answer is of rows this old at most
SomeQuery == CHOOSE q \in Queries : TRUE
NoTrip == [status |-> "none", town |-> CHOOSE t \in Towns : TRUE, padded |-> FALSE, seats |-> 0]
NoEntry == [age |-> Ttl, rows |-> {}]

\* cityRepo.findByName(name): a name with a space too many is not in the table.
Resolves(town, padded) == town \in Listed /\ ~padded

\* WHERE status = 'ACTIVE' AND seats_available >= minSeats AND the place: by id when the
\* query has one or its name resolves to one, else by the name as it was typed.
Matches(trip, q) ==
  /\ trip.status = "ACTIVE"
  /\ trip.seats >= q.seats
  /\ trip.town = q.town
  /\ IF q.by = "id" \/ Resolves(q.town, q.padded)
     THEN Resolves(trip.town, trip.padded)
     ELSE trip.padded = q.padded

\* Mutant: the key is made of the query alone.
Key_Unresolved(q) ==
  [id |-> q.by = "id", name |-> q.by = "name", town |-> q.town, seats |-> q.seats]

\* What the key keeps of a query and of what its name resolved to: names are trimmed.
Key(q) ==
  [id |-> q.by = "id" \/ Resolves(q.town, q.padded), name |-> q.by = "name",
   town |-> q.town, seats |-> q.seats]

SearchKeys == {Key(q) : q \in Queries}
Found(q) == {t \in SearchTrips : Matches(trips[t], q)}

TripType ==
  [status : {"none", "ACTIVE", "ended"}, town : Towns, padded : BOOLEAN, seats : 0 .. MaxSeats]

EntryType == [age : 0 .. Ttl, rows : SUBSET SearchTrips]

SearchType ==
  [at : {"idle", "reading", "answered", "storing"}, query : Queries, rows : SUBSET SearchTrips,
   lag : 0 .. Lag]

SearchTypeOK ==
  /\ trips \in [SearchTrips -> TripType]
  /\ cached \in [SearchKeys -> EntryType]
  /\ search \in [Searches -> SearchType]
  /\ settled \in [SearchTrips \X Queries -> 0 .. Fresh + 1]

NoSearch == [at |-> "idle", query |-> SomeQuery, rows |-> {}, lag |-> 0]

SearchInit ==
  /\ trips = [t \in SearchTrips |-> NoTrip]
  /\ cached = [k \in SearchKeys |-> NoEntry]
  /\ search = [s \in Searches |-> NoSearch]
  /\ settled = [tq \in SearchTrips \X Queries |-> Fresh + 1]

\* Remembers which queries a change of the rows makes a difference to.
Unsettles(rows) ==
  settled' = [tq \in SearchTrips \X Queries |->
    IF Matches(rows[tq[1]], tq[2]) = Matches(trips[tq[1]], tq[2]) THEN settled[tq] ELSE 0]

-----------------------------------------------------------------------------
(* Trips                                                                   *)

Changes(t, trip) ==
  /\ trips' = [trips EXCEPT ![t] = trip]
  /\ Unsettles(trips')
  /\ UNCHANGED <<cached, search>>

\* The driver offers a trip; its city is looked up by the name as typed.
Offers(t, town, padded) ==
  /\ trips[t].status = "none"
  /\ Changes(t, [status |-> "ACTIVE", town |-> town, padded |-> padded, seats |-> MaxSeats])

\* Bookings take seats and give them back; nobody tells the cache.
SeatsMove(t, n) ==
  /\ trips[t].status = "ACTIVE"
  /\ n # trips[t].seats
  /\ Changes(t, [trips[t] EXCEPT !.seats = n])

\* Cancelled or completed.
Finishes(t) ==
  /\ trips[t].status = "ACTIVE"
  /\ Changes(t, [trips[t] EXCEPT !.status = "ended"])

-----------------------------------------------------------------------------
(* Searches                                                                *)

Alive(k) == cached[k].age < Ttl

\* GET: on a hit the search is over.
Hits(s, q) ==
  /\ search[s].at = "idle"
  /\ Alive(Key(q))
  /\ search' = [search EXCEPT ![s] =
       [at |-> "answered", query |-> q, rows |-> cached[Key(q)].rows, lag |-> 0]]
  /\ UNCHANGED <<trips, cached, settled>>

\* A miss; an error of Redis is one too.
Misses(s, q) ==
  /\ search[s].at = "idle"
  /\ search' = [search EXCEPT ![s] = [NoSearch EXCEPT !.at = "reading", !.query = q]]
  /\ UNCHANGED <<trips, cached, settled>>

\* The rows are read; the answer and the SET are on their way.
Reads(s) ==
  /\ search[s].at = "reading"
  /\ search' = [search EXCEPT ![s].at = "storing", ![s].rows = Found(search[s].query)]
  /\ UNCHANGED <<trips, cached, settled>>

\* EX: an entry grows older and goes after Ttl ticks.
Ages(entry) == IF entry.age + 1 < Ttl THEN [entry EXCEPT !.age = @ + 1] ELSE NoEntry

\* SET key rows EX ttl, over whatever is there.
Stores(s) ==
  /\ search[s].at = "storing"
  /\ cached' = [cached EXCEPT ![Key(search[s].query)] = [age |-> 0, rows |-> search[s].rows]]
  /\ search' = [search EXCEPT ![s].at = "answered"]
  /\ UNCHANGED <<trips, settled>>

\* Redis does not take it: the answer is good all the same.
StoreFails(s) ==
  /\ search[s].at = "storing"
  /\ search' = [search EXCEPT ![s].at = "answered"]
  /\ UNCHANGED <<trips, cached, settled>>

\* The passenger has the answer.
Responds(s) ==
  /\ search[s].at = "answered"
  /\ search' = [search EXCEPT ![s] = NoSearch]
  /\ UNCHANGED <<trips, cached, settled>>

\* Redis drops an entry, by its own policy or because it starts again.
Evicts(k) ==
  /\ Alive(k)
  /\ cached' = [cached EXCEPT ![k] = NoEntry]
  /\ UNCHANGED <<trips, search, settled>>

\* A tick of the clock. It waits for searches that have lasted Lag ticks, and for answers
\* to be taken: what a passenger does with them later is not the cache's.
ClockTicks ==
  /\ \A s \in Searches : search[s].at = "idle" \/ (search[s].at # "answered" /\ search[s].lag < Lag)
  /\ cached' = [k \in SearchKeys |-> Ages(cached[k])]
  /\ search' = [s \in Searches |->
       IF search[s].at = "idle" THEN search[s] ELSE [search[s] EXCEPT !.lag = @ + 1]]
  /\ settled' = [tq \in SearchTrips \X Queries |-> Min({settled[tq] + 1, Fresh + 1})]
  /\ UNCHANGED trips

SearchNext ==
  \/ \E t \in SearchTrips :
       \/ \E town \in Towns, padded \in BOOLEAN : Offers(t, town, padded)
       \/ \E n \in 0 .. MaxSeats : SeatsMove(t, n)
       \/ Finishes(t)
  \/ \E s \in Searches :
       \/ \E q \in Queries : Hits(s, q) \/ Misses(s, q)
       \/ Reads(s) \/ Stores(s) \/ StoreFails(s) \/ Responds(s)
  \/ \E k \in SearchKeys : Evicts(k)
  \/ ClockTicks

SearchSpec == SearchInit /\ [][SearchNext]_searchVars

-----------------------------------------------------------------------------
(* Properties                                                              *)

\* An answer, from wherever it comes, is at most a TTL and a search's time behind the rows:
\* a trip that has matched the query for longer is in it, one that has not is not. Not so
\* for the name of a town in no table: its key is that of the same name typed with a space,
\* which the database takes for another.
AnswersAreRecent ==
  \A s \in Searches, t \in SearchTrips :
    LET q == search[s].query
    IN  search[s].at \in {"storing", "answered"} /\ q.town \in Listed /\ settled[<<t, q>>] > Fresh
          => (t \in search[s].rows <=> Matches(trips[t], q))

=============================================================================
