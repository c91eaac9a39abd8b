-------------------------- MODULE FlightSelectionProofs --------------------------
(***************************************************************************)
(* Which flights the job factory takes, for any telemetry, any flights,     *)
(* airlines and days, any cache and any submissions.                        *)
(***************************************************************************)
EXTENDS FlightSelection, FiniteSetTheorems, TLAPS

(* Any set of naturals has a least member. *)
LEMMA LeastNat ==
    ASSUME NEW S, S \subseteq Nat, S # {}
    PROVE  \E n \in S : \A m \in S : n <= m
<1> DEFINE R == OpToRel(<, Nat)
<1>1. R = {p \in Nat \X Nat : p[1] < p[2]}
  BY DEF OpToRel
<1>2. IsWellFoundedOn(R, Nat)
  BY NatLessThanWellFounded
<1> HIDE DEF R
<1>3. PICK n \in S : \A m \in S : <<m, n>> \notin R
  BY <1>2, WFMin
<1>4. ASSUME NEW m \in S PROVE n <= m
  <2>1. m \in Nat /\ n \in Nat
    OBVIOUS
  <2>2. m < n => <<m, n>> \in R
    BY <1>1, <2>1
  <2>3. QED
    BY <1>3, <2>1, <2>2
<1>5. QED
  BY <1>4

(* What a row of the telemetry is. *)
LEMMA RowType ==
    ASSUME NEW w \in Report
    PROVE  /\ w.day \in Day /\ w.day \in Nat /\ w.day <= LastDay
           /\ w.hour \in 0 .. (DayHours - 1) /\ w.hour \in Nat /\ w.hour < DayHours
           /\ w.airline \in Airline /\ w.aircraft \in Aircraft
           /\ w.flight \in Flight \cup {None}
           /\ w.flight # None => w.aircraft = AircraftOf[w.flight]
           /\ HourOf(w) \in Hour
BY FlightSelectionAssumption DEF Row, Day, Hour, HourOf

LEMMA NoneIsNoFlight == None \notin Flight
BY JobSubmissionAssumption

(* The cache holds rows of the telemetry. *)
LEMMA CachedRows ==
    ASSUME TypeOK, NEW t
    PROVE  Cached(t) \subseteq rows
<1> SUFFICES ASSUME NEW h \in HoursOf(t), NEW w \in cache[h].rows
             PROVE  w \in rows
  BY DEF Cached
<1>1. h \in Hour
  BY DEF HoursOf, Window
<1>2. QED
  BY <1>1 DEF TypeOK

LEMMA DataRows ==
    ASSUME TypeOK, NEW t, Readable(t)
    PROVE  Data(t) \subseteq rows
<1>1. Way(t) \in {"airline", "flights", "job"}
  BY DEF Way
<1>2. BqAirlineDay(rows, t.airline, t.day) \subseteq rows
  BY DEF BqAirlineDay, Satellite
<1>3. GcsAirlineDay(Cached(t), t.airline, t.day) \subseteq rows
  BY CachedRows DEF GcsAirlineDay, Satellite, Kept
<1>4. BqFlightIds(rows, t.flights, t.day) \subseteq rows
  BY DEF BqFlightIds
<1>5. GcsFlightIds(Cached(t), Found(t).flights) \subseteq rows
  BY CachedRows DEF GcsFlightIds
<1>6. QED
  BY <1>1, <1>2, <1>3, <1>4, <1>5 DEF Data

-------------------------------------------------------------------------------
(* The two sources.                                                          *)

(* Rows of the hours of a window, from a cache that has them all. *)
LEMMA FreshRows ==
    ASSUME TypeOK, NEW d, Fresh(d)
    PROVE  UNION {cache[h].rows : h \in Window(d)} = {w \in rows : HourOf(w) \in Window(d)}
<1>1. ASSUME NEW h \in Window(d)
      PROVE  cache[h].rows = {w \in rows : HourOf(w) = h}
  <2>1. cache[h] = [state |-> "full", rows |-> {w \in rows : HourOf(w) = h}]
    BY DEF Fresh
  <2>2. QED
    BY <2>1
<1>2. QED
  BY <1>1

(* Keeping a flight's rows hour by hour does not change on which days, and in *)
(* which hours, rows of the airline are seen (<2>2). *)
LEMMA SourcesAgreeAt ==
    ASSUME TypeOK, NEW a \in Airline, NEW d \in Day \ {0}, Fresh(d)
    PROVE  GcsFlights(Kept(UNION {cache[h].rows : h \in Window(d)}, a), d)
             = BqFlights(rows, a, d) \cup Resumed(a, d)
<1> DEFINE R == {w \in rows : HourOf(w) \in Window(d)}
           K == Kept(R, a)
<1>1. d \in Nat /\ DayHours \in Nat /\ PruneHead \in Nat /\ PruneTail \in Nat
  BY FlightSelectionAssumption DEF Day
<1>2. ASSUME NEW w \in rows
      PROVE  /\ w.day \in Nat /\ w.hour \in Nat /\ w.hour < DayHours
             /\ w.day = d => w \in R
             /\ w.day = d - 1 => (w \in R <=> w.hour >= PruneHead)
             /\ w \in R => w.day >= d - 1
  <2>1. w \in Report
    BY DEF TypeOK
  <2>2. /\ w.day \in Nat /\ w.hour \in Nat /\ w.hour < DayHours
        /\ HourOf(w) \in Hour /\ HourOf(w)[1] = w.day /\ HourOf(w)[2] = w.hour
    BY <2>1, RowType DEF HourOf
  <2>3. HourOf(w) \in Window(d) <=>
          \/ w.day = d - 1 /\ w.hour >= PruneHead
          \/ w.day = d
          \/ w.day = d + 1 /\ w.hour < DayHours - PruneTail
    BY <2>2 DEF Window
  <2>4. QED
    BY <1>1, <2>2, <2>3
<1> HIDE DEF R
<1>r. R \subseteq rows
  BY DEF R
<1>3. ASSUME NEW f \in Flight
      PROVE  f \in GcsFlights(K, d) <=> f \in BqFlights(rows, a, d) \cup Resumed(a, d)
  <2> DEFINE C == {w \in rows : w.flight = f /\ w.airline = a}
             Late == \A w \in C : w.day = d - 1 => w.hour < PruneHead
  <2>1. f # None
    BY NoneIsNoFlight
  <2>2. /\ \A w \in R : w.flight = f /\ w.airline = a => w \in K
        /\ \A w \in K : w.flight = f =>
              \E v \in R : /\ v.flight = f /\ v.airline = a
                           /\ v.day = w.day /\ v.hour = w.hour
    BY <2>1 DEF Kept, HourOf
  <2> HIDE DEF K
  <2>3. (\E w \in K : w.flight = f /\ w.day = d) <=> \E w \in C : w.day = d
    BY <1>2, <1>r, <2>2
  <2>4. (\A w \in K : w.flight = f => w.day >= d) <=> Late
    <3>1. ASSUME Late, NEW w \in K, w.flight = f PROVE w.day >= d
      <4>1. PICK v \in R : v.flight = f /\ v.airline = a /\ v.day = w.day
        BY <2>2, <3>1
      <4>2. v \in C /\ v.day \in Nat /\ v.day >= d - 1
        BY <1>2, <1>r, <4>1
      <4>3. v.day # d - 1
        BY <1>1, <1>2, <1>r, <3>1, <4>2
      <4>4. QED
        BY <1>1, <4>1, <4>2, <4>3
    <3>2. ASSUME \A w \in K : w.flight = f => w.day >= d,
                 NEW w \in C, w.day = d - 1
          PROVE  w.hour < PruneHead
      <4>1. w \in R => w \in K
        BY <2>2
      <4>2. w \notin R
        BY <1>1, <3>2, <4>1
      <4>3. QED
        BY <1>1, <1>2, <3>2, <4>2
    <3>3. QED
      BY <3>1, <3>2
  <2>5. f \in GcsFlights(K, d) <=> (\E w \in C : w.day = d) /\ Late
    BY <2>3, <2>4 DEF GcsFlights
  <2>6. f \in BqFlights(rows, a, d) <=>
          (\E w \in C : w.day = d) /\ \A w \in C : w.day # d - 1
    BY DEF BqFlights, Originates
  <2>7. f \in Resumed(a, d) <=>
          (\E w \in C : w.day = d) /\ (\E w \in C : w.day = d - 1) /\ Late
    BY DEF Resumed
  <2>8. QED
    BY <2>5, <2>6, <2>7
<1>4. UNION {cache[h].rows : h \in Window(d)} = R
  BY FreshRows DEF R
<1>5. /\ GcsFlights(K, d) \subseteq Flight
      /\ BqFlights(rows, a, d) \subseteq Flight /\ Resumed(a, d) \subseteq Flight
  BY DEF GcsFlights, BqFlights, Resumed
<1>6. GcsFlights(K, d) = BqFlights(rows, a, d) \cup Resumed(a, d)
  BY <1>3, <1>5
<1>7. QED
  BY <1>4, <1>6

-------------------------------------------------------------------------------
(* The airline and the day a flight is worked on for.                       *)

LEMMA AirlinesFinite ==
    ASSUME NEW W, IsFiniteSet(W)
    PROVE  IsFiniteSet(AirlinesIn(W))
<1> DEFINE f == [w \in W |-> w.airline]
<1>1. f \in Surjection(W, AirlinesIn(W))
  BY DEF AirlinesIn, Surjection
<1>2. QED
  BY <1>1, FS_Surjection

(* Two airlines make a set of more than one, one alone does not. *)
LEMMA TwoAirlines ==
    ASSUME NEW W, IsFiniteSet(W), NEW v \in W, NEW w \in W, v.airline # w.airline
    PROVE  Cardinality(AirlinesIn(W)) > 1
<1> DEFINE A == AirlinesIn(W)
<1>1. IsFiniteSet(A) /\ v.airline \in A /\ w.airline \in A
  BY AirlinesFinite DEF AirlinesIn
<1> HIDE DEF A
<1>2. Cardinality(A) \in Nat
  BY <1>1, FS_CardinalityType
<1>3. Cardinality(A) # 0
  BY <1>1, FS_EmptySet
<1>4. Cardinality(A) # 1
  BY <1>1, FS_Singleton
<1>5. QED
  BY <1>2, <1>3, <1>4 DEF A

LEMMA OneAirline ==
    ASSUME NEW W, NEW a, AirlinesIn(W) \subseteq {a}
    PROVE  ~(Cardinality(AirlinesIn(W)) > 1)
<1>1. AirlinesIn(W) = {} \/ AirlinesIn(W) = {a}
  OBVIOUS
<1>2. Cardinality({}) = 0 /\ Cardinality({a}) = 1
  BY FS_EmptySet, FS_Singleton
<1>3. QED
  BY <1>1, <1>2

(* What BigQuery returns of a flight whose airline's day it is: its rows of   *)
(* that day and the next. *)
LEMMA DayOfFlight ==
    ASSUME TypeOK, NEW a, NEW d, NEW f \in Flight
    PROVE  /\ f \in FlightsOf(BqAirlineDay(rows, a, d)) <=> f \in BqFlights(rows, a, d)
           /\ f \in BqFlights(rows, a, d) =>
                Terrestrial(BqAirlineDay(rows, a, d), f)
                  = {w \in rows : w.flight = f /\ w.day \in {d, d + 1}}
<1> DEFINE F == BqFlights(rows, a, d)
           D == BqAirlineDay(rows, a, d)
<1>1. f # None
  BY NoneIsNoFlight
<1>2. \A w \in D : w.flight = f => w \in rows /\ w.day \in {d, d + 1} /\ f \in F
  BY <1>1 DEF BqAirlineDay, Satellite
<1>3. \A w \in rows : w.flight = f /\ w.day \in {d, d + 1} /\ f \in F => w \in D
  BY DEF BqAirlineDay
<1>4. f \in F => \E w \in rows : w.flight = f /\ w.day = d
  BY DEF BqFlights, Originates
<1> HIDE DEF F, D
<1>5. f \in FlightsOf(D) <=> f \in F
  BY <1>1, <1>2, <1>3, <1>4 DEF FlightsOf
<1>6. f \in F => Terrestrial(D, f) = {w \in rows : w.flight = f /\ w.day \in {d, d + 1}}
  BY <1>2, <1>3 DEF Terrestrial
<1>7. QED
  BY <1>5, <1>6 DEF F, D

LEMMA WaypointsFinite ==
    ASSUME IsFiniteSet(rows), NEW D, D \subseteq rows, NEW f
    PROVE  /\ Terrestrial(D, f) \subseteq Waypoints(D, f)
           /\ Waypoints(D, f) \subseteq D
           /\ IsFiniteSet(Waypoints(D, f))
<1>1. /\ Terrestrial(D, f) \subseteq Waypoints(D, f)
      /\ Waypoints(D, f) \subseteq D
  BY DEF Waypoints, Terrestrial, Satellite
<1>2. QED
  BY <1>1, FS_Subset

LEMMA BqRows == \A a, d : BqAirlineDay(rows, a, d) \subseteq rows
  BY DEF BqAirlineDay, Satellite

(* A job that takes a flight has a row of its airline on its day and none on   *)
(* the day before; of no airline, it sees none that names one. *)
LEMMA JobOfFlight ==
    ASSUME TypeOK, IsFiniteSet(rows), NEW f \in Flight, NEW j \in JobsOf(f)
    PROVE  /\ j[1] \in Airline /\ j[2] \in Day \ {0} /\ j = <<j[1], j[2]>>
           /\ \E w \in Terrestrial(rows, f) : w.airline = j[1] /\ w.day = j[2]
           /\ \A w \in Terrestrial(rows, f) : w.airline = j[1] => w.day # j[2] - 1
           /\ j[1] = Null =>
                \A w \in Terrestrial(rows, f) : w.day = j[2] => w.airline = Null
<1> DEFINE a == j[1]
           d == j[2]
           D == BqAirlineDay(rows, a, d)
           W == Waypoints(D, f)
<1>1. a \in Airline /\ d \in Day \ {0} /\ j = <<a, d>>
  BY DEF JobsOf
<1>2. f \in FlightsOf(D) /\ ~Skipped(W, f, a)
  BY DEF JobsOf, Taken
<1>3. f \in BqFlights(rows, a, d)
  BY <1>2, DayOfFlight
<1>4. /\ \E w \in Terrestrial(rows, f) : w.airline = a /\ w.day = d
      /\ \A w \in Terrestrial(rows, f) : w.airline = a => w.day # d - 1
  BY <1>3 DEF BqFlights, Originates, Terrestrial
<1>5. ASSUME a = Null, NEW w \in Terrestrial(rows, f), w.day = d
      PROVE  w.airline = Null
  <2>1. PICK v \in Terrestrial(rows, f) : v.airline = Null /\ v.day = d
    BY <1>4, <1>5
  <2>2. v \in Terrestrial(D, f) /\ w \in Terrestrial(D, f)
    BY <1>3, <1>5, <2>1, DayOfFlight DEF Terrestrial
  <2>3. IsFiniteSet(W) /\ v \in W /\ w \in W
    BY <2>2, WaypointsFinite, BqRows
  <2>4. ~(Cardinality(AirlinesIn(W)) > 1)
    BY <1>2, <1>5 DEF Skipped
  <2> HIDE DEF W
  <2>5. QED
    BY <2>1, <2>3, <2>4, TwoAirlines
<1>6. QED
  BY <1>1, <1>4, <1>5

LEMMA PublishedOnceFor ==
    ASSUME TypeOK, IsFiniteSet(rows), NEW f \in Flight, Steady(f),
           NEW i \in JobsOf(f), NEW j \in JobsOf(f)
    PROVE  i = j
<1> DEFINE C == Terrestrial(rows, f)
<1>1. PICK a \in Airline :
        /\ AirlinesIn(C) \subseteq {a, Null}
        /\ \A v, w \in C : \A d \in v.day .. w.day : \E u \in C : u.day = d /\ u.airline = a
  BY DEF Steady
<1>2. \A w \in C : w.day \in Nat /\ w.airline \in {a, Null}
  BY <1>1, RowType DEF TypeOK, Terrestrial, AirlinesIn
<1> HIDE DEF C
<1>3. ASSUME NEW k \in JobsOf(f)
      PROVE  /\ k[1] = a /\ k[2] \in Nat \ {0} /\ k = <<k[1], k[2]>>
             /\ \E w \in C : w.day = k[2]
             /\ \A w \in C : w.airline = a => w.day # k[2] - 1
  <2>1. /\ k[2] \in Nat \ {0} /\ k = <<k[1], k[2]>>
        /\ \E w \in C : w.airline = k[1] /\ w.day = k[2]
        /\ \A w \in C : w.airline = k[1] => w.day # k[2] - 1
        /\ k[1] = Null => \A w \in C : w.day = k[2] => w.airline = Null
    BY JobOfFlight DEF C, Day
  <2>2. PICK v \in C : v.airline = k[1] /\ v.day = k[2]
    BY <2>1
  <2>3. k[2] \in v.day .. v.day
    BY <1>2, <2>2
  <2>4. PICK u \in C : u.day = k[2] /\ u.airline = a
    BY <1>1, <2>3
  <2>5. k[1] = a
    BY <1>2, <2>1, <2>2, <2>4
  <2>6. QED
    BY <2>1, <2>5
<1>4. ASSUME NEW k \in JobsOf(f), NEW l \in JobsOf(f), k[2] < l[2]
      PROVE  FALSE
  <2>1. PICK v \in C : v.day = k[2]
    BY <1>3
  <2>2. PICK w \in C : w.day = l[2]
    BY <1>3
  <2>3. l[2] - 1 \in v.day .. w.day
    BY <1>3, <1>4, <2>1, <2>2
  <2>4. PICK u \in C : u.day = l[2] - 1 /\ u.airline = a
    BY <1>1, <2>3
  <2>5. QED
    BY <1>3, <2>4
<1>5. i[2] \in Nat /\ j[2] \in Nat /\ ~(i[2] < j[2]) /\ ~(j[2] < i[2])
  BY <1>3, <1>4
<1>6. i[1] = j[1] /\ i[2] = j[2]
  BY <1>3, <1>5
<1>7. i = <<i[1], i[2]>> /\ j = <<j[1], j[2]>>
  BY <1>3
<1>8. QED
  BY <1>6, <1>7

(* The airline's first day of a flight makes it go to BigQuery's data. *)
LEMMA FirstDay ==
    ASSUME TypeOK, NEW f \in Flight, NEW a,
           NEW v \in Terrestrial(rows, f), v.airline = a
    PROVE  \E w \in Terrestrial(rows, f) :
              /\ w.airline = a
              /\ \A u \in Terrestrial(rows, f) : u.airline = a => w.day <= u.day
              /\ f \in BqFlights(rows, a, w.day)
<1> DEFINE T == Terrestrial(rows, f)
           S == {w.day : w \in {u \in T : u.airline = a}}
<1>1. \A w \in T : w.day \in Nat
  BY RowType DEF TypeOK, Terrestrial
<1>2. S \subseteq Nat /\ S # {}
  BY <1>1
<1>3. PICK d \in S : \A e \in S : d <= e
  BY <1>2, LeastNat
<1>4. PICK w \in T : w.airline = a /\ w.day = d
  BY <1>3
<1>5. \A u \in T : u.airline = a => d <= u.day
  BY <1>3
<1>6. \A u \in T : u.airline = a => u.day # d - 1
  BY <1>1, <1>4, <1>5
<1>7. f \in BqFlights(rows, a, d)
  BY <1>4, <1>6 DEF BqFlights, Originates, Terrestrial
<1>8. QED
  BY <1>4, <1>5, <1>7

LEMMA EveryFlightFor ==
    ASSUME TypeOK, IsFiniteSet(rows), NEW f \in FlightsOf(rows)
    PROVE  LET T == Terrestrial(rows, f) IN
           \/ \E w \in T : w.day = 0
           \/ JobsOf(f) # {}
           \/ /\ AirlinesIn(T) = {Null}
              /\ \/ f \in LowFlying
                 \/ \E w \in Satellite(rows, {f}) : w.airline # Null
                 \/ \E v \in T : /\ \A w \in T : v.day <= w.day
                                 /\ Cardinality({w \in T : w.day <= v.day + 1}) <= MinNullRows
<1> DEFINE T == Terrestrial(rows, f)
<1>1. /\ f \in Flight /\ T # {} /\ IsFiniteSet(T)
      /\ \A w \in T : w \in rows /\ w.flight = f /\ w.airline \in Airline
                     /\ w.day \in Nat /\ w.day \in Day
  <2>1. f \in Flight /\ T # {} /\ T \subseteq rows
    BY RowType DEF TypeOK, FlightsOf, Terrestrial
  <2>2. IsFiniteSet(T)
    BY <2>1, FS_Subset
  <2>3. QED
    BY <2>1, <2>2, RowType DEF TypeOK, Terrestrial
<1> SUFFICES ASSUME \A w \in T : w.day # 0, JobsOf(f) = {}
             PROVE  /\ AirlinesIn(T) = {Null}
                    /\ \/ f \in LowFlying
                       \/ \E w \in Satellite(rows, {f}) : w.airline # Null
                       \/ \E v \in T :
                            /\ \A w \in T : v.day <= w.day
                            /\ Cardinality({w \in T : w.day <= v.day + 1}) <= MinNullRows
  OBVIOUS
<1>2. ASSUME NEW w \in T, f \in BqFlights(rows, w.airline, w.day)
      PROVE  LET D == BqAirlineDay(rows, w.airline, w.day) IN
             /\ Skipped(Waypoints(D, f), f, w.airline)
             /\ Terrestrial(D, f) = {u \in T : u.day \in {w.day, w.day + 1}}
  <2> DEFINE D == BqAirlineDay(rows, w.airline, w.day)
  <2>1. /\ f \in FlightsOf(D)
        /\ Terrestrial(D, f) = {u \in T : u.day \in {w.day, w.day + 1}}
    BY <1>1, <1>2, DayOfFlight DEF Terrestrial
  <2> DEFINE j == <<w.airline, w.day>>
  <2>2. j \in Airline \X (Day \ {0}) /\ j[1] = w.airline /\ j[2] = w.day
    BY <1>1
  <2>3. j \notin JobsOf(f)
    OBVIOUS
  <2>4. f \notin Taken(D, w.airline)
    <3> HIDE DEF j
    <3>1. QED
      BY <2>2, <2>3 DEF JobsOf
  <2>5. QED
    BY <2>1, <2>4 DEF Taken
<1> HIDE DEF T
<1>3. ASSUME NEW v \in T, v.airline # Null
      PROVE  FALSE
  <2>1. PICK w \in T : w.airline = v.airline /\ f \in BqFlights(rows, v.airline, w.day)
    BY <1>1, FirstDay DEF T
  <2> DEFINE D == BqAirlineDay(rows, w.airline, w.day)
             W == Waypoints(D, f)
  <2>2. Skipped(W, f, w.airline) /\ Terrestrial(D, f) = {u \in T : u.day \in {w.day, w.day + 1}}
    BY <1>2, <2>1
  <2>3. w \in W
    BY <2>2 DEF Waypoints
  <2>4. AirlinesIn(W) # {Null}
    BY <1>3, <2>1, <2>3 DEF AirlinesIn
  <2>5. QED
    BY <1>3, <2>1, <2>2, <2>4 DEF Skipped
<1>4. AirlinesIn(T) = {Null}
  BY <1>1, <1>3 DEF AirlinesIn
<1>5. PICK v \in T : /\ v.airline = Null
                     /\ \A u \in T : v.day <= u.day
                     /\ f \in BqFlights(rows, v.airline, v.day)
  BY <1>1, <1>3, FirstDay DEF T
<1> DEFINE D == BqAirlineDay(rows, v.airline, v.day)
           W == Waypoints(D, f)
<1>6. /\ Skipped(W, f, v.airline)
      /\ Terrestrial(D, f) = {u \in T : u.day \in {v.day, v.day + 1}}
  BY <1>2, <1>5
<1>7. D \subseteq rows
  BY BqRows
<1>8. /\ Terrestrial(D, f) \subseteq W /\ W \subseteq D /\ IsFiniteSet(W)
  BY <1>7, WaypointsFinite
<1>9. CASE Cardinality(AirlinesIn(W)) > 1
  <2>1. PICK w \in W : w.airline # Null
    BY <1>9, OneAirline DEF AirlinesIn
  <2>2. w \notin T
    BY <1>3, <2>1
  <2>3. w \in Satellite(D, {f})
    BY <1>6, <2>2 DEF Waypoints
  <2>4. w \in Satellite(rows, {f})
    BY <1>7, <2>3 DEF Satellite
  <2>5. QED
    BY <1>4, <2>1, <2>4
<1>10. CASE Cardinality(W) <= MinNullRows
  <2> DEFINE S == {w \in T : w.day <= v.day + 1}
  <2>1. S = Terrestrial(D, f)
    BY <1>1, <1>5, <1>6
  <2>2. S \subseteq W
    BY <1>8, <2>1
  <2> HIDE DEF S, W
  <2>3. /\ Cardinality(S) <= Cardinality(W)
        /\ Cardinality(S) \in Nat /\ Cardinality(W) \in Nat
    BY <1>8, <2>2, FS_Subset, FS_CardinalityType
  <2>4. Cardinality(S) <= MinNullRows
    BY <1>10, <2>3, FlightSelectionAssumption
  <2>5. QED
    BY <1>4, <1>5, <2>4 DEF S
<1>11. CASE f \in LowFlying
  BY <1>4, <1>11
<1>12. QED
  BY <1>6, <1>9, <1>10, <1>11 DEF Skipped

-------------------------------------------------------------------------------
(* From flags to descriptors. *)

LEMMA SubmittedType ==
    ASSUME NEW s \in Submission, NEW t \in Twjds(s)
    PROVE  /\ t.day \in Int \cup {None} /\ t.src \in {"bq", "gcs"}
           /\ t.airline = s.airline /\ t.flights = s.flights /\ t.table = s.table
           /\ t.day \in Days(s) /\ t.job \in Jobs(s)
<1>1. PICK d \in Days(s), j \in Jobs(s) :
        t = [day |-> d, airline |-> s.airline, flights |-> s.flights, job |-> j,
             table |-> s.table, src |-> s.src]
  BY DEF Twjds
<1>2. /\ t.day = d /\ t.job = j /\ t.src = s.src
      /\ t.airline = s.airline /\ t.flights = s.flights /\ t.table = s.table
  BY <1>1
<1>3. d \in Int \cup {None}
  <2>1. CASE s.until = None
    BY <2>1, SubmissionAssumption DEF Days
  <2>2. CASE s.until # None
    <3>1. s.day \in Int /\ s.until \in Int
      BY <2>2, SubmissionAssumption
    <3>2. QED
      BY <2>2, <3>1 DEF Days
  <2>3. QED
    BY <2>1, <2>2
<1>4. QED
  BY <1>2, <1>3, SubmissionAssumption

LEMMA MeantFor ==
    ASSUME NEW s \in Submission, Accepted(s), NEW t \in Twjds(s)
    PROVE  \/ Ways(t.day, t.airline, t.flights, t.job, t.table) = {Way(t)}
           \/ t.job = Blank
           \/ t.airline # None /\ t.day = None
<1> DEFINE meant == Ways(s.day, s.airline, s.flights, s.jobs, s.table)
           named == Ways(t.day, t.airline, t.flights, t.job, t.table)
<1>1. /\ t.airline = s.airline /\ t.flights = s.flights /\ t.table = s.table
      /\ t.day \in Int \cup {None} /\ t.day \in Days(s) /\ t.job \in Jobs(s)
  BY SubmittedType
<1>2. /\ s.day \in Int \cup {None} /\ s.until # None => s.day # None
      /\ s.jobs # None => s.jobs # Blank /\ s.jobs \subseteq JobId \cup {Blank}
  BY SubmissionAssumption
<1>3. Given(s.day) => Given(t.day)
  <2>1. ASSUME s.until # None PROVE t.day \in Int
    <3>1. s.day \in Int /\ s.until \in Int
      BY <1>2, <2>1, SubmissionAssumption
    <3>2. QED
      BY <1>1, <2>1, <3>1 DEF Days
  <2>2. QED
    BY <1>1, <2>1, SubmissionAssumption DEF Days, Given
<1>4. s.day = None => t.day = None
  BY <1>1, <1>2 DEF Days
<1>5. Given(t.job) /\ Given(t.table) => Given(s.jobs) /\ Given(s.table)
  BY <1>1, <1>2 DEF Jobs, Given
<1>6. Given(s.jobs) => t.job = Blank \/ Given(t.job)
  BY <1>1, <1>2, JobSubmissionAssumption DEF Jobs, Given
<1>7. Given(s.day) <=> s.day # None
  BY <1>2, SubmissionAssumption DEF Given
<1>8. /\ "airline" \in meant <=> Given(s.day) /\ Given(s.airline)
      /\ "flights" \in meant <=> Given(s.day) /\ s.flights # {}
      /\ "job" \in meant <=> Given(s.jobs) /\ Given(s.table)
  BY DEF Ways
<1>9. /\ "airline" \in named <=> Given(t.day) /\ Given(t.airline)
      /\ "flights" \in named <=> Given(t.day) /\ t.flights # {}
      /\ "job" \in named <=> Given(t.job) /\ Given(t.table)
      /\ named \subseteq {"airline", "flights", "job"}
  BY DEF Ways
<1>10. s.flights # {} => s.day # None
  BY DEF Accepted
<1>11. PICK w \in {"airline", "flights", "job"} : meant = {w}
  BY DEF Accepted
<1> HIDE DEF meant, named
<1>12. CASE w = "airline"
  <2>1. Given(t.day) /\ Given(t.airline) /\ t.flights = {} /\ ~(Given(t.job) /\ Given(t.table))
    BY <1>1, <1>3, <1>5, <1>8, <1>11, <1>12
  <2>2. named = {"airline"} /\ Way(t) = "airline"
    BY <1>9, <2>1 DEF Way
  <2>3. QED
    BY <2>2 DEF named
<1>13. CASE w = "flights"
  <2>1. /\ Given(t.day) /\ ~Given(t.airline) /\ t.flights # {}
        /\ ~(Given(t.job) /\ Given(t.table))
    BY <1>1, <1>3, <1>5, <1>8, <1>11, <1>13
  <2>2. named = {"flights"} /\ Way(t) = "flights"
    BY <1>9, <2>1 DEF Way
  <2>3. QED
    BY <2>2 DEF named
<1>14. CASE w = "job"
  <2> SUFFICES ASSUME t.job # Blank, t.airline = None \/ t.day # None
               PROVE  named = {Way(t)}
    BY DEF named
  <2>1. t.flights = {} /\ Given(t.job) /\ Given(t.table)
    BY <1>1, <1>6, <1>7, <1>8, <1>10, <1>11, <1>14
  <2>2. ~Given(t.airline)
    <3>1. CASE s.day = None
      BY <1>4, <3>1 DEF Given
    <3>2. CASE s.day # None
      BY <1>1, <1>7, <1>8, <1>11, <1>14, <3>2
    <3>3. QED
      BY <3>1, <3>2
  <2>3. named = {"job"} /\ Way(t) = "job"
    BY <1>9, <2>1, <2>2 DEF Way
  <2>4. QED
    BY <2>3
<1>15. QED
  BY <1>11, <1>12, <1>13, <1>14

-------------------------------------------------------------------------------
(* The inductive invariant.  A fetch was of something readable; one from GCS  *)
(* found whole hours, which stay; one of an airline's day from BigQuery came  *)
(* after that day, whose rows stay unless some come late.                     *)

SubmittedByCall == \A t \in submitted : \E s \in Submission : Accepted(s) /\ t \in Twjds(s)

WholeHours(r) ==
    LET t == r.twjd IN
    /\ Readable(t) /\ r.on <= today
    /\ t.src = "gcs" => Unready(t) = {} /\ r.data = Data(t)

PastDay(r) ==
    LET t == r.twjd
        final == BqAirlineDay(rows, t.airline, t.day)
    IN  Way(t) = "airline" /\ t.src = "bq" =>
        /\ t.day \in Int /\ t.day + 1 <= r.on
        /\ late = 0 =>
            /\ FlightsOf(r.data) = BqFlights(rows, t.airline, t.day)
            /\ r.data \subseteq final
            /\ \A w \in final \ r.data : w.day = t.day + 1 /\ r.on = t.day + 1

Inv ==
    /\ TypeOK
    /\ IsFiniteSet(rows)
    /\ SubmittedByCall
    /\ \A r \in fetched : WholeHours(r) /\ PastDay(r)

LEMMA InitInv == Init => Inv
<1> SUFFICES ASSUME Init PROVE Inv
  OBVIOUS
<1>1. /\ rows = {} /\ today = 0 /\ queue = {} /\ submitted = {} /\ fetched = {}
      /\ late = 0 /\ heats = 0
      /\ cache = [h \in Hour |-> [state |-> "absent", rows |-> {}]]
  BY DEF Init
<1>2. today \in Day /\ late \in 0 .. MaxLate /\ heats \in 0 .. MaxHeats
  BY <1>1, FlightSelectionAssumption DEF Day
<1>3. TypeOK
  BY <1>1, <1>2 DEF TypeOK
<1>4. QED
  BY <1>1, <1>3, FS_EmptySet DEF Inv, SubmittedByCall

LEMMA ArriveType ==
    ASSUME TypeOK, NEW w \in Report, Arrive(w)
    PROVE  TypeOK'
<1>1. /\ rows' = rows \cup {w} /\ late' \in 0 .. MaxLate
      /\ today' = today /\ cache' = cache /\ queue' = queue /\ submitted' = submitted
      /\ fetched' = fetched /\ heats' = heats
  BY FlightSelectionAssumption DEF Arrive, TypeOK, work
<1>2. QED
  BY <1>1 DEF TypeOK

(* A row of the clock's day or a later one changes nothing of a past day but   *)
(* what flies on. *)
LEMMA ArriveKeepsPastDay ==
    ASSUME TypeOK, NEW w \in Report, Arrive(w), NEW r \in fetched, WholeHours(r), PastDay(r)
    PROVE  PastDay(r)'
<1> DEFINE t == r.twjd
           a == t.airline
           d == t.day
           F == BqFlights(rows, a, d)
<1> SUFFICES ASSUME Way(t) = "airline", t.src = "bq"
             PROVE  /\ d \in Int /\ d + 1 <= r.on
                    /\ late' = 0 =>
                        /\ FlightsOf(r.data) = BqFlights(rows', a, d)
                        /\ r.data \subseteq BqAirlineDay(rows', a, d)
                        /\ \A v \in BqAirlineDay(rows', a, d) \ r.data :
                              v.day = d + 1 /\ r.on = d + 1
  BY DEF PastDay
<1>1. /\ d \in Int /\ d + 1 <= r.on /\ r.on <= today /\ r.on \in Int /\ today \in Int
      /\ late = 0 =>
            /\ FlightsOf(r.data) = F
            /\ r.data \subseteq BqAirlineDay(rows, a, d)
            /\ \A v \in BqAirlineDay(rows, a, d) \ r.data : v.day = d + 1 /\ r.on = d + 1
  BY DEF PastDay, WholeHours, TypeOK, Day
<1> SUFFICES ASSUME late' = 0
             PROVE  /\ FlightsOf(r.data) = BqFlights(rows', a, d)
                    /\ r.data \subseteq BqAirlineDay(rows', a, d)
                    /\ \A v \in BqAirlineDay(rows', a, d) \ r.data :
                          v.day = d + 1 /\ r.on = d + 1
  BY <1>1
<1>2. late = 0 /\ w.day = today /\ rows' = rows \cup {w}
  BY FlightSelectionAssumption DEF Arrive, TypeOK
<1>3. w.day # d /\ w.day # d - 1
  BY <1>1, <1>2
<1>4. ASSUME NEW f \in Flight
      PROVE  f \in BqFlights(rows', a, d) <=> f \in F
  BY <1>2, <1>3 DEF BqFlights, Originates
<1>5. BqFlights(rows', a, d) = F
  <2>1. BqFlights(rows', a, d) \subseteq Flight /\ F \subseteq Flight
    BY DEF BqFlights
  <2>2. QED
    BY <1>4, <2>1
<1> HIDE DEF F
<1>6. \A v : v \in BqAirlineDay(rows', a, d) <=>
        /\ v \in rows' /\ v.day \in {d, d + 1}
        /\ v.flight \in F \/ (v.flight = None /\ \E f \in F : v.aircraft = AircraftOf[f])
  BY <1>5 DEF BqAirlineDay, Satellite
<1>7. \A v : v \in BqAirlineDay(rows, a, d) <=>
        /\ v \in rows /\ v.day \in {d, d + 1}
        /\ v.flight \in F \/ (v.flight = None /\ \E f \in F : v.aircraft = AircraftOf[f])
  BY DEF BqAirlineDay, Satellite, F
<1>8. BqAirlineDay(rows, a, d) \subseteq BqAirlineDay(rows', a, d)
  BY <1>2, <1>6, <1>7
<1>9. ASSUME NEW v \in BqAirlineDay(rows', a, d) \ r.data
      PROVE  v.day = d + 1 /\ r.on = d + 1
  <2>1. CASE v \in rows
    BY <1>1, <1>2, <1>6, <1>7, <2>1
  <2>2. CASE v = w
    <3>1. v.day = d + 1
      BY <1>3, <1>6, <2>2
    <3>2. v.day = today
      BY <1>2, <2>2
    <3>3. QED
      BY <1>1, <3>1, <3>2
  <2>3. QED
    BY <1>2, <1>6, <2>1, <2>2
<1>10. QED
  BY <1>1, <1>2, <1>5, <1>8, <1>9

(* Where data comes from the cache, it depends on nothing but the cache. *)
LEMMA ArriveKeepsWholeHours ==
    ASSUME TypeOK, NEW w \in Report, Arrive(w), NEW r \in fetched, WholeHours(r)
    PROVE  WholeHours(r)'
<1>1. today' = today /\ cache' = cache
  BY DEF Arrive
<1>2. ASSUME r.twjd.src = "gcs"
      PROVE  Unready(r.twjd)' = Unready(r.twjd) /\ Data(r.twjd)' = Data(r.twjd)
  <2>1. Cached(r.twjd)' = Cached(r.twjd)
    BY <1>1 DEF Cached
  <2>2. Way(r.twjd) # "flights" /\ Way(r.twjd) \in {"airline", "flights", "job"}
    BY <1>2 DEF WholeHours, Readable, Way
  <2>3. QED
    BY <1>1, <1>2, <2>1, <2>2 DEF Unready, Data
<1>3. QED
  BY <1>1, <1>2 DEF WholeHours

LEMMA ArriveInv ==
    ASSUME Inv, NEW w \in Report, Arrive(w)
    PROVE  Inv'
<1>1. /\ rows' = rows \cup {w} /\ submitted' = submitted /\ fetched' = fetched
  BY DEF Arrive, work
<1>2. TypeOK'
  BY ArriveType DEF Inv
<1>3. IsFiniteSet(rows')
  BY <1>1, FS_AddElement DEF Inv
<1>4. ASSUME NEW r \in fetched PROVE (WholeHours(r) /\ PastDay(r))'
  BY ArriveKeepsPastDay, ArriveKeepsWholeHours DEF Inv
<1>5. SubmittedByCall'
  BY <1>1 DEF Inv, SubmittedByCall
<1>6. QED
  BY <1>1, <1>2, <1>3, <1>4, <1>5 DEF Inv

LEMMA TickInv ==
    ASSUME Inv, Tick
    PROVE  Inv'
<1>1. /\ today' = today + 1 /\ today < LastDay /\ rows' = rows /\ late' = late
      /\ cache' = cache /\ queue' = queue /\ submitted' = submitted /\ fetched' = fetched
      /\ heats' = heats
  BY DEF Tick, work
<1>2. today' \in Day
  BY <1>1, FlightSelectionAssumption DEF Inv, TypeOK, Day
<1>3. TypeOK'
  BY <1>1, <1>2 DEF Inv, TypeOK
<1>4. ASSUME NEW r \in fetched PROVE (WholeHours(r) /\ PastDay(r))'
  <2>1. r.on <= today'
    BY <1>1 DEF Inv, WholeHours, TypeOK, Day
  <2>2. Unready(r.twjd)' = Unready(r.twjd) /\ Data(r.twjd)' = Data(r.twjd)
    BY <1>1 DEF Unready, Data, Cached
  <2>3. QED
    BY <1>1, <2>1, <2>2 DEF Inv, WholeHours, PastDay
<1>5. QED
  BY <1>1, <1>3, <1>4 DEF Inv, SubmittedByCall

(* Hours that were not absent stay as they are. *)
LEMMA HeatInv ==
    ASSUME Inv, NEW now \in 0 .. (DayHours - 1), NEW failed \in SUBSET Flaky, Heat(now, failed)
    PROVE  Inv'
<1>1. /\ heats < MaxHeats /\ heats' = heats + 1
      /\ cache' = [h \in Hour |->
                     IF h[1] <= today /\ cache[h].state = "absent" /\ h \notin failed
                     THEN Snapshot(h, now) ELSE cache[h]]
      /\ rows' = rows /\ today' = today /\ late' = late
      /\ queue' = queue /\ submitted' = submitted /\ fetched' = fetched
  BY DEF Heat, telemetry, work
<1>2. ASSUME NEW h \in Hour
      PROVE  /\ Snapshot(h, now) \in [state : {"absent", "small", "full"}, rows : SUBSET Report]
             /\ \A w \in Snapshot(h, now).rows : w \in rows /\ HourOf(w) = h
  <2>1. rows \subseteq Report
    BY DEF Inv, TypeOK
  <2>2. QED
    BY <2>1 DEF Snapshot
<1>3. /\ cache' \in [Hour -> [state : {"absent", "small", "full"}, rows : SUBSET Report]]
      /\ \A h \in Hour : \A w \in cache'[h].rows : w \in rows' /\ HourOf(w) = h
  <2>1. \A h \in Hour :
          /\ cache[h] \in [state : {"absent", "small", "full"}, rows : SUBSET Report]
          /\ \A w \in cache[h].rows : w \in rows /\ HourOf(w) = h
    BY DEF Inv, TypeOK
  <2>2. QED
    BY <1>1, <1>2, <2>1
<1>4. heats' \in 0 .. MaxHeats
  BY <1>1, FlightSelectionAssumption DEF Inv, TypeOK
<1>5. TypeOK'
  BY <1>1, <1>3, <1>4 DEF Inv, TypeOK
<1>6. ASSUME NEW r \in fetched PROVE (WholeHours(r) /\ PastDay(r))'
  <2> DEFINE t == r.twjd
  <2>1. ASSUME t.src = "gcs"
        PROVE  Unready(t)' = {} /\ r.data = Data(t)'
    <3>1. \A h \in HoursOf(t) : h \in Hour /\ cache[h].state = "full"
      BY <2>1 DEF Inv, WholeHours, Unready, HoursOf, Window
    <3>2. \A h \in HoursOf(t) : cache'[h] = cache[h]
      BY <1>1, <3>1
    <3>3. Cached(t)' = Cached(t)
      BY <3>2 DEF Cached
    <3>4. Unready(t)' = {}
      BY <3>1, <3>2 DEF Unready
    <3>5. Data(t)' = Data(t)
      BY <1>1, <3>3 DEF Data
    <3>6. QED
      BY <2>1, <3>4, <3>5 DEF Inv, WholeHours
  <2>2. QED
    BY <1>1, <2>1 DEF Inv, WholeHours, PastDay
<1>7. QED
  BY <1>1, <1>5, <1>6 DEF Inv, SubmittedByCall

LEMMA SubmitInv ==
    ASSUME Inv, NEW s \in Submission, Submit(s)
    PROVE  Inv'
<1>1. PICK t \in Twjds(s) :
      /\ Accepted(s) /\ queue' = queue \cup {t} /\ submitted' = submitted \cup {t}
      /\ rows' = rows /\ today' = today /\ late' = late /\ cache' = cache
      /\ heats' = heats /\ fetched' = fetched
  BY DEF Submit, telemetry
<1>2. TypeOK'
  BY <1>1 DEF Inv, TypeOK
<1>3. SubmittedByCall'
  BY <1>1 DEF Inv, SubmittedByCall
<1>4. ASSUME NEW r \in fetched PROVE (WholeHours(r) /\ PastDay(r))'
  <2>1. Unready(r.twjd)' = Unready(r.twjd) /\ Data(r.twjd)' = Data(r.twjd)
    BY <1>1 DEF Unready, Data, Cached
  <2>2. QED
    BY <1>1, <2>1 DEF Inv, WholeHours, PastDay
<1>5. QED
  BY <1>1, <1>2, <1>3, <1>4 DEF Inv

LEMMA GiveUpInv ==
    ASSUME Inv, NEW t \in queue, GiveUp(t)
    PROVE  Inv'
<1>1. /\ queue' = queue \ {t} /\ submitted' = submitted
      /\ rows' = rows /\ today' = today /\ late' = late /\ cache' = cache
      /\ heats' = heats /\ fetched' = fetched
  BY DEF GiveUp, telemetry
<1>2. TypeOK'
  BY <1>1 DEF Inv, TypeOK
<1>3. ASSUME NEW r \in fetched PROVE (WholeHours(r) /\ PastDay(r))'
  <2>1. Unready(r.twjd)' = Unready(r.twjd) /\ Data(r.twjd)' = Data(r.twjd)
    BY <1>1 DEF Unready, Data, Cached
  <2>2. QED
    BY <1>1, <2>1 DEF Inv, WholeHours, PastDay
<1>4. QED
  BY <1>1, <1>2, <1>3 DEF Inv, SubmittedByCall

(* What a fetch returns, by the guards on it. *)
LEMMA FetchedNow ==
    ASSUME Inv, NEW t \in queue, ~Refused(t), ~Failing(t)
    PROVE  LET r == [twjd |-> t, on |-> today, data |-> Data(t)]
           IN  /\ r.twjd \in submitted /\ r.on \in Day /\ r.data \subseteq rows
               /\ WholeHours(r) /\ PastDay(r)
<1> DEFINE r == [twjd |-> t, on |-> today, data |-> Data(t)]
<1>1. r.twjd = t /\ r.on = today /\ r.data = Data(t)
  OBVIOUS
<1> HIDE DEF r
<1>2. Readable(t) /\ (t.src = "gcs" => Unready(t) = {})
  BY DEF Failing
<1>3. r.twjd \in submitted /\ r.on \in Day /\ r.data \subseteq rows
  BY <1>1, <1>2, DataRows DEF Inv, TypeOK
<1>4. today \in Nat
  BY DEF Inv, TypeOK, Day
<1>5. WholeHours(r)
  BY <1>1, <1>2, <1>4 DEF WholeHours
<1>6. ASSUME Way(t) = "airline", t.src = "bq"
      PROVE  /\ t.day \in Int /\ t.day + 1 <= today
             /\ r.data = BqAirlineDay(rows, t.airline, t.day)
  <2>1. t.day \in Int
    <3>1. t.day # None
      BY <1>2, <1>6 DEF Readable
    <3>2. t \in submitted
      BY DEF Inv, TypeOK
    <3>3. QED
      BY <3>1, <3>2, SubmittedType DEF Inv, SubmittedByCall
  <2>2. ~TooEarly(t)
    BY <1>2, <1>6 DEF Refused, Readable
  <2>3. QED
    BY <1>1, <1>4, <1>6, <2>1, <2>2 DEF TooEarly, Data
<1>7. ASSUME Way(t) = "airline", t.src = "bq"
      PROVE  FlightsOf(r.data) = BqFlights(rows, t.airline, t.day)
  <2>1. ASSUME NEW f \in Flight
        PROVE  f \in FlightsOf(r.data) <=> f \in BqFlights(rows, t.airline, t.day)
    BY <1>6, <1>7, DayOfFlight DEF Inv
  <2>2. FlightsOf(r.data) \subseteq Flight
    BY <1>3, RowType DEF FlightsOf, Inv, TypeOK
  <2>3. BqFlights(rows, t.airline, t.day) \subseteq Flight
    BY DEF BqFlights
  <2>4. QED
    BY <2>1, <2>2, <2>3
<1>8. PastDay(r)
  BY <1>1, <1>6, <1>7 DEF PastDay
<1>9. QED
  BY <1>3, <1>5, <1>8 DEF r

LEMMA FetchInv ==
    ASSUME Inv, NEW t \in queue, Fetch(t)
    PROVE  Inv'
<1> DEFINE new == [twjd |-> t, on |-> today, data |-> Data(t)]
<1>1. /\ fetched' = fetched \cup {new} /\ queue' = queue /\ submitted' = submitted
      /\ rows' = rows /\ today' = today /\ late' = late /\ cache' = cache
      /\ heats' = heats
  BY DEF Fetch, telemetry
<1>2. /\ new.twjd \in submitted /\ new.on \in Day /\ new.data \subseteq rows
      /\ WholeHours(new) /\ PastDay(new)
  BY FetchedNow DEF Fetch
<1> HIDE DEF new
<1>3. TypeOK'
  BY <1>1, <1>2 DEF Inv, TypeOK
<1>4. ASSUME NEW r \in fetched' PROVE (WholeHours(r) /\ PastDay(r))'
  <2>1. WholeHours(r) /\ PastDay(r)
    BY <1>1, <1>2 DEF Inv
  <2>2. Unready(r.twjd)' = Unready(r.twjd) /\ Data(r.twjd)' = Data(r.twjd)
    BY <1>1 DEF Unready, Data, Cached
  <2>3. QED
    BY <1>1, <2>1, <2>2 DEF WholeHours, PastDay
<1>5. QED
  BY <1>1, <1>3, <1>4 DEF Inv, SubmittedByCall

LEMMA StepInv == Inv /\ [Next]_vars => Inv'
<1> SUFFICES ASSUME Inv, [Next]_vars PROVE Inv'
  OBVIOUS
<1>1. ASSUME NEW w \in Report, Arrive(w) PROVE Inv'
  BY <1>1, ArriveInv
<1>2. CASE Tick
  BY <1>2, TickInv
<1>3. ASSUME NEW now \in 0 .. (DayHours - 1), NEW failed \in SUBSET Flaky, Heat(now, failed)
      PROVE  Inv'
  BY <1>3, HeatInv
<1>4. ASSUME NEW s \in Submission, Submit(s) PROVE Inv'
  BY <1>4, SubmitInv
<1>5. ASSUME NEW t \in queue, GiveUp(t) PROVE Inv'
  BY <1>5, GiveUpInv
<1>6. ASSUME NEW t \in queue, Fetch(t) PROVE Inv'
  BY <1>6, FetchInv
<1>7. CASE UNCHANGED vars
  <2>1. \A t : Unready(t)' = Unready(t) /\ Data(t)' = Data(t)
    BY <1>7 DEF vars, Unready, Data, Cached
  <2>2. QED
    BY <1>7, <2>1 DEF vars, Inv, TypeOK, SubmittedByCall, WholeHours, PastDay
<1>8. QED
  BY <1>1, <1>2, <1>3, <1>4, <1>5, <1>6, <1>7 DEF Next

(* The inductive invariant, whatever the telemetry, the cache and the         *)
(* submissions: every descriptor was called for, a fetch from GCS found whole *)
(* hours, and one from BigQuery misses rows of the day after at most          *)
(* (services.py:90-309; handlers.py:566-746).                                 *)
THEOREM Invariance == Spec => []Inv
  BY InitInv, StepInv, PTL DEF Spec

-------------------------------------------------------------------------------
(* Theorems. *)

(* Telemetry, cache, queue and histories keep their types; a snapshot holds   *)
(* rows of its own hour, and data only rows that have arrived.                *)
THEOREM TypeCorrect == Spec => []TypeOK
<1>1. Inv => TypeOK
  BY DEF Inv
<1>2. QED
  BY <1>1, Invariance, PTL

(* An airline's day from a cache of whole hours is the flights BigQuery       *)
(* yields, and those that resumed after a break over noon to midnight         *)
(* (services.py:139-158; handlers.py:671-746).                                *)
THEOREM GcsYieldsTheFlightsOfBigQuery == Spec => []SourcesAgree
<1>1. Inv => SourcesAgree
  BY SourcesAgreeAt DEF Inv, SourcesAgree
<1>2. QED
  BY <1>1, Invariance, PTL

LEMMA TupleKeys ==
    ASSUME NEW a, NEW b, NEW c, NEW d
    PROVE  /\ <<a>> = <<b>> => a = b
           /\ <<a, b>> = <<c, d>> => a = c /\ b = d
           /\ <<a>> # <<b, c>>
<1>1. <<a>>[1] = a /\ <<b>>[1] = b /\ DOMAIN <<a>> = {1}
  BY SMT
<1>2. DOMAIN <<b, c>> = {1, 2}
  BY SMT
<1>3. <<a>> # <<b, c>>
  <2>1. 1 # 2 /\ 2 \in {1, 2} /\ 2 \notin {1}
    OBVIOUS
  <2>2. QED
    BY <1>1, <1>2, <2>1
<1>4. QED
  BY <1>1, <1>3

(* Two fetches under one marker: of an airline's day both list BigQuery's     *)
(* flights of it, or read the same whole hours; of a job id, the same entry   *)
(* of the lookup table (services.py:379-413).                                 *)
LEMMA SameMarkerSameFlights ==
    ASSUME Inv, NEW r \in fetched, NEW s \in fetched,
           CacheKey(r.twjd) # <<>>, CacheKey(r.twjd) = CacheKey(s.twjd),
           r.twjd.src = s.twjd.src, r.twjd.table = s.twjd.table, Way(r.twjd) = Way(s.twjd),
           Given(r.twjd.job) => Way(r.twjd) = "job"
    PROVE  \/ FlightsOf(r.data) = FlightsOf(s.data)
           \/ r.twjd.src = "bq" /\ late > 0
<1> DEFINE t == r.twjd
           u == s.twjd
<1>1. /\ Readable(t) /\ Readable(u)
      /\ t.src = "gcs" => r.data = Data(t) /\ s.data = Data(u)
  BY DEF Inv, WholeHours
<1>2. Way(t) \in {"airline", "flights", "job"} /\ Way(u) = Way(t)
  BY DEF Way
<1>3. CASE Way(t) = "airline"
  <2>1. ~Given(t.job) /\ Given(t.airline) /\ Given(u.airline)
    BY <1>2, <1>3 DEF Way
  <2>2. CacheKey(t) = <<t.airline, t.day>>
    BY <2>1 DEF CacheKey
  <2>3. CacheKey(u) = <<u.airline, u.day>>
    <3>1. CacheKey(u) = <<u.job>> \/ CacheKey(u) = <<u.airline, u.day>>
      BY <2>1 DEF CacheKey
    <3>2. QED
      BY <2>2, <3>1, TupleKeys
  <2>4. t.airline = u.airline /\ t.day = u.day
    <3>1. <<t.airline, t.day>> = <<u.airline, u.day>>
      BY <2>2, <2>3
    <3>2. QED
      BY ONLY <3>1, TupleKeys
  <2>5. CASE t.src = "gcs"
    <3>1. Cached(t) = Cached(u)
      BY <1>2, <1>3, <2>4 DEF Cached, HoursOf
    <3>2. Data(t) = Data(u)
      BY <1>2, <1>3, <2>4, <2>5, <3>1 DEF Data
    <3>3. QED
      BY <1>1, <2>5, <3>2
  <2>6. CASE t.src = "bq"
    <3>1. late \in Nat
      BY DEF Inv, TypeOK
    <3>2. late = 0 => /\ FlightsOf(r.data) = BqFlights(rows, t.airline, t.day)
                      /\ FlightsOf(s.data) = BqFlights(rows, u.airline, u.day)
      BY <1>2, <1>3, <2>6 DEF Inv, PastDay
    <3>3. QED
      BY <2>4, <2>6, <3>1, <3>2
  <2>7. t.src \in {"bq", "gcs"}
    BY SubmittedType DEF Inv, TypeOK, SubmittedByCall
  <2>8. QED
    BY <2>5, <2>6, <2>7
<1>4. CASE Way(t) = "flights"
  <2>1. ~Given(t.job) /\ ~Given(t.airline)
    BY <1>4 DEF Way
  <2>2. QED
    BY <2>1 DEF CacheKey
<1>5. CASE Way(t) = "job"
  <2>1. ~Given(t.airline) /\ ~Given(u.airline)
    BY <1>2, <1>5 DEF Way
  <2>2. CacheKey(t) = <<t.job>> /\ CacheKey(u) = <<u.job>>
    BY <2>1 DEF CacheKey
  <2>3. t.job = u.job
    BY <2>2, TupleKeys
  <2>4. t.src = "gcs"
    BY <1>1, <1>5 DEF Readable
  <2>5. Cached(t) = Cached(u) /\ Found(t) = Found(u)
    BY <1>2, <1>5, <2>3 DEF Cached, HoursOf, Known, Found
  <2>6. Data(t) = Data(u)
    BY <1>2, <1>5, <2>5 DEF Data
  <2>7. QED
    BY <1>1, <2>4, <2>6
<1>6. QED
  BY <1>2, <1>3, <1>4, <1>5

(* A marker is a position among the same flights at each delivery and at each *)
(* resubmission, unless rows come late (services.py:379-413).                 *)
THEOREM OneMarkerOneListOfFlights == Spec => []MarkerPositionsAgree
<1>1. Inv => MarkerPositionsAgree
  BY SameMarkerSameFlights DEF MarkerPositionsAgree
<1>2. QED
  BY <1>1, Invariance, PTL

(* What a run on an airline's day lacks are rows of the day after, and only   *)
(* when it ran on that day (services.py:100-102).                             *)
THEOREM OnlyTheDayAfterIsMissed == Spec => []EarlyRunsMissOnlyTheDayAfter
<1>1. Inv => EarlyRunsMissOnlyTheDayAfter
  BY DEF Inv, PastDay, EarlyRunsMissOnlyTheDayAfter
<1>2. QED
  BY <1>1, Invariance, PTL

(* No flight of steady reports is worked on twice, for two airlines or two    *)
(* days (services.py:447-492).                                                *)
THEOREM NoFlightTwice == Spec => []PublishedOnce
<1>1. Inv => PublishedOnce
  BY PublishedOnceFor DEF Inv, PublishedOnce
<1>2. QED
  BY <1>1, Invariance, PTL

(* Each flight is worked on for some airline and day, or is of no airline and *)
(* low, of few rows, or beside a satellite's row that names one               *)
(* (services.py:482-513).                                                     *)
THEOREM NoFlightForgotten == Spec => []EveryFlightIsSomeonesJob
<1>1. Inv => EveryFlightIsSomeonesJob
  BY EveryFlightFor DEF Inv, EveryFlightIsSomeonesJob
<1>2. QED
  BY <1>1, Invariance, PTL

(* The factory works on a submission in the way the caller meant, but for an  *)
(* empty line of a file of job ids, and for an airline without a day          *)
(* (pipeline-cli/services.py:69-94).                                          *)
THEOREM FactoryDoesWhatWasMeant == Spec => []SubmittedIsMeant
<1>1. Inv => SubmittedIsMeant
  BY MeantFor DEF Inv, SubmittedByCall, SubmittedIsMeant
<1>2. QED
  BY <1>1, Invariance, PTL
===============================================================================
