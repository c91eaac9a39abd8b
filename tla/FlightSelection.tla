---------------------------- MODULE FlightSelection ----------------------------
(***************************************************************************)
(* Which flights the job factory takes for a descriptor, from which rows.    *)
(* Telemetry arrives in BigQuery; the spire cache in GCS holds a snapshot of *)
(* each hour, taken when the cache heater first asked for it.  An airline's  *)
(* day is read from either, flight ids from BigQuery, a batch job's flights  *)
(* from GCS.  A flight belongs to the day of its first row of the airline.   *)
(*                                                                          *)
(* A row is a flight (None: by satellite), its aircraft, the airline it      *)
(* names (or Null), and its time: a day and a step of the day ("hour").      *)
(***************************************************************************)
EXTENDS JobSubmission

CONSTANTS
    Aircraft,
    AircraftOf,     \* the aircraft of each flight
    Report,         \* rows that may arrive
    LowFlying,      \* flights below 20 000 ft all the way
    Lookup,         \* day and flights of each table's unique job ids
    Flaky,          \* hours whose request the telemetry API may fail to answer
    Submission,     \* flags that callers may submit
    DayHours,       \* hours of a day
    PruneHead,      \* hours left out of the day before, in GCS
    PruneTail,      \* hours left out of the day after, in GCS
    MinNullRows,    \* a flight of no airline needs more waypoints than this
    LastDay,        \* bound: the clock
    Opening,        \* bound: the first day on which callers submit and the heater runs
    MaxRows,        \* bound: rows that arrive
    MaxLate,        \* bound: rows that arrive a day late
    MaxHeats,       \* bound: runs of the cache heater
    MaxOthers,      \* bound: descriptors of other calls at a submission
    MaxFetches      \* bound: fetches that succeed

Day == 0 .. LastDay
Hour == Day \X (0 .. DayHours - 1)
Row == [flight : Flight \cup {None}, aircraft : Aircraft, airline : Airline,
        day : Day, hour : 0 .. DayHours - 1]

ASSUME FlightSelectionAssumption ==
    /\ {DayHours, PruneHead, PruneTail, LastDay, MinNullRows} \subseteq Nat
    /\ PruneHead < DayHours /\ PruneTail < DayHours
    /\ AircraftOf \in [Flight -> Aircraft]
    /\ Report \subseteq Row /\ Flaky \subseteq Hour
    /\ \A w \in Report : w.flight # None => w.aircraft = AircraftOf[w.flight]
    /\ {MaxRows, MaxLate, Opening, MaxHeats, MaxOthers, MaxFetches} \subseteq Nat

(* Flags as the command line yields them: a range of days has a first day.   *)
ASSUME SubmissionAssumption ==
    /\ {None, Blank} \cap Int = {}
    /\ \A s \in Submission :
          /\ {s.day, s.until} \subseteq Int \cup {None}
          /\ s.until # None => s.day # None
          /\ s.airline \in Airline \cup {None} /\ s.flights \subseteq Flight
          /\ s.jobs # None => s.jobs # Blank /\ s.jobs \subseteq JobId \cup {Blank}
          /\ s.table \in Table \cup {None}
          /\ s.src \in {"bq", "gcs"}

VARIABLES
    rows,           \* the telemetry in BigQuery
    today,          \* the clock's day
    cache,          \* the spire cache
    queue,          \* descriptors on their way to the factory
    submitted,      \* history: descriptors published by the CLI
    fetched,        \* history: what each fetch returned, and when
    late, heats     \* history: rows that came late, runs of the heater

vars == <<rows, today, cache, queue, submitted, fetched, late, heats>>
telemetry == <<rows, today, late>>
work == <<queue, submitted, fetched>>

HourOf(w) == <<w.day, w.hour>>
Before(v, w) == v.day < w.day \/ (v.day = w.day /\ v.hour < w.hour)
FlightsOf(D) == {w.flight : w \in D} \ {None}
Satellite(D, F) == {w \in D : w.flight = None /\ \E f \in F : w.aircraft = AircraftOf[f]}

-------------------------------------------------------------------------------
(* Queries: BigQuery. *)

(* Variant: the day before is not looked at. *)
OriginatesAnew(C, d) == \E w \in C : w.day = d

(* Of the rows of the day and the day before, the first is on the day. *)
Originates(C, d) == (\E w \in C : w.day = d) /\ \A w \in C : w.day # d - 1

BqFlights(R, a, d) ==
    {f \in Flight : Originates({w \in R : w.flight = f /\ w.airline = a}, d)}

BqAirlineDay(R, a, d) ==
    LET F == BqFlights(R, a, d)
        D == {w \in R : w.day \in {d, d + 1}}
    IN  {w \in D : w.flight \in F} \cup Satellite(D, F)

(* Whatever the ids' aircraft did between the first and the last row of any. *)
BqFlightIds(R, F, d) ==
    LET D == {w \in R : w.day \in {d, d + 1}}
        M == {w \in D : w.flight \in F}
    IN  {w \in D : /\ \E v \in M : v.aircraft = w.aircraft
                   /\ (\E v \in M : ~Before(w, v)) /\ (\E v \in M : ~Before(v, w))}

-------------------------------------------------------------------------------
(* Queries: GCS. *)

(* Variant: nothing of the day before is read. *)
WindowOfDay(d) == {h \in Hour : h[1] = d \/ (h[1] = d + 1 /\ h[2] < DayHours - PruneTail)}

Window(d) ==
    {h \in Hour : \/ h[1] = d - 1 /\ h[2] >= PruneHead
                  \/ h[1] = d
                  \/ h[1] = d + 1 /\ h[2] < DayHours - PruneTail}

(* Hour by hour, the flights seen with the airline, and its satellite rows. *)
Kept(R, a) ==
    {w \in R : IF w.flight = None THEN w.airline = a
               ELSE \E v \in R : /\ v.flight = w.flight /\ v.airline = a
                                 /\ HourOf(v) = HourOf(w)}

(* The first kept row is on the day. *)
GcsFlights(K, d) ==
    {f \in Flight : /\ \E w \in K : w.flight = f /\ w.day = d
                    /\ \A w \in K : w.flight = f => w.day >= d}

GcsAirlineDay(R, a, d) ==
    LET K == Kept(R, a)
        F == GcsFlights(K, d)
    IN  {w \in K : w.flight \in F} \cup Satellite(K, F)

GcsFlightIds(R, F) == {w \in R : w.flight \in F \cup {None}}

-------------------------------------------------------------------------------
(* What is taken for a flight, and the filters on its airlines. *)

Terrestrial(D, f) == {w \in D : w.flight = f}

(* Rows of the flight's aircraft by satellite, between its first and last.   *)
Waypoints(D, f) ==
    LET T == Terrestrial(D, f) IN
    T \cup {w \in Satellite(D, {f}) : (\E v \in T : Before(v, w)) /\ \E v \in T : Before(w, v)}

AirlinesIn(W) == {w.airline : w \in W}

(* Variant: two airlines are one too many for every job. *)
SkippedByAnyJob(W, f, a) ==
    \/ Cardinality(AirlinesIn(W)) > 1
    \/ a = Null /\ Cardinality(W) <= MinNullRows
    \/ AirlinesIn(W) = {Null} /\ f \in LowFlying

Skipped(W, f, a) ==
    \/ a = Null /\ Cardinality(AirlinesIn(W)) > 1
    \/ a = Null /\ Cardinality(W) <= MinNullRows
    \/ AirlinesIn(W) = {Null} /\ f \in LowFlying

(* The flights of a fetch that go on to quality control. *)
Taken(D, a) == {f \in FlightsOf(D) : ~Skipped(Waypoints(D, f), f, a)}

-------------------------------------------------------------------------------
(* A fetch. *)

Known(t) == <<t.table, t.job>> \in DOMAIN Lookup
Found(t) == Lookup[<<t.table, t.job>>]

HoursOf(t) ==
    IF Way(t) = "airline" THEN Window(t.day)
    ELSE {h \in Hour : Known(t) /\ h[1] \in {Found(t).day, Found(t).day + 1}}

Unready(t) == {h \in HoursOf(t) : cache[h].state # "full"}

(* _verify_spire_cache goes through the hours in order: a small one before    *)
(* any that is absent is a permanent failure, an absent one is not.           *)
TooSmall(t) ==
    \E h \in Unready(t) :
        /\ cache[h].state = "small"
        /\ \A g \in Unready(t) : g[1] > h[1] \/ (g[1] = h[1] /\ g[2] >= h[2])

(* Variant: a day is asked for before it has begun. *)
TooEarlyByOne(t) == today < t.day

TooEarly(t) == today < t.day + 1

Readable(t) ==
    CASE Way(t) = "airline" -> t.day # None
      [] Way(t) = "flights" -> t.day # None /\ t.src = "bq"
      [] Way(t) = "job" -> t.src = "gcs"

(* PermanentFailureException: main acks the descriptor. *)
Refused(t) ==
    \/ ~Verify(t)
    \/ Way(t) # "job" /\ t.day # None /\ TooEarly(t)
    \/ Readable(t) /\ Way(t) = "job" /\ ~Known(t)
    \/ Readable(t) /\ t.src = "gcs" /\ TooSmall(t)

(* Any other exception: main nacks. *)
Failing(t) == ~Refused(t) /\ (Readable(t) => t.src = "gcs" /\ Unready(t) # {})

Cached(t) == UNION {cache[h].rows : h \in HoursOf(t)}

Data(t) ==
    CASE Way(t) = "airline" -> IF t.src = "bq" THEN BqAirlineDay(rows, t.airline, t.day)
                               ELSE GcsAirlineDay(Cached(t), t.airline, t.day)
      [] Way(t) = "flights" -> BqFlightIds(rows, t.flights, t.day)
      [] Way(t) = "job" -> GcsFlightIds(Cached(t), Found(t).flights)

-------------------------------------------------------------------------------

TypeOK ==
    /\ rows \subseteq Report
    /\ today \in Day
    /\ cache \in [Hour -> [state : {"absent", "small", "full"}, rows : SUBSET Report]]
    /\ \A h \in Hour : \A w \in cache[h].rows : w \in rows /\ HourOf(w) = h
    /\ \A t \in queue : t \in submitted
    /\ \A r \in fetched : r.twjd \in submitted /\ r.on \in Day /\ r.data \subseteq rows
    /\ late \in 0 .. MaxLate /\ heats \in 0 .. MaxHeats

Init ==
    /\ rows = {} /\ today = 0
    /\ cache = [h \in Hour |-> [state |-> "absent", rows |-> {}]]
    /\ queue = {} /\ submitted = {} /\ fetched = {}
    /\ late = 0 /\ heats = 0

(* The ingest jobs add a row of today's, or, having been behind, yesterday's. *)
Arrive(w) ==
    /\ w \in Report \ rows
    /\ Cardinality(rows) < MaxRows
    /\ \/ w.day = today /\ UNCHANGED late
       \/ w.day = today - 1 /\ late < MaxLate /\ late' = late + 1
    /\ rows' = rows \cup {w}
    /\ UNCHANGED <<today, cache, work, heats>>

Tick ==
    /\ today < LastDay
    /\ today' = today + 1
    /\ UNCHANGED <<rows, late, cache, work, heats>>

(* What the telemetry API caches for an hour when today's hour `now` is      *)
(* under way: its rows so far, or next to nothing when it is yet to come.     *)
Snapshot(h, now) ==
    IF h[1] < today \/ h[2] <= now
    THEN [state |-> "full", rows |-> {w \in rows : HourOf(w) = h}]
    ELSE [state |-> "small", rows |-> {}]

(* Variant: hours that are in the cache are asked for, too. *)
HeatAll(now, failed) ==
    /\ heats < MaxHeats /\ today >= Opening
    /\ heats' = heats + 1
    /\ cache' = [h \in Hour |->
                   IF h[1] <= today /\ h \notin failed THEN Snapshot(h, now) ELSE cache[h]]
    /\ UNCHANGED <<telemetry, work>>

(* Every hour that is not in the cache is asked for; a request that fails is  *)
(* only printed.                                                              *)
Heat(now, failed) ==
    /\ heats < MaxHeats /\ today >= Opening
    /\ heats' = heats + 1
    /\ cache' = [h \in Hour |->
                   IF h[1] <= today /\ cache[h].state = "absent" /\ h \notin failed
                   THEN Snapshot(h, now) ELSE cache[h]]
    /\ UNCHANGED <<telemetry, work>>

(* A call that is not accepted raises and publishes nothing; one that is      *)
(* publishes its descriptors one by one, and may be stopped before the last.  *)
Submit(s) ==
    /\ Cardinality(submitted \ Twjds(s)) <= MaxOthers /\ today >= Opening
    /\ Accepted(s)
    /\ \E t \in Twjds(s) :
          /\ queue' = queue \cup {t}
          /\ submitted' = submitted \cup {t}
    /\ UNCHANGED <<telemetry, cache, heats, fetched>>

(* A permanent failure is acked; what keeps failing is dead-lettered. *)
GiveUp(t) ==
    /\ t \in queue
    /\ Refused(t) \/ Failing(t)
    /\ queue' = queue \ {t}
    /\ UNCHANGED <<telemetry, cache, heats, submitted, fetched>>

(* The data is fetched.  The descriptor stays: it may be delivered again.     *)
Fetch(t) ==
    /\ t \in queue
    /\ Cardinality(fetched) < MaxFetches
    /\ ~Refused(t) /\ ~Failing(t)
    /\ fetched' = fetched \cup {[twjd |-> t, on |-> today, data |-> Data(t)]}
    /\ UNCHANGED <<telemetry, cache, heats, queue, submitted>>

Next ==
    \/ \E w \in Report : Arrive(w)
    \/ Tick
    \/ \E now \in 0 .. DayHours - 1, failed \in SUBSET Flaky : Heat(now, failed)
    \/ \E s \in Submission : Submit(s)
    \/ \E t \in queue : GiveUp(t) \/ Fetch(t)

Spec == Init /\ [][Next]_vars

-------------------------------------------------------------------------------
(* Properties. *)

Fresh(d) ==
    \A h \in Window(d) :
        cache[h] = [state |-> "full", rows |-> {w \in rows : HourOf(w) = h}]

(* Flights of the morning before that were silent all afternoon. *)
Resumed(a, d) ==
    {f \in Flight :
        LET C == {w \in rows : w.flight = f /\ w.airline = a} IN
        /\ \E w \in C : w.day = d
        /\ \E w \in C : w.day = d - 1
        /\ \A w \in C : w.day = d - 1 => w.hour < PruneHead}

(* From a cache of whole hours GCS yields the flights BigQuery yields for an  *)
(* airline's day, and besides those that took a break over noon to midnight   *)
(* of the day before, which BigQuery gives to that day (services.py:139-158   *)
(* "emulates the logic in the SQL query"; handlers.py:671-746).               *)
SourcesAgree ==
    \A a \in Airline, d \in Day \ {0} :
        Fresh(d) =>
            GcsFlights(Kept(UNION {cache[h].rows : h \in Window(d)}, a), d)
                = BqFlights(rows, a, d) \cup Resumed(a, d)

(* Fetches under one marker list the same flights, for the marker is a        *)
(* position among them: however telemetry and the cache grow, whether a       *)
(* descriptor is retried or submitted twice (services.py:379-413).  What can  *)
(* part them: rows that come late, sources or tables that differ, and a job   *)
(* id beside another way to name flights.                                     *)
MarkerPositionsAgree ==
    \A r, s \in fetched :
        LET t == r.twjd
            u == s.twjd
        IN  /\ CacheKey(t) # <<>> /\ CacheKey(t) = CacheKey(u)
            /\ t.src = u.src /\ t.table = u.table /\ Way(t) = Way(u)
            /\ Given(t.job) => Way(t) = "job"
            => \/ FlightsOf(r.data) = FlightsOf(s.data)
               \/ t.src = "bq" /\ late > 0

(* Only a run on the very day after works on flights that go on: what its     *)
(* data lacks of what telemetry tells in the end are rows of that day         *)
(* (services.py:100-102: "at least 1 day in the past").                       *)
EarlyRunsMissOnlyTheDayAfter ==
    \A r \in fetched :
        LET t == r.twjd
            final == BqAirlineDay(rows, t.airline, t.day)
        IN  Way(t) = "airline" /\ t.src = "bq" /\ late = 0 =>
                /\ r.data \subseteq final
                /\ \A w \in final \ r.data : w.day = t.day + 1 /\ r.on = t.day + 1

(* A flight whose rows of one airline are on all of its days, without a day   *)
(* between, and beside which only Null occurs. *)
Steady(f) ==
    \E a \in Airline :
        LET C == Terrestrial(rows, f) IN
        /\ AirlinesIn(C) \subseteq {a, Null}
        /\ \A v, w \in C : \A d \in v.day .. w.day : \E u \in C : u.day = d /\ u.airline = a

(* The airline's days on which the flight goes on to quality control. *)
JobsOf(f) ==
    {j \in Airline \X (Day \ {0}) : f \in Taken(BqAirlineDay(rows, j[1], j[2]), j[1])}

(* No flight of steady reports is worked on for two airlines or two days: not *)
(* across midnight, nor when some of its rows name no airline (the SQL's      *)
(* ranks; services.py:447-492).                                               *)
PublishedOnce ==
    \A f \in Flight : Steady(f) =>
        \A i, j \in JobsOf(f) : i = j

(* Every flight is worked on for some airline and day, unless no row of it    *)
(* names an airline and it flies low, or has few rows on its first two days,  *)
(* or a satellite's row of its aircraft names an airline (services.py:482-513).*)
EveryFlightIsSomeonesJob ==
    \A f \in FlightsOf(rows) :
        LET T == Terrestrial(rows, f) IN
        \/ \E w \in T : w.day = 0
        \/ JobsOf(f) # {}
        \/ /\ AirlinesIn(T) = {Null}
           /\ \/ f \in LowFlying
              \/ \E w \in Satellite(rows, {f}) : w.airline # Null
              \/ \E v \in T : /\ \A w \in T : v.day <= w.day
                              /\ Cardinality({w \in T : w.day <= v.day + 1}) <= MinNullRows

(* What the CLI accepts the factory verifies and works on in the way that     *)
(* was meant, but for an empty line of a file of job ids, and for an airline  *)
(* without a day beside a job id (pipeline-cli/services.py:69-94).            *)
SubmittedIsMeant ==
    \A t \in submitted :
        \/ Ways(t.day, t.airline, t.flights, t.job, t.table) = {Way(t)}
        \/ t.job = Blank
        \/ t.airline # None /\ t.day = None

-------------------------------------------------------------------------------
(* services.py:469-470: "skip a flight if we observe any non-null airline     *)
(* iata waypoints for a null airline-iata job".                               *)
NullJobsTakeNullFlights ==
    \A r \in fetched :
        r.twjd.airline = Null =>
            \A f \in Taken(r.data, Null) :
                r.twjd.src = "gcs" => AirlinesIn(Terrestrial(Cached(r.twjd), f)) = {Null}
===============================================================================
