# flights-pipeline: TLA+ models, model checks and proofs

This directory specifies the control logic of the flights pipeline: the jobs
that ingest aircraft telemetry from Spire, the services that turn it into
trajectories and run the CoCiP contrail model on them, the job that loads the
results into Postgres, and the command with which operators submit and rescue
work. Paths below are those of the repository, without
the leading `src/`.

1. [The system](#1-the-system)
2. [The plan](#2-the-plan)
3. [The modules](#3-the-modules)
4. [The runs](#4-the-runs)
5. [The proofs](#5-the-proofs)
6. [Where code and documents disagree](#6-where-code-and-documents-disagree)
7. [What is not modelled](#7-what-is-not-modelled)

## 1. The system

```
 Spire --> spire-ingest-api-scraper --> topic --> BigQuery (telemetry)
   \-----> spire-raw-batch -----------> bucket        |
                                                      v
 pipeline-cli --> descriptors --> trajectory-worker-job-factory (TWJF)
                                        |  Redis: progress markers
                                        v
                       chunks --> trajectory-worker (TW), primary pods
                                        |  forwards what keeps failing
                                        v
                 backup chunks --> trajectory-worker, backup pods
                                        |
                                        v
                       topic --> BigQuery (results) --> export
                       bucket (trajectories)              |
                                                          v
                                                bq-to-postgres-util --> Postgres
```

Every arrow between services is a Pub/Sub topic, a bucket or a table: services
share no memory. Inside of a pod there is a main thread, a thread that extends
the lease of the message in work, and the Pub/Sub client's threads that
resolve publish futures.

| component | state | operations | what is hard |
|---|---|---|---|
| spire-raw-batch | Firestore marker; one file per five-minute window | start, fetch a window with retries, write its file, move the marker | a kill between any two of them; files are overwritten; data that Spire makes available late, or leaves out of a later answer |
| spire-ingest-api-scraper | Firestore marker; the topic | concurrent one-minute requests, publishing without waiting under flow control, wait for the futures, move the marker | a failed future ends the process from another thread, which races with the marker; SIGTERM; partial failure of the requests |
| TWJF, messages | subscription with leases; Redis marker per key | receive, verify, fetch, fast-forward, per flight: quality control, move the marker, publish; remove the marker, ack, nack | at-least-once delivery, lapsed leases (two pods, one marker), descriptors that share a key, expired markers, a death between marker and publish, failures of one flight |
| TWJF, telemetry sources | BigQuery; the hourly cache in a bucket | the query of an airline's day or of flight ids, the read of a window of the cache, the merge with satellite data, the filters on airlines | two sources that should agree, late rows, hours cached while under way, days and pruned hours at midnight |
| TWJF, quality control | the waypoints of one flight | unify attributes, order, filter altitudes and speeds, add airports, resample, mark imputed minutes, validate | filters that undo each other's work, gaps that meet, waypoints nobody observed |
| TW | two subscriptions with exactly-once delivery; results | receive, forward, run, publish, upload, ack, nack | out-of-memory kills, forwarding against dead-lettering, failed futures after the ack, duplicates |
| TW, meteorology | the stores of one delivery | choose an HRES run; choose ERA5 days | the choice depends on the clock; boundaries of half hours and days |
| bq-to-postgres-util | partitions, three tables | check, create partitions, COPY twice, upsert in batches, per shard | every write is a transaction of its own; failing, killed and repeated runs |
| pipeline-cli, submission | none; publishes descriptors | check the flags, a descriptor per day and line | the CLI, `verify` and `run` each have their own view of what a descriptor asks for |
| pipeline-cli, reinjection | the dead-letter queue | pull, publish, wait, ack | leases are not extended, runs may overlap, and one letter that cannot be decoded stops a run |
| spire-cache-heater | the hourly cache | ask for each hour that is absent | an hour is cached once and for all, whole or not |
| inventory-cache, proxy, playbook, infrastructure | none that outlives a run | | |

What makes each component correct:

- **raw batch, ingest**: the marker never passes data that was read and is not
  stored; it passes over every window in order; a repeated window costs its file
  nothing but what Spire itself leaves out of the second answer; the marker
  catches up with the clock.
- **TWJF**: when a descriptor leaves the queue, something is known to have
  become of each of its flights; a death costs at most the flight in hand; the
  marker makes duplicates the exception; every descriptor leaves the queue.
- **telemetry sources**: BigQuery and the cache give the same flights for a
  day; every flight is the job of exactly one airline and day; two fetches
  under one marker list the same flights.
- **quality control**: what is published is clean, was observed or is marked as
  imputed, and few stray values cost no flight.
- **TW**: a chunk leaves the queues only with its results out, or as a dead
  letter; duplicates need failures; a chunk too heavy for primary pods gets to
  the backup pods before it is dead-lettered.
- **meteorology**: the forecast loaded exists, begins before the chunk and
  outlasts its contrails; the reanalysis days cover the simulation.
- **pipeline-cli**: what is accepted is worked on in the way that was meant; a
  dead letter leaves its queue only once it is back in the
  worker's; one is published twice only after a run that did not end well.
- **Postgres**: the histogram counts no flight twice; what a run does not
  report as failed is in every table; no COPY lacks a partition.

The hazards behind these properties, each at its line of the code and with the
properties that would catch it, are listed in `PROJECT.json`.

## 2. The plan

The order is by what a mistake would cost: lost or doubly counted flights
first, the choice of data next, the operators' tools last.

| module | abstract / composes | runs | theorems |
|---|---|---|---|
| `ProgressMarker` | abstract promise of both Spire jobs | as a property | refinements, below |
| `RawBatch` | implements `ProgressMarker` | `raw_batch` | types, archive, refinement |
| `IngestScraper` | implements `ProgressMarker` | `ingest` | types, `LostOnlyIfRefused`, refinement |
| `JobFactory` | several descriptors over one marker | `factory`, `factory_forward` | types and all four safety properties |
| `TrajectoryWorker` | both deployments over both subscriptions | `worker` | types and all three safety properties |
| `MetStores` | | `met_stores` | all three properties |
| `PostgresLoader` | | `postgres` | types and all three properties |
| `Reinject` | | `reinject` | types and both safety properties |
| `JobSubmission` | operators of `FlightSelection` | | |
| `FlightSelection` | telemetry, cache heater, submissions and fetches | `selection`, `selection_null` | types and all six properties |
| `TrajectoryQuality` | | `quality`, `quality_imputed` | types and all four properties |

All of it is done. Left, in this order:

1. `Pipeline`: `JobFactory`'s topic as `TrajectoryWorker`'s subscription, and
   its dead letters as `Reinject`'s queue; abstract: each flight is published,
   ejected or reported. The product of the components' states is beyond TLC as
   they stand; it takes abstract versions of the three that each of them is
   shown to implement, as the Spire jobs implement `ProgressMarker`.
2. Rows that Spire returns for another window than the one asked for.

## 3. The modules

All models follow the same conventions. A pod's `pc` names the point its main
thread has reached, one action stands for what happens between two effects on
shared state, and a pod's death (`PodDies`, `Killed`) resets everything local:
only what is outside of the process survives. A publish future that is pending
when a process dies may yet be accepted. Histories (marked as such) are
written and never read by actions. Constants named *bound* only keep the state
space finite; the theorems hold for every value of them. Operators commented
as *Variant* are wrong versions of the definition that follows; no behaviour
uses them. They are there to see that a property notices the mistake.

### ProgressMarker

What both Spire jobs promise with `last_sync_end_at`: records are read, stored,
and the marker moves forward over nothing that was not asked for and over no
record that was read and is not stored. Spire may take a record back
(`TakeBack`), and a job may then lose it, at any time in the abstract promise.
Time is Spire's ingestion time in ticks; a record is its tick.

### RawBatch (`spire-raw-batch/`)

`StartPod` is `main` up to the loop: the marker is floored to the minute and
then to the five-minute grid, so a first marker off the grid makes the first
window begin before it. `Fetch` and `RetryFetch` are the request with its
retries; a request that fails for good, like every other exception, ends the
run (`PodDies`). An empty window skips `WriteParquet` but not `SetMarker`.
`SpireIngests` adds a record of any past tick at any time: Spire delivers late.
`SpireWithdraws` leaves one out of all later answers, as nothing in the code
rules this out: the file is overwritten without a look at it, so that a second
answer may cost it records. `ArchiveLosesOnlyWithdrawn` says that nothing else
does, neither a failed request nor one that breaks off, and that no file
changes for the worse once the marker has passed its window.
The kill of a pod can come between any two actions. The CronJob forbids
concurrent pods (`concurrencyPolicy: Forbid`), so there is one.

### IngestScraper (`spire-ingest-api-scraper/`)

One action per one-minute request's answer (`FetchMinute`), per retry, per row
submitted (`PublishAsync`, which blocks at the flow-control limit) and per
future resolved. `Gathered` is the point after `gather`: an empty window is
passed over without moving the marker, and otherwise the rows are filtered.
`FutureFails` marks the process as doomed and `CallbackExits` is its
`os._exit(1)`: `concurrent.futures.wait` is woken before callbacks run, so
`WaitReturns` and `SetMarker` may come in between. `SIGTERM` is looked at only
at the top of the loop. Rows that `filter_ingest_rules` drops are those not in
`Useful`. Since an outage of Spire, records outside of the requested window are
kept (`lib/spire.py:100-116`); the model's answers hold only records in it.

### JobFactory (`trajectory-worker-job-factory/`)

A message holds a descriptor (TWJD), a constant record of the fields that matter
to `verify` and to the cache key; which messages callers publish together is one
of `Batches`. A descriptor's flights are positions, and `Verdicts` says what
quality control makes of each: good, ejected, unbuildable (an exception while
its job is put together is logged and skipped) or poison (an exception that
reaches `main`). `Receive` ... `Ack` follow `main.run` and
`TrajectoryBuilderSvc.run`: `Begin` reads the marker after the data has been
fetched, `NextFlight` is one turn of the loop up to where the flight is left or
its job is built, `PushMarker` and `PublishAsync` are in the code's order:
marker first. Exceptions of either are logged and the loop goes on (`PushFails`,
`PublishFails`); a failed future is the race described above (`FutureFails`,
`CallbackExits`). `Reject` acks, as the code does for a
`PermanentFailureException`; `DecodeFails` ends the process, as `from_utf8_json`
is called outside of the `try`.

The subscription is at-least-once. `LeaseEnds` is the lease of a pod that died
or nacked, or, at the cost of one error, of a pod that works on and whose
extension failed; the message is ready again or, after `MaxDeliveries`
deliveries, dead. An ack after the lease's end may or may not count.
`MarkerExpires` is Redis's time-to-live (four hours) as a nondeterministic
event.

The key names a job id, or an airline and a day, and the source of meteorology,
and nothing else of a descriptor: two descriptors may share a marker, and a dry
run's marker lets the real run skip flights that were only rehearsed. `Fellows`
are the descriptors of one key. `worked` has the flights that a run of a
descriptor took in hand, `skipped` those it fast-forwarded over.
`AckedIsAccounted` asks of each flight of an acked descriptor that a run of the
descriptor took it in hand and that it was published, ejected or given up by a
named failure. The only exception is a flight that was fast-forwarded over and
for which the same holds of a fellow that was submitted too. A fellow that no
run has worked on accounts for nothing, so a marker that is read by another
day's descriptor is noticed. `LossBounded` and `ResentNeedsRelapse` are stated
for descriptors none of whose fellows has been submitted (`Unshared`).

Data is the same at each fetch of a descriptor, which the marker's positions
rely on. When this is so is the subject of `MarkerPositionsAgree` in
`FlightSelection`.

### JobSubmission and FlightSelection (`pipeline-cli/`, the TWJF's `lib/services.py:90-513` and `lib/handlers.py:566-746`, `spire-cache-heater/`)

`JobSubmission` has the flags of a submission, the CLI's check (`Accepted`),
the descriptors it makes of them (`Twjds`), the factory's `Verify`, the order
in which `run` looks for the way flights are named (`Way`) and the marker's
key.

`FlightSelection` puts them to work. Rows arrive on their day or, within a
bound, a day late (`Arrive`); a row without a flight is a satellite's. `Heat` is
one run of the cache heater: every absent hour is asked for and cached as it is
then, which may be *small* when the hour has not come yet, and lacks the rest
when it is under way; requests may fail. `Submit` publishes one descriptor of a
call, and a call may end before its last one, `GiveUp` is a refused or a failing
one, and `Fetch` reads the data by one of the queries: `BqAirlineDay` and
`BqFlightIds` are the SQL, `GcsAirlineDay` and `GcsFlightIds` the handler of the
bucket with its pruned hours. A fetch leaves the descriptor in the queue, as it
may be delivered again. `Taken` is what the filters let pass.

An hour of the model is a step of the day and a day has `DayHours` of them; the
twelve and seven hours that the code prunes are `PruneHead` and `PruneTail`.

### TrajectoryQuality (the TWJF's `lib/handlers.py:787-1268` and `lib/services.py:517-741`)

One flight from its rows to the validated trajectory, an action per stage:
`Unify`, `Order`, `SpeedPass` until nothing changes or the passes are used up
(`SpeedsSettle`, which adds the airports' waypoints), `Resample`, `Mark`,
`Validate`; `StepRaises` at any of them. The route is a line instead of the
globe: distances are differences. The time to an airport is computed from the
speed of the nearest segment, where the code takes the waypoint's smoothed
ground speed. What pycontrails does inside of a stage
(interpolation, what each violation measures) is external; its outcome is
nondeterministic where the code depends on it.

### TrajectoryWorker (`trajectory-worker/`)

Both deployments run the same actions; `Primary` pods forward what is
delivered for the third time (`MustForward`). Each time the backup topic
accepts a chunk there is one more copy on the backup subscription. A chunk's
`Kind` says what becomes of it; the constructor's and `run`'s ways out are
`Skip`, `RunSkips`, `RunRaises`, `RunFails`, `OutOfMemory` and `RunSucceeds`.
`SummaryDone`, `Upload` and `FlushDone` are the publish of the summary with its
wait, the publish of the segments and the upload, and the last wait before the
ack. `Ack` without the lease is refused, and a failing acknowledge call is
swallowed (`AckFails`); with exactly-once delivery an ack counts only while the
lease holds.

### MetStores (`trajectory-worker/lib/handlers.py:538-747`)

The HRES run is the six-hour floor of half an hour before the first waypoint,
or the latest run delivered when that one is not there yet; the ERA5 days go
from the first waypoint's to that of the last waypoint plus `max_age` plus half
an hour. Every delivery chooses again with a later clock.

Two assumptions on the data are named. `MetStoresAssumption`: a chunk is not
loaded before its last waypoint's time (telemetry is from the past).
`HorizonAssumption`: no chunk plus contrail life is longer than a forecast
covers. The docstring at 566-573 speaks of a check of the forecast's end; the
code has none, so the end is covered only under this assumption.

### Reinject (`pipeline-cli/`, `flights reinject`)

Each run of the command is a process: `Fetch` is the one pull, of some ready
letters in some order; `PublishNext` is a turn of the first loop, which blocks
at the publisher's flow limit (and only advances in a dry run); `AllPublished`,
`WaitReturns`, `AckNext` and `Done` are the wait and the second loop, one ack
at a time. `DecodeFails` is `from_utf8_json` raising in the middle of the first
loop: what was published before stays published, and nothing is acked.
`FuturesFail` and `CallbackExits` are the race described for the other
publishers. The subscription is at-least-once with a deadline of 60 seconds
that nothing extends: `LeaseLapses` may take a letter back from a run that goes
on, and its ack may then count or not, also while another run has the letter.
The publishes on which the bounds on duplicates rest are one per future: what
Google's client repeats below a future is not modelled.

### PostgresLoader (`bq-to-postgres-util/`)

`Start` is everything up to the first shard: date ranges are extracted and
old ones refused, and all missing partitions are committed at once, or the run
ends. `Read`, `CopyMain`, `CopyMeta`, `UpsertBatch` and `ShardDone` are the
shard's transactions; `MainRefused` is a COPY that breaks the primary key or
has no partition. `WriteFails` and `Killed` leave a transaction rolled back, or
committed without the client learning of it. Runs repeat without end, over any
set of paths. Months all have `MonthDays` days: what matters is that a range is
half-open and that records may lie outside of their path's period. Conversions
of columns (NULs, NaNs, JSON) do not influence control and are left out.

## 4. The runs

| run | asks | instance |
|---|---|---|
| `raw_batch` | `ReadIsArchived`, `ArchiveLosesOnlyWithdrawn`, `MarkerContiguous` (refinement), `CatchesUp` | windows of 4 ticks, a first marker off the grid, late records, 1 withdrawn, 2 faults |
| `ingest` | `LostOnlyIfRefused`, `MarkerContiguous` (refinement), `FetchedIsPublished` | two windows of two requests, 2 records with flow limit 1, 2 faults |
| `factory` | `AckedIsAccounted`, `LossBounded`, `ResentNeedsRelapse`, `DeadLetterNeedsFailure`, `EverySubmissionEnds` | two pods; any one of ten kinds of descriptors with up to three flights, or an airline's day or its day after together with a dry run of the first; 2 deliveries, 1 crash, 1 error |
| `factory_forward` | violated: `FastForwardIsPublished` | one crash |
| `worker` | `NoChunkVanishes`, `DuplicatesNeedFailures`, `DeadLetterNeedsFailures`, `EveryChunkEnds` | any one of seven kinds of chunks, two primary pods and a backup pod, 4 deliveries, 1 crash, 2 errors |
| `met_stores` | `ForecastCovers`, `Era5NearlyCovers`, `MostRecentUsable` | quarters of an hour with the code's own durations; chunks at each time of a day |
| `reinject` | `NoLetterVanishes`, `DuplicatesNeedUnfinishedRuns` | three letters, one of them undecodable, two places, 3 runs of up to three letters, dry or not, flow limit 1, 1 fault, 1 lapse |
| `postgres` | `HistogramNeverOvercounts`, `AcceptedIsLoaded`, `PartitionsSuffice` | three paths, four shards (overlapping, misdated and empty ones), 2 errors, 1 kill |
| `selection` | `SourcesAgree`, `MarkerPositionsAgree`, `EarlyRunsMissOnlyTheDayAfter`, `PublishedOnce`, `EveryFlightIsSomeonesJob`, `SubmittedIsMeant` | four days of two hours, up to 3 of 9 rows of two flights of one aircraft, 1 late, one of the flights low, 2 runs of the heater, any one of seven submissions, 2 fetches |
| `selection_null` | violated: `NullJobsTakeNullFlights` | one submission, no late row |
| `quality` | `HealedIsClean`, `OutliersCostNoFlight`, `AirportsOnlyForWholeTrips`, `ObservedIsNearData` | every flight of four families: attributes, speeds, gaps, partial trips |
| `quality_imputed` | violated: `ImputedIsInGap` | the same flights |

`raw_batch`, `ingest`, `factory`, `worker`, `reinject` and `postgres` also
check their module's type invariant.

**Why the bounds are enough.** The interesting cases need few parties: a lapsed
lease needs two pods; a marker left behind needs two windows; a lost flight
needs one crash or one error, and the two flights that a failed future costs
need a descriptor with two flights or more (`longDay` has three): the future
fails, main moves the marker for the next flight, the callback ends the process.
TLC finds this, as the bound without `refused` is violated in the same run. A
shared marker needs two descriptors, one of them with a list that is longer than
the other's, and a marker wrongly shared one of another day. The forward to the
backup comes with the third delivery and the dead letter after the fourth (the
code's limit is five). Two faults are the least that reach the pairs that
matter: a retry and a kill, a failed future and a death before its callback, a
lapsed lease and a failed ack. Histogram batches have one row, so that each
upsert can be cut off. Four days are the day before, the day, the day after and
the one on which all has arrived; three rows are a flight's first, one of
another airline or hour, and one more to part sources or fetches. Six waypoints
let the speed filter bring new neighbours together twice. For the components
with proofs the bounds do not matter to what is proved.

**Symmetry** is used in `reinject` (of the places and the decodable letters)
only, where no property is temporal. **Deadlock** is checked in the Spire jobs
(a pod is started again and again) and the loader; where every message can be
gone, the clock can have stopped or the flight be done, it is not.

**Fairness.** Time passes and the CronJob starts its pods (`schedule`,
Kubernetes); a live pod's threads run; the publisher resolves each future, as
the client's retries end with its timeout; Pub/Sub delivers what is ready to
some pod and ends leases that nobody extends, which both are what the service
is for. No fairness is assumed of Spire, of faults, of retries, of operators or
of expiring markers. Weak fairness is enough: none of these needs to be enabled
again and again to be taken. Faults are bounded, so the liveness
properties say what happens when faults stop. In `factory`, deliveries and the
ends of leases are each fair over all messages together, which is enough as no
message is delivered without end; and a fair pod step
includes raising on a poisonous flight again; the delivery limit ends that, not
fairness.

## 5. The proofs

The theorems are for every value of the constants, under the modules' named
assumptions; TLC evaluates these in the runs.

- **`RawBatchProofs`**: `TypeCorrect`, `Invariance`, `ReadStaysArchived`,
  `FilesLoseOnlyWithdrawn`, `MarkerIsContiguous`. `ReadIsArchived` is not
  inductive: it says nothing about what a pod holds between fetching and
  marking. `Inv` adds that files hold only records seen in their window
  (`FilesInv`), that the cursor is on the grid and not behind the marker by more
  than the first flooring explains (`CursorInv`), and what has been read,
  written and asked at each stage (`StageInv`). A file is overwritten with the
  whole answer to a second request, which has all that the first one returned
  but what was withdrawn since (`WorldInv`), and `CursorInv` has the marker
  before the end of the window being written; `FilesLoseOnlyWithdrawn` follows.
  The refinement maps every step to one of `ProgressMarker`'s or to a stutter.
- **`IngestScraperProofs`**: `TypeCorrect`, `Invariance`,
  `NoPendingRowIsPassed`, `MarkerIsContiguous`. `LostOnlyIfRefused` speaks of
  what is below the marker; the proof needs where each record of the current
  window is. `WindowInv` says it per stage: returned by a request, waiting in
  the publisher, in the table or refused, and nothing else once
  `wait_for_publish` has returned. `CursorInv` and `BelowInv` carry it over
  empty windows, where the cursor goes on without the marker. The invariant
  holds whichever futures are pending when a process dies, since a record of an
  unfinished window is not below the marker.
- **`JobFactoryProofs`**: `TypeCorrect`, `Invariance`, `NoFlightIsForgotten`,
  `LossIsBounded`, `DeadLettersAreEarned`, `MarkerSparesResending`. The type
  invariant needs that a ready message has a delivery left (`DeliveryInv`). The
  main invariant has one part per place in which a claim about flights is kept:
  each pod's counter (`PodInv`), the marker a pod has read and the one in Redis
  (`StartInv`, `MarkerInv`), and the acked descriptors (`AckedInv`). Below a
  marker each flight is `Shared`: a run of some descriptor of that key took it
  in hand and it is accounted for there. Below a counter it is `Done`: the same
  by the descriptor itself, or it was skipped over and a fellow's run did it.
  Accounts only grow, apart from flights in the hand of a pod, and those leave
  it only to the topic or to `cut`: the lemmas on histories say so once for all
  actions.
  `LossIsBounded`, `DeadLettersAreEarned` and `MarkerSparesResending` rest on
  it. The first two count: what was cut, or
  the deliveries a message has used up, is at most what faults have paid for
  (`Budget`, `Margin`), where the failure of a pod whose callback has yet to run
  (`doomed`) is kept back for what its exit will cost; a failed future counts
  twice (`refused`). A descriptor that nobody has submitted was worked on by no
  pod (`UnsentInv`), so that without a submitted fellow no flight was skipped on
  another's account. The third needs
  to know, per pod, how its counter lies to the marker and to what was sent
  (`OwnInv`, with `AtMarker` and `SentInv`).
- **`TrajectoryWorkerProofs`**: `TypeCorrect`, `Invariance`,
  `NoChunkIsForgotten`, `DeadLettersAreEarned`, `DuplicatesArePaid`. A chunk may
  be on the primary subscription and, several times, on the backup one. For
  `NoChunkVanishes`, `ChunkInv` says that the chunk's only primary message is
  still in its queue, or the chunk is `Safe`: a copy is kept by the backup
  subscription, or the results are out or were lost to a failed future
  (`Settled`). `StageInv` ties a pod's stage to what it has put out, so that
  each ack finds this true. For dead letters, `LetterInv` compares the
  deliveries `Spent` on a message with the `Margin`, crashes and errors less
  pods that are doomed. For duplicates, a forward multiplies copies, so that no
  bound per message would do: `DupInv` bounds the rows of a chunk together with
  what its waiting messages and the pods at work may still put out (`Due`) by
  the `Margin`, plus one once it was submitted.
- **`FlightSelectionProofs`**: `TypeCorrect`, `Invariance`,
  `GcsYieldsTheFlightsOfBigQuery`, `OneMarkerOneListOfFlights`,
  `OnlyTheDayAfterIsMissed`, `NoFlightTwice`, `NoFlightForgotten`,
  `FactoryDoesWhatWasMeant`. Three of the properties speak of telemetry and
  cache as they are and follow from the types with lemmas about the queries. A
  flight goes to the first day on which a row of it names the airline
  (`FirstDay`), and a job that takes it has such a row on its day and none on
  the day before (`JobOfFlight`); keeping rows hour by hour does not change on
  which days the airline is seen, and what the pruned hours hide are the flights
  in `Resumed` (`SourcesAgreeAt`). `PublishedOnce` and
  `EveryFlightIsSomeonesJob` follow by cases on the filters of airlines. Two
  more speak of what was fetched earlier, while rows, cache and clock have
  moved on. `Inv` says of each fetch what
  still holds of its data: one from GCS found all its hours whole, and a whole
  hour is never asked for again, so that a fetch today would read the same
  (`WholeHours`); one of a past day from BigQuery has the flights of the rows
  as they are now, and lacks rows of the next day only (`PastDay`). The second
  holds only as long as no row came late, which is why `late` is in the
  invariant and in the properties. The last, `SubmittedIsMeant`, needs that a
  descriptor is one of an accepted submission (`SubmittedByCall`) and a case for
  each way to name flights.
- **`FlightDataProofs`** has the theorems about `MetStores` and
  `TrajectoryQuality`, the two parts that compute with times. (It extends both;
  the behaviours of `MetStores` are `MetSpec`.)
  - Meteorology: `LoadedForecastCovers`, `NewestForecastIsLoaded`,
    `Era5IsShortByLittle`. Lemmas on flooring carry the arithmetic; the
    invariant adds that the clock is past the chunk.
  - Quality: `TypeCorrect`, `Invariance`, `HealingCleans`,
    `FewOutliersAreSpared`, `AirportsBelongToTheTrip`,
    `ObservedMinutesHaveData`. `StageInv` says what each stage leaves: the
    flight as it was set, made uniform, `Clean` once ordered (and less of a
    clean trajectory is clean, which is why the passes keep it), `Settled` once
    a pass drops nothing or none is left, and from there on `ends` is what
    `Airports` computes of it. The rest are lemmas about operators. The mode is
    contradicted by no more waypoints than any other value (`FewestStray`), and
    a union bound over the attributes leaves one that contradicts no mode
    (`SomeAgree`). `SpansTheTrip` is the triangle inequality for the line and
    the two checks of reach. That an airport's waypoint lies strictly outside of
    the flight's times (`TicksArePositive`, `EndsAreOutside`) leaves every
    segment with at least one observed end (`WithEnds`), so that a minute
    outside of all gaps has data near (`NearData`). Marking toggles at each
    flag; `OddInGaps` shows that up to any minute the flags of whole gaps come
    in pairs, which is where two gaps with a common waypoint must be excluded:
    with them the statement is false, as `ImputedIsInGap` shows.

  Both modules need that a finite set has a member that is first by some
  measure. The library's theorem on this takes an operator; `LeastNat` derives
  it from the well-foundedness of `<`, and counting does the rest (`Foremost`,
  `Hindmost`, `FirstDay`).
- **`ReinjectProofs`**: `TypeCorrect`, `LettersAreKept`,
  `DuplicatesAreExplained`. The type invariant includes the publisher's limit,
  which takes the cardinality of what is in flight. `NoLetterVanishes` speaks
  of acked letters only; `Behind` adds what a run knows of its batch: letters
  behind its first loop are in flight or settled, and at its acks all are
  settled. `Course` says where a step can take a process, and `SettledStays`
  and `OnItsWayStays` that no step of another process undoes this, so that the
  step lemma has a case per stage and not one per pair of processes. For
  duplicates, the publishes accepted and those still open are bounded by the
  runs that let go of the letter, and one more if it was acked or some run
  still holds it (`DupInv`, on `FlightInv`, `AckInv` and `RunInv`).
- **`PostgresLoaderProofs`**: `TypeCorrect`, `Invariance`,
  `CountsNothingTwice`, `AcceptedShardsAreLoaded`, `PartitionsAlwaysSuffice`.
  The histogram is squeezed between two counts: what was loaded in full, with
  what the current shard has paid in, from below (`LowerInv`); the main table
  less what is still owed to the buckets of the current shard, from above
  (`UpperInv`). `StageInv` ties both to the stage of the shard, and
  `PartitionInv` keeps the partitions of the run's shards.

**Assumptions.** Beside the types of the constants: pods, places and letters
are finite sets (the proofs count them), `None` is none of them, and the limit
of deliveries exceeds the one at which primary pods forward. `MetStores` has
the two assumptions on data named in section 3. `SubmissionAssumption` has the
flags as the command line's parser yields them: a source is `bq` or `gcs`, a
range of days has its first day, and a given file of job ids is a set of ids
and empty lines. `QualityAssumption` has flights finite and not empty
(`HealTrajectoryHandler.set` raises on an empty one), finitely many attributes,
and lengths of time that are not zero. `MinReach` must not be zero either (it
is 10 km): an airport on the flight's own first waypoint would else get a
second waypoint at the same time. The bounds on faults are natural numbers, and
nothing more is assumed of them.

**Only model-checked**: the four liveness properties (`CatchesUp`,
`FetchedIsPublished`, `EverySubmissionEnds`, `EveryChunkEnds`), which are beyond
the prover. Every safety property of every module is a theorem.

## 6. Where code and documents disagree

Each of these has a run with a counterexample:

- `FastForwardIsPublished`: README.md:230-231 says that a retry of a descriptor
  goes on after the last flight *published*; the marker is moved before the
  publish.
- `NullJobsTakeNullFlights`: a comment in `lib/services.py:469` of the TWJF has
  the job for no airline skip flights of which any waypoint names one; from the
  cache it never sees those waypoints, as each hour is filtered by itself, and
  the flight is published by two jobs.
- `ImputedIsInGap`: the docstring in `lib/services.py:56` has minutes in gaps
  marked; where two gaps share a waypoint, its one flag ends the first and does
  not begin the second, and what follows is inverted.

Seen while modelling; the models follow the code:

- A comment in `lib/queue.py:162` of the ingest job says that all futures
  completed without error; a failed one counts as completed, and the marker can
  move before the process ends.
- bq-to-postgres-util/README.md:29 calls the metadata table 1:1 with the main
  table; a failure between the two COPYs leaves it short, and the primary key
  keeps every other run out.
- The BigQuery query for flight ids returns every flight of their aircraft in
  the time they span (`BqFlightIds`), also one that nobody asked for.
- A job id beside an airline's day passes `verify` without a table and makes
  all days share one marker; job ids beside flight ids publish the same work
  once per line (`CacheKey`, `Twjds`).
- An empty line in a file of job ids becomes a descriptor that `verify`
  refuses (`SubmittedIsMeant` excepts it).
- From the cache, satellite rows are kept only if they name the airline.
- A dry run's marker lets the run it rehearses skip flights.
- README.md:103 has the marker move with each five-minute iteration; the ingest
  job leaves it for an empty window (`main.py:102`).
- README.md:239 has permanent failures dead-lettered; the TWJF acks them
  (`main.py:60`).
- README.md:263 gives a flight two end states; a failed push or publish, or a
  job that cannot be built, is a third, logged only (`lib/services.py:776`).
- trajectory-worker-job-factory/README.md:118 has only descriptors of an
  airline's day resumable; those with a job id are too (`lib/services.py:386`).
- README.md:333-335 has a redelivered chunk forwarded to the backup queue; the
  second delivery is run by a primary pod, the third is forwarded
  (`trajectory-worker/main.py:52`).
- The docstring of `_find_era5_zarr_stores` (`handlers.py:625`) says that the
  days suffice; a contrail that ends between 23:00 and 23:30 needs the next
  day's first step. `Era5NearlyCovers` states what holds.
- `cli.py:99` gives `--count` a default of 1; it has none, and a run without it
  raises before it pulls (`services.py:200`).
- A chunk that cannot be decoded is dead-lettered by the worker's subscription
  and then stops each run of the reinjection that pulls it
  (`services.py:205`); the letters pulled before it are published each time.
- The loader's check for years before 2000 takes 1999, as the range's end is
  exclusive (`bq-to-postgres-util/main.py:80`).

## 7. What is not modelled

- Numeric code: interpolation, CoCiP, performance models, fleets. The models
  take what becomes of a flight or a chunk there as given.
- Encodings: schemas, column types, parquet, the Avro of BigQuery's topics.
- BigQuery subscriptions, which are taken to write what their topic accepted,
  and the retention of messages (seven days, beside leases of seconds).
- Records that Spire returns outside of the requested window
  (`spire-ingest-api-scraper/lib/spire.py:100-116`): the job keeps them and
  leaves duplicates to its readers.
- The Spire API handler of the TWJF, which nothing calls.
- The composition of the services: each is modelled against its topics and
  subscriptions, which promise what Pub/Sub documents and no more, so that what
  holds of a component holds whatever the others do. The whole pipeline as one
  specification is in section 2.
- inventory-cache (one query and one append in a transaction, marked unused),
  the SQL proxy's chart (a vendor's image), playbooks, Terraform and workflows
  other than the delivery policies of the subscriptions.
