------------------------------- MODULE RawBatch -------------------------------
(***************************************************************************)
(* spire-raw-batch: a Kubernetes CronJob that copies Spire's raw stream to *)
(* one parquet file per five-minute window and records its progress in a   *)
(* Firestore document.  One pod at a time (concurrencyPolicy: Forbid); a   *)
(* pod may be killed between any two steps, and only Firestore and the     *)
(* bucket survive it.                                                      *)
(*                                                                         *)
(* A record is the tick of its ingestion time.  Spire may make a record of *)
(* any past tick available late, and may leave one it has returned out of  *)
(* later answers: the code relies on neither.                              *)
(***************************************************************************)
EXTENDS Integers, FiniteSets

CONSTANTS
    Minute,         \* ticks in a minute
    Step,           \* ticks in the five-minute window
    Delay,          \* ticks a window must be old before it is fetched
    FirstMarker,    \* the marker an operator wrote before the first run
    MaxRetries,     \* retries of a Spire request
    MaxNow,         \* bound: the clock stops here
    MaxRecords,     \* bound: records Spire ever ingests
    MaxWithdrawn,   \* bound: records Spire withdraws
    MaxFaults       \* bound: failed requests, failed writes and killed pods

ASSUME RawBatchAssumption ==
    /\ Minute \in Nat \ {0}
    /\ Step \in Nat \ {0}
    /\ Step % Minute = 0
    /\ {Delay, FirstMarker, MaxRetries, MaxNow, MaxRecords, MaxWithdrawn, MaxFaults}
         \subseteq Nat

VARIABLES
    now,            \* wall clock
    data,           \* ticks whose record Spire can return
    withdrawn,      \* ticks whose record Spire returns no more
    marker,         \* Firestore: last_sync_end_at
    archive,        \* bucket: the records of the file of each window
    pc,             \* where the pod is
    startAt,        \* the pod's current window is [startAt, startAt + Step)
    maxFetch,       \* the pod's max_fetch_time
    df,             \* the pod's fetched records
    retries,        \* the pod's retry_count
    faults,         \* faults so far
    asked, seen     \* history: ticks requested, and records returned, so far

vars == <<now, data, withdrawn, marker, archive, pc, startAt, maxFetch, df, retries, faults,
          asked, seen>>
pod == <<pc, startAt, maxFetch, df, retries>>
durable == <<marker, archive>>
world == <<now, data, withdrawn>>
history == <<asked, seen>>

Ticks == 0 .. (MaxNow - 1)
Floor(x, unit) == unit * (x \div unit)
Starts == {w \in Ticks : w % Step = 0}
Window(w) == w .. (w + Step - 1)
Stored == UNION {archive[w] : w \in Starts}

TypeOK ==
    /\ now \in 0 .. MaxNow
    /\ data \subseteq Ticks /\ withdrawn \subseteq Ticks
    /\ marker \in Nat
    /\ archive \in [Starts -> SUBSET Ticks]
    /\ pc \in {"idle", "loop", "fetch", "write", "mark"}
    /\ startAt \in Nat /\ maxFetch \in Int
    /\ df \subseteq Ticks
    /\ retries \in 0 .. MaxRetries
    /\ faults \in 0 .. MaxFaults
    /\ asked \subseteq Nat /\ seen \subseteq Ticks

Init ==
    /\ now = 0 /\ data = {} /\ withdrawn = {}
    /\ marker = FirstMarker
    /\ archive = [w \in Starts |-> {}]
    /\ pc = "idle" /\ startAt = 0 /\ maxFetch = 0 /\ df = {} /\ retries = 0
    /\ faults = 0
    /\ asked = {} /\ seen = {}

-------------------------------------------------------------------------------
(* The world. *)

Tick ==
    /\ now < MaxNow
    /\ now' = now + 1
    /\ UNCHANGED <<data, withdrawn, durable, pod, faults, history>>

SpireIngests(t) ==
    /\ t < now
    /\ t \notin data \cup withdrawn
    /\ Cardinality(data \cup withdrawn) < MaxRecords
    /\ data' = data \cup {t}
    /\ UNCHANGED <<now, withdrawn, durable, pod, faults, history>>

(* A later answer leaves out what an earlier one may have had. *)
SpireWithdraws(t) ==
    /\ t \in data
    /\ Cardinality(withdrawn) < MaxWithdrawn
    /\ data' = data \ {t}
    /\ withdrawn' = withdrawn \cup {t}
    /\ UNCHANGED <<now, durable, pod, faults, history>>

-------------------------------------------------------------------------------
(* The pod. *)

Exit ==
    /\ pc' = "idle"
    /\ startAt' = 0 /\ maxFetch' = 0 /\ df' = {} /\ retries' = 0

(* Variant: the start is not floored to the window grid. *)
StartPodUnaligned ==
    /\ pc = "idle"
    /\ pc' = "loop"
    /\ maxFetch' = now - Delay
    /\ startAt' = Floor(marker, Minute)
    /\ UNCHANGED <<world, durable, df, retries, faults, history>>

(* main up to the loop: reads the marker and floors it to the window grid. *)
StartPod ==
    /\ pc = "idle"
    /\ pc' = "loop"
    /\ maxFetch' = now - Delay
    /\ startAt' = Floor(Floor(marker, Minute), Step)
    /\ UNCHANGED <<world, durable, df, retries, faults, history>>

(* The loop test, and the return when no whole window is old enough. *)
EnterWindow ==
    /\ pc = "loop"
    /\ startAt + Step <= maxFetch
    /\ pc' = "fetch"
    /\ retries' = 0
    /\ UNCHANGED <<world, durable, startAt, maxFetch, df, faults, history>>

Finish ==
    /\ pc = "loop"
    /\ startAt + Step > maxFetch
    /\ Exit
    /\ UNCHANGED <<world, durable, faults, history>>

(* Variant: the lines read before a response breaks off count as its answer. *)
FetchTakesPartial ==
    /\ pc = "fetch"
    /\ df' \in SUBSET (data \cap Window(startAt))
    /\ pc' = IF df' = {} THEN "mark" ELSE "write"
    /\ asked' = asked \cup Window(startAt)
    /\ seen' = seen \cup df'
    /\ UNCHANGED <<world, durable, startAt, maxFetch, retries, faults>>

(* Variant: an empty window is asked for again instead of being passed. *)
FetchWaitsForData ==
    /\ pc = "fetch"
    /\ df' = data \cap Window(startAt)
    /\ pc' = IF df' = {} THEN "loop" ELSE "write"
    /\ asked' = asked \cup Window(startAt)
    /\ seen' = seen \cup df'
    /\ UNCHANGED <<world, durable, startAt, maxFetch, retries, faults>>

Fetch ==
    /\ pc = "fetch"
    /\ df' = data \cap Window(startAt)
    /\ pc' = IF df' = {} THEN "mark" ELSE "write"
    /\ asked' = asked \cup Window(startAt)
    /\ seen' = seen \cup df'
    /\ UNCHANGED <<world, durable, startAt, maxFetch, retries, faults>>

(* Variant: retries are not limited. *)
RetryFetchForever ==
    /\ pc = "fetch"
    /\ faults < MaxFaults
    /\ retries' = retries + 1
    /\ faults' = faults + 1
    /\ UNCHANGED <<world, durable, pc, startAt, maxFetch, df, history>>

RetryFetch ==
    /\ pc = "fetch" /\ retries < MaxRetries
    /\ faults < MaxFaults
    /\ retries' = retries + 1
    /\ faults' = faults + 1
    /\ UNCHANGED <<world, durable, pc, startAt, maxFetch, df, history>>

WriteParquet ==
    /\ pc = "write"
    /\ archive' = [archive EXCEPT ![startAt] = df]
    /\ pc' = "mark"
    /\ UNCHANGED <<world, marker, startAt, maxFetch, df, retries, faults, history>>

(* Variant: the marker is set to the end of the run's span. *)
SetMarkerToEnd ==
    /\ pc = "mark"
    /\ marker' = maxFetch
    /\ startAt' = startAt + Step
    /\ pc' = "loop"
    /\ UNCHANGED <<world, archive, maxFetch, df, retries, faults, history>>

SetMarker ==
    /\ pc = "mark"
    /\ marker' = startAt + Step
    /\ startAt' = startAt + Step
    /\ pc' = "loop"
    /\ UNCHANGED <<world, archive, maxFetch, df, retries, faults, history>>

(* A kill, an exhausted retry, or an exception of the bucket or Firestore  *)
(* client: in every case the process ends having changed nothing more.     *)
PodDies ==
    /\ pc # "idle"
    /\ faults < MaxFaults
    /\ faults' = faults + 1
    /\ Exit
    /\ UNCHANGED <<world, durable, history>>

PodStep == StartPod \/ EnterWindow \/ Finish \/ Fetch \/ WriteParquet \/ SetMarker

Next ==
    \/ Tick
    \/ \E t \in Ticks : SpireIngests(t) \/ SpireWithdraws(t)
    \/ StartPod \/ EnterWindow \/ Finish
    \/ Fetch \/ RetryFetch \/ WriteParquet \/ SetMarker
    \/ PodDies

Spec == Init /\ [][Next]_vars

(* Time passes, the scheduler starts a pod every period, and a live pod runs. *)
FairSpec == Spec /\ WF_vars(Tick) /\ WF_vars(PodStep)

-------------------------------------------------------------------------------
(* Every record a run ever read below the marker is in the file of its     *)
(* window, unless Spire took it back: a pod killed between the bucket      *)
(* write and the Firestore write, or before either, loses nothing          *)
(* (main.py:53-74).                                                        *)
ReadIsArchived ==
    \A t \in seen : t \in FirstMarker .. (marker - 1) =>
        t \in archive[Floor(t, Step)] \/ t \in withdrawn

(* A repeated window overwrites its file without looking at it             *)
(* (overwrite=True), so a file can lose records, but only those that Spire *)
(* took back between the two answers, never for a request that failed or   *)
(* broke off, and only while the marker has not passed its window          *)
(* (main.py:51-66).                                                        *)
ArchiveLosesOnlyWithdrawn ==
    [][\A w \in Starts :
          LET lost == archive[w] \ archive'[w]
          IN  lost # {} => lost \subseteq withdrawn /\ marker < w + Step]_vars

(* The marker moves over no window that was not fetched, over no record    *)
(* that is neither archived nor withdrawn, and never backwards.            *)
Promise == INSTANCE ProgressMarker WITH kept <- Stored, gone <- withdrawn
MarkerContiguous == Promise!Spec

(* However often pods die, the marker ends within one window of the newest *)
(* tick that is old enough to fetch.                                       *)
CatchesUp == <>[](marker + Step > MaxNow - Delay)
===============================================================================
