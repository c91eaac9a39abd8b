----------------------------- MODULE IngestScraper -----------------------------
(***************************************************************************)
(* spire-ingest-api-scraper: the CronJob that fetches Spire's stream in    *)
(* five-minute windows, each as concurrent one-minute requests, publishes  *)
(* the records that pass the ingest rules to the BigQuery topic, and moves *)
(* a Firestore progress marker.  One pod at a time; Firestore and the topic *)
(* survive it.                                                             *)
(*                                                                         *)
(* Publishing is asynchronous.  Each row has a future, resolved by a thread *)
(* of the Pub/Sub client; when one fails, a callback in that thread calls  *)
(* os._exit(1), while the main thread waits for all futures to be done.    *)
(* CPython wakes the waiting thread before it runs the callbacks, so main  *)
(* may run on while the process is doomed.                                 *)
(*                                                                         *)
(* A record is the tick of its ingestion time.  Spire may make a record of *)
(* any past tick available late, and never withdraws one.                  *)
(***************************************************************************)
EXTENDS Integers, FiniteSets

CONSTANTS
    Minute,         \* ticks in a minute
    Step,           \* ticks in the five-minute window
    Delay,          \* SYNC_DELAY
    FirstMarker,    \* the marker an operator wrote before the first run
    Useful,         \* ticks whose record passes filter_ingest_rules
    FlowLimit,      \* publisher flow control: messages in flight
    MaxRetries,     \* retries of one Spire request
    MaxNow,         \* bound: the clock stops here
    MaxRecords,     \* bound: records Spire ever ingests
    MaxFaults       \* bound: failed requests and publishes, signals, kills

ASSUME IngestScraperAssumption ==
    /\ Minute \in Nat \ {0}
    /\ Step \in Nat \ {0}
    /\ Step % Minute = 0
    /\ FlowLimit \in Nat \ {0}
    /\ Useful \subseteq Nat
    /\ {Delay, FirstMarker, MaxRetries, MaxNow, MaxRecords, MaxFaults} \subseteq Nat

VARIABLES
    now,            \* wall clock
    data,           \* ticks whose record Spire can return
    marker,         \* Firestore: last_sync_end_at
    table,          \* ticks whose record the topic has accepted
    pc,             \* where the pod's main thread is
    cursor,         \* batch_start_at
    endAt,          \* end_at, fixed when the pod starts
    sigterm,        \* sigterm_handler.should_exit
    pending,        \* starts of the one-minute requests not answered yet
    tries,          \* retry_count of each one-minute request
    rows,           \* fetched records: all of them, then those left to publish
    inFlight,       \* rows whose publish future is not done
    doomed,         \* a failed future's callback has os._exit still to call
    faults,         \* faults so far
    asked, seen,    \* history: ticks requested, and records returned, so far
    refused         \* history: rows whose publish future has failed

vars == <<now, data, marker, table, pc, cursor, endAt, sigterm, pending, tries,
          rows, inFlight, doomed, faults, asked, seen, refused>>
world == <<now, data>>
run == <<cursor, endAt>>
request == <<pending, tries>>
history == <<asked, seen, refused>>

Ticks == 0 .. (MaxNow - 1)
Floor(x, unit) == unit * (x \div unit)
Minutes(w) == {w + Minute * i : i \in 0 .. (Step \div Minute) - 1}
Span(m) == m .. (m + Minute - 1)

TypeOK ==
    /\ now \in 0 .. MaxNow
    /\ data \subseteq Ticks
    /\ marker \in Nat
    /\ table \subseteq Ticks
    /\ pc \in {"idle", "loop", "fetch", "publish", "wait", "mark"}
    /\ cursor \in Nat /\ endAt \in Int
    /\ sigterm \in BOOLEAN /\ doomed \in BOOLEAN
    /\ pending \subseteq Nat
    /\ tries \in [pending -> 0 .. MaxRetries]
    /\ rows \subseteq Ticks /\ inFlight \subseteq Ticks
    /\ faults \in 0 .. MaxFaults
    /\ asked \subseteq Nat /\ seen \subseteq Ticks /\ refused \subseteq Ticks

Init ==
    /\ now = 0 /\ data = {}
    /\ marker = FirstMarker /\ table = {}
    /\ pc = "idle" /\ cursor = 0 /\ endAt = 0
    /\ sigterm = FALSE /\ doomed = FALSE
    /\ pending = {} /\ tries = [m \in {} |-> 0]
    /\ rows = {} /\ inFlight = {}
    /\ faults = 0
    /\ asked = {} /\ seen = {} /\ refused = {}

Fault == faults < MaxFaults /\ faults' = faults + 1

-------------------------------------------------------------------------------
(* The world. *)

Tick ==
    /\ now < MaxNow
    /\ now' = now + 1
    /\ UNCHANGED <<data, marker, table, pc, run, sigterm, request, rows, inFlight,
                   doomed, faults, history>>

SpireIngests(t) ==
    /\ t < now
    /\ t \notin data
    /\ Cardinality(data) < MaxRecords
    /\ data' = data \cup {t}
    /\ UNCHANGED <<now, marker, table, pc, run, sigterm, request, rows, inFlight,
                   doomed, faults, history>>

SigtermArrives ==
    /\ pc # "idle" /\ ~sigterm
    /\ Fault
    /\ sigterm' = TRUE
    /\ UNCHANGED <<world, marker, table, pc, run, request, rows, inFlight, doomed,
                   history>>

-------------------------------------------------------------------------------
(* The process ends; a publish request on the wire may yet be accepted. *)
Exit ==
    /\ pc' = "idle" /\ cursor' = 0 /\ endAt' = 0
    /\ sigterm' = FALSE /\ doomed' = FALSE
    /\ pending' = {} /\ tries' = [m \in {} |-> 0]
    /\ rows' = {} /\ inFlight' = {}
    /\ \E landed \in SUBSET inFlight : table' = table \cup landed

(* main up to the loop. *)
StartPod ==
    /\ pc = "idle"
    /\ pc' = "loop"
    /\ cursor' = Floor(marker, Minute)
    /\ endAt' = Floor(now - Delay, Minute)
    /\ UNCHANGED <<world, marker, table, sigterm, request, rows, inFlight, doomed,
                   faults, history>>

EnterWindow ==
    /\ pc = "loop"
    /\ cursor + Step <= endAt
    /\ ~sigterm
    /\ pc' = "fetch"
    /\ pending' = Minutes(cursor)
    /\ tries' = [m \in Minutes(cursor) |-> 0]
    /\ rows' = {}
    /\ UNCHANGED <<world, marker, table, run, sigterm, inFlight, doomed, faults,
                   history>>

(* No whole window is left (or there never was one), or SIGTERM came. *)
Finish ==
    /\ pc = "loop"
    /\ cursor + Step > endAt \/ sigterm
    /\ Exit
    /\ UNCHANGED <<world, marker, faults, history>>

(* One of the concurrent one-minute requests is answered. *)
FetchMinute(m) ==
    /\ pc = "fetch" /\ m \in pending
    /\ pending' = pending \ {m}
    /\ tries' = [k \in pending' |-> tries[k]]
    /\ rows' = rows \cup (data \cap Span(m))
    /\ asked' = asked \cup Span(m)
    /\ seen' = seen \cup (data \cap Span(m))
    /\ UNCHANGED <<world, marker, table, pc, run, sigterm, inFlight, doomed, faults,
                   refused>>

(* Variant: retries are not limited. *)
RetryMinuteForever(m) ==
    /\ pc = "fetch" /\ m \in pending
    /\ Fault
    /\ tries' = [tries EXCEPT ![m] = @ + 1]
    /\ UNCHANGED <<world, marker, table, pc, run, sigterm, pending, rows, inFlight,
                   doomed, history>>

RetryMinute(m) ==
    /\ pc = "fetch" /\ m \in pending
    /\ tries[m] < MaxRetries
    /\ Fault
    /\ tries' = [tries EXCEPT ![m] = @ + 1]
    /\ UNCHANGED <<world, marker, table, pc, run, sigterm, pending, rows, inFlight,
                   doomed, history>>

(* gather returns.  An empty window is passed over, leaving the marker. *)
Gathered ==
    /\ pc = "fetch" /\ pending = {}
    /\ IF rows = {}
       THEN /\ cursor' = cursor + Step
            /\ pc' = "loop"
            /\ UNCHANGED rows
       ELSE /\ rows' = rows \cap Useful
            /\ pc' = "publish"
            /\ UNCHANGED cursor
    /\ UNCHANGED <<world, marker, table, endAt, sigterm, request, inFlight, doomed,
                   faults, history>>

(* Rows are published in order of time; publish blocks at the flow limit. *)
PublishAsync(t) ==
    /\ pc = "publish" /\ t \in rows
    /\ \A u \in rows : t <= u
    /\ Cardinality(inFlight) < FlowLimit
    /\ inFlight' = inFlight \cup {t}
    /\ rows' = rows \ {t}
    /\ UNCHANGED <<world, marker, table, pc, run, sigterm, request, doomed, faults,
                   history>>

(* Variant: main does not wait for the futures. *)
AllSubmittedNoWait ==
    /\ pc = "publish" /\ rows = {}
    /\ pc' = "mark"
    /\ UNCHANGED <<world, marker, table, run, sigterm, request, rows, inFlight,
                   doomed, faults, history>>

AllSubmitted ==
    /\ pc = "publish" /\ rows = {}
    /\ pc' = "wait"
    /\ UNCHANGED <<world, marker, table, run, sigterm, request, rows, inFlight,
                   doomed, faults, history>>

FutureSucceeds(t) ==
    /\ t \in inFlight
    /\ inFlight' = inFlight \ {t}
    /\ table' = table \cup {t}
    /\ UNCHANGED <<world, marker, pc, run, sigterm, request, rows, doomed, faults,
                   history>>

(* A timed-out publish may have been accepted all the same. *)
FutureFails(t) ==
    /\ t \in inFlight
    /\ Fault
    /\ inFlight' = inFlight \ {t}
    /\ table' \in {table, table \cup {t}}
    /\ doomed' = TRUE
    /\ refused' = refused \cup {t}
    /\ UNCHANGED <<world, marker, pc, run, sigterm, request, rows, asked, seen>>

(* _exit_on_error, in the publisher's thread. *)
CallbackExits ==
    /\ doomed
    /\ Exit
    /\ UNCHANGED <<world, marker, faults, history>>

(* Variant: the timeout of the wait is not an error. *)
WaitGivesUp ==
    /\ pc = "wait"
    /\ pc' = "mark"
    /\ UNCHANGED <<world, marker, table, run, sigterm, request, rows, inFlight,
                   doomed, faults, history>>

(* wait_for_publish returns: every future is done, failed ones included. *)
WaitReturns ==
    /\ pc = "wait" /\ inFlight = {}
    /\ pc' = "mark"
    /\ UNCHANGED <<world, marker, table, run, sigterm, request, rows, inFlight,
                   doomed, faults, history>>

(* Variant: the marker is set to the end of the run's span. *)
SetMarkerToEnd ==
    /\ pc = "mark"
    /\ marker' = endAt
    /\ cursor' = cursor + Step
    /\ pc' = "loop"
    /\ UNCHANGED <<world, table, endAt, sigterm, request, rows, inFlight, doomed,
                   faults, history>>

SetMarker ==
    /\ pc = "mark"
    /\ marker' = cursor + Step
    /\ cursor' = cursor + Step
    /\ pc' = "loop"
    /\ UNCHANGED <<world, table, endAt, sigterm, request, rows, inFlight, doomed,
                   faults, history>>

(* A kill, an exhausted retry, the 120 s timeout of wait_for_publish, an    *)
(* exception of the Firestore client: the process ends where it is.         *)
PodDies ==
    /\ pc # "idle"
    /\ Fault
    /\ Exit
    /\ UNCHANGED <<world, marker, history>>

PodStep ==
    \/ StartPod \/ EnterWindow \/ Finish
    \/ \E m \in pending : FetchMinute(m)
    \/ Gathered
    \/ \E t \in rows : PublishAsync(t)
    \/ AllSubmitted \/ WaitReturns \/ SetMarker

FutureStep == \E t \in inFlight : FutureSucceeds(t)

Next ==
    \/ Tick
    \/ \E t \in Ticks : SpireIngests(t)
    \/ SigtermArrives
    \/ PodStep
    \/ \E m \in pending : RetryMinute(m)
    \/ FutureStep
    \/ \E t \in inFlight : FutureFails(t)
    \/ CallbackExits
    \/ PodDies

Spec == Init /\ [][Next]_vars

(* Time passes, the scheduler starts pods, a live pod's threads run, and the *)
(* publisher resolves every future within its timeout.                      *)
FairSpec ==
    /\ Spec
    /\ WF_vars(Tick) /\ WF_vars(PodStep) /\ WF_vars(FutureStep)
    /\ WF_vars(CallbackExits)

-------------------------------------------------------------------------------
Collected == seen \cap Useful

(* A row that was submitted, and either accepted or refused.               *)
Resolved == table \cup refused

(* However futures, main, signals and kills interleave, the marker passes a *)
(* useful record that a run fetched only when the topic has accepted it, or *)
(* its own publish future failed: never a row that was not submitted yet,   *)
(* or whose future was pending when the marker moved (main.py:93-174).      *)
LostOnlyIfRefused ==
    \A t \in Collected : t \in FirstMarker .. (marker - 1) => t \in Resolved

(* The job implements the marker's promise for the records that pass the    *)
(* ingest rules: it moves over every window in order, the empty ones that    *)
(* leave it behind the run's cursor included.                               *)
Promise == INSTANCE ProgressMarker WITH seen <- Collected, kept <- Resolved, gone <- {}
MarkerContiguous == Promise!Spec

(* A useful record fetched once is published in the end, or its future      *)
(* failed and main was quicker than the callback: when its pod died with    *)
(* the marker still before it, the next one fetches and publishes it.       *)
FetchedIsPublished ==
    \A t \in Ticks :
        t \in Collected /\ t >= FirstMarker ~>
            t \in table \/ (t \in refused /\ t < marker)

===============================================================================
