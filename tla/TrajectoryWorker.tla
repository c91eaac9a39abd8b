----------------------------- MODULE TrajectoryWorker -----------------------------
(***************************************************************************)
(* The trajectory worker (TW): two deployments of one program.  Primary    *)
(* pods take trajectory chunks from the chunk subscription, run CoCiP, and *)
(* publish the results to BigQuery's topic and, on demand, to a bucket.  A *)
(* chunk that keeps failing there (out of memory, most often) is forwarded *)
(* to the topic of the backup deployment, whose pods have more memory.     *)
(*                                                                         *)
(* Both subscriptions have exactly-once delivery: a message is delivered   *)
(* to one pod at a time, and an ack counts only while its lease holds.  A  *)
(* lease that ends without an ack makes the message ready again, or, after *)
(* MaxDeliveries deliveries, moves it to the dead-letter topic.            *)
(*                                                                         *)
(* A chunk has one message on the primary subscription (copy 0), and one   *)
(* on the backup subscription for each time the backup topic accepted it.  *)
(***************************************************************************)
EXTENDS Integers, FiniteSets

CONSTANTS
    Primary,        \* pods of the primary deployment
    Backup,         \* pods of the backup deployment
    Chunk,          \* trajectory chunks published by the job factory
    Kind,           \* what becomes of each chunk, see Kinds
    Segment,        \* segments of an exported trajectory
    None,           \* no pod, no message
    MaxDeliveries,  \* max_delivery_attempts of both subscriptions
    MaxSubmits,     \* bound: chunks that are published
    MaxCrashes,     \* bound: pods that die without the chunk being at fault
    MaxErrors       \* bound: transient errors of Pub/Sub, GCS or a met store

(* "plain" and "export" can be run anywhere; "heavy" only by a backup pod;   *)
(* "skipped" is too low or of an unknown aircraft, and "unsupported" of one   *)
(* without a performance model; "unrunnable" raises in CoCiP; "undecodable"  *)
(* raises when it is parsed.                                                 *)
Kinds == {"plain", "export", "heavy", "skipped", "unsupported", "unrunnable",
          "undecodable"}

(* A primary pod forwards what was delivered more often than this. *)
ForwardAfter == 2

ASSUME TrajectoryWorkerAssumption ==
    /\ Primary \cap Backup = {} /\ IsFiniteSet(Primary \cup Backup)
    /\ None \notin Primary \cup Backup /\ None \notin Chunk \X Nat
    /\ Kind \in [Chunk -> Kinds]
    /\ {"summary", "forward"} \cap Segment = {}
    /\ MaxDeliveries \in Nat /\ MaxDeliveries > ForwardAfter
    /\ {MaxSubmits, MaxCrashes, MaxErrors} \subseteq Nat

VARIABLES
    queue,          \* where each message is
    holder,         \* the pod that has its lease, or had it last
    deliveries,     \* delivery attempts of each message
    pc,             \* where each pod's main thread is
    message,        \* the message each pod works on
    attempt,        \* message.delivery_attempt, as delivered to each pod
    inFlight,       \* rows each pod has published whose futures are not done
    doomed,         \* pods with a failed future whose callback has yet to exit
    rows,           \* times BigQuery's topic accepted each row of a chunk
    blobs,          \* chunks whose trajectory is in the bucket
    crashes, errors,
    lost            \* history: chunks one of whose publish futures failed

vars == <<queue, holder, deliveries, pc, message, attempt, inFlight, doomed, rows,
          blobs, crashes, errors, lost>>
subscription == <<queue, holder, deliveries>>
work == <<message, attempt>>
output == <<rows, blobs>>
faults == <<crashes, errors>>

Pod == Primary \cup Backup
Row == {"summary"} \cup Segment
Message == Chunk \X (0 .. (MaxDeliveries - ForwardAfter))
ChunkOf(m) == m[1]
Home(m) == IF m[2] = 0 THEN Primary ELSE Backup
Job(p) == ChunkOf(message[p])
Copies(c) == {m \in Message : ChunkOf(m) = c}

TypeOK ==
    /\ queue \in [Message -> {"none", "ready", "out", "acked", "dead"}]
    /\ holder \in [Message -> Pod \cup {None}]
    /\ deliveries \in [Message -> 0 .. MaxDeliveries]
    /\ pc \in [Pod -> {"idle", "start", "forward", "run", "summary", "upload",
                       "flush", "ack"}]
    /\ \A p \in Pod : IF pc[p] = "idle" THEN message[p] = None
                      ELSE message[p] \in Message /\ p \in Home(message[p])
    /\ attempt \in [Pod -> 0 .. MaxDeliveries]
    /\ inFlight \in [Pod -> SUBSET (Row \cup {"forward"})]
    /\ doomed \in [Pod -> BOOLEAN]
    /\ rows \in [Chunk -> [Row -> Nat]]
    /\ blobs \subseteq Chunk
    /\ crashes \in 0 .. MaxCrashes /\ errors \in 0 .. MaxErrors
    /\ lost \subseteq Chunk

Init ==
    /\ queue = [m \in Message |-> "none"]
    /\ holder = [m \in Message |-> None]
    /\ deliveries = [m \in Message |-> 0]
    /\ pc = [p \in Pod |-> "idle"]
    /\ message = [p \in Pod |-> None]
    /\ attempt = [p \in Pod |-> 0]
    /\ inFlight = [p \in Pod |-> {}]
    /\ doomed = [p \in Pod |-> FALSE]
    /\ rows = [c \in Chunk |-> [r \in Row |-> 0]]
    /\ blobs = {}
    /\ crashes = 0 /\ errors = 0
    /\ lost = {}

Crash == crashes < MaxCrashes /\ crashes' = crashes + 1 /\ UNCHANGED errors
Error == errors < MaxErrors /\ errors' = errors + 1 /\ UNCHANGED crashes

-------------------------------------------------------------------------------
(* Pub/Sub. *)

(* The topic of the primary subscription accepts a chunk. *)
Submit(c) ==
    /\ queue[<<c, 0>>] = "none"
    /\ Cardinality({d \in Chunk : queue[<<d, 0>>] # "none"}) < MaxSubmits
    /\ queue' = [queue EXCEPT ![<<c, 0>>] = "ready"]
    /\ UNCHANGED <<holder, deliveries, pc, work, inFlight, doomed, output, faults, lost>>

(* Variant: the subscription has no dead-letter policy. *)
RedeliverForever(m) == queue' = [queue EXCEPT ![m] = "ready"]

Redeliver(m) ==
    queue' = [queue EXCEPT ![m] = IF deliveries[m] < MaxDeliveries THEN "ready"
                                  ELSE "dead"]

(* Variant: nothing extends the lease. *)
WorkingUnnoticed(m) == FALSE

Working(m) == \E p \in Pod : holder[m] = p /\ message[p] = m

(* The lease of a pod that died, or let the message go, runs out. *)
LeaseEnds(m) ==
    /\ queue[m] = "out" /\ ~Working(m)
    /\ Redeliver(m)
    /\ UNCHANGED <<holder, deliveries, pc, work, inFlight, doomed, output, faults, lost>>

(* Extending the lease failed; the pod that works on the message goes on. *)
LeaseLapses(m) ==
    /\ queue[m] = "out" /\ Working(m)
    /\ Error
    /\ Redeliver(m)
    /\ UNCHANGED <<holder, deliveries, pc, work, inFlight, doomed, output, lost>>

-------------------------------------------------------------------------------
(* A pod. *)

Goto(p, stage) == pc' = [pc EXCEPT ![p] = stage]

(* Back to the top of run's loop, or a new process in the pod's place. *)
Reset(p) ==
    /\ Goto(p, "idle")
    /\ message' = [message EXCEPT ![p] = None]
    /\ attempt' = [attempt EXCEPT ![p] = 0]

(* The topics accept some of the messages a pod has published: rows of the  *)
(* chunk for BigQuery, or the chunk itself for the backup subscription.     *)
Accept(p, landed) ==
    /\ rows' = [rows EXCEPT ![Job(p)] =
                   [r \in Row |-> IF r \in landed THEN @[r] + 1 ELSE @[r]]]
    /\ IF "forward" \in landed
       THEN \E m \in Copies(Job(p)) :
               /\ queue[m] = "none"
               /\ \A n \in Copies(Job(p)) : queue[n] = "none" => m[2] <= n[2]
               /\ queue' = [queue EXCEPT ![m] = "ready"]
       ELSE UNCHANGED queue

(* The process ends; what was on the wire may be accepted all the same. *)
Exit(p) ==
    /\ \E landed \in SUBSET inFlight[p] : Accept(p, landed)
    /\ Reset(p)
    /\ inFlight' = [inFlight EXCEPT ![p] = {}]
    /\ doomed' = [doomed EXCEPT ![p] = FALSE]
    /\ UNCHANGED <<holder, deliveries, blobs, lost>>

Receive(p, m) ==
    /\ pc[p] = "idle"
    /\ queue[m] = "ready" /\ p \in Home(m)
    /\ queue' = [queue EXCEPT ![m] = "out"]
    /\ holder' = [holder EXCEPT ![m] = p]
    /\ deliveries' = [deliveries EXCEPT ![m] = @ + 1]
    /\ message' = [message EXCEPT ![p] = m]
    /\ attempt' = [attempt EXCEPT ![p] = deliveries[m] + 1]
    /\ Goto(p, "start")
    /\ UNCHANGED <<inFlight, doomed, output, faults, lost>>

(* from_utf8_json raises outside of any try: the process ends. *)
DecodeFails(p) ==
    /\ pc[p] = "start" /\ Kind[Job(p)] = "undecodable"
    /\ Exit(p)
    /\ UNCHANGED faults

(* Variant: the chunk is forwarded only on its last delivery. *)
MustForwardLate(p) == p \in Primary /\ attempt[p] >= MaxDeliveries

MustForward(p) == p \in Primary /\ attempt[p] > ForwardAfter

(* Variant: the chunk is acked without being published to the backup topic. *)
ForwardDropped(p) ==
    /\ pc[p] = "start" /\ Kind[Job(p)] # "undecodable"
    /\ MustForward(p)
    /\ Goto(p, "ack")
    /\ UNCHANGED <<subscription, work, inFlight, doomed, output, faults, lost>>

Forward(p) ==
    /\ pc[p] = "start" /\ Kind[Job(p)] # "undecodable"
    /\ MustForward(p)
    /\ inFlight' = [inFlight EXCEPT ![p] = {"forward"}]
    /\ Goto(p, "forward")
    /\ UNCHANGED <<subscription, work, doomed, output, faults, lost>>

(* The handler's constructor raises: acked. *)
Skip(p) ==
    /\ pc[p] = "start" /\ Kind[Job(p)] = "skipped"
    /\ ~MustForward(p)
    /\ Goto(p, "ack")
    /\ UNCHANGED <<subscription, work, inFlight, doomed, output, faults, lost>>

StartRun(p) ==
    /\ pc[p] = "start" /\ Kind[Job(p)] \notin {"undecodable", "skipped"}
    /\ ~MustForward(p)
    /\ Goto(p, "run")
    /\ UNCHANGED <<subscription, work, inFlight, doomed, output, faults, lost>>

(* The kernel kills a pod that runs out of memory. *)
OutOfMemory(p) ==
    /\ pc[p] = "run" /\ Kind[Job(p)] = "heavy" /\ p \in Primary
    /\ Exit(p)
    /\ UNCHANGED faults

(* An exception of load_gcs_zarr or of CoCiP: nack, which only stops the    *)
(* extension of the lease.                                                  *)
Nack(p) ==
    /\ Reset(p)
    /\ UNCHANGED <<subscription, inFlight, doomed, output, lost>>

RunRaises(p) ==
    /\ pc[p] = "run" /\ Kind[Job(p)] = "unrunnable"
    /\ Nack(p)
    /\ UNCHANGED faults

(* AircraftUnrecognizedError is the exception that is acked. *)
RunSkips(p) ==
    /\ pc[p] = "run" /\ Kind[Job(p)] = "unsupported"
    /\ Goto(p, "ack")
    /\ UNCHANGED <<subscription, work, inFlight, doomed, output, faults, lost>>

RunFails(p) ==
    /\ pc[p] = "run" /\ Kind[Job(p)] # "unrunnable"
    /\ Error
    /\ Nack(p)

RunSucceeds(p) ==
    /\ pc[p] = "run" /\ Kind[Job(p)] \notin {"unrunnable", "unsupported"}
    /\ Kind[Job(p)] = "heavy" => p \in Backup
    /\ inFlight' = [inFlight EXCEPT ![p] = {"summary"}]
    /\ Goto(p, "summary")
    /\ UNCHANGED <<subscription, work, doomed, output, faults, lost>>

(* Variant: the forwarded chunk is acked before the backup topic has it. *)
ForwardNotAwaited(p) ==
    /\ pc[p] = "forward"
    /\ Goto(p, "ack")
    /\ UNCHANGED <<subscription, work, inFlight, doomed, output, faults, lost>>

(* wait_for_publish returns once no future is pending, failed ones or not:  *)
(* a waiter is woken before the failed future's callback ends the process.  *)
ForwardDone(p) ==
    /\ pc[p] = "forward" /\ inFlight[p] = {}
    /\ Goto(p, "ack")
    /\ UNCHANGED <<subscription, work, inFlight, doomed, output, faults, lost>>

SummaryDone(p) ==
    /\ pc[p] = "summary" /\ inFlight[p] = {}
    /\ IF Kind[Job(p)] = "export"
       THEN /\ inFlight' = [inFlight EXCEPT ![p] = Segment]
            /\ Goto(p, "upload")
       ELSE /\ Goto(p, "flush")
            /\ UNCHANGED inFlight
    /\ UNCHANGED <<subscription, work, doomed, output, faults, lost>>

Upload(p) ==
    /\ pc[p] = "upload"
    /\ blobs' = blobs \cup {Job(p)}
    /\ Goto(p, "flush")
    /\ UNCHANGED <<subscription, work, inFlight, doomed, rows, faults, lost>>

(* Variant: the last wait for the publisher is left out. *)
FlushSkipped(p) ==
    /\ pc[p] = "flush"
    /\ Goto(p, "ack")
    /\ UNCHANGED <<subscription, work, inFlight, doomed, output, faults, lost>>

FlushDone(p) ==
    /\ pc[p] = "flush" /\ inFlight[p] = {}
    /\ Goto(p, "ack")
    /\ UNCHANGED <<subscription, work, inFlight, doomed, output, faults, lost>>

FutureSucceeds(p, r) ==
    /\ r \in inFlight[p]
    /\ Accept(p, {r})
    /\ inFlight' = [inFlight EXCEPT ![p] = @ \ {r}]
    /\ UNCHANGED <<holder, deliveries, pc, work, doomed, blobs, faults, lost>>

(* A publish that failed for the client may have been accepted. *)
FutureFails(p, r) ==
    /\ r \in inFlight[p]
    /\ Error
    /\ \E landed \in SUBSET {r} : Accept(p, landed)
    /\ inFlight' = [inFlight EXCEPT ![p] = @ \ {r}]
    /\ doomed' = [doomed EXCEPT ![p] = TRUE]
    /\ lost' = lost \cup {Job(p)}
    /\ UNCHANGED <<holder, deliveries, pc, work, blobs>>

(* _exit_on_error.  The pod may have gone on to its next message. *)
CallbackExits(p) ==
    /\ doomed[p] /\ pc[p] # "idle"
    /\ Exit(p)
    /\ UNCHANGED faults

CallbackExitsIdle(p) ==
    /\ doomed[p] /\ pc[p] = "idle"
    /\ doomed' = [doomed EXCEPT ![p] = FALSE]
    /\ UNCHANGED <<subscription, pc, work, inFlight, output, faults, lost>>

(* An ack without the lease is refused; the pod logs that and goes on. *)
Ack(p) ==
    /\ pc[p] = "ack"
    /\ LET m == message[p]
       IN  queue' = IF queue[m] = "out" /\ holder[m] = p
                    THEN [queue EXCEPT ![m] = "acked"] ELSE queue
    /\ Reset(p)
    /\ UNCHANGED <<holder, deliveries, inFlight, doomed, output, faults, lost>>

(* The acknowledge call fails: ack() swallows the exception. *)
AckFails(p) ==
    /\ pc[p] = "ack"
    /\ Error
    /\ Reset(p)
    /\ UNCHANGED <<subscription, inFlight, doomed, output, lost>>

(* Killed anywhere, on SIGTERM at the top of the loop, when wait_for_publish *)
(* times out, or by an exception after the run, such as a failed upload.    *)
PodDies(p) ==
    /\ pc[p] # "idle"
    /\ Crash
    /\ Exit(p)

PodStep(p) ==
    \/ DecodeFails(p) \/ Forward(p) \/ Skip(p) \/ StartRun(p)
    \/ OutOfMemory(p) \/ RunRaises(p) \/ RunSkips(p) \/ RunSucceeds(p)
    \/ ForwardDone(p) \/ SummaryDone(p) \/ Upload(p) \/ FlushDone(p)
    \/ Ack(p)

FutureStep(p) == \E r \in inFlight[p] : FutureSucceeds(p, r)
CallbackStep(p) == CallbackExits(p) \/ CallbackExitsIdle(p)

Next ==
    \/ \E c \in Chunk : Submit(c)
    \/ \E m \in Message : LeaseEnds(m) \/ LeaseLapses(m)
    \/ \E p \in Pod, m \in Message : Receive(p, m)
    \/ \E p \in Pod :
        \/ PodStep(p) \/ FutureStep(p) \/ CallbackStep(p)
        \/ RunFails(p) \/ AckFails(p) \/ PodDies(p)
        \/ \E r \in inFlight[p] : FutureFails(p, r)

Spec == Init /\ [][Next]_vars

(* Live pods run, the publisher resolves every future within its timeout,   *)
(* Pub/Sub delivers what is ready and ends the leases nobody extends.       *)
FairSpec ==
    /\ Spec
    /\ \A p \in Pod : WF_vars(PodStep(p) \/ FutureStep(p)) /\ WF_vars(CallbackStep(p))
    /\ \A m \in Message :
        /\ WF_vars(LeaseEnds(m))
        /\ WF_vars(\E p \in Pod : Receive(p, m))

-------------------------------------------------------------------------------
Submitted(c) == queue[<<c, 0>>] # "none"

(* Everything the worker owes for a chunk is in BigQuery's topic and bucket. *)
Done(c) ==
    \/ Kind[c] \in {"skipped", "unsupported"}
    \/ /\ rows[c]["summary"] > 0
       /\ Kind[c] = "export" =>
            c \in blobs /\ \A s \in Segment : rows[c][s] > 0

(* A message of the chunk is still to be worked on, or kept as a dead letter. *)
Kept(c) == \E m \in Copies(c) : queue[m] \in {"ready", "out", "dead"}

(* However pods die, leases lapse, acks fail and copies multiply, a chunk is  *)
(* gone from every queue only when all its results are out; the one way to    *)
(* lose a result is a failed publish future whose exit comes after the ack    *)
(* (main.py:43-224).                                                          *)
NoChunkVanishes == \A c \in Chunk : Submitted(c) => Kept(c) \/ Done(c) \/ c \in lost

(* Results are at least once; each duplicate has a failure of its own, and a  *)
(* chunk forwarded more than once is no exception (main.py:52-67, 156-224).   *)
DuplicatesNeedFailures ==
    \A c \in Chunk : \A r \in Row : rows[c][r] <= 1 + crashes + errors

(* A chunk that a backup pod can process is dead-lettered by the primary      *)
(* subscription only if every forward failed, and by the backup subscription  *)
(* only if every run did.                                                     *)
DeadLetterNeedsFailures ==
    \A m \in Message :
        queue[m] = "dead" /\ Kind[ChunkOf(m)] \notin {"undecodable", "unrunnable"} =>
            crashes + errors >= IF m[2] = 0 THEN MaxDeliveries - ForwardAfter
                                ELSE MaxDeliveries

(* Every chunk that was submitted is processed in the end, dead-lettered, or  *)
(* lost to a failed future; one that is too heavy for every primary pod is    *)
(* processed by a backup pod.                                                 *)
EveryChunkEnds ==
    []<>(\A c \in Chunk :
            Submitted(c) => \/ Done(c) \/ c \in lost
                            \/ \E m \in Copies(c) : queue[m] = "dead")
===============================================================================
