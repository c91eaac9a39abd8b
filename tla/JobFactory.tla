------------------------------- MODULE JobFactory -------------------------------
(***************************************************************************)
(* The trajectory-worker job factory (TWJF): a horizontally scaled          *)
(* deployment whose pods take trajectory-worker job descriptors (TWJDs)     *)
(* from a Pub/Sub subscription, walk over the flights each one describes,   *)
(* and publish every flight that survives quality control to the           *)
(* trajectory worker's topic.  While it walks, a pod keeps the number of    *)
(* the flight it has reached in Redis, so that the pod that receives the    *)
(* TWJD after a failure can skip the flights already done.                  *)
(*                                                                          *)
(* The subscription is at-least-once: a delivered message is leased to a    *)
(* pod, whose lease thread extends the lease while it works; when the lease *)
(* ends without an ack the message is delivered again, and after            *)
(* MaxDeliveries deliveries it goes to the dead-letter topic instead.       *)
(*                                                                          *)
(* A flight is its position in its TWJD's flights, sorted by flight_id;     *)
(* what quality control makes of it is fixed data (Verdicts).  A TWJD's     *)
(* data is the same every time it is fetched.                               *)
(***************************************************************************)
EXTENDS Integers, Sequences, FiniteSets

CONSTANTS
    Pod,            \* TWJF pods
    Twjd,           \* messages a caller may publish
    Descriptor,     \* the content of each message
    Verdicts,       \* what becomes of each flight of each message
    Undecodable,    \* messages whose data is not a TWJD
    Unfetchable,    \* messages whose data query or cache is permanently bad
    None,           \* an absent field
    MaxDeliveries,  \* max_delivery_attempts of the subscription
    Batches,        \* bound: the sets of messages that callers publish
    MaxCrashes,     \* bound: pods that die or fail to ack
    MaxErrors       \* bound: transient errors of Redis, Pub/Sub or a fetch

(* "good" reaches the queue; "ejected" fails quality control; "unbuildable" *)
(* fails while its job is put together; "poison" raises where nothing       *)
(* catches it but main.                                                     *)
Verdict == {"good", "ejected", "unbuildable", "poison"}

VARIABLES
    queue,          \* where each message is
    holder,         \* the pod a message was last delivered to
    deliveries,     \* times each message was delivered
    redis,          \* progress marker of each cache key, 0 when absent
    pc,             \* where each pod's main thread is
    job,            \* the message each pod works on
    counter,        \* the flight each pod has reached
    marker,         \* the progress marker each pod read when it began
    doomed,         \* pods with a failed future whose callback has yet to exit
    crashes, errors,
    refused,        \* publish futures that failed, among the errors
    sent,           \* history: flights of each message accepted by the topic
    resent,         \* history: those accepted more than once
    cut,            \* history: flights given up between marker and topic
    worked,         \* history: flights a run of each message took in hand
    skipped,        \* history: flights a run of each message fast-forwarded over
    relapsed        \* history: messages that lost their marker or their lease

vars == <<queue, holder, deliveries, redis, pc, job, counter, marker, doomed,
          crashes, errors, refused, sent, resent, cut, worked, skipped, relapsed>>
subscription == <<queue, holder, deliveries>>
loop == <<job, counter, marker>>
faults == <<crashes, errors, refused>>
topic == <<sent, resent>>
walk == <<worked, skipped>>
outcome == <<topic, cut, walk, relapsed>>

Flights(t) == 1 .. Len(Verdicts[t])

(* TrajectoryWorkerJobDescriptor.verify: exactly one way to name the flights. *)
Valid(t) ==
    LET d == Descriptor[t]
        byAirline == d.day # None /\ d.airline # None
        byFlight == d.day # None /\ d.flight # None
        byJob == d.jobId # None /\ d.table # None
    IN  /\ byAirline \/ byFlight \/ byJob
        /\ ~(byAirline /\ byFlight) /\ ~(byAirline /\ byJob) /\ ~(byFlight /\ byJob)

(* Variant: the key leaves out the day. *)
CacheKeyWithoutDay(t) ==
    LET d == Descriptor[t] IN
    IF d.jobId # None THEN <<d.jobId, d.met>>
    ELSE IF d.airline # None THEN <<d.airline, d.met>>
    ELSE <<>>

(* The Redis key: a job id wins over an airline's day; a single flight has none. *)
CacheKey(t) ==
    LET d == Descriptor[t] IN
    IF d.jobId # None THEN <<d.jobId, d.met>>
    ELSE IF d.airline # None THEN <<d.airline, d.day, d.met>>
    ELSE <<>>

Cached(t) == CacheKey(t) # <<>>
Keys == {CacheKey(t) : t \in Twjd} \ {<<>>}
DryRun(t) == Descriptor[t].dryRun

(* PermanentFailureException. *)
Rejected(t) == ~Valid(t) \/ t \in Unfetchable

ASSUME JobFactoryAssumption ==
    /\ IsFiniteSet(Pod) /\ None \notin Pod /\ None \notin Twjd
    /\ \A t \in Twjd : Descriptor[t].dryRun \in BOOLEAN
    /\ Verdicts \in [Twjd -> Seq(Verdict)]
    /\ Undecodable \subseteq Twjd /\ Unfetchable \subseteq Twjd
    /\ MaxDeliveries \in Nat \ {0}
    /\ {MaxCrashes, MaxErrors} \subseteq Nat

Stages == {"idle", "start", "loop", "push", "publish", "wait", "pop", "ack"}

TypeOK ==
    /\ queue \in [Twjd -> {"unsent", "ready", "out", "acked", "dead"}]
    /\ holder \in [Twjd -> Pod \cup {None}]
    /\ deliveries \in [Twjd -> 0 .. MaxDeliveries]
    /\ redis \in [Keys -> Nat]
    /\ pc \in [Pod -> Stages]
    /\ job \in [Pod -> Twjd \cup {None}]
    /\ \A p \in Pod : pc[p] # "idle" => job[p] \in Twjd
    /\ counter \in [Pod -> Nat] /\ marker \in [Pod -> Nat]
    /\ doomed \in [Pod -> BOOLEAN]
    /\ crashes \in 0 .. MaxCrashes /\ errors \in 0 .. MaxErrors
    /\ refused \in 0 .. errors
    /\ {sent, resent, cut, worked, skipped} \subseteq [Twjd -> SUBSET Nat]
    /\ relapsed \subseteq Twjd

Init ==
    /\ queue = [t \in Twjd |-> "unsent"]
    /\ holder = [t \in Twjd |-> None]
    /\ deliveries = [t \in Twjd |-> 0]
    /\ redis = [k \in Keys |-> 0]
    /\ pc = [p \in Pod |-> "idle"]
    /\ job = [p \in Pod |-> None]
    /\ counter = [p \in Pod |-> 0]
    /\ marker = [p \in Pod |-> 0]
    /\ doomed = [p \in Pod |-> FALSE]
    /\ crashes = 0 /\ errors = 0 /\ refused = 0
    /\ sent = [t \in Twjd |-> {}]
    /\ resent = [t \in Twjd |-> {}]
    /\ cut = [t \in Twjd |-> {}]
    /\ worked = [t \in Twjd |-> {}]
    /\ skipped = [t \in Twjd |-> {}]
    /\ relapsed = {}

Crash ==
    /\ crashes < MaxCrashes
    /\ crashes' = crashes + 1
    /\ UNCHANGED <<errors, refused>>
Error ==
    /\ errors < MaxErrors
    /\ errors' = errors + 1
    /\ UNCHANGED <<crashes, refused>>
Refusal ==
    /\ errors < MaxErrors
    /\ errors' = errors + 1 /\ refused' = refused + 1
    /\ UNCHANGED crashes

Add(f, t, i) == [f EXCEPT ![t] = @ \cup {i}]

-------------------------------------------------------------------------------
(* The subscription, and Redis's clock. *)

Submit(t) ==
    /\ queue[t] = "unsent"
    /\ \E batch \in Batches : {t} \cup {u \in Twjd : queue[u] # "unsent"} \subseteq batch
    /\ queue' = [queue EXCEPT ![t] = "ready"]
    /\ UNCHANGED <<holder, deliveries, redis, pc, loop, doomed, faults, outcome>>

(* The pod still works on the delivery that holds the message's lease. *)
LeaseExtended(t) == \E p \in Pod : holder[t] = p /\ pc[p] # "idle" /\ job[p] = t

(* Variant: the subscription has no dead-letter policy. *)
LeaseEndsForever(t) ==
    /\ queue[t] = "out"
    /\ ~LeaseExtended(t)
    /\ queue' = [queue EXCEPT ![t] = "ready"]
    /\ UNCHANGED <<holder, deliveries, redis, pc, loop, doomed, faults, outcome>>

(* A lease ends because its pod died or let it go, or, in error, because    *)
(* extending it failed while the pod works on.                              *)
LeaseEnds(t) ==
    /\ queue[t] = "out"
    /\ IF LeaseExtended(t)
       THEN Error /\ relapsed' = relapsed \cup {t}
       ELSE UNCHANGED <<faults, relapsed>>
    /\ queue' = [queue EXCEPT
                   ![t] = IF deliveries[t] < MaxDeliveries THEN "ready" ELSE "dead"]
    /\ UNCHANGED <<holder, deliveries, redis, pc, loop, doomed, topic, cut, walk>>

WithKey(k) == {t \in Twjd : CacheKey(t) = k}

(* The key's four hours without a push are over. *)
MarkerExpires(k) ==
    /\ redis[k] # 0
    /\ redis' = [redis EXCEPT ![k] = 0]
    /\ relapsed' = relapsed \cup WithKey(k)
    /\ UNCHANGED <<subscription, pc, loop, doomed, faults, topic, cut, walk>>

-------------------------------------------------------------------------------
(* A pod. *)

Goto(p, stage) == pc' = [pc EXCEPT ![p] = stage]

(* Back to the top of main's loop, or a new process in the pod's place. *)
Reset(p) ==
    /\ Goto(p, "idle")
    /\ job' = [job EXCEPT ![p] = None]
    /\ counter' = [counter EXCEPT ![p] = 0]
    /\ marker' = [marker EXCEPT ![p] = 0]

(* The topic accepts the flight the pod has in hand. *)
Accepted(p) ==
    /\ sent' = Add(sent, job[p], counter[p])
    /\ resent' = IF counter[p] \in sent[job[p]]
                 THEN Add(resent, job[p], counter[p]) ELSE resent

(* The process ends.  Behind a moved marker the flight in hand is lost,     *)
(* unless the publish on the wire is accepted all the same.                 *)
Exit(p) ==
    /\ Reset(p)
    /\ doomed' = [doomed EXCEPT ![p] = FALSE]
    /\ UNCHANGED <<walk, relapsed>>
    /\ \/ /\ pc[p] = "wait"
          /\ Accepted(p)
          /\ UNCHANGED cut
       \/ /\ cut' = IF pc[p] \in {"publish", "wait"} /\ Cached(job[p])
                    THEN Add(cut, job[p], counter[p]) ELSE cut
          /\ UNCHANGED topic

Receive(p, t) ==
    /\ pc[p] = "idle" /\ queue[t] = "ready"
    /\ queue' = [queue EXCEPT ![t] = "out"]
    /\ holder' = [holder EXCEPT ![t] = p]
    /\ deliveries' = [deliveries EXCEPT ![t] = @ + 1]
    /\ job' = [job EXCEPT ![p] = t]
    /\ Goto(p, "start")
    /\ UNCHANGED <<redis, counter, marker, doomed, faults, outcome>>

(* from_utf8_json raises outside of main's try: the process ends. *)
DecodeFails(p) ==
    /\ pc[p] = "start" /\ job[p] \in Undecodable
    /\ Exit(p)
    /\ UNCHANGED <<subscription, redis, faults>>

(* A permanent failure is acked. *)
Reject(p) ==
    /\ pc[p] = "start" /\ job[p] \notin Undecodable
    /\ Rejected(job[p])
    /\ Goto(p, "ack")
    /\ UNCHANGED <<subscription, redis, loop, doomed, faults, outcome>>

(* The telemetry is fetched, then the marker is read. *)
Begin(p) ==
    /\ pc[p] = "start" /\ job[p] \notin Undecodable
    /\ ~Rejected(job[p])
    /\ Goto(p, "loop")
    /\ marker' = [marker EXCEPT
                    ![p] = IF Cached(job[p]) THEN redis[CacheKey(job[p])] ELSE 0]
    /\ UNCHANGED <<subscription, redis, job, counter, doomed, faults, outcome>>

(* BigQuery, GCS or Redis fails for now: nack, which only stops extending. *)
BeginFails(p) ==
    /\ pc[p] = "start" /\ job[p] \notin Undecodable
    /\ ~Rejected(job[p])
    /\ Error
    /\ Reset(p)
    /\ UNCHANGED <<subscription, redis, doomed, outcome>>

HasNext(p) == pc[p] = "loop" /\ counter[p] < Len(Verdicts[job[p]])

(* Variant: a retry skips the flight after the marker, too. *)
FastForwardsTooFar(p) == marker[p] > 0 /\ counter[p] <= marker[p]

FastForwards(p) == counter[p] < marker[p]

NextVerdict(p) == Verdicts[job[p]][counter[p] + 1]

(* One turn of the loop, up to where the flight is left or has its job built. *)
NextFlight(p) ==
    /\ HasNext(p)
    /\ FastForwards(p) \/ NextVerdict(p) # "poison"
    /\ counter' = [counter EXCEPT ![p] = @ + 1]
    /\ Goto(p, IF FastForwards(p) \/ NextVerdict(p) # "good" THEN "loop"
               ELSE IF Cached(job[p]) THEN "push"
               ELSE IF DryRun(job[p]) THEN "loop"
               ELSE "publish")
    /\ LET t == job[p]
           i == counter[p] + 1
       IN  IF FastForwards(p)
           THEN skipped' = Add(skipped, t, i) /\ UNCHANGED worked
           ELSE worked' = Add(worked, t, i) /\ UNCHANGED skipped
    /\ UNCHANGED <<subscription, redis, job, marker, doomed, faults, topic, cut, relapsed>>

(* Variant: the flight that raised is tried again, for ever. *)
FlightRetriedForever(p) ==
    /\ HasNext(p)
    /\ ~FastForwards(p) /\ NextVerdict(p) = "poison"
    /\ UNCHANGED vars

(* An exception that only main catches: nack. *)
FlightRaises(p) ==
    /\ HasNext(p)
    /\ ~FastForwards(p) /\ NextVerdict(p) = "poison"
    /\ Reset(p)
    /\ UNCHANGED <<subscription, redis, doomed, faults, outcome>>

(* Variant: the marker is not kept. *)
PushMarkerSkipped(p) ==
    /\ pc[p] = "push"
    /\ Goto(p, IF DryRun(job[p]) THEN "loop" ELSE "publish")
    /\ UNCHANGED <<subscription, redis, loop, doomed, faults, outcome>>

(* The marker is moved before the flight is published. *)
PushMarker(p) ==
    /\ pc[p] = "push"
    /\ redis' = [redis EXCEPT ![CacheKey(job[p])] = counter[p]]
    /\ Goto(p, IF DryRun(job[p]) THEN "loop" ELSE "publish")
    /\ UNCHANGED <<subscription, loop, doomed, faults, outcome>>

(* An exception of push is logged as "job submit failed" and the loop goes  *)
(* on; the write may have been applied.                                     *)
PushFails(p) ==
    /\ pc[p] = "push"
    /\ Error
    /\ redis' \in {redis, [redis EXCEPT ![CacheKey(job[p])] = counter[p]]}
    /\ cut' = Add(cut, job[p], counter[p])
    /\ Goto(p, "loop")
    /\ UNCHANGED <<subscription, loop, doomed, topic, walk, relapsed>>

(* Variant: a pod does not publish the flight it has built a job for. *)
PublishSkipped(p) ==
    /\ pc[p] = "publish"
    /\ Goto(p, "loop")
    /\ UNCHANGED <<subscription, redis, loop, doomed, faults, outcome>>

PublishAsync(p) ==
    /\ pc[p] = "publish"
    /\ Goto(p, "wait")
    /\ UNCHANGED <<subscription, redis, loop, doomed, faults, outcome>>

(* The publisher client refuses the message: "job submit failed" again. *)
PublishFails(p) ==
    /\ pc[p] = "publish"
    /\ Error
    /\ cut' = Add(cut, job[p], counter[p])
    /\ Goto(p, "loop")
    /\ UNCHANGED <<subscription, redis, loop, doomed, topic, walk, relapsed>>

FutureSucceeds(p) ==
    /\ pc[p] = "wait"
    /\ Accepted(p)
    /\ Goto(p, "loop")
    /\ UNCHANGED <<subscription, redis, loop, doomed, faults, cut, walk, relapsed>>

(* The publish fails for good, as far as the client can tell.  A failed      *)
(* future is a done one to wait_for_publish, and main is woken before the    *)
(* callback that ends the process.                                           *)
FutureFails(p) ==
    /\ pc[p] = "wait"
    /\ Refusal
    /\ Accepted(p) \/ UNCHANGED topic
    /\ cut' = Add(cut, job[p], counter[p])
    /\ doomed' = [doomed EXCEPT ![p] = TRUE]
    /\ Goto(p, "loop")
    /\ UNCHANGED <<subscription, redis, loop, walk, relapsed>>

CallbackExits(p) ==
    /\ doomed[p]
    /\ Exit(p)
    /\ UNCHANGED <<subscription, redis, faults>>

EndOfLoop(p) ==
    /\ pc[p] = "loop" /\ ~HasNext(p)
    /\ Goto(p, IF Cached(job[p]) THEN "pop" ELSE "ack")
    /\ UNCHANGED <<subscription, redis, loop, doomed, faults, outcome>>

RemoveMarker(p) ==
    /\ redis' = [redis EXCEPT ![CacheKey(job[p])] = 0]
    /\ relapsed' = relapsed \cup WithKey(CacheKey(job[p]))

PopMarker(p) ==
    /\ pc[p] = "pop"
    /\ RemoveMarker(p)
    /\ Goto(p, "ack")
    /\ UNCHANGED <<subscription, loop, doomed, faults, topic, cut, walk>>

(* An exception of pop reaches main: nack. *)
PopFails(p) ==
    /\ pc[p] = "pop"
    /\ Error
    /\ RemoveMarker(p) \/ UNCHANGED <<redis, relapsed>>
    /\ Reset(p)
    /\ UNCHANGED <<subscription, doomed, topic, cut, walk>>

(* Variant: a dry run is not acked. *)
AckForgetsDryRun(p) ==
    /\ pc[p] = "ack"
    /\ queue' = IF DryRun(job[p]) THEN queue ELSE [queue EXCEPT ![job[p]] = "acked"]
    /\ Reset(p)
    /\ UNCHANGED <<holder, deliveries, redis, doomed, faults, outcome>>

(* An ack whose lease has ended may or may not still count. *)
Ack(p) ==
    /\ pc[p] = "ack"
    /\ LET t == job[p]
           acked == [queue EXCEPT ![t] = "acked"]
       IN  queue' \in IF queue[t] \in {"acked", "dead"} THEN {queue}
                      ELSE IF queue[t] = "out" /\ holder[t] = p THEN {acked}
                      ELSE {queue, acked}
    /\ Reset(p)
    /\ UNCHANGED <<holder, deliveries, redis, doomed, faults, outcome>>

(* The process ends: killed anywhere, on SIGTERM at the top of a loop, when  *)
(* wait_for_publish times out, or when acknowledge raises.                   *)
PodDies(p) ==
    /\ pc[p] # "idle"
    /\ Crash
    /\ Exit(p)
    /\ UNCHANGED <<subscription, redis>>

PodStep(p) ==
    \/ DecodeFails(p) \/ Reject(p) \/ Begin(p)
    \/ NextFlight(p) \/ FlightRaises(p)
    \/ PushMarker(p) \/ PublishAsync(p) \/ FutureSucceeds(p) \/ CallbackExits(p)
    \/ EndOfLoop(p) \/ PopMarker(p) \/ Ack(p)

PodError(p) ==
    \/ BeginFails(p) \/ PushFails(p) \/ PublishFails(p)
    \/ FutureFails(p) \/ PopFails(p)

Next ==
    \/ \E t \in Twjd : Submit(t) \/ LeaseEnds(t)
    \/ \E k \in Keys : MarkerExpires(k)
    \/ \E p \in Pod, t \in Twjd : Receive(p, t)
    \/ \E p \in Pod : PodStep(p) \/ PodError(p) \/ PodDies(p)

Spec == Init /\ [][Next]_vars

(* Live pods run, the publisher resolves futures, Pub/Sub delivers what is   *)
(* ready and ends the leases nobody extends.                                 *)
FairSpec ==
    /\ Spec
    /\ \A p \in Pod : WF_vars(PodStep(p))
    /\ WF_vars(\E t \in Twjd : ~LeaseExtended(t) /\ LeaseEnds(t))
    /\ WF_vars(\E p \in Pod, t \in Twjd : Receive(p, t))

-------------------------------------------------------------------------------
(* Properties. *)

Processed(t) == t \notin Undecodable /\ ~Rejected(t)

(* Whom the service means to share a marker: the messages of one job id, or  *)
(* of one airline's day, with one source of meteorology.  It tells apart     *)
(* neither a dry run nor whole trajectories from the rest.                   *)
SharesMarker(t, u) ==
    LET d == Descriptor[t]
        e == Descriptor[u]
    IN  /\ d.met = e.met /\ d.jobId = e.jobId
        /\ d.jobId = None => d.airline = e.airline /\ d.day = e.day
Fellows(t) == IF Cached(t) THEN {u \in Twjd : SharesMarker(t, u)} ELSE {t}

(* No fellow of the message has been submitted. *)
Unshared(t) == \A u \in Fellows(t) \ {t} : queue[u] = "unsent"

(* The two end states the service means a flight to have. *)
Settled(t, i) == i \in sent[t] \/ Verdicts[t][i] = "ejected"

(* A pod has the flight in hand, its marker moved, its publish not resolved. *)
InHand(t, i) ==
    \E p \in Pod : job[p] = t /\ counter[p] = i /\ pc[p] \in {"publish", "wait"}

(* What can have become of a flight that a run of its message took in hand. *)
Accounted(t, i) ==
    /\ i \in worked[t]
    /\ \/ Settled(t, i)
       \/ Verdicts[t][i] = "unbuildable"
       \/ Verdicts[t][i] = "good" /\ DryRun(t)
       \/ i \in cut[t]
       \/ InHand(t, i)

(* Once a TWJD is acked, a run of it took every one of its flights in hand,   *)
(* and the flight was published, ejected, given up by a named failure, or is  *)
(* in the hand of another pod.  The one exception is a flight that a run      *)
(* fast-forwarded over because a fellow, a dry run of the same day or the day *)
(* itself, was submitted, moved the shared marker and did all that in a run   *)
(* of its own.  So no flight is passed over in silence, nor by the marker of  *)
(* another day or job, whatever pods share a message, die, or outlive their   *)
(* lease (services.py:378-413, 746-790).                                      *)
AckedIsAccounted ==
    \A t \in Twjd :
        queue[t] = "acked" /\ Processed(t) =>
            \A i \in Flights(t) :
                \/ Accounted(t, i)
                \/ /\ i \in skipped[t]
                   /\ \E u \in Fellows(t) \ {t} : i \in Flights(u) /\ Accounted(u, i)

(* A death or an error costs an acked TWJD at most the one flight between     *)
(* marker and topic; a failed future costs two, since main may take the next  *)
(* flight before the process exits (services.py:767-775).                     *)
Missing(t) ==
    {i \in Flights(t) : Verdicts[t][i] = "good" /\ i \notin sent[t] /\ ~InHand(t, i)}
LossBounded ==
    \A t \in Twjd :
        queue[t] = "acked" /\ Processed(t) /\ Unshared(t) /\ ~DryRun(t) =>
            Cardinality(Missing(t)) <= crashes + errors + refused

(* What the marker is for: a flight is published twice only after the TWJD    *)
(* lost its lease or its marker, never because a pod died (README.md:228-237). *)
ResentNeedsRelapse ==
    \A t \in Twjd :
        resent[t] # {} /\ Cached(t) /\ Unshared(t) => t \in relapsed

(* Again and again nothing is left to deliver: every TWJD is acked or         *)
(* dead-lettered in the end, one that crashes every pod included.             *)
EverySubmissionEnds ==
    []<>(\A t \in Twjd : queue[t] \in {"unsent", "acked", "dead"})

(* A TWJD is dead-lettered only after a failure: of a pod, of a dependency,   *)
(* or of the TWJD itself.                                                     *)
Healthy(t) ==
    /\ t \notin Undecodable
    /\ Rejected(t) \/ \A i \in Flights(t) : Verdicts[t][i] # "poison"
DeadLetterNeedsFailure ==
    \A t \in Twjd :
        queue[t] = "dead" /\ Healthy(t) => crashes + errors >= MaxDeliveries

-------------------------------------------------------------------------------
(* README.md:230-231: a retry fast-forwards to the last flight that had been  *)
(* successfully published to the TW queue.                                    *)
FastForwardIsPublished ==
    \A p \in Pod :
        pc[p] = "loop" => \A i \in 1 .. marker[p] : Settled(job[p], i)
===============================================================================
