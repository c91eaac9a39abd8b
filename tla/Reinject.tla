------------------------------- MODULE Reinject -------------------------------
(***************************************************************************)
(* flights reinject, of pipeline-cli: pull dead-lettered trajectory        *)
(* chunks, publish each one to the worker's topic again, wait for the      *)
(* publisher, and only then ack them.                                      *)
(*                                                                         *)
(* The dead-letter subscription delivers at least once, its ack deadline   *)
(* is 60 seconds and it has no dead-letter policy of its own.  The client  *)
(* pulls once and never extends a lease.  Operators may run the command    *)
(* from several machines at a time; each run is a process of its own.      *)
(***************************************************************************)
EXTENDS Integers, FiniteSets, Sequences

CONSTANTS
    Cli,            \* places the command is run from
    Letter,         \* dead-lettered chunks
    Undecodable,    \* letters that are not a WaypointsRecord
    None,           \* no process
    MaxCount,       \* bound: --count, the most letters one run pulls
    FlowLimit,      \* message_limit of the publisher's flow control
    MaxRuns,        \* bound: times the command is run
    MaxFaults,      \* bound: processes that die and batches that fail to publish
    MaxLapses       \* bound: letters delivered again while a run works on them

ASSUME ReinjectAssumption ==
    /\ Undecodable \subseteq Letter
    /\ None \notin Cli
    /\ IsFiniteSet(Letter) /\ IsFiniteSet(Cli)
    /\ FlowLimit \in Nat \ {0}
    /\ {MaxCount, MaxRuns, MaxFaults, MaxLapses} \subseteq Nat

VARIABLES
    queue,          \* where each letter is on the dead-letter subscription
    holder,         \* the process that has its lease, or had it last
    pc,             \* where each process's main thread is
    batch,          \* messages, the letters a run has pulled
    dryrun,         \* whether the run was started with --dry-run
    at,             \* the letter of the batch the current loop is at
    inFlight,       \* letters published whose futures are not done
    doomed,         \* processes with a failed future whose callback has yet to exit
    runs, faults, lapses,
    accepted,       \* times the worker's topic accepted each letter
    refused,        \* history: letters one of whose publish futures failed
    unfinished      \* history: runs, not dry, that let go of a letter without its ack

vars == <<queue, holder, pc, batch, dryrun, at, inFlight, doomed, runs, faults, lapses,
          accepted, refused, unfinished>>
subscription == <<queue, holder>>
command == <<batch, dryrun>>
counters == <<runs, faults, lapses>>
histories == <<refused, unfinished>>

(* What one pull may return: some letters, in some order. *)
Batches ==
    {s \in UNION {[1 .. n -> Letter] : n \in 0 .. MaxCount} :
        \A i, j \in DOMAIN s : s[i] = s[j] => i = j}
Pulled(c) == {batch[c][i] : i \in DOMAIN batch[c]}

(* Letters a run is to ack, and has not: a dry run acks none. *)
NotAcked(c) ==
    {batch[c][i] : i \in {j \in DOMAIN batch[c] :
                            ~dryrun[c] /\ (pc[c] = "ack" => j >= at[c])}}

TypeOK ==
    /\ queue \in [Letter -> {"absent", "ready", "out", "acked"}]
    /\ holder \in [Letter -> Cli \cup {None}]
    /\ pc \in [Cli -> {"idle", "publish", "wait", "ack"}]
    /\ batch \in [Cli -> Batches]
    /\ dryrun \in [Cli -> BOOLEAN]
    /\ at \in [Cli -> 1 .. MaxCount + 1]
    /\ \A c \in Cli : at[c] <= Len(batch[c]) + 1
    /\ inFlight \in [Cli -> SUBSET Letter]
    /\ \A c \in Cli : Cardinality(inFlight[c]) <= FlowLimit
    /\ doomed \in [Cli -> BOOLEAN]
    /\ runs \in 0 .. MaxRuns /\ faults \in 0 .. MaxFaults /\ lapses \in 0 .. MaxLapses
    /\ accepted \in [Letter -> Nat]
    /\ refused \subseteq Letter
    /\ unfinished \in [Letter -> Nat]

Init ==
    /\ queue = [l \in Letter |-> "absent"]
    /\ holder = [l \in Letter |-> None]
    /\ pc = [c \in Cli |-> "idle"]
    /\ batch = [c \in Cli |-> <<>>]
    /\ dryrun = [c \in Cli |-> FALSE]
    /\ at = [c \in Cli |-> 1]
    /\ inFlight = [c \in Cli |-> {}]
    /\ doomed = [c \in Cli |-> FALSE]
    /\ runs = 0 /\ faults = 0 /\ lapses = 0
    /\ accepted = [l \in Letter |-> 0]
    /\ refused = {}
    /\ unfinished = [l \in Letter |-> 0]

Fault == faults < MaxFaults /\ faults' = faults + 1 /\ UNCHANGED <<runs, lapses>>

-------------------------------------------------------------------------------
(* The dead-letter subscription. *)

(* The worker's subscription gives up on a chunk. *)
Arrive(l) ==
    /\ queue[l] = "absent"
    /\ queue' = [queue EXCEPT ![l] = "ready"]
    /\ UNCHANGED <<holder, pc, command, at, inFlight, doomed, counters, accepted, histories>>

(* The lease of a process that is gone, or only looked, runs out. *)
Working(l) == \E c \in Cli : holder[l] = c /\ pc[c] # "idle" /\ l \in Pulled(c)
LeaseEnds(l) ==
    /\ queue[l] = "out" /\ ~Working(l)
    /\ queue' = [queue EXCEPT ![l] = "ready"]
    /\ UNCHANGED <<holder, pc, command, at, inFlight, doomed, counters, accepted, histories>>

(* More than 60 seconds from pull to ack, which run only warns of at its     *)
(* end, or a delivery more than the one that was due.                        *)
LeaseLapses(l) ==
    /\ queue[l] = "out" /\ Working(l)
    /\ lapses < MaxLapses /\ lapses' = lapses + 1
    /\ queue' = [queue EXCEPT ![l] = "ready"]
    /\ unfinished' = [unfinished EXCEPT ![l] = IF dryrun[holder[l]] THEN @ ELSE @ + 1]
    /\ UNCHANGED <<holder, pc, command, at, inFlight, doomed, runs, faults, accepted, refused>>

-------------------------------------------------------------------------------
(* A run of the command. *)

Accept(landed) ==
    accepted' = [l \in Letter |-> IF l \in landed THEN accepted[l] + 1 ELSE accepted[l]]

EndOfProcess(c) ==
    /\ pc' = [pc EXCEPT ![c] = "idle"]
    /\ batch' = [batch EXCEPT ![c] = <<>>]
    /\ dryrun' = [dryrun EXCEPT ![c] = FALSE]
    /\ at' = [at EXCEPT ![c] = 1]
    /\ inFlight' = [inFlight EXCEPT ![c] = {}]
    /\ doomed' = [doomed EXCEPT ![c] = FALSE]

(* The process ends early; what was on the wire may be accepted all the same. *)
Exit(c) ==
    /\ \E landed \in SUBSET inFlight[c] : Accept(landed)
    /\ unfinished' = [l \in Letter |-> IF l \in NotAcked(c) THEN unfinished[l] + 1
                                       ELSE unfinished[l]]
    /\ EndOfProcess(c)
    /\ UNCHANGED <<holder, refused>>

Fetch(c, s, dry) ==
    /\ pc[c] = "idle"
    /\ runs < MaxRuns /\ runs' = runs + 1
    /\ s # <<>> /\ \A i \in DOMAIN s : queue[s[i]] = "ready"
    /\ LET pulled == {s[i] : i \in DOMAIN s}
       IN  /\ queue' = [l \in Letter |-> IF l \in pulled THEN "out" ELSE queue[l]]
           /\ holder' = [l \in Letter |-> IF l \in pulled THEN c ELSE holder[l]]
    /\ pc' = [pc EXCEPT ![c] = "publish"]
    /\ batch' = [batch EXCEPT ![c] = s]
    /\ dryrun' = [dryrun EXCEPT ![c] = dry]
    /\ at' = [at EXCEPT ![c] = 1]
    /\ UNCHANGED <<inFlight, doomed, faults, lapses, accepted, histories>>

(* from_utf8_json raises: nothing is acked, the letters before were published. *)
DecodeFails(c) ==
    /\ pc[c] = "publish" /\ at[c] <= Len(batch[c])
    /\ batch[c][at[c]] \in Undecodable
    /\ Exit(c)
    /\ UNCHANGED <<queue, counters>>

(* Variant: no flow control. *)
PublishNextUnlimited(c) ==
    /\ pc[c] = "publish" /\ at[c] <= Len(batch[c])
    /\ batch[c][at[c]] \notin Undecodable
    /\ inFlight' = [inFlight EXCEPT ![c] = IF dryrun[c] THEN @ ELSE @ \cup {batch[c][at[c]]}]
    /\ at' = [at EXCEPT ![c] = @ + 1]
    /\ UNCHANGED <<subscription, pc, command, doomed, counters, accepted, histories>>

(* The publisher blocks while it has FlowLimit messages to send. *)
PublishNext(c) ==
    /\ pc[c] = "publish" /\ at[c] <= Len(batch[c])
    /\ batch[c][at[c]] \notin Undecodable
    /\ ~dryrun[c] => Cardinality(inFlight[c]) < FlowLimit
    /\ inFlight' = [inFlight EXCEPT ![c] = IF dryrun[c] THEN @ ELSE @ \cup {batch[c][at[c]]}]
    /\ at' = [at EXCEPT ![c] = @ + 1]
    /\ UNCHANGED <<subscription, pc, command, doomed, counters, accepted, histories>>

DryRunReturns(c) ==
    /\ pc[c] = "publish" /\ at[c] > Len(batch[c]) /\ dryrun[c]
    /\ EndOfProcess(c)
    /\ UNCHANGED <<subscription, counters, accepted, histories>>

AllPublished(c) ==
    /\ pc[c] = "publish" /\ at[c] > Len(batch[c]) /\ ~dryrun[c]
    /\ pc' = [pc EXCEPT ![c] = "wait"]
    /\ UNCHANGED <<subscription, command, at, inFlight, doomed, counters, accepted, histories>>

FutureSucceeds(c, l) ==
    /\ l \in inFlight[c]
    /\ Accept({l})
    /\ inFlight' = [inFlight EXCEPT ![c] = @ \ {l}]
    /\ UNCHANGED <<subscription, pc, command, at, doomed, counters, histories>>

(* A request, or an ordering key, fails for several messages; the topic may  *)
(* have accepted some of them.                                               *)
FuturesFail(c, failed) ==
    /\ failed # {}
    /\ Fault
    /\ \E landed \in SUBSET failed : Accept(landed)
    /\ inFlight' = [inFlight EXCEPT ![c] = @ \ failed]
    /\ doomed' = [doomed EXCEPT ![c] = TRUE]
    /\ refused' = refused \cup failed
    /\ UNCHANGED <<subscription, pc, command, at, unfinished>>

(* _exit_on_error, which the main thread may outrun. *)
CallbackExits(c) ==
    /\ doomed[c]
    /\ Exit(c)
    /\ UNCHANGED <<queue, counters>>

(* Variant: the publisher is not waited for. *)
WaitSkipped(c) ==
    /\ pc[c] = "wait"
    /\ pc' = [pc EXCEPT ![c] = "ack"]
    /\ at' = [at EXCEPT ![c] = 1]
    /\ UNCHANGED <<subscription, command, inFlight, doomed, counters, accepted, histories>>

(* wait_for_publish returns once no future is pending, failed ones or not. *)
WaitReturns(c) ==
    /\ pc[c] = "wait" /\ inFlight[c] = {}
    /\ pc' = [pc EXCEPT ![c] = "ack"]
    /\ at' = [at EXCEPT ![c] = 1]
    /\ UNCHANGED <<subscription, command, inFlight, doomed, counters, accepted, histories>>

(* An ack whose lease has ended is accepted, but may be without effect. *)
AckTaken(c, l) ==
    \/ queue' = [queue EXCEPT ![l] = "acked"]
    \/ ~(queue[l] = "out" /\ holder[l] = c) /\ UNCHANGED queue

AckNext(c) ==
    /\ pc[c] = "ack" /\ at[c] <= Len(batch[c])
    /\ AckTaken(c, batch[c][at[c]])
    /\ at' = [at EXCEPT ![c] = @ + 1]
    /\ UNCHANGED <<holder, pc, command, inFlight, doomed, counters, accepted, histories>>

(* Variant: the second loop stops one letter early. *)
DoneEarly(c) ==
    /\ pc[c] = "ack" /\ at[c] >= Len(batch[c])
    /\ EndOfProcess(c)
    /\ UNCHANGED <<subscription, counters, accepted, histories>>

Done(c) ==
    /\ pc[c] = "ack" /\ at[c] > Len(batch[c])
    /\ EndOfProcess(c)
    /\ UNCHANGED <<subscription, counters, accepted, histories>>

(* Killed anywhere, a wait that times out, or an acknowledge call that       *)
(* raises though the subscription may have taken it.                         *)
CliDies(c) ==
    /\ pc[c] # "idle"
    /\ Fault
    /\ Exit(c)
    /\ \/ UNCHANGED queue
       \/ /\ pc[c] = "ack" /\ at[c] <= Len(batch[c])
          /\ queue' = [queue EXCEPT ![batch[c][at[c]]] = "acked"]

Next ==
    \/ \E l \in Letter : Arrive(l) \/ LeaseEnds(l) \/ LeaseLapses(l)
    \/ \E c \in Cli :
        \/ \E s \in Batches, dry \in BOOLEAN : Fetch(c, s, dry)
        \/ DecodeFails(c) \/ PublishNext(c) \/ DryRunReturns(c) \/ AllPublished(c)
        \/ \E l \in inFlight[c] : FutureSucceeds(c, l)
        \/ \E failed \in SUBSET inFlight[c] : FuturesFail(c, failed)
        \/ CallbackExits(c) \/ WaitReturns(c) \/ AckNext(c) \/ Done(c) \/ CliDies(c)

Spec == Init /\ [][Next]_vars

-------------------------------------------------------------------------------
(* A letter leaves the dead-letter queue only when the worker's topic has    *)
(* it, whichever runs overlap, die, or ack late.  The exception is a letter  *)
(* whose publish future failed in a process that got to its acks before the  *)
(* callback ended it (services.py:200-225).                                  *)
NoLetterVanishes ==
    \A l \in Letter : queue[l] = "acked" => accepted[l] > 0 \/ l \in refused

(* A letter is published twice only if some run let go of it without its ack *)
(* or it was delivered while a run worked on it: a run that ends well leaves *)
(* nothing of its batch for the next one (services.py:204-225).              *)
DuplicatesNeedUnfinishedRuns ==
    \A l \in Letter : accepted[l] <= 1 + unfinished[l]
===============================================================================
