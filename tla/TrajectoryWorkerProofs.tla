------------------------- MODULE TrajectoryWorkerProofs -------------------------
(***************************************************************************)
(* What holds of the trajectory worker for any pods of the two deployments, *)
(* any chunks, any limit of deliveries, and any number of crashes and      *)
(* errors.                                                                 *)
(***************************************************************************)
EXTENDS TrajectoryWorker, FiniteSetTheorems, TLAPS

-------------------------------------------------------------------------------
(* Types. *)

(* What is ready can be delivered once more, and what is none never was.     *)
QueueType ==
    /\ queue \in [Message -> {"none", "ready", "out", "acked", "dead"}]
    /\ holder \in [Message -> Pod \cup {None}]
    /\ deliveries \in [Message -> 0 .. MaxDeliveries]
    /\ \A m \in Message :
        /\ queue[m] = "none" => deliveries[m] = 0
        /\ queue[m] = "ready" => deliveries[m] < MaxDeliveries

StageType == pc \in [Pod -> {"idle", "start", "forward", "run", "summary", "upload",
                             "flush", "ack"}]

WorkType ==
    /\ message \in [Pod -> Message \cup {None}]
    /\ attempt \in [Pod -> 0 .. MaxDeliveries]
    /\ \A p \in Pod : IF pc[p] = "idle" THEN message[p] = None
                      ELSE message[p] \in Message /\ p \in Home(message[p])

(* Between publishing and its wait, and only then, futures are pending. *)
FlightType ==
    /\ inFlight \in [Pod -> SUBSET (Row \cup {"forward"})]
    /\ \A p \in Pod : pc[p] \in {"idle", "start", "run", "ack"} => inFlight[p] = {}

DoomType == doomed \in [Pod -> BOOLEAN]

OutputType ==
    /\ rows \in [Chunk -> [Row -> Nat]]
    /\ blobs \subseteq Chunk /\ lost \subseteq Chunk

FaultType == crashes \in 0 .. MaxCrashes /\ errors \in 0 .. MaxErrors

TypeInv ==
    /\ QueueType /\ StageType /\ WorkType /\ FlightType /\ DoomType /\ OutputType
    /\ FaultType

LEMMA TypeInvIsTypeOK == TypeInv => TypeOK
<1> SUFFICES ASSUME TypeInv PROVE TypeOK
  OBVIOUS
<1>1. doomed \in [Pod -> BOOLEAN]
  BY DEF TypeInv, DoomType
<1>2. QED
  BY <1>1 DEF TypeInv, QueueType, StageType, WorkType, FlightType, OutputType, FaultType,
              TypeOK

LEMMA MessageParts ==
    /\ \A m \in Message : ChunkOf(m) \in Chunk /\ m[2] \in Nat
    /\ \A c \in Chunk : <<c, 0>> \in Message
    /\ \A m \in Message : m[2] = 0 => m = <<ChunkOf(m), 0>>
<1>1. MaxDeliveries - ForwardAfter \in Nat
  BY TrajectoryWorkerAssumption DEF ForwardAfter
<1>2. QED
  BY <1>1 DEF Message, ChunkOf

LEMMA TypeInit == Init => TypeInv
<1> SUFFICES ASSUME Init PROVE TypeInv
  OBVIOUS
<1>1. MaxDeliveries \in Nat /\ MaxDeliveries > 0 /\ MaxCrashes \in Nat /\ MaxErrors \in Nat
  BY TrajectoryWorkerAssumption DEF ForwardAfter
<1>2. OutputType /\ FaultType
  BY <1>1 DEF Init, OutputType, FaultType
<1>3. DoomType
  BY DEF Init, DoomType
<1>4. FlightType
  BY DEF Init, FlightType
<1>5. QueueType
  BY <1>1 DEF Init, QueueType
<1>6. StageType /\ WorkType
  BY <1>1 DEF Init, StageType, WorkType
<1>7. QED
  BY <1>2, <1>3, <1>4, <1>5, <1>6 DEF TypeInv

LEMMA JobType ==
    ASSUME TypeInv, NEW p \in Pod, pc[p] # "idle"
    PROVE  message[p] \in Message /\ Job(p) \in Chunk /\ p \in Home(message[p])
  BY MessageParts DEF TypeInv, WorkType, Job

(* A pod that is reset is idle; the others are where they were. *)
LEMMA ResetType ==
    ASSUME TypeInv, NEW p \in Pod, Reset(p)
    PROVE  /\ StageType' /\ WorkType'
           /\ pc'[p] = "idle" /\ message'[p] = None
           /\ \A q \in Pod \ {p} : pc'[q] = pc[q] /\ message'[q] = message[q]
                                   /\ attempt'[q] = attempt[q]
<1>1. MaxDeliveries \in Nat
  BY TrajectoryWorkerAssumption
<1>2. QED
  BY <1>1 DEF TypeInv, StageType, WorkType, Reset, Goto

LEMMA GotoType ==
    ASSUME TypeInv, NEW p \in Pod, NEW stage,
           stage \in {"start", "forward", "run", "summary", "upload", "flush", "ack"},
           Goto(p, stage), pc[p] # "idle", UNCHANGED work
    PROVE  /\ StageType' /\ WorkType' /\ pc'[p] = stage
           /\ \A q \in Pod \ {p} : pc'[q] = pc[q]
  BY DEF TypeInv, StageType, WorkType, Goto, work

(* Accepting rows counts them; accepting the chunk makes a new copy ready. *)
LEMMA AcceptType ==
    ASSUME TypeInv, NEW p \in Pod, pc[p] # "idle", NEW landed, Accept(p, landed),
           UNCHANGED <<holder, deliveries>>
    PROVE  /\ QueueType' /\ rows' \in [Chunk -> [Row -> Nat]]
           /\ \A c \in Chunk, r \in Row : rows[c][r] <= rows'[c][r]
           /\ \A r \in landed \cap Row : rows'[Job(p)][r] > 0
           /\ \/ UNCHANGED queue /\ "forward" \notin landed
              \/ \E m \in Copies(Job(p)) : /\ queue[m] = "none"
                                          /\ queue' = [queue EXCEPT ![m] = "ready"]
<1>1. Job(p) \in Chunk
  BY JobType
<1>2. rows \in [Chunk -> [Row -> Nat]]
  BY DEF TypeInv, OutputType
<1>3. /\ rows' \in [Chunk -> [Row -> Nat]]
      /\ \A c \in Chunk, r \in Row : rows[c][r] <= rows'[c][r]
      /\ \A r \in landed \cap Row : rows'[Job(p)][r] > 0
  <2> DEFINE f == [r \in Row |-> IF r \in landed THEN rows[Job(p)][r] + 1
                                 ELSE rows[Job(p)][r]]
  <2>1. rows' = [rows EXCEPT ![Job(p)] = f]
    BY DEF Accept
  <2>2. rows[Job(p)] \in [Row -> Nat]
    BY <1>1, <1>2
  <2>3. /\ f \in [Row -> Nat]
        /\ \A r \in Row : rows[Job(p)][r] <= f[r]
        /\ \A r \in landed \cap Row : f[r] > 0
    BY <2>2
  <2> HIDE DEF f
  <2>4. QED
    BY <1>1, <1>2, <2>1, <2>3
<1>4. \/ UNCHANGED queue /\ "forward" \notin landed
      \/ \E m \in Copies(Job(p)) : /\ queue[m] = "none"
                                  /\ queue' = [queue EXCEPT ![m] = "ready"]
  BY DEF Accept
<1>5. MaxDeliveries \in Nat /\ MaxDeliveries > 0
  BY TrajectoryWorkerAssumption DEF ForwardAfter
<1>6. QueueType'
  BY <1>4, <1>5 DEF TypeInv, QueueType, Copies
<1>7. QED
  BY <1>3, <1>4, <1>6

LEMMA ExitType ==
    ASSUME TypeInv, NEW p \in Pod, pc[p] # "idle", Exit(p)
    PROVE  /\ QueueType' /\ StageType' /\ WorkType' /\ FlightType' /\ DoomType' /\ OutputType'
<1>1. PICK landed \in SUBSET inFlight[p] : Accept(p, landed)
  BY DEF Exit
<1>2. UNCHANGED <<holder, deliveries, blobs, lost>> /\ Reset(p)
  BY DEF Exit
<1>3. QueueType' /\ OutputType'
  BY <1>1, <1>2, AcceptType DEF TypeInv, OutputType
<1>4. StageType' /\ WorkType'
  BY <1>2, ResetType
<1>5. FlightType'
  BY <1>2, ResetType DEF Exit, TypeInv, FlightType
<1>6. DoomType'
  BY DEF Exit, TypeInv, DoomType
<1>7. QED
  BY <1>3, <1>4, <1>5, <1>6

(* Counting a fault stays within its bound. *)
LEMMA FaultsType ==
    ASSUME TypeInv
    PROVE  Crash \/ Error \/ UNCHANGED faults => FaultType'
<1>1. MaxCrashes \in Nat /\ MaxErrors \in Nat
  BY TrajectoryWorkerAssumption
<1>2. QED
  BY <1>1 DEF TypeInv, FaultType, Crash, Error, faults

LEMMA RedeliverType ==
    ASSUME TypeInv, NEW m \in Message, Redeliver(m), UNCHANGED <<holder, deliveries>>
    PROVE  QueueType'
<1>1. MaxDeliveries \in Nat
  BY TrajectoryWorkerAssumption
<1>2. QED
  BY <1>1 DEF TypeInv, QueueType, Redeliver

(* A step inside a pod that publishes nothing: from one stage to the next. *)
LEMMA StayTypes ==
    ASSUME TypeInv
    PROVE  /\ UNCHANGED subscription => QueueType'
           /\ UNCHANGED pc /\ UNCHANGED work => StageType' /\ WorkType'
           /\ UNCHANGED <<pc, inFlight>> => FlightType'
           /\ UNCHANGED doomed => DoomType'
           /\ UNCHANGED <<output, lost>> => OutputType'
  BY DEF TypeInv, subscription, work, output, QueueType, StageType, WorkType, FlightType,
         DoomType, OutputType

(* To a stage where no future is pending, or with what it has just published. *)
LEMMA FlightStays ==
    ASSUME TypeInv, NEW p \in Pod, NEW stage, NEW F \in SUBSET (Row \cup {"forward"}),
           pc' = [pc EXCEPT ![p] = stage], inFlight' = [inFlight EXCEPT ![p] = F],
           stage \in {"idle", "start", "run", "ack"} => F = {}
    PROVE  FlightType'
  BY DEF TypeInv, StageType, FlightType

(* From one stage to the next. *)
LEMMA MoveTypes ==
    ASSUME TypeInv, NEW p \in Pod, pc[p] # "idle", NEW stage,
           stage \in {"start", "forward", "run", "summary", "upload", "flush", "ack"},
           NEW F \in SUBSET (Row \cup {"forward"}),
           Goto(p, stage), inFlight' = [inFlight EXCEPT ![p] = F],
           stage \in {"start", "run", "ack"} => F = {},
           UNCHANGED <<subscription, work, doomed, faults, lost, rows>>,
           blobs' \subseteq Chunk
    PROVE  TypeInv'
<1>1. StageType' /\ WorkType'
  BY GotoType
<1>2. FlightType'
  BY FlightStays DEF Goto
<1>3. QueueType' /\ DoomType' /\ FaultType'
  BY StayTypes, FaultsType
<1>4. OutputType'
  BY DEF TypeInv, OutputType
<1>5. QED
  BY <1>1, <1>2, <1>3, <1>4 DEF TypeInv

LEMMA SameFlight ==
    ASSUME TypeInv, NEW p \in Pod, UNCHANGED inFlight
    PROVE  /\ inFlight[p] \in SUBSET (Row \cup {"forward"})
           /\ inFlight' = [inFlight EXCEPT ![p] = inFlight[p]]
  BY DEF TypeInv, FlightType

LEMMA PodStepTypes ==
    ASSUME TypeInv, NEW p \in Pod, PodStep(p)
    PROVE  TypeInv'
<1>1. CASE DecodeFails(p) \/ OutOfMemory(p)
  <2>1. Exit(p) /\ pc[p] # "idle" /\ UNCHANGED faults
    BY <1>1 DEF DecodeFails, OutOfMemory
  <2>2. QED
    BY <2>1, ExitType, FaultsType DEF TypeInv
<1>2. CASE Forward(p)
  <2>1. {"forward"} \in SUBSET (Row \cup {"forward"})
    OBVIOUS
  <2>2. QED
    BY <1>2, <2>1, MoveTypes DEF Forward, output, TypeInv, OutputType
<1>3. CASE Skip(p) \/ StartRun(p) \/ RunSkips(p)
  <2>1. /\ pc[p] \in {"start", "run"}
        /\ UNCHANGED <<subscription, work, inFlight, doomed, output, faults, lost>>
        /\ Goto(p, "ack") \/ Goto(p, "run")
    BY <1>3 DEF Skip, StartRun, RunSkips
  <2>2. inFlight[p] = {} /\ inFlight' = [inFlight EXCEPT ![p] = {}]
    BY <2>1 DEF TypeInv, FlightType
  <2>3. {} \in SUBSET (Row \cup {"forward"}) /\ blobs' \subseteq Chunk
    BY <2>1 DEF TypeInv, OutputType, output
  <2>4. QED
    BY <2>1, <2>2, <2>3, MoveTypes DEF output
<1>4. CASE RunSucceeds(p)
  <2>1. {"summary"} \in SUBSET (Row \cup {"forward"})
    BY DEF Row
  <2>2. QED
    BY <1>4, <2>1, MoveTypes DEF RunSucceeds, output, TypeInv, OutputType
<1>5. CASE ForwardDone(p) \/ FlushDone(p)
  <2>1. /\ pc[p] \in {"forward", "flush"} /\ inFlight[p] = {}
        /\ UNCHANGED <<subscription, work, inFlight, doomed, output, faults, lost>>
        /\ Goto(p, "ack")
    BY <1>5 DEF ForwardDone, FlushDone
  <2>2. inFlight' = [inFlight EXCEPT ![p] = {}]
    BY <2>1 DEF TypeInv, FlightType
  <2>3. {} \in SUBSET (Row \cup {"forward"}) /\ blobs' \subseteq Chunk
    BY <2>1 DEF TypeInv, OutputType, output
  <2>4. QED
    BY <2>1, <2>2, <2>3, MoveTypes DEF output
<1>6. CASE SummaryDone(p)
  <2>1. /\ pc[p] = "summary" /\ blobs' \subseteq Chunk
        /\ UNCHANGED <<subscription, work, doomed, rows, faults, lost>>
    BY <1>6 DEF SummaryDone, output, TypeInv, OutputType
  <2>2. CASE Goto(p, "upload") /\ inFlight' = [inFlight EXCEPT ![p] = Segment]
    <3>1. Segment \in SUBSET (Row \cup {"forward"})
      BY DEF Row
    <3>2. QED
      BY <2>1, <2>2, <3>1, MoveTypes
  <2>3. CASE Goto(p, "flush") /\ UNCHANGED inFlight
    BY <2>1, <2>3, SameFlight, MoveTypes
  <2>4. QED
    BY <1>6, <2>2, <2>3 DEF SummaryDone
<1>7. CASE Upload(p)
  <2>1. /\ pc[p] = "upload" /\ Goto(p, "flush")
        /\ UNCHANGED <<subscription, work, inFlight, doomed, rows, faults, lost>>
    BY <1>7 DEF Upload
  <2>2. blobs' \subseteq Chunk
    BY <1>7, JobType DEF Upload, TypeInv, OutputType
  <2>3. QED
    BY <2>1, <2>2, SameFlight, MoveTypes
<1>8. CASE RunRaises(p)
  <2>1. /\ pc[p] = "run" /\ Reset(p)
        /\ UNCHANGED <<subscription, inFlight, doomed, output, lost, faults>>
    BY <1>8 DEF RunRaises, Nack
  <2>2. FlightType'
    BY <2>1, ResetType DEF TypeInv, FlightType
  <2>3. QED
    BY <2>1, <2>2, ResetType, StayTypes, FaultsType DEF TypeInv
<1>9. CASE Ack(p)
  <2>1. /\ pc[p] = "ack" /\ Reset(p)
        /\ UNCHANGED <<holder, deliveries, inFlight, doomed, output, faults, lost>>
    BY <1>9 DEF Ack
  <2>2. message[p] \in Message
    BY <2>1, JobType
  <2>3. queue' = queue \/ queue' = [queue EXCEPT ![message[p]] = "acked"]
    BY <1>9 DEF Ack
  <2>4. QueueType'
    BY <2>1, <2>2, <2>3 DEF TypeInv, QueueType
  <2>5. FlightType'
    BY <2>1, ResetType DEF TypeInv, FlightType
  <2>6. QED
    BY <2>1, <2>4, <2>5, ResetType, StayTypes, FaultsType DEF TypeInv
<1>10. QED
  BY <1>1, <1>2, <1>3, <1>4, <1>5, <1>6, <1>7, <1>8, <1>9 DEF PodStep

(* The steps of a publish future. *)
LEMMA FutureTypes ==
    ASSUME TypeInv, NEW p \in Pod, NEW r \in inFlight[p],
           FutureSucceeds(p, r) \/ FutureFails(p, r)
    PROVE  TypeInv'
<1>1. pc[p] # "idle"
  BY DEF TypeInv, FlightType
<1>2. PICK landed \in SUBSET {r} : Accept(p, landed)
  BY DEF FutureSucceeds, FutureFails
<1>3. /\ UNCHANGED <<holder, deliveries, pc, work, blobs>>
      /\ inFlight' = [inFlight EXCEPT ![p] = @ \ {r}]
      /\ lost' = lost \/ lost' = lost \cup {Job(p)}
      /\ doomed' = doomed \/ doomed' = [doomed EXCEPT ![p] = TRUE]
      /\ UNCHANGED faults \/ Error
  BY DEF FutureSucceeds, FutureFails
<1>4. QueueType' /\ OutputType'
  BY <1>1, <1>2, <1>3, AcceptType, JobType DEF TypeInv, OutputType
<1>5. FlightType'
  BY <1>3 DEF TypeInv, FlightType
<1>6. DoomType'
  BY <1>3 DEF TypeInv, DoomType
<1>7. QED
  BY <1>3, <1>4, <1>5, <1>6, StayTypes, FaultsType DEF TypeInv

LEMMA ReceiveTypes ==
    ASSUME TypeInv, NEW p \in Pod, NEW m \in Message, Receive(p, m)
    PROVE  TypeInv'
<1>1. deliveries[m] + 1 \in 0 .. MaxDeliveries
  BY TrajectoryWorkerAssumption DEF Receive, TypeInv, QueueType
<1>2. QueueType'
  BY <1>1 DEF Receive, TypeInv, QueueType
<1>3. StageType'
  BY DEF Receive, TypeInv, StageType, Goto
<1>4. WorkType'
  <2>1. message' \in [Pod -> Message \cup {None}] /\ attempt' \in [Pod -> 0 .. MaxDeliveries]
    BY <1>1 DEF Receive, TypeInv, WorkType
  <2>2. ASSUME NEW q \in Pod
        PROVE  IF pc'[q] = "idle" THEN message'[q] = None
               ELSE message'[q] \in Message /\ q \in Home(message'[q])
    BY <2>2 DEF Receive, TypeInv, WorkType, StageType, Goto
  <2>3. QED
    BY <2>1, <2>2 DEF WorkType, Home
<1>5. FlightType'
  BY DEF Receive, TypeInv, FlightType, StageType, Goto
<1>6. QED
  BY <1>2, <1>3, <1>4, <1>5, StayTypes, FaultsType DEF Receive, TypeInv

LEMMA TypeStep == TypeInv /\ [Next]_vars => TypeInv'
<1> SUFFICES ASSUME TypeInv, [Next]_vars PROVE TypeInv'
  OBVIOUS
<1>1. CASE \E c \in Chunk : Submit(c)
  <2>1. PICK c \in Chunk : Submit(c)
    BY <1>1
  <2>2. QueueType'
    BY <2>1, MessageParts, TrajectoryWorkerAssumption
       DEF Submit, TypeInv, QueueType, ForwardAfter
  <2>3. UNCHANGED <<pc, work, inFlight, doomed, output, faults, lost>>
    BY <2>1 DEF Submit
  <2>4. QED
    BY <2>2, <2>3, StayTypes, FaultsType DEF TypeInv
<1>2. CASE \E m \in Message : LeaseEnds(m) \/ LeaseLapses(m)
  <2>1. PICK m \in Message : LeaseEnds(m) \/ LeaseLapses(m)
    BY <1>2
  <2>2. /\ Redeliver(m)
        /\ UNCHANGED faults \/ Error
        /\ UNCHANGED <<holder, deliveries, pc, work, inFlight, doomed, output, lost>>
    BY <2>1 DEF LeaseEnds, LeaseLapses
  <2>3. QED
    BY <2>2, RedeliverType, StayTypes, FaultsType DEF TypeInv
<1>3. CASE \E p \in Pod, m \in Message : Receive(p, m)
  BY <1>3, ReceiveTypes
<1>4. CASE \E p \in Pod : PodStep(p)
  BY <1>4, PodStepTypes
<1>5. CASE \E p \in Pod : FutureStep(p) \/ \E r \in inFlight[p] : FutureFails(p, r)
  BY <1>5, FutureTypes DEF FutureStep
<1>6. ASSUME NEW p \in Pod, CallbackStep(p) \/ PodDies(p)
      PROVE  TypeInv'
  <2>1. CASE CallbackExits(p) \/ PodDies(p)
    <3>1. pc[p] # "idle" /\ Exit(p) /\ (UNCHANGED faults \/ Crash)
      BY <2>1 DEF CallbackExits, PodDies
    <3>2. QED
      BY <3>1, ExitType, FaultsType DEF TypeInv
  <2>2. CASE CallbackExitsIdle(p)
    <3>1. /\ doomed' = [doomed EXCEPT ![p] = FALSE]
          /\ UNCHANGED <<subscription, pc, work, inFlight, output, faults, lost>>
      BY <2>2 DEF CallbackExitsIdle
    <3>2. DoomType'
      BY <3>1 DEF TypeInv, DoomType
    <3>3. QED
      BY <3>1, <3>2, StayTypes, FaultsType DEF TypeInv
  <2>3. QED
    BY <1>6, <2>1, <2>2 DEF CallbackStep
<1>7. ASSUME NEW p \in Pod, RunFails(p) \/ AckFails(p)
      PROVE  TypeInv'
  <2>1. /\ pc[p] \in {"run", "ack"} /\ Reset(p) /\ Error
        /\ UNCHANGED <<subscription, inFlight, doomed, output, lost>>
    BY <1>7 DEF RunFails, AckFails, Nack
  <2>2. FlightType'
    BY <2>1, ResetType DEF TypeInv, FlightType
  <2>3. QED
    BY <2>1, <2>2, ResetType, StayTypes, FaultsType DEF TypeInv
<1>8. CASE UNCHANGED vars
  <2>1. UNCHANGED <<subscription, pc, work, inFlight, doomed, output, faults, lost>>
    BY <1>8 DEF vars, subscription, work, output, faults
  <2>2. QED
    BY <2>1, StayTypes, FaultsType DEF TypeInv
<1>9. QED
  BY <1>1, <1>2, <1>3, <1>4, <1>5, <1>6, <1>7, <1>8 DEF Next

(* The worker's variables keep their types: no message is delivered more    *)
(* often than its subscription's limit, and no pod publishes outside of a    *)
(* message.                                                                 *)
THEOREM TypeCorrect == Spec => []TypeOK
  BY TypeInit, TypeStep, TypeInvIsTypeOK, PTL DEF Spec

-------------------------------------------------------------------------------
(* The inductive invariant. *)

Live == {"ready", "out", "dead"}
Settled(c) == Done(c) \/ c \in lost
BackupKept(c) == \E m \in Copies(c) : m[2] # 0 /\ queue[m] \in Live
Safe(c) == Settled(c) \/ BackupKept(c)

(* A row of the chunk is out, or its future failed. *)
Out(c, r) == rows[c][r] > 0 \/ c \in lost

(* A backup copy exists only of a chunk that was submitted, and a pod works  *)
(* on messages that exist.                                                  *)
CopyInv ==
    /\ \A m \in Message : queue[m] # "none" => Submitted(ChunkOf(m))
    /\ \A p \in Pod : pc[p] # "idle" => queue[message[p]] # "none"

(* What each stage of a pod has behind it. *)
StageInv(p) ==
    /\ pc[p] = "forward" =>
         /\ p \in Primary /\ inFlight[p] \subseteq {"forward"}
         /\ "forward" \in inFlight[p] \/ Safe(Job(p))
    /\ pc[p] = "summary" =>
         /\ inFlight[p] \subseteq {"summary"}
         /\ "summary" \in inFlight[p] \/ Out(Job(p), "summary")
    /\ pc[p] \in {"upload", "flush"} =>
         /\ inFlight[p] \subseteq Segment
         /\ Out(Job(p), "summary")
         /\ Kind[Job(p)] = "export" =>
              \A s \in Segment : s \in inFlight[p] \/ Out(Job(p), s)
    /\ pc[p] = "flush" /\ Kind[Job(p)] = "export" => Job(p) \in blobs
    /\ pc[p] = "ack" => IF p \in Primary THEN Safe(Job(p)) ELSE Settled(Job(p))

(* The only message of the primary subscription goes when a copy is kept by  *)
(* the backup subscription, or the chunk is settled.                        *)
ChunkInv == \A c \in Chunk : Submitted(c) => queue[<<c, 0>>] \in Live \/ Safe(c)

Inv == TypeInv /\ CopyInv /\ (\A p \in Pod : StageInv(p)) /\ ChunkInv

LEMMA InvInit == Init => Inv
<1> SUFFICES ASSUME Init PROVE Inv
  OBVIOUS
<1>1. TypeInv
  BY TypeInit
<1>2. \A m \in Message : queue[m] = "none"
  BY DEF Init
<1>3. \A p \in Pod : pc[p] = "idle"
  BY DEF Init
<1>4. CopyInv /\ ChunkInv
  BY <1>2, <1>3, MessageParts DEF CopyInv, ChunkInv, Submitted
<1>5. \A p \in Pod : StageInv(p)
  BY <1>3 DEF StageInv
<1>6. QED
  BY <1>1, <1>4, <1>5 DEF Inv

(* What every step does to the output: it only grows. *)
Grows ==
    /\ \A c \in Chunk, r \in Row : rows[c][r] <= rows'[c][r]
    /\ blobs \subseteq blobs' /\ lost \subseteq lost'

(* And to a message: it leaves the subscriptions only when its chunk is safe. *)
QueueMoves ==
    \A m \in Message :
        /\ queue[m] # "none" => queue'[m] # "none"
        /\ queue[m] = "none" /\ queue'[m] # "none" =>
              queue'[m] = "ready" /\ queue'[<<ChunkOf(m), 0>>] # "none"
        /\ queue[m] \in Live =>
              \/ queue'[m] \in Live
              \/ IF m[2] = 0 THEN Safe(ChunkOf(m)) ELSE Settled(ChunkOf(m))

Same(q) == pc'[q] = pc[q] /\ message'[q] = message[q] /\ inFlight'[q] = inFlight[q]

LEMMA OutStays ==
    ASSUME TypeInv, TypeInv', Grows, NEW c \in Chunk
    PROVE  /\ \A r \in Row : Out(c, r) => Out(c, r)'
           /\ Settled(c) => Settled(c)'
<1>1. \A r \in Row : rows[c][r] \in Nat /\ rows'[c][r] \in Nat /\ rows[c][r] <= rows'[c][r]
  BY DEF TypeInv, OutputType, Grows
<1>2. \A r \in Row : rows[c][r] > 0 => rows'[c][r] > 0
  BY <1>1
<1>3. blobs \subseteq blobs' /\ lost \subseteq lost'
  BY DEF Grows
<1>4. "summary" \in Row /\ Segment \subseteq Row
  BY DEF Row
<1>5. QED
  BY <1>2, <1>3, <1>4 DEF Out, Settled, Done

LEMMA SafeStays ==
    ASSUME TypeInv, TypeInv', Grows, QueueMoves, NEW c \in Chunk, Safe(c)
    PROVE  Safe(c)'
<1>1. CASE Settled(c)
  BY <1>1, OutStays DEF Safe
<1>2. CASE BackupKept(c)
  <2>1. PICK m \in Copies(c) : m[2] # 0 /\ queue[m] \in Live
    BY <1>2 DEF BackupKept
  <2>2. m \in Message /\ ChunkOf(m) = c
    BY DEF Copies
  <2>3. queue'[m] \in Live \/ Settled(c)
    BY <2>1, <2>2 DEF QueueMoves
  <2>4. queue'[m] \in Live => BackupKept(c)'
    BY <2>1 DEF BackupKept, Copies
  <2>5. QED
    BY <2>3, <2>4, OutStays DEF Safe
<1>3. QED
  BY <1>1, <1>2 DEF Safe

LEMMA StageStays ==
    ASSUME Inv, TypeInv', Grows, QueueMoves, NEW q \in Pod, Same(q)
    PROVE  StageInv(q)'
<1>1. CASE pc[q] = "idle"
  BY <1>1 DEF Same, StageInv
<1>2. CASE pc[q] # "idle"
  <2>1. Job(q) \in Chunk /\ Job(q)' = Job(q)
    BY <1>2, JobType DEF Inv, Same, Job
  <2>2. /\ Safe(Job(q)) => Safe(Job(q))'
        /\ Settled(Job(q)) => Settled(Job(q))'
        /\ \A r \in Row : Out(Job(q), r) => Out(Job(q), r)'
        /\ blobs \subseteq blobs'
    <3>1. \A c \in Chunk : /\ Safe(c) => Safe(c)'
                           /\ Settled(c) => Settled(c)'
                           /\ \A r \in Row : Out(c, r) => Out(c, r)'
      BY SafeStays, OutStays DEF Inv
    <3>2. QED
      BY <2>1, <3>1 DEF Grows, Safe, BackupKept, Copies, Settled, Done, Out
  <2>3. "summary" \in Row /\ Segment \subseteq Row
    BY DEF Row
  <2>4. StageInv(q)
    BY DEF Inv
  <2>5. QED
    BY <2>1, <2>2, <2>3, <2>4 DEF Same, StageInv
<1>3. QED
  BY <1>1, <1>2

(* A step that moves only the pods of S keeps the invariant if they have     *)
(* behind them what their new stages claim.                                 *)
LEMMA StepKeepsInv ==
    ASSUME Inv, TypeInv', Grows, QueueMoves, NEW S \in SUBSET Pod,
           \A q \in Pod \ S : Same(q),
           \A p \in S : StageInv(p)' /\ (pc'[p] # "idle" => queue'[message'[p]] # "none")
    PROVE  Inv'
<1>1. \A p \in Pod : StageInv(p)'
  BY StageStays
<1>2. CopyInv'
  <2>1. ASSUME NEW m \in Message, queue'[m] # "none"
        PROVE  Submitted(ChunkOf(m))'
    BY <2>1, MessageParts DEF Inv, CopyInv, QueueMoves, Submitted
  <2>2. ASSUME NEW p \in Pod, pc'[p] # "idle"
        PROVE  queue'[message'[p]] # "none"
    <3>1. CASE p \in S
      BY <2>2, <3>1
    <3>2. CASE p \notin S
      <4>1. pc[p] # "idle" /\ message'[p] = message[p]
        BY <2>2, <3>2 DEF Same
      <4>2. message[p] \in Message /\ queue[message[p]] # "none"
        BY <4>1, JobType DEF Inv, CopyInv
      <4>3. QED
        BY <4>1, <4>2 DEF QueueMoves
    <3>3. QED
      BY <3>1, <3>2
  <2>3. QED
    BY <2>1, <2>2 DEF CopyInv
<1>3. ChunkInv'
  <2>1. SUFFICES ASSUME NEW c \in Chunk, Submitted(c)'
                 PROVE  queue'[<<c, 0>>] \in Live \/ Safe(c)'
    BY DEF ChunkInv
  <2>2. <<c, 0>> \in Message /\ ChunkOf(<<c, 0>>) = c /\ <<c, 0>>[2] = 0
    BY MessageParts DEF ChunkOf
  <2>3. CASE queue[<<c, 0>>] = "none"
    BY <2>1, <2>2, <2>3 DEF QueueMoves, Submitted, Live
  <2>4. CASE queue[<<c, 0>>] # "none"
    <3>1. queue[<<c, 0>>] \in Live \/ Safe(c)
      BY <2>4 DEF Inv, ChunkInv, Submitted
    <3>2. queue'[<<c, 0>>] \in Live \/ Safe(c)
      BY <2>2, <3>1 DEF QueueMoves
    <3>3. QED
      BY <3>2, SafeStays DEF Inv
  <2>5. QED
    BY <2>3, <2>4
<1>4. QED
  BY <1>1, <1>2, <1>3 DEF Inv

LEMMA QueueStays ==
    ASSUME UNCHANGED queue
    PROVE  QueueMoves
  BY DEF QueueMoves

LEMMA OutputStays ==
    ASSUME TypeInv, UNCHANGED rows, blobs \subseteq blobs', lost \subseteq lost'
    PROVE  Grows
  BY DEF TypeInv, OutputType, Grows

(* What the topics accept is out; a chunk they accept has a copy kept. *)
LEMMA AcceptMoves ==
    ASSUME Inv, NEW p \in Pod, pc[p] # "idle", NEW c, c = Job(p), NEW landed, Accept(p, landed),
           UNCHANGED <<holder, deliveries, blobs>>, lost \subseteq lost'
    PROVE  /\ Grows /\ QueueMoves
           /\ \A r \in landed \cap Row : rows'[Job(p)][r] > 0
           /\ "forward" \in landed => BackupKept(c)'
<1>1. Job(p) \in Chunk /\ message[p] \in Message
  BY JobType DEF Inv
<1>2. Submitted(Job(p))
  BY <1>1 DEF Inv, CopyInv, Job
<1>3. /\ \A d \in Chunk, r \in Row : rows[d][r] <= rows'[d][r]
      /\ \A r \in landed \cap Row : rows'[Job(p)][r] > 0
      /\ \/ UNCHANGED queue /\ "forward" \notin landed
         \/ \E m \in Copies(Job(p)) : /\ queue[m] = "none"
                                     /\ queue' = [queue EXCEPT ![m] = "ready"]
  BY AcceptType DEF Inv
<1>4. Grows
  BY <1>3 DEF Grows
<1>5. CASE UNCHANGED queue /\ "forward" \notin landed
  BY <1>3, <1>4, <1>5, QueueStays
<1>6. ASSUME NEW m \in Copies(Job(p)), queue[m] = "none",
             queue' = [queue EXCEPT ![m] = "ready"]
      PROVE  QueueMoves /\ BackupKept(c)'
  <2>1. m \in Message /\ ChunkOf(m) = Job(p)
    BY DEF Copies
  <2>2. m[2] # 0
    BY <1>2, <1>6, <2>1, MessageParts DEF Submitted
  <2>3. queue \in [Message -> {"none", "ready", "out", "acked", "dead"}]
    BY DEF Inv, TypeInv, QueueType
  <2>4. queue'[m] = "ready" /\ \A n \in Message \ {m} : queue'[n] = queue[n]
    BY <1>6, <2>1, <2>3
  <2>5. <<Job(p), 0>> \in Message /\ m # <<Job(p), 0>>
    BY <1>1, <1>2, <1>6, MessageParts DEF Submitted
  <2>6. QueueMoves
    BY <1>2, <1>6, <2>1, <2>4, <2>5 DEF QueueMoves, Submitted, Live
  <2>7. BackupKept(c)'
    BY <2>1, <2>2, <2>4 DEF BackupKept, Copies, Live
  <2>8. QED
    BY <2>6, <2>7
<1>7. QED
  BY <1>3, <1>4, <1>5, <1>6

(* For the step of one pod. *)
LEMMA OneKeepsInv ==
    ASSUME Inv, TypeInv', Grows, QueueMoves, NEW p \in Pod,
           \A q \in Pod \ {p} : Same(q),
           StageInv(p)', pc'[p] # "idle" => queue'[message'[p]] # "none"
    PROVE  Inv'
<1> DEFINE S == {p}
<1>1. S \in SUBSET Pod /\ \A q \in Pod \ S : Same(q)
  OBVIOUS
<1>2. \A q \in S : StageInv(q)' /\ (pc'[q] # "idle" => queue'[message'[q]] # "none")
  OBVIOUS
<1> HIDE DEF S
<1>3. QED
  BY <1>1, <1>2, StepKeepsInv

LEMMA ExitKeepsInv ==
    ASSUME Inv, TypeInv', NEW p \in Pod, pc[p] # "idle", Exit(p)
    PROVE  Inv'
<1>1. PICK landed \in SUBSET inFlight[p] : Accept(p, landed)
  BY DEF Exit
<1>2. /\ UNCHANGED <<holder, deliveries, blobs, lost>> /\ Reset(p)
      /\ inFlight' = [inFlight EXCEPT ![p] = {}]
  BY DEF Exit
<1>3. Grows /\ QueueMoves
  BY <1>1, <1>2, AcceptMoves
<1>4. pc'[p] = "idle" /\ \A q \in Pod \ {p} : Same(q)
  BY <1>2, ResetType DEF Inv, TypeInv, FlightType, Same
<1>5. StageInv(p)'
  BY <1>4 DEF StageInv
<1>6. QED
  BY <1>3, <1>4, <1>5, OneKeepsInv

(* From one stage to the next: the chunk stays the same. *)
LEMMA MoveFacts ==
    ASSUME TypeInv, NEW p \in Pod, NEW stage, Goto(p, stage), NEW F,
           inFlight' = [inFlight EXCEPT ![p] = F], UNCHANGED work
    PROVE  /\ pc'[p] = stage /\ message'[p] = message[p] /\ inFlight'[p] = F
           /\ Job(p)' = Job(p)
           /\ \A q \in Pod \ {p} : Same(q)
  BY DEF TypeInv, StageType, FlightType, Goto, work, Same, Job

(* Between stages nothing leaves a subscription and no output is lost. *)
LEMMA MoveKeepsInv ==
    ASSUME Inv, TypeInv', NEW p \in Pod, pc[p] # "idle", NEW stage, Goto(p, stage),
           NEW F, inFlight' = [inFlight EXCEPT ![p] = F],
           UNCHANGED <<subscription, work, rows, lost>>, blobs \subseteq blobs',
           StageInv(p)'
    PROVE  Inv'
<1>1. Grows /\ QueueMoves
  BY OutputStays, QueueStays DEF Inv, subscription
<1>2. message'[p] = message[p] /\ \A q \in Pod \ {p} : Same(q)
  BY MoveFacts DEF Inv
<1>3. queue'[message'[p]] # "none"
  BY <1>2 DEF Inv, CopyInv, subscription
<1>4. QED
  BY <1>1, <1>2, <1>3, OneKeepsInv

(* A reset that leaves the queue alone. *)
LEMMA ResetKeepsInv ==
    ASSUME Inv, TypeInv', NEW p \in Pod, pc[p] # "idle", Reset(p), QueueMoves,
           UNCHANGED <<inFlight, output, lost>>
    PROVE  Inv'
<1>1. Grows
  BY OutputStays DEF Inv, output
<1>2. pc'[p] = "idle" /\ \A q \in Pod \ {p} : Same(q)
  BY ResetType DEF Inv, Same
<1>3. StageInv(p)'
  BY <1>2 DEF StageInv
<1>4. QED
  BY <1>1, <1>2, <1>3, OneKeepsInv

(* A pod of one deployment holds messages of its own subscription only. *)
LEMMA HomeOfPod ==
    ASSUME TypeInv, NEW p \in Pod, pc[p] # "idle"
    PROVE  p \in Primary <=> message[p][2] = 0
  BY JobType, TrajectoryWorkerAssumption DEF Home, Pod

LEMMA PodStepKeepsInv ==
    ASSUME Inv, TypeInv', NEW p \in Pod, PodStep(p)
    PROVE  Inv'
<1>0. TypeInv /\ StageInv(p)
  BY DEF Inv
<1>1. CASE DecodeFails(p) \/ OutOfMemory(p)
  BY <1>1, ExitKeepsInv DEF DecodeFails, OutOfMemory
<1>2. CASE Forward(p)
  <2>1. /\ pc[p] = "start" /\ Goto(p, "forward") /\ p \in Primary
        /\ inFlight' = [inFlight EXCEPT ![p] = {"forward"}]
        /\ UNCHANGED <<subscription, work, rows, blobs, lost>>
    BY <1>2 DEF Forward, MustForward, output
  <2>2. StageInv(p)'
    <3>1. pc'[p] = "forward" /\ inFlight'[p] = {"forward"}
      BY <1>0, <2>1, MoveFacts
    <3>2. QED
      BY <2>1, <3>1 DEF StageInv
  <2>3. QED
    BY <2>1, <2>2, MoveKeepsInv
<1>3. CASE Skip(p) \/ RunSkips(p)
  <2>1. /\ pc[p] \in {"start", "run"} /\ Kind[Job(p)] \in {"skipped", "unsupported"}
        /\ UNCHANGED <<subscription, work, inFlight, rows, blobs, lost>>
        /\ Goto(p, "ack")
    BY <1>3 DEF Skip, RunSkips, output
  <2>2. inFlight' = [inFlight EXCEPT ![p] = inFlight[p]]
    BY <1>0, <2>1, SameFlight
  <2>3. pc'[p] = "ack" /\ Job(p)' = Job(p)
    BY <1>0, <2>1, <2>2, MoveFacts
  <2>4. Settled(Job(p))'
    BY <2>1, <2>3 DEF Settled, Done
  <2>5. StageInv(p)'
    BY <2>3, <2>4 DEF StageInv, Safe
  <2>6. QED
    BY <2>1, <2>2, <2>5, MoveKeepsInv
<1>4. CASE StartRun(p)
  <2>1. /\ pc[p] = "start" /\ Goto(p, "run")
        /\ UNCHANGED <<subscription, work, inFlight, rows, blobs, lost>>
    BY <1>4 DEF StartRun, output
  <2>2. inFlight' = [inFlight EXCEPT ![p] = inFlight[p]]
    BY <1>0, <2>1, SameFlight
  <2>3. StageInv(p)'
    <3>1. pc'[p] = "run"
      BY <1>0, <2>1, <2>2, MoveFacts
    <3>2. QED
      BY <3>1 DEF StageInv
  <2>4. QED
    BY <2>1, <2>2, <2>3, MoveKeepsInv
<1>5. CASE RunSucceeds(p)
  <2>1. /\ pc[p] = "run" /\ Goto(p, "summary")
        /\ inFlight' = [inFlight EXCEPT ![p] = {"summary"}]
        /\ UNCHANGED <<subscription, work, rows, blobs, lost>>
    BY <1>5 DEF RunSucceeds, output
  <2>2. StageInv(p)'
    <3>1. pc'[p] = "summary" /\ inFlight'[p] = {"summary"}
      BY <1>0, <2>1, MoveFacts
    <3>2. QED
      BY <3>1 DEF StageInv
  <2>3. QED
    BY <2>1, <2>2, MoveKeepsInv
<1>6. CASE ForwardDone(p)
  <2>1. /\ pc[p] = "forward" /\ inFlight[p] = {} /\ Goto(p, "ack")
        /\ UNCHANGED <<subscription, work, inFlight, rows, blobs, lost>>
    BY <1>6 DEF ForwardDone, output
  <2>2. p \in Primary /\ Safe(Job(p))
    BY <1>0, <2>1 DEF StageInv
  <2>3. inFlight' = [inFlight EXCEPT ![p] = inFlight[p]]
    BY <1>0, <2>1, SameFlight
  <2>4. pc'[p] = "ack" /\ Job(p)' = Job(p)
    BY <1>0, <2>1, <2>3, MoveFacts
  <2>5. Safe(Job(p))'
    BY <2>1, <2>2, <2>4 DEF Safe, Settled, Done, BackupKept, subscription, Copies
  <2>6. StageInv(p)'
    BY <2>2, <2>4, <2>5 DEF StageInv
  <2>7. QED
    BY <2>1, <2>3, <2>6, MoveKeepsInv
<1>7. CASE SummaryDone(p)
  <2>1. /\ pc[p] = "summary" /\ inFlight[p] = {}
        /\ UNCHANGED <<subscription, work, rows, blobs, lost>>
    BY <1>7 DEF SummaryDone, output
  <2>2. Out(Job(p), "summary")
    BY <1>0, <2>1 DEF StageInv
  <2>3. CASE Goto(p, "upload") /\ inFlight' = [inFlight EXCEPT ![p] = Segment]
    <3>1. pc'[p] = "upload" /\ Job(p)' = Job(p) /\ inFlight'[p] = Segment
      BY <1>0, <2>1, <2>3, MoveFacts
    <3>2. StageInv(p)'
      BY <2>1, <2>2, <3>1 DEF StageInv, Out
    <3>3. QED
      BY <2>1, <2>3, <3>2, MoveKeepsInv
  <2>4. CASE Goto(p, "flush") /\ UNCHANGED inFlight /\ Kind[Job(p)] # "export"
    <3>1. inFlight' = [inFlight EXCEPT ![p] = {}]
      BY <1>0, <2>1, <2>4, SameFlight
    <3>2. pc'[p] = "flush" /\ Job(p)' = Job(p) /\ inFlight'[p] = {}
      BY <1>0, <2>1, <2>4, <3>1, MoveFacts
    <3>3. StageInv(p)'
      BY <2>1, <2>2, <2>4, <3>2 DEF StageInv, Out
    <3>4. QED
      BY <2>1, <2>4, <3>1, <3>3, MoveKeepsInv
  <2>5. QED
    BY <1>7, <2>3, <2>4 DEF SummaryDone
<1>8. CASE Upload(p)
  <2>1. /\ pc[p] = "upload" /\ Goto(p, "flush") /\ blobs' = blobs \cup {Job(p)}
        /\ UNCHANGED <<subscription, work, inFlight, rows, lost>>
    BY <1>8 DEF Upload
  <2>2. inFlight' = [inFlight EXCEPT ![p] = inFlight[p]]
    BY <1>0, <2>1, SameFlight
  <2>3. pc'[p] = "flush" /\ Job(p)' = Job(p) /\ inFlight'[p] = inFlight[p]
    BY <1>0, <2>1, <2>2, MoveFacts
  <2>4. StageInv(p)'
    BY <1>0, <2>1, <2>3 DEF StageInv, Out
  <2>5. QED
    BY <2>1, <2>2, <2>4, MoveKeepsInv
<1>9. CASE FlushDone(p)
  <2>1. /\ pc[p] = "flush" /\ inFlight[p] = {} /\ Goto(p, "ack")
        /\ UNCHANGED <<subscription, work, inFlight, rows, blobs, lost>>
    BY <1>9 DEF FlushDone, output
  <2>2. Settled(Job(p))
    BY <1>0, <2>1 DEF StageInv, Settled, Done, Out
  <2>3. inFlight' = [inFlight EXCEPT ![p] = inFlight[p]]
    BY <1>0, <2>1, SameFlight
  <2>4. pc'[p] = "ack" /\ Job(p)' = Job(p)
    BY <1>0, <2>1, <2>3, MoveFacts
  <2>5. Settled(Job(p))'
    BY <2>1, <2>2, <2>4 DEF Settled, Done
  <2>6. StageInv(p)'
    BY <2>4, <2>5 DEF StageInv, Safe
  <2>7. QED
    BY <2>1, <2>3, <2>6, MoveKeepsInv
<1>10. CASE RunRaises(p)
  <2>1. pc[p] # "idle" /\ Reset(p) /\ UNCHANGED <<queue, inFlight, output, lost>>
    BY <1>10 DEF RunRaises, Nack, subscription
  <2>2. QED
    BY <2>1, QueueStays, ResetKeepsInv
<1>11. CASE Ack(p)
  <2>1. /\ pc[p] = "ack" /\ Reset(p) /\ UNCHANGED <<inFlight, output, lost>>
    BY <1>11 DEF Ack
  <2>2. message[p] \in Message /\ Job(p) = ChunkOf(message[p])
    BY <1>0, <2>1, JobType DEF Job
  <2>3. IF message[p][2] = 0 THEN Safe(Job(p)) ELSE Settled(Job(p))
    BY <1>0, <2>1, HomeOfPod DEF StageInv, Safe
  <2>4. queue' = queue \/ (queue[message[p]] = "out"
                           /\ queue' = [queue EXCEPT ![message[p]] = "acked"])
    BY <1>11 DEF Ack
  <2>5. QueueMoves
    <3>1. CASE queue' = queue
      BY <3>1, QueueStays
    <3>2. CASE queue[message[p]] = "out" /\ queue' = [queue EXCEPT ![message[p]] = "acked"]
      <4>1. queue'[message[p]] = "acked" /\ \A n \in Message \ {message[p]} : queue'[n] = queue[n]
        BY <2>2, <3>2 DEF Inv, TypeInv, QueueType
      <4>2. QED
        BY <2>2, <2>3, <3>2, <4>1 DEF QueueMoves, Live
    <3>3. QED
      BY <2>4, <3>1, <3>2
  <2>6. QED
    BY <2>1, <2>5, ResetKeepsInv
<1>12. QED
  BY <1>1, <1>2, <1>3, <1>4, <1>5, <1>6, <1>7, <1>8, <1>9, <1>10, <1>11 DEF PodStep

(* A future that ends takes its row out, or is known to have failed. *)
LEMMA FutureKeepsInv ==
    ASSUME Inv, TypeInv', NEW p \in Pod, NEW r \in inFlight[p],
           FutureSucceeds(p, r) \/ FutureFails(p, r)
    PROVE  Inv'
<1> DEFINE c == Job(p)
<1>1. pc[p] # "idle"
  BY DEF Inv, TypeInv, FlightType
<1>2. /\ UNCHANGED <<holder, deliveries, pc, message, blobs>> /\ lost \subseteq lost'
      /\ inFlight' = [inFlight EXCEPT ![p] = @ \ {r}]
  BY DEF FutureSucceeds, FutureFails, work
<1>3. PICK landed \in SUBSET {r} : Accept(p, landed) /\ (landed = {r} \/ c \in lost')
  BY DEF FutureSucceeds, FutureFails
<1>4. c \in Chunk /\ c' = c /\ message[p] \in Message
  BY <1>1, <1>2, JobType DEF Inv, Job
<1>5. /\ Grows /\ QueueMoves
      /\ \A x \in landed \cap Row : rows'[c][x] > 0
      /\ "forward" \in landed => BackupKept(c)'
  <2>1. /\ Grows /\ QueueMoves
        /\ \A x \in landed \cap Row : rows'[Job(p)][x] > 0
        /\ \A d : d = Job(p) /\ "forward" \in landed => BackupKept(d)'
    BY <1>1, <1>2, <1>3, AcceptMoves
  <2>2. QED
    BY <1>4, <2>1 DEF BackupKept, Copies
<1>6. /\ pc'[p] = pc[p] /\ message'[p] = message[p]
      /\ inFlight'[p] = inFlight[p] \ {r}
      /\ \A q \in Pod \ {p} : Same(q)
  BY <1>2 DEF Inv, TypeInv, FlightType, Same
<1>7. StageInv(p)'
  <2>1. /\ Safe(c) => Safe(c)'
        /\ Settled(c) => Settled(c)'
        /\ \A x \in Row : Out(c, x) => Out(c, x)'
        /\ blobs \subseteq blobs'
    <3>1. \A d \in Chunk : /\ Safe(d) => Safe(d)'
                           /\ Settled(d) => Settled(d)'
                           /\ \A x \in Row : Out(d, x) => Out(d, x)'
      BY <1>5, SafeStays, OutStays DEF Inv
    <3>2. QED
      BY <1>2, <1>4, <3>1 DEF Safe, BackupKept, Copies, Settled, Done, Out
  <2>2. r = "forward" => Safe(c)'
    BY <1>3, <1>4, <1>5 DEF Safe, Settled
  <2>3. r \in Row => Out(c, r)'
    BY <1>3, <1>4, <1>5 DEF Out
  <2>4. "summary" \in Row /\ Segment \subseteq Row
    BY DEF Row
  <2>5. StageInv(p)
    BY DEF Inv
  <2> HIDE DEF c
  <2>6. Job(p) = c /\ Job(p)' = c'
    BY DEF c
  <2>7. QED
    BY <1>4, <1>6, <2>1, <2>2, <2>3, <2>4, <2>5, <2>6 DEF StageInv
<1>8. pc'[p] # "idle" => queue'[message'[p]] # "none"
  BY <1>1, <1>4, <1>5, <1>6 DEF Inv, CopyInv, QueueMoves
<1>9. QED
  BY <1>5, <1>6, <1>7, <1>8, OneKeepsInv

LEMMA ReceiveKeepsInv ==
    ASSUME Inv, TypeInv', NEW p \in Pod, NEW m \in Message, Receive(p, m)
    PROVE  Inv'
<1>1. /\ pc[p] = "idle" /\ queue[m] = "ready"
      /\ queue' = [queue EXCEPT ![m] = "out"]
      /\ message' = [message EXCEPT ![p] = m] /\ Goto(p, "start")
      /\ UNCHANGED <<inFlight, output, lost>>
  BY DEF Receive
<1>2. queue'[m] = "out" /\ \A n \in Message \ {m} : queue'[n] = queue[n]
  BY <1>1 DEF Inv, TypeInv, QueueType
<1>3. Grows /\ QueueMoves
  BY <1>1, <1>2, OutputStays DEF QueueMoves, Live, output, Inv
<1>4. /\ pc'[p] = "start" /\ message'[p] = m
      /\ \A q \in Pod \ {p} : Same(q)
  BY <1>1 DEF Inv, TypeInv, StageType, WorkType, Goto, Same
<1>5. StageInv(p)'
  BY <1>4 DEF StageInv
<1>6. queue'[message'[p]] # "none"
  BY <1>2, <1>4
<1>7. QED
  BY <1>3, <1>4, <1>5, <1>6, OneKeepsInv

(* Pub/Sub's own steps move no pod. *)
LEMMA QuietKeepsInv ==
    ASSUME Inv, TypeInv', QueueMoves,
           UNCHANGED <<pc, message, inFlight, rows, blobs, lost>>
    PROVE  Inv'
<1> DEFINE S == {}
<1>1. Grows
  BY OutputStays DEF Inv
<1>2. S \in SUBSET Pod /\ \A q \in Pod \ S : Same(q)
  BY DEF Same
<1>3. \A q \in S : StageInv(q)' /\ (pc'[q] # "idle" => queue'[message'[q]] # "none")
  OBVIOUS
<1> HIDE DEF S
<1>4. QED
  BY <1>1, <1>2, <1>3, StepKeepsInv

LEMMA InvStep == Inv /\ [Next]_vars => Inv'
<1> SUFFICES ASSUME Inv, [Next]_vars PROVE Inv'
  OBVIOUS
<1>0. TypeInv'
  BY TypeStep DEF Inv
<1>1. CASE \E c \in Chunk : Submit(c)
  <2>1. PICK c \in Chunk : Submit(c)
    BY <1>1
  <2>2. /\ queue[<<c, 0>>] = "none" /\ queue' = [queue EXCEPT ![<<c, 0>>] = "ready"]
        /\ UNCHANGED <<pc, message, inFlight, rows, blobs, lost>>
    BY <2>1 DEF Submit, work, output
  <2>3. /\ <<c, 0>> \in Message /\ ChunkOf(<<c, 0>>) = c
        /\ queue'[<<c, 0>>] = "ready"
        /\ \A n \in Message \ {<<c, 0>>} : queue'[n] = queue[n]
    BY <2>2, MessageParts DEF Inv, TypeInv, QueueType, ChunkOf
  <2>4. QueueMoves
    BY <2>2, <2>3 DEF QueueMoves, Live, Inv, CopyInv, Submitted
  <2>5. QED
    BY <1>0, <2>2, <2>4, QuietKeepsInv
<1>2. CASE \E m \in Message : LeaseEnds(m) \/ LeaseLapses(m)
  <2>1. PICK m \in Message : LeaseEnds(m) \/ LeaseLapses(m)
    BY <1>2
  <2>2. /\ queue[m] = "out" /\ Redeliver(m)
        /\ UNCHANGED <<pc, message, inFlight, rows, blobs, lost>>
    BY <2>1 DEF LeaseEnds, LeaseLapses, work, output
  <2>3. queue'[m] \in {"ready", "dead"} /\ \A n \in Message \ {m} : queue'[n] = queue[n]
    BY <2>2 DEF Redeliver, Inv, TypeInv, QueueType
  <2>4. QueueMoves
    BY <2>2, <2>3 DEF QueueMoves, Live
  <2>5. QED
    BY <1>0, <2>2, <2>4, QuietKeepsInv
<1>3. CASE \E p \in Pod, m \in Message : Receive(p, m)
  BY <1>0, <1>3, ReceiveKeepsInv
<1>4. CASE \E p \in Pod : PodStep(p)
  BY <1>0, <1>4, PodStepKeepsInv
<1>5. CASE \E p \in Pod : FutureStep(p) \/ \E r \in inFlight[p] : FutureFails(p, r)
  BY <1>0, <1>5, FutureKeepsInv DEF FutureStep
<1>6. CASE \E p \in Pod : CallbackExits(p) \/ PodDies(p)
  BY <1>0, <1>6, ExitKeepsInv DEF CallbackExits, PodDies
<1>7. CASE \E p \in Pod : CallbackExitsIdle(p)
  <2>1. UNCHANGED <<queue, pc, message, inFlight, rows, blobs, lost>>
    BY <1>7 DEF CallbackExitsIdle, subscription, work, output
  <2>2. QED
    BY <1>0, <2>1, QueueStays, QuietKeepsInv
<1>8. ASSUME NEW p \in Pod, RunFails(p) \/ AckFails(p)
      PROVE  Inv'
  <2>1. pc[p] # "idle" /\ Reset(p) /\ UNCHANGED <<queue, inFlight, output, lost>>
    BY <1>8 DEF RunFails, AckFails, Nack, subscription
  <2>2. QED
    BY <1>0, <2>1, QueueStays, ResetKeepsInv
<1>9. CASE UNCHANGED vars
  <2>1. UNCHANGED <<queue, pc, message, inFlight, rows, blobs, lost>>
    BY <1>9 DEF vars
  <2>2. QED
    BY <1>0, <2>1, QueueStays, QuietKeepsInv
<1>10. QED
  BY <1>1, <1>2, <1>3, <1>4, <1>5, <1>6, <1>7, <1>8, <1>9 DEF Next, CallbackStep

(* The invariant behind NoChunkVanishes holds throughout. *)
THEOREM Invariance == Spec => []Inv
  BY InvInit, InvStep, PTL DEF Spec

(* However pods die, leases lapse, acks fail and copies multiply, a chunk is *)
(* gone from every queue only when its results are out, or a publish future  *)
(* of it failed.                                                            *)
THEOREM NoChunkIsForgotten == Spec => []NoChunkVanishes
<1>1. ASSUME Inv, NEW c \in Chunk, Submitted(c)
      PROVE  Kept(c) \/ Done(c) \/ c \in lost
  <2>1. <<c, 0>> \in Copies(c)
    BY MessageParts DEF Copies, ChunkOf
  <2>2. queue[<<c, 0>>] \in Live \/ Safe(c)
    BY <1>1 DEF Inv, ChunkInv
  <2>3. QED
    BY <2>1, <2>2 DEF Kept, Live, Safe, Settled, BackupKept
<1>2. Inv => NoChunkVanishes
  BY <1>1 DEF NoChunkVanishes
<1>3. QED
  BY <1>2, Invariance, PTL

-------------------------------------------------------------------------------
(* Dead letters: every delivery that does not end in an ack has cost a       *)
(* crash or an error, but for the two a primary pod may run out of memory in. *)

Healthy(m) == Kind[ChunkOf(m)] \notin {"undecodable", "unrunnable"}
Doomed == {p \in Pod : doomed[p]}
Busy(m) == queue[m] = "out" /\ Working(m)

(* The deliveries of a message that have ended. *)
Spent(m) == deliveries[m] - (IF Busy(m) THEN 1 ELSE 0)

Free(m) == IF m[2] = 0 THEN ForwardAfter ELSE 0

LeaseInv ==
    /\ \A m \in Message : queue[m] = "dead" => deliveries[m] = MaxDeliveries
    /\ \A p \in Pod : pc[p] # "idle" /\ holder[message[p]] = p =>
           attempt[p] = deliveries[message[p]]
    /\ \A p \in Primary : pc[p] = "run" => attempt[p] <= ForwardAfter

(* A doomed pod's failure is counted before its exit ends a delivery. *)
CountInv ==
    /\ Cardinality(Doomed) <= crashes + errors
    /\ \A m \in Message :
           Healthy(m) /\ queue[m] # "acked" =>
               Spent(m) + Cardinality(Doomed) <= crashes + errors + Free(m)

LetterInv == TypeInv /\ LeaseInv /\ CountInv

LEMMA DoomedCount ==
    ASSUME DoomType
    PROVE  IsFiniteSet(Doomed) /\ Cardinality(Doomed) \in Nat
<1>1. IsFiniteSet(Pod) /\ Doomed \subseteq Pod
  BY TrajectoryWorkerAssumption DEF Doomed, Pod
<1>2. QED
  BY <1>1, FS_Subset, FS_CardinalityType

(* Where the count of doomed pods goes. *)
LEMMA DoomedStays ==
    ASSUME UNCHANGED doomed
    PROVE  Cardinality(Doomed)' = Cardinality(Doomed)
  BY DEF Doomed

LEMMA DoomedEnds ==
    ASSUME TypeInv, NEW p \in Pod, doomed' = [doomed EXCEPT ![p] = FALSE]
    PROVE  /\ Cardinality(Doomed)' \in Nat
           /\ Cardinality(Doomed)' <= Cardinality(Doomed)
           /\ doomed[p] => Cardinality(Doomed)' = Cardinality(Doomed) - 1
<1>1. IsFiniteSet(Doomed) /\ Cardinality(Doomed) \in Nat
  BY DoomedCount DEF TypeInv
<1>2. Doomed' = Doomed \ {p}
  BY DEF Doomed, TypeInv, DoomType
<1>3. p \in Doomed <=> doomed[p]
  BY DEF Doomed
<1>4. Cardinality(Doomed \ {p}) =
        IF p \in Doomed THEN Cardinality(Doomed) - 1 ELSE Cardinality(Doomed)
  BY <1>1, FS_RemoveElement
<1>5. IsFiniteSet(Doomed \ {p}) /\ Cardinality(Doomed \ {p}) \in Nat
  BY <1>1, FS_RemoveElement, FS_CardinalityType
<1>6. QED
  BY <1>1, <1>2, <1>3, <1>4, <1>5

LEMMA DoomedBegins ==
    ASSUME TypeInv, NEW p \in Pod, doomed' = [doomed EXCEPT ![p] = TRUE]
    PROVE  /\ Cardinality(Doomed)' \in Nat
           /\ Cardinality(Doomed)' <= Cardinality(Doomed) + 1
<1>1. IsFiniteSet(Doomed) /\ Cardinality(Doomed) \in Nat
  BY DoomedCount DEF TypeInv
<1>2. Doomed' = Doomed \cup {p}
  BY DEF Doomed, TypeInv, DoomType
<1>3. Cardinality(Doomed \cup {p}) =
        IF p \in Doomed THEN Cardinality(Doomed) ELSE Cardinality(Doomed) + 1
  BY <1>1, FS_AddElement
<1>4. QED
  BY <1>1, <1>2, <1>3

LEMMA SpentType ==
    ASSUME TypeInv, NEW m \in Message
    PROVE  /\ Spent(m) \in Int /\ Spent(m) <= deliveries[m]
           /\ deliveries[m] \in Nat /\ deliveries[m] <= MaxDeliveries
           /\ Free(m) \in Nat
<1>1. MaxDeliveries \in Nat /\ deliveries[m] \in 0 .. MaxDeliveries
  BY TrajectoryWorkerAssumption DEF TypeInv, QueueType
<1>2. QED
  BY <1>1 DEF Spent, Free, ForwardAfter

(* A message is where it was, or has just appeared. *)
OnlyNew(m) == queue'[m] = queue[m] \/ (queue[m] = "none" /\ queue'[m] = "ready")

(* A step that takes no message from a pod ends no delivery. *)
LEMMA SpentStays ==
    ASSUME NEW m \in Message, OnlyNew(m), UNCHANGED <<holder, deliveries, message>>
    PROVE  Spent(m)' = Spent(m)
<1>1. Busy(m)' <=> Busy(m)
  BY DEF OnlyNew, Busy, Working
<1>2. QED
  BY <1>1 DEF Spent

(* One that does ends at most that of the message it takes. *)
LEMMA SpentAtReset ==
    ASSUME TypeInv, NEW p \in Pod, pc[p] # "idle", UNCHANGED <<holder, deliveries>>,
           message' = [message EXCEPT ![p] = None], NEW m \in Message, OnlyNew(m)
    PROVE  \/ Spent(m)' = Spent(m)
           \/ /\ m = message[p] /\ holder[m] = p /\ queue[m] = "out"
              /\ Spent(m)' = Spent(m) + 1 /\ Spent(m)' = deliveries[m]
<1>1. message[p] \in Message /\ deliveries[m] \in Int
  BY JobType, SpentType
<1>2. \A q \in Pod \ {p} : message'[q] = message[q]
  BY DEF TypeInv, WorkType
<1>3. None \notin Message
  BY MessageParts, TrajectoryWorkerAssumption DEF Message
<1>4. Busy(m)' => Busy(m)
  BY <1>2, <1>3 DEF TypeInv, WorkType, OnlyNew, Busy, Working
<1>5. Busy(m) /\ ~(m = message[p] /\ holder[m] = p) => Busy(m)'
  BY <1>2 DEF OnlyNew, Busy, Working
<1>6. CASE Busy(m)' <=> Busy(m)
  BY <1>6 DEF Spent
<1>7. CASE Busy(m) /\ ~Busy(m)'
  BY <1>1, <1>5, <1>7 DEF Spent, Busy
<1>8. QED
  BY <1>4, <1>6, <1>7

(* Faults not yet used up by doomed pods. *)
Margin == (crashes + errors) - Cardinality(Doomed)

LEMMA MarginType ==
    TypeInv => Margin \in Int /\ crashes + errors \in Nat /\ Cardinality(Doomed) \in Nat
<1> SUFFICES ASSUME TypeInv
             PROVE  Margin \in Int /\ crashes + errors \in Nat /\ Cardinality(Doomed) \in Nat
  OBVIOUS
<1>1. Cardinality(Doomed) \in Nat
  BY DoomedCount DEF TypeInv
<1>2. crashes \in Nat /\ errors \in Nat
  BY TrajectoryWorkerAssumption DEF TypeInv, FaultType
<1>3. QED
  BY <1>1, <1>2 DEF Margin

Within == \A m \in Message : Healthy(m) /\ queue[m] # "acked" => Spent(m) <= Margin + Free(m)

LEMMA CountByMargin == TypeInv => (CountInv <=> Margin >= 0 /\ Within)
<1> SUFFICES ASSUME TypeInv PROVE CountInv <=> Margin >= 0 /\ Within
  OBVIOUS
<1> DEFINE n == Cardinality(Doomed)
           k == crashes + errors
<1>1. Margin = k - n /\ k \in Nat /\ n \in Nat
  BY MarginType DEF Margin
<1>2. \A m \in Message : Spent(m) \in Int /\ Free(m) \in Nat
  BY SpentType
<1>3. CountInv <=> /\ n <= k
                   /\ \A m \in Message :
                        Healthy(m) /\ queue[m] # "acked" => Spent(m) + n <= k + Free(m)
  BY DEF CountInv
<1> HIDE DEF n, k
<1>4. n <= k <=> Margin >= 0
  BY <1>1
<1>5. \A m \in Message : Spent(m) + n <= k + Free(m) <=> Spent(m) <= Margin + Free(m)
  BY <1>1, <1>2
<1>6. QED
  BY <1>3, <1>4, <1>5 DEF Within

LEMMA CountByMarginNext ==
    TypeInv' => (Margin \in Int)' /\ (CountInv' <=> (Margin >= 0)' /\ Within')
  BY MarginType, CountByMargin, PTL

(* If no delivery ends, the count is kept. *)
LEMMA CountStays ==
    ASSUME LetterInv, TypeInv', \A m \in Message : OnlyNew(m),
           UNCHANGED <<holder, deliveries, message>>, Margin' >= Margin
    PROVE  CountInv'
<1>1. Margin \in Int /\ Margin' \in Int /\ Margin >= 0 /\ Within
  BY MarginType, CountByMargin, CountByMarginNext DEF LetterInv
<1>2. ASSUME NEW m \in Message, Healthy(m), queue'[m] # "acked"
      PROVE  Spent(m)' <= Margin' + Free(m)
  <2>1. Spent(m)' = Spent(m) /\ Spent(m) \in Int /\ Free(m) \in Nat
    BY SpentStays, SpentType DEF LetterInv
  <2>2. Spent(m) <= Margin + Free(m)
    BY <1>1, <1>2 DEF OnlyNew, Within
  <2>3. QED
    BY <1>1, <2>1, <2>2
<1>3. Within' /\ Margin' >= 0
  BY <1>1, <1>2 DEF Healthy, Free, Within
<1>4. QED
  BY <1>3, CountByMarginNext

(* A delivery that ends is paid for, or free, or of a message that cannot be *)
(* run, or acked.                                                           *)
LEMMA CountAtReset ==
    ASSUME LetterInv, TypeInv', NEW p \in Pod, pc[p] # "idle",
           \A m \in Message : OnlyNew(m) \/ queue'[m] = "acked",
           UNCHANGED <<holder, deliveries>>,
           message' = [message EXCEPT ![p] = None], Margin' >= Margin,
           \/ Margin' > Margin
           \/ ~Healthy(message[p])
           \/ queue[message[p]] = "out" /\ holder[message[p]] = p =>
                \/ queue'[message[p]] = "acked"
                \/ deliveries[message[p]] <= Free(message[p])
    PROVE  CountInv'
<1>1. Margin \in Int /\ Margin' \in Int /\ Margin >= 0 /\ Within
  BY MarginType, CountByMargin, CountByMarginNext DEF LetterInv
<1>2. ASSUME NEW m \in Message, Healthy(m), queue'[m] # "acked"
      PROVE  Spent(m)' <= Margin' + Free(m)
  <2>1. /\ Spent(m) \in Int /\ Free(m) \in Nat
        /\ \/ Spent(m)' = Spent(m)
           \/ /\ m = message[p] /\ holder[m] = p /\ queue[m] = "out"
              /\ Spent(m)' = Spent(m) + 1 /\ Spent(m)' = deliveries[m]
    BY <1>2, SpentAtReset, SpentType DEF LetterInv
  <2>2. Spent(m) <= Margin + Free(m)
    BY <1>1, <1>2 DEF OnlyNew, Within
  <2>3. QED
    BY <1>1, <1>2, <2>1, <2>2
<1>3. Within' /\ Margin' >= 0
  BY <1>1, <1>2 DEF Healthy, Free, Within
<1>4. QED
  BY <1>3, CountByMarginNext

(* A pod that goes on holds the delivery it was given. *)
LEMMA LeaseStays ==
    ASSUME LetterInv, TypeInv', UNCHANGED <<holder, deliveries>>,
           \A m \in Message : queue'[m] = "dead" =>
               queue[m] = "dead" \/ deliveries[m] = MaxDeliveries,
           \A q \in Pod : \/ pc'[q] = "idle"
                          \/ /\ pc[q] # "idle"
                             /\ message'[q] = message[q] /\ attempt'[q] = attempt[q]
                             /\ \/ pc'[q] = pc[q]
                                \/ pc'[q] = "run" /\ q \in Primary =>
                                      attempt[q] <= ForwardAfter
    PROVE  LeaseInv'
<1>1. ASSUME NEW p \in Pod, pc'[p] # "idle", holder'[message'[p]] = p
      PROVE  attempt'[p] = deliveries'[message'[p]]
  BY <1>1 DEF LetterInv, LeaseInv
<1>2. ASSUME NEW p \in Primary, pc'[p] = "run"
      PROVE  attempt'[p] <= ForwardAfter
  <2>1. p \in Pod
    BY DEF Pod
  <2>2. QED
    BY <1>2, <2>1 DEF LetterInv, LeaseInv
<1>3. \A m \in Message : queue'[m] = "dead" => deliveries'[m] = MaxDeliveries
  BY DEF LetterInv, LeaseInv
<1>4. QED
  BY <1>1, <1>2, <1>3 DEF LeaseInv

LEMMA LetterInit == Init => LetterInv
<1> SUFFICES ASSUME Init PROVE LetterInv
  OBVIOUS
<1>1. TypeInv
  BY TypeInit
<1>2. Doomed = {}
  BY DEF Init, Doomed
<1>3. Cardinality(Doomed) = 0
  BY <1>2, FS_EmptySet
<1>4. \A m \in Message : queue[m] = "none" /\ deliveries[m] = 0
  BY DEF Init
<1>5. \A m \in Message : Spent(m) = 0 /\ Free(m) \in Nat
  BY <1>4, SpentType, <1>1 DEF Spent, Busy
<1>6. CountInv
  BY <1>3, <1>5 DEF Init, CountInv
<1>7. LeaseInv
  BY <1>4 DEF Init, LeaseInv, Pod
<1>8. QED
  BY <1>1, <1>6, <1>7 DEF LetterInv

(* How the margin moves. *)
LEMMA MarginMoves ==
    ASSUME TypeInv, TypeInv'
    PROVE  /\ UNCHANGED <<faults, doomed>> => Margin' = Margin
           /\ (Crash \/ Error) /\ UNCHANGED doomed => Margin' > Margin
           /\ \A p \in Pod :
                /\ doomed' = [doomed EXCEPT ![p] = FALSE] =>
                     /\ UNCHANGED faults => Margin' >= Margin
                     /\ UNCHANGED faults /\ doomed[p] => Margin' > Margin
                     /\ Crash \/ Error => Margin' > Margin
                /\ doomed' = [doomed EXCEPT ![p] = TRUE] /\ Error => Margin' >= Margin
<1> DEFINE k == crashes + errors
           n == Cardinality(Doomed)
<1>1. n \in Nat /\ k \in Nat /\ Margin = k - n
  BY MarginType DEF Margin
<1>2. crashes \in Nat /\ errors \in Nat
  BY TrajectoryWorkerAssumption DEF TypeInv, FaultType
<1>3. /\ UNCHANGED faults => k' = k
      /\ Crash \/ Error => k' = k + 1
  BY <1>2 DEF faults, Crash, Error
<1>4. Margin' = k' - n'
  BY DEF Margin
<1>5. UNCHANGED doomed => n' = n
  BY DoomedStays
<1>6. ASSUME NEW p \in Pod
      PROVE  /\ doomed' = [doomed EXCEPT ![p] = FALSE] =>
                  n' \in Nat /\ n' <= n /\ (doomed[p] => n' = n - 1)
             /\ doomed' = [doomed EXCEPT ![p] = TRUE] => n' \in Nat /\ n' <= n + 1
  BY DoomedEnds, DoomedBegins
<1> HIDE DEF k, n
<1>7. QED
  BY <1>1, <1>3, <1>4, <1>5, <1>6

(* A process ends: on a fault, at the failed future's callback, or on a      *)
(* message that no pod of its kind can process.                             *)
LEMMA ExitKeepsLetters ==
    ASSUME LetterInv, TypeInv', NEW p \in Pod, pc[p] # "idle", Exit(p),
           \/ Crash
           \/ UNCHANGED faults /\ doomed[p]
           \/ UNCHANGED faults /\ ~Healthy(message[p])
           \/ UNCHANGED faults /\ p \in Primary /\ pc[p] = "run"
    PROVE  LetterInv'
<1>1. PICK landed \in SUBSET inFlight[p] : Accept(p, landed)
  BY DEF Exit
<1>2. /\ UNCHANGED <<holder, deliveries>> /\ Reset(p)
      /\ doomed' = [doomed EXCEPT ![p] = FALSE]
      /\ message' = [message EXCEPT ![p] = None]
  BY DEF Exit, Reset
<1>3. \A m \in Message : OnlyNew(m)
  BY <1>1, <1>2, AcceptType DEF LetterInv, TypeInv, QueueType, OnlyNew, Copies
<1>4. Margin' >= Margin /\ (Crash \/ (UNCHANGED faults /\ doomed[p]) => Margin' > Margin)
  <2>1. Margin \in Int /\ Margin' \in Int
    BY MarginType, CountByMarginNext DEF LetterInv
  <2>2. TypeInv /\ (Margin' > Margin => Margin' >= Margin)
    BY <2>1 DEF LetterInv
  <2>3. /\ UNCHANGED faults => Margin' >= Margin
        /\ UNCHANGED faults /\ doomed[p] => Margin' > Margin
        /\ Crash => Margin' > Margin
    BY <1>2, <2>2, MarginMoves, Zenon
  <2>4. QED
    BY <2>2, <2>3, Zenon
<1>5. p \in Primary /\ pc[p] = "run" =>
        (holder[message[p]] = p => deliveries[message[p]] <= Free(message[p]))
  BY HomeOfPod DEF LetterInv, LeaseInv, Free
<1>6. CountInv'
  BY <1>2, <1>3, <1>4, <1>5, CountAtReset
<1>7. \A q \in Pod \ {p} : pc'[q] = pc[q] /\ message'[q] = message[q] /\ attempt'[q] = attempt[q]
  BY <1>2, ResetType DEF LetterInv
<1>8. LeaseInv'
  <2>1. \A m \in Message : queue'[m] = "dead" => queue[m] = "dead"
    BY <1>3 DEF OnlyNew
  <2>2. pc'[p] = "idle"
    BY <1>2, ResetType DEF LetterInv
  <2>3. ASSUME NEW q \in Pod
        PROVE  \/ pc'[q] = "idle"
               \/ /\ pc[q] # "idle" /\ message'[q] = message[q] /\ attempt'[q] = attempt[q]
                  /\ pc'[q] = pc[q]
    BY <1>7, <2>2
  <2>4. QED
    BY <1>2, <2>1, <2>3, LeaseStays
<1>9. QED
  BY <1>6, <1>8 DEF LetterInv

(* A pod lets its message go after an error, or because it raised. *)
LEMMA NackKeepsLetters ==
    ASSUME LetterInv, TypeInv', NEW p \in Pod, pc[p] # "idle", Reset(p),
           UNCHANGED <<subscription, doomed>>,
           Error \/ (UNCHANGED faults /\ ~Healthy(message[p]))
    PROVE  LetterInv'
<1>1. Margin' >= Margin /\ (Error => Margin' > Margin)
  <2>1. Margin \in Int /\ Margin' \in Int
    BY MarginType, CountByMarginNext DEF LetterInv
  <2>2. QED
    BY <2>1, MarginMoves DEF LetterInv
<1>2. \A m \in Message : OnlyNew(m)
  BY DEF OnlyNew, subscription
<1>3. CountInv'
  BY <1>1, <1>2, CountAtReset DEF Reset, subscription
<1>4. LeaseInv'
  BY ResetType, LeaseStays DEF LetterInv, subscription
<1>5. QED
  BY <1>3, <1>4 DEF LetterInv

(* A pod goes on with its message. *)
LEMMA GoingOnKeepsLetters ==
    ASSUME LetterInv, TypeInv', NEW p \in Pod, pc[p] # "idle", NEW stage, Goto(p, stage),
           UNCHANGED <<subscription, work, doomed, faults>>,
           stage = "run" => ~MustForward(p)
    PROVE  LetterInv'
<1>1. Margin' >= Margin
  <2>1. Margin \in Int
    BY MarginType DEF LetterInv
  <2>2. QED
    BY <2>1, MarginMoves DEF LetterInv
<1>2. \A m \in Message : OnlyNew(m)
  BY DEF OnlyNew, subscription
<1>3. CountInv'
  BY <1>1, <1>2, CountStays DEF subscription, work
<1>4. stage = "run" /\ p \in Primary => attempt[p] <= ForwardAfter
  BY DEF MustForward, LetterInv, TypeInv, WorkType, ForwardAfter
<1>5. /\ pc'[p] = stage
      /\ \A q \in Pod \ {p} : pc'[q] = pc[q]
  BY DEF Goto, LetterInv, TypeInv, StageType
<1>6. LeaseInv'
  BY <1>4, <1>5, LeaseStays DEF subscription, work
<1>7. QED
  BY <1>3, <1>6 DEF LetterInv

(* Steps of no pod's main thread: the futures', and the callback's when its  *)
(* pod is idle.                                                             *)
LEMMA BesideKeepsLetters ==
    ASSUME LetterInv, TypeInv', UNCHANGED <<holder, deliveries, pc, message, attempt>>,
           \A m \in Message : OnlyNew(m), Margin' >= Margin
    PROVE  LetterInv'
<1>1. CountInv'
  BY CountStays
<1>2. LeaseInv'
  BY LeaseStays DEF OnlyNew
<1>3. QED
  BY <1>1, <1>2 DEF LetterInv

LEMMA AckKeepsLetters ==
    ASSUME LetterInv, TypeInv', NEW p \in Pod, Ack(p)
    PROVE  LetterInv'
<1>1. /\ pc[p] = "ack" /\ Reset(p) /\ UNCHANGED <<holder, deliveries, doomed, faults>>
      /\ message' = [message EXCEPT ![p] = None]
  BY DEF Ack, Reset
<1>2. message[p] \in Message
  BY <1>1, JobType DEF LetterInv
<1>3. \A m \in Message : OnlyNew(m) \/ queue'[m] = "acked"
  BY <1>2 DEF Ack, OnlyNew, LetterInv, TypeInv, QueueType
<1>4. queue[message[p]] = "out" /\ holder[message[p]] = p => queue'[message[p]] = "acked"
  BY <1>2 DEF Ack, LetterInv, TypeInv, QueueType
<1>5. Margin' >= Margin
  <2>1. Margin \in Int
    BY MarginType DEF LetterInv
  <2>2. QED
    BY <1>1, <2>1, MarginMoves DEF LetterInv
<1>6. CountInv'
  BY <1>1, <1>3, <1>4, <1>5, CountAtReset
<1>7. LeaseInv'
  <2>1. \A m \in Message : queue'[m] = "dead" => queue[m] = "dead"
    BY <1>3 DEF OnlyNew
  <2>2. QED
    BY <1>1, <2>1, ResetType, LeaseStays DEF LetterInv
<1>8. QED
  BY <1>6, <1>7 DEF LetterInv

LEMMA PodStepKeepsLetters ==
    ASSUME LetterInv, TypeInv', NEW p \in Pod, PodStep(p)
    PROVE  LetterInv'
<1>1. CASE DecodeFails(p) \/ OutOfMemory(p)
  <2>1. /\ pc[p] # "idle" /\ Exit(p) /\ UNCHANGED faults
        /\ \/ Kind[Job(p)] = "undecodable"
           \/ p \in Primary /\ pc[p] = "run"
    BY <1>1 DEF DecodeFails, OutOfMemory
  <2>2. Kind[Job(p)] = "undecodable" => ~Healthy(message[p])
    BY DEF Healthy, Job
  <2>3. QED
    BY <2>1, <2>2, ExitKeepsLetters
<1>2. CASE Forward(p)
  BY <1>2, GoingOnKeepsLetters DEF Forward
<1>3. CASE Skip(p)
  BY <1>3, GoingOnKeepsLetters DEF Skip
<1>4. CASE StartRun(p)
  BY <1>4, GoingOnKeepsLetters DEF StartRun
<1>5. CASE RunSkips(p)
  BY <1>5, GoingOnKeepsLetters DEF RunSkips
<1>6. CASE RunSucceeds(p)
  BY <1>6, GoingOnKeepsLetters DEF RunSucceeds
<1>7. CASE ForwardDone(p)
  BY <1>7, GoingOnKeepsLetters DEF ForwardDone
<1>8. CASE SummaryDone(p)
  BY <1>8, GoingOnKeepsLetters DEF SummaryDone
<1>9. CASE Upload(p)
  BY <1>9, GoingOnKeepsLetters DEF Upload
<1>10. CASE FlushDone(p)
  BY <1>10, GoingOnKeepsLetters DEF FlushDone
<1>11. CASE RunRaises(p)
  BY <1>11, NackKeepsLetters DEF RunRaises, Nack, Healthy, Job
<1>12. CASE Ack(p)
  BY <1>12, AckKeepsLetters
<1>13. QED
  BY <1>1, <1>2, <1>3, <1>4, <1>5, <1>6, <1>7, <1>8, <1>9, <1>10, <1>11, <1>12 DEF PodStep

(* A delivery that begins is not spent yet. *)
LEMMA ReceiveKeepsLetters ==
    ASSUME LetterInv, TypeInv', NEW p \in Pod, NEW m \in Message, Receive(p, m)
    PROVE  LetterInv'
<1>1. /\ pc[p] = "idle" /\ queue[m] = "ready" /\ UNCHANGED <<faults, doomed>>
      /\ queue' = [queue EXCEPT ![m] = "out"]
      /\ holder' = [holder EXCEPT ![m] = p]
      /\ deliveries' = [deliveries EXCEPT ![m] = @ + 1]
      /\ message' = [message EXCEPT ![p] = m]
      /\ attempt' = [attempt EXCEPT ![p] = deliveries[m] + 1]
      /\ pc' = [pc EXCEPT ![p] = "start"]
  BY DEF Receive, Goto
<1>2. /\ queue'[m] = "out" /\ holder'[m] = p /\ deliveries'[m] = deliveries[m] + 1
      /\ message'[p] = m /\ attempt'[p] = deliveries[m] + 1 /\ pc'[p] = "start"
      /\ message[p] = None
  BY <1>1 DEF LetterInv, TypeInv, QueueType, WorkType, StageType
<1>3. \A n \in Message \ {m} : /\ queue'[n] = queue[n] /\ holder'[n] = holder[n]
                               /\ deliveries'[n] = deliveries[n]
  BY <1>1 DEF LetterInv, TypeInv, QueueType
<1>4. \A q \in Pod \ {p} : /\ pc'[q] = pc[q] /\ message'[q] = message[q]
                           /\ attempt'[q] = attempt[q]
  BY <1>1 DEF LetterInv, TypeInv, WorkType, StageType
<1>5. None \notin Message
  BY MessageParts, TrajectoryWorkerAssumption DEF Message
<1>6. /\ Margin' = Margin /\ Margin \in Int /\ Margin >= 0 /\ Within
  BY <1>1, MarginMoves, MarginType, CountByMargin DEF LetterInv
<1>7. \A n \in Message : Spent(n)' = Spent(n)
  <2>1. ASSUME NEW n \in Message \ {m}
        PROVE  Busy(n)' <=> Busy(n)
    BY <1>2, <1>3, <1>4, <1>5 DEF Busy, Working
  <2>2. Busy(m)' /\ ~Busy(m)
    BY <1>1, <1>2 DEF Busy, Working
  <2>3. deliveries[m] \in Int
    BY SpentType DEF LetterInv
  <2>4. ASSUME NEW n \in Message
        PROVE  Spent(n)' = Spent(n)
    BY <1>2, <1>3, <2>1, <2>2, <2>3 DEF Spent
  <2>5. QED
    BY <2>4
<1>8. CountInv'
  <2>1. Within'
    BY <1>1, <1>2, <1>3, <1>6, <1>7 DEF Within, Healthy, Free
  <2>2. Margin' >= 0
    BY <1>6
  <2>3. QED
    BY <2>1, <2>2, CountByMarginNext
<1>9. LeaseInv'
  <2>1. \A n \in Message : queue'[n] = "dead" => deliveries'[n] = MaxDeliveries
    BY <1>2, <1>3 DEF LetterInv, LeaseInv
  <2>2. ASSUME NEW q \in Pod, pc'[q] # "idle", holder'[message'[q]] = q
        PROVE  attempt'[q] = deliveries'[message'[q]]
    <3>1. CASE q = p
      BY <1>2, <3>1
    <3>2. CASE q # p
      <4>1. pc[q] # "idle" /\ message[q] \in Message /\ message'[q] = message[q]
        BY <1>4, <2>2, <3>2, JobType DEF LetterInv
      <4>2. message[q] # m
        BY <1>2, <2>2, <3>2, <4>1
      <4>3. QED
        BY <1>3, <1>4, <2>2, <3>2, <4>1, <4>2 DEF LetterInv, LeaseInv
    <3>3. QED
      BY <3>1, <3>2
  <2>3. \A q \in Primary : pc'[q] = "run" => attempt'[q] <= ForwardAfter
    BY <1>2, <1>4 DEF LetterInv, LeaseInv, Pod
  <2>4. QED
    BY <2>1, <2>2, <2>3 DEF LeaseInv
<1>10. QED
  BY <1>8, <1>9 DEF LetterInv

(* A lease ends: the delivery was spent when its pod let it go, or the lease *)
(* could not be extended.                                                   *)
LEMMA LeaseKeepsLetters ==
    ASSUME LetterInv, TypeInv', NEW m \in Message, LeaseEnds(m) \/ LeaseLapses(m)
    PROVE  LetterInv'
<1>1. /\ queue[m] = "out" /\ Redeliver(m)
      /\ UNCHANGED <<holder, deliveries, pc, message, attempt, doomed>>
      /\ (UNCHANGED faults /\ ~Working(m)) \/ Error
  BY DEF LeaseEnds, LeaseLapses, work
<1>2. /\ \A n \in Message \ {m} : queue'[n] = queue[n]
      /\ queue'[m] = IF deliveries[m] < MaxDeliveries THEN "ready" ELSE "dead"
  BY <1>1 DEF Redeliver, LetterInv, TypeInv, QueueType
<1>3. Margin \in Int /\ Margin' \in Int /\ Margin >= 0 /\ Within
  BY MarginType, CountByMargin, CountByMarginNext DEF LetterInv
<1>4. Margin' >= Margin /\ (Working(m) => Margin' > Margin)
  BY <1>1, <1>3, MarginMoves DEF LetterInv
<1>5. \A n \in Message \ {m} : Spent(n)' = Spent(n)
  BY <1>1, <1>2, SpentStays DEF OnlyNew
<1>6. ~Busy(m)' /\ (Busy(m) <=> Working(m))
  BY <1>1, <1>2 DEF Busy
<1>7. Spent(m)' = IF Working(m) THEN Spent(m) + 1 ELSE Spent(m)
  <2>1. deliveries[m] \in Int
    BY SpentType DEF LetterInv
  <2>2. QED
    BY <1>1, <1>6, <2>1 DEF Spent
<1>8. CountInv'
  <2>1. ASSUME NEW n \in Message, Healthy(n), queue'[n] # "acked"
        PROVE  Spent(n)' <= Margin' + Free(n)
    <3>1. Spent(n) \in Int /\ Free(n) \in Nat
      BY SpentType DEF LetterInv
    <3>2. Spent(n) <= Margin + Free(n)
      BY <1>1, <1>2, <1>3, <2>1 DEF Within
    <3>3. CASE n # m
      BY <1>3, <1>4, <1>5, <3>1, <3>2, <3>3
    <3>4. CASE n = m /\ Working(m)
      BY <1>3, <1>4, <1>7, <3>1, <3>2, <3>4
    <3>5. CASE n = m /\ ~Working(m)
      BY <1>3, <1>4, <1>7, <3>1, <3>2, <3>5
    <3>6. QED
      BY <3>3, <3>4, <3>5
  <2>2. Within'
    BY <2>1 DEF Within, Healthy, Free
  <2>3. Margin' >= 0
    BY <1>3, <1>4
  <2>4. QED
    BY <2>2, <2>3, CountByMarginNext
<1>9. LeaseInv'
  <2>1. deliveries[m] \in Nat /\ deliveries[m] <= MaxDeliveries /\ MaxDeliveries \in Nat
    BY SpentType, TrajectoryWorkerAssumption DEF LetterInv
  <2>2. \A n \in Message : queue'[n] = "dead" =>
           queue[n] = "dead" \/ deliveries[n] = MaxDeliveries
    BY <1>2, <2>1
  <2>3. QED
    BY <1>1, <2>2, LeaseStays
<1>10. QED
  BY <1>8, <1>9 DEF LetterInv

LEMMA LetterStep == LetterInv /\ [Next]_vars => LetterInv'
<1> SUFFICES ASSUME LetterInv, [Next]_vars PROVE LetterInv'
  OBVIOUS
<1>0. TypeInv /\ TypeInv' /\ Margin \in Int
  BY TypeStep, MarginType DEF LetterInv
<1>1. CASE \E c \in Chunk : Submit(c)
  <2>1. UNCHANGED <<holder, deliveries, pc, message, attempt, doomed, faults>>
    BY <1>1 DEF Submit, work
  <2>2. \A m \in Message : OnlyNew(m)
    BY <1>1, MessageParts DEF Submit, OnlyNew, LetterInv, TypeInv, QueueType
  <2>3. Margin' >= Margin
    BY <1>0, <2>1, MarginMoves
  <2>4. QED
    BY <1>0, <2>1, <2>2, <2>3, BesideKeepsLetters
<1>2. CASE \E m \in Message : LeaseEnds(m) \/ LeaseLapses(m)
  BY <1>0, <1>2, LeaseKeepsLetters
<1>3. CASE \E p \in Pod, m \in Message : Receive(p, m)
  BY <1>0, <1>3, ReceiveKeepsLetters
<1>4. CASE \E p \in Pod : PodStep(p)
  BY <1>0, <1>4, PodStepKeepsLetters
<1>5. ASSUME NEW p \in Pod, NEW r \in inFlight[p], FutureSucceeds(p, r) \/ FutureFails(p, r)
      PROVE  LetterInv'
  <2>1. pc[p] # "idle"
    BY DEF LetterInv, TypeInv, FlightType
  <2>2. PICK landed \in SUBSET {r} : Accept(p, landed)
    BY <1>5 DEF FutureSucceeds, FutureFails
  <2>3. /\ UNCHANGED <<holder, deliveries, pc, message, attempt>>
        /\ \/ UNCHANGED <<doomed, faults>>
           \/ Error /\ doomed' = [doomed EXCEPT ![p] = TRUE]
    BY <1>5 DEF FutureSucceeds, FutureFails, work
  <2>4. \A m \in Message : OnlyNew(m)
    BY <2>1, <2>2, <2>3, AcceptType DEF LetterInv, TypeInv, QueueType, OnlyNew, Copies
  <2>5. Margin' >= Margin
    BY <1>0, <2>3, MarginMoves
  <2>6. QED
    BY <1>0, <2>3, <2>4, <2>5, BesideKeepsLetters
<1>6. ASSUME NEW p \in Pod, CallbackExits(p) \/ PodDies(p)
      PROVE  LetterInv'
  BY <1>0, <1>6, ExitKeepsLetters DEF CallbackExits, PodDies
<1>7. ASSUME NEW p \in Pod, CallbackExitsIdle(p)
      PROVE  LetterInv'
  <2>1. /\ UNCHANGED <<queue, holder, deliveries, pc, message, attempt, faults>>
        /\ doomed' = [doomed EXCEPT ![p] = FALSE]
    BY <1>7 DEF CallbackExitsIdle, subscription, work
  <2>2. Margin' >= Margin
    BY <1>0, <2>1, MarginMoves
  <2>3. \A m \in Message : OnlyNew(m)
    BY <2>1 DEF OnlyNew
  <2>4. QED
    BY <1>0, <2>1, <2>2, <2>3, BesideKeepsLetters
<1>8. ASSUME NEW p \in Pod, RunFails(p) \/ AckFails(p)
      PROVE  LetterInv'
  BY <1>0, <1>8, NackKeepsLetters DEF RunFails, AckFails, Nack
<1>9. CASE UNCHANGED vars
  <2>1. UNCHANGED <<queue, holder, deliveries, pc, message, attempt, doomed, faults>>
    BY <1>9 DEF vars, faults
  <2>2. Margin' >= Margin
    BY <1>0, <2>1, MarginMoves
  <2>3. \A m \in Message : OnlyNew(m)
    BY <2>1 DEF OnlyNew
  <2>4. QED
    BY <1>0, <2>1, <2>2, <2>3, BesideKeepsLetters
<1>10. QED
  BY <1>1, <1>2, <1>3, <1>4, <1>5, <1>6, <1>7, <1>8, <1>9 DEF Next, CallbackStep, FutureStep

(* The count of spent deliveries holds throughout. *)
THEOREM LetterInvariance == Spec => []LetterInv
  BY LetterInit, LetterStep, PTL DEF Spec

(* A chunk that a backup pod can process is dead-lettered only when every    *)
(* delivery that could have ended it met a crash or an error of its own.     *)
THEOREM DeadLettersAreEarned == Spec => []DeadLetterNeedsFailures
<1>1. ASSUME LetterInv, NEW m \in Message, queue[m] = "dead",
             Kind[ChunkOf(m)] \notin {"undecodable", "unrunnable"}
      PROVE  crashes + errors >= IF m[2] = 0 THEN MaxDeliveries - ForwardAfter
                                 ELSE MaxDeliveries
  <2>1. Spent(m) = MaxDeliveries
    <3>1. deliveries[m] = MaxDeliveries /\ ~Busy(m) /\ deliveries[m] \in Nat
      BY <1>1, SpentType DEF LetterInv, LeaseInv, Busy
    <3>2. QED
      BY <3>1 DEF Spent
  <2>2. Margin \in Int /\ Cardinality(Doomed) \in Nat /\ crashes + errors \in Nat
    BY <1>1, MarginType DEF LetterInv
  <2>3. Spent(m) <= Margin + Free(m)
    BY <1>1, CountByMargin DEF LetterInv, Within, Healthy
  <2>4. MaxDeliveries \in Nat
    BY TrajectoryWorkerAssumption
  <2> DEFINE k == crashes + errors
             n == Cardinality(Doomed)
  <2>5. Margin = k - n /\ k \in Nat /\ n \in Nat
    BY <2>2 DEF Margin
  <2> HIDE DEF k, n
  <2>6. k >= IF m[2] = 0 THEN MaxDeliveries - ForwardAfter ELSE MaxDeliveries
    BY <2>1, <2>3, <2>4, <2>5 DEF Free, ForwardAfter
  <2>7. QED
    BY <2>6 DEF k
<1>2. LetterInv => DeadLetterNeedsFailures
  BY <1>1 DEF DeadLetterNeedsFailures
<1>3. QED
  BY <1>2, LetterInvariance, PTL
-------------------------------------------------------------------------------
(* Duplicates.  A row that is still to come is due to a message that waits   *)
(* for a pod or to a pod that works on one; a step without a failure never   *)
(* makes a second one of it.                                                *)

Waits(m) == queue[m] = "ready" \/ (queue[m] = "out" /\ ~Working(m))
Waiting(c) == {m \in Copies(c) : Waits(m)}

Owes(p, r) ==
    \/ pc[p] \in {"start", "run"}
    \/ pc[p] = "forward" /\ "forward" \in inFlight[p]
    \/ pc[p] = "summary" /\ r # "summary"
    \/ r \in inFlight[p]

Works(p, c) == pc[p] # "idle" /\ ChunkOf(message[p]) = c
Pending(c, r) == {p \in Pod : Works(p, c) /\ Owes(p, r)}

Due(c, r) == Cardinality(Waiting(c)) + Cardinality(Pending(c, r))

Paid(c, r) == rows[c][r] + Due(c, r) <= Margin + (IF Submitted(c) THEN 1 ELSE 0)

DupInv == \A c \in Chunk, r \in Row : Paid(c, r)

LEMMA CopiesFinite == \A c \in Chunk : IsFiniteSet(Copies(c))
<1> SUFFICES ASSUME NEW c \in Chunk PROVE IsFiniteSet(Copies(c))
  OBVIOUS
<1> DEFINE N == MaxDeliveries - ForwardAfter
<1>1. N \in Int
  BY TrajectoryWorkerAssumption DEF ForwardAfter
<1>2. IsFiniteSet({c}) /\ IsFiniteSet(0 .. N)
  <2>1. IsFiniteSet({c})
    BY FS_Singleton
  <2>2. 0 \in Int
    OBVIOUS
  <2> HIDE DEF N
  <2>3. IsFiniteSet(0 .. N)
    BY <1>1, <2>2, FS_Interval
  <2>4. QED
    BY <2>1, <2>3
<1>3. IsFiniteSet({c} \X (0 .. N))
  BY <1>2, FS_Product
<1>4. Copies(c) = {c} \X (0 .. N)
  BY DEF Copies, Message, ChunkOf
<1>5. QED
  BY <1>3, <1>4

LEMMA DueType ==
    \A c \in Chunk : /\ IsFiniteSet(Waiting(c)) /\ Cardinality(Waiting(c)) \in Nat
                     /\ \A r \in Row : /\ IsFiniteSet(Pending(c, r))
                                       /\ Cardinality(Pending(c, r)) \in Nat
<1>1. \A c \in Chunk : Waiting(c) \subseteq Copies(c) /\ IsFiniteSet(Copies(c))
  BY CopiesFinite DEF Waiting
<1>2. \A c \in Chunk, r \in Row : Pending(c, r) \subseteq Pod /\ IsFiniteSet(Pod)
  BY TrajectoryWorkerAssumption DEF Pending, Pod
<1>3. QED
  BY <1>1, <1>2, FS_Subset, FS_CardinalityType

LEMMA DueTypeNext ==
    \A c \in Chunk : /\ (IsFiniteSet(Waiting(c)))' /\ (Cardinality(Waiting(c)) \in Nat)'
                     /\ \A r \in Row : /\ (IsFiniteSet(Pending(c, r)))'
                                       /\ (Cardinality(Pending(c, r)) \in Nat)'
<1>1. \A c \in Chunk : Waiting(c)' \subseteq Copies(c) /\ IsFiniteSet(Copies(c))
  BY CopiesFinite DEF Waiting, Copies
<1>2. \A c \in Chunk, r \in Row : Pending(c, r)' \subseteq Pod /\ IsFiniteSet(Pod)
  BY TrajectoryWorkerAssumption DEF Pending, Pod
<1>3. QED
  BY <1>1, <1>2, FS_Subset, FS_CardinalityType

(* How a finite set grows and shrinks. *)
LEMMA CardBounds ==
    ASSUME NEW S, NEW T, IsFiniteSet(S)
    PROVE  /\ T \subseteq S => Cardinality(T) <= Cardinality(S)
           /\ \A x : T \subseteq S \cup {x} => Cardinality(T) <= Cardinality(S) + 1
           /\ \A x \in S : T \subseteq S \ {x} => Cardinality(T) <= Cardinality(S) - 1
<1>1. Cardinality(S) \in Nat
  BY FS_CardinalityType
<1>2. T \subseteq S => Cardinality(T) <= Cardinality(S)
  BY FS_Subset
<1>3. ASSUME NEW x, T \subseteq S \cup {x}
      PROVE  Cardinality(T) <= Cardinality(S) + 1
  <2>1. /\ IsFiniteSet(S \cup {x})
        /\ Cardinality(S \cup {x}) = IF x \in S THEN Cardinality(S) ELSE Cardinality(S) + 1
    BY FS_AddElement
  <2>2. Cardinality(T) <= Cardinality(S \cup {x}) /\ Cardinality(T) \in Nat
    BY <1>3, <2>1, FS_Subset, FS_CardinalityType
  <2>3. QED
    BY <1>1, <2>1, <2>2
<1>4. ASSUME NEW x \in S, T \subseteq S \ {x}
      PROVE  Cardinality(T) <= Cardinality(S) - 1
  <2>1. IsFiniteSet(S \ {x}) /\ Cardinality(S \ {x}) = Cardinality(S) - 1
    BY FS_RemoveElement
  <2>2. QED
    BY <1>4, <2>1, FS_Subset
<1>5. QED
  BY <1>2, <1>3, <1>4

(* The sum is kept when what comes to wait, to be worked on and to be        *)
(* accepted does not exceed what goes and the failures that were added.      *)
LEMMA SumStays ==
    ASSUME TypeInv, TypeInv', DupInv, NEW c \in Chunk, NEW r \in Row,
           Submitted(c) => Submitted(c)',
           NEW a \in Int, NEW b \in Int, NEW e \in Int, NEW d \in Int,
           Cardinality(Waiting(c))' <= Cardinality(Waiting(c)) + a,
           Cardinality(Pending(c, r))' <= Cardinality(Pending(c, r)) + b,
           rows'[c][r] <= rows[c][r] + e,
           Margin' >= Margin + d, (a + b) + e <= d
    PROVE  Paid(c, r)'
<1> DEFINE w == Cardinality(Waiting(c))
           n == Cardinality(Pending(c, r))
           s == IF Submitted(c) THEN 1 ELSE 0
<1>1. w \in Nat /\ n \in Nat /\ w' \in Nat /\ n' \in Nat
  BY DueType, DueTypeNext
<1>2. rows[c][r] \in Nat /\ rows'[c][r] \in Nat
  BY DEF TypeInv, OutputType
<1>3. Margin \in Int /\ Margin' \in Int
  BY MarginType, CountByMarginNext
<1>4. s \in Nat /\ s' \in Nat /\ s <= s'
  OBVIOUS
<1>5. rows[c][r] + (w + n) <= Margin + s
  BY DEF DupInv, Paid, Due
<1>6. w' <= w + a /\ n' <= n + b
  OBVIOUS
<1>7. Due(c, r)' = w' + n'
  BY DEF Due
<1> HIDE DEF w, n, s
<1>8. rows'[c][r] + (w' + n') <= Margin' + s'
  BY <1>1, <1>2, <1>3, <1>4, <1>5, <1>6
<1>9. QED
  BY <1>7, <1>8 DEF Paid, s
LEMMA DuesStay ==
    ASSUME TypeInv, TypeInv', DupInv, NEW c \in Chunk, NEW r \in Row,
           Submitted(c) => Submitted(c)',
           Waiting(c)' \subseteq Waiting(c), Pending(c, r)' \subseteq Pending(c, r),
           rows'[c][r] = rows[c][r], Margin' >= Margin
    PROVE  Paid(c, r)'
<1>1. /\ IsFiniteSet(Waiting(c)) /\ Cardinality(Waiting(c)) \in Nat
      /\ IsFiniteSet(Pending(c, r)) /\ Cardinality(Pending(c, r)) \in Nat
      /\ Cardinality(Waiting(c))' \in Nat /\ Cardinality(Pending(c, r))' \in Nat
  BY DueType, DueTypeNext
<1>2. /\ Cardinality(Waiting(c))' <= Cardinality(Waiting(c)) + 0
      /\ Cardinality(Pending(c, r))' <= Cardinality(Pending(c, r)) + 0
  BY <1>1, CardBounds
<1>3. rows'[c][r] <= rows[c][r] + 0 /\ Margin' >= Margin + 0
  <2>1. rows[c][r] \in Nat /\ Margin \in Int /\ Margin' \in Int
    BY MarginType, CountByMarginNext DEF TypeInv, OutputType
  <2>2. QED
    BY <2>1
<1>4. QED
  BY <1>2, <1>3, SumStays

(* What was due to a pod is due to a waiting message again, or the reverse. *)
LEMMA ChangeOver ==
    ASSUME TypeInv, TypeInv', DupInv, NEW c \in Chunk, NEW r \in Row,
           Submitted(c) => Submitted(c)', NEW a \in Int, NEW b \in Int, a + b <= 0,
           Cardinality(Waiting(c))' <= Cardinality(Waiting(c)) + a,
           Cardinality(Pending(c, r))' <= Cardinality(Pending(c, r)) + b,
           rows'[c][r] = rows[c][r], Margin' >= Margin
    PROVE  Paid(c, r)'
<1>1. rows[c][r] \in Nat /\ Margin \in Int /\ Margin' \in Int
  BY MarginType, CountByMarginNext DEF TypeInv, OutputType
<1> DEFINE e == 0
<1>2. rows'[c][r] <= rows[c][r] + e /\ Margin' >= Margin + e
  BY <1>1
<1>3. e \in Int /\ (a + b) + e <= e
  OBVIOUS
<1> HIDE DEF e
<1>4. QED
  BY <1>2, <1>3, SumStays

(* The only kind of pod step that changes what is due to the others. *)
LEMMA OtherChunks ==
    ASSUME TypeInv, TypeInv', DupInv, NEW p \in Pod, pc[p] # "idle", UNCHANGED holder,
           \A q \in Pod \ {p} : Same(q), NEW c \in Chunk, NEW r \in Row, c # Job(p),
           message'[p] = message[p] \/ (pc'[p] = "idle" /\ message'[p] = None),
           \A n \in Copies(c) : queue'[n] = queue[n],
           rows'[c][r] = rows[c][r], Margin' >= Margin
    PROVE  Paid(c, r)'
<1>1. Submitted(c) => Submitted(c)'
  BY MessageParts DEF Copies, Submitted, ChunkOf
<1>2. Waiting(c)' \subseteq Waiting(c)
  <2>1. ASSUME NEW n \in Copies(c), Waits(n)' PROVE Waits(n)
    <3>1. n \in Message /\ message[p] # n /\ message'[p] # n
      BY MessageParts, TrajectoryWorkerAssumption DEF Copies, Job, Message
    <3>2. Working(n)' <=> Working(n)
      BY <3>1 DEF Working, Same
    <3>3. QED
      BY <2>1, <3>2 DEF Waits
  <2>2. QED
    BY <2>1 DEF Waiting, Copies
<1>3. Pending(c, r)' \subseteq Pending(c, r)
  BY DEF Pending, Works, Owes, Same, Job
<1>4. QED
  BY <1>1, <1>2, <1>3, DuesStay

(* A pod goes on with its message. *)
LEMMA GoingOnKeepsDues ==
    ASSUME TypeInv, TypeInv', DupInv, NEW p \in Pod, pc[p] # "idle",
           UNCHANGED <<queue, holder, rows>>, message'[p] = message[p],
           \A q \in Pod \ {p} : Same(q), Margin' >= Margin,
           \A r \in Row : Owes(p, r)' => Owes(p, r)
    PROVE  DupInv'
<1> SUFFICES ASSUME NEW c \in Chunk, NEW r \in Row PROVE Paid(c, r)'
  BY DEF DupInv
<1>1. Submitted(c) => Submitted(c)'
  BY DEF Submitted
<1>2. \A q \in Pod : message'[q] = message[q]
  BY DEF Same
<1>3. Waiting(c)' \subseteq Waiting(c)
  BY <1>2 DEF Waiting, Waits, Working, Copies
<1>4. Pending(c, r)' \subseteq Pending(c, r)
  <2>1. ASSUME NEW q \in Pending(c, r)' PROVE q \in Pending(c, r)
    <3>1. q \in Pod /\ Works(q, c)' /\ Owes(q, r)'
      BY <2>1 DEF Pending
    <3>2. CASE q = p
      BY <3>1, <3>2 DEF Pending, Works
    <3>3. CASE q # p
      BY <3>1, <3>3 DEF Pending, Works, Owes, Same
    <3>4. QED
      BY <3>2, <3>3
  <2>2. QED
    BY <2>1
<1>5. QED
  BY <1>1, <1>3, <1>4, DuesStay

(* A pod that is reset leaves at most its message waiting, and owes nothing. *)
LEMMA ResetDues ==
    ASSUME TypeInv, NEW p \in Pod, pc[p] # "idle", UNCHANGED holder,
           \A q \in Pod \ {p} : Same(q), pc'[p] = "idle", message'[p] = None,
           NEW c \in Chunk, c = Job(p), NEW r \in Row, NEW n,
           \A m \in Copies(c) \ {n} : queue'[m] = queue[m] \/ queue'[m] = "acked"
    PROVE  /\ Waiting(c)' \subseteq (Waiting(c) \cup {message[p]}) \cup {n}
           /\ Pending(c, r)' \subseteq Pending(c, r) \ {p}
<1>1. ASSUME NEW m \in Copies(c) \ {n, message[p]}, Waits(m)' PROVE Waits(m)
  <2>1. m # message[p] /\ m # message'[p]
    BY MessageParts, TrajectoryWorkerAssumption DEF Copies, Message
  <2>2. Working(m)' <=> Working(m)
    BY <2>1 DEF Working, Same
  <2>3. QED
    BY <1>1, <2>2 DEF Waits
<1>2. Waiting(c)' \subseteq (Waiting(c) \cup {message[p]}) \cup {n}
  BY <1>1 DEF Waiting, Copies
<1>3. Pending(c, r)' \subseteq Pending(c, r) \ {p}
  BY DEF Pending, Works, Owes, Same
<1>4. QED
  BY <1>2, <1>3

(* A pod lets its message go and nothing is accepted: either the message had *)
(* still to be worked on, or a failure was counted.                          *)
LEMMA LettingGoKeepsDues ==
    ASSUME TypeInv, TypeInv', DupInv, NEW p \in Pod, pc[p] # "idle",
           UNCHANGED <<queue, holder, rows>>,
           \A q \in Pod \ {p} : Same(q), pc'[p] = "idle", message'[p] = None,
           Margin' >= Margin, pc[p] \in {"start", "run"} \/ Margin' >= Margin + 1
    PROVE  DupInv'
<1> SUFFICES ASSUME NEW c \in Chunk, NEW r \in Row PROVE Paid(c, r)'
  BY DEF DupInv
<1>1. CASE c # Job(p)
  BY <1>1, OtherChunks
<1>2. CASE c = Job(p)
  <2>1. Submitted(c) => Submitted(c)'
    BY DEF Submitted
  <2>2. /\ Waiting(c)' \subseteq (Waiting(c) \cup {message[p]}) \cup {message[p]}
        /\ Pending(c, r)' \subseteq Pending(c, r) \ {p}
    BY <1>2, ResetDues
  <2>3. /\ IsFiniteSet(Waiting(c)) /\ IsFiniteSet(Pending(c, r))
        /\ Cardinality(Pending(c, r)) \in Nat /\ Cardinality(Pending(c, r))' \in Nat
    BY DueType, DueTypeNext
  <2>4. Cardinality(Waiting(c))' <= Cardinality(Waiting(c)) + 1
    BY <2>2, <2>3, CardBounds
  <2>5. rows'[c][r] <= rows[c][r] + 0 /\ Margin \in Int /\ Margin' \in Int
    BY MarginType, CountByMarginNext DEF TypeInv, OutputType
  <2>6. CASE pc[p] \in {"start", "run"}
    <3>1. p \in Pending(c, r)
      BY <1>2, <2>6 DEF Pending, Works, Owes, Job
    <3>2. Cardinality(Pending(c, r))' <= Cardinality(Pending(c, r)) + (-1)
      BY <2>2, <2>3, <3>1, CardBounds
    <3>3. QED
      BY <2>1, <2>4, <3>2, ChangeOver
  <2>7. CASE Margin' >= Margin + 1
    <3>1. Cardinality(Pending(c, r))' <= Cardinality(Pending(c, r)) + 0
      BY <2>2, <2>3, CardBounds
    <3>2. QED
      BY <2>1, <2>4, <2>5, <2>7, <3>1, SumStays
  <2>8. QED
    BY <2>6, <2>7
<1>3. QED
  BY <1>1, <1>2

(* A forwarded chunk is all its pod has on the wire. *)
LEMMA ForwardAlone ==
    ASSUME Inv, NEW p \in Pod
    PROVE  /\ "forward" \in inFlight[p] => pc[p] = "forward" /\ inFlight[p] = {"forward"}
           /\ pc[p] = "summary" => inFlight[p] \subseteq {"summary"}
           /\ pc[p] = "forward" => inFlight[p] \subseteq {"forward"}
           /\ "forward" \notin Row
  BY TrajectoryWorkerAssumption DEF Inv, TypeInv, FlightType, StageType, StageInv, Row

(* What is accepted was due to the pod that sent it. *)
LEMMA AcceptDues ==
    ASSUME Inv, NEW p \in Pod, pc[p] # "idle", NEW landed \in SUBSET inFlight[p],
           Accept(p, landed), UNCHANGED <<holder, deliveries>>
    PROVE  /\ \A c \in Chunk, r \in Row :
                 rows'[c][r] = IF c = Job(p) /\ r \in landed THEN rows[c][r] + 1 ELSE rows[c][r]
           /\ \A c \in Chunk : Submitted(c) => Submitted(c)'
           /\ \/ queue' = queue /\ "forward" \notin landed
              \/ /\ "forward" \in landed /\ landed \cap Row = {}
                 /\ \E n \in Copies(Job(p)) :
                        \A m \in Message \ {n} : queue'[m] = queue[m]
           /\ \A r \in Row : landed \cap {r, "forward"} # {} => p \in Pending(Job(p), r)
<1>1. Job(p) \in Chunk
  BY JobType DEF Inv
<1>2. \A c \in Chunk, r \in Row :
         rows'[c][r] = IF c = Job(p) /\ r \in landed THEN rows[c][r] + 1 ELSE rows[c][r]
  <2> DEFINE f == [r \in Row |-> IF r \in landed THEN rows[Job(p)][r] + 1
                                 ELSE rows[Job(p)][r]]
  <2>1. rows' = [rows EXCEPT ![Job(p)] = f] /\ rows \in [Chunk -> [Row -> Nat]]
    BY DEF Accept, Inv, TypeInv, OutputType
  <2>2. \A r \in Row : f[r] = IF r \in landed THEN rows[Job(p)][r] + 1 ELSE rows[Job(p)][r]
    OBVIOUS
  <2> HIDE DEF f
  <2>3. QED
    BY <1>1, <2>1, <2>2
<1>3. \/ queue' = queue /\ "forward" \notin landed
      \/ /\ "forward" \in landed
         /\ \E n \in Copies(Job(p)) : /\ queue[n] = "none"
                                     /\ queue' = [queue EXCEPT ![n] = "ready"]
  BY DEF Accept
<1>4. \A c \in Chunk : Submitted(c) => Submitted(c)'
  BY <1>3, MessageParts DEF Submitted, Copies, Inv, TypeInv, QueueType
<1>5. "forward" \in landed => landed \cap Row = {}
  BY ForwardAlone
<1>6. \/ queue' = queue /\ "forward" \notin landed
      \/ /\ "forward" \in landed /\ landed \cap Row = {}
         /\ \E n \in Copies(Job(p)) : \A m \in Message \ {n} : queue'[m] = queue[m]
  BY <1>3, <1>5 DEF Inv, TypeInv, QueueType
<1>7. \A r \in Row : landed \cap {r, "forward"} # {} => p \in Pending(Job(p), r)
  BY ForwardAlone DEF Pending, Works, Owes, Job
<1>8. QED
  BY <1>2, <1>4, <1>6, <1>7

(* A process ends, with a failure to show for it or before it published. *)
LEMMA ExitKeepsDues ==
    ASSUME Inv, TypeInv', DupInv, NEW p \in Pod, pc[p] # "idle", Exit(p),
           Margin' >= Margin, pc[p] \in {"start", "run"} \/ Margin' >= Margin + 1
    PROVE  DupInv'
<1>1. PICK landed \in SUBSET inFlight[p] : Accept(p, landed)
  BY DEF Exit
<1>2. /\ TypeInv /\ UNCHANGED <<holder, deliveries>> /\ pc'[p] = "idle" /\ message'[p] = None
      /\ \A q \in Pod \ {p} : Same(q)
  BY ResetType DEF Exit, Inv, TypeInv, FlightType, Same
<1>3. /\ \A c \in Chunk, r \in Row :
            rows'[c][r] = IF c = Job(p) /\ r \in landed THEN rows[c][r] + 1 ELSE rows[c][r]
      /\ \A c \in Chunk : Submitted(c) => Submitted(c)'
      /\ \/ queue' = queue /\ "forward" \notin landed
         \/ /\ "forward" \in landed /\ landed \cap Row = {}
            /\ \E n \in Copies(Job(p)) : \A m \in Message \ {n} : queue'[m] = queue[m]
      /\ \A r \in Row : landed \cap {r, "forward"} # {} => p \in Pending(Job(p), r)
  BY <1>1, <1>2, AcceptDues
<1>4. CASE landed = {}
  <2>1. UNCHANGED queue
    BY <1>3, <1>4
  <2>2. UNCHANGED rows
    <3>1. \A c \in Chunk : \A r \in Row : rows'[c][r] = rows[c][r]
      BY <1>3, <1>4
    <3>2. rows \in [Chunk -> [Row -> Nat]] /\ rows' \in [Chunk -> [Row -> Nat]]
      BY <1>2 DEF TypeInv, OutputType
    <3>3. \A c \in Chunk : rows'[c] = rows[c]
      BY <3>1, <3>2
    <3>4. QED
      BY <3>2, <3>3
  <2>3. QED
    BY <1>2, <2>1, <2>2, LettingGoKeepsDues
<1>5. CASE landed # {}
  <2>1. pc[p] \notin {"start", "run"}
    BY <1>2, <1>5 DEF TypeInv, FlightType
  <2>2. Margin' >= Margin + 1
    BY <2>1
  <2> SUFFICES ASSUME NEW c \in Chunk, NEW r \in Row PROVE Paid(c, r)'
    BY DEF DupInv
  <2>3. CASE c # Job(p)
    <3>1. \A n \in Copies(c) : queue'[n] = queue[n]
      BY <1>3, <2>3 DEF Copies
    <3>2. QED
      BY <1>2, <1>3, <2>3, <3>1, OtherChunks
  <2>4. CASE c = Job(p)
    <3>0. /\ IsFiniteSet(Waiting(c)) /\ IsFiniteSet(Pending(c, r))
          /\ Cardinality(Pending(c, r)) \in Nat /\ Cardinality(Pending(c, r))' \in Nat
          /\ Cardinality(Waiting(c)) \in Nat /\ Cardinality(Waiting(c))' \in Nat
          /\ rows[c][r] \in Nat
      BY <1>2, DueType, DueTypeNext DEF TypeInv, OutputType
    <3>1. CASE "forward" \in landed
      <4>1. PICK n \in Copies(c) : \A m \in Message \ {n} : queue'[m] = queue[m]
        BY <1>3, <2>4, <3>1
      <4>2. /\ Waiting(c)' \subseteq (Waiting(c) \cup {message[p]}) \cup {n}
            /\ Pending(c, r)' \subseteq Pending(c, r) \ {p}
        <5>1. \A m \in Copies(c) \ {n} : queue'[m] = queue[m]
          BY <4>1 DEF Copies
        <5>2. QED
          BY <1>2, <2>4, <5>1, ResetDues
      <4>3. Cardinality(Waiting(c))' <= Cardinality(Waiting(c)) + 2
        <5>1. IsFiniteSet(Waiting(c) \cup {message[p]})
          BY <3>0, FS_AddElement
        <5>2. Cardinality(Waiting(c))' <= Cardinality(Waiting(c) \cup {message[p]}) + 1
          BY <4>2, <5>1, CardBounds
        <5>3. Cardinality(Waiting(c) \cup {message[p]}) <= Cardinality(Waiting(c)) + 1
          BY <3>0, CardBounds
        <5>4. Cardinality(Waiting(c) \cup {message[p]}) \in Nat
          BY <5>1, FS_CardinalityType
        <5>5. QED
          BY <3>0, <5>2, <5>3, <5>4
      <4>4. p \in Pending(c, r)
        BY <1>3, <2>4, <3>1
      <4>5. Cardinality(Pending(c, r))' <= Cardinality(Pending(c, r)) + (-1)
        BY <3>0, <4>2, <4>4, CardBounds
      <4>6. rows'[c][r] <= rows[c][r] + 0
        BY <1>3, <3>0, <3>1
      <4>7. QED
        BY <1>2, <1>3, <2>2, <4>3, <4>5, <4>6, SumStays
    <3>2. CASE "forward" \notin landed
      <4>1. queue' = queue
        BY <1>3, <3>2
      <4>2. /\ Waiting(c)' \subseteq (Waiting(c) \cup {message[p]}) \cup {message[p]}
            /\ Pending(c, r)' \subseteq Pending(c, r) \ {p}
        BY <1>2, <2>4, <4>1, ResetDues
      <4>3. Cardinality(Waiting(c))' <= Cardinality(Waiting(c)) + 1
        BY <3>0, <4>2, CardBounds
      <4>4. CASE r \in landed
        <5>1. p \in Pending(c, r)
          BY <1>3, <2>4, <4>4
        <5>2. Cardinality(Pending(c, r))' <= Cardinality(Pending(c, r)) + (-1)
          BY <3>0, <4>2, <5>1, CardBounds
        <5>3. rows'[c][r] <= rows[c][r] + 1
          BY <1>3, <3>0, <2>4, <4>4
        <5>4. QED
          BY <1>2, <1>3, <2>2, <4>3, <5>2, <5>3, SumStays
      <4>5. CASE r \notin landed
        <5>1. Cardinality(Pending(c, r))' <= Cardinality(Pending(c, r)) + 0
          BY <3>0, <4>2, CardBounds
        <5>2. rows'[c][r] <= rows[c][r] + 0
          BY <1>3, <3>0, <4>5
        <5>3. QED
          BY <1>2, <1>3, <2>2, <4>3, <5>1, <5>2, SumStays
      <4>6. QED
        BY <4>4, <4>5
    <3>3. QED
      BY <3>1, <3>2
  <2>5. QED
    BY <2>3, <2>4
<1>6. QED
  BY <1>4, <1>5

(* A future ends: what it stood for is accepted, or not. *)
LEMMA FutureKeepsDues ==
    ASSUME Inv, TypeInv', DupInv, NEW p \in Pod, NEW x \in inFlight[p],
           NEW landed \in SUBSET {x}, Accept(p, landed),
           inFlight' = [inFlight EXCEPT ![p] = @ \ {x}],
           UNCHANGED <<holder, deliveries, pc, message>>, Margin' >= Margin
    PROVE  DupInv'
<1>1. /\ TypeInv /\ pc[p] \in {"forward", "summary", "upload", "flush"}
      /\ landed \in SUBSET inFlight[p]
  BY DEF Inv, TypeInv, FlightType, StageType
<1>2. /\ \A c \in Chunk, r \in Row :
            rows'[c][r] = IF c = Job(p) /\ r \in landed THEN rows[c][r] + 1 ELSE rows[c][r]
      /\ \A c \in Chunk : Submitted(c) => Submitted(c)'
      /\ \/ queue' = queue /\ "forward" \notin landed
         \/ /\ "forward" \in landed /\ landed \cap Row = {}
            /\ \E n \in Copies(Job(p)) : \A m \in Message \ {n} : queue'[m] = queue[m]
      /\ \A r \in Row : landed \cap {r, "forward"} # {} => p \in Pending(Job(p), r)
  BY <1>1, AcceptDues
<1>3. /\ inFlight'[p] = inFlight[p] \ {x}
      /\ \A q \in Pod \ {p} : Same(q)
  BY <1>1 DEF TypeInv, FlightType, Same
<1>4. \A m \in Message : Working(m)' <=> Working(m)
  BY DEF Working
<1> SUFFICES ASSUME NEW c \in Chunk, NEW r \in Row PROVE Paid(c, r)'
  BY DEF DupInv
<1>5. CASE c # Job(p)
  <2>1. \A n \in Copies(c) : queue'[n] = queue[n]
    BY <1>2, <1>5 DEF Copies
  <2>2. QED
    BY <1>1, <1>2, <1>3, <1>5, <2>1, OtherChunks
<1>6. CASE c = Job(p)
  <2>0. /\ IsFiniteSet(Waiting(c)) /\ IsFiniteSet(Pending(c, r))
        /\ Cardinality(Pending(c, r)) \in Nat /\ Cardinality(Pending(c, r))' \in Nat
        /\ Cardinality(Waiting(c)) \in Nat /\ Cardinality(Waiting(c))' \in Nat
        /\ rows[c][r] \in Nat
    BY <1>1, DueType, DueTypeNext DEF TypeInv, OutputType
  <2>1. Pending(c, r)' \subseteq Pending(c, r)
    <3>1. ASSUME NEW q \in Pod, Owes(q, r)' PROVE Owes(q, r)
      <4>1. inFlight'[q] \subseteq inFlight[q]
        BY <1>3 DEF Same
      <4>2. QED
        BY <3>1, <4>1 DEF Owes
    <3>2. QED
      BY <3>1 DEF Pending, Works
  <2>2. CASE "forward" \in landed
    <3>1. PICK n \in Copies(c) : \A m \in Message \ {n} : queue'[m] = queue[m]
      BY <1>2, <1>6, <2>2
    <3>2. Waiting(c)' \subseteq Waiting(c) \cup {n}
      BY <1>4, <3>1 DEF Waiting, Waits, Copies
    <3>3. p \in Pending(c, r)
      BY <1>2, <1>6, <2>2
    <3>4. pc[p] = "forward" /\ inFlight'[p] = {}
      BY <1>1, <1>3, <2>2, ForwardAlone
    <3>5. p \notin Pending(c, r)'
      BY <3>4 DEF Pending, Owes
    <3>6. Cardinality(Waiting(c))' <= Cardinality(Waiting(c)) + 1
      BY <2>0, <3>2, CardBounds
    <3>7. Cardinality(Pending(c, r))' <= Cardinality(Pending(c, r)) + (-1)
      BY <2>0, <2>1, <3>3, <3>5, CardBounds
    <3>8. rows'[c][r] = rows[c][r]
      BY <1>2, <2>2
    <3>9. QED
      BY <1>1, <1>2, <3>6, <3>7, <3>8, ChangeOver
  <2>3. CASE "forward" \notin landed
    <3>1. Waiting(c)' \subseteq Waiting(c)
      BY <1>2, <1>4, <2>3 DEF Waiting, Waits, Copies
    <3>2. CASE r \in landed
      <4>1. r = x /\ r \notin inFlight'[p] /\ r # "forward"
        BY <1>3, <2>3, <3>2
      <4>2. p \in Pending(c, r)
        BY <1>2, <1>6, <3>2
      <4>3. pc[p] # "forward" /\ (pc[p] = "summary" => r = "summary")
        BY <4>1, ForwardAlone
      <4>4. p \notin Pending(c, r)'
        BY <1>1, <4>1, <4>3 DEF Pending, Owes
      <4>5. Cardinality(Waiting(c))' <= Cardinality(Waiting(c)) + 0
        BY <2>0, <3>1, CardBounds
      <4>6. Cardinality(Pending(c, r))' <= Cardinality(Pending(c, r)) + (-1)
        BY <2>0, <2>1, <4>2, <4>4, CardBounds
      <4>7. rows'[c][r] <= rows[c][r] + 1
        BY <1>2, <1>6, <2>0, <3>2
      <4> DEFINE d == 0
      <4>8. Margin' >= Margin + d
        BY <1>1, MarginType
      <4>9. d \in Int /\ (0 + (-1)) + 1 <= d
        OBVIOUS
      <4> HIDE DEF d
      <4>10. QED
        BY <1>1, <1>2, <4>5, <4>6, <4>7, <4>8, <4>9, SumStays
    <3>3. CASE r \notin landed
      <4>1. rows'[c][r] = rows[c][r]
        BY <1>2, <3>3
      <4>2. QED
        BY <1>1, <1>2, <2>1, <3>1, <4>1, DuesStay
    <3>4. QED
      BY <3>2, <3>3
  <2>4. QED
    BY <2>2, <2>3
<1>7. QED
  BY <1>5, <1>6

(* An acked message is not waited for; a refused ack leaves it as it was. *)
LEMMA AckKeepsDues ==
    ASSUME Inv, TypeInv', DupInv, NEW p \in Pod, Ack(p)
    PROVE  DupInv'
<1>1. /\ TypeInv /\ pc[p] = "ack" /\ Reset(p) /\ UNCHANGED <<holder, inFlight, rows>>
      /\ UNCHANGED <<faults, doomed>>
  BY DEF Ack, Inv, output
<1>2. /\ pc'[p] = "idle" /\ message'[p] = None /\ message[p] \in Message
      /\ \A q \in Pod \ {p} : Same(q)
  BY <1>1, ResetType, JobType DEF Same
<1>3. Margin' >= Margin
  BY <1>1, MarginMoves, MarginType
<1>4. \A m \in Message : /\ queue'[m] = queue[m] \/ (m = message[p] /\ queue'[m] = "acked")
                         /\ queue'[m] = "out" => m # message[p] \/ holder[m] # p
  BY <1>2 DEF Ack, Inv, TypeInv, QueueType
<1> SUFFICES ASSUME NEW c \in Chunk, NEW r \in Row PROVE Paid(c, r)'
  BY DEF DupInv
<1>5. Submitted(c) => Submitted(c)'
  BY <1>4, MessageParts DEF Submitted
<1>6. Waiting(c)' \subseteq Waiting(c)
  <2>1. ASSUME NEW m \in Message, Waits(m)' PROVE Waits(m)
    <3>1. CASE queue'[m] = "ready"
      BY <1>4, <3>1 DEF Waits
    <3>2. CASE queue'[m] = "out"
      <4>1. queue[m] = "out" /\ ~Working(m)'
        BY <1>4, <2>1, <3>2 DEF Waits
      <4>2. ~Working(m)
        <5>1. SUFFICES ASSUME NEW q \in Pod, holder[m] = q, message[q] = m PROVE FALSE
          BY DEF Working
        <5>2. q # p
          BY <1>4, <3>2, <5>1
        <5>3. holder'[m] = q /\ message'[q] = m
          BY <1>1, <1>2, <5>1, <5>2 DEF Same
        <5>4. QED
          BY <4>1, <5>3 DEF Working
      <4>3. QED
        BY <4>1, <4>2 DEF Waits
    <3>3. QED
      BY <2>1, <3>1, <3>2 DEF Waits
  <2>2. QED
    BY <2>1 DEF Waiting, Copies
<1>7. Pending(c, r)' \subseteq Pending(c, r)
  BY <1>2 DEF Pending, Works, Owes, Same
<1>8. QED
  BY <1>1, <1>3, <1>5, <1>6, <1>7, DuesStay

(* A message that waits becomes one that is worked on. *)
LEMMA ReceiveKeepsDues ==
    ASSUME Inv, TypeInv', DupInv, NEW p \in Pod, NEW m \in Message, Receive(p, m)
    PROVE  DupInv'
<1>1. /\ TypeInv /\ pc[p] = "idle" /\ queue[m] = "ready"
      /\ UNCHANGED <<faults, doomed, inFlight, rows>>
      /\ queue' = [queue EXCEPT ![m] = "out"]
      /\ holder' = [holder EXCEPT ![m] = p]
      /\ message' = [message EXCEPT ![p] = m]
      /\ pc' = [pc EXCEPT ![p] = "start"]
  BY DEF Receive, Goto, Inv, output
<1>2. /\ queue'[m] = "out" /\ holder'[m] = p /\ message'[p] = m
      /\ message[p] = None /\ None \notin Message
  BY <1>1, TrajectoryWorkerAssumption DEF TypeInv, QueueType, WorkType, Message
<1>3. \A n \in Message \ {m} : queue'[n] = queue[n] /\ holder'[n] = holder[n]
  BY <1>1 DEF TypeInv, QueueType
<1>4. \A q \in Pod \ {p} : Same(q)
  BY <1>1 DEF TypeInv, WorkType, StageType, Same
<1>5. Margin' >= Margin
  BY <1>1, MarginMoves, MarginType
<1> SUFFICES ASSUME NEW c \in Chunk, NEW r \in Row PROVE Paid(c, r)'
  BY DEF DupInv
<1>6. Submitted(c) => Submitted(c)'
  BY <1>2, <1>3, MessageParts DEF Submitted
<1>7. Waiting(c)' \subseteq Waiting(c) \ {m}
  <2>1. ASSUME NEW n \in Message \ {m}, Waits(n)' PROVE Waits(n)
    <3>1. Working(n)' <=> Working(n)
      BY <1>2, <1>3, <1>4 DEF Working, Same
    <3>2. QED
      BY <1>3, <2>1, <3>1 DEF Waits
  <2>2. ~Waits(m)'
    BY <1>2 DEF Waits, Working
  <2>3. QED
    BY <2>1, <2>2 DEF Waiting, Copies
<1>8. /\ IsFiniteSet(Waiting(c)) /\ IsFiniteSet(Pending(c, r))
      /\ Cardinality(Pending(c, r)) \in Nat /\ Cardinality(Waiting(c)) \in Nat
  BY <1>1, DueType
<1>9. CASE c = ChunkOf(m)
  <2>1. m \in Waiting(c)
    BY <1>1, <1>9 DEF Waiting, Waits, Copies
  <2>2. Cardinality(Waiting(c))' <= Cardinality(Waiting(c)) + (-1)
    <3>1. Cardinality(Waiting(c))' <= Cardinality(Waiting(c)) - 1
      BY <1>7, <1>8, <2>1, CardBounds
    <3>2. QED
      BY <1>8, <3>1
  <2>3. Pending(c, r)' \subseteq Pending(c, r) \cup {p}
    BY <1>4 DEF Pending, Works, Owes, Same
  <2>4. Cardinality(Pending(c, r))' <= Cardinality(Pending(c, r)) + 1
    BY <1>8, <2>3, CardBounds
  <2>5. QED
    BY <1>1, <1>5, <1>6, <2>2, <2>4, ChangeOver
<1>10. CASE c # ChunkOf(m)
  <2>1. Pending(c, r)' \subseteq Pending(c, r)
    BY <1>2, <1>4, <1>10 DEF Pending, Works, Owes, Same
  <2>2. QED
    BY <1>1, <1>5, <1>6, <1>7, <2>1, DuesStay
<1>11. QED
  BY <1>9, <1>10

(* A lease that ends was of a message that waited already; one that lapses   *)
(* while its pod works is an error.                                          *)
LEMMA LeaseKeepsDues ==
    ASSUME Inv, TypeInv', DupInv, NEW m \in Message, LeaseEnds(m) \/ LeaseLapses(m)
    PROVE  DupInv'
<1>1. /\ TypeInv /\ queue[m] = "out" /\ Redeliver(m)
      /\ UNCHANGED <<holder, pc, message, inFlight, rows, doomed>>
      /\ (UNCHANGED faults /\ ~Working(m)) \/ Error
  BY DEF LeaseEnds, LeaseLapses, work, output, Inv
<1>2. /\ \A n \in Message \ {m} : queue'[n] = queue[n]
      /\ queue'[m] # "none"
  BY <1>1 DEF Redeliver, TypeInv, QueueType
<1>3. Margin \in Int /\ Margin' \in Int /\ Margin' >= Margin
      /\ (Working(m) => Margin' >= Margin + 1)
  <2>1. Margin \in Int /\ Margin' \in Int
    BY <1>1, MarginType, CountByMarginNext
  <2>2. Margin' >= Margin /\ (Working(m) => Margin' > Margin)
    BY <1>1, <2>1, MarginMoves
  <2>3. QED
    BY <2>1, <2>2
<1> SUFFICES ASSUME NEW c \in Chunk, NEW r \in Row PROVE Paid(c, r)'
  BY DEF DupInv
<1>4. Submitted(c) => Submitted(c)'
  BY <1>2, MessageParts DEF Submitted
<1>5. Pending(c, r)' \subseteq Pending(c, r)
  BY <1>1 DEF Pending, Works, Owes
<1>6. \A n \in Message : Working(n)' <=> Working(n)
  BY <1>1 DEF Working
<1>7. CASE ~Working(m)
  <2>1. Waiting(c)' \subseteq Waiting(c)
    BY <1>1, <1>2, <1>6, <1>7 DEF Waiting, Waits, Copies
  <2>2. QED
    BY <1>1, <1>3, <1>4, <1>5, <2>1, DuesStay
<1>8. CASE Working(m)
  <2>1. Waiting(c)' \subseteq Waiting(c) \cup {m}
    BY <1>2, <1>6 DEF Waiting, Waits, Copies
  <2>2. /\ IsFiniteSet(Waiting(c)) /\ IsFiniteSet(Pending(c, r))
        /\ Cardinality(Pending(c, r)) \in Nat /\ Cardinality(Pending(c, r))' \in Nat
        /\ rows[c][r] \in Nat
    BY <1>1, DueType, DueTypeNext DEF TypeInv, OutputType
  <2>3. Cardinality(Waiting(c))' <= Cardinality(Waiting(c)) + 1
    BY <2>1, <2>2, CardBounds
  <2>4. Cardinality(Pending(c, r))' <= Cardinality(Pending(c, r)) + 0
    BY <1>5, <2>2, CardBounds
  <2>5. rows'[c][r] <= rows[c][r] + 0
    BY <1>1, <2>2
  <2>6. QED
    BY <1>1, <1>3, <1>4, <1>8, <2>3, <2>4, <2>5, SumStays
<1>9. QED
  BY <1>7, <1>8

(* The one result a chunk is owed is due from its submission. *)
LEMMA SubmitKeepsDues ==
    ASSUME Inv, TypeInv', DupInv, NEW d \in Chunk, Submit(d)
    PROVE  DupInv'
<1>1. /\ TypeInv /\ queue[<<d, 0>>] = "none"
      /\ queue' = [queue EXCEPT ![<<d, 0>>] = "ready"]
      /\ UNCHANGED <<holder, pc, message, inFlight, rows, doomed, faults>>
  BY DEF Submit, work, output, Inv
<1>2. /\ <<d, 0>> \in Message /\ queue'[<<d, 0>>] = "ready"
      /\ \A n \in Message \ {<<d, 0>>} : queue'[n] = queue[n]
  BY <1>1, MessageParts DEF TypeInv, QueueType
<1>3. Margin' = Margin /\ Margin \in Int
  BY <1>1, MarginMoves, MarginType
<1>4. \A n \in Message : Working(n)' <=> Working(n)
  BY <1>1 DEF Working
<1> SUFFICES ASSUME NEW c \in Chunk, NEW r \in Row PROVE Paid(c, r)'
  BY DEF DupInv
<1>5. Pending(c, r)' \subseteq Pending(c, r)
  BY <1>1 DEF Pending, Works, Owes
<1>6. /\ IsFiniteSet(Waiting(c)) /\ IsFiniteSet(Pending(c, r))
      /\ Cardinality(Pending(c, r)) \in Nat /\ Cardinality(Pending(c, r))' \in Nat
      /\ Cardinality(Waiting(c)) \in Nat /\ Cardinality(Waiting(c))' \in Nat
      /\ rows[c][r] \in Nat /\ rows'[c][r] = rows[c][r]
  BY <1>1, DueType, DueTypeNext DEF TypeInv, OutputType
<1>7. CASE c # d
  <2>1. Submitted(c) => Submitted(c)'
    BY <1>2, MessageParts DEF Submitted
  <2>2. Waiting(c)' \subseteq Waiting(c)
    BY <1>2, <1>4, <1>7, MessageParts DEF Waiting, Waits, Copies, ChunkOf
  <2>3. QED
    BY <1>1, <1>3, <1>5, <2>1, <2>2, DuesStay
<1>8. CASE c = d
  <2>1. ~Submitted(c) /\ Submitted(c)'
    BY <1>1, <1>2, <1>8 DEF Submitted
  <2>2. Waiting(c)' \subseteq Waiting(c) \cup {<<d, 0>>}
    BY <1>2, <1>4 DEF Waiting, Waits, Copies
  <2>3. Cardinality(Waiting(c))' <= Cardinality(Waiting(c)) + 1
    BY <1>6, <2>2, CardBounds
  <2>4. Cardinality(Pending(c, r))' <= Cardinality(Pending(c, r))
    BY <1>5, <1>6, CardBounds
  <2> DEFINE w == Cardinality(Waiting(c))
             n == Cardinality(Pending(c, r))
             s == IF Submitted(c) THEN 1 ELSE 0
  <2>5. rows[c][r] + (w + n) <= Margin + 0
    BY <2>1 DEF DupInv, Paid, Due
  <2>6. s' = 1
    BY <2>1
  <2>7. Due(c, r)' = w' + n'
    BY DEF Due
  <2>8. w \in Nat /\ w' \in Nat /\ n \in Nat /\ n' \in Nat /\ w' <= w + 1 /\ n' <= n
    BY <1>6, <2>3, <2>4
  <2> HIDE DEF w, n, s
  <2>9. rows'[c][r] + (w' + n') <= Margin' + s'
    BY <1>3, <1>6, <2>5, <2>6, <2>8
  <2>10. QED
    BY <2>7, <2>9 DEF Paid, s
<1>9. QED
  BY <1>7, <1>8

LEMMA PodStepKeepsDues ==
    ASSUME Inv, TypeInv', DupInv, NEW p \in Pod, PodStep(p)
    PROVE  DupInv'
<1>0. TypeInv
  BY DEF Inv
<1>1. CASE DecodeFails(p) \/ OutOfMemory(p)
  <2>1. pc[p] \in {"start", "run"} /\ Exit(p) /\ UNCHANGED faults
    BY <1>1 DEF DecodeFails, OutOfMemory
  <2>2. Margin' >= Margin
    BY <1>0, <2>1, MarginMoves DEF Exit
  <2>3. QED
    BY <2>1, <2>2, ExitKeepsDues
<1>2. CASE RunRaises(p)
  <2>1. /\ pc[p] = "run" /\ Reset(p)
        /\ UNCHANGED <<queue, holder, rows, inFlight, doomed, faults>>
    BY <1>2 DEF RunRaises, Nack, subscription, output
  <2>2. /\ pc'[p] = "idle" /\ message'[p] = None
        /\ \A q \in Pod \ {p} : Same(q)
    BY <1>0, <2>1, ResetType DEF Same
  <2>3. Margin' >= Margin
    BY <1>0, <2>1, MarginMoves, MarginType
  <2>4. QED
    BY <1>0, <2>1, <2>2, <2>3, LettingGoKeepsDues
<1>3. CASE Ack(p)
  BY <1>3, AckKeepsDues
<1>4. ASSUME NEW stage, Goto(p, stage), pc[p] # "idle",
             UNCHANGED <<subscription, work, rows, doomed, faults>>,
             inFlight' = [inFlight EXCEPT ![p] = inFlight'[p]],
             \A r \in Row :
                \/ stage \in {"start", "run"}
                \/ stage = "forward" /\ "forward" \in inFlight'[p]
                \/ stage = "summary" /\ r # "summary"
                \/ r \in inFlight'[p]
                => Owes(p, r)
      PROVE  DupInv'
  <2>1. pc'[p] = stage /\ (\A q \in Pod \ {p} : pc'[q] = pc[q])
    BY <1>0, <1>4 DEF Goto, TypeInv, StageType
  <2>2. \A q \in Pod \ {p} : Same(q)
    BY <1>0, <1>4, <2>1 DEF TypeInv, FlightType, work, Same
  <2>3. \A r \in Row : Owes(p, r)' => Owes(p, r)
    BY <1>4, <2>1 DEF Owes
  <2>4. Margin' >= Margin
    BY <1>0, <1>4, MarginMoves, MarginType
  <2>5. QED
    BY <1>0, <1>4, <2>2, <2>3, <2>4, GoingOnKeepsDues DEF subscription, work
<1>5. inFlight \in [Pod -> SUBSET (Row \cup {"forward"})]
  BY <1>0 DEF TypeInv, FlightType
<1>6. /\ pc[p] \in {"start", "run", "ack"} => inFlight[p] = {}
      /\ "forward" \notin Row
  BY <1>0, ForwardAlone DEF TypeInv, FlightType
<1>7. CASE Forward(p)
  BY <1>4, <1>5, <1>6, <1>7 DEF Forward, Owes, output
<1>8. CASE Skip(p)
  BY <1>4, <1>5, <1>6, <1>8 DEF Skip, Owes, output
<1>9. CASE StartRun(p)
  BY <1>4, <1>5, <1>6, <1>9 DEF StartRun, Owes, output
<1>10. CASE RunSkips(p)
  BY <1>4, <1>5, <1>6, <1>10 DEF RunSkips, Owes, output
<1>11. CASE RunSucceeds(p)
  BY <1>4, <1>5, <1>6, <1>11 DEF RunSucceeds, Owes, output
<1>12. CASE ForwardDone(p)
  BY <1>4, <1>5, <1>12 DEF ForwardDone, Owes, output
<1>13. CASE SummaryDone(p)
  <2>1. "summary" \notin Segment
    BY TrajectoryWorkerAssumption
  <2>2. CASE Kind[Job(p)] = "export"
    <3>1. inFlight'[p] = Segment
      BY <1>5, <1>13, <2>2 DEF SummaryDone
    <3>2. QED
      BY <1>4, <1>5, <1>13, <2>1, <2>2, <3>1 DEF SummaryDone, Owes, output
  <2>3. CASE Kind[Job(p)] # "export"
    BY <1>4, <1>5, <1>13, <2>3 DEF SummaryDone, Owes, output
  <2>4. QED
    BY <2>2, <2>3
<1>14. CASE Upload(p)
  BY <1>4, <1>5, <1>14 DEF Upload, Owes
<1>15. CASE FlushDone(p)
  BY <1>4, <1>5, <1>15 DEF FlushDone, Owes, output
<1>16. QED
  BY <1>1, <1>2, <1>3, <1>7, <1>8, <1>9, <1>10, <1>11, <1>12, <1>13, <1>14, <1>15 DEF PodStep

(* What moves nothing but the failures can only raise the margin. *)
LEMMA NothingMovesDues ==
    ASSUME TypeInv, TypeInv', DupInv, Margin' >= Margin,
           UNCHANGED <<queue, holder, pc, message, inFlight, rows>>
    PROVE  DupInv'
<1> SUFFICES ASSUME NEW c \in Chunk, NEW r \in Row PROVE Paid(c, r)'
  BY DEF DupInv
<1>1. Submitted(c) => Submitted(c)'
  BY DEF Submitted
<1>2. Waiting(c)' \subseteq Waiting(c)
  BY DEF Waiting, Waits, Working, Copies
<1>3. Pending(c, r)' \subseteq Pending(c, r)
  BY DEF Pending, Works, Owes
<1>4. QED
  BY <1>1, <1>2, <1>3, DuesStay

LEMMA DupInit == Init => DupInv
<1> SUFFICES ASSUME Init, NEW c \in Chunk, NEW r \in Row PROVE Paid(c, r)
  BY DEF DupInv
<1>1. Waiting(c) = {} /\ Pending(c, r) = {} /\ Doomed = {}
  BY DEF Init, Waiting, Waits, Copies, Pending, Works, Doomed
<1>2. Cardinality({}) = 0
  BY FS_EmptySet
<1>3. Margin = 0 /\ Due(c, r) = 0
  <2>1. crashes + errors = 0 /\ Cardinality(Doomed) = 0
    BY <1>1, <1>2 DEF Init
  <2>2. Cardinality(Waiting(c)) = 0 /\ Cardinality(Pending(c, r)) = 0
    BY <1>1, <1>2
  <2>3. QED
    BY <2>1, <2>2 DEF Margin, Due
<1>4. rows[c][r] = 0 /\ ~Submitted(c)
  BY MessageParts DEF Init, Submitted
<1>5. QED
  BY <1>3, <1>4 DEF Paid

LEMMA DupStep == Inv /\ Inv' /\ DupInv /\ [Next]_vars => DupInv'
<1> SUFFICES ASSUME Inv, TypeInv', DupInv, [Next]_vars PROVE DupInv'
  BY DEF Inv
<1>0. TypeInv /\ Margin \in Int /\ Margin' \in Int
  BY MarginType, CountByMarginNext DEF Inv
<1>1. CASE \E c \in Chunk : Submit(c)
  BY <1>1, SubmitKeepsDues
<1>2. CASE \E m \in Message : LeaseEnds(m) \/ LeaseLapses(m)
  BY <1>2, LeaseKeepsDues
<1>3. CASE \E p \in Pod, m \in Message : Receive(p, m)
  BY <1>3, ReceiveKeepsDues
<1>4. CASE \E p \in Pod : PodStep(p)
  BY <1>4, PodStepKeepsDues
<1>5. ASSUME NEW p \in Pod, NEW x \in inFlight[p], FutureSucceeds(p, x) \/ FutureFails(p, x)
      PROVE  DupInv'
  <2>1. PICK landed \in SUBSET {x} : Accept(p, landed)
    BY <1>5 DEF FutureSucceeds, FutureFails
  <2>2. /\ UNCHANGED <<holder, deliveries, pc, message>>
        /\ inFlight' = [inFlight EXCEPT ![p] = @ \ {x}]
        /\ \/ UNCHANGED <<doomed, faults>>
           \/ Error /\ doomed' = [doomed EXCEPT ![p] = TRUE]
    BY <1>5 DEF FutureSucceeds, FutureFails, work
  <2>3. Margin' >= Margin
    BY <1>0, <2>2, MarginMoves
  <2>4. QED
    BY <2>1, <2>2, <2>3, FutureKeepsDues
<1>6. ASSUME NEW p \in Pod, CallbackExits(p) \/ PodDies(p)
      PROVE  DupInv'
  <2>1. /\ pc[p] # "idle" /\ Exit(p) /\ doomed' = [doomed EXCEPT ![p] = FALSE]
        /\ Crash \/ (UNCHANGED faults /\ doomed[p])
    BY <1>6 DEF CallbackExits, PodDies, Exit
  <2>2. Margin' > Margin
    BY <1>0, <2>1, MarginMoves
  <2>3. Margin' >= Margin /\ Margin' >= Margin + 1
    BY <1>0, <2>2
  <2>4. QED
    BY <2>1, <2>3, ExitKeepsDues
<1>7. ASSUME NEW p \in Pod, CallbackExitsIdle(p) PROVE DupInv'
  <2>1. /\ UNCHANGED <<queue, holder, pc, message, inFlight, rows, faults>>
        /\ doomed' = [doomed EXCEPT ![p] = FALSE]
    BY <1>7 DEF CallbackExitsIdle, subscription, work, output
  <2>2. Margin' >= Margin
    BY <1>0, <2>1, MarginMoves
  <2>3. QED
    BY <1>0, <2>1, <2>2, NothingMovesDues
<1>8. ASSUME NEW p \in Pod, RunFails(p) \/ AckFails(p) PROVE DupInv'
  <2>1. /\ pc[p] # "idle" /\ Reset(p) /\ Error
        /\ UNCHANGED <<queue, holder, rows, inFlight, doomed>>
    BY <1>8 DEF RunFails, AckFails, Nack, subscription, output
  <2>2. /\ pc'[p] = "idle" /\ message'[p] = None
        /\ \A q \in Pod \ {p} : Same(q)
    BY <1>0, <2>1, ResetType DEF Same
  <2>3. Margin' > Margin
    BY <1>0, <2>1, MarginMoves
  <2>4. Margin' >= Margin /\ Margin' >= Margin + 1
    BY <1>0, <2>3
  <2>5. QED
    BY <1>0, <2>1, <2>2, <2>4, LettingGoKeepsDues
<1>9. CASE UNCHANGED vars
  <2>1. UNCHANGED <<queue, holder, pc, message, inFlight, rows, faults, doomed>>
    BY <1>9 DEF vars, faults
  <2>2. Margin' >= Margin
    BY <1>0, <2>1, MarginMoves
  <2>3. QED
    BY <1>0, <2>1, <2>2, NothingMovesDues
<1>10. QED
  BY <1>1, <1>2, <1>3, <1>4, <1>5, <1>6, <1>7, <1>8, <1>9 DEF Next, CallbackStep, FutureStep

(* The count of dues holds throughout. *)
THEOREM DuplicateInvariance == Spec => []DupInv
<1>1. Init => Inv /\ DupInv
  BY InvInit, DupInit
<1>2. QED
  BY <1>1, Invariance, DupStep, PTL DEF Spec

(* However copies of a chunk multiply, none of its rows is accepted more     *)
(* often than once and once more for each crash and each error.              *)
THEOREM DuplicatesArePaid == Spec => []DuplicatesNeedFailures
<1>1. ASSUME TypeInv, DupInv, NEW c \in Chunk, NEW r \in Row
      PROVE  rows[c][r] <= (1 + crashes) + errors
  <2> DEFINE k == crashes + errors
             n == Cardinality(Doomed)
             s == IF Submitted(c) THEN 1 ELSE 0
  <2>1. k \in Nat /\ n \in Nat /\ Margin = k - n
    BY <1>1, MarginType DEF Margin
  <2>2. rows[c][r] \in Nat /\ Due(c, r) \in Nat /\ crashes \in Nat /\ errors \in Nat
    BY <1>1, DueType, TrajectoryWorkerAssumption DEF TypeInv, OutputType, FaultType, Due
  <2>3. rows[c][r] + Due(c, r) <= Margin + s
    BY <1>1 DEF DupInv, Paid
  <2>4. s <= 1 /\ s \in Nat
    OBVIOUS
  <2> HIDE DEF k, n, s
  <2>5. rows[c][r] <= k + 1
    BY <2>1, <2>2, <2>3, <2>4
  <2>6. QED
    BY <2>2, <2>5 DEF k
<1>2. TypeInv /\ DupInv => DuplicatesNeedFailures
  BY <1>1 DEF DuplicatesNeedFailures
<1>3. Inv => TypeInv
  BY DEF Inv
<1>4. QED
  BY <1>2, <1>3, Invariance, DuplicateInvariance, PTL
===============================================================================
