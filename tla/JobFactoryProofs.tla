---------------------------- MODULE JobFactoryProofs ----------------------------
(***************************************************************************)
(* What holds of the job factory for any number of pods and messages, any   *)
(* flights, and any number of deaths, errors and redeliveries.              *)
(***************************************************************************)
EXTENDS JobFactory, FiniteSetTheorems, TLAPS

(* A message with a marker has its key among the keys of Redis. *)
LEMMA KeyOfCached == \A t \in Twjd : Cached(t) => CacheKey(t) \in Keys
  BY DEF Cached, Keys

(* A message's flights are the naturals from 1 to their number. *)
LEMMA FlightsType ==
    \A t \in Twjd : Len(Verdicts[t]) \in Nat /\ Flights(t) \subseteq Nat \ {0}
<1>1. \A t \in Twjd : Verdicts[t] \in Seq(Verdict)
  BY JobFactoryAssumption
<1>2. QED
  BY <1>1 DEF Flights

-------------------------------------------------------------------------------
(* Type correctness.  A message is ready only with a delivery left.         *)
DeliveryInv ==
    \A t \in Twjd :
        /\ queue[t] = "unsent" => deliveries[t] = 0
        /\ queue[t] = "ready" => deliveries[t] < MaxDeliveries

TypeInv == TypeOK /\ DeliveryInv

(* The types hold at first. *)
LEMMA TypeInit == Init => TypeInv
  BY JobFactoryAssumption DEF Init, TypeInv, TypeOK, DeliveryInv, Stages

(* The two ways in which a process ends keep the types of what they write.  *)
LEMMA ResetType ==
    ASSUME TypeOK, NEW p \in Pod, Reset(p)
    PROVE  /\ pc' \in [Pod -> Stages]
           /\ job' \in [Pod -> Twjd \cup {None}]
           /\ \A q \in Pod : pc'[q] # "idle" => job'[q] \in Twjd
           /\ counter' \in [Pod -> Nat] /\ marker' \in [Pod -> Nat]
  BY DEF TypeOK, Reset, Goto, Stages

(* Adding a flight to a history keeps its type. *)
LEMMA AddType ==
    ASSUME NEW f \in [Twjd -> SUBSET Nat], NEW t \in Twjd, NEW i \in Nat
    PROVE  Add(f, t, i) \in [Twjd -> SUBSET Nat]
  BY DEF Add

(* Accepting a flight keeps the types of the histories. *)
LEMMA HistoryType ==
    ASSUME TypeOK, NEW p \in Pod, pc[p] # "idle"
    PROVE  /\ Accepted(p) => {sent', resent'} \subseteq [Twjd -> SUBSET Nat]
           /\ Add(cut, job[p], counter[p]) \in [Twjd -> SUBSET Nat]
<1>1. job[p] \in Twjd /\ counter[p] \in Nat
  BY DEF TypeOK
<1>2. /\ Add(sent, job[p], counter[p]) \in [Twjd -> SUBSET Nat]
      /\ Add(resent, job[p], counter[p]) \in [Twjd -> SUBSET Nat]
      /\ Add(cut, job[p], counter[p]) \in [Twjd -> SUBSET Nat]
  BY <1>1, AddType DEF TypeOK
<1>3. QED
  BY <1>2 DEF Accepted, TypeOK

(* The end of a process keeps the types of what it touches. *)
LEMMA ExitType ==
    ASSUME TypeOK, NEW p \in Pod, Exit(p)
    PROVE  {sent', resent', cut', worked', skipped'} \subseteq [Twjd -> SUBSET Nat]
<1>1. CASE pc[p] = "idle"
  BY <1>1 DEF Exit, topic, walk, TypeOK
<1>2. CASE pc[p] # "idle"
  BY <1>2, HistoryType DEF Exit, topic, walk, TypeOK
<1>3. QED
  BY <1>1, <1>2

(* A process that ends, whatever ends it. *)
LEMMA ExitKeepsTypes ==
    ASSUME TypeInv, NEW p \in Pod, Exit(p), UNCHANGED <<subscription, redis>>,
           crashes' \in 0 .. MaxCrashes, UNCHANGED <<errors, refused>>
    PROVE  TypeInv'
<1>1. TypeOK /\ DeliveryInv
  BY DEF TypeInv
<1>2. DeliveryInv'
  BY <1>1 DEF DeliveryInv, subscription
<1>3. {sent', resent', cut', worked', skipped'} \subseteq [Twjd -> SUBSET Nat]
  BY <1>1, ExitType
<1>4. Reset(p) /\ doomed' = [doomed EXCEPT ![p] = FALSE] /\ relapsed' = relapsed
  BY DEF Exit
<1>5. QED
  BY <1>1, <1>2, <1>3, <1>4, ResetType DEF TypeInv, TypeOK, subscription

(* The end of a lease keeps the types. *)
LEMMA LeaseEndsKeepsTypes ==
    ASSUME TypeInv, NEW t \in Twjd, LeaseEnds(t)
    PROVE  TypeInv'
<1>1. /\ queue' \in [Twjd -> {"unsent", "ready", "out", "acked", "dead"}]
      /\ DeliveryInv'
  <2>1. deliveries[t] \in 0 .. MaxDeliveries /\ MaxDeliveries \in Nat
    BY JobFactoryAssumption DEF TypeInv, TypeOK
  <2>2. QED
    BY <2>1 DEF LeaseEnds, TypeInv, TypeOK, DeliveryInv
<1>2. /\ relapsed' \subseteq Twjd /\ crashes' = crashes
      /\ errors' \in 0 .. MaxErrors /\ refused' \in 0 .. errors'
  BY JobFactoryAssumption DEF LeaseEnds, Error, faults, TypeInv, TypeOK
<1>3. QED
  BY <1>1, <1>2 DEF LeaseEnds, TypeInv, TypeOK, loop, topic, walk

(* So does a delivery, and no message gets one too many. *)
LEMMA ReceiveKeepsTypes ==
    ASSUME TypeInv, NEW p \in Pod, NEW t \in Twjd, Receive(p, t)
    PROVE  TypeInv'
<1>1. deliveries' \in [Twjd -> 0 .. MaxDeliveries] /\ DeliveryInv'
  <2>1. deliveries[t] \in 0 .. MaxDeliveries /\ deliveries[t] < MaxDeliveries
    BY DEF Receive, TypeInv, TypeOK, DeliveryInv
  <2>2. QED
    BY <2>1, JobFactoryAssumption DEF Receive, TypeInv, TypeOK, DeliveryInv
<1>2. /\ pc' \in [Pod -> Stages] /\ job' \in [Pod -> Twjd \cup {None}]
      /\ \A q \in Pod : pc'[q] # "idle" => job'[q] \in Twjd
  BY DEF Receive, TypeInv, TypeOK, Goto, Stages
<1>3. QED
  BY <1>1, <1>2 DEF Receive, TypeInv, TypeOK, faults, outcome, topic, walk

(* So does an ack. *)
LEMMA AckKeepsTypes ==
    ASSUME TypeInv, NEW p \in Pod, Ack(p)
    PROVE  TypeInv'
<1>1. job[p] \in Twjd
  BY DEF Ack, TypeInv, TypeOK
<1>2. queue' \in {queue, [queue EXCEPT ![job[p]] = "acked"]}
  BY DEF Ack
<1>3. /\ queue' \in [Twjd -> {"unsent", "ready", "out", "acked", "dead"}]
      /\ DeliveryInv'
  BY <1>1, <1>2 DEF Ack, TypeInv, TypeOK, DeliveryInv
<1>4. QED
  BY <1>3, ResetType DEF Ack, TypeInv, TypeOK, faults, outcome, topic, walk

(* An error leaves its count within its bound. *)
LEMMA FaultTypes ==
    TypeOK => /\ Error \/ Refusal =>
                   /\ errors' \in 0 .. MaxErrors /\ crashes' = crashes
                   /\ refused' \in 0 .. errors'
              /\ Crash => /\ crashes' \in 0 .. MaxCrashes /\ errors' = errors
                          /\ refused' = refused
  BY JobFactoryAssumption DEF TypeOK, Error, Refusal, Crash

(* Every step keeps the types: one case per action. *)
LEMMA TypeStep == TypeInv /\ [Next]_vars => TypeInv'
<1> SUFFICES ASSUME TypeInv, [Next]_vars PROVE TypeInv'
  OBVIOUS
<1> USE JobFactoryAssumption
<1>0. TypeOK /\ DeliveryInv /\ (subscription' = subscription => DeliveryInv')
  BY DEF TypeInv, DeliveryInv, subscription
<1>1. ASSUME NEW t \in Twjd, Submit(t) PROVE TypeInv'
  <2>1. MaxDeliveries \in Nat /\ 0 < MaxDeliveries
    OBVIOUS
  <2>2. DeliveryInv'
    BY <1>0, <1>1, <2>1 DEF Submit, TypeOK, DeliveryInv
  <2>3. QED
    BY <1>0, <1>1, <2>2 DEF Submit, TypeInv, TypeOK, loop, faults, outcome, topic, walk
<1>2. ASSUME NEW t \in Twjd, LeaseEnds(t) PROVE TypeInv'
  BY <1>2, LeaseEndsKeepsTypes
<1>3. ASSUME NEW k \in Keys, MarkerExpires(k) PROVE TypeInv'
  <2>1. relapsed' \subseteq Twjd /\ redis' \in [Keys -> Nat]
    BY <1>0, <1>3 DEF MarkerExpires, WithKey, TypeOK
  <2>2. QED
    BY <1>0, <1>3, <2>1 DEF MarkerExpires, TypeInv, TypeOK, subscription, loop,
      faults, topic, walk
<1>4. ASSUME NEW p \in Pod, NEW t \in Twjd, Receive(p, t) PROVE TypeInv'
  BY <1>4, ReceiveKeepsTypes
<1>5. ASSUME NEW p \in Pod, PodStep(p) PROVE TypeInv'
  <2>1. CASE DecodeFails(p)
    BY <1>0, <2>1, ExitKeepsTypes DEF DecodeFails, faults, TypeOK, subscription
  <2>2. CASE Reject(p)
    BY <1>0, <2>2 DEF Reject, Goto, Stages, TypeInv, TypeOK, subscription, loop,
      faults, outcome, topic, walk
  <2>3. CASE Begin(p)
    <3>1. job[p] \in Twjd
      BY <1>0, <2>3 DEF Begin, TypeOK
    <3>2. marker' \in [Pod -> Nat]
      BY <1>0, <2>3, <3>1, KeyOfCached DEF Begin, TypeOK
    <3>3. QED
      BY <1>0, <2>3, <3>2 DEF Begin, Goto, Stages, TypeInv, TypeOK,
        subscription, faults, outcome, topic, walk
  <2>4. CASE NextFlight(p)
    <3>1. /\ pc[p] = "loop" /\ job[p] \in Twjd /\ counter[p] \in Nat
          /\ pc' \in [Pod -> Stages]
      BY <1>0, <2>4 DEF NextFlight, HasNext, Goto, Stages, TypeOK
    <3>2. counter' \in [Pod -> Nat]
      BY <1>0, <2>4, <3>1 DEF NextFlight, TypeOK
    <3>3. \A q \in Pod : pc'[q] # "idle" => job'[q] \in Twjd
      BY <1>0, <2>4, <3>1 DEF NextFlight, Goto, TypeOK
    <3>4. {worked', skipped'} \subseteq [Twjd -> SUBSET Nat]
      <4>1. counter[p] + 1 \in Nat
        BY <3>1
      <4>2. /\ Add(worked, job[p], counter[p] + 1) \in [Twjd -> SUBSET Nat]
            /\ Add(skipped, job[p], counter[p] + 1) \in [Twjd -> SUBSET Nat]
        BY <1>0, <3>1, <4>1, AddType DEF TypeOK
      <4>3. QED
        BY <1>0, <2>4, <4>2 DEF NextFlight, TypeOK
    <3>5. QED
      BY <1>0, <2>4, <3>1, <3>2, <3>3, <3>4 DEF NextFlight, TypeInv, TypeOK,
        subscription, faults, topic
  <2>5. CASE FlightRaises(p)
    BY <1>0, <2>5, ResetType DEF FlightRaises, TypeInv, TypeOK, subscription,
      faults, outcome, topic, walk
  <2>6. CASE PushMarker(p)
    <3>1. redis' \in [Keys -> Nat]
      BY <1>0, <2>6 DEF PushMarker, TypeOK
    <3>2. QED
      BY <1>0, <2>6, <3>1 DEF PushMarker, Goto, Stages, TypeInv, TypeOK,
        subscription, loop, faults, outcome, topic, walk
  <2>7. CASE PublishAsync(p)
    BY <1>0, <2>7 DEF PublishAsync, Goto, Stages, TypeInv, TypeOK, subscription,
      loop, faults, outcome, topic, walk
  <2>8. CASE FutureSucceeds(p)
    <3>1. pc[p] # "idle"
      BY <2>8 DEF FutureSucceeds
    <3>2. {sent', resent'} \subseteq [Twjd -> SUBSET Nat]
      BY <1>0, <2>8, <3>1, HistoryType DEF FutureSucceeds
    <3>3. QED
      BY <1>0, <2>8, <3>2 DEF FutureSucceeds, Goto, Stages, TypeInv, TypeOK,
        subscription, loop, faults, walk
  <2>9. CASE CallbackExits(p)
    BY <1>0, <2>9, ExitKeepsTypes DEF CallbackExits, faults, TypeOK,
      subscription
  <2>10. CASE EndOfLoop(p)
    BY <1>0, <2>10 DEF EndOfLoop, Goto, Stages, TypeInv, TypeOK, subscription,
      loop, faults, outcome, topic, walk
  <2>11. CASE PopMarker(p)
    <3>1. redis' \in [Keys -> Nat] /\ relapsed' \subseteq Twjd
      BY <1>0, <2>11 DEF PopMarker, RemoveMarker, WithKey, TypeOK
    <3>2. QED
      BY <1>0, <2>11, <3>1 DEF PopMarker, Goto, Stages, TypeInv, TypeOK,
        subscription, loop, faults, topic, walk
  <2>12. CASE Ack(p)
    BY <2>12, AckKeepsTypes
  <2>13. QED
    BY <1>5, <2>1, <2>2, <2>3, <2>4, <2>5, <2>6, <2>7, <2>8, <2>9, <2>10, <2>11,
      <2>12 DEF PodStep
<1>6. ASSUME NEW p \in Pod, PodError(p) PROVE TypeInv'
  <2>0. Error \/ Refusal =>
          /\ errors' \in 0 .. MaxErrors /\ crashes' = crashes
          /\ refused' \in 0 .. errors'
    BY <1>0, FaultTypes
  <2>1. CASE BeginFails(p)
    BY <1>0, <2>0, <2>1, ResetType DEF BeginFails, TypeInv, TypeOK,
      subscription, outcome, topic, walk
  <2>2. CASE PushFails(p)
    <3>1. job[p] \in Twjd /\ counter[p] \in Nat
      BY <1>0, <2>2 DEF PushFails, TypeOK
    <3>2. redis' \in [Keys -> Nat] /\ cut' \in [Twjd -> SUBSET Nat]
      BY <1>0, <2>2, <3>1, AddType DEF PushFails, TypeOK
    <3>3. QED
      BY <1>0, <2>0, <2>2, <3>2 DEF PushFails, Goto, Stages, TypeInv, TypeOK,
        subscription, loop, topic, walk
  <2>6. CASE PublishFails(p)
    <3>1. job[p] \in Twjd /\ counter[p] \in Nat
      BY <1>0, <2>6 DEF PublishFails, TypeOK
    <3>2. cut' \in [Twjd -> SUBSET Nat]
      BY <1>0, <2>6, <3>1, AddType DEF PublishFails, TypeOK
    <3>3. QED
      BY <1>0, <2>0, <2>6, <3>2 DEF PublishFails, Goto, Stages, TypeInv, TypeOK,
        subscription, loop, topic, walk
  <2>3. CASE FutureFails(p)
    <3>1. pc[p] # "idle"
      BY <2>3 DEF FutureFails
    <3>2. {sent', resent'} \subseteq [Twjd -> SUBSET Nat]
      <4>1. CASE Accepted(p)
        BY <1>0, <3>1, <4>1, HistoryType
      <4>2. CASE UNCHANGED topic
        BY <1>0, <4>2 DEF topic, TypeOK
      <4>3. QED
        BY <2>3, <4>1, <4>2 DEF FutureFails
    <3>3. cut' \in [Twjd -> SUBSET Nat]
      BY <1>0, <2>3, <3>1, HistoryType DEF FutureFails
    <3>4. /\ doomed' = [doomed EXCEPT ![p] = TRUE]
          /\ pc' = [pc EXCEPT ![p] = "loop"]
          /\ UNCHANGED <<queue, holder, deliveries, redis, job, counter, marker, worked,
                         skipped, relapsed>>
      BY <2>3 DEF FutureFails, Goto, subscription, loop, walk
    <3>5. job[p] \in Twjd
      BY <1>0, <3>1 DEF TypeOK
    <3>6. /\ pc' \in [Pod -> Stages] /\ doomed' \in [Pod -> BOOLEAN]
          /\ \A q \in Pod : pc'[q] # "idle" => job'[q] \in Twjd
      BY <1>0, <3>4, <3>5 DEF TypeOK, Stages
    <3>7. errors' \in 0 .. MaxErrors /\ crashes' = crashes /\ refused' \in 0 .. errors'
      BY <2>0, <2>3 DEF FutureFails
    <3>8. DeliveryInv'
      BY <1>0, <3>4 DEF DeliveryInv
    <3>9. TypeOK'
      BY <1>0, <3>2, <3>3, <3>4, <3>6, <3>7 DEF TypeOK
    <3>10. QED
      BY <3>8, <3>9 DEF TypeInv
  <2>4. CASE PopFails(p)
    <3>1. redis' \in [Keys -> Nat] /\ relapsed' \subseteq Twjd
      <4>1. CASE RemoveMarker(p)
        <5>1. redis' \in [Keys -> Nat]
          BY <1>0, <4>1 DEF RemoveMarker, TypeOK
        <5>2. WithKey(CacheKey(job[p])) \subseteq Twjd
          BY DEF WithKey
        <5>3. QED
          BY <1>0, <4>1, <5>1, <5>2 DEF RemoveMarker, TypeOK
      <4>2. CASE UNCHANGED <<redis, relapsed>>
        BY <1>0, <4>2 DEF TypeOK
      <4>3. QED
        BY <2>4, <4>1, <4>2 DEF PopFails
    <3>2. /\ Reset(p) /\ UNCHANGED <<queue, holder, deliveries, doomed, sent, resent, cut,
                                     worked, skipped>>
          /\ errors' \in 0 .. MaxErrors /\ crashes' = crashes /\ refused' \in 0 .. errors'
      BY <2>0, <2>4 DEF PopFails, subscription, topic, walk
    <3>3. DeliveryInv'
      BY <1>0, <3>2 DEF DeliveryInv
    <3>4. TypeOK'
      BY <1>0, <3>1, <3>2, ResetType DEF TypeOK
    <3>5. QED
      BY <3>3, <3>4 DEF TypeInv
  <2>5. QED
    BY <1>6, <2>1, <2>2, <2>3, <2>4, <2>6 DEF PodError
<1>7. ASSUME NEW p \in Pod, PodDies(p) PROVE TypeInv'
  BY <1>0, <1>7, FaultTypes, ExitKeepsTypes DEF PodDies, subscription
<1>8. CASE UNCHANGED vars
  BY <1>0, <1>8 DEF vars, TypeInv, TypeOK, subscription
<1>9. QED
  BY <1>1, <1>2, <1>3, <1>4, <1>5, <1>6, <1>7, <1>8 DEF Next

(* The model's variables keep their types; no message is delivered more     *)
(* often than the subscription allows.                                      *)
THEOREM TypeCorrect == Spec => []TypeOK
<1>1. TypeInv => TypeOK
  BY DEF TypeInv
<1>2. QED
  BY <1>1, TypeInit, TypeStep, PTL DEF Spec

-------------------------------------------------------------------------------
(* What becomes of a flight.  Firm: the account is settled for good.  Owned:  *)
(* or else a pod that has the flight in hand behind a moved marker is         *)
(* answerable for it.  Shared: every pod that works on a message with the     *)
(* same marker may rely on it.  Done: a run of the message itself has taken   *)
(* the flight in hand, or relied on a fellow for it.                          *)
Firm(t, i) ==
    \/ Settled(t, i)
    \/ Verdicts[t][i] = "unbuildable"
    \/ Verdicts[t][i] = "good" /\ DryRun(t)
    \/ i \in cut[t]

Owned(t, i) ==
    i \in worked[t] /\ (Firm(t, i) \/ (Cached(t) /\ InHand(t, i)))

Shared(t, i) == \E u \in Fellows(t) : i \in Flights(u) /\ Owned(u, i)

Done(t, i) ==
    Owned(t, i)
    \/ (i \in skipped[t] /\ \E u \in Fellows(t) \ {t} : i \in Flights(u) /\ Owned(u, i))

Publishing == {"publish", "wait"}

(* The flights a pod has gone past; the one in hand is not among them. *)
Passed(p) ==
    {i \in Flights(job[p]) :
        i < counter[p] \/ (i = counter[p] /\ pc[p] \notin Publishing \cup {"push"})}

PodInv(p) ==
    pc[p] # "idle" =>
        /\ pc[p] \in {"loop", "push", "pop"} \cup Publishing => Processed(job[p])
        /\ pc[p] \in {"push"} \cup Publishing =>
              /\ counter[p] \in Flights(job[p])
              /\ Verdicts[job[p]][counter[p]] = "good"
              /\ counter[p] \in worked[job[p]]
        /\ pc[p] = "push" => Cached(job[p])
        /\ pc[p] \in {"pop", "ack"} /\ Processed(job[p]) =>
              counter[p] >= Len(Verdicts[job[p]])
        /\ \A i \in Passed(p) : Done(job[p], i)
        /\ \A i \in Flights(job[p]) : i <= marker[p] => Shared(job[p], i)

(* A pod begins a message at its first flight. *)
StartInv ==
    \A p \in Pod : pc[p] \in {"idle", "start"} => counter[p] = 0 /\ marker[p] = 0

(* Everything at or before a progress marker is accounted for. *)
MarkerInv ==
    \A t \in Twjd :
        Cached(t) =>
            \A i \in Flights(t) : i <= redis[CacheKey(t)] => Shared(t, i)

AckedInv ==
    \A t \in Twjd :
        queue[t] = "acked" /\ Processed(t) =>
            \A i \in Flights(t) : Done(t, i)

Inv ==
    /\ TypeInv /\ StartInv
    /\ \A p \in Pod : PodInv(p)
    /\ MarkerInv /\ AckedInv

(* The invariant holds at first: no pod works, no marker is set. *)
LEMMA InvInit == Init => Inv
<1> SUFFICES ASSUME Init PROVE Inv
  OBVIOUS
<1>1. TypeInv
  BY TypeInit
<1>2. StartInv /\ (\A p \in Pod : PodInv(p)) /\ AckedInv
  BY DEF Init, StartInv, PodInv, AckedInv
<1>3. MarkerInv
  <2>1. \A t \in Twjd : Cached(t) => redis[CacheKey(t)] = 0
    BY KeyOfCached DEF Init
  <2>2. QED
    BY <2>1, FlightsType DEF MarkerInv
<1>4. QED
  BY <1>1, <1>2, <1>3 DEF Inv

-------------------------------------------------------------------------------
(* Lemmas about one step. *)

(* Nothing that was accepted or given up is ever forgotten. *)
LEMMA HistoryGrows ==
    ASSUME TypeOK, [Next]_vars, NEW t \in Twjd
    PROVE  /\ sent[t] \subseteq sent'[t] /\ cut[t] \subseteq cut'[t]
           /\ worked[t] \subseteq worked'[t] /\ skipped[t] \subseteq skipped'[t]
<1>1. ASSUME NEW f \in [Twjd -> SUBSET Nat], NEW g, NEW u, NEW i,
             g = f \/ g = Add(f, u, i)
      PROVE  f[t] \subseteq g[t]
  BY <1>1 DEF Add
<1>2. sent' = sent \/ \E u, i : sent' = Add(sent, u, i)
  BY DEF Next, vars, Submit, LeaseEnds, MarkerExpires, Receive, PodStep,
    PodError, PodDies, DecodeFails, Reject, Begin, NextFlight, FlightRaises,
    PushMarker, PublishAsync, FutureSucceeds, CallbackExits, EndOfLoop,
    PopMarker, Ack, BeginFails, PushFails, PublishFails, FutureFails,
    PopFails, Exit, Accepted, outcome, topic
<1>3. cut' = cut \/ \E u, i : cut' = Add(cut, u, i)
  BY DEF Next, vars, Submit, LeaseEnds, MarkerExpires, Receive, PodStep,
    PodError, PodDies, DecodeFails, Reject, Begin, NextFlight, FlightRaises,
    PushMarker, PublishAsync, FutureSucceeds, CallbackExits, EndOfLoop,
    PopMarker, Ack, BeginFails, PushFails, PublishFails, FutureFails,
    PopFails, Exit, Accepted, outcome, topic
<1>4. /\ worked' = worked \/ \E u, i : worked' = Add(worked, u, i)
      /\ skipped' = skipped \/ \E u, i : skipped' = Add(skipped, u, i)
  BY DEF Next, vars, Submit, LeaseEnds, MarkerExpires, Receive, PodStep,
    PodError, PodDies, DecodeFails, Reject, Begin, NextFlight, FlightRaises,
    PushMarker, PublishAsync, FutureSucceeds, CallbackExits, EndOfLoop,
    PopMarker, Ack, BeginFails, PushFails, PublishFails, FutureFails,
    PopFails, Exit, outcome, walk
<1>5. QED
  BY <1>1, <1>2, <1>3, <1>4 DEF TypeOK

PodActs(p) ==
    PodStep(p) \/ PodError(p) \/ PodDies(p) \/ \E t \in Twjd : Receive(p, t)

SameWork(q) ==
    pc'[q] = pc[q] /\ job'[q] = job[q] /\ counter'[q] = counter[q]
        /\ marker'[q] = marker[q]

(* A step of one pod leaves the others where they are. *)
LEMMA OthersStay ==
    ASSUME TypeOK, NEW p \in Pod, PodActs(p), NEW q \in Pod \ {p}
    PROVE  SameWork(q)
  BY DEF TypeOK, PodActs, SameWork, Receive, PodStep, PodError, PodDies,
    DecodeFails, Reject, Begin, NextFlight, FlightRaises, PushMarker,
    PublishAsync, FutureSucceeds, CallbackExits, EndOfLoop, PopMarker, Ack,
    BeginFails, PushFails, PublishFails, FutureFails, PopFails, Exit, Reset,
    Goto, loop

(* A pod lets go of the flight in its hand only when it is published or, for *)
(* a message with a marker, given up by name.                                *)
LEMMA HandKept ==
    ASSUME TypeOK, NEW p \in Pod, PodActs(p), pc[p] \in Publishing, Cached(job[p])
    PROVE  \/ pc'[p] \in Publishing /\ job'[p] = job[p] /\ counter'[p] = counter[p]
           \/ counter[p] \in sent'[job[p]] \cup cut'[job[p]]
<1>1. job[p] \in Twjd /\ sent \in [Twjd -> SUBSET Nat] /\ cut \in [Twjd -> SUBSET Nat]
      /\ pc \in [Pod -> Stages]
  BY DEF TypeOK, Publishing
<1>2. CASE PublishAsync(p)
  BY <1>1, <1>2 DEF PublishAsync, Goto, Publishing, loop
<1>3. CASE Accepted(p)
  BY <1>1, <1>3 DEF Accepted, Add
<1>4. CASE FutureFails(p) \/ PublishFails(p)
  BY <1>1, <1>4 DEF FutureFails, PublishFails, Add
<1>5. CASE Exit(p)
  <2>1. CASE Accepted(p)
    BY <1>3, <2>1
  <2>2. CASE ~Accepted(p)
    BY <1>1, <1>5, <2>2 DEF Exit, Add, Publishing
  <2>3. QED
    BY <2>1, <2>2
<1>6. QED
  BY <1>2, <1>3, <1>4, <1>5 DEF Publishing, PodActs, Receive, PodStep,
    PodError, PodDies, DecodeFails, Reject, Begin, NextFlight, HasNext,
    FlightRaises, PushMarker, FutureSucceeds, CallbackExits, EndOfLoop,
    PopMarker, Ack, BeginFails, PushFails, PublishFails, PopFails

(* What is settled for good stays settled. *)
LEMMA FirmStays ==
    ASSUME TypeOK, [Next]_vars, NEW t \in Twjd, NEW i, Firm(t, i)
    PROVE  Firm(t, i)'
  BY HistoryGrows DEF Firm, Settled

(* A flight in the hand of some pod stays there or is settled for good. *)
LEMMA OwnedStays ==
    ASSUME TypeOK, [Next]_vars, NEW t \in Twjd, NEW i, Owned(t, i)
    PROVE  Owned(t, i)'
<1>0. i \in worked'[t]
  BY HistoryGrows DEF Owned
<1>1. CASE Firm(t, i)
  BY <1>0, <1>1, FirmStays DEF Owned
<1>2. CASE Cached(t) /\ InHand(t, i)
  <2>1. PICK p \in Pod : job[p] = t /\ counter[p] = i /\ pc[p] \in Publishing
    BY <1>2 DEF InHand, Publishing
  <2>2. CASE SameWork(p)
    BY <1>0, <1>2, <2>1, <2>2 DEF SameWork, Owned, InHand, Publishing
  <2>3. CASE ~SameWork(p)
    <3>1. PodActs(p)
      BY <2>3, OthersStay DEF Next, PodActs, SameWork, vars, Submit,
        LeaseEnds, MarkerExpires, loop
    <3>2. \/ pc'[p] \in Publishing /\ job'[p] = t /\ counter'[p] = i
          \/ i \in sent'[t] \cup cut'[t]
      BY <1>2, <2>1, <3>1, HandKept
    <3>3. QED
      BY <1>0, <1>2, <3>2 DEF Owned, Firm, Settled, InHand, Publishing
  <2>4. QED
    BY <2>2, <2>3
<1>3. QED
  BY <1>1, <1>2 DEF Owned

(* A message is one of its fellows, and fellows have the same fellows. *)
LEMMA FellowsShare ==
    /\ \A t \in Twjd : t \in Fellows(t) /\ Fellows(t) \subseteq Twjd
    /\ \A t, u \in Twjd : Cached(t) /\ CacheKey(u) = CacheKey(t) =>
          u \in Fellows(t) /\ Fellows(u) = Fellows(t)
<1>1. \A t \in Twjd : t \in Fellows(t) /\ Fellows(t) \subseteq Twjd
  BY DEF Fellows, SharesMarker
<1>2. ASSUME NEW t \in Twjd, NEW u \in Twjd, Cached(t), CacheKey(u) = CacheKey(t)
      PROVE  SharesMarker(t, u) /\ Cached(u)
  BY <1>2 DEF Cached, CacheKey, SharesMarker
<1>3. ASSUME NEW t \in Twjd, NEW u \in Twjd, Cached(t), CacheKey(u) = CacheKey(t)
      PROVE  u \in Fellows(t) /\ Fellows(u) = Fellows(t)
  BY <1>2, <1>3 DEF Fellows, SharesMarker
<1>4. QED
  BY <1>1, <1>3

(* Who the fellows are is data. *)
LEMMA FellowsStay == \A t : Fellows(t)' = Fellows(t)
  BY DEF Fellows, SharesMarker, Cached, CacheKey

(* What a message or a fellow of it owns of its own flights is shared. *)
LEMMA OwnedIsShared ==
    ASSUME NEW t \in Twjd, NEW i \in Flights(t)
    PROVE  /\ Owned(t, i) => Shared(t, i)
           /\ Owned(t, i)' => Shared(t, i)'
  BY FellowsShare, FellowsStay DEF Shared, Flights

(* What is shared stays so. *)
LEMMA SharedStays ==
    ASSUME TypeOK, [Next]_vars, NEW t \in Twjd, NEW i, Shared(t, i)
    PROVE  Shared(t, i)'
<1>1. PICK u \in Fellows(t) : i \in Flights(u) /\ Owned(u, i)
  BY DEF Shared
<1>2. Owned(u, i)'
  BY <1>1, OwnedStays, FellowsShare
<1>3. QED
  BY <1>1, <1>2, FellowsStay DEF Shared, Flights

(* What is done for a message stays done, and its fellows may rely on it. *)
LEMMA DoneStays ==
    ASSUME TypeOK, [Next]_vars, NEW t \in Twjd, NEW i, Done(t, i)
    PROVE  Done(t, i)'
<1>1. CASE Owned(t, i)
  BY <1>1, OwnedStays DEF Done
<1>2. CASE i \in skipped[t] /\ \E u \in Fellows(t) \ {t} : i \in Flights(u) /\ Owned(u, i)
  <2>1. PICK u \in Fellows(t) \ {t} : i \in Flights(u) /\ Owned(u, i)
    BY <1>2
  <2>2. Owned(u, i)' /\ i \in skipped'[t]
    BY <1>2, <2>1, OwnedStays, FellowsShare, HistoryGrows
  <2>3. QED
    BY <2>1, <2>2, FellowsStay DEF Done, Flights
<1>3. QED
  BY <1>1, <1>2 DEF Done

LEMMA DoneIsShared ==
    ASSUME NEW t \in Twjd, NEW i \in Flights(t)
    PROVE  Done(t, i) => Shared(t, i)
  BY OwnedIsShared DEF Done, Shared

(* A run that fast-forwards over a shared flight has done with it. *)
LEMMA SharedIsDone ==
    ASSUME NEW t \in Twjd, NEW i
    PROVE  Shared(t, i)' /\ i \in skipped'[t] => Done(t, i)'
  BY FellowsStay DEF Done, Shared

(* A pod that a step leaves alone keeps its invariant. *)
LEMMA PodInvStays ==
    ASSUME TypeOK, [Next]_vars, NEW p \in Pod, PodInv(p), SameWork(p)
    PROVE  PodInv(p)'
<1>1. CASE pc[p] = "idle"
  BY <1>1 DEF PodInv, SameWork
<1>2. CASE pc[p] # "idle"
  <2>1. PICK t \in Twjd : job[p] = t /\ job'[p] = t
    BY <1>2 DEF TypeOK, SameWork
  <2>2. \A i : (Shared(t, i) => Shared(t, i)') /\ (Done(t, i) => Done(t, i)')
    BY SharedStays, DoneStays
  <2>3. Passed(p)' = Passed(p) /\ worked[t] \subseteq worked'[t]
    BY HistoryGrows DEF SameWork, Passed
  <2>4. QED
    BY <1>2, <2>1, <2>2, <2>3 DEF PodInv, SameWork
<1>3. QED
  BY <1>1, <1>2

(* A turn of the loop: the flight a pod goes past is accounted for. *)
LEMMA NextFlightKeeps ==
    ASSUME Inv, [Next]_vars, NEW p \in Pod, NextFlight(p)
    PROVE  PodInv(p)'
<1>1. /\ TypeOK /\ PodInv(p) /\ pc \in [Pod -> Stages] /\ counter \in [Pod -> Nat]
      /\ pc[p] = "loop"
  BY DEF Inv, TypeInv, TypeOK, NextFlight, HasNext
<1>2. PICK t \in Twjd : job[p] = t /\ job'[p] = t
  BY DEF NextFlight, HasNext, Inv, TypeInv, TypeOK
<1>3. PICK n \in Flights(t) : n = counter[p] + 1 /\ counter'[p] = n /\ n \in Nat
  BY <1>1, <1>2, FlightsType DEF NextFlight, HasNext, Flights
<1>4. Verdicts[t][n] \in Verdict
  <2>1. Verdicts[t] \in Seq(Verdict)
    BY JobFactoryAssumption
  <2>2. QED
    BY <2>1 DEF Flights
<1>5. Processed(t)
  BY <1>1, <1>2 DEF PodInv
<1>6. pc'[p] = IF FastForwards(p) \/ Verdicts[t][n] # "good" THEN "loop"
               ELSE IF Cached(t) THEN "push"
               ELSE IF DryRun(t) THEN "loop"
               ELSE "publish"
  BY <1>1, <1>2, <1>3 DEF NextFlight, Goto, NextVerdict
<1>7. \A i : (Shared(t, i) => Shared(t, i)') /\ (Done(t, i) => Done(t, i)')
  BY SharedStays, DoneStays, <1>1
<1>0. IF FastForwards(p) THEN n \in skipped'[t] ELSE n \in worked'[t]
  <2>1. IF FastForwards(p) THEN skipped' = Add(skipped, t, n)
        ELSE worked' = Add(worked, t, n)
    BY <1>2, <1>3 DEF NextFlight
  <2>2. QED
    BY <1>1, <2>1 DEF Add, TypeOK
<1>8. pc'[p] = "loop" => Done(t, n)'
  <2>1. CASE FastForwards(p)
    <3>1. n <= marker[p]
      BY <1>1, <1>3, <2>1 DEF FastForwards, Inv, TypeInv, TypeOK
    <3>2. Shared(t, n)'
      BY <1>1, <1>2, <1>7, <3>1 DEF PodInv
    <3>3. QED
      BY <1>0, <2>1, <3>2, SharedIsDone
  <2>2. CASE ~FastForwards(p) /\ pc'[p] = "loop"
    <3>1. \/ Verdicts[t][n] \in {"ejected", "unbuildable"}
          \/ Verdicts[t][n] = "good" /\ DryRun(t)
      BY <1>2, <1>3, <1>4, <1>6, <2>2 DEF NextFlight, NextVerdict, Verdict
    <3>2. Owned(t, n)'
      BY <1>0, <2>2, <3>1 DEF Owned, Firm, Settled
    <3>3. QED
      BY <3>2 DEF Done
  <2>3. QED
    BY <2>1, <2>2
<1>9. \A i \in Passed(p)' : i \in Passed(p) \/ (i = n /\ pc'[p] = "loop")
  BY <1>1, <1>2, <1>3, <1>6, FlightsType DEF Passed, Flights, Publishing
<1>10. /\ \A i \in Passed(p)' : Done(t, i)'
       /\ \A i \in Flights(t) : i <= marker'[p] => Shared(t, i)'
  <2>1. marker'[p] = marker[p]
    BY DEF NextFlight
  <2>2. QED
    BY <1>1, <1>2, <1>7, <1>8, <1>9, <2>1 DEF PodInv
<1>11. pc'[p] \in {"push"} \cup Publishing =>
         Verdicts[t][n] = "good" /\ n \in worked'[t]
  BY <1>0, <1>6 DEF Publishing
<1>12. pc'[p] \in {"loop", "push", "publish"} /\ (pc'[p] = "push" => Cached(t))
  BY <1>6
<1>13. QED
  BY <1>2, <1>3, <1>5, <1>10, <1>11, <1>12 DEF PodInv

(* The steps of a pod with a flight or a finished message in hand. *)
LEMMA PodStepKeeps ==
    ASSUME Inv, [Next]_vars, NEW p \in Pod,
           \/ PushMarker(p) \/ PushFails(p) \/ PublishAsync(p) \/ PublishFails(p)
           \/ FutureSucceeds(p) \/ FutureFails(p) \/ EndOfLoop(p) \/ PopMarker(p)
    PROVE  PodInv(p)'
<1>1. /\ TypeOK /\ PodInv(p) /\ pc \in [Pod -> Stages] /\ counter \in [Pod -> Nat]
      /\ pc[p] \in {"loop", "push", "pop"} \cup Publishing
  BY DEF Inv, TypeInv, TypeOK, PushMarker, PushFails, PublishFails,
    PublishAsync, FutureSucceeds, FutureFails, EndOfLoop, PopMarker, HasNext,
    Publishing
<1>2. PICK t \in Twjd : job[p] = t /\ job'[p] = t
  BY <1>1 DEF PushMarker, PushFails, PublishFails, PublishAsync,
    FutureSucceeds, FutureFails, EndOfLoop, PopMarker, loop, TypeOK,
    Publishing
<1>3. PICK n \in Nat : counter[p] = n /\ counter'[p] = n /\ marker'[p] = marker[p]
  BY <1>1 DEF PushMarker, PushFails, PublishFails, PublishAsync,
    FutureSucceeds, FutureFails, EndOfLoop, PopMarker, loop
<1>4. /\ Processed(t)
      /\ sent \in [Twjd -> SUBSET Nat] /\ cut \in [Twjd -> SUBSET Nat]
  <2>1. Processed(t)
    BY <1>1, <1>2 DEF PodInv, Publishing
  <2>2. QED
    BY <1>1, <2>1 DEF TypeOK
<1>5. /\ \A i : (Shared(t, i) => Shared(t, i)') /\ (Done(t, i) => Done(t, i)')
      /\ pc[p] \in {"push"} \cup Publishing => n \in worked'[t]
      /\ Owned(t, n)' => Done(t, n)'
  <2>1. pc[p] \in {"push"} \cup Publishing => n \in worked[t]
    BY <1>1, <1>2, <1>3 DEF PodInv, Publishing
  <2>2. QED
    BY SharedStays, DoneStays, HistoryGrows, <1>1, <2>1 DEF Done
<1>6. ASSUME Done(t, n)' \/ pc'[p] \in Publishing \/ pc[p] \in {"loop", "pop"}
      PROVE  /\ \A i \in Passed(p)' : Done(t, i)'
             /\ \A i \in Flights(t) : i <= marker'[p] => Shared(t, i)'
  <2>1. \A i \in Passed(p)' : i \in Passed(p) \/ (i = n /\ pc'[p] \notin Publishing)
    BY <1>1, <1>2, <1>3 DEF Passed, Publishing
  <2>2. pc[p] \in {"loop", "pop"} => \A i \in Passed(p)' : i \in Passed(p)
    BY <1>1, <1>2, <1>3 DEF Passed, Publishing
  <2>3. \A i \in Passed(p)' : i \in Passed(p) \/ Done(t, i)'
    BY <1>6, <2>1, <2>2
  <2>4. /\ \A i \in Passed(p) : Done(t, i)
        /\ \A i \in Flights(t) : i <= marker[p] => Shared(t, i)
    BY <1>1, <1>2 DEF PodInv, Publishing
  <2>5. QED
    BY <1>3, <1>5, <2>3, <2>4
<1>7. CASE PushMarker(p)
  <2>1. pc'[p] = IF DryRun(t) THEN "loop" ELSE "publish"
    BY <1>1, <1>2, <1>7 DEF PushMarker, Goto
  <2>2. DryRun(t) => Done(t, n)'
    <3>1. Verdicts[t][n] = "good"
      BY <1>1, <1>2, <1>3, <1>7 DEF PushMarker, PodInv
    <3>2. QED
      BY <1>5, <1>7, <3>1 DEF Owned, Firm, PushMarker
  <2>3. QED
    BY <1>1, <1>2, <1>3, <1>4, <1>5, <1>6, <1>7, <2>1, <2>2 DEF PodInv, Publishing,
      PushMarker
<1>8. CASE PushFails(p) \/ PublishFails(p) \/ FutureFails(p)
  <2>1. pc'[p] = "loop" /\ n \in cut'[t]
    BY <1>1, <1>2, <1>3, <1>4, <1>8 DEF PushFails, PublishFails, FutureFails,
      Goto, Add
  <2>2. Done(t, n)'
    BY <1>3, <1>5, <1>8, <2>1 DEF Owned, Firm, PushFails, PublishFails,
      FutureFails, Publishing
  <2>3. QED
    BY <1>2, <1>4, <1>6, <2>1, <2>2 DEF PodInv, Publishing
<1>9. CASE FutureSucceeds(p)
  <2>1. pc'[p] = "loop" /\ n \in sent'[t]
    BY <1>1, <1>2, <1>3, <1>4, <1>9 DEF FutureSucceeds, Accepted, Goto, Add
  <2>2. Done(t, n)'
    BY <1>3, <1>5, <1>9, <2>1 DEF Owned, Firm, Settled, FutureSucceeds, Publishing
  <2>3. QED
    BY <1>2, <1>4, <1>6, <2>1, <2>2 DEF PodInv, Publishing
<1>10. CASE PublishAsync(p)
  <2>1. pc[p] = "publish" /\ pc'[p] = "wait"
    BY <1>1, <1>10 DEF PublishAsync, Goto
  <2>2. QED
    BY <1>1, <1>2, <1>3, <1>4, <1>5, <1>6, <2>1 DEF PodInv, Publishing
<1>11. CASE EndOfLoop(p)
  <2>1. pc[p] = "loop" /\ pc'[p] \in {"pop", "ack"} /\ ~HasNext(p)
    BY <1>1, <1>11 DEF EndOfLoop, Goto
  <2>2. counter[p] >= Len(Verdicts[t])
    BY <1>1, <1>2, <2>1, FlightsType DEF HasNext
  <2>3. QED
    BY <1>1, <1>2, <1>3, <1>4, <1>6, <2>1, <2>2 DEF PodInv, Publishing
<1>12. CASE PopMarker(p)
  <2>1. pc[p] = "pop" /\ pc'[p] = "ack"
    BY <1>1, <1>12 DEF PopMarker, Goto
  <2>2. QED
    BY <1>1, <1>2, <1>3, <1>4, <1>6, <2>1 DEF PodInv, Publishing
<1>13. QED
  BY <1>7, <1>8, <1>9, <1>10, <1>11, <1>12

(* The first steps of a message, and all those that leave it. *)
LEMMA PodStartKeeps ==
    ASSUME Inv, [Next]_vars, NEW p \in Pod,
           Reject(p) \/ Begin(p) \/ \E t \in Twjd : Receive(p, t)
    PROVE  PodInv(p)'
<1>1. /\ TypeOK /\ PodInv(p) /\ pc \in [Pod -> Stages] /\ counter \in [Pod -> Nat]
      /\ marker \in [Pod -> Nat] /\ job \in [Pod -> Twjd \cup {None}]
      /\ pc[p] \in {"idle", "start"} /\ counter[p] = 0 /\ marker[p] = 0
  BY DEF Inv, TypeInv, TypeOK, StartInv, Reject, Begin, Receive
<1>2. counter'[p] = 0
  BY <1>1 DEF Reject, Begin, Receive, loop
<1>3. PICK t \in Twjd : job'[p] = t
  BY <1>1 DEF Reject, Begin, Receive, TypeOK, loop
<1>4. Passed(p)' = {}
  BY <1>2, <1>3, FlightsType DEF Passed
<1>5. CASE Reject(p)
  <2>1. pc'[p] = "ack" /\ marker'[p] = 0 /\ job[p] = t /\ ~Processed(t)
    BY <1>1, <1>3, <1>5 DEF Reject, Goto, loop, Processed
  <2>2. QED
    BY <1>3, <1>4, <2>1, FlightsType DEF PodInv, Publishing
<1>6. CASE \E u \in Twjd : Receive(p, u)
  <2>1. pc'[p] = "start" /\ marker'[p] = 0
    BY <1>1, <1>6 DEF Receive, Goto
  <2>2. QED
    BY <1>3, <1>4, <2>1, FlightsType DEF PodInv, Publishing
<1>7. CASE Begin(p)
  <2>1. pc'[p] = "loop" /\ job[p] = t /\ Processed(t)
    BY <1>1, <1>3, <1>7 DEF Begin, Goto, Processed
  <2>2. marker'[p] = IF Cached(t) THEN redis[CacheKey(t)] ELSE 0
    BY <1>1, <1>7, <2>1 DEF Begin
  <2>3. \A i : Shared(t, i) => Shared(t, i)'
    BY <1>1, SharedStays
  <2>4. \A i \in Flights(t) : i <= marker'[p] => Shared(t, i)'
    BY <2>2, <2>3, FlightsType DEF Inv, MarkerInv
  <2>5. QED
    BY <1>3, <1>4, <2>1, <2>4 DEF PodInv, Publishing
<1>8. QED
  BY <1>5, <1>6, <1>7

(* A pod that has been reset, or has just received a message, owes nothing. *)
LEMMA PodResetKeeps ==
    ASSUME TypeOK, NEW p \in Pod, Reset(p)
    PROVE  PodInv(p)' /\ pc'[p] = "idle" /\ counter'[p] = 0 /\ marker'[p] = 0
  BY DEF TypeOK, Reset, Goto, PodInv

(* Whatever a pod does, its invariant holds afterwards. *)
LEMMA PodInvStep ==
    ASSUME Inv, [Next]_vars, NEW p \in Pod
    PROVE  PodInv(p)'
<1>1. TypeOK /\ PodInv(p)
  BY DEF Inv, TypeInv
<1>2. CASE SameWork(p)
  BY <1>1, <1>2, PodInvStays
<1>3. CASE ~SameWork(p)
  <2>1. PodActs(p)
    BY <1>1, <1>3, OthersStay DEF Next, PodActs, SameWork, vars, Submit,
      LeaseEnds, MarkerExpires, loop
  <2>2. CASE Reset(p)
    BY <1>1, <2>2, PodResetKeeps
  <2>3. CASE Reject(p) \/ Begin(p) \/ \E t \in Twjd : Receive(p, t)
    BY <2>3, PodStartKeeps
  <2>4. CASE NextFlight(p)
    BY <2>4, NextFlightKeeps
  <2>5. CASE \/ PushMarker(p) \/ PushFails(p) \/ PublishAsync(p)
             \/ PublishFails(p) \/ FutureSucceeds(p)
             \/ FutureFails(p) \/ EndOfLoop(p) \/ PopMarker(p)
    BY <2>5, PodStepKeeps
  <2>6. QED
    BY <2>1, <2>2, <2>3, <2>4, <2>5 DEF PodActs, PodStep, PodError, PodDies,
      DecodeFails, FlightRaises, CallbackExits, Ack, BeginFails, PopFails, Exit
<1>4. QED
  BY <1>2, <1>3

(* Every step leaves a pod that begins at its first flight. *)
LEMMA StartInvStep ==
    ASSUME Inv, [Next]_vars
    PROVE  StartInv'
<1> SUFFICES ASSUME NEW p \in Pod, pc'[p] \in {"idle", "start"}
             PROVE  counter'[p] = 0 /\ marker'[p] = 0
  BY DEF StartInv
<1>1. /\ TypeOK /\ pc \in [Pod -> Stages]
      /\ pc[p] \in {"idle", "start"} => counter[p] = 0 /\ marker[p] = 0
  BY DEF Inv, TypeInv, TypeOK, StartInv
<1>2. CASE SameWork(p)
  BY <1>1, <1>2 DEF SameWork
<1>3. CASE Reset(p)
  BY <1>1, <1>3, PodResetKeeps
<1>4. CASE ~SameWork(p) /\ ~Reset(p)
  <2>1. PodActs(p)
    BY <1>1, <1>4, OthersStay DEF Next, PodActs, SameWork, vars, Submit,
      LeaseEnds, MarkerExpires, loop
  <2>2. \E t \in Twjd : Receive(p, t)
    BY <1>1, <1>4, <2>1 DEF PodActs, PodStep, PodError, PodDies, DecodeFails,
      Reject, Begin, NextFlight, FlightRaises, PushMarker, PublishAsync,
      FutureSucceeds, CallbackExits, EndOfLoop, PopMarker, Ack, BeginFails,
      PushFails, PublishFails, FutureFails, PopFails, Exit, Goto
  <2>3. QED
    BY <1>1, <2>2 DEF Receive
<1>5. QED
  BY <1>2, <1>3, <1>4

(* How a step may change the marker of a key. *)
LEMMA MarkerWrites ==
    ASSUME TypeOK, [Next]_vars, NEW k \in Keys
    PROVE  \/ redis'[k] = redis[k] \/ redis'[k] = 0
           \/ \E p \in Pod : /\ PushMarker(p) \/ PushFails(p)
                             /\ CacheKey(job[p]) = k /\ redis'[k] = counter[p]
<1>1. redis \in [Keys -> Nat]
  BY DEF TypeOK
<1>2. ASSUME NEW p \in Pod, PushMarker(p) \/ PushFails(p)
      PROVE  \/ redis'[k] = redis[k]
             \/ CacheKey(job[p]) = k /\ redis'[k] = counter[p]
  BY <1>1, <1>2 DEF PushMarker, PushFails
<1>3. ASSUME NEW p \in Pod, RemoveMarker(p)
      PROVE  redis'[k] = redis[k] \/ redis'[k] = 0
  BY <1>1, <1>3 DEF RemoveMarker
<1>4. ASSUME NEW m \in Keys, MarkerExpires(m)
      PROVE  redis'[k] = redis[k] \/ redis'[k] = 0
  BY <1>1, <1>4 DEF MarkerExpires
<1>5. \/ redis' = redis
      \/ \E m \in Keys : MarkerExpires(m)
      \/ \E p \in Pod : PushMarker(p) \/ PushFails(p) \/ RemoveMarker(p)
  BY DEF Next, vars, Submit, LeaseEnds, Receive, PodStep, PodError, PodDies,
    DecodeFails, Reject, Begin, NextFlight, FlightRaises, PublishAsync,
    FutureSucceeds, CallbackExits, EndOfLoop, PopMarker, Ack, BeginFails,
    PublishFails, FutureFails, PopFails
<1>6. QED
  BY <1>2, <1>3, <1>4, <1>5

(* Every step leaves the flights up to a marker accounted for. *)
LEMMA MarkerInvStep ==
    ASSUME Inv, [Next]_vars
    PROVE  MarkerInv'
<1> SUFFICES ASSUME NEW t \in Twjd, Cached(t),
                    NEW i \in Flights(t), i <= redis'[CacheKey(t)]
             PROVE  Shared(t, i)'
  BY DEF MarkerInv, Cached, Flights, CacheKey
<1>1. TypeOK /\ CacheKey(t) \in Keys /\ i \in Nat \ {0}
  BY KeyOfCached, FlightsType DEF Inv, TypeInv
<1>2. CASE redis'[CacheKey(t)] = redis[CacheKey(t)]
  BY <1>1, <1>2, SharedStays DEF Inv, MarkerInv
<1>3. CASE redis'[CacheKey(t)] = 0
  BY <1>1, <1>3
<1>4. ASSUME NEW p \in Pod, PushMarker(p) \/ PushFails(p),
             CacheKey(job[p]) = CacheKey(t), redis'[CacheKey(t)] = counter[p]
      PROVE  Shared(t, i)'
  <2>1. PICK u \in Twjd : job[p] = u /\ pc[p] = "push" /\ counter[p] \in Flights(u)
    BY <1>1, <1>4 DEF PushMarker, PushFails, TypeOK, Inv, PodInv
  <2>2. Fellows(u) = Fellows(t) /\ Cached(u)
    BY <1>4, <2>1, FellowsShare DEF Cached
  <2>3. (Shared(u, i)' => Shared(t, i)') /\ (Shared(u, i) => Shared(u, i)')
    BY <1>1, <2>2, SharedStays DEF Shared, Fellows, Flights, Cached, CacheKey, WithKey
  <2>4. i \in Flights(u) /\ (i \in Passed(p) \/ i = counter[p])
    BY <1>1, <1>4, <2>1, FlightsType DEF Passed, Flights, TypeOK
  <2>5. CASE i \in Passed(p)
    BY <2>1, <2>3, <2>4, <2>5, DoneIsShared DEF Inv, PodInv
  <2>0. i = counter[p] => i \in worked'[u]
    BY <1>1, <2>1, HistoryGrows DEF Inv, PodInv
  <2>6. CASE i = counter[p] /\ PushFails(p)
    <3>1. Owned(u, i)'
      BY <1>1, <2>0, <2>1, <2>6 DEF PushFails, Add, TypeOK, Owned, Firm
    <3>2. QED
      BY <2>3, <2>4, <3>1, OwnedIsShared
  <2>7. CASE i = counter[p] /\ PushMarker(p) /\ DryRun(u)
    <3>1. Verdicts[u][i] = "good"
      BY <2>1, <2>7 DEF Inv, PodInv
    <3>2. Owned(u, i)'
      BY <2>0, <2>7, <3>1 DEF Owned, Firm
    <3>3. QED
      BY <2>3, <2>4, <3>2, OwnedIsShared
  <2>8. CASE i = counter[p] /\ PushMarker(p) /\ ~DryRun(u)
    <3>1. pc'[p] = "publish" /\ job'[p] = u /\ counter'[p] = i
      BY <1>1, <2>1, <2>8 DEF PushMarker, Goto, loop, TypeOK
    <3>2. Owned(u, i)'
      BY <2>0, <2>2, <2>8, <3>1 DEF Owned, InHand
    <3>3. QED
      BY <2>3, <2>4, <3>2, OwnedIsShared
  <2>9. QED
    BY <1>4, <2>4, <2>5, <2>6, <2>7, <2>8
<1>5. QED
  BY <1>1, <1>2, <1>3, <1>4, MarkerWrites

(* An ack comes from a pod that went past every flight of the message. *)
LEMMA AckedInvStep ==
    ASSUME Inv, [Next]_vars
    PROVE  AckedInv'
<1> SUFFICES ASSUME NEW t \in Twjd, queue'[t] = "acked", Processed(t),
                    NEW i \in Flights(t)
             PROVE  Done(t, i)'
  BY DEF AckedInv, Processed, Rejected, Valid, Flights
<1>1. TypeOK /\ i \in Nat \ {0}
  BY FlightsType DEF Inv, TypeInv
<1>2. Done(t, i) => Done(t, i)'
  BY <1>1, DoneStays
<1>3. CASE queue[t] = "acked"
  BY <1>2, <1>3 DEF Inv, AckedInv
<1>4. CASE queue[t] # "acked"
  <2>1. PICK p \in Pod : Ack(p) /\ job[p] = t
    BY <1>1, <1>4 DEF TypeOK, Next, vars, Submit, LeaseEnds, MarkerExpires,
      Receive, PodStep, PodError, PodDies, DecodeFails, Reject, Begin,
      NextFlight, FlightRaises, PushMarker, PublishAsync, FutureSucceeds,
      CallbackExits, EndOfLoop, PopMarker, Ack, BeginFails, PushFails,
      PublishFails, FutureFails, PopFails, subscription
  <2>2. pc[p] = "ack" /\ counter[p] >= Len(Verdicts[t]) /\ counter[p] \in Nat
    BY <1>1, <2>1 DEF Ack, Inv, PodInv, TypeOK
  <2>3. i \in Passed(p)
    BY <2>1, <2>2, FlightsType DEF Passed, Flights, Publishing
  <2>4. QED
    BY <1>2, <2>1, <2>2, <2>3 DEF Inv, PodInv
<1>5. QED
  BY <1>3, <1>4

(* Every step keeps the invariant. *)
LEMMA InvStep == Inv /\ [Next]_vars => Inv'
  BY TypeStep, StartInvStep, PodInvStep, MarkerInvStep, AckedInvStep DEF Inv

(* The inductive invariant holds in every reachable state. *)
THEOREM Invariance == Spec => []Inv
<1>1. QED
  BY InvInit, InvStep, PTL DEF Spec

(* Once a message is acked, a run of it took each of its flights in hand and *)
(* the flight was published, ejected or given up by a failure with a name,   *)
(* or a pod still has it in hand; or a run of it was led past the flight by  *)
(* the marker of a fellow, whose own run did all that.  No flight is skipped *)
(* in silence, for any interleaving of any number of pods that share         *)
(* messages and of messages that share markers.                              *)
THEOREM NoFlightIsForgotten == Spec => []AckedIsAccounted
<1>1. Inv => AckedIsAccounted
  BY DEF Inv, AckedInv, AckedIsAccounted, Done, Owned, Firm, Accounted
<1>2. QED
  BY <1>1, Invariance, PTL

-------------------------------------------------------------------------------
(* A message that nobody has submitted has had no run. *)
UnsentInv ==
    \A t \in Twjd :
        queue[t] = "unsent" =>
            worked[t] = {} /\ \A p \in Pod : pc[p] # "idle" => job[p] # t

(* No step takes a submission back. *)
LEMMA SubmittedStays ==
    ASSUME TypeOK, [Next]_vars, NEW t \in Twjd, queue'[t] = "unsent"
    PROVE  queue[t] = "unsent"
<1>1. \/ queue' = queue
      \/ \E u, where : where # "unsent" /\ queue' = [queue EXCEPT ![u] = where]
  BY DEF Next, vars, Submit, LeaseEnds, MarkerExpires, Receive, PodStep,
    PodError, PodDies, DecodeFails, Reject, Begin, NextFlight, FlightRaises,
    PushMarker, PublishAsync, FutureSucceeds, CallbackExits, EndOfLoop,
    PopMarker, Ack, BeginFails, PushFails, PublishFails, FutureFails,
    PopFails, subscription
<1>2. QED
  BY <1>1 DEF TypeOK

(* Only a pod that works on a message takes a flight of it in hand. *)
LEMMA WorkedByPods ==
    ASSUME [Next]_vars
    PROVE  worked' = worked
           \/ \E p \in Pod : \E i : pc[p] # "idle" /\ worked' = Add(worked, job[p], i)
<1>1. ASSUME NEW p \in Pod, NextFlight(p)
      PROVE  pc[p] # "idle"
             /\ (worked' = worked \/ worked' = Add(worked, job[p], counter[p] + 1))
  BY <1>1 DEF NextFlight, HasNext
<1>2. QED
  BY <1>1 DEF Next, vars, Submit, LeaseEnds, MarkerExpires, Receive, PodStep,
    PodError, PodDies, DecodeFails, Reject, Begin, FlightRaises, PushMarker,
    PublishAsync, FutureSucceeds, CallbackExits, EndOfLoop, PopMarker, Ack,
    BeginFails, PushFails, PublishFails, FutureFails, PopFails, Exit, outcome, walk

(* A pod works on what it worked on before, or was just delivered. *)
LEMMA WorkBegins ==
    ASSUME TypeOK, [Next]_vars, NEW q \in Pod, pc'[q] # "idle"
    PROVE  \/ pc[q] # "idle" /\ job'[q] = job[q]
           \/ \E t \in Twjd : job'[q] = t /\ queue[t] = "ready"
<1>1. CASE SameWork(q)
  BY <1>1 DEF SameWork
<1>2. CASE ~SameWork(q)
  <2>1. PodActs(q)
    BY <1>2, OthersStay DEF Next, PodActs, SameWork, vars, Submit, LeaseEnds,
      MarkerExpires, loop
  <2>2. CASE \E t \in Twjd : Receive(q, t)
    BY <2>2 DEF Receive, TypeOK
  <2>3. CASE PodStep(q) \/ PodError(q) \/ PodDies(q)
    BY <2>3 DEF PodStep, PodError, PodDies, DecodeFails, Reject, Begin, NextFlight,
      HasNext, FlightRaises, PushMarker, PublishAsync, FutureSucceeds, CallbackExits,
      EndOfLoop, PopMarker, Ack, BeginFails, PushFails, PublishFails, FutureFails,
      PopFails, Exit, Reset, Goto, loop, TypeOK
  <2>4. QED
    BY <2>1, <2>2, <2>3 DEF PodActs
<1>3. QED
  BY <1>1, <1>2

LEMMA UnsentStep == TypeInv /\ UnsentInv /\ [Next]_vars => UnsentInv'
<1> SUFFICES ASSUME TypeOK, UnsentInv, [Next]_vars, NEW t \in Twjd, queue'[t] = "unsent"
             PROVE  worked'[t] = {} /\ \A p \in Pod : pc'[p] # "idle" => job'[p] # t
  BY DEF UnsentInv, TypeInv
<1>1. queue[t] = "unsent" /\ worked[t] = {} /\ \A p \in Pod : pc[p] # "idle" => job[p] # t
  BY SubmittedStays DEF UnsentInv
<1>2. worked'[t] = {}
  BY <1>1, WorkedByPods DEF Add, TypeOK
<1>3. \A p \in Pod : pc'[p] # "idle" => job'[p] # t
  BY <1>1, WorkBegins
<1>4. QED
  BY <1>2, <1>3

LEMMA UnsentInit == Init => UnsentInv
  BY DEF Init, UnsentInv

-------------------------------------------------------------------------------
(***************************************************************************)
(* What failures cost the job factory: how many flights they may lose, how  *)
(* many a dead letter takes, and which of them make it publish a flight     *)
(* again.  Every death and every error is counted; a pod whose callback has *)
(* yet to end it still has its failed future to its credit.                 *)
(***************************************************************************)

Doomed == {p \in Pod : doomed[p]}

(* Steps that leave a pod's process alone. *)
GoesOn(p) ==
    \/ Reject(p) \/ Begin(p) \/ NextFlight(p) \/ PushMarker(p) \/ PublishAsync(p)
    \/ FutureSucceeds(p) \/ EndOfLoop(p) \/ PopMarker(p)

LEMMA DoomedCount ==
    ASSUME TypeOK
    PROVE  IsFiniteSet(Doomed) /\ Cardinality(Doomed) \in Nat
<1>1. IsFiniteSet(Pod) /\ Doomed \subseteq Pod
  BY JobFactoryAssumption DEF Doomed
<1>2. QED
  BY <1>1, FS_Subset, FS_CardinalityType

(* Where the count of doomed pods goes. *)
LEMMA DoomedMoves ==
    ASSUME TypeOK, NEW p \in Pod
    PROVE  /\ UNCHANGED doomed => Cardinality(Doomed)' = Cardinality(Doomed)
           /\ doomed' = [doomed EXCEPT ![p] = FALSE] =>
                /\ Cardinality(Doomed)' \in Nat
                /\ Cardinality(Doomed)' <= Cardinality(Doomed)
                /\ doomed[p] => Cardinality(Doomed)' = Cardinality(Doomed) - 1
           /\ doomed' = [doomed EXCEPT ![p] = TRUE] =>
                /\ Cardinality(Doomed)' \in Nat
                /\ Cardinality(Doomed)' <= Cardinality(Doomed) + 1
<1>1. IsFiniteSet(Doomed) /\ Cardinality(Doomed) \in Nat
  BY DoomedCount
<1>2. UNCHANGED doomed => Doomed' = Doomed
  BY DEF Doomed
<1>3. ASSUME doomed' = [doomed EXCEPT ![p] = FALSE]
      PROVE  /\ Cardinality(Doomed)' \in Nat
             /\ Cardinality(Doomed)' <= Cardinality(Doomed)
             /\ doomed[p] => Cardinality(Doomed)' = Cardinality(Doomed) - 1
  <2>1. Doomed' = Doomed \ {p}
    BY <1>3 DEF Doomed, TypeOK
  <2>2. p \in Doomed <=> doomed[p]
    BY DEF Doomed
  <2>3. /\ IsFiniteSet(Doomed \ {p})
        /\ Cardinality(Doomed \ {p}) =
             IF p \in Doomed THEN Cardinality(Doomed) - 1 ELSE Cardinality(Doomed)
    BY <1>1, FS_RemoveElement
  <2>4. Cardinality(Doomed \ {p}) \in Nat
    BY <2>3, FS_CardinalityType
  <2>5. QED
    BY <1>1, <2>1, <2>2, <2>3, <2>4
<1>4. ASSUME doomed' = [doomed EXCEPT ![p] = TRUE]
      PROVE  /\ Cardinality(Doomed)' \in Nat
             /\ Cardinality(Doomed)' <= Cardinality(Doomed) + 1
  <2>1. Doomed' = Doomed \cup {p}
    BY <1>4 DEF Doomed, TypeOK
  <2>2. Cardinality(Doomed \cup {p}) =
          IF p \in Doomed THEN Cardinality(Doomed) ELSE Cardinality(Doomed) + 1
    BY <1>1, FS_AddElement
  <2>3. QED
    BY <1>1, <2>1, <2>2
<1>5. QED
  BY <1>2, <1>3, <1>4

LEMMA FaultsCount == TypeOK => crashes \in Nat /\ errors \in Nat /\ refused \in Nat
  BY JobFactoryAssumption DEF TypeOK

(* Failures that have not been spent: each is worth a delivery (Margin) and  *)
(* a flight, a failed future two (Budget).                                  *)
Margin == (crashes + errors) - Cardinality(Doomed)
Budget == (crashes + errors + refused) - Cardinality(Doomed)

LEMMA MarginType == TypeInv => Margin \in Int /\ Budget \in Int
<1> SUFFICES ASSUME TypeInv PROVE Margin \in Int /\ Budget \in Int
  OBVIOUS
<1> DEFINE n == Cardinality(Doomed)
<1>1. n \in Nat /\ crashes \in Nat /\ errors \in Nat /\ refused \in Nat
  BY DoomedCount, FaultsCount DEF TypeInv
<1> HIDE DEF n
<1>2. (crashes + errors) - n \in Int /\ (crashes + errors + refused) - n \in Int
  BY <1>1
<1>3. QED
  BY <1>2 DEF Margin, Budget, n

LEMMA MarginTypeNext == TypeInv' => (Margin \in Int)' /\ (Budget \in Int)'
  BY MarginType, PTL

(* What a step that does not fail, one that fails and one that ends a        *)
(* process leave of them.                                                   *)
LEMMA MarginStays == UNCHANGED <<faults, doomed>> => Margin' = Margin /\ Budget' = Budget
  BY DEF Margin, Budget, Doomed, faults

LEMMA MarginMoves ==
    ASSUME TypeInv, NEW p \in Pod
    PROVE  /\ Error /\ UNCHANGED doomed => Margin' >= Margin + 1 /\ Budget' >= Budget + 1
           /\ doomed' = [doomed EXCEPT ![p] = FALSE] =>
                /\ UNCHANGED faults => Margin' >= Margin /\ Budget' >= Budget
                /\ UNCHANGED faults /\ doomed[p] =>
                     Margin' >= Margin + 1 /\ Budget' >= Budget + 1
                /\ Crash => Margin' >= Margin + 1 /\ Budget' >= Budget + 1
           /\ doomed' = [doomed EXCEPT ![p] = TRUE] /\ Refusal =>
                Margin' >= Margin /\ Budget' >= Budget + 1
<1> DEFINE n == Cardinality(Doomed)
<1>1. n \in Nat /\ crashes \in Nat /\ errors \in Nat /\ refused \in Nat
  BY DoomedCount, FaultsCount DEF TypeInv
<1>2. /\ UNCHANGED faults => crashes' = crashes /\ errors' = errors /\ refused' = refused
      /\ Error => crashes' = crashes /\ errors' = errors + 1 /\ refused' = refused
      /\ Refusal => crashes' = crashes /\ errors' = errors + 1 /\ refused' = refused + 1
      /\ Crash => crashes' = crashes + 1 /\ errors' = errors /\ refused' = refused
  BY DEF faults, Error, Refusal, Crash
<1>3. /\ UNCHANGED doomed => n' = n
      /\ doomed' = [doomed EXCEPT ![p] = FALSE] =>
           n' \in Nat /\ n' <= n /\ (doomed[p] => n' = n - 1)
      /\ doomed' = [doomed EXCEPT ![p] = TRUE] => n' \in Nat /\ n' <= n + 1
  BY DoomedMoves DEF TypeInv
<1>4. /\ Margin = (crashes + errors) - n /\ Margin' = (crashes' + errors') - n'
      /\ Budget = (crashes + errors + refused) - n
      /\ Budget' = (crashes' + errors' + refused') - n'
  BY DEF Margin, Budget
<1> HIDE DEF n
<1>5. QED
  BY <1>1, <1>2, <1>3, <1>4

-------------------------------------------------------------------------------
(* Flights given up. *)

CutInv ==
    \A t \in Twjd : IsFiniteSet(cut[t]) /\ Cardinality(cut[t]) <= Budget

(* A step that gives a flight up has a failure to show for it. *)
LEMMA CutPaid ==
    ASSUME TypeInv, TypeInv', [Next]_vars
    PROVE  \/ cut' = cut /\ Budget' >= Budget
           \/ \E p \in Pod : /\ job[p] \in Twjd /\ cut' = Add(cut, job[p], counter[p])
                             /\ Budget' >= Budget + 1
<1>0. Budget \in Int /\ Budget' \in Int
  BY MarginType, MarginTypeNext
<1>1. ASSUME NEW p \in Pod, DecodeFails(p) PROVE cut' = cut /\ Budget' >= Budget
  BY <1>1, MarginMoves DEF DecodeFails, Exit
<1>2. ASSUME NEW p \in Pod, CallbackExits(p) \/ PodDies(p)
      PROVE  \/ cut' = cut /\ Budget' >= Budget
             \/ /\ job[p] \in Twjd /\ cut' = Add(cut, job[p], counter[p])
                /\ Budget' >= Budget + 1
  <2>1. Exit(p) /\ Budget' >= Budget + 1
    BY <1>2, MarginMoves DEF CallbackExits, PodDies, Exit
  <2>2. cut' = cut \/ (pc[p] # "idle" /\ cut' = Add(cut, job[p], counter[p]))
    BY <2>1 DEF Exit
  <2>3. Budget' >= Budget
    BY <1>0, <2>1
  <2>4. pc[p] # "idle" => job[p] \in Twjd
    BY DEF TypeInv, TypeOK
  <2>5. QED
    BY <2>1, <2>2, <2>3, <2>4
<1>3. ASSUME NEW p \in Pod, PushFails(p) \/ PublishFails(p) \/ FutureFails(p)
      PROVE  /\ job[p] \in Twjd /\ cut' = Add(cut, job[p], counter[p])
             /\ Budget' >= Budget + 1
  <2>1. Budget' >= Budget + 1
    BY <1>3, MarginMoves DEF PushFails, PublishFails, FutureFails
  <2>2. job[p] \in Twjd
    BY <1>3 DEF PushFails, PublishFails, FutureFails, TypeInv, TypeOK
  <2>3. QED
    BY <1>3, <2>1, <2>2 DEF PushFails, PublishFails, FutureFails
<1>4. ASSUME NEW p \in Pod, BeginFails(p) \/ PopFails(p)
      PROVE  cut' = cut /\ Budget' >= Budget
  <2>1. Budget' >= Budget + 1 /\ cut' = cut
    BY <1>4, MarginMoves DEF BeginFails, PopFails, outcome
  <2>2. QED
    BY <1>0, <2>1
<1>5. ASSUME NEW p \in Pod, GoesOn(p) \/ FlightRaises(p) \/ Ack(p)
      PROVE  cut' = cut /\ Budget' >= Budget
  <2>1. cut' = cut /\ UNCHANGED <<faults, doomed>>
    BY <1>5 DEF GoesOn, Reject, Begin, NextFlight, FlightRaises, PushMarker,
      PublishAsync, FutureSucceeds, EndOfLoop, PopMarker, Ack, outcome
  <2>2. QED
    BY <1>0, <2>1, MarginStays
<1>6. ASSUME NEW t \in Twjd, Submit(t) \/ \E p \in Pod : Receive(p, t)
      PROVE  cut' = cut /\ Budget' >= Budget
  <2>1. cut' = cut /\ UNCHANGED <<faults, doomed>>
    BY <1>6 DEF Submit, Receive, outcome
  <2>2. QED
    BY <1>0, <2>1, MarginStays
<1>7. ASSUME NEW t \in Twjd, LeaseEnds(t)
      PROVE  cut' = cut /\ Budget' >= Budget
  <2>1. cut' = cut /\ UNCHANGED doomed
    BY <1>7 DEF LeaseEnds
  <2>2. CASE UNCHANGED faults
    BY <1>0, <2>1, <2>2, MarginStays
  <2>3. CASE LeaseExtended(t) /\ Error
    <3>1. PICK p \in Pod : holder[t] = p
      BY <2>3 DEF LeaseExtended
    <3>2. Budget' >= Budget + 1
      BY <2>1, <2>3, MarginMoves
    <3>3. QED
      BY <1>0, <2>1, <3>2
  <2>4. QED
    BY <1>7, <2>2, <2>3 DEF LeaseEnds
<1>8. ASSUME NEW k \in Keys, MarkerExpires(k)
      PROVE  cut' = cut /\ Budget' >= Budget
  BY <1>0, <1>8, MarginStays DEF MarkerExpires
<1>9. CASE UNCHANGED vars
  BY <1>0, <1>9, MarginStays DEF vars, faults
<1>10. QED
  BY <1>1, <1>2, <1>3, <1>4, <1>5, <1>6, <1>7, <1>8, <1>9
     DEF Next, PodStep, PodError, GoesOn

LEMMA CutStep == TypeInv /\ CutInv /\ [Next]_vars => CutInv'
<1> SUFFICES ASSUME TypeInv, CutInv, [Next]_vars, NEW t \in Twjd
             PROVE  IsFiniteSet(cut'[t]) /\ Cardinality(cut'[t]) <= Budget'
  BY DEF CutInv
<1>1. TypeInv' /\ Budget \in Int /\ Budget' \in Int
  BY TypeStep, MarginType, MarginTypeNext
<1>2. /\ IsFiniteSet(cut[t]) /\ Cardinality(cut[t]) \in Nat
      /\ Cardinality(cut[t]) <= Budget
  BY FS_CardinalityType DEF CutInv
<1>3. CASE cut' = cut /\ Budget' >= Budget
  BY <1>1, <1>2, <1>3
<1>4. ASSUME NEW p \in Pod, job[p] \in Twjd, cut' = Add(cut, job[p], counter[p]),
             Budget' >= Budget + 1
      PROVE  IsFiniteSet(cut'[t]) /\ Cardinality(cut'[t]) <= Budget'
  <2>1. cut'[t] = cut[t] \/ cut'[t] = cut[t] \cup {counter[p]}
    BY <1>4 DEF Add, TypeInv, TypeOK
  <2>2. /\ IsFiniteSet(cut[t] \cup {counter[p]})
        /\ Cardinality(cut[t] \cup {counter[p]}) =
             IF counter[p] \in cut[t] THEN Cardinality(cut[t]) ELSE Cardinality(cut[t]) + 1
    BY <1>2, FS_AddElement
  <2>3. QED
    BY <1>1, <1>2, <1>4, <2>1, <2>2
<1>5. QED
  BY <1>1, <1>3, <1>4, CutPaid

LEMMA CutInit == Init => CutInv
<1> SUFFICES ASSUME Init, NEW t \in Twjd
             PROVE  IsFiniteSet(cut[t]) /\ Cardinality(cut[t]) <= Budget
  BY DEF CutInv
<1>1. cut[t] = {} /\ Doomed = {} /\ crashes = 0 /\ errors = 0 /\ refused = 0
  BY DEF Init, Doomed
<1>2. Cardinality({}) = 0 /\ IsFiniteSet({})
  BY FS_EmptySet
<1>3. QED
  BY <1>1, <1>2 DEF Budget

(* Deaths and errors cost an acked message at most a flight each, a failed   *)
(* future two, for any number of pods: a message none of whose fellows was   *)
(* submitted has done with its flights by its own runs.                      *)
THEOREM LossIsBounded == Spec => []LossBounded
<1>1. ASSUME Inv, CutInv, UnsentInv, NEW t \in Twjd, queue[t] = "acked",
             Processed(t), Unshared(t), ~DryRun(t)
      PROVE  Cardinality(Missing(t)) <= crashes + errors + refused
  <2>1. Missing(t) \subseteq cut[t]
    <3>1. ASSUME NEW i \in Missing(t) PROVE i \in cut[t]
      <4>1. i \in Flights(t) /\ Verdicts[t][i] = "good" /\ i \notin sent[t] /\ ~InHand(t, i)
        BY DEF Missing
      <4>2. \A u \in Fellows(t) \ {t} : worked[u] = {}
        BY <1>1, FellowsShare DEF Unshared, UnsentInv
      <4>3. Done(t, i)
        BY <1>1, <4>1 DEF Inv, AckedInv
      <4>4. Owned(t, i)
        BY <4>2, <4>3 DEF Done, Owned
      <4>5. QED
        BY <1>1, <4>1, <4>4 DEF Owned, Firm, Settled
    <3>2. QED
      BY <3>1
  <2>2. /\ IsFiniteSet(cut[t]) /\ Cardinality(cut[t]) <= Budget
        /\ Cardinality(cut[t]) \in Nat
    BY <1>1, FS_CardinalityType DEF CutInv
  <2>3. Cardinality(Missing(t)) <= Cardinality(cut[t]) /\ Cardinality(Missing(t)) \in Nat
    BY <2>1, <2>2, FS_Subset, FS_CardinalityType
  <2>4. Cardinality(Doomed) \in Nat /\ crashes \in Nat /\ errors \in Nat
        /\ refused \in Nat
    BY <1>1, DoomedCount, FaultsCount DEF Inv, TypeInv
  <2> DEFINE n == Cardinality(Doomed)
             m == Cardinality(Missing(t))
             c == Cardinality(cut[t])
  <2>5. /\ m <= c /\ c <= (crashes + errors + refused) - n /\ m \in Nat /\ c \in Nat
        /\ n \in Nat /\ crashes \in Nat /\ errors \in Nat /\ refused \in Nat
    BY <2>2, <2>3, <2>4 DEF Budget
  <2> HIDE DEF m, n, c
  <2>6. m <= crashes + errors + refused
    BY <2>5
  <2>7. QED
    BY <2>6 DEF m
<1> DEFINE I == Inv /\ CutInv /\ UnsentInv
<1>2. I => LossBounded
  BY <1>1 DEF LossBounded
<1>3. Inv => TypeInv
  BY DEF Inv
<1>4. I /\ [Next]_vars => I'
  BY <1>3, InvStep, CutStep, UnsentStep
<1>5. Init => I
  BY InvInit, CutInit, UnsentInit
<1>6. QED
  BY <1>2, <1>4, <1>5, PTL DEF Spec
-------------------------------------------------------------------------------
(* Dead letters: every delivery that ends without an ack has cost a failure. *)

Busy(t) == queue[t] = "out" /\ LeaseExtended(t)

(* The deliveries of a message that have ended. *)
Spent(t) == deliveries[t] - (IF Busy(t) THEN 1 ELSE 0)

Within == \A t \in Twjd : Healthy(t) /\ queue[t] # "acked" => Spent(t) <= Margin

DeadInv == \A t \in Twjd : queue[t] = "dead" => deliveries[t] = MaxDeliveries

LetterInv == Within /\ DeadInv

LEMMA SpentType ==
    ASSUME TypeInv, NEW t \in Twjd
    PROVE  /\ Spent(t) \in Int /\ Spent(t) <= deliveries[t]
           /\ deliveries[t] \in Nat /\ deliveries[t] <= MaxDeliveries /\ MaxDeliveries \in Nat
<1>1. MaxDeliveries \in Nat /\ deliveries[t] \in 0 .. MaxDeliveries
  BY JobFactoryAssumption DEF TypeInv, TypeOK
<1>2. QED
  BY <1>1 DEF Spent

(* A step that takes no message from a pod ends no delivery. *)
LEMMA LettersStay ==
    ASSUME TypeInv, TypeInv', LetterInv, UNCHANGED <<holder, deliveries, job>>,
           \A p \in Pod : pc'[p] = "idle" <=> pc[p] = "idle",
           \A t \in Twjd : queue'[t] = queue[t] \/ (queue[t] = "unsent" /\ queue'[t] = "ready"),
           Margin' >= Margin
    PROVE  LetterInv'
<1>1. ASSUME NEW t \in Twjd, Healthy(t), queue'[t] # "acked"
      PROVE  Spent(t)' <= Margin'
  <2>1. Busy(t)' <=> Busy(t)
    BY DEF Busy, LeaseExtended
  <2>2. Spent(t)' = Spent(t) /\ Spent(t) \in Int
    BY <2>1, SpentType DEF Spent
  <2>3. Spent(t) <= Margin
    BY <1>1 DEF LetterInv, Within
  <2>4. Margin \in Int /\ Margin' \in Int
    BY MarginType, MarginTypeNext
  <2>5. QED
    BY <2>2, <2>3, <2>4
<1>2. DeadInv'
  BY DEF LetterInv, DeadInv
<1>3. QED
  BY <1>1, <1>2 DEF LetterInv, Within, Healthy, Rejected, Valid, Flights

(* Nor does the end of an idle pod's process. *)
LEMMA IdleStays ==
    ASSUME TypeInv, TypeInv', LetterInv, NEW p \in Pod, pc[p] = "idle", Exit(p),
           UNCHANGED subscription, UNCHANGED pc, Margin' >= Margin
    PROVE  LetterInv'
<1>1. UNCHANGED <<queue, holder, deliveries>> /\ job' = [job EXCEPT ![p] = None]
  BY DEF subscription, Exit, Reset
<1>2. ASSUME NEW t \in Twjd, Healthy(t), queue'[t] # "acked"
      PROVE  Spent(t)' <= Margin'
  <2>1. \A q \in Pod : pc[q] # "idle" => job'[q] = job[q]
    BY <1>1 DEF TypeInv, TypeOK
  <2>2. Busy(t)' <=> Busy(t)
    BY <1>1, <2>1 DEF Busy, LeaseExtended
  <2>3. Spent(t)' = Spent(t) /\ Spent(t) \in Int /\ Spent(t) <= Margin
    BY <1>1, <1>2, <2>2, SpentType DEF Spent, LetterInv, Within
  <2>4. Margin \in Int /\ Margin' \in Int
    BY MarginType, MarginTypeNext
  <2>5. QED
    BY <2>3, <2>4
<1>3. DeadInv'
  BY <1>1 DEF LetterInv, DeadInv
<1>4. QED
  BY <1>2, <1>3 DEF LetterInv, Within, Healthy, Rejected, Valid, Flights

(* One that does ends at most that of the message it takes, and a failure    *)
(* pays for it, unless the message is acked or cannot be worked on.          *)
LEMMA LettersAtReset ==
    ASSUME TypeInv, TypeInv', LetterInv, NEW p \in Pod, pc[p] # "idle", Reset(p),
           UNCHANGED <<holder, deliveries>>,
           \A t \in Twjd : queue'[t] = queue[t] \/ queue'[t] = "acked",
           Margin' >= Margin,
           \/ Margin' >= Margin + 1
           \/ ~Healthy(job[p])
           \/ queue[job[p]] = "out" /\ holder[job[p]] = p => queue'[job[p]] = "acked"
    PROVE  LetterInv'
<1>1. /\ job[p] \in Twjd /\ pc'[p] = "idle"
      /\ \A q \in Pod \ {p} : pc'[q] = pc[q] /\ job'[q] = job[q]
  BY DEF TypeInv, TypeOK, Reset, Goto
<1>2. ASSUME NEW t \in Twjd, Healthy(t), queue'[t] # "acked"
      PROVE  Spent(t)' <= Margin'
  <2>0. /\ Margin \in Int /\ Margin' \in Int /\ Spent(t) \in Int /\ Spent(t) <= Margin
        /\ deliveries[t] \in Nat
    BY <1>2, MarginType, MarginTypeNext, SpentType DEF LetterInv, Within
  <2>1. Busy(t)' => Busy(t)
    BY <1>1, <1>2 DEF Busy, LeaseExtended
  <2>2. Busy(t) /\ ~(t = job[p] /\ holder[t] = p) => Busy(t)'
    BY <1>1, <1>2 DEF Busy, LeaseExtended
  <2>3. CASE Busy(t)' <=> Busy(t)
    BY <2>0, <2>3 DEF Spent
  <2>4. CASE Busy(t) /\ ~Busy(t)'
    <3>1. t = job[p] /\ holder[t] = p /\ queue[t] = "out"
      BY <2>2, <2>4 DEF Busy
    <3>2. Margin' >= Margin + 1
      BY <1>2, <3>1
    <3>3. Spent(t)' = Spent(t) + 1
      BY <2>0, <2>4 DEF Spent
    <3>4. QED
      BY <2>0, <3>2, <3>3
  <2>5. QED
    BY <2>1, <2>3, <2>4
<1>3. DeadInv'
  BY DEF LetterInv, DeadInv
<1>4. QED
  BY <1>2, <1>3 DEF LetterInv, Within, Healthy, Rejected, Valid, Flights

(* A lease that a pod extends ends in error only. *)
LEMMA LettersAtLeaseEnd ==
    ASSUME TypeInv, TypeInv', LetterInv, NEW t \in Twjd, LeaseEnds(t)
    PROVE  LetterInv'
<1>0. Margin \in Int /\ Margin' \in Int
  BY MarginType, MarginTypeNext
<1>1. /\ queue[t] = "out" /\ UNCHANGED <<holder, deliveries, pc, job, doomed>>
      /\ \A u \in Twjd \ {t} : queue'[u] = queue[u]
      /\ queue'[t] = IF deliveries[t] < MaxDeliveries THEN "ready" ELSE "dead"
  BY DEF LeaseEnds, loop, TypeInv, TypeOK
<1>2. Margin' >= Margin /\ (LeaseExtended(t) => Margin' >= Margin + 1)
  <2>1. CASE LeaseExtended(t)
    <3>1. Error /\ \E p \in Pod : TRUE
      BY <2>1 DEF LeaseEnds, LeaseExtended
    <3>2. Margin' >= Margin + 1
      BY <1>1, <3>1, MarginMoves
    <3>3. QED
      BY <1>0, <3>2
  <2>2. CASE ~LeaseExtended(t)
    BY <1>0, <1>1, <2>2, MarginStays DEF LeaseEnds
  <2>3. QED
    BY <2>1, <2>2
<1>3. ASSUME NEW u \in Twjd, Healthy(u), queue'[u] # "acked"
      PROVE  Spent(u)' <= Margin'
  <2>1. Spent(u) \in Int /\ Spent(u) <= Margin /\ deliveries[u] \in Nat
    BY <1>1, <1>3, SpentType DEF LetterInv, Within
  <2>2. LeaseExtended(u)' <=> LeaseExtended(u)
    BY <1>1 DEF LeaseExtended
  <2>3. CASE u # t
    <3>1. Spent(u)' = Spent(u)
      BY <1>1, <2>2, <2>3 DEF Spent, Busy
    <3>2. QED
      BY <1>0, <1>2, <2>1, <3>1
  <2>4. CASE u = t
    <3>1. ~Busy(t)' /\ (Busy(t) <=> LeaseExtended(t))
      BY <1>1 DEF Busy
    <3>2. Spent(t)' = IF LeaseExtended(t) THEN Spent(t) + 1 ELSE Spent(t)
      BY <1>1, <2>1, <2>4, <3>1 DEF Spent
    <3>3. QED
      BY <1>0, <1>2, <2>1, <2>4, <3>2
  <2>5. QED
    BY <2>3, <2>4
<1>4. DeadInv'
  <2>1. ASSUME NEW u \in Twjd, queue'[u] = "dead" PROVE deliveries'[u] = MaxDeliveries
    BY <1>1, <2>1, SpentType DEF LetterInv, DeadInv
  <2>2. QED
    BY <2>1 DEF DeadInv
<1>5. QED
  BY <1>3, <1>4 DEF LetterInv, Within, Healthy, Rejected, Valid, Flights

(* A delivery that begins is not spent yet. *)
LEMMA LettersAtReceive ==
    ASSUME TypeInv, TypeInv', LetterInv, NEW p \in Pod, NEW t \in Twjd, Receive(p, t)
    PROVE  LetterInv'
<1>0. Margin \in Int /\ Margin' = Margin
  BY MarginType, MarginStays DEF Receive
<1>1. /\ pc[p] = "idle" /\ queue[t] = "ready"
      /\ queue'[t] = "out" /\ holder'[t] = p /\ deliveries'[t] = deliveries[t] + 1
      /\ job'[p] = t /\ pc'[p] = "start"
      /\ \A u \in Twjd \ {t} : /\ queue'[u] = queue[u] /\ holder'[u] = holder[u]
                               /\ deliveries'[u] = deliveries[u]
      /\ \A q \in Pod \ {p} : pc'[q] = pc[q] /\ job'[q] = job[q]
  BY DEF Receive, Goto, TypeInv, TypeOK
<1>2. ASSUME NEW u \in Twjd PROVE Spent(u)' = Spent(u)
  <2>1. deliveries[u] \in Nat
    BY SpentType
  <2>2. CASE u = t
    <3>1. Busy(t)' /\ ~Busy(t)
      BY <1>1 DEF Busy, LeaseExtended
    <3>2. QED
      BY <1>1, <2>1, <2>2, <3>1 DEF Spent
  <2>3. CASE u # t
    <3>1. Busy(u)' <=> Busy(u)
      BY <1>1, <2>3 DEF Busy, LeaseExtended
    <3>2. QED
      BY <1>1, <2>3, <3>1 DEF Spent
  <2>4. QED
    BY <2>2, <2>3
<1>3. \A u \in Twjd : queue'[u] \in {"acked", "dead"} => queue'[u] = queue[u] /\ u # t
  BY <1>1
<1>4. \A u \in Twjd : queue'[u] # "acked" => queue[u] # "acked"
  BY <1>1
<1>5. Within'
  BY <1>0, <1>2, <1>4 DEF LetterInv, Within, Healthy, Rejected, Valid, Flights
<1>6. DeadInv'
  BY <1>1, <1>3 DEF LetterInv, DeadInv
<1>7. QED
  BY <1>5, <1>6 DEF LetterInv

LEMMA LettersAtPodStep ==
    ASSUME Inv, TypeInv', LetterInv, NEW p \in Pod, PodStep(p) \/ PodError(p) \/ PodDies(p)
    PROVE  LetterInv'
<1>0. TypeInv /\ Margin \in Int /\ Margin' \in Int
  BY MarginType, MarginTypeNext DEF Inv
<1>1. CASE GoesOn(p) \/ PushFails(p) \/ PublishFails(p) \/ FutureFails(p)
  <2>1. UNCHANGED <<queue, holder, deliveries, job>>
    BY <1>1 DEF GoesOn, Reject, Begin, NextFlight, PushMarker, PublishAsync, FutureSucceeds,
      EndOfLoop, PopMarker, PushFails, PublishFails, FutureFails, subscription, loop
  <2>2. \A q \in Pod : pc'[q] = "idle" <=> pc[q] = "idle"
    <3>1. PICK stage : pc' = [pc EXCEPT ![p] = stage] /\ stage # "idle" /\ pc[p] # "idle"
      <4>1. CASE NextFlight(p)
        <5>1. pc[p] = "loop"
          BY <4>1 DEF NextFlight, HasNext
        <5>2. \E stage \in {"loop", "push", "publish"} : pc' = [pc EXCEPT ![p] = stage]
          BY <4>1 DEF NextFlight, Goto
        <5>3. QED
          BY <5>1, <5>2
      <4>2. CASE ~NextFlight(p)
        BY <1>1, <4>2 DEF GoesOn, Reject, Begin, PushMarker, PublishAsync,
          FutureSucceeds, EndOfLoop, PopMarker, PushFails, PublishFails, FutureFails, Goto
      <4>3. QED
        BY <4>1, <4>2
    <3>2. QED
      BY <1>0, <3>1 DEF TypeInv, TypeOK
  <2>3. Margin' >= Margin
    <3>1. CASE GoesOn(p)
      <4>1. UNCHANGED <<faults, doomed>>
        BY <3>1 DEF GoesOn, Reject, Begin, NextFlight, PushMarker, PublishAsync, FutureSucceeds,
          EndOfLoop, PopMarker
      <4>2. QED
        BY <1>0, <4>1, MarginStays
    <3>2. CASE PushFails(p) \/ PublishFails(p)
      <4>1. Margin' >= Margin + 1
        BY <1>0, <3>2, MarginMoves DEF PushFails, PublishFails
      <4>2. QED
        BY <1>0, <4>1
    <3>3. CASE FutureFails(p)
      BY <1>0, <3>3, MarginMoves DEF FutureFails
    <3>4. QED
      BY <1>1, <3>1, <3>2, <3>3
  <2>4. QED
    BY <1>0, <2>1, <2>2, <2>3, LettersStay
<1>2. CASE BeginFails(p) \/ PopFails(p)
  <2>1. Margin' >= Margin + 1
    BY <1>0, <1>2, MarginMoves DEF BeginFails, PopFails
  <2>2. Margin' >= Margin
    BY <1>0, <2>1
  <2>3. QED
    BY <1>0, <1>2, <2>1, <2>2, LettersAtReset DEF BeginFails, PopFails, subscription
<1>3. CASE FlightRaises(p)
  <2>1. Margin' >= Margin
    BY <1>0, <1>3, MarginStays DEF FlightRaises
  <2>2. ~Healthy(job[p])
    <3>1. pc[p] = "loop" /\ counter[p] \in Nat /\ job[p] \in Twjd
      BY <1>0, <1>3 DEF FlightRaises, HasNext, TypeInv, TypeOK
    <3>2. Processed(job[p])
      BY <3>1 DEF Inv, PodInv
    <3>3. counter[p] + 1 \in Flights(job[p]) /\ Verdicts[job[p]][counter[p] + 1] = "poison"
      BY <1>3, <3>1, FlightsType DEF FlightRaises, HasNext, NextVerdict, Flights
    <3>4. QED
      BY <3>2, <3>3 DEF Healthy, Processed
  <2>3. QED
    BY <1>0, <1>3, <2>1, <2>2, LettersAtReset DEF FlightRaises, HasNext, subscription
<1>4. CASE DecodeFails(p)
  <2>1. Margin' >= Margin
    BY <1>0, <1>4, MarginMoves DEF DecodeFails, Exit
  <2>2. QED
    BY <1>0, <1>4, <2>1, LettersAtReset DEF DecodeFails, Exit, subscription, Healthy
<1>5. CASE CallbackExits(p) \/ PodDies(p)
  <2>1. Margin' >= Margin + 1 /\ Exit(p) /\ UNCHANGED subscription
    BY <1>0, <1>5, MarginMoves DEF CallbackExits, PodDies, Exit
  <2>2. Margin' >= Margin
    BY <1>0, <2>1
  <2>3. CASE pc[p] = "idle"
    <3>1. UNCHANGED pc
      BY <1>0, <2>1, <2>3 DEF Exit, Reset, Goto, TypeInv, TypeOK
    <3>2. QED
      BY <1>0, <2>1, <2>2, <2>3, <3>1, IdleStays
  <2>4. CASE pc[p] # "idle"
    BY <1>0, <2>1, <2>2, <2>4, LettersAtReset DEF Exit, subscription
  <2>5. QED
    BY <2>3, <2>4
<1>6. CASE Ack(p)
  <2>1. Margin' >= Margin
    BY <1>0, <1>6, MarginStays DEF Ack
  <2>2. pc[p] = "ack" /\ Reset(p) /\ UNCHANGED <<holder, deliveries>> /\ job[p] \in Twjd
    BY <1>0, <1>6 DEF Ack, TypeInv, TypeOK
  <2>3. /\ \A t \in Twjd : queue'[t] = queue[t] \/ queue'[t] = "acked"
        /\ queue[job[p]] = "out" /\ holder[job[p]] = p => queue'[job[p]] = "acked"
    BY <1>0, <1>6, <2>2 DEF Ack, TypeInv, TypeOK
  <2>4. QED
    BY <1>0, <2>1, <2>2, <2>3, LettersAtReset
<1>7. QED
  BY <1>1, <1>2, <1>3, <1>4, <1>5, <1>6 DEF PodStep, PodError, GoesOn

LEMMA LetterStep == Inv /\ LetterInv /\ [Next]_vars => LetterInv'
<1> SUFFICES ASSUME Inv, LetterInv, [Next]_vars PROVE LetterInv'
  OBVIOUS
<1>0. TypeInv /\ TypeInv' /\ Margin \in Int
  BY TypeStep, MarginType DEF Inv
<1>1. ASSUME NEW t \in Twjd, Submit(t) PROVE LetterInv'
  <2>1. Margin' >= Margin
    BY <1>0, <1>1, MarginStays DEF Submit
  <2>2. \A u \in Twjd : queue'[u] = queue[u] \/ (queue[u] = "unsent" /\ queue'[u] = "ready")
    BY <1>0, <1>1 DEF Submit, TypeInv, TypeOK
  <2>3. QED
    BY <1>0, <1>1, <2>1, <2>2, LettersStay DEF Submit, loop
<1>2. ASSUME NEW k \in Keys, MarkerExpires(k) PROVE LetterInv'
  <2>1. Margin' >= Margin
    BY <1>0, <1>2, MarginStays DEF MarkerExpires
  <2>2. QED
    BY <1>0, <1>2, <2>1, LettersStay DEF MarkerExpires, loop, subscription
<1>3. CASE UNCHANGED vars
  <2>1. Margin' >= Margin
    BY <1>0, <1>3, MarginStays DEF vars, faults
  <2>2. QED
    BY <1>0, <1>3, <2>1, LettersStay DEF vars
<1>4. QED
  BY <1>0, <1>1, <1>2, <1>3, LettersAtLeaseEnd, LettersAtReceive, LettersAtPodStep DEF Next

LEMMA LetterInit == Init => LetterInv
<1> SUFFICES ASSUME Init PROVE LetterInv
  OBVIOUS
<1>1. Doomed = {} /\ crashes = 0 /\ errors = 0
  BY DEF Init, Doomed
<1>2. Margin = 0
  BY <1>1, FS_EmptySet DEF Margin
<1>3. \A t \in Twjd : queue[t] = "unsent" /\ deliveries[t] = 0
  BY DEF Init
<1>4. \A t \in Twjd : Spent(t) = 0
  BY <1>3 DEF Spent, Busy
<1>5. QED
  BY <1>2, <1>3, <1>4 DEF LetterInv, Within, DeadInv

(* A message that can be worked on is dead-lettered only when a death or an  *)
(* error ended each of its deliveries.                                      *)
THEOREM DeadLettersAreEarned == Spec => []DeadLetterNeedsFailure
<1>1. ASSUME Inv, LetterInv, NEW t \in Twjd, queue[t] = "dead", Healthy(t)
      PROVE  crashes + errors >= MaxDeliveries
  <2>1. TypeInv
    BY <1>1 DEF Inv
  <2>2. Spent(t) = MaxDeliveries /\ MaxDeliveries \in Nat
    <3>1. deliveries[t] = MaxDeliveries /\ ~Busy(t) /\ MaxDeliveries \in Nat
      BY <1>1, <2>1, SpentType DEF LetterInv, DeadInv, Busy
    <3>2. QED
      BY <3>1 DEF Spent
  <2>3. Spent(t) <= Margin
    BY <1>1 DEF LetterInv, Within
  <2> DEFINE n == Cardinality(Doomed)
  <2>4. n \in Nat /\ crashes \in Nat /\ errors \in Nat /\ Margin = (crashes + errors) - n
    BY <2>1, DoomedCount, FaultsCount DEF TypeInv, Margin
  <2> HIDE DEF n
  <2>5. QED
    BY <2>2, <2>3, <2>4
<1>2. Inv /\ LetterInv => DeadLetterNeedsFailure
  BY <1>1 DEF DeadLetterNeedsFailure
<1>3. Inv /\ LetterInv /\ [Next]_vars => (Inv /\ LetterInv)'
  BY InvStep, LetterStep
<1>4. QED
  BY <1>2, <1>3, InvInit, LetterInit, PTL DEF Spec
-------------------------------------------------------------------------------
(* Flights published again.  While a message has its lease and its marker,   *)
(* one pod works on it, and its marker is at the last flight it has sent.    *)

Own(t) == Cached(t) /\ Unshared(t) /\ t \notin relapsed

Reached(t) == redis[CacheKey(t)]

(* Where a pod is with respect to the marker of the message it works on. *)
AtMarker(p, t) ==
    /\ queue[t] = "out" /\ holder[t] = p
    /\ pc[p] = "loop" => Reached(t) <= marker[p] \/ Reached(t) <= counter[p]
    /\ pc[p] = "push" => Reached(t) < counter[p]
    /\ pc[p] \in Publishing => Reached(t) = counter[p] /\ counter[p] \notin sent[t]

SentInv(t) == resent[t] = {} /\ \A i \in sent[t] : i <= Reached(t)

OwnInv(t) ==
    Own(t) =>
        /\ SentInv(t)
        /\ \A p \in Pod : pc[p] # "idle" /\ job[p] = t => AtMarker(p, t)

(* Only the message's own pods write an unshared marker: whoever else has    *)
(* its key was never submitted.                                             *)
LEMMA OwnKey ==
    ASSUME UnsentInv, NEW t \in Twjd, Cached(t), Unshared(t),
           NEW p \in Pod, pc[p] # "idle", job[p] \in Twjd \ {t}
    PROVE  CacheKey(job[p]) # CacheKey(t)
<1>1. queue[job[p]] # "unsent"
  BY DEF UnsentInv
<1>2. QED
  BY <1>1, FellowsShare DEF Unshared

(* Steps beside a message leave it as it was. *)
LEMMA OwnStays ==
    ASSUME TypeInv, NEW t \in Twjd, OwnInv(t), Own(t)' => Own(t),
           redis'[CacheKey(t)] = redis[CacheKey(t)],
           sent'[t] = sent[t], resent'[t] = resent[t],
           \A p \in Pod : pc'[p] # "idle" /\ job'[p] = t =>
               /\ SameWork(p)
               /\ queue'[t] = queue[t] /\ holder'[t] = holder[t]
    PROVE  OwnInv(t)'
<1> SUFFICES ASSUME Own(t)'
             PROVE  /\ SentInv(t)'
                    /\ \A p \in Pod : pc'[p] # "idle" /\ job'[p] = t => AtMarker(p, t)'
  BY DEF OwnInv
<1>1. Own(t) /\ Reached(t)' = Reached(t) /\ SentInv(t)
  BY DEF OwnInv, Reached, CacheKey
<1>2. SentInv(t)'
  BY <1>1 DEF SentInv
<1>3. ASSUME NEW p \in Pod, pc'[p] # "idle", job'[p] = t
      PROVE  AtMarker(p, t)'
  <2>1. SameWork(p) /\ queue'[t] = queue[t] /\ holder'[t] = holder[t]
    BY <1>3
  <2>2. AtMarker(p, t)
    BY <1>1, <1>3, <2>1 DEF OwnInv, SameWork
  <2>3. QED
    BY <1>1, <2>1, <2>2 DEF AtMarker, SameWork
<1>4. QED
  BY <1>2, <1>3

(* What was once no longer its own does not become so again. *)
LEMMA OwnShrinks ==
    ASSUME TypeInv, [Next]_vars, NEW t \in Twjd
    PROVE  Own(t)' => Own(t)
<1>1. relapsed \subseteq relapsed'
  BY DEF Next, vars, Submit, LeaseEnds, MarkerExpires, Receive, PodStep,
    PodError, PodDies, DecodeFails, Reject, Begin, NextFlight, FlightRaises,
    PushMarker, PublishAsync, FutureSucceeds, CallbackExits, EndOfLoop,
    PopMarker, RemoveMarker, Ack, BeginFails, PushFails, PublishFails, FutureFails,
    PopFails, Exit, outcome
<1>2. Unshared(t)' => Unshared(t)
  BY SubmittedStays, FellowsShare, FellowsStay DEF Unshared, TypeInv
<1>3. QED
  BY <1>1, <1>2 DEF Own, Cached, CacheKey

(* The step of a pod that works on another message. *)
LEMMA OthersKeepOwn ==
    ASSUME TypeInv, UnsentInv, [Next]_vars, NEW t \in Twjd, OwnInv(t), Own(t), NEW p \in Pod,
           PodStep(p) \/ PodError(p) \/ PodDies(p), job[p] # t \/ pc[p] = "idle"
    PROVE  OwnInv(t)'
<1>1. job[p] \in Twjd \cup {None} /\ (pc[p] # "idle" => job[p] \in Twjd)
  BY DEF TypeInv, TypeOK
<1>2. pc[p] # "idle" => CacheKey(job[p]) # CacheKey(t)
  BY <1>1, OwnKey DEF Own
<1>3. CASE pc[p] = "idle"
  <2>1. Exit(p) /\ UNCHANGED <<subscription, redis>> /\ UNCHANGED topic
    BY <1>3 DEF PodStep, PodError, PodDies, DecodeFails, Reject, Begin, NextFlight, HasNext,
      FlightRaises, PushMarker, PublishAsync, FutureSucceeds, CallbackExits, EndOfLoop,
      PopMarker, Ack, BeginFails, PushFails, PublishFails, FutureFails, PopFails, Exit
  <2>2. pc'[p] = "idle" /\ \A q \in Pod \ {p} : SameWork(q)
    BY <2>1 DEF Exit, Reset, Goto, SameWork, TypeInv, TypeOK
  <2>3. QED
    BY <2>1, <2>2, OwnStays DEF subscription, topic
<1>4. CASE pc[p] # "idle"
  <2>1. job[p] \in Twjd \ {t} /\ CacheKey(job[p]) # CacheKey(t)
    BY <1>1, <1>2, <1>4
  <2>2. redis'[CacheKey(t)] = redis[CacheKey(t)]
    <3>1. redis' = redis \/ \E n : redis' = [redis EXCEPT ![CacheKey(job[p])] = n]
      BY DEF PodStep, PodError, PodDies, DecodeFails, Reject, Begin, NextFlight,
        FlightRaises, PushMarker, PublishAsync, FutureSucceeds, CallbackExits, EndOfLoop,
        PopMarker, RemoveMarker, Ack, BeginFails, PushFails, PublishFails, FutureFails, PopFails
    <3>2. CacheKey(t) \in Keys /\ redis \in [Keys -> Nat]
      BY KeyOfCached DEF Own, TypeInv, TypeOK
    <3>3. QED
      BY <2>1, <3>1, <3>2
  <2>3. sent'[t] = sent[t] /\ resent'[t] = resent[t]
    <3>1. UNCHANGED topic \/ Accepted(p)
      BY DEF PodStep, PodError, PodDies, DecodeFails, Reject, Begin, NextFlight,
        FlightRaises, PushMarker, PublishAsync, FutureSucceeds, CallbackExits, EndOfLoop,
        PopMarker, Ack, BeginFails, PushFails, PublishFails, FutureFails, PopFails, Exit,
        outcome, topic
    <3>2. QED
      BY <2>1, <3>1 DEF Accepted, Add, topic, TypeInv, TypeOK
  <2>4. queue'[t] = queue[t] /\ holder'[t] = holder[t]
    BY <2>1 DEF PodStep, PodError, PodDies, DecodeFails, Reject, Begin, NextFlight,
      FlightRaises, PushMarker, PublishAsync, FutureSucceeds, CallbackExits, EndOfLoop,
      PopMarker, Ack, BeginFails, PushFails, PublishFails, FutureFails, PopFails,
      subscription, TypeInv, TypeOK
  <2>5. job'[p] # t \/ pc'[p] = "idle"
    BY <2>1 DEF PodStep, PodError, PodDies, DecodeFails, Reject, Begin, NextFlight,
      FlightRaises, PushMarker, PublishAsync, FutureSucceeds, CallbackExits, EndOfLoop,
      PopMarker, Ack, BeginFails, PushFails, PublishFails, FutureFails, PopFails, Exit,
      Reset, Goto, loop, TypeInv, TypeOK
  <2>6. \A q \in Pod \ {p} : SameWork(q)
    BY OthersStay DEF PodActs, TypeInv
  <2>7. QED
    BY <2>2, <2>3, <2>4, <2>5, <2>6, OwnStays
<1>5. QED
  BY <1>3, <1>4
(* The step of the pod that works on the message: no other pod does. *)
LEMMA PodKeepsOwn ==
    ASSUME TypeInv, [Next]_vars, NEW t \in Twjd, OwnInv(t), Own(t)', Own(t), NEW p \in Pod,
           PodStep(p) \/ PodError(p) \/ PodDies(p), job[p] = t, pc[p] # "idle"
    PROVE  OwnInv(t)'
<1>0. /\ CacheKey(t) \in Keys /\ Reached(t) \in Nat /\ counter[p] \in Nat /\ marker[p] \in Nat
      /\ redis \in [Keys -> Nat] /\ counter \in [Pod -> Nat] /\ marker \in [Pod -> Nat]
      /\ pc \in [Pod -> Stages] /\ Reached(t)' = redis'[CacheKey(t)] /\ Cached(t)
      /\ sent[t] \subseteq Nat
  BY KeyOfCached DEF Own, TypeInv, TypeOK, Reached, CacheKey
<1>1. AtMarker(p, t) /\ SentInv(t)
  BY DEF OwnInv
<1>2. \A q \in Pod \ {p} : ~(pc'[q] # "idle" /\ job'[q] = t)
  <2>1. \A q \in Pod \ {p} : SameWork(q)
    BY OthersStay DEF PodActs, TypeInv
  <2>2. \A q \in Pod : pc[q] # "idle" /\ job[q] = t => holder[t] = q
    BY DEF OwnInv, AtMarker
  <2>3. QED
    BY <1>1, <2>1, <2>2 DEF AtMarker, SameWork
<1>3. SUFFICES /\ SentInv(t)'
               /\ pc'[p] # "idle" /\ job'[p] = t => AtMarker(p, t)'
  BY <1>2 DEF OwnInv
<1>4. ASSUME Accepted(p), pc[p] = "wait", redis' = redis
      PROVE  SentInv(t)'
  <2>1. Reached(t) = counter[p] /\ counter[p] \notin sent[t]
    BY <1>1, <1>4 DEF AtMarker, Publishing
  <2>2. sent'[t] = sent[t] \cup {counter[p]} /\ resent' = resent
    BY <1>4, <2>1 DEF Accepted, Add, TypeInv, TypeOK
  <2>3. QED
    BY <1>0, <1>1, <1>4, <2>1, <2>2 DEF SentInv, Reached
<1>5. ASSUME UNCHANGED topic, redis' = redis
      PROVE  SentInv(t)'
  BY <1>0, <1>1, <1>5 DEF SentInv, topic, Reached
<1>6. CASE Exit(p) /\ redis' = redis
  <2>1. pc'[p] = "idle"
    BY <1>0, <1>6 DEF Exit, Reset, Goto
  <2>2. SentInv(t)'
    BY <1>4, <1>5, <1>6 DEF Exit
  <2>3. QED
    BY <2>1, <2>2
<1>7. CASE Reset(p) /\ UNCHANGED <<redis, topic>>
  <2>1. pc'[p] = "idle"
    BY <1>0, <1>7 DEF Reset, Goto
  <2>2. QED
    BY <1>5, <1>7, <2>1
<1>8. CASE Reject(p)
  <2>1. pc'[p] = "ack" /\ UNCHANGED <<redis, topic, subscription>>
    BY <1>0, <1>8 DEF Reject, Goto, outcome, topic
  <2>2. QED
    BY <1>1, <1>5, <2>1 DEF AtMarker, subscription, Publishing
<1>9. CASE Begin(p)
  <2>1. /\ pc'[p] = "loop" /\ marker'[p] = Reached(t) /\ UNCHANGED <<redis, topic, subscription>>
    BY <1>0, <1>9 DEF Begin, Goto, outcome, topic, Reached
  <2>2. QED
    BY <1>0, <1>1, <1>5, <2>1 DEF AtMarker, subscription, Publishing, Reached
<1>10. CASE NextFlight(p)
  <2>1. /\ pc[p] = "loop" /\ pc'[p] \in {"loop", "push"} /\ counter'[p] = counter[p] + 1
        /\ pc'[p] = "push" => counter[p] >= marker[p]
        /\ UNCHANGED <<redis, topic, subscription, marker>>
    BY <1>0, <1>10 DEF NextFlight, HasNext, FastForwards, Goto, outcome, topic
  <2>2. Reached(t) <= marker[p] \/ Reached(t) <= counter[p]
    BY <1>1, <2>1 DEF AtMarker
  <2>3. Reached(t)' = Reached(t)
    BY <1>0, <2>1 DEF Reached
  <2>4. QED
    BY <1>0, <1>1, <1>5, <2>1, <2>2, <2>3 DEF AtMarker, subscription, Publishing
<1>11. CASE PushMarker(p) \/ PushFails(p)
  <2>1. /\ pc[p] = "push" /\ redis' \in {redis, [redis EXCEPT ![CacheKey(t)] = counter[p]]}
        /\ UNCHANGED <<topic, subscription, counter, marker>>
        /\ pc'[p] \in {"loop", "publish"}
        /\ pc'[p] = "publish" => redis' = [redis EXCEPT ![CacheKey(t)] = counter[p]]
    BY <1>0, <1>11 DEF PushMarker, PushFails, Goto, outcome, topic, loop
  <2>2. Reached(t) < counter[p]
    BY <1>1, <2>1 DEF AtMarker
  <2>3. /\ Reached(t)' = Reached(t) \/ Reached(t)' = counter[p]
        /\ pc'[p] = "publish" => Reached(t)' = counter[p]
    BY <1>0, <2>1 DEF Reached
  <2>4. Reached(t) <= Reached(t)' /\ Reached(t)' <= counter[p] /\ Reached(t)' \in Nat
    BY <1>0, <2>2, <2>3
  <2>5. sent'[t] = sent[t] /\ resent'[t] = resent[t]
    BY <2>1 DEF topic
  <2>6. \A i \in sent[t] : i \in Nat /\ i <= Reached(t)
    BY <1>0, <1>1 DEF SentInv
  <2>7. SentInv(t)'
    BY <1>0, <1>1, <2>4, <2>5, <2>6 DEF SentInv
  <2>8. counter[p] \notin sent[t]
    BY <1>0, <2>2, <2>6
  <2>9. QED
    BY <1>0, <1>1, <2>1, <2>3, <2>4, <2>5, <2>7, <2>8 DEF AtMarker, subscription, Publishing
<1>12. CASE PublishAsync(p)
  <2>1. /\ pc[p] = "publish" /\ pc'[p] = "wait"
        /\ UNCHANGED <<redis, topic, subscription, counter, marker>>
    BY <1>0, <1>12 DEF PublishAsync, Goto, outcome, topic, loop
  <2>2. Reached(t)' = Reached(t)
    BY <1>0, <2>1 DEF Reached
  <2>3. QED
    BY <1>1, <1>5, <2>1, <2>2 DEF AtMarker, subscription, Publishing, topic
<1>13. CASE PublishFails(p) \/ FutureSucceeds(p) \/ FutureFails(p)
  <2>1. /\ pc[p] \in Publishing /\ pc'[p] = "loop"
        /\ UNCHANGED <<redis, subscription, counter, marker>>
    BY <1>0, <1>13 DEF PublishFails, FutureSucceeds, FutureFails, Goto, loop, Publishing
  <2>2. Reached(t)' = Reached(t) /\ Reached(t) = counter[p]
    BY <1>0, <1>1, <2>1 DEF Reached, AtMarker
  <2>3. SentInv(t)'
    BY <1>4, <1>5, <1>13 DEF PublishFails, FutureSucceeds, FutureFails
  <2>4. QED
    BY <1>0, <1>1, <2>1, <2>2, <2>3 DEF AtMarker, subscription, Publishing
<1>14. CASE EndOfLoop(p)
  <2>1. pc'[p] = "pop" /\ UNCHANGED <<redis, topic, subscription>>
    BY <1>0, <1>14 DEF EndOfLoop, Goto, outcome, topic
  <2>2. QED
    BY <1>1, <1>5, <2>1 DEF AtMarker, subscription, Publishing
<1>15. CASE PopMarker(p) \/ (PopFails(p) /\ RemoveMarker(p))
  <2>1. t \in relapsed'
    BY <1>15 DEF PopMarker, RemoveMarker, WithKey
  <2>2. QED
    BY <2>1 DEF Own
<1>16. QED
  BY <1>6, <1>7, <1>8, <1>9, <1>10, <1>11, <1>12, <1>13, <1>14, <1>15
     DEF PodStep, PodError, PodDies, DecodeFails, FlightRaises, CallbackExits, Ack, BeginFails,
       PopFails, outcome, topic

LEMMA OwnStep ==
    TypeInv /\ UnsentInv /\ (\A t \in Twjd : OwnInv(t)) /\ [Next]_vars =>
        \A t \in Twjd : OwnInv(t)'
<1> SUFFICES ASSUME TypeInv, UnsentInv, \A u \in Twjd : OwnInv(u), [Next]_vars, NEW t \in Twjd, Own(t)'
             PROVE  OwnInv(t)'
  BY DEF OwnInv
<1>0. OwnInv(t) /\ Own(t)
  BY OwnShrinks
<1>1. ASSUME NEW u \in Twjd, Submit(u) PROVE OwnInv(t)'
  <2>1. /\ UNCHANGED <<redis, topic, pc, job, counter, marker, holder>>
        /\ queue[u] = "unsent" /\ (u # t => queue'[t] = queue[t])
    BY <1>1 DEF Submit, loop, outcome, topic, TypeInv, TypeOK
  <2>2. ASSUME NEW p \in Pod, pc'[p] # "idle", job'[p] = t PROVE queue'[t] = queue[t]
    BY <1>0, <2>1, <2>2 DEF OwnInv, AtMarker
  <2>3. QED
    BY <1>0, <2>1, <2>2, OwnStays DEF topic, SameWork
<1>2. ASSUME NEW u \in Twjd, LeaseEnds(u) PROVE OwnInv(t)'
  <2>1. /\ UNCHANGED <<redis, topic, pc, job, counter, marker, holder>>
        /\ u # t => queue'[t] = queue[t]
        /\ u = t => ~LeaseExtended(t)
    BY <1>2 DEF LeaseEnds, loop, topic, TypeInv, TypeOK, Own
  <2>2. ASSUME NEW p \in Pod, pc'[p] # "idle", job'[p] = t PROVE queue'[t] = queue[t]
    BY <1>0, <2>1, <2>2 DEF OwnInv, AtMarker, LeaseExtended
  <2>3. QED
    BY <1>0, <2>1, <2>2, OwnStays DEF topic, SameWork
<1>3. ASSUME NEW k \in Keys, MarkerExpires(k) PROVE OwnInv(t)'
  <2>1. CacheKey(t) # k
    BY <1>3 DEF MarkerExpires, WithKey, Own
  <2>2. redis'[CacheKey(t)] = redis[CacheKey(t)]
    BY <1>0, <1>3, <2>1, KeyOfCached DEF MarkerExpires, Own, TypeInv, TypeOK
  <2>3. QED
    BY <1>0, <1>3, <2>2, OwnStays DEF MarkerExpires, subscription, loop, topic, SameWork
<1>4. ASSUME NEW p \in Pod, NEW u \in Twjd, Receive(p, u) PROVE OwnInv(t)'
  <2>1. /\ UNCHANGED <<redis, topic>> /\ pc[p] = "idle" /\ queue[u] = "ready"
        /\ job'[p] = u /\ pc'[p] = "start" /\ queue'[u] = "out" /\ holder'[u] = p
        /\ \A q \in Pod \ {p} : SameWork(q)
        /\ u # t => queue'[t] = queue[t] /\ holder'[t] = holder[t]
    BY <1>4 DEF Receive, Goto, outcome, topic, TypeInv, TypeOK, SameWork
  <2>2. CASE u # t
    BY <1>0, <2>1, <2>2, OwnStays DEF topic
  <2>3. CASE u = t
    <3>1. \A q \in Pod : ~(pc[q] # "idle" /\ job[q] = t)
      BY <1>0, <2>1, <2>3 DEF OwnInv, AtMarker
    <3>2. SentInv(t)'
      BY <1>0, <2>1 DEF OwnInv, SentInv, topic, Reached, CacheKey
    <3>3. AtMarker(p, t)'
      BY <2>1, <2>3 DEF AtMarker, Publishing
    <3>4. \A q \in Pod \ {p} : ~(pc'[q] # "idle" /\ job'[q] = t)
      BY <2>1, <3>1 DEF SameWork
    <3>5. QED
      BY <3>2, <3>3, <3>4 DEF OwnInv
  <2>4. QED
    BY <2>2, <2>3
<1>5. ASSUME NEW p \in Pod, PodStep(p) \/ PodError(p) \/ PodDies(p) PROVE OwnInv(t)'
  BY <1>0, <1>5, OthersKeepOwn, PodKeepsOwn
<1>6. CASE UNCHANGED vars
  BY <1>0, <1>6, OwnStays DEF vars, SameWork
<1>7. QED
  BY <1>1, <1>2, <1>3, <1>4, <1>5, <1>6 DEF Next

LEMMA OwnInit == Init => \A t \in Twjd : OwnInv(t)
  BY DEF Init, OwnInv, SentInv

(* Deaths alone never make a flight of a message with a marker of its own be *)
(* published twice: only a lost lease or a lost marker does.                *)
THEOREM MarkerSparesResending == Spec => []ResentNeedsRelapse
<1> DEFINE I == TypeInv /\ UnsentInv /\ \A t \in Twjd : OwnInv(t)
<1>1. I => ResentNeedsRelapse
  BY DEF OwnInv, Own, SentInv, ResentNeedsRelapse
<1>2. Init => I
  BY TypeInit, UnsentInit, OwnInit
<1>3. I /\ [Next]_vars => I'
  BY TypeStep, UnsentStep, OwnStep
<1>4. QED
  BY <1>1, <1>2, <1>3, PTL DEF Spec
===============================================================================
