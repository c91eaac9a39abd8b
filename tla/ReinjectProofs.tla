----------------------------- MODULE ReinjectProofs -----------------------------
(***************************************************************************)
(* Proofs about Reinject: no dead letter vanishes, and none is accepted    *)
(* again without an unfinished run, for any letters, processes and bounds. *)
(***************************************************************************)
EXTENDS Reinject, FiniteSetTheorems, TLAPS

(* What a batch is. *)
LEMMA BatchFacts ==
    ASSUME NEW s \in Batches
    PROVE  /\ Len(s) \in 0 .. MaxCount
           /\ DOMAIN s = 1 .. Len(s)
           /\ \A i \in DOMAIN s : s[i] \in Letter
<1>1. PICK n \in 0 .. MaxCount : s \in [1 .. n -> Letter]
  BY DEF Batches
<1>2. n \in Nat
  BY <1>1, ReinjectAssumption
<1>3. s \in Seq(Letter) /\ Len(s) = n
  BY <1>1, <1>2
<1>. QED  BY <1>1, <1>3

(* The empty batch is one. *)
LEMMA EmptyBatch == <<>> \in Batches
<1>1. <<>> \in [1 .. 0 -> Letter]
  OBVIOUS
<1>2. 0 \in 0 .. MaxCount
  BY ReinjectAssumption
<1>. QED  BY <1>1, <1>2 DEF Batches

(* A process ends in a state of the right type. *)
LEMMA EndOfProcessType ==
    ASSUME TypeOK, NEW c \in Cli, EndOfProcess(c)
    PROVE  /\ pc' \in [Cli -> {"idle", "publish", "wait", "ack"}]
           /\ batch' \in [Cli -> Batches]
           /\ dryrun' \in [Cli -> BOOLEAN]
           /\ at' \in [Cli -> 1 .. MaxCount + 1]
           /\ \A d \in Cli : at'[d] <= Len(batch'[d]) + 1
           /\ inFlight' \in [Cli -> SUBSET Letter]
           /\ \A d \in Cli : Cardinality(inFlight'[d]) <= FlowLimit
           /\ doomed' \in [Cli -> BOOLEAN]
<1>1. 1 \in 1 .. MaxCount + 1 /\ Len(<<>>) = 0 /\ Cardinality({}) = 0
  BY ReinjectAssumption, FS_EmptySet
<1>2. \A d \in Cli : IF d = c THEN at'[d] = 1 /\ batch'[d] = <<>> /\ inFlight'[d] = {}
                     ELSE /\ at'[d] = at[d] /\ batch'[d] = batch[d]
                          /\ inFlight'[d] = inFlight[d]
  BY DEF TypeOK, EndOfProcess
<1>3. \A d \in Cli : at'[d] <= Len(batch'[d]) + 1
  BY <1>1, <1>2 DEF TypeOK
<1>4. ASSUME NEW d \in Cli PROVE Cardinality(inFlight'[d]) <= FlowLimit
  <2>1. Cardinality({}) <= FlowLimit
    BY <1>1, ReinjectAssumption
  <2>2. Cardinality(inFlight[d]) <= FlowLimit
    BY DEF TypeOK
  <2>. QED  BY <1>2, <2>1, <2>2
<1>. QED  BY <1>1, <1>3, <1>4, EmptyBatch DEF TypeOK, EndOfProcess

(* An early end does, too. *)
LEMMA ExitType ==
    ASSUME TypeOK, NEW c \in Cli, Exit(c)
    PROVE  /\ holder' \in [Letter -> Cli \cup {None}]
           /\ accepted' \in [Letter -> Nat]
           /\ refused' \subseteq Letter
           /\ unfinished' \in [Letter -> Nat]
  BY DEF TypeOK, Exit, Accept

(* Taking futures out of flight keeps the publisher within its limit. *)
LEMMA FewerInFlight ==
    ASSUME TypeOK, NEW c \in Cli, NEW gone,
           inFlight' = [inFlight EXCEPT ![c] = @ \ gone]
    PROVE  /\ inFlight' \in [Cli -> SUBSET Letter]
           /\ \A d \in Cli : Cardinality(inFlight'[d]) <= FlowLimit
<1>1. inFlight' \in [Cli -> SUBSET Letter]
  BY DEF TypeOK
<1>2. ASSUME NEW d \in Cli PROVE Cardinality(inFlight'[d]) <= FlowLimit
  <2>1. inFlight'[d] \subseteq inFlight[d] /\ inFlight[d] \subseteq Letter
    BY DEF TypeOK
  <2>2. IsFiniteSet(inFlight[d])
    BY <2>1, FS_Subset, ReinjectAssumption
  <2>3. /\ Cardinality(inFlight'[d]) \in Nat /\ Cardinality(inFlight[d]) \in Nat
        /\ Cardinality(inFlight'[d]) <= Cardinality(inFlight[d])
    BY <2>1, <2>2, FS_Subset, FS_CardinalityType
  <2>4. Cardinality(inFlight[d]) <= FlowLimit
    BY DEF TypeOK
  <2>. QED  BY <2>3, <2>4, ReinjectAssumption
<1>. QED  BY <1>1, <1>2

-------------------------------------------------------------------------------
(* Publishing one more letter, below the limit. *)
LEMMA PublishNextType ==
    ASSUME TypeOK, NEW c \in Cli, PublishNext(c)
    PROVE  TypeOK'
<1>1. /\ Len(batch[c]) \in 0 .. MaxCount /\ batch[c][at[c]] \in Letter
      /\ at[c] + 1 \in 1 .. MaxCount + 1 /\ at[c] + 1 <= Len(batch[c]) + 1
  <2>1. batch[c] \in Batches /\ at[c] \in 1 .. MaxCount + 1 /\ at[c] <= Len(batch[c])
    BY DEF TypeOK, PublishNext
  <2>2. /\ Len(batch[c]) \in 0 .. MaxCount /\ DOMAIN batch[c] = 1 .. Len(batch[c])
        /\ \A i \in DOMAIN batch[c] : batch[c][i] \in Letter
    BY <2>1, BatchFacts
  <2>3. at[c] \in 1 .. Len(batch[c])
    BY <2>1, <2>2
  <2>4. at[c] + 1 \in 1 .. MaxCount + 1 /\ at[c] + 1 <= Len(batch[c]) + 1
    BY <2>2, <2>3, ReinjectAssumption
  <2>. QED  BY <2>2, <2>3, <2>4
<1>2. inFlight' \in [Cli -> SUBSET Letter]
  BY <1>1 DEF TypeOK, PublishNext
<1>3. at' \in [Cli -> 1 .. MaxCount + 1]
  BY <1>1 DEF TypeOK, PublishNext
<1>4. \A d \in Cli : at'[d] <= Len(batch'[d]) + 1
  BY <1>1 DEF TypeOK, PublishNext, command
<1>5. ASSUME NEW d \in Cli PROVE Cardinality(inFlight'[d]) <= FlowLimit
  <2>1. IsFiniteSet(inFlight[d]) /\ Cardinality(inFlight[d]) \in Nat
    BY FS_Subset, FS_CardinalityType, ReinjectAssumption DEF TypeOK
  <2>2. Cardinality(inFlight[d]) <= FlowLimit
    BY DEF TypeOK
  <2>3. CASE d = c /\ ~dryrun[c]
    <3>1. inFlight'[d] = inFlight[d] \cup {batch[c][at[c]]}
      BY <2>3 DEF TypeOK, PublishNext
    <3>2. Cardinality(inFlight'[d]) <= Cardinality(inFlight[d]) + 1
      <4>1. CASE batch[c][at[c]] \in inFlight[d]
        <5>1. inFlight'[d] = inFlight[d]
          BY <2>3, <3>1, <4>1
        <5>. QED  BY <5>1, <2>1
      <4>2. CASE batch[c][at[c]] \notin inFlight[d]
        <5>1. batch[c][at[c]] \notin inFlight[d]
          BY <2>3, <4>2
        <5>2. Cardinality(inFlight'[d]) = Cardinality(inFlight[d]) + 1
          BY <3>1, <5>1, <2>1, FS_AddElement
        <5>. QED  BY <5>2, <2>1
      <4>. QED  BY <4>1, <4>2
    <3>3. Cardinality(inFlight[d]) < FlowLimit
      BY <2>3 DEF PublishNext
    <3>4. Cardinality(inFlight'[d]) \in Nat
      BY <3>1, <2>1, FS_AddElement, FS_CardinalityType
    <3>. QED  BY <2>1, <3>2, <3>3, <3>4, ReinjectAssumption
  <2>4. CASE ~(d = c /\ ~dryrun[c])
    <3>1. inFlight'[d] = inFlight[d]
      BY <2>4 DEF TypeOK, PublishNext
    <3>. QED  BY <2>2, <3>1
  <2>. QED  BY <2>3, <2>4
<1>. QED  BY <1>2, <1>3, <1>4, <1>5
          DEF TypeOK, PublishNext, subscription, command, counters, histories

(* Every step keeps the types. *)
LEMMA TypeStep == TypeOK /\ [Next]_vars => TypeOK'
<1>. SUFFICES ASSUME TypeOK, [Next]_vars PROVE TypeOK'
  OBVIOUS
<1>. USE DEF subscription, command, counters, histories
<1>1. CASE UNCHANGED vars
  BY <1>1 DEF TypeOK, vars
<1>2. ASSUME NEW l \in Letter, Arrive(l) PROVE TypeOK'
  BY <1>2 DEF TypeOK, Arrive
<1>3. ASSUME NEW l \in Letter, LeaseEnds(l) PROVE TypeOK'
  BY <1>3 DEF TypeOK, LeaseEnds
<1>4. ASSUME NEW l \in Letter, LeaseLapses(l) PROVE TypeOK'
  <2>1. unfinished' \in [Letter -> Nat]
    BY <1>4 DEF TypeOK, LeaseLapses
  <2>2. lapses' \in 0 .. MaxLapses
    BY <1>4, ReinjectAssumption DEF TypeOK, LeaseLapses
  <2>. QED  BY <1>4, <2>1, <2>2 DEF TypeOK, LeaseLapses
<1>5. ASSUME NEW c \in Cli, NEW s \in Batches, NEW dry \in BOOLEAN, Fetch(c, s, dry)
      PROVE TypeOK'
  <2>1. queue' \in [Letter -> {"absent", "ready", "out", "acked"}]
    BY <1>5 DEF TypeOK, Fetch
  <2>2. holder' \in [Letter -> Cli \cup {None}]
    BY <1>5 DEF TypeOK, Fetch
  <2>3. runs' \in 0 .. MaxRuns
    BY <1>5, ReinjectAssumption DEF TypeOK, Fetch
  <2>4. ASSUME NEW d \in Cli PROVE at'[d] <= Len(batch'[d]) + 1
    <3>1. IF d = c THEN at'[d] = 1 /\ batch'[d] = s
          ELSE at'[d] = at[d] /\ batch'[d] = batch[d]
      BY <1>5 DEF TypeOK, Fetch
    <3>2. Len(s) \in Nat
      BY BatchFacts, ReinjectAssumption
    <3>. QED  BY <3>1, <3>2 DEF TypeOK
  <2>5. 1 \in 1 .. MaxCount + 1
    BY ReinjectAssumption
  <2>. QED  BY <1>5, <2>1, <2>2, <2>3, <2>4, <2>5 DEF TypeOK, Fetch
<1>6. ASSUME NEW c \in Cli, DecodeFails(c) PROVE TypeOK'
  <2>1. Exit(c) /\ EndOfProcess(c) /\ UNCHANGED <<queue, counters>>
    BY <1>6 DEF DecodeFails, Exit
  <2>. QED  BY <2>1, ExitType, EndOfProcessType DEF TypeOK
<1>7. ASSUME NEW c \in Cli, PublishNext(c) PROVE TypeOK'
  BY <1>7, PublishNextType
<1>8. ASSUME NEW c \in Cli, DryRunReturns(c) \/ Done(c) PROVE TypeOK'
  <2>1. EndOfProcess(c) /\ UNCHANGED <<subscription, counters, accepted, histories>>
    BY <1>8 DEF DryRunReturns, Done
  <2>. QED  BY <2>1, EndOfProcessType DEF TypeOK
<1>9. ASSUME NEW c \in Cli, AllPublished(c) PROVE TypeOK'
  BY <1>9 DEF TypeOK, AllPublished
<1>10. ASSUME NEW c \in Cli, NEW l \in inFlight[c], FutureSucceeds(c, l) PROVE TypeOK'
  <2>1. accepted' \in [Letter -> Nat]
    BY <1>10 DEF TypeOK, FutureSucceeds, Accept
  <2>2. /\ inFlight' \in [Cli -> SUBSET Letter]
        /\ \A d \in Cli : Cardinality(inFlight'[d]) <= FlowLimit
    BY <1>10, FewerInFlight DEF FutureSucceeds
  <2>. QED  BY <1>10, <2>1, <2>2 DEF TypeOK, FutureSucceeds
<1>11. ASSUME NEW c \in Cli, NEW failed \in SUBSET inFlight[c], FuturesFail(c, failed)
       PROVE TypeOK'
  <2>1. accepted' \in [Letter -> Nat]
    BY <1>11 DEF TypeOK, FuturesFail, Accept
  <2>2. /\ inFlight' \in [Cli -> SUBSET Letter]
        /\ \A d \in Cli : Cardinality(inFlight'[d]) <= FlowLimit
    BY <1>11, FewerInFlight DEF FuturesFail
  <2>3. faults' \in 0 .. MaxFaults
    BY <1>11, ReinjectAssumption DEF TypeOK, FuturesFail, Fault
  <2>4. refused' \subseteq Letter
    BY <1>11 DEF TypeOK, FuturesFail
  <2>. QED  BY <1>11, <2>1, <2>2, <2>3, <2>4 DEF TypeOK, FuturesFail, Fault
<1>12. ASSUME NEW c \in Cli, CallbackExits(c) PROVE TypeOK'
  <2>1. Exit(c) /\ EndOfProcess(c) /\ UNCHANGED <<queue, counters>>
    BY <1>12 DEF CallbackExits, Exit
  <2>. QED  BY <2>1, ExitType, EndOfProcessType DEF TypeOK
<1>13. ASSUME NEW c \in Cli, WaitReturns(c) PROVE TypeOK'
  <2>1. at' \in [Cli -> 1 .. MaxCount + 1]
    BY <1>13, ReinjectAssumption DEF TypeOK, WaitReturns
  <2>2. ASSUME NEW d \in Cli PROVE at'[d] <= Len(batch'[d]) + 1
    <3>1. Len(batch[d]) \in Nat
      BY BatchFacts, ReinjectAssumption DEF TypeOK
    <3>2. batch' = batch /\ at'[d] \in {1, at[d]}
      BY <1>13 DEF TypeOK, WaitReturns
    <3>. QED  BY <3>1, <3>2 DEF TypeOK
  <2>. QED  BY <1>13, <2>1, <2>2 DEF TypeOK, WaitReturns
<1>14. ASSUME NEW c \in Cli, AckNext(c) PROVE TypeOK'
  <2>1. queue' \in [Letter -> {"absent", "ready", "out", "acked"}]
    BY <1>14 DEF TypeOK, AckNext, AckTaken
  <2>2. Len(batch[c]) \in 0 .. MaxCount
    BY BatchFacts DEF TypeOK
  <2>3. at[c] + 1 \in 1 .. MaxCount + 1 /\ at[c] + 1 <= Len(batch[c]) + 1
    BY <1>14, <2>2, ReinjectAssumption DEF TypeOK, AckNext
  <2>. QED  BY <1>14, <2>1, <2>3 DEF TypeOK, AckNext
<1>15. ASSUME NEW c \in Cli, CliDies(c) PROVE TypeOK'
  <2>1. Exit(c) /\ EndOfProcess(c) /\ Fault
    BY <1>15 DEF CliDies, Exit
  <2>2. queue' \in [Letter -> {"absent", "ready", "out", "acked"}]
    BY <1>15 DEF TypeOK, CliDies
  <2>3. faults' \in 0 .. MaxFaults /\ runs' \in 0 .. MaxRuns /\ lapses' \in 0 .. MaxLapses
    BY <2>1, ReinjectAssumption DEF TypeOK, Fault
  <2>. QED  BY <2>1, <2>2, <2>3, ExitType, EndOfProcessType DEF TypeOK
<1>. QED
  BY <1>1, <1>2, <1>3, <1>4, <1>5, <1>6, <1>7, <1>8, <1>9, <1>10, <1>11, <1>12, <1>13,
     <1>14, <1>15 DEF Next

(* The initial state has the right type. *)
LEMMA TypeInit == Init => TypeOK
<1>. SUFFICES ASSUME Init PROVE TypeOK
  OBVIOUS
<1>1. /\ 1 \in 1 .. MaxCount + 1 /\ Len(<<>>) = 0 /\ Cardinality({}) = 0
      /\ 0 \in 0 .. MaxRuns /\ 0 \in 0 .. MaxFaults /\ 0 \in 0 .. MaxLapses
  BY ReinjectAssumption, FS_EmptySet
<1>2. ASSUME NEW c \in Cli PROVE Cardinality(inFlight[c]) <= FlowLimit
  <2>1. Cardinality({}) <= FlowLimit
    BY <1>1, ReinjectAssumption
  <2>. QED  BY <2>1 DEF Init
<1>. QED  BY <1>1, <1>2, EmptyBatch DEF Init, TypeOK

(* Type correctness, the publisher's limit of unsent messages included       *)
(* (services.py:160-232, handlers.py:132-136).                               *)
THEOREM TypeCorrect == Spec => []TypeOK
  BY TypeInit, TypeStep, PTL DEF Spec

-------------------------------------------------------------------------------
(* A letter the topic has accepted, or of which a publish failed. *)
Settled(l) == accepted[l] > 0 \/ l \in refused

(* How far a run that publishes is with a letter. *)
OnItsWay(c, l) == l \in inFlight[c] \/ Settled(l)

(* What a run has done for the letters behind it: those it has passed in its *)
(* first loop are on their way, and all are settled before it acks any.      *)
Behind ==
    \A c \in Cli :
        /\ pc[c] = "publish" /\ ~dryrun[c] =>
              \A i \in DOMAIN batch[c] : i < at[c] => OnItsWay(c, batch[c][i])
        /\ pc[c] = "wait" => \A i \in DOMAIN batch[c] : OnItsWay(c, batch[c][i])
        /\ pc[c] = "ack" => \A i \in DOMAIN batch[c] : Settled(batch[c][i])

IInv == TypeOK /\ NoLetterVanishes /\ Behind

(* Letters of a batch are letters. *)
LEMMA PulledAreLetters ==
    ASSUME TypeOK, NEW c \in Cli, NEW i \in DOMAIN batch[c]
    PROVE  batch[c][i] \in Letter /\ i \in 1 .. Len(batch[c]) /\ Len(batch[c]) \in Nat
<1>1. batch[c] \in Batches
  BY DEF TypeOK
<1>. QED  BY <1>1, BatchFacts, ReinjectAssumption

(* What is settled stays so: the counts grow and the history is kept. *)
LEMMA SettledStays ==
    ASSUME TypeOK, [Next]_vars, NEW l \in Letter, Settled(l)
    PROVE  Settled(l)'
<1>1. ASSUME NEW landed, Accept(landed) PROVE accepted'[l] >= accepted[l]
  BY <1>1 DEF TypeOK, Accept
<1>2. accepted[l] \in Nat /\ accepted'[l] \in Nat
  BY TypeStep DEF TypeOK
<1>3. accepted' = accepted \/ \E landed : Accept(landed)
  <2>1. ASSUME NEW c \in Cli, Exit(c) PROVE \E landed : Accept(landed)
    BY <2>1 DEF Exit
  <2>2. ASSUME NEW c \in Cli, NEW m \in inFlight[c], FutureSucceeds(c, m)
        PROVE  \E landed : Accept(landed)
    BY <2>2 DEF FutureSucceeds
  <2>3. ASSUME NEW c \in Cli, NEW failed \in SUBSET inFlight[c], FuturesFail(c, failed)
        PROVE  \E landed : Accept(landed)
    BY <2>3 DEF FuturesFail
  <2>. QED
    BY <2>1, <2>2, <2>3 DEF Next, vars, Arrive, LeaseEnds, LeaseLapses, Fetch, DecodeFails,
       PublishNext, DryRunReturns, AllPublished, CallbackExits, WaitReturns, AckNext, Done,
       CliDies
<1>4. refused \subseteq refused'
  BY DEF Next, vars, Arrive, LeaseEnds, LeaseLapses, Fetch, DecodeFails, Exit, PublishNext,
     DryRunReturns, AllPublished, FutureSucceeds, FuturesFail, CallbackExits, WaitReturns,
     AckNext, Done, CliDies, histories
<1>5. accepted'[l] >= accepted[l]
  BY <1>1, <1>2, <1>3
<1>. QED  BY <1>2, <1>4, <1>5 DEF Settled

(* A future leaves a live process only with its letter settled. *)
LEMMA OnItsWayStays ==
    ASSUME TypeOK, [Next]_vars, NEW c \in Cli, NEW l \in Letter,
           OnItsWay(c, l), pc'[c] # "idle"
    PROVE  OnItsWay(c, l)'
<1>1. CASE Settled(l)
  BY <1>1, SettledStays DEF OnItsWay
<1>2. CASE l \in inFlight[c]
  <2>1. ASSUME NEW d \in Cli, NEW m \in inFlight[d], FutureSucceeds(d, m)
        PROVE  l \in inFlight'[c] \/ Settled(l)'
    <3>1. CASE d = c /\ m = l
      <4>1. accepted'[l] = accepted[l] + 1
        BY <2>1, <3>1 DEF TypeOK, FutureSucceeds, Accept
      <4>. QED  BY <4>1 DEF TypeOK, Settled
    <3>2. CASE ~(d = c /\ m = l)
      BY <1>2, <2>1, <3>2 DEF TypeOK, FutureSucceeds
    <3>. QED  BY <3>1, <3>2
  <2>2. ASSUME NEW d \in Cli, NEW failed \in SUBSET inFlight[d], FuturesFail(d, failed)
        PROVE  l \in inFlight'[c] \/ Settled(l)'
    BY <1>2, <2>2 DEF TypeOK, FuturesFail, Settled
  <2>3. ASSUME NEW d \in Cli, EndOfProcess(d) PROVE l \in inFlight'[c]
    BY <1>2, <2>3 DEF TypeOK, EndOfProcess
  <2>4. ASSUME NEW d \in Cli, PublishNext(d) PROVE l \in inFlight'[c]
    BY <1>2, <2>4 DEF TypeOK, PublishNext
  <2>5. ASSUME NEW d \in Cli, Exit(d) PROVE l \in inFlight'[c]
    BY <2>3, <2>5 DEF Exit
  <2>6. l \in inFlight'[c] \/ Settled(l)'
    BY <1>2, <2>1, <2>2, <2>3, <2>4, <2>5 DEF Next, vars, Arrive, LeaseEnds, LeaseLapses,
       Fetch, DecodeFails, DryRunReturns, AllPublished, CallbackExits, WaitReturns, AckNext,
       Done, CliDies
  <2>. QED  BY <2>6 DEF OnItsWay
<1>. QED  BY <1>1, <1>2 DEF OnItsWay

(* A letter is acked by a run that is at its acks, and not before. *)
LEMMA AckedBy ==
    ASSUME TypeOK, [Next]_vars, NEW l \in Letter, queue'[l] = "acked", queue[l] # "acked"
    PROVE  \E c \in Cli : pc[c] = "ack" /\ \E i \in DOMAIN batch[c] : batch[c][i] = l
<1>1. PICK c \in Cli :
        /\ pc[c] = "ack" /\ at[c] <= Len(batch[c])
        /\ queue' = [queue EXCEPT ![batch[c][at[c]]] = "acked"]
  <2>. DEFINE Acks(c) == /\ pc[c] = "ack" /\ at[c] <= Len(batch[c])
                         /\ queue' = [queue EXCEPT ![batch[c][at[c]]] = "acked"]
  <2>1. ASSUME NEW c \in Cli, AckNext(c) \/ CliDies(c) PROVE Acks(c) \/ queue' = queue
    BY <2>1 DEF AckNext, AckTaken, CliDies
  <2>2. ASSUME NEW m \in Letter, Arrive(m) \/ LeaseEnds(m) \/ LeaseLapses(m)
        PROVE  queue'[l] \in {"ready", queue[l]}
    BY <2>2 DEF TypeOK, Arrive, LeaseEnds, LeaseLapses
  <2>3. ASSUME NEW c \in Cli, NEW s \in Batches, NEW dry \in BOOLEAN, Fetch(c, s, dry)
        PROVE  queue'[l] \in {"out", queue[l]}
    BY <2>3 DEF TypeOK, Fetch
  <2>4. ASSUME NEW c \in Cli,
               DecodeFails(c) \/ PublishNext(c) \/ DryRunReturns(c) \/ AllPublished(c)
               \/ CallbackExits(c) \/ WaitReturns(c) \/ Done(c)
        PROVE  queue' = queue
    BY <2>4 DEF DecodeFails, PublishNext, DryRunReturns, AllPublished, CallbackExits,
       WaitReturns, Done, subscription
  <2>5. ASSUME NEW c \in Cli, NEW m \in inFlight[c], FutureSucceeds(c, m) PROVE queue' = queue
    BY <2>5 DEF FutureSucceeds, subscription
  <2>6. ASSUME NEW c \in Cli, NEW failed \in SUBSET inFlight[c], FuturesFail(c, failed)
        PROVE  queue' = queue
    BY <2>6 DEF FuturesFail, subscription
  <2>. QED
    BY <2>1, <2>2, <2>3, <2>4, <2>5, <2>6 DEF Next, vars
<1>2. batch[c] \in Batches /\ at[c] \in 1 .. MaxCount + 1
  BY DEF TypeOK
<1>3. at[c] \in DOMAIN batch[c]
  BY <1>1, <1>2, BatchFacts, ReinjectAssumption
<1>4. batch[c][at[c]] = l
  BY <1>1 DEF TypeOK
<1>. QED  BY <1>1, <1>3, <1>4

(* Where a step takes a process: it keeps its batch until it ends, passes    *)
(* letters one at a time, and gets to its acks with nothing in flight.       *)
LEMMA Course ==
    ASSUME TypeOK, [Next]_vars, NEW c \in Cli
    PROVE  \/ pc'[c] = "idle"
           \/ pc'[c] = "publish" /\ at'[c] = 1
           \/ /\ pc'[c] = pc[c] /\ batch'[c] = batch[c] /\ dryrun'[c] = dryrun[c]
              /\ pc[c] = "publish" => \/ at'[c] = at[c]
                                      \/ PublishNext(c)
           \/ /\ pc[c] = "publish" /\ at[c] > Len(batch[c]) /\ ~dryrun[c]
              /\ pc'[c] = "wait" /\ batch'[c] = batch[c]
           \/ /\ pc[c] = "wait" /\ inFlight[c] = {}
              /\ pc'[c] = "ack" /\ batch'[c] = batch[c]
<1>. DEFINE Stays == /\ pc'[c] = pc[c] /\ batch'[c] = batch[c]
                     /\ dryrun'[c] = dryrun[c] /\ at'[c] = at[c]
<1>. USE DEF command
<1>1. CASE UNCHANGED vars
  BY <1>1 DEF vars
<1>2. ASSUME NEW l \in Letter, Arrive(l) \/ LeaseEnds(l) \/ LeaseLapses(l) PROVE Stays
  BY <1>2 DEF Arrive, LeaseEnds, LeaseLapses
<1>3. ASSUME NEW d \in Cli, NEW s \in Batches, NEW dry \in BOOLEAN, Fetch(d, s, dry)
      PROVE  Stays \/ (pc'[c] = "publish" /\ at'[c] = 1)
  BY <1>3 DEF TypeOK, Fetch
<1>4. ASSUME NEW d \in Cli, EndOfProcess(d) PROVE Stays \/ pc'[c] = "idle"
  BY <1>4 DEF TypeOK, EndOfProcess
<1>5. ASSUME NEW d \in Cli,
             DecodeFails(d) \/ DryRunReturns(d) \/ CallbackExits(d) \/ Done(d) \/ CliDies(d)
      PROVE  EndOfProcess(d)
  BY <1>5 DEF DecodeFails, DryRunReturns, CallbackExits, Done, CliDies, Exit
<1>6. ASSUME NEW d \in Cli, PublishNext(d)
      PROVE  Stays \/ /\ pc'[c] = pc[c] /\ batch'[c] = batch[c]
                       /\ dryrun'[c] = dryrun[c] /\ d = c
  BY <1>6 DEF TypeOK, PublishNext
<1>7. ASSUME NEW d \in Cli, AllPublished(d)
      PROVE  Stays \/ /\ pc[c] = "publish" /\ at[c] > Len(batch[c]) /\ ~dryrun[c]
                       /\ pc'[c] = "wait" /\ batch'[c] = batch[c]
  BY <1>7 DEF TypeOK, AllPublished
<1>8. ASSUME NEW d \in Cli, NEW l \in inFlight[d], FutureSucceeds(d, l) PROVE Stays
  BY <1>8 DEF FutureSucceeds
<1>9. ASSUME NEW d \in Cli, NEW failed \in SUBSET inFlight[d], FuturesFail(d, failed)
      PROVE  Stays
  BY <1>9 DEF FuturesFail
<1>10. ASSUME NEW d \in Cli, WaitReturns(d)
       PROVE  Stays \/ /\ pc[c] = "wait" /\ inFlight[c] = {}
                        /\ pc'[c] = "ack" /\ batch'[c] = batch[c]
  BY <1>10 DEF TypeOK, WaitReturns
<1>11. ASSUME NEW d \in Cli, AckNext(d)
       PROVE  Stays \/ /\ pc'[c] = pc[c] /\ batch'[c] = batch[c]
                        /\ dryrun'[c] = dryrun[c] /\ pc[c] = "ack"
  BY <1>11 DEF TypeOK, AckNext
<1>. QED
  BY <1>1, <1>2, <1>3, <1>4, <1>5, <1>6, <1>7, <1>8, <1>9, <1>10, <1>11 DEF Next

(* The inductive invariant. *)
LEMMA InvStep == IInv /\ [Next]_vars => IInv'
<1>. SUFFICES ASSUME IInv, [Next]_vars PROVE IInv'
  OBVIOUS
<1>1. TypeOK /\ TypeOK'
  BY TypeStep DEF IInv
<1>2. NoLetterVanishes'
  <2>. SUFFICES ASSUME NEW l \in Letter, queue'[l] = "acked" PROVE Settled(l)'
    BY DEF NoLetterVanishes, Settled
  <2>1. Settled(l)
    <3>1. CASE queue[l] = "acked"
      BY <3>1 DEF IInv, NoLetterVanishes, Settled
    <3>2. CASE queue[l] # "acked"
      BY <1>1, <3>2, AckedBy DEF IInv, Behind
    <3>. QED  BY <3>1, <3>2
  <2>. QED  BY <1>1, <2>1, SettledStays
<1>3. ASSUME NEW c \in Cli
      PROVE  /\ pc'[c] = "publish" /\ ~dryrun'[c] =>
                   \A i \in DOMAIN batch'[c] : i < at'[c] => OnItsWay(c, batch[c][i])'
             /\ pc'[c] = "wait" => \A i \in DOMAIN batch'[c] : OnItsWay(c, batch[c][i])'
             /\ pc'[c] = "ack" => \A i \in DOMAIN batch'[c] : Settled(batch[c][i])'
  <2>1. CASE pc'[c] = "idle"
    BY <2>1
  <2>2. CASE pc'[c] = "publish" /\ at'[c] = 1
    <3>1. ASSUME NEW i \in DOMAIN batch'[c] PROVE ~(i < at'[c])
      <4>1. batch'[c] \in Batches
        BY <1>1 DEF TypeOK
      <4>2. i \in 1 .. Len(batch'[c]) /\ Len(batch'[c]) \in Nat
        BY <4>1, BatchFacts, ReinjectAssumption
      <4>. QED  BY <2>2, <4>2
    <3>. QED  BY <2>2, <3>1
  <2>3. CASE /\ pc'[c] = pc[c] /\ batch'[c] = batch[c] /\ dryrun'[c] = dryrun[c]
             /\ pc[c] = "publish" => at'[c] = at[c] \/ PublishNext(c)
             /\ pc'[c] # "idle"
    <3>1. ASSUME NEW i \in DOMAIN batch[c], OnItsWay(c, batch[c][i])
          PROVE  OnItsWay(c, batch[c][i])'
      <4>1. batch[c][i] \in Letter
        BY <1>1, PulledAreLetters
      <4>. QED  BY <1>1, <2>3, <3>1, <4>1, OnItsWayStays DEF OnItsWay, Settled
    <3>2. ASSUME NEW i \in DOMAIN batch[c], Settled(batch[c][i]) PROVE Settled(batch[c][i])'
      <4>1. batch[c][i] \in Letter
        BY <1>1, PulledAreLetters
      <4>. QED  BY <1>1, <2>3, <3>2, <4>1, SettledStays DEF Settled
    <3>3. ASSUME pc[c] = "publish", ~dryrun[c], NEW i \in DOMAIN batch[c], i < at'[c]
          PROVE  OnItsWay(c, batch[c][i])'
      <4>1. CASE i < at[c]
        BY <3>1, <3>3, <4>1 DEF IInv, Behind
      <4>2. CASE ~(i < at[c])
        <5>1. PublishNext(c)
          BY <2>3, <3>3, <4>2
        <5>2. at'[c] = at[c] + 1
          BY <1>1, <5>1 DEF TypeOK, PublishNext
        <5>3. i = at[c]
          <6>1. i \in 1 .. Len(batch[c]) /\ Len(batch[c]) \in Nat
            BY <1>1, <3>3, PulledAreLetters
          <6>2. at[c] \in 1 .. MaxCount + 1
            BY <1>1 DEF TypeOK
          <6>. QED  BY <3>3, <4>2, <5>2, <6>1, <6>2, ReinjectAssumption
        <5>4. batch[c][i] \in inFlight'[c]
          BY <1>1, <3>3, <5>1, <5>3 DEF TypeOK, PublishNext
        <5>. QED  BY <2>3, <5>4 DEF OnItsWay
      <4>. QED  BY <4>1, <4>2
    <3>. QED  BY <2>3, <3>1, <3>2, <3>3 DEF IInv, Behind
  <2>4. CASE /\ pc[c] = "publish" /\ at[c] > Len(batch[c]) /\ ~dryrun[c]
             /\ pc'[c] = "wait" /\ batch'[c] = batch[c]
    <3>1. ASSUME NEW i \in DOMAIN batch[c] PROVE OnItsWay(c, batch[c][i])'
      <4>1. batch[c][i] \in Letter /\ i < at[c]
        <5>1. /\ batch[c][i] \in Letter /\ i \in 1 .. Len(batch[c])
              /\ Len(batch[c]) \in Nat
          BY <1>1, PulledAreLetters
        <5>2. at[c] \in 1 .. MaxCount + 1 /\ MaxCount \in Nat
          BY <1>1, ReinjectAssumption DEF TypeOK
        <5>. QED  BY <2>4, <5>1, <5>2
      <4>2. OnItsWay(c, batch[c][i])
        BY <2>4, <4>1 DEF IInv, Behind
      <4>. QED  BY <1>1, <2>4, <4>1, <4>2, OnItsWayStays DEF OnItsWay, Settled
    <3>. QED  BY <2>4, <3>1
  <2>5. CASE /\ pc[c] = "wait" /\ inFlight[c] = {}
             /\ pc'[c] = "ack" /\ batch'[c] = batch[c]
    <3>1. ASSUME NEW i \in DOMAIN batch[c] PROVE Settled(batch[c][i])'
      <4>1. batch[c][i] \in Letter /\ Settled(batch[c][i])
        BY <1>1, <2>5, PulledAreLetters DEF IInv, Behind, OnItsWay
      <4>. QED  BY <1>1, <2>5, <4>1, SettledStays DEF Settled
    <3>. QED  BY <2>5, <3>1
  <2>. QED  BY <1>1, <2>1, <2>2, <2>3, <2>4, <2>5, Course
<1>. QED  BY <1>1, <1>2, <1>3 DEF IInv, Behind

(* No dead letter vanishes, whatever fails and however runs overlap          *)
(* (services.py:200-225).                                                    *)
THEOREM LettersAreKept == Spec => []NoLetterVanishes
<1>1. Init => IInv
  BY TypeInit DEF Init, IInv, NoLetterVanishes, Behind
<1>2. IInv => NoLetterVanishes
  BY DEF IInv
<1>. QED  BY <1>1, <1>2, InvStep, PTL DEF Spec
-------------------------------------------------------------------------------
(* Duplicates.  A run that is not dry and may still have a letter accepted   *)
(* sends it; one that has the lease of a letter, and means to ack it, keeps  *)
(* it.  What is neither acked nor kept can be pulled again by the next run.  *)
Sends(c, l) ==
    /\ ~dryrun[c]
    /\ \/ l \in inFlight[c]
       \/ /\ pc[c] = "publish"
          /\ \E i \in DOMAIN batch[c] : i >= at[c] /\ batch[c][i] = l
Open(l) == {c \in Cli : Sends(c, l)}

Keeps(c, l) == holder[l] = c /\ pc[c] # "idle" /\ ~dryrun[c] /\ l \in Pulled(c)
Taken(l) == queue[l] = "acked" \/ (queue[l] = "out" /\ \E c \in Cli : Keeps(c, l))

Paid(l) ==
    accepted[l] + Cardinality(Open(l)) <= unfinished[l] + (IF Taken(l) THEN 1 ELSE 0)

(* What is on the wire was passed by the first loop, of a run that publishes. *)
FlightInv(c) ==
    /\ pc[c] \in {"idle", "ack"} => inFlight[c] = {}
    /\ dryrun[c] => inFlight[c] = {}
    /\ pc[c] \in {"wait", "ack"} => ~dryrun[c]
    /\ pc[c] = "publish" =>
         \A i \in DOMAIN batch[c] : i >= at[c] => batch[c][i] \notin inFlight[c]

(* A letter the second loop has passed is no longer leased to the run. *)
AckInv(c) ==
    pc[c] = "ack" =>
        \A i \in DOMAIN batch[c] :
            i < at[c] => ~(queue[batch[c][i]] = "out" /\ holder[batch[c][i]] = c)

RunInv == \A c \in Cli : FlightInv(c) /\ AckInv(c)

DupInv == TypeOK /\ RunInv /\ (\A l \in Letter : Paid(l))

Still(c) == /\ pc'[c] = pc[c] /\ batch'[c] = batch[c] /\ dryrun'[c] = dryrun[c]
            /\ at'[c] = at[c] /\ inFlight'[c] = inFlight[c]

(* A batch has no letter twice. *)
LEMMA BatchOnce ==
    ASSUME TypeOK, NEW c \in Cli
    PROVE  \A i, j \in DOMAIN batch[c] : batch[c][i] = batch[c][j] => i = j
  BY DEF TypeOK, Batches

LEMMA OpenFinite ==
    \A l \in Letter : IsFiniteSet(Open(l)) /\ Cardinality(Open(l)) \in Nat
<1>1. \A l \in Letter : Open(l) \subseteq Cli /\ IsFiniteSet(Cli)
  BY ReinjectAssumption DEF Open
<1>. QED  BY <1>1, FS_Subset, FS_CardinalityType

LEMMA OpenFiniteNext ==
    \A l \in Letter : (IsFiniteSet(Open(l)))' /\ (Cardinality(Open(l)) \in Nat)'
<1>1. \A l \in Letter : Open(l)' \subseteq Cli /\ IsFiniteSet(Cli)
  BY ReinjectAssumption DEF Open
<1>. QED  BY <1>1, FS_Subset, FS_CardinalityType

(* How a finite set shrinks. *)
LEMMA CardShrinks ==
    ASSUME NEW S, NEW T, IsFiniteSet(S)
    PROVE  /\ T \subseteq S => Cardinality(T) <= Cardinality(S)
           /\ \A x : T \subseteq S \cup {x} => Cardinality(T) <= Cardinality(S) + 1
           /\ \A x \in S : T \subseteq S \ {x} => Cardinality(T) <= Cardinality(S) - 1
<1>1. Cardinality(S) \in Nat
  BY FS_CardinalityType
<1>2. T \subseteq S => Cardinality(T) <= Cardinality(S)
  BY FS_Subset
<1>3. ASSUME NEW x, T \subseteq S \cup {x} PROVE Cardinality(T) <= Cardinality(S) + 1
  <2>1. /\ IsFiniteSet(S \cup {x})
        /\ Cardinality(S \cup {x}) = IF x \in S THEN Cardinality(S) ELSE Cardinality(S) + 1
    BY FS_AddElement
  <2>2. Cardinality(T) <= Cardinality(S \cup {x}) /\ Cardinality(T) \in Nat
    BY <1>3, <2>1, FS_Subset, FS_CardinalityType
  <2>. QED  BY <1>1, <2>1, <2>2
<1>4. ASSUME NEW x \in S, T \subseteq S \ {x} PROVE Cardinality(T) <= Cardinality(S) - 1
  <2>1. IsFiniteSet(S \ {x}) /\ Cardinality(S \ {x}) = Cardinality(S) - 1
    BY FS_RemoveElement
  <2>. QED  BY <1>4, <2>1, FS_Subset
<1>. QED  BY <1>2, <1>3, <1>4

(* A letter stays paid for: what is accepted was open before, and it is let  *)
(* go only when the run that kept it is counted as unfinished.               *)
LEMMA StaysPaid ==
    ASSUME TypeOK, NEW l \in Letter, Paid(l),
           \/ accepted'[l] = accepted[l] /\ Open(l)' \subseteq Open(l)
           \/ /\ accepted'[l] = accepted[l] + 1
              /\ \E c \in Open(l) : Open(l)' \subseteq Open(l) \ {c},
           \/ unfinished'[l] = unfinished[l] /\ (Taken(l) => Taken(l)')
           \/ unfinished'[l] = unfinished[l] + 1
    PROVE  Paid(l)'
<1>. DEFINE n == Cardinality(Open(l))
            t == IF Taken(l) THEN 1 ELSE 0
<1>1. /\ n \in Nat /\ n' \in Nat /\ accepted[l] \in Nat /\ unfinished[l] \in Nat
  BY OpenFinite, OpenFiniteNext DEF TypeOK
<1>2. accepted'[l] + n' <= accepted[l] + n
  <2>1. IsFiniteSet(Open(l))
    BY OpenFinite
  <2>2. CASE accepted'[l] = accepted[l] /\ Open(l)' \subseteq Open(l)
    <3>1. n' <= n
      BY <2>1, <2>2, CardShrinks
    <3>. QED  BY <1>1, <2>2, <3>1
  <2>3. CASE /\ accepted'[l] = accepted[l] + 1
             /\ \E c \in Open(l) : Open(l)' \subseteq Open(l) \ {c}
    <3>1. n' <= n - 1
      BY <2>1, <2>3, CardShrinks
    <3>. QED  BY <1>1, <2>3, <3>1
  <2>. QED  BY <2>2, <2>3
<1>3. t \in Nat /\ t' \in Nat /\ t <= 1
  OBVIOUS
<1>4. unfinished'[l] + t' >= unfinished[l] + t
  <2>1. CASE unfinished'[l] = unfinished[l] + 1
    BY <1>1, <1>3, <2>1
  <2>2. CASE unfinished'[l] = unfinished[l] /\ (Taken(l) => Taken(l)')
    <3>1. t' >= t
      BY <2>2
    <3>. QED  BY <1>1, <1>3, <2>2, <3>1
  <2>. QED  BY <2>1, <2>2
<1>5. accepted[l] + n <= unfinished[l] + t
  BY DEF Paid
<1>6. accepted'[l] \in Int /\ unfinished'[l] \in Int
  BY <1>1
<1>. HIDE DEF n, t
<1>7. accepted'[l] + n' <= unfinished'[l] + t'
  BY <1>1, <1>2, <1>3, <1>4, <1>5, <1>6
<1>. QED  BY <1>7 DEF Paid, n, t

(* Steps of the subscription leave the runs alone. *)
LEMMA LeasesStayPaid ==
    ASSUME DupInv, NEW m \in Letter, Arrive(m) \/ LeaseEnds(m) \/ LeaseLapses(m)
    PROVE  \A l \in Letter : Paid(l)'
<1>. SUFFICES ASSUME NEW l \in Letter PROVE Paid(l)'
  OBVIOUS
<1>1. /\ TypeOK /\ Paid(l) /\ UNCHANGED <<holder, pc, batch, dryrun, at, inFlight, accepted>>
      /\ queue' = [queue EXCEPT ![m] = "ready"]
  BY DEF DupInv, Arrive, LeaseEnds, LeaseLapses, command
<1>2. Open(l)' \subseteq Open(l)
  BY <1>1 DEF Open, Sends
<1>3. \A c \in Cli : Keeps(c, l)' <=> Keeps(c, l)
  BY <1>1 DEF Keeps, Pulled
<1>4. CASE l # m
  <2>1. queue'[l] = queue[l]
    BY <1>1, <1>4 DEF TypeOK
  <2>2. unfinished'[l] = unfinished[l]
    BY <1>4 DEF Arrive, LeaseEnds, LeaseLapses, histories, DupInv, TypeOK
  <2>3. Taken(l) => Taken(l)'
    BY <1>3, <2>1 DEF Taken
  <2>. QED  BY <1>1, <1>2, <2>2, <2>3, StaysPaid
<1>5. CASE l = m /\ LeaseLapses(m)
  <2>1. CASE dryrun[holder[m]]
    <3>1. queue[l] = "out" /\ ~Taken(l)
      BY <1>5, <2>1 DEF LeaseLapses, Taken, Keeps
    <3>2. unfinished'[l] = unfinished[l]
      BY <1>1, <1>5, <2>1 DEF LeaseLapses, TypeOK
    <3>. QED  BY <1>1, <1>2, <3>1, <3>2, StaysPaid
  <2>2. CASE ~dryrun[holder[m]]
    <3>1. unfinished'[l] = unfinished[l] + 1
      BY <1>1, <1>5, <2>2 DEF LeaseLapses, TypeOK
    <3>. QED  BY <1>1, <1>2, <3>1, StaysPaid
  <2>. QED  BY <2>1, <2>2
<1>6. CASE l = m /\ (Arrive(m) \/ LeaseEnds(m))
  <2>1. ~Taken(l)
    BY <1>6 DEF Arrive, LeaseEnds, Taken, Keeps, Working
  <2>2. unfinished'[l] = unfinished[l]
    BY <1>6 DEF Arrive, LeaseEnds, histories
  <2>. QED  BY <1>1, <1>2, <2>1, <2>2, StaysPaid
<1>. QED  BY <1>4, <1>5, <1>6

(* A run that goes on keeps its letters, but for those it acks. *)
LEMMA GoingOnStaysPaid ==
    ASSUME DupInv, NEW c \in Cli, UNCHANGED <<holder, batch, dryrun, unfinished>>,
           pc[c] # "idle", pc'[c] # "idle", \A d \in Cli \ {c} : Still(d),
           NEW l \in Letter, queue'[l] = queue[l] \/ queue'[l] = "acked",
           Sends(c, l)' => Sends(c, l),
           accepted'[l] = IF Sends(c, l) /\ ~Sends(c, l)' /\ accepted'[l] # accepted[l]
                          THEN accepted[l] + 1 ELSE accepted[l]
    PROVE  Paid(l)'
<1>1. TypeOK /\ Paid(l)
  BY DEF DupInv
<1>2. \A d \in Cli : Keeps(d, l) => Keeps(d, l)'
  BY DEF Keeps, Pulled, Still
<1>3. Taken(l) => Taken(l)'
  BY <1>2 DEF Taken
<1>4. Open(l)' \subseteq Open(l)
  <2>1. ASSUME NEW d \in Cli, Sends(d, l)' PROVE Sends(d, l)
    BY <2>1 DEF Sends, Still
  <2>. QED  BY <2>1 DEF Open
<1>5. CASE Sends(c, l) /\ ~Sends(c, l)' /\ accepted'[l] # accepted[l]
  <2>1. c \in Open(l) /\ c \notin Open(l)'
    BY <1>5 DEF Open
  <2>. QED  BY <1>1, <1>3, <1>4, <1>5, <2>1, StaysPaid
<1>6. CASE ~(Sends(c, l) /\ ~Sends(c, l)' /\ accepted'[l] # accepted[l])
  BY <1>1, <1>3, <1>4, <1>6, StaysPaid
<1>. QED  BY <1>5, <1>6

(* What is accepted for a run is no longer open to it. *)
LEMMA FuturesStayPaid ==
    ASSUME DupInv, NEW c \in Cli, NEW gone \in SUBSET inFlight[c],
           NEW landed \in SUBSET gone, Accept(landed),
           inFlight' = [inFlight EXCEPT ![c] = @ \ gone], gone # {},
           UNCHANGED <<queue, holder, pc, batch, dryrun, at, unfinished>>
    PROVE  \A l \in Letter : Paid(l)'
<1>. SUFFICES ASSUME NEW l \in Letter PROVE Paid(l)'
  OBVIOUS
<1>1. TypeOK /\ FlightInv(c)
  BY DEF DupInv, RunInv
<1>2. inFlight'[c] = inFlight[c] \ gone /\ \A d \in Cli \ {c} : Still(d)
  BY <1>1 DEF TypeOK, Still
<1>3. pc[c] # "idle" /\ ~dryrun[c]
  BY <1>1 DEF FlightInv
<1>4. Sends(c, l)' => Sends(c, l)
  BY <1>2 DEF Sends
<1>5. accepted'[l] = IF l \in landed THEN accepted[l] + 1 ELSE accepted[l]
  BY DEF Accept
<1>6. l \in landed => Sends(c, l) /\ ~Sends(c, l)'
  BY <1>1, <1>2, <1>3 DEF Sends, FlightInv
<1>. QED  BY <1>2, <1>3, <1>4, <1>5, <1>6, GoingOnStaysPaid

(* A run that ends has every letter it keeps counted as unfinished. *)
LEMMA ExitStaysPaid ==
    ASSUME DupInv, NEW c \in Cli, EndOfProcess(c), UNCHANGED holder,
           NEW landed \in SUBSET inFlight[c], Accept(landed), NEW l \in Letter,
           queue'[l] = queue[l] \/ queue'[l] = "acked",
           \/ unfinished'[l] = unfinished[l] + 1
           \/ unfinished'[l] = unfinished[l] /\ ~(queue[l] = "out" /\ Keeps(c, l))
    PROVE  Paid(l)'
<1>1. TypeOK /\ Paid(l) /\ FlightInv(c)
  BY DEF DupInv, RunInv
<1>2. /\ \A d \in Cli \ {c} : Still(d)
      /\ pc'[c] = "idle" /\ inFlight'[c] = {}
  BY <1>1 DEF TypeOK, EndOfProcess, Still
<1>3. accepted'[l] = IF l \in landed THEN accepted[l] + 1 ELSE accepted[l]
  BY DEF Accept
<1>4. Open(l)' \subseteq Open(l) \ {c}
  <2>1. ~Sends(c, l)'
    BY <1>2 DEF Sends
  <2>2. ASSUME NEW d \in Cli \ {c}, Sends(d, l)' PROVE Sends(d, l)
    BY <1>2, <2>2 DEF Sends, Still
  <2>. QED  BY <2>1, <2>2 DEF Open
<1>5. l \in landed => c \in Open(l)
  BY <1>1 DEF Open, Sends, FlightInv
<1>6. \/ accepted'[l] = accepted[l] /\ Open(l)' \subseteq Open(l)
      \/ /\ accepted'[l] = accepted[l] + 1
         /\ \E d \in Open(l) : Open(l)' \subseteq Open(l) \ {d}
  BY <1>3, <1>4, <1>5
<1>7. ~(queue[l] = "out" /\ Keeps(c, l)) => (Taken(l) => Taken(l)')
  <2>1. ASSUME NEW d \in Cli \ {c}, Keeps(d, l) PROVE Keeps(d, l)'
    BY <1>2, <2>1 DEF Keeps, Pulled, Still
  <2>. QED  BY <2>1 DEF Taken
<1>. QED  BY <1>1, <1>6, <1>7, StaysPaid

(* A run takes letters that were free to be pulled. *)
LEMMA FetchStaysPaid ==
    ASSUME DupInv, NEW c \in Cli, NEW s \in Batches, NEW dry \in BOOLEAN, Fetch(c, s, dry)
    PROVE  \A l \in Letter : Paid(l)'
<1>. SUFFICES ASSUME NEW l \in Letter PROVE Paid(l)'
  OBVIOUS
<1>. DEFINE pulled == {s[i] : i \in DOMAIN s}
<1>1. TypeOK /\ Paid(l) /\ FlightInv(c)
  BY DEF DupInv, RunInv
<1>2. /\ \A d \in Cli \ {c} : Still(d)
      /\ pc[c] = "idle" /\ pc'[c] = "publish" /\ batch'[c] = s /\ dryrun'[c] = dry
      /\ inFlight'[c] = {} /\ inFlight[c] = {}
      /\ accepted' = accepted /\ unfinished' = unfinished
  BY <1>1 DEF TypeOK, Fetch, Still, FlightInv, histories
<1>3. /\ queue'[l] = IF l \in pulled THEN "out" ELSE queue[l]
      /\ holder'[l] = IF l \in pulled THEN c ELSE holder[l]
      /\ l \in pulled => queue[l] = "ready"
  BY DEF Fetch
<1>4. Pulled(c)' = pulled
  BY <1>2 DEF Pulled
<1>. HIDE DEF pulled
<1>5. Open(l)' \subseteq Open(l) \cup {c}
  <2>1. ASSUME NEW d \in Cli \ {c}, Sends(d, l)' PROVE Sends(d, l)
    BY <1>2, <2>1 DEF Sends, Still
  <2>. QED  BY <2>1 DEF Open
<1>6. CASE l \in pulled /\ ~dry
  <2>1. ~Taken(l)
    BY <1>3, <1>6 DEF Taken
  <2>2. Taken(l)'
    <3>1. Keeps(c, l)'
      BY <1>2, <1>3, <1>4, <1>6 DEF Keeps
    <3>. QED  BY <1>3, <1>6, <3>1 DEF Taken
  <2>. DEFINE n == Cardinality(Open(l))
              t == IF Taken(l) THEN 1 ELSE 0
  <2>3. n' <= n + 1 /\ n \in Nat /\ n' \in Nat
    BY <1>5, CardShrinks, OpenFinite, OpenFiniteNext
  <2>4. accepted[l] + n <= unfinished[l] + 0
    BY <1>1, <2>1 DEF Paid
  <2>5. t' = 1 /\ accepted[l] \in Nat /\ unfinished[l] \in Nat
    BY <1>1, <2>2 DEF TypeOK
  <2>. HIDE DEF n, t
  <2>6. accepted'[l] + n' <= unfinished'[l] + t'
    BY <1>2, <2>3, <2>4, <2>5
  <2>. QED  BY <2>6 DEF Paid, n, t
<1>7. CASE ~(l \in pulled /\ ~dry)
  <2>1. ~Sends(c, l)'
    <3>1. CASE dry
      BY <1>2, <3>1 DEF Sends
    <3>2. CASE l \notin pulled
      BY <1>2, <1>4, <3>2 DEF Sends, Pulled
    <3>. QED  BY <1>7, <3>1, <3>2
  <2>2. Open(l)' \subseteq Open(l)
    BY <1>5, <2>1 DEF Open
  <2>3. Taken(l) => Taken(l)'
    <3>1. SUFFICES ASSUME Taken(l) PROVE Taken(l)'
      OBVIOUS
    <3>2. queue'[l] = queue[l] /\ holder'[l] = holder[l]
      BY <1>3, <3>1 DEF Taken
    <3>3. ASSUME NEW d \in Cli, Keeps(d, l) PROVE Keeps(d, l)'
      <4>1. d # c
        BY <1>2, <3>3 DEF Keeps
      <4>. QED  BY <1>2, <3>2, <3>3, <4>1 DEF Keeps, Pulled, Still
    <3>. QED  BY <3>1, <3>2, <3>3 DEF Taken
  <2>. QED  BY <1>1, <1>2, <2>2, <2>3, StaysPaid
<1>. QED  BY <1>6, <1>7

(* A process at rest keeps what holds of it while its leases only end. *)
LEMMA StillKeepsRun ==
    ASSUME TypeOK, NEW c \in Cli, FlightInv(c), AckInv(c), Still(c),
           \A l \in Letter : queue'[l] = "out" /\ holder'[l] = c =>
                                 queue[l] = "out" /\ holder[l] = c
    PROVE  FlightInv(c)' /\ AckInv(c)'
<1>1. FlightInv(c)'
  BY DEF FlightInv, Still
<1>2. \A i \in DOMAIN batch[c] : batch[c][i] \in Letter
  BY PulledAreLetters
<1>3. AckInv(c)'
  BY <1>2 DEF AckInv, Still
<1>. QED  BY <1>1, <1>3

(* A process that ended has nothing to keep. *)
LEMMA IdleKeepsRun ==
    ASSUME TypeOK, NEW c \in Cli, EndOfProcess(c)
    PROVE  FlightInv(c)' /\ AckInv(c)'
<1>1. pc'[c] = "idle" /\ inFlight'[c] = {}
  BY DEF TypeOK, EndOfProcess
<1>. QED  BY <1>1 DEF FlightInv, AckInv

(* Leases are taken by pulling alone, and by the process that pulls. *)
LEMMA LeasesOnlyEnd ==
    ASSUME TypeOK, [Next]_vars, NEW c \in Cli, NEW l \in Letter,
           queue'[l] = "out", holder'[l] = c
    PROVE  \/ queue[l] = "out" /\ holder[l] = c
           \/ pc'[c] = "publish" /\ pc[c] = "idle"
<1>1. ASSUME NEW m \in Letter, Arrive(m) \/ LeaseEnds(m) \/ LeaseLapses(m)
      PROVE  queue[l] = "out" /\ holder[l] = c
  BY <1>1 DEF TypeOK, Arrive, LeaseEnds, LeaseLapses
<1>2. ASSUME NEW d \in Cli, NEW s \in Batches, NEW dry \in BOOLEAN, Fetch(d, s, dry)
      PROVE  \/ queue[l] = "out" /\ holder[l] = c
             \/ pc'[c] = "publish" /\ pc[c] = "idle"
  BY <1>2 DEF TypeOK, Fetch
<1>3. ASSUME NEW d \in Cli, AckNext(d) \/ CliDies(d)
      PROVE  queue[l] = "out" /\ holder[l] = c
  BY <1>3 DEF TypeOK, AckNext, AckTaken, CliDies, Exit
<1>4. ASSUME NEW d \in Cli,
             \/ DecodeFails(d) \/ PublishNext(d) \/ DryRunReturns(d) \/ AllPublished(d)
             \/ CallbackExits(d) \/ WaitReturns(d) \/ Done(d)
             \/ \E m \in inFlight[d] : FutureSucceeds(d, m)
             \/ \E failed \in SUBSET inFlight[d] : FuturesFail(d, failed)
      PROVE  queue[l] = "out" /\ holder[l] = c
  BY <1>4 DEF DecodeFails, PublishNext, DryRunReturns, AllPublished, CallbackExits,
     WaitReturns, Done, FutureSucceeds, FuturesFail, Exit, subscription
<1>. QED  BY <1>1, <1>2, <1>3, <1>4 DEF Next, vars, subscription

(* What a run does next keeps its loops' invariants. *)
LEMMA RunStep ==
    ASSUME DupInv, TypeOK', [Next]_vars
    PROVE  RunInv'
<1>. SUFFICES ASSUME NEW c \in Cli PROVE FlightInv(c)' /\ AckInv(c)'
  BY DEF RunInv
<1>0. TypeOK /\ FlightInv(c) /\ AckInv(c)
  BY DEF DupInv, RunInv
<1>1. CASE Still(c)
  <2>1. \A l \in Letter : queue'[l] = "out" /\ holder'[l] = c =>
                              queue[l] = "out" /\ holder[l] = c
    <3>1. ~(pc'[c] = "publish" /\ pc[c] = "idle")
      BY <1>1 DEF Still
    <3>. QED  BY <1>0, <3>1, LeasesOnlyEnd
  <2>. QED  BY <1>0, <1>1, <2>1, StillKeepsRun
<1>2. CASE EndOfProcess(c)
  BY <1>0, <1>2, IdleKeepsRun
<1>3. ASSUME NEW s \in Batches, NEW dry \in BOOLEAN, Fetch(c, s, dry)
      PROVE  FlightInv(c)' /\ AckInv(c)'
  <2>1. pc'[c] = "publish" /\ inFlight'[c] = {}
    BY <1>0, <1>3 DEF TypeOK, Fetch, FlightInv
  <2>. QED  BY <2>1 DEF FlightInv, AckInv
<1>4. CASE PublishNext(c)
  <2>1. /\ pc[c] = "publish" /\ pc'[c] = "publish" /\ at'[c] = at[c] + 1
        /\ batch'[c] = batch[c] /\ at[c] \in 1 .. MaxCount + 1 /\ at[c] <= Len(batch[c])
    BY <1>0, <1>4 DEF TypeOK, PublishNext, command
  <2>2. dryrun'[c] <=> dryrun[c]
    BY <1>4 DEF PublishNext, command
  <2>3. /\ dryrun[c] => inFlight'[c] = inFlight[c]
        /\ inFlight'[c] \subseteq inFlight[c] \cup {batch[c][at[c]]}
    BY <1>0, <1>4 DEF TypeOK, PublishNext
  <2>4. at[c] \in DOMAIN batch[c] /\ MaxCount \in Nat
    <3>1. batch[c] \in Batches
      BY <1>0 DEF TypeOK
    <3>. QED  BY <2>1, <3>1, BatchFacts, ReinjectAssumption
  <2>5. ASSUME NEW i \in DOMAIN batch[c], i >= at'[c] PROVE batch[c][i] \notin inFlight'[c]
    <3>1. i \in 1 .. Len(batch[c]) /\ Len(batch[c]) \in Nat
      BY <1>0, PulledAreLetters
    <3>2. i >= at[c] /\ i # at[c]
      BY <2>1, <2>4, <2>5, <3>1
    <3>3. batch[c][i] # batch[c][at[c]]
      BY <1>0, <2>4, <3>2, BatchOnce
    <3>4. batch[c][i] \notin inFlight[c]
      BY <1>0, <2>1, <3>2 DEF FlightInv
    <3>. QED  BY <2>3, <3>3, <3>4
  <2>6. dryrun'[c] => inFlight'[c] = {}
    BY <1>0, <2>2, <2>3 DEF FlightInv
  <2>. QED  BY <2>1, <2>5, <2>6 DEF FlightInv, AckInv
<1>5. CASE AllPublished(c)
  <2>1. /\ pc'[c] = "wait" /\ inFlight'[c] = inFlight[c] /\ ~dryrun[c]
        /\ dryrun' = dryrun
    BY <1>0, <1>5 DEF TypeOK, AllPublished, command
  <2>. QED  BY <2>1 DEF FlightInv, AckInv
<1>6. ASSUME NEW gone, inFlight' = [inFlight EXCEPT ![c] = @ \ gone],
             UNCHANGED <<queue, holder, pc, batch, dryrun, at>>
      PROVE  FlightInv(c)' /\ AckInv(c)'
  <2>1. inFlight'[c] \subseteq inFlight[c]
    BY <1>0, <1>6 DEF TypeOK
  <2>. QED  BY <1>0, <1>6, <2>1 DEF FlightInv, AckInv
<1>7. CASE \/ \E l \in inFlight[c] : FutureSucceeds(c, l)
           \/ \E failed \in SUBSET inFlight[c] : FuturesFail(c, failed)
  BY <1>6, <1>7 DEF FutureSucceeds, FuturesFail, subscription, command
<1>8. CASE WaitReturns(c)
  <2>1. /\ pc[c] = "wait" /\ pc'[c] = "ack" /\ inFlight'[c] = {} /\ dryrun' = dryrun
        /\ at'[c] = 1 /\ batch' = batch
    BY <1>0, <1>8 DEF TypeOK, WaitReturns, command
  <2>2. ASSUME NEW i \in DOMAIN batch[c] PROVE ~(i < 1)
    BY <1>0, PulledAreLetters
  <2>3. ~dryrun'[c]
    BY <1>0, <2>1 DEF FlightInv
  <2>. QED  BY <2>1, <2>2, <2>3 DEF FlightInv, AckInv
<1>9. CASE AckNext(c)
  <2>1. /\ pc[c] = "ack" /\ pc' = pc /\ inFlight' = inFlight /\ dryrun' = dryrun
        /\ at'[c] = at[c] + 1 /\ batch' = batch /\ holder' = holder
        /\ at[c] \in 1 .. MaxCount + 1 /\ at[c] <= Len(batch[c])
        /\ AckTaken(c, batch[c][at[c]])
    BY <1>0, <1>9 DEF TypeOK, AckNext, command
  <2>2. FlightInv(c)'
    BY <1>0, <2>1 DEF FlightInv
  <2>3. ASSUME NEW i \in DOMAIN batch[c], i < at'[c]
        PROVE  ~(queue'[batch[c][i]] = "out" /\ holder'[batch[c][i]] = c)
    <3>1. batch[c][i] \in Letter /\ i \in 1 .. Len(batch[c]) /\ Len(batch[c]) \in Nat
      BY <1>0, PulledAreLetters
    <3>2. CASE i < at[c]
      <4>1. ~(queue[batch[c][i]] = "out" /\ holder[batch[c][i]] = c)
        BY <1>0, <2>1, <3>2 DEF AckInv
      <4>2. queue'[batch[c][i]] \in {"acked", queue[batch[c][i]]}
        BY <1>0, <2>1, <3>1 DEF TypeOK, AckTaken
      <4>. QED  BY <2>1, <4>1, <4>2
    <3>3. CASE ~(i < at[c])
      <4>1. i = at[c]
        BY <2>1, <2>3, <3>1, <3>3, ReinjectAssumption
      <4>. QED  BY <1>0, <2>1, <3>1, <4>1 DEF TypeOK, AckTaken
    <3>. QED  BY <3>2, <3>3
  <2>. QED  BY <2>1, <2>2, <2>3 DEF AckInv
<1>10. \/ Still(c) \/ EndOfProcess(c) \/ PublishNext(c) \/ AllPublished(c)
       \/ WaitReturns(c) \/ AckNext(c)
       \/ \E s \in Batches, dry \in BOOLEAN : Fetch(c, s, dry)
       \/ \E l \in inFlight[c] : FutureSucceeds(c, l)
       \/ \E failed \in SUBSET inFlight[c] : FuturesFail(c, failed)
  <2>1. ASSUME NEW m \in Letter, Arrive(m) \/ LeaseEnds(m) \/ LeaseLapses(m)
        PROVE  Still(c)
    BY <2>1 DEF Arrive, LeaseEnds, LeaseLapses, command, Still
  <2>2. ASSUME NEW d \in Cli,
               DecodeFails(d) \/ DryRunReturns(d) \/ CallbackExits(d) \/ Done(d) \/ CliDies(d)
        PROVE  EndOfProcess(d)
    BY <2>2 DEF DecodeFails, DryRunReturns, CallbackExits, Done, CliDies, Exit
  <2>3. ASSUME NEW d \in Cli \ {c}, EndOfProcess(d) PROVE Still(c)
    BY <1>0, <2>3 DEF TypeOK, EndOfProcess, Still
  <2>4. ASSUME NEW d \in Cli \ {c},
               PublishNext(d) \/ AllPublished(d) \/ WaitReturns(d) \/ AckNext(d)
        PROVE  Still(c)
    BY <1>0, <2>4 DEF TypeOK, PublishNext, AllPublished, WaitReturns, AckNext, command, Still
  <2>5. ASSUME NEW d \in Cli \ {c}, NEW s \in Batches, NEW dry \in BOOLEAN, Fetch(d, s, dry)
        PROVE  Still(c)
    BY <1>0, <2>5 DEF TypeOK, Fetch, Still
  <2>6. ASSUME NEW d \in Cli \ {c},
               \/ \E l \in inFlight[d] : FutureSucceeds(d, l)
               \/ \E failed \in SUBSET inFlight[d] : FuturesFail(d, failed)
        PROVE  Still(c)
    BY <1>0, <2>6 DEF TypeOK, FutureSucceeds, FuturesFail, command, Still
  <2>7. CASE UNCHANGED vars
    BY <2>7 DEF vars, Still
  <2>. QED  BY <2>1, <2>2, <2>3, <2>4, <2>5, <2>6, <2>7 DEF Next
<1>. QED  BY <1>1, <1>2, <1>3, <1>4, <1>5, <1>7, <1>8, <1>9, <1>10

(* The end of a run, early or not. *)
LEMMA EndsStayPaid ==
    ASSUME DupInv, NEW c \in Cli,
           DecodeFails(c) \/ CallbackExits(c) \/ CliDies(c) \/ DryRunReturns(c) \/ Done(c)
    PROVE  \A l \in Letter : Paid(l)'
<1>. SUFFICES ASSUME NEW l \in Letter PROVE Paid(l)'
  OBVIOUS
<1>1. TypeOK /\ FlightInv(c) /\ AckInv(c)
  BY DEF DupInv, RunInv
<1>2. CASE DecodeFails(c) \/ CallbackExits(c) \/ CliDies(c)
  <2>1. Exit(c) /\ (queue'[l] = queue[l] \/ queue'[l] = "acked")
    BY <1>1, <1>2 DEF DecodeFails, CallbackExits, CliDies, TypeOK
  <2>2. PICK landed \in SUBSET inFlight[c] : Accept(landed)
    BY <2>1 DEF Exit
  <2>3. EndOfProcess(c) /\ UNCHANGED holder
    BY <2>1 DEF Exit
  <2>4. unfinished'[l] = IF l \in NotAcked(c) THEN unfinished[l] + 1 ELSE unfinished[l]
    BY <2>1 DEF Exit
  <2>5. ASSUME queue[l] = "out", Keeps(c, l) PROVE l \in NotAcked(c)
    <3>1. PICK i \in DOMAIN batch[c] : batch[c][i] = l
      BY <2>5 DEF Keeps, Pulled
    <3>2. pc[c] = "ack" => ~(i < at[c])
      BY <1>1, <2>5, <3>1 DEF AckInv, Keeps
    <3>3. pc[c] = "ack" => i >= at[c]
      <4>1. i \in Int /\ at[c] \in Int
        BY <1>1, PulledAreLetters DEF TypeOK
      <4>. QED  BY <3>2, <4>1
    <3>. QED  BY <2>5, <3>1, <3>3 DEF NotAcked, Keeps
  <2>. QED  BY <2>1, <2>2, <2>3, <2>4, <2>5, ExitStaysPaid
<1>3. CASE DryRunReturns(c) \/ Done(c)
  <2>1. /\ EndOfProcess(c) /\ UNCHANGED <<queue, holder, accepted, unfinished>>
    BY <1>3 DEF DryRunReturns, Done, subscription, histories
  <2>2. Accept({})
    <3>1. accepted = [m \in Letter |-> accepted[m]]
      BY <1>1 DEF TypeOK
    <3>. QED  BY <2>1, <3>1 DEF Accept
  <2>3. ~(queue[l] = "out" /\ Keeps(c, l))
    <3>1. CASE DryRunReturns(c)
      BY <3>1 DEF DryRunReturns, Keeps
    <3>2. CASE Done(c)
      <4>1. SUFFICES ASSUME queue[l] = "out", Keeps(c, l) PROVE FALSE
        OBVIOUS
      <4>2. PICK i \in DOMAIN batch[c] : batch[c][i] = l
        BY <4>1 DEF Keeps, Pulled
      <4>3. i < at[c]
        <5>1. i \in 1 .. Len(batch[c]) /\ Len(batch[c]) \in Nat
          BY <1>1, PulledAreLetters
        <5>2. at[c] \in Int /\ at[c] > Len(batch[c])
          BY <1>1, <3>2 DEF TypeOK, Done
        <5>. QED  BY <5>1, <5>2
      <4>. QED  BY <1>1, <3>2, <4>1, <4>2, <4>3 DEF AckInv, Done, Keeps
    <3>. QED  BY <1>3, <3>1, <3>2
  <2>4. {} \in SUBSET inFlight[c]
    OBVIOUS
  <2>. QED  BY <2>1, <2>2, <2>3, <2>4, ExitStaysPaid
<1>. QED  BY <1>2, <1>3

(* The steps of a run between its pull and its end. *)
LEMMA LoopsStayPaid ==
    ASSUME DupInv, NEW c \in Cli,
           PublishNext(c) \/ AllPublished(c) \/ WaitReturns(c) \/ AckNext(c)
    PROVE  \A l \in Letter : Paid(l)'
<1>. SUFFICES ASSUME NEW l \in Letter PROVE Paid(l)'
  OBVIOUS
<1>1. TypeOK
  BY DEF DupInv
<1>2. /\ UNCHANGED <<holder, batch, dryrun, unfinished, accepted>>
      /\ pc[c] # "idle" /\ pc'[c] # "idle" /\ \A d \in Cli \ {c} : Still(d)
  BY <1>1 DEF TypeOK, PublishNext, AllPublished, WaitReturns, AckNext, subscription, command,
     histories, Still
<1>3. queue'[l] = queue[l] \/ queue'[l] = "acked"
  BY <1>1 DEF TypeOK, PublishNext, AllPublished, WaitReturns, AckNext, AckTaken, subscription
<1>4. Sends(c, l)' => Sends(c, l)
  <2>1. CASE PublishNext(c)
    <3>1. /\ pc[c] = "publish" /\ at'[c] = at[c] + 1 /\ batch'[c] = batch[c]
          /\ dryrun' = dryrun /\ at[c] \in 1 .. MaxCount + 1 /\ at[c] <= Len(batch[c])
          /\ inFlight'[c] \subseteq inFlight[c] \cup {batch[c][at[c]]}
      BY <1>1, <2>1 DEF TypeOK, PublishNext, command
    <3>2. at[c] \in DOMAIN batch[c] /\ MaxCount \in Nat
      <4>1. batch[c] \in Batches
        BY <1>1 DEF TypeOK
      <4>. QED  BY <3>1, <4>1, BatchFacts, ReinjectAssumption
    <3>3. ASSUME NEW i \in DOMAIN batch[c], i >= at'[c] PROVE i >= at[c]
      <4>1. i \in Int
        BY <1>1, PulledAreLetters
      <4>. QED  BY <3>1, <3>2, <3>3, <4>1
    <3>4. at[c] >= at[c]
      BY <3>1, <3>2
    <3>. QED  BY <3>1, <3>2, <3>3, <3>4 DEF Sends
  <2>2. CASE AllPublished(c) \/ WaitReturns(c)
    <3>1. /\ dryrun' = dryrun /\ inFlight'[c] = inFlight[c] /\ pc'[c] # "publish"
      BY <1>1, <2>2 DEF TypeOK, AllPublished, WaitReturns, command
    <3>. QED  BY <3>1 DEF Sends
  <2>3. CASE AckNext(c)
    <3>1. /\ dryrun' = dryrun /\ inFlight'[c] = inFlight[c] /\ pc'[c] # "publish"
      BY <1>1, <2>3 DEF TypeOK, AckNext, command
    <3>. QED  BY <3>1 DEF Sends
  <2>. QED  BY <2>1, <2>2, <2>3
<1>. QED  BY <1>2, <1>3, <1>4, GoingOnStaysPaid

LEMMA DupStep == DupInv /\ [Next]_vars => DupInv'
<1>. SUFFICES ASSUME DupInv, [Next]_vars PROVE DupInv'
  OBVIOUS
<1>1. TypeOK /\ TypeOK' /\ RunInv'
  BY TypeStep, RunStep DEF DupInv
<1>2. ASSUME NEW c \in Cli, NEW l \in inFlight[c], FutureSucceeds(c, l)
      PROVE  \A m \in Letter : Paid(m)'
  <2>1. /\ Accept({l}) /\ inFlight' = [inFlight EXCEPT ![c] = @ \ {l}]
        /\ UNCHANGED <<queue, holder, pc, batch, dryrun, at, unfinished>>
    BY <1>2 DEF FutureSucceeds, subscription, command, histories
  <2>2. {l} \in SUBSET inFlight[c] /\ {l} \in SUBSET {l} /\ {l} # {}
    OBVIOUS
  <2>. QED  BY <2>1, <2>2, FuturesStayPaid
<1>3. ASSUME NEW c \in Cli, NEW failed \in SUBSET inFlight[c], FuturesFail(c, failed)
      PROVE  \A m \in Letter : Paid(m)'
  <2>1. PICK landed \in SUBSET failed : Accept(landed)
    BY <1>3 DEF FuturesFail
  <2>2. /\ inFlight' = [inFlight EXCEPT ![c] = @ \ failed] /\ failed # {}
        /\ UNCHANGED <<queue, holder, pc, batch, dryrun, at, unfinished>>
    BY <1>3 DEF FuturesFail, subscription, command
  <2>. QED  BY <2>1, <2>2, FuturesStayPaid
<1>4. CASE UNCHANGED vars
  <2>1. ASSUME NEW l \in Letter PROVE Paid(l)'
    <3>1. Paid(l)
      BY DEF DupInv
    <3>2. Open(l)' = Open(l)
      BY <1>4 DEF vars, Open, Sends
    <3>3. Taken(l)' <=> Taken(l)
      BY <1>4 DEF vars, Taken, Keeps, Pulled
    <3>4. accepted' = accepted /\ unfinished' = unfinished
      BY <1>4 DEF vars
    <3>. QED  BY <3>1, <3>2, <3>3, <3>4 DEF Paid
  <2>. QED  BY <1>1, <2>1 DEF DupInv
<1>5. \/ UNCHANGED vars
      \/ \A l \in Letter : Paid(l)'
  BY <1>2, <1>3, LeasesStayPaid, FetchStaysPaid, EndsStayPaid, LoopsStayPaid DEF Next
<1>. QED  BY <1>1, <1>4, <1>5 DEF DupInv

LEMMA DupInit == Init => DupInv
<1>. SUFFICES ASSUME Init PROVE DupInv
  OBVIOUS
<1>1. RunInv
  BY DEF Init, RunInv, FlightInv, AckInv
<1>2. ASSUME NEW l \in Letter PROVE Paid(l)
  <2>1. Open(l) = {}
    BY DEF Init, Open, Sends
  <2>2. Cardinality(Open(l)) = 0
    BY <2>1, FS_EmptySet
  <2>3. accepted[l] = 0 /\ unfinished[l] = 0
    BY DEF Init
  <2>. QED  BY <2>2, <2>3 DEF Paid
<1>. QED  BY <1>1, <1>2, TypeInit DEF DupInv

(* A letter is accepted twice only if some run let go of it without its ack, *)
(* however runs overlap, die, or ack late (services.py:204-225).             *)
THEOREM DuplicatesAreExplained == Spec => []DuplicatesNeedUnfinishedRuns
<1>1. DupInv => DuplicatesNeedUnfinishedRuns
  <2>1. ASSUME DupInv, NEW l \in Letter PROVE accepted[l] <= 1 + unfinished[l]
    <3>. DEFINE n == Cardinality(Open(l))
                t == IF Taken(l) THEN 1 ELSE 0
    <3>1. /\ n \in Nat /\ t \in Nat /\ t <= 1
          /\ accepted[l] \in Nat /\ unfinished[l] \in Nat
      BY <2>1, OpenFinite DEF DupInv, TypeOK
    <3>2. accepted[l] + n <= unfinished[l] + t
      BY <2>1 DEF DupInv, Paid
    <3>. HIDE DEF n, t
    <3>. QED  BY <3>1, <3>2
  <2>. QED  BY <2>1 DEF DuplicatesNeedUnfinishedRuns
<1>. QED  BY <1>1, DupInit, DupStep, PTL DEF Spec
===============================================================================
