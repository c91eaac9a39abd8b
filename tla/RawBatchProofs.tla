----------------------------- MODULE RawBatchProofs -----------------------------
(***************************************************************************)
(* What holds of spire-raw-batch for every size of the minute, the window  *)
(* and the delay, and for any number of pods, records and faults.          *)
(***************************************************************************)
EXTENDS RawBatch, TLAPS

-------------------------------------------------------------------------------
(* The grid of windows. *)

(* Flooring gives the grid point at or before a tick, less than a unit away: *)
(* what main.py:45-47 relies on to start in the window of the marker.        *)
LEMMA FloorBounds ==
    ASSUME NEW x \in Nat, NEW u \in Nat \ {0}
    PROVE  /\ x \div u \in Nat
           /\ Floor(x, u) \in Nat
           /\ Floor(x, u) <= x
           /\ x < Floor(x, u) + u
<1>1. x \div u \in Int
  OBVIOUS
<1>2. x = u * (x \div u) + (x % u) /\ (x % u) \in 0 .. (u - 1)
  OBVIOUS
<1>3. u * (x \div u) <= x /\ x < u * (x \div u) + u
  BY <1>1, <1>2
<1>4. x \div u >= 0
  BY <1>1, <1>3
<1>5. QED
  BY <1>1, <1>3, <1>4 DEF Floor

(* A tick between two neighbouring grid points floors to the first. *)
LEMMA FloorUnique ==
    ASSUME NEW u \in Nat \ {0}, NEW k \in Nat, NEW x \in Nat,
           u * k <= x, x < u * k + u
    PROVE  Floor(x, u) = u * k
<1>1. x \div u \in Nat /\ u * (x \div u) <= x /\ x < u * (x \div u) + u
  BY FloorBounds DEF Floor
<1>2. CASE x \div u < k
  <2>1. (x \div u) + 1 <= k
    BY <1>1, <1>2
  <2>2. u * ((x \div u) + 1) <= u * k
    BY <1>1, <2>1
  <2>3. u * ((x \div u) + 1) = u * (x \div u) + u
    BY <1>1
  <2>4. QED
    BY <1>1, <2>2, <2>3
<1>3. CASE x \div u > k
  <2>1. k + 1 <= x \div u
    BY <1>1, <1>3
  <2>2. u * (k + 1) <= u * (x \div u)
    BY <1>1, <2>1
  <2>3. u * (k + 1) = u * k + u
    OBVIOUS
  <2>4. QED
    BY <1>1, <2>2, <2>3
<1>4. QED
  BY <1>1, <1>2, <1>3 DEF Floor

OnGrid(x, u) == Floor(x, u) = x

(* A floor is a point of the grid. *)
LEMMA FloorOnGrid ==
    ASSUME NEW x \in Nat, NEW u \in Nat \ {0}
    PROVE  OnGrid(Floor(x, u), u)
<1>1. x \div u \in Nat /\ Floor(x, u) \in Nat
  BY FloorBounds
<1>2. QED
  BY <1>1, FloorUnique DEF Floor, OnGrid

(* So is the point one window after a point of the grid. *)
LEMMA NextOnGrid ==
    ASSUME NEW x \in Nat, NEW u \in Nat \ {0}, OnGrid(x, u)
    PROVE  OnGrid(x + u, u)
<1>1. PICK k \in Nat : x = u * k
  BY FloorBounds DEF OnGrid, Floor
<1>2. u * (k + 1) = x + u
  BY <1>1
<1>3. Floor(x + u, u) = u * (k + 1)
  <2>1. k + 1 \in Nat /\ x + u \in Nat
    OBVIOUS
  <2>2. u * (k + 1) <= x + u /\ x + u < u * (k + 1) + u
    BY <1>2
  <2>3. QED
    BY <2>1, <2>2, FloorUnique
<1>4. QED
  BY <1>2, <1>3 DEF OnGrid

(* A tick of the window that begins at a point of the grid floors to it. *)
LEMMA WindowOfTick ==
    ASSUME NEW x \in Nat, NEW u \in Nat \ {0}, OnGrid(x, u),
           NEW t \in x .. (x + u - 1)
    PROVE  Floor(t, u) = x
<1>1. PICK k \in Nat : x = u * k
  BY FloorBounds DEF OnGrid, Floor
<1>2. t \in Nat /\ u * k <= t /\ t < u * k + u
  BY <1>1
<1>3. QED
  BY <1>1, <1>2, FloorUnique

(* The points of a grid are the multiples of its unit. *)
LEMMA OnGridMod ==
    ASSUME NEW x \in Nat, NEW u \in Nat \ {0}
    PROVE  OnGrid(x, u) <=> x % u = 0
<1>1. x \div u \in Nat /\ x = u * (x \div u) + (x % u)
  BY FloorBounds
<1>2. QED
  BY <1>1 DEF OnGrid, Floor

(* Flooring to the minute first does not leave the window. *)
LEMMA FloorTwice ==
    ASSUME NEW x \in Nat, NEW u \in Nat \ {0}, NEW v \in Nat \ {0}, v % u = 0
    PROVE  /\ Floor(Floor(x, u), v) <= x
           /\ x < Floor(Floor(x, u), v) + v
<1> DEFINE a == x \div u
           b == Floor(x, u) \div v
           q == v \div u
<1>1. a \in Nat /\ Floor(x, u) = u * a /\ u * a <= x /\ x < u * a + u
  BY FloorBounds DEF Floor
<1>2. b \in Nat /\ v * b <= u * a /\ u * a < v * b + v
  BY <1>1, FloorBounds DEF Floor
<1>3. q \in Nat /\ v = u * q
  BY OnGridMod, FloorBounds DEF OnGrid, Floor
<1>4. u * a < u * (q * b + q)
  <2>1. v * b + v = u * (q * b + q)
    <3> HIDE DEF a, b, q
    <3>1. QED
      BY <1>2, <1>3
  <2>2. QED
    BY <1>2, <2>1
<1>5. a + 1 <= q * b + q
  <2> HIDE DEF a, b, q
  <2>1. q * b + q \in Nat
    BY <1>2, <1>3
  <2>2. QED
    BY <1>1, <1>4, <2>1
<1>6. u * a + u <= v * b + v
  <2> HIDE DEF a, b, q
  <2>1. u * (a + 1) <= u * (q * b + q)
    BY <1>1, <1>2, <1>3, <1>5
  <2>2. v * b + v = u * (q * b + q)
    BY <1>2, <1>3
  <2>3. QED
    BY <1>1, <2>1, <2>2
<1>7. QED
  BY <1>1, <1>2, <1>6 DEF Floor

-------------------------------------------------------------------------------
(* Type correctness. *)

(* The types hold at first. *)
LEMMA TypeInit == Init => TypeOK
  BY RawBatchAssumption DEF Init, TypeOK, Ticks

(* Every step keeps the types: one case per action. *)
LEMMA TypeStep == TypeOK /\ [Next]_vars => TypeOK'
<1> SUFFICES ASSUME TypeOK, [Next]_vars PROVE TypeOK'
  OBVIOUS
<1> USE RawBatchAssumption
<1>1. CASE Tick
  BY <1>1 DEF Tick, TypeOK, durable, pod, history, Ticks, Starts
<1>2. CASE \E t \in Ticks : SpireIngests(t) \/ SpireWithdraws(t)
  BY <1>2 DEF SpireIngests, SpireWithdraws, TypeOK, durable, pod, history, Ticks, Starts
<1>3. CASE StartPod
  <2>1. Floor(marker, Minute) \in Nat /\ Floor(Floor(marker, Minute), Step) \in Nat
    BY FloorBounds DEF TypeOK
  <2>2. QED
    BY <1>3, <2>1 DEF StartPod, TypeOK, world, durable, history
<1>4. CASE EnterWindow
  BY <1>4 DEF EnterWindow, TypeOK, world, durable, history
<1>5. CASE Finish
  BY <1>5 DEF Finish, Exit, TypeOK, world, durable, history, Ticks
<1>6. CASE Fetch
  BY <1>6 DEF Fetch, TypeOK, world, durable, Window
<1>7. CASE RetryFetch
  BY <1>7 DEF RetryFetch, TypeOK, world, durable, history
<1>8. CASE WriteParquet
  BY <1>8 DEF WriteParquet, TypeOK, world, history
<1>9. CASE SetMarker
  BY <1>9 DEF SetMarker, TypeOK, world, history
<1>10. CASE PodDies
  BY <1>10 DEF PodDies, Exit, TypeOK, world, durable, history, Ticks
<1>11. CASE UNCHANGED vars
  BY <1>11 DEF vars, TypeOK
<1>12. QED
  BY <1>1, <1>2, <1>3, <1>4, <1>5, <1>6, <1>7, <1>8, <1>9, <1>10, <1>11 DEF Next

(* The model's variables keep their types, for every value of its constants. *)
THEOREM TypeCorrect == Spec => []TypeOK
<1>1. QED
  BY TypeInit, TypeStep, PTL DEF Spec

-------------------------------------------------------------------------------
(* The inductive invariant: what a pod knows at each stage of a window. *)

(* Spire returns what was read or took it back; only the past is read. *)
WorldInv == seen \subseteq data \cup withdrawn /\ maxFetch <= now

(* A file holds records that were read in its own window. *)
FilesInv == \A w \in Starts : archive[w] \subseteq seen \cap Window(w)

(* The marker is on the grid once a pod has moved it; the pod's window      *)
(* starts on the grid and reaches past the marker.                          *)
CursorInv ==
    /\ marker = FirstMarker \/ OnGrid(marker, Step)
    /\ pc # "idle" =>
        OnGrid(startAt, Step) /\ startAt <= marker /\ marker < startAt + Step
    /\ pc \in {"fetch", "write", "mark"} => startAt + Step <= maxFetch

(* What has been done for the window before the pod's next step. *)
StageInv ==
    /\ pc \in {"write", "mark"} => Window(startAt) \subseteq asked
    /\ pc = "write" =>
        /\ df \subseteq seen \cap Window(startAt)
        /\ (seen \cap Window(startAt)) \ df \subseteq withdrawn
    /\ pc = "mark" =>
        (seen \cap Window(startAt)) \ archive[startAt] \subseteq withdrawn

Inv == TypeOK /\ WorldInv /\ FilesInv /\ CursorInv /\ StageInv /\ ReadIsArchived

(* The invariant holds at first: nothing has been read. *)
LEMMA InvInit == Init => Inv
<1> SUFFICES ASSUME Init PROVE Inv
  OBVIOUS
<1>1. TypeOK
  BY TypeInit
<1>2. WorldInv /\ FilesInv /\ CursorInv /\ StageInv /\ ReadIsArchived
  BY DEF Init, WorldInv, FilesInv, CursorInv, StageInv, ReadIsArchived
<1>3. QED
  BY <1>1, <1>2 DEF Inv

(* A window that a pod may fetch has a file of its own. *)
LEMMA WindowHasFile ==
    ASSUME TypeOK, WorldInv, CursorInv, pc \in {"fetch", "write", "mark"}
    PROVE  startAt \in Starts /\ OnGrid(startAt, Step)
<1>1. /\ startAt \in Nat /\ Step \in Nat \ {0} /\ now \in Nat /\ MaxNow \in Nat
      /\ startAt + Step <= now /\ now <= MaxNow
      /\ OnGrid(startAt, Step)
  BY RawBatchAssumption DEF TypeOK, WorldInv, CursorInv
<1>2. startAt % Step = 0
  BY <1>1, OnGridMod, RawBatchAssumption
<1>3. startAt \in 0 .. (MaxNow - 1)
  BY <1>1
<1>4. QED
  BY <1>1, <1>2, <1>3 DEF Starts, Ticks

(* No tick of the pod's window is behind the marker and after the first one. *)
LEMMA WindowIsNew ==
    ASSUME TypeOK, CursorInv, pc # "idle", NEW t \in Window(startAt)
    PROVE  t \notin FirstMarker .. (marker - 1)
<1>1. startAt \in Nat /\ marker \in Nat /\ FirstMarker \in Nat /\ Step \in Nat \ {0}
  BY RawBatchAssumption DEF TypeOK
<1>2. /\ OnGrid(startAt, Step) /\ startAt <= marker /\ marker < startAt + Step
      /\ marker = FirstMarker \/ OnGrid(marker, Step)
  BY DEF CursorInv
<1>3. CASE marker = FirstMarker
  BY <1>1, <1>3
<1>4. CASE OnGrid(marker, Step)
  <2>1. marker \in startAt .. (startAt + Step - 1)
    BY <1>1, <1>2
  <2>2. Floor(marker, Step) = startAt
    BY <1>1, <1>2, <2>1, WindowOfTick
  <2>3. marker = startAt
    BY <1>4, <2>2 DEF OnGrid
  <2>4. QED
    BY <1>1, <2>3 DEF Window
<1>5. QED
  BY <1>2, <1>3, <1>4

(* Every step keeps the invariant: one case per action. *)
LEMMA InvStep == Inv /\ [Next]_vars => Inv'
<1> SUFFICES ASSUME Inv, [Next]_vars PROVE Inv'
  OBVIOUS
<1>0. TypeOK'
  BY TypeStep DEF Inv
<1> USE RawBatchAssumption
<1> USE DEF Inv
<1>1. CASE Tick
  <2>1. WorldInv'
    BY <1>1 DEF Tick, WorldInv, TypeOK, pod, history
  <2>2. QED
    BY <1>0, <1>1, <2>1 DEF Tick, durable, pod, history, FilesInv, CursorInv,
      StageInv, ReadIsArchived
<1>2. CASE \E t \in Ticks : SpireIngests(t) \/ SpireWithdraws(t)
  <2>1. WorldInv'
    BY <1>2 DEF SpireIngests, SpireWithdraws, WorldInv, TypeOK, pod, history
  <2>2. QED
    BY <1>0, <1>2, <2>1 DEF SpireIngests, SpireWithdraws, durable, pod, history, FilesInv,
      CursorInv, StageInv, ReadIsArchived
<1>3. CASE StartPod
  <2>1. /\ Floor(marker, Minute) \in Nat
        /\ OnGrid(Floor(Floor(marker, Minute), Step), Step)
        /\ Floor(Floor(marker, Minute), Step) <= marker
        /\ marker < Floor(Floor(marker, Minute), Step) + Step
    BY FloorBounds, FloorOnGrid, FloorTwice DEF TypeOK
  <2>2. WorldInv'
    BY <1>3 DEF StartPod, WorldInv, world, history, TypeOK
  <2>3. CursorInv'
    BY <1>3, <2>1 DEF StartPod, CursorInv, durable
  <2>4. QED
    BY <1>0, <1>3, <2>2, <2>3 DEF StartPod, world, durable, history, FilesInv,
      StageInv, ReadIsArchived
<1>4. CASE EnterWindow
  BY <1>0, <1>4 DEF EnterWindow, world, durable, history, WorldInv, FilesInv,
    CursorInv, StageInv, ReadIsArchived
<1>5. CASE Finish
  <2>1. WorldInv'
    BY <1>5 DEF Finish, Exit, WorldInv, world, history, TypeOK
  <2>2. QED
    BY <1>0, <1>5, <2>1 DEF Finish, Exit, world, durable, history, FilesInv,
      CursorInv, StageInv, ReadIsArchived
<1>6. CASE Fetch
  <2>1. startAt \in Starts /\ OnGrid(startAt, Step)
    BY <1>6, WindowHasFile DEF Fetch
  <2>2. /\ df' \subseteq seen' \cap Window(startAt)
        /\ (seen' \cap Window(startAt)) \ df' \subseteq withdrawn
        /\ seen \subseteq seen' /\ seen' \subseteq data \cup withdrawn
    BY <1>6 DEF Fetch, WorldInv
  <2>3. FilesInv'
    BY <1>6, <2>2 DEF Fetch, durable, FilesInv
  <2>4. StageInv'
    BY <1>6, <2>2 DEF Fetch, durable, world, StageInv
  <2>5. CursorInv'
    BY <1>6 DEF Fetch, durable, CursorInv
  <2>6. ReadIsArchived'
    <3> SUFFICES ASSUME NEW t \in seen', t \in FirstMarker .. (marker - 1)
                 PROVE  t \in archive[Floor(t, Step)] \/ t \in withdrawn
      BY <1>6 DEF Fetch, durable, world, ReadIsArchived
    <3>1. CASE t \in seen
      BY <3>1 DEF ReadIsArchived
    <3>2. CASE t \in df'
      BY <1>6, <3>2, WindowIsNew DEF Fetch
    <3>3. QED
      BY <1>6, <3>1, <3>2 DEF Fetch
  <2>7. QED
    BY <1>0, <1>6, <2>2, <2>3, <2>4, <2>5, <2>6 DEF Fetch, WorldInv, world
<1>7. CASE RetryFetch
  BY <1>0, <1>7 DEF RetryFetch, world, durable, history, WorldInv, FilesInv,
    CursorInv, StageInv, ReadIsArchived
<1>8. CASE WriteParquet
  <2>1. startAt \in Starts /\ OnGrid(startAt, Step)
    BY <1>8, WindowHasFile DEF WriteParquet
  <2>2. /\ archive' = [archive EXCEPT ![startAt] = df]
        /\ df \subseteq seen \cap Window(startAt)
        /\ (seen \cap Window(startAt)) \ df \subseteq withdrawn
    BY <1>8 DEF WriteParquet, StageInv
  <2>3. archive[startAt] \ archive'[startAt] \subseteq withdrawn
    BY <2>1, <2>2 DEF FilesInv, TypeOK
  <2>4. FilesInv'
    BY <1>8, <2>1, <2>2 DEF WriteParquet, FilesInv, TypeOK, history
  <2>5. StageInv'
    BY <1>8, <2>1, <2>2 DEF WriteParquet, StageInv, TypeOK, history, world
  <2>6. CursorInv' /\ WorldInv'
    BY <1>8 DEF WriteParquet, CursorInv, WorldInv, world, history
  <2>7. ReadIsArchived'
    <3> SUFFICES ASSUME NEW t \in seen, t \in FirstMarker .. (marker - 1)
                 PROVE  t \in archive'[Floor(t, Step)] \/ t \in withdrawn
      BY <1>8 DEF WriteParquet, history, world, ReadIsArchived
    <3>1. t \in archive[Floor(t, Step)] \/ t \in withdrawn
      BY DEF ReadIsArchived
    <3>2. CASE Floor(t, Step) = startAt
      BY <2>1, <2>3, <3>1, <3>2
    <3>3. CASE Floor(t, Step) # startAt
      BY <2>1, <2>2, <3>1, <3>3 DEF TypeOK
    <3>4. QED
      BY <3>2, <3>3
  <2>8. QED
    BY <1>0, <2>4, <2>5, <2>6, <2>7
<1>9. CASE SetMarker
  <2>1. startAt \in Starts /\ OnGrid(startAt, Step) /\ startAt \in Nat
    BY <1>9, WindowHasFile DEF SetMarker, TypeOK
  <2>2. OnGrid(startAt + Step, Step)
    BY <2>1, NextOnGrid
  <2>3. CursorInv'
    BY <1>9, <2>1, <2>2 DEF SetMarker, CursorInv
  <2>4. WorldInv' /\ FilesInv' /\ StageInv'
    BY <1>9 DEF SetMarker, WorldInv, FilesInv, StageInv, world, history
  <2>5. ReadIsArchived'
    <3> SUFFICES ASSUME NEW t \in seen, t \in FirstMarker .. (marker' - 1)
                 PROVE  t \in archive[Floor(t, Step)] \/ t \in withdrawn
      BY <1>9 DEF SetMarker, history, world, ReadIsArchived
    <3>0. t \in Int /\ FirstMarker \in Nat /\ FirstMarker <= t /\ t < startAt + Step
      BY <1>9, <2>1 DEF SetMarker
    <3>1. startAt <= marker /\ marker \in Nat
      BY <1>9 DEF SetMarker, CursorInv, TypeOK
    <3>2. CASE t < startAt
      <4>1. t \in FirstMarker .. (marker - 1)
        BY <2>1, <3>0, <3>1, <3>2
      <4>2. QED
        BY <4>1 DEF ReadIsArchived
    <3>3. CASE t >= startAt
      <4>1. t \in Window(startAt)
        BY <2>1, <3>0, <3>3 DEF Window
      <4>2. t \in archive[startAt] \/ t \in withdrawn
        BY <1>9, <4>1 DEF SetMarker, StageInv
      <4>3. Floor(t, Step) = startAt
        BY <2>1, <4>1, WindowOfTick DEF Window
      <4>4. QED
        BY <4>2, <4>3
    <3>4. QED
      BY <2>1, <3>0, <3>2, <3>3
  <2>6. QED
    BY <1>0, <2>3, <2>4, <2>5
<1>10. CASE PodDies
  <2>1. WorldInv'
    BY <1>10 DEF PodDies, Exit, WorldInv, world, history, TypeOK
  <2>2. QED
    BY <1>0, <1>10, <2>1 DEF PodDies, Exit, world, durable, history, FilesInv,
      CursorInv, StageInv, ReadIsArchived
<1>11. CASE UNCHANGED vars
  BY <1>0, <1>11 DEF vars, WorldInv, FilesInv, CursorInv, StageInv, ReadIsArchived
<1>12. QED
  BY <1>1, <1>2, <1>3, <1>4, <1>5, <1>6, <1>7, <1>8, <1>9, <1>10, <1>11 DEF Next

(* The inductive invariant holds in every reachable state. *)
THEOREM Invariance == Spec => []Inv
<1>1. QED
  BY InvInit, InvStep, PTL DEF Spec

(* However pods die between the fetch, the bucket write and the Firestore    *)
(* write, no record that a run read is behind the marker without being in    *)
(* the file of its window, unless Spire took it back.                        *)
THEOREM ReadStaysArchived == Spec => []ReadIsArchived
<1>1. Inv => ReadIsArchived
  BY DEF Inv
<1>2. QED
  BY <1>1, Invariance, PTL

-------------------------------------------------------------------------------
(* What a step may take from the files: the records its window no longer     *)
(* has, while the marker is not past the window.                             *)
LEMMA FilesLose ==
    Inv /\ [Next]_vars =>
        \A w \in Starts : LET lost == archive[w] \ archive'[w]
                          IN  lost # {} => lost \subseteq withdrawn /\ marker < w + Step
<1> SUFFICES ASSUME Inv, [Next]_vars, NEW w \in Starts, archive[w] \ archive'[w] # {}
             PROVE  archive[w] \ archive'[w] \subseteq withdrawn /\ marker < w + Step
  OBVIOUS
<1>1. WriteParquet
  BY DEF Next, vars, Tick, SpireIngests, SpireWithdraws, StartPod, EnterWindow, Finish,
    Fetch, RetryFetch, SetMarker, PodDies, durable
<1>2. archive' = [archive EXCEPT ![startAt] = df] /\ pc = "write"
  BY <1>1 DEF WriteParquet
<1>3. w = startAt
  BY <1>2 DEF Inv, TypeOK
<1>4. archive[w] \subseteq seen \cap Window(w)
  BY DEF Inv, FilesInv
<1>5. (seen \cap Window(startAt)) \ df \subseteq withdrawn /\ marker < startAt + Step
  BY <1>2 DEF Inv, StageInv, CursorInv
<1>6. archive'[w] = df
  BY <1>2, <1>3 DEF Inv, TypeOK
<1>7. QED
  BY <1>3, <1>4, <1>5, <1>6

(* A file loses nothing to a run that repeats a window after a crash, but    *)
(* what Spire took back, and nothing at all once the marker is past it.      *)
THEOREM FilesLoseOnlyWithdrawn == Spec => ArchiveLosesOnlyWithdrawn
<1>1. Inv /\ [Next]_vars =>
        [\A w \in Starts : LET lost == archive[w] \ archive'[w]
                           IN  lost # {} => lost \subseteq withdrawn /\ marker < w + Step]_vars
  BY FilesLose
<1>2. QED
  BY <1>1, Invariance, PTL DEF Spec, ArchiveLosesOnlyWithdrawn

-------------------------------------------------------------------------------
(* spire-raw-batch implements the abstract progress marker. *)

(* The initial states of the job are initial states of the promise. *)
LEMMA PromiseInit == Init => Promise!Init
  BY DEF Init, Promise!Init, Stored

(* Every step of the job is a step of the promise, or leaves it as it is. *)
LEMMA PromiseStep == Inv /\ [Next]_vars => [Promise!Next]_(Promise!pmVars)
<1> SUFFICES ASSUME Inv, [Next]_vars PROVE [Promise!Next]_(Promise!pmVars)
  OBVIOUS
<1> USE DEF Inv
<1>1. CASE Fetch
  <2>1. seen' \subseteq seen \cup Window(startAt) /\ Stored' = Stored
    BY <1>1 DEF Fetch, Stored, durable
  <2>2. Promise!Read
    BY <1>1, <2>1 DEF Fetch, Promise!Read, durable, world
  <2>3. QED
    BY <2>2 DEF Promise!Next
<1>2. CASE WriteParquet
  <2>1. \A w \in Starts : archive'[w] \subseteq seen'
    <3>1. FilesInv'
      BY InvStep
    <3>2. QED
      BY <3>1 DEF FilesInv
  <2>2. UNCHANGED <<seen, marker, asked, withdrawn>>
    BY <1>2 DEF WriteParquet, history, world
  <2>3. Stored \ Stored' \subseteq withdrawn
    <3> SUFFICES ASSUME NEW t \in Stored, t \notin Stored' PROVE t \in withdrawn
      OBVIOUS
    <3>1. PICK w \in Starts : t \in archive[w]
      BY DEF Stored
    <3>2. t \notin archive'[w]
      BY <3>1 DEF Stored
    <3>3. t \in archive[w] \ archive'[w]
      BY <3>1, <3>2
    <3>4. QED
      BY <3>3, FilesLose
  <2>4. Stored' \subseteq Stored \cup seen
    BY <2>1, <2>2 DEF Stored
  <2>5. Promise!Keep
    BY <2>2, <2>3, <2>4 DEF Promise!Keep
  <2>6. QED
    BY <2>5 DEF Promise!Next
<1>3. CASE SetMarker
  <2>1. /\ startAt \in Nat /\ marker \in Nat /\ Step \in Nat \ {0}
        /\ startAt <= marker /\ marker < startAt + Step
        /\ Window(startAt) \subseteq asked
    BY <1>3, RawBatchAssumption DEF SetMarker, TypeOK, CursorInv, StageInv
  <2>2. marker' = startAt + Step /\ UNCHANGED <<asked, seen, withdrawn, Stored>>
    BY <1>3 DEF SetMarker, history, world, Stored
  <2>3. marker .. (marker' - 1) \subseteq asked
    BY <2>1, <2>2 DEF Window
  <2>4. ReadIsArchived' /\ TypeOK'
    BY InvStep
  <2>5. Promise!DurableUpTo(marker')
    <3> SUFFICES ASSUME NEW t \in seen, t \in FirstMarker .. (marker' - 1)
                 PROVE  t \in Stored \/ t \in withdrawn
      BY DEF Promise!DurableUpTo
    <3>1. t \in archive'[Floor(t, Step)] \/ t \in withdrawn
      BY <2>2, <2>4 DEF ReadIsArchived
    <3>2. Floor(t, Step) \in Starts
      <4>1. t \in Nat /\ t \in 0 .. (MaxNow - 1) /\ MaxNow \in Nat
        BY RawBatchAssumption DEF TypeOK, Ticks
      <4>2. Floor(t, Step) \in Nat /\ Floor(t, Step) <= t
        BY <2>1, <4>1, FloorBounds
      <4>3. Floor(t, Step) % Step = 0
        BY <2>1, <4>1, <4>2, FloorOnGrid, OnGridMod
      <4>4. QED
        BY <4>1, <4>2, <4>3 DEF Starts, Ticks
    <3>3. QED
      BY <2>2, <3>1, <3>2 DEF Stored
  <2>6. marker' > marker
    BY <2>1, <2>2
  <2>7. Promise!Advance
    BY <2>2, <2>3, <2>5, <2>6 DEF Promise!Advance
  <2>8. QED
    BY <2>7 DEF Promise!Next
<1>4. CASE \E t \in Ticks : SpireWithdraws(t)
  <2>1. withdrawn \subseteq withdrawn' /\ UNCHANGED <<archive, marker, asked, seen>>
    BY <1>4 DEF SpireWithdraws, durable, history
  <2>2. Promise!TakeBack
    BY <2>1 DEF Promise!TakeBack, Stored
  <2>3. QED
    BY <2>2 DEF Promise!Next
<1>5. CASE ~Fetch /\ ~WriteParquet /\ ~SetMarker /\ ~(\E t \in Ticks : SpireWithdraws(t))
  <2>1. UNCHANGED <<archive, marker, asked, seen, withdrawn>>
    BY <1>5 DEF world, Next, vars, Tick, SpireIngests, StartPod, EnterWindow, Finish,
      RetryFetch, PodDies, durable, history
  <2>2. QED
    BY <2>1 DEF Promise!pmVars, Stored
<1>6. QED
  BY <1>1, <1>2, <1>3, <1>4, <1>5

(* The job keeps the promise of its marker: the marker passes over no window *)
(* that was not fetched and over no record that is neither archived nor      *)
(* withdrawn, and it never moves back.                                       *)
THEOREM MarkerIsContiguous == Spec => MarkerContiguous
<1>1. QED
  BY PromiseInit, PromiseStep, Invariance, PTL DEF Spec, MarkerContiguous, Promise!Spec
===============================================================================
