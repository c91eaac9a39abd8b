-------------------------- MODULE IngestScraperProofs --------------------------
(***************************************************************************)
(* What holds of spire-ingest-api-scraper for every size of the minute, the *)
(* window, the delay and the flow-control limit, and for any number of     *)
(* records and faults.                                                     *)
(***************************************************************************)
EXTENDS IngestScraper, TLAPS

-------------------------------------------------------------------------------
(* The grid of minutes. *)

OnGrid(x) == \E k \in Nat : x = Minute * k

(* Flooring to the minute gives a point of the grid less than a minute back. *)
LEMMA FloorBounds ==
    ASSUME NEW x \in Nat
    PROVE  /\ Floor(x, Minute) \in Nat
           /\ OnGrid(Floor(x, Minute))
           /\ Floor(x, Minute) <= x
           /\ x < Floor(x, Minute) + Minute
<1>1. Minute \in Nat \ {0}
  BY IngestScraperAssumption
<1>2. x \div Minute \in Int /\ (x % Minute) \in 0 .. (Minute - 1)
      /\ x = Minute * (x \div Minute) + (x % Minute)
  BY <1>1
<1>3. x \div Minute >= 0
  BY <1>1, <1>2
<1> DEFINE k == x \div Minute
<1>4. k \in Nat /\ Minute * k \in Nat
  BY <1>1, <1>2, <1>3
<1>5. Minute * k <= x /\ x < Minute * k + Minute
  BY <1>1, <1>2, <1>4
<1>6. Floor(x, Minute) = Minute * k
  BY DEF Floor
<1> HIDE DEF k
<1>7. QED
  BY <1>4, <1>5, <1>6 DEF OnGrid

(* Flooring leaves a point of the grid alone. *)
LEMMA FloorOfGrid ==
    ASSUME NEW x \in Nat, OnGrid(x)
    PROVE  Floor(x, Minute) = x
<1>1. Minute \in Nat \ {0}
  BY IngestScraperAssumption
<1>2. PICK k \in Nat : x = Minute * k
  BY DEF OnGrid
<1>3. PICK j \in Nat : Floor(x, Minute) = Minute * j
  BY FloorBounds DEF OnGrid
<1>4. Minute * j <= Minute * k /\ Minute * k < Minute * j + Minute
  BY <1>2, <1>3, FloorBounds
<1>5. CASE j < k
  <2>1. j + 1 <= k
    BY <1>5
  <2>2. Minute * (j + 1) <= Minute * k
    BY <1>1, <2>1
  <2>3. Minute * (j + 1) = Minute * j + Minute
    BY <1>1
  <2>4. QED
    BY <1>1, <1>4, <2>2, <2>3
<1>6. CASE j > k
  <2>1. k + 1 <= j
    BY <1>6
  <2>2. Minute * (k + 1) <= Minute * j
    BY <1>1, <2>1
  <2>3. Minute * (k + 1) = Minute * k + Minute
    BY <1>1
  <2>4. QED
    BY <1>1, <1>4, <2>2, <2>3
<1>7. QED
  BY <1>2, <1>3, <1>5, <1>6

(* The window is a whole number of minutes. *)
LEMMA StepOfMinutes ==
    Step \div Minute \in Nat /\ Step = Minute * (Step \div Minute)
<1>1. Minute \in Nat \ {0} /\ Step \in Nat \ {0} /\ Step % Minute = 0
  BY IngestScraperAssumption
<1>2. Step \div Minute \in Int /\ Step = Minute * (Step \div Minute) + (Step % Minute)
  BY <1>1
<1>3. Step \div Minute >= 0
  BY <1>1, <1>2
<1>4. QED
  BY <1>1, <1>2, <1>3

(* The next window starts on the grid, too. *)
LEMMA NextOnGrid ==
    ASSUME NEW x \in Nat, OnGrid(x)
    PROVE  OnGrid(x + Step)
<1>1. PICK k \in Nat : x = Minute * k
  BY DEF OnGrid
<1>2. Minute * (k + (Step \div Minute)) = x + Step
  BY <1>1, StepOfMinutes, IngestScraperAssumption
<1>3. QED
  BY <1>2, StepOfMinutes DEF OnGrid

(* The one-minute requests of a window do not begin before it. *)
LEMMA MinutesOfWindow ==
    ASSUME NEW w \in Nat, NEW m \in Minutes(w)
    PROVE  m \in Nat /\ w <= m
<1>1. PICK i \in 0 .. (Step \div Minute) - 1 : m = w + Minute * i
  BY DEF Minutes
<1>2. Minute * i \in Nat
  BY <1>1, StepOfMinutes, IngestScraperAssumption
<1>3. QED
  BY <1>1, <1>2

(* And together they cover it: lib/spire.py's minutes leave no gap. *)
LEMMA MinutesCover ==
    ASSUME NEW w \in Nat, NEW t \in w .. (w + Step - 1)
    PROVE  \E m \in Minutes(w) : t \in Span(m)
<1> DEFINE d == t - w
           i == d \div Minute
           n == Step \div Minute
<1>1. Minute \in Nat \ {0} /\ Step \in Nat \ {0}
  BY IngestScraperAssumption
<1>2. d \in 0 .. (Step - 1)
  BY <1>1
<1>3. i \in Int /\ Minute * i <= d /\ d < Minute * i + Minute
  <2>1. (d % Minute) \in 0 .. (Minute - 1) /\ d = Minute * (d \div Minute) + (d % Minute)
    BY <1>1, <1>2
  <2>2. QED
    BY <1>1, <1>2, <2>1
<1>4. i >= 0
  BY <1>1, <1>2, <1>3
<1>5. i < n
  <2> HIDE DEF d, i, n
  <2>1. SUFFICES ASSUME n <= i PROVE FALSE
    BY <1>3, StepOfMinutes DEF n
  <2>2. Minute * n <= Minute * i
    BY <1>1, <1>3, <1>4, <2>1, StepOfMinutes DEF n
  <2>3. Minute * n = Step
    BY StepOfMinutes DEF n
  <2>4. Minute * i \in Nat
    BY <1>1, <1>3, <1>4
  <2>5. QED
    BY <1>1, <1>2, <1>3, <2>2, <2>3, <2>4
<1>6. w + Minute * i \in Minutes(w)
  BY <1>3, <1>4, <1>5, StepOfMinutes DEF Minutes
<1>7. t \in Span(w + Minute * i)
  <2>1. t = w + d /\ w + Minute * i \in Int
    BY <1>1, <1>2, <1>3
  <2> HIDE DEF d, i
  <2>2. QED
    BY <1>1, <1>2, <1>3, <2>1 DEF Span
<1>8. QED
  BY <1>6, <1>7

-------------------------------------------------------------------------------
(* Types. *)

LEMMA TypeInit == Init => TypeOK
<1> SUFFICES ASSUME Init PROVE TypeOK
  OBVIOUS
<1>1. 0 \in 0 .. MaxNow /\ 0 \in 0 .. MaxFaults /\ FirstMarker \in Nat
  BY IngestScraperAssumption
<1>2. tries \in [pending -> 0 .. MaxRetries]
  BY DEF Init
<1>3. /\ now = 0 /\ data = {} /\ marker = FirstMarker /\ table = {}
      /\ pc = "idle" /\ cursor = 0 /\ endAt = 0
      /\ pending = {} /\ rows = {}
      /\ inFlight = {} /\ faults = 0 /\ asked = {} /\ seen = {} /\ refused = {}
  BY DEF Init
<1>4. sigterm \in BOOLEAN /\ doomed \in BOOLEAN
  BY DEF Init
<1>5. QED
  BY <1>1, <1>2, <1>3, <1>4 DEF TypeOK

(* The end of a process leaves well-typed values. *)
LEMMA ExitType ==
    ASSUME TypeOK, Exit
    PROVE  /\ pc' = "idle" /\ cursor' = 0 /\ endAt' = 0
           /\ table' \subseteq Ticks /\ table \subseteq table'
           /\ table' \subseteq table \cup inFlight
           /\ sigterm' \in BOOLEAN /\ doomed' \in BOOLEAN
           /\ pending' \subseteq Nat
           /\ tries' \in [pending' -> 0 .. MaxRetries]
           /\ rows' = {} /\ inFlight' = {}
<1>1. sigterm' \in BOOLEAN /\ doomed' \in BOOLEAN
  BY DEF Exit
<1>2. pending' \subseteq Nat /\ tries' \in [pending' -> 0 .. MaxRetries]
  BY DEF Exit
<1>3. QED
  BY <1>1, <1>2 DEF TypeOK, Exit

LEMMA TypeStep == TypeOK /\ [Next]_vars => TypeOK'
<1> SUFFICES ASSUME TypeOK, [Next]_vars PROVE TypeOK'
  OBVIOUS
<1> USE IngestScraperAssumption
<1>1. CASE Tick
  <2>1. now' \in 0 .. MaxNow
    BY <1>1 DEF TypeOK, Tick
  <2>2. QED
    BY <1>1, <2>1 DEF TypeOK, Tick, run, request, history, Ticks
<1>2. CASE \E t \in Ticks : SpireIngests(t)
  BY <1>2 DEF TypeOK, SpireIngests, run, request, history
<1>3. CASE SigtermArrives
  BY <1>3 DEF TypeOK, SigtermArrives, Fault, world, run, request, history
<1>4. CASE StartPod
  <2>1. cursor' \in Nat
    BY <1>4, FloorBounds DEF TypeOK, StartPod
  <2>2. endAt' \in Int
    <3>1. now - Delay \in Int /\ Minute \in Nat \ {0}
      BY DEF TypeOK
    <3>2. (now - Delay) \div Minute \in Int
      BY <3>1
    <3>3. QED
      BY <1>4, <3>1, <3>2 DEF StartPod, Floor
  <2>3. QED
    BY <1>4, <2>1, <2>2 DEF TypeOK, StartPod, world, request, history
<1>5. CASE EnterWindow
  <2>1. pending' \subseteq Nat
    BY <1>5, MinutesOfWindow DEF TypeOK, EnterWindow
  <2>2. tries' \in [pending' -> 0 .. MaxRetries]
    BY <1>5 DEF EnterWindow
  <2>3. QED
    BY <1>5, <2>1, <2>2 DEF TypeOK, EnterWindow, world, run, history
<1>6. CASE Finish
  BY <1>6, ExitType DEF TypeOK, Finish, world, history
<1>7. CASE \E m \in pending : FetchMinute(m)
  <2>1. PICK m \in pending : FetchMinute(m)
    BY <1>7
  <2>2. Span(m) \subseteq Nat
    BY DEF TypeOK, Span
  <2>3. tries' \in [pending' -> 0 .. MaxRetries]
    BY <2>1 DEF TypeOK, FetchMinute
  <2>4. QED
    BY <2>1, <2>2, <2>3 DEF TypeOK, FetchMinute, world, run
<1>8. CASE Gathered
  BY <1>8 DEF TypeOK, Gathered, world, request, history
<1>9. CASE \E t \in rows : PublishAsync(t)
  BY <1>9 DEF TypeOK, PublishAsync, world, run, request, history
<1>10. CASE AllSubmitted \/ WaitReturns
  BY <1>10 DEF TypeOK, AllSubmitted, WaitReturns, world, run, request, history
<1>11. CASE SetMarker
  BY <1>11 DEF TypeOK, SetMarker, world, request, history
<1>12. CASE \E m \in pending : RetryMinute(m)
  <2>1. PICK m \in pending : RetryMinute(m)
    BY <1>12
  <2>2. tries' \in [pending -> 0 .. MaxRetries]
    BY <2>1 DEF TypeOK, RetryMinute
  <2>3. QED
    BY <2>1, <2>2 DEF TypeOK, RetryMinute, Fault, world, run, history
<1>13. CASE FutureStep
  BY <1>13 DEF TypeOK, FutureStep, FutureSucceeds, world, run, request, history
<1>14. CASE \E t \in inFlight : FutureFails(t)
  <2>1. PICK t \in inFlight : FutureFails(t)
    BY <1>14
  <2>2. faults' \in 0 .. MaxFaults
    BY <2>1 DEF TypeOK, FutureFails, Fault
  <2>3. table' \subseteq Ticks
    BY <2>1 DEF TypeOK, FutureFails
  <2>4. QED
    BY <2>1, <2>2, <2>3 DEF TypeOK, FutureFails, world, run, request
<1>15. CASE CallbackExits
  BY <1>15, ExitType DEF TypeOK, CallbackExits, world, history
<1>16. CASE PodDies
  <2>1. faults' \in 0 .. MaxFaults
    BY <1>16 DEF TypeOK, PodDies, Fault
  <2>2. QED
    BY <1>16, <2>1, ExitType DEF TypeOK, PodDies, world, history
<1>17. CASE UNCHANGED vars
  BY <1>17 DEF TypeOK, vars
<1>18. QED
  BY <1>1, <1>2, <1>3, <1>4, <1>5, <1>6, <1>7, <1>8, <1>9, <1>10, <1>11, <1>12, <1>13,
     <1>14, <1>15, <1>16, <1>17 DEF Next, PodStep

(* The scraper's variables keep their types: in particular no request is    *)
(* retried more than MaxRetries times, and only fetched ticks are records.  *)
THEOREM TypeCorrect == Spec => []TypeOK
  BY TypeInit, TypeStep, PTL DEF Spec

-------------------------------------------------------------------------------
(* The inductive invariant.                                                *)

Window == cursor .. (cursor + Step - 1)

(* What is left to publish or on the wire was fetched. *)
FetchedInv ==
    /\ seen \subseteq data /\ rows \subseteq seen
    /\ inFlight \subseteq Collected
    /\ pc = "publish" => rows \subseteq Useful
    /\ pc \in {"wait", "mark"} => rows = {}
    /\ pc \notin {"publish", "wait"} => inFlight = {}

(* A run starts at most a minute before the marker, and in a minute before  *)
(* the marker only if no run has moved it yet.                             *)
CursorInv ==
    /\ OnGrid(marker) \/ marker = FirstMarker
    /\ pc # "idle" => /\ OnGrid(cursor)
                      /\ marker < cursor + Minute
                      /\ marker <= cursor \/ marker = FirstMarker

(* Below the run's cursor everything was asked for, and what came is settled. *)
BelowInv ==
    pc # "idle" =>
        /\ marker .. (cursor - 1) \subseteq asked
        /\ \A t \in Collected : t \in FirstMarker .. (cursor - 1) => t \in Resolved

(* The requests answered so far, and the records they returned. *)
FetchInv ==
    pc = "fetch" =>
        /\ pending \subseteq Minutes(cursor)
        /\ \A m \in Minutes(cursor) \ pending :
               Span(m) \subseteq asked /\ seen \cap Span(m) \subseteq rows

(* After them, every record of the window is somewhere on its way. *)
WindowInv ==
    pc \in {"publish", "wait", "mark"} =>
        /\ Window \subseteq asked
        /\ Collected \cap Window \subseteq rows \cup inFlight \cup Resolved

Inv ==
    /\ TypeOK /\ FetchedInv /\ CursorInv /\ BelowInv /\ FetchInv /\ WindowInv
    /\ LostOnlyIfRefused

Parts == FetchedInv /\ CursorInv /\ BelowInv /\ FetchInv /\ WindowInv /\ LostOnlyIfRefused

LEMMA InvInit == Init => Inv
<1> SUFFICES ASSUME Init PROVE Inv
  OBVIOUS
<1>1. TypeOK
  BY TypeInit
<1>2. Parts
  BY DEF Init, Parts, FetchedInv, CursorInv, BelowInv, FetchInv, WindowInv,
         LostOnlyIfRefused, Collected
<1>3. QED
  BY <1>1, <1>2 DEF Inv, Parts

(* A pod that ends forgets everything but the marker, the table and history. *)
LEMMA ExitKeepsParts ==
    ASSUME Inv, Exit, UNCHANGED <<world, marker, history>>
    PROVE  Parts'
<1>1. /\ pc' = "idle" /\ table \subseteq table' /\ rows' = {} /\ inFlight' = {}
      /\ UNCHANGED <<marker, data, asked, seen, refused>>
  BY ExitType DEF Inv, world, history
<1>2. FetchedInv' /\ CursorInv' /\ BelowInv' /\ FetchInv' /\ WindowInv'
  BY <1>1 DEF Inv, FetchedInv, CursorInv, BelowInv, FetchInv, WindowInv, OnGrid
<1>3. LostOnlyIfRefused'
  BY <1>1 DEF Inv, LostOnlyIfRefused, Collected, Resolved
<1>4. QED
  BY <1>2, <1>3 DEF Parts

(* A pod starts in the minute of the marker: the records of that minute     *)
(* before the marker are settled, or older than the first marker.          *)
LEMMA StartKeepsParts ==
    ASSUME Inv, StartPod
    PROVE  Parts'
<1>1. /\ pc = "idle" /\ pc' = "loop" /\ cursor' = Floor(marker, Minute)
      /\ UNCHANGED <<marker, data, asked, seen, refused, table, rows, inFlight>>
  BY DEF StartPod, world, history
<1>2. marker \in Nat /\ Minute \in Nat \ {0}
  BY IngestScraperAssumption DEF Inv, TypeOK
<1>3. /\ cursor' \in Nat /\ cursor' <= marker /\ marker < cursor' + Minute
      /\ OnGrid(cursor')
  BY <1>1, <1>2, FloorBounds
<1>4. CursorInv'
  <2>1. OnGrid(marker) => marker <= cursor'
    BY <1>1, <1>2, FloorOfGrid
  <2>2. QED
    BY <1>1, <1>3, <2>1 DEF Inv, CursorInv, OnGrid
<1>5. BelowInv'
  <2>1. \A x, y \in Nat : y <= x =>
            /\ x .. (y - 1) = {}
            /\ \A z \in Nat : z .. (y - 1) \subseteq z .. (x - 1)
    OBVIOUS
  <2>2. FirstMarker \in Nat /\ cursor' \in Nat /\ cursor' <= marker
    BY <1>3, IngestScraperAssumption
  <2>3. /\ marker .. (cursor' - 1) = {}
        /\ FirstMarker .. (cursor' - 1) \subseteq FirstMarker .. (marker - 1)
    BY <1>2, <2>1, <2>2
  <2>4. QED
    BY <1>1, <2>3 DEF Inv, BelowInv, LostOnlyIfRefused, Collected, Resolved
<1>6. FetchedInv' /\ FetchInv' /\ WindowInv'
  BY <1>1 DEF Inv, FetchedInv, FetchInv, WindowInv, Collected
<1>7. LostOnlyIfRefused'
  BY <1>1 DEF Inv, LostOnlyIfRefused, Collected, Resolved
<1>8. QED
  BY <1>4, <1>5, <1>6, <1>7 DEF Parts

(* A one-minute answer adds records of the window only, and all of them are *)
(* among the rows.                                                         *)
LEMMA FetchKeepsParts ==
    ASSUME Inv, NEW m \in pending, FetchMinute(m)
    PROVE  Parts'
<1>1. /\ pc = "fetch" /\ pc' = "fetch" /\ pending' = pending \ {m}
      /\ rows' = rows \cup (data \cap Span(m))
      /\ asked' = asked \cup Span(m)
      /\ seen' = seen \cup (data \cap Span(m))
      /\ UNCHANGED <<marker, cursor, data, table, inFlight, refused>>
  BY DEF FetchMinute, world, run
<1>2. marker \in Nat /\ cursor \in Nat /\ Minute \in Nat \ {0} /\ FirstMarker \in Nat
  BY IngestScraperAssumption DEF Inv, TypeOK
<1>3. m \in Minutes(cursor) /\ m \in Nat /\ cursor <= m
  BY <1>1, <1>2, MinutesOfWindow DEF Inv, FetchInv
<1>4. \A t \in Span(m) : t \in Nat /\ cursor <= t
  BY <1>2, <1>3 DEF Span
<1>5. \A t \in Collected' : t \in Collected \/ t \in Span(m)
  BY <1>1 DEF Collected
<1>6. FetchedInv' /\ CursorInv'
  BY <1>1 DEF Inv, FetchedInv, CursorInv, Collected, OnGrid
<1>7. BelowInv'
  <2>1. SUFFICES ASSUME NEW t \in Collected', t \in FirstMarker .. (cursor - 1)
                 PROVE  t \in Resolved
    BY <1>1 DEF Inv, BelowInv, Resolved
  <2>2. t \notin Span(m)
    BY <1>2, <1>4, <2>1
  <2>3. QED
    BY <1>1, <1>5, <2>1, <2>2 DEF Inv, BelowInv
<1>8. FetchInv'
  <2>1. SUFFICES ASSUME NEW k \in Minutes(cursor) \ (pending \ {m})
                 PROVE  Span(k) \subseteq asked' /\ seen' \cap Span(k) \subseteq rows'
    BY <1>1 DEF Inv, FetchInv, Minutes
  <2>2. CASE k = m
    BY <1>1, <2>2 DEF Inv, FetchedInv
  <2>3. CASE k \in Minutes(cursor) \ pending
    BY <1>1, <2>3 DEF Inv, FetchInv
  <2>4. QED
    BY <2>1, <2>2, <2>3
<1>9. WindowInv'
  BY <1>1 DEF WindowInv
<1>10. LostOnlyIfRefused'
  <2>1. SUFFICES ASSUME NEW t \in Collected', t \in FirstMarker .. (marker - 1)
                 PROVE  t \in Resolved
    BY <1>1 DEF LostOnlyIfRefused, Resolved
  <2>2. marker <= cursor \/ marker = FirstMarker
    BY <1>1 DEF Inv, CursorInv
  <2>3. t \notin Span(m)
    BY <1>2, <1>4, <2>1, <2>2
  <2>4. QED
    BY <1>5, <2>1, <2>3 DEF Inv, LostOnlyIfRefused
<1>11. QED
  BY <1>6, <1>7, <1>8, <1>9, <1>10 DEF Parts

(* The rows of an answered window are every record a run fetched of it; an  *)
(* empty window has none, so the cursor may pass it.                       *)
LEMMA GatheredKeepsParts ==
    ASSUME Inv, Gathered
    PROVE  Parts'
<1>1. /\ pc = "fetch" /\ pending = {}
      /\ UNCHANGED <<marker, data, asked, seen, refused, table, inFlight>>
  BY DEF Gathered, world, history
<1>2. /\ marker \in Nat /\ cursor \in Nat /\ Minute \in Nat \ {0} /\ FirstMarker \in Nat
      /\ Step \in Nat \ {0}
  BY IngestScraperAssumption DEF Inv, TypeOK
<1>3. \A t \in Window : t \in asked /\ (t \in seen => t \in rows)
  <2>1. SUFFICES ASSUME NEW t \in Window PROVE t \in asked /\ (t \in seen => t \in rows)
    OBVIOUS
  <2>2. PICK m \in Minutes(cursor) : t \in Span(m)
    BY <1>2, <2>1, MinutesCover DEF Window
  <2>3. QED
    BY <1>1, <2>2 DEF Inv, FetchInv
<1>4. CASE rows = {}
  <2>1. cursor' = cursor + Step /\ pc' = "loop" /\ rows' = {}
    BY <1>4 DEF Gathered
  <2>2. CursorInv'
    <3>1. OnGrid(cursor')
      BY <1>1, <1>2, <2>1, NextOnGrid DEF Inv, CursorInv
    <3>2. marker < cursor + Minute /\ (marker <= cursor \/ marker = FirstMarker)
      BY <1>1 DEF Inv, CursorInv
    <3>3. marker < cursor' + Minute /\ (marker <= cursor' \/ marker = FirstMarker)
      BY <1>2, <2>1, <3>2
    <3>4. QED
      BY <1>1, <3>1, <3>3 DEF Inv, CursorInv, OnGrid
  <2>3. \A t \in Int : t <= cursor' - 1 => t <= cursor - 1 \/ t \in Window
    BY <1>2, <2>1 DEF Window
  <2>4. BelowInv'
    <3>1. ASSUME NEW t \in marker .. (cursor' - 1) PROVE t \in asked
      BY <1>1, <1>2, <1>3, <2>3 DEF Inv, BelowInv
    <3>2. ASSUME NEW t \in Collected, t \in FirstMarker .. (cursor' - 1)
          PROVE  t \in Resolved
      BY <1>1, <1>2, <1>3, <1>4, <2>3, <3>2 DEF Inv, BelowInv, Collected
    <3>3. QED
      BY <1>1, <3>1, <3>2 DEF BelowInv, Collected, Resolved
  <2>5. FetchedInv' /\ FetchInv' /\ WindowInv' /\ LostOnlyIfRefused'
    BY <1>1, <2>1 DEF Inv, FetchedInv, FetchInv, WindowInv, LostOnlyIfRefused,
                      Collected, Resolved
  <2>6. QED
    BY <2>2, <2>4, <2>5 DEF Parts
<1>5. CASE rows # {}
  <2>1. cursor' = cursor /\ pc' = "publish" /\ rows' = rows \cap Useful
    BY <1>5 DEF Gathered
  <2>2. WindowInv'
    BY <1>1, <1>3, <2>1 DEF WindowInv, Window, Collected, Resolved
  <2>3. FetchedInv' /\ CursorInv' /\ BelowInv' /\ FetchInv' /\ LostOnlyIfRefused'
    BY <1>1, <2>1 DEF Inv, FetchedInv, CursorInv, BelowInv, FetchInv, LostOnlyIfRefused,
                      Collected, Resolved, OnGrid
  <2>4. QED
    BY <2>2, <2>3 DEF Parts
<1>6. QED
  BY <1>4, <1>5

(* The steps that move a row on its way, or settle it. *)
LEMMA PublishingKeepsParts ==
    ASSUME Inv,
           \/ \E t \in rows : PublishAsync(t)
           \/ AllSubmitted \/ WaitReturns
           \/ FutureStep
           \/ \E t \in inFlight : FutureFails(t)
    PROVE  Parts'
<1>1. UNCHANGED <<marker, cursor, data, asked, seen, pending>>
  BY DEF PublishAsync, AllSubmitted, WaitReturns, FutureStep, FutureSucceeds, FutureFails,
         world, run, request, history
<1>2. /\ Resolved \subseteq Resolved'
      /\ rows \cup inFlight \cup Resolved \subseteq rows' \cup inFlight' \cup Resolved'
      /\ rows' \subseteq rows
      /\ inFlight' \subseteq inFlight \cup (rows \cap Useful)
      /\ rows' # rows => pc = "publish" /\ pc' = "publish"
      /\ inFlight' \subseteq inFlight \/ pc' = "publish"
  BY DEF PublishAsync, AllSubmitted, WaitReturns, FutureStep, FutureSucceeds, FutureFails,
         world, run, request, history, Resolved, Inv, FetchedInv
<1>3. \/ pc' = pc
      \/ pc = "publish" /\ pc' = "wait" /\ rows' = {}
      \/ pc = "wait" /\ pc' = "mark" /\ inFlight' = {}
  BY DEF PublishAsync, AllSubmitted, WaitReturns, FutureStep, FutureSucceeds, FutureFails,
         world, run, request, history, Resolved
<1>4. Collected' = Collected /\ Window' = Window
  BY <1>1 DEF Collected, Window
<1>5. FetchedInv'
  BY <1>1, <1>2, <1>3, <1>4 DEF Inv, FetchedInv, Collected
<1>6. CursorInv' /\ BelowInv' /\ LostOnlyIfRefused'
  BY <1>1, <1>2, <1>3, <1>4 DEF Inv, CursorInv, BelowInv, LostOnlyIfRefused, OnGrid
<1>7. FetchInv'
  BY <1>1, <1>2, <1>3 DEF Inv, FetchInv, Minutes
<1>8. WindowInv'
  BY <1>1, <1>2, <1>3, <1>4 DEF Inv, WindowInv
<1>9. QED
  BY <1>5, <1>6, <1>7, <1>8 DEF Parts

(* The marker moves to the end of a window whose rows are all settled. *)
LEMMA MarkKeepsParts ==
    ASSUME Inv, SetMarker
    PROVE  Parts'
<1>1. /\ pc = "mark" /\ pc' = "loop"
      /\ marker' = cursor + Step /\ cursor' = cursor + Step
      /\ UNCHANGED <<data, asked, seen, refused, table, rows, inFlight>>
  BY DEF SetMarker, world, history
<1>2. /\ cursor \in Nat /\ Minute \in Nat \ {0} /\ FirstMarker \in Nat
      /\ Step \in Nat \ {0}
  BY IngestScraperAssumption DEF Inv, TypeOK
<1>3. rows = {} /\ inFlight = {}
  BY <1>1 DEF Inv, FetchedInv
<1>4. ASSUME NEW t \in Collected, t \in FirstMarker .. (cursor + Step - 1)
      PROVE  t \in Resolved
  <2>1. t <= cursor - 1 \/ t \in Window
    BY <1>2, <1>4 DEF Window
  <2>2. CASE t <= cursor - 1
    BY <1>1, <1>2, <1>4, <2>2 DEF Inv, BelowInv
  <2>3. CASE t \in Window
    BY <1>1, <1>3, <2>3 DEF Inv, WindowInv
  <2>4. QED
    BY <2>1, <2>2, <2>3
<1>5. CursorInv'
  <2>1. OnGrid(cursor + Step)
    BY <1>1, <1>2, NextOnGrid DEF Inv, CursorInv
  <2>2. marker' < cursor' + Minute /\ marker' <= cursor'
    BY <1>1, <1>2
  <2>3. QED
    BY <1>1, <2>1, <2>2 DEF CursorInv, OnGrid
<1>6. BelowInv'
  <2>1. \A x \in Nat : x .. (x - 1) = {}
    OBVIOUS
  <2>2. cursor' \in Nat /\ marker' = cursor'
    BY <1>1, <1>2
  <2>3. marker' .. (cursor' - 1) = {}
    BY <2>1, <2>2
  <2>4. \A t \in Collected : t \in FirstMarker .. (cursor' - 1) => t \in Resolved
    <3>1. cursor' - 1 = cursor + Step - 1
      BY <1>1, <1>2
    <3>2. ASSUME NEW t \in Collected, t \in FirstMarker .. (cursor' - 1)
          PROVE  t \in Resolved
      <4>1. t \in FirstMarker .. (cursor + Step - 1)
        BY <3>1, <3>2
      <4>2. QED
        BY <1>4, <4>1
    <3>3. QED
      BY <3>2
  <2>5. QED
    BY <1>1, <2>3, <2>4 DEF BelowInv, Collected, Resolved
<1>7. LostOnlyIfRefused'
  <2>1. marker' - 1 = cursor + Step - 1
    BY <1>1, <1>2
  <2>2. ASSUME NEW t \in Collected, t \in FirstMarker .. (marker' - 1)
        PROVE  t \in Resolved
    <3>1. t \in FirstMarker .. (cursor + Step - 1)
      BY <2>1, <2>2
    <3>2. QED
      BY <1>4, <3>1
  <2>3. QED
    BY <1>1, <2>2 DEF LostOnlyIfRefused, Collected, Resolved
<1>8. FetchedInv' /\ FetchInv' /\ WindowInv'
  BY <1>1 DEF Inv, FetchedInv, FetchInv, WindowInv, Collected
<1>9. QED
  BY <1>5, <1>6, <1>7, <1>8 DEF Parts

LEMMA InvStep == Inv /\ [Next]_vars => Inv'
<1> SUFFICES ASSUME Inv, [Next]_vars PROVE Parts'
  BY TypeStep DEF Inv, Parts
<1>1. CASE Tick \/ SigtermArrives \/ (\E m \in pending : RetryMinute(m)) \/ UNCHANGED vars
  <2>1. UNCHANGED <<data, marker, table, pc, cursor, pending, rows, inFlight, asked, seen,
                    refused>>
    BY <1>1 DEF Tick, SigtermArrives, RetryMinute, vars, world, run, request, history
  <2>2. QED
    BY <2>1 DEF Inv, Parts, FetchedInv, CursorInv, BelowInv, FetchInv, WindowInv, Window,
                LostOnlyIfRefused, Collected, Resolved, OnGrid, Minutes
<1>2. CASE \E t \in Ticks : SpireIngests(t)
  <2>1. /\ data \subseteq data'
        /\ UNCHANGED <<marker, table, pc, cursor, pending, rows, inFlight, asked, seen, refused>>
    BY <1>2 DEF SpireIngests, run, request, history
  <2>2. QED
    BY <2>1 DEF Inv, Parts, FetchedInv, CursorInv, BelowInv, FetchInv, WindowInv, Window,
                LostOnlyIfRefused, Collected, Resolved, OnGrid, Minutes
<1>3. CASE StartPod
  BY <1>3, StartKeepsParts
<1>4. CASE EnterWindow
  <2>1. /\ pc = "loop" /\ pc' = "fetch" /\ pending' = Minutes(cursor) /\ rows' = {}
        /\ UNCHANGED <<data, marker, table, cursor, inFlight, asked, seen, refused>>
    BY <1>4 DEF EnterWindow, world, run, history
  <2>2. QED
    BY <2>1 DEF Inv, Parts, FetchedInv, CursorInv, BelowInv, FetchInv, WindowInv,
                LostOnlyIfRefused, Collected, Resolved, OnGrid, Minutes
<1>5. CASE Finish \/ CallbackExits \/ PodDies
  BY <1>5, ExitKeepsParts DEF Finish, CallbackExits, PodDies
<1>6. CASE \E m \in pending : FetchMinute(m)
  BY <1>6, FetchKeepsParts
<1>7. CASE Gathered
  BY <1>7, GatheredKeepsParts
<1>8. CASE \/ \E t \in rows : PublishAsync(t)
           \/ AllSubmitted \/ WaitReturns
           \/ FutureStep
           \/ \E t \in inFlight : FutureFails(t)
  BY <1>8, PublishingKeepsParts
<1>9. CASE SetMarker
  BY <1>9, MarkKeepsParts
<1>10. QED
  BY <1>1, <1>2, <1>3, <1>4, <1>5, <1>6, <1>7, <1>8, <1>9 DEF Next, PodStep

(* The invariant behind LostOnlyIfRefused holds throughout. *)
THEOREM Invariance == Spec => []Inv
  BY InvInit, InvStep, PTL DEF Spec

(* However the futures, the main thread, signals and kills interleave, the  *)
(* marker passes a useful record a run fetched only when it is settled.     *)
THEOREM NoPendingRowIsPassed == Spec => []LostOnlyIfRefused
<1>1. Inv => LostOnlyIfRefused
  BY DEF Inv
<1>2. QED
  BY <1>1, Invariance, PTL

-------------------------------------------------------------------------------
(* The job implements the marker's promise. *)

LEMMA PromiseInit == Init => Promise!Init
  BY DEF Init, Promise!Init, Collected, Resolved

LEMMA PromiseStep == Inv /\ [Next]_vars => [Promise!Next]_(Promise!pmVars)
<1> SUFFICES ASSUME Inv, [Next]_vars PROVE [Promise!Next]_(Promise!pmVars)
  OBVIOUS
<1>1. CASE \E m \in pending : FetchMinute(m)
  <2>1. PICK m \in pending : FetchMinute(m)
    BY <1>1
  <2>2. UNCHANGED <<marker, table, refused>>
    BY <2>1 DEF FetchMinute
  <2>3. asked \subseteq asked' /\ Collected \subseteq Collected'
        /\ Collected' \ Collected \subseteq asked'
    BY <2>1 DEF FetchMinute, Collected
  <2>4. Promise!Read
    BY <2>2, <2>3 DEF Promise!Read, Resolved
  <2>5. QED
    BY <2>4 DEF Promise!Next
<1>2. CASE SetMarker
  <2>1. /\ pc = "mark" /\ marker' = cursor + Step
        /\ UNCHANGED <<table, asked, seen, refused>>
    BY <1>2 DEF SetMarker, history
  <2>2. /\ marker \in Nat /\ cursor \in Nat /\ FirstMarker \in Nat
        /\ Minute \in Nat \ {0} /\ Step \in Nat \ {0}
    BY IngestScraperAssumption DEF Inv, TypeOK
  <2>3. marker' > marker
    <3>1. marker < cursor + Minute
      BY <2>1 DEF Inv, CursorInv
    <3>2. Minute <= Step
      <4> DEFINE n == Step \div Minute
      <4>1. n \in Nat /\ Step = Minute * n
        BY StepOfMinutes
      <4> HIDE DEF n
      <4>2. n # 0
        BY <2>2, <4>1
      <4>3. PICK j \in Nat : n = j + 1
        BY <4>1, <4>2
      <4>4. Minute * (j + 1) = Minute * j + Minute /\ Minute * j \in Nat
        BY <2>2, <4>3
      <4>5. QED
        BY <2>2, <4>1, <4>3, <4>4
    <3>3. QED
      BY <2>1, <2>2, <3>1, <3>2
  <2>4. marker .. (marker' - 1) \subseteq asked
    <3>1. SUFFICES ASSUME NEW t \in marker .. (cursor + Step - 1) PROVE t \in asked
      <4>1. marker' - 1 = cursor + Step - 1
        BY <2>1, <2>2
      <4>2. QED
        BY <4>1
    <3>2. t \in marker .. (cursor - 1) \/ t \in Window
      BY <2>2, <3>1 DEF Window
    <3>3. QED
      BY <2>1, <3>2 DEF Inv, BelowInv, WindowInv
  <2>5. Promise!DurableUpTo(marker')
    BY <1>2, MarkKeepsParts, <2>1
       DEF Parts, LostOnlyIfRefused, Promise!DurableUpTo, Collected, Resolved
  <2>6. Promise!Advance
    BY <2>1, <2>3, <2>4, <2>5 DEF Promise!Advance, Collected, Resolved
  <2>7. QED
    BY <2>6 DEF Promise!Next
<1>3. CASE ~SetMarker /\ ~(\E m \in pending : FetchMinute(m))
  <2>1. /\ UNCHANGED <<marker, asked, seen>>
        /\ table \subseteq table' /\ table' \subseteq table \cup inFlight
        /\ refused \subseteq refused' /\ refused' \subseteq refused \cup inFlight
    BY <1>3 DEF Next, PodStep, vars, world, history, Tick, SpireIngests, SigtermArrives,
         StartPod, EnterWindow, Finish, Exit, Gathered, PublishAsync, AllSubmitted,
         FutureStep, FutureSucceeds, FutureFails, CallbackExits, WaitReturns, PodDies,
         RetryMinute
  <2>2. inFlight \subseteq Collected
    BY DEF Inv, FetchedInv
  <2>3. Promise!Keep
    BY <2>1, <2>2 DEF Promise!Keep, Collected, Resolved
  <2>4. QED
    BY <2>3 DEF Promise!Next
<1>4. QED
  BY <1>1, <1>2, <1>3

(* It moves over every window in order, over nothing it did not ask for and *)
(* nothing it read that is not settled.                                    *)
THEOREM MarkerIsContiguous == Spec => MarkerContiguous
<1>1. QED
  BY PromiseInit, PromiseStep, Invariance, PTL DEF Spec, MarkerContiguous, Promise!Spec
===============================================================================
