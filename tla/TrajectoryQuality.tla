--------------------------- MODULE TrajectoryQuality ---------------------------
(***************************************************************************)
(* What the job factory does to one flight between selecting and publishing  *)
(* it: HealTrajectoryHandler makes the flight's attributes uniform, orders   *)
(* its waypoints and drops implausible ones, and adds the airports' when      *)
(* they are near; the trajectory is resampled to whole minutes, the minutes   *)
(* that fall into gaps of the data are marked as imputed, and pycontrails'    *)
(* validation has the last word.                                              *)
(*                                                                          *)
(* A waypoint is its time, its position along the route, its altitude and its *)
(* attributes; the airports lie at the positions Origin and Destination.      *)
(* Waypoints are a set: what orders them is their time.                       *)
(***************************************************************************)
EXTENDS Integers, FiniteSets

CONSTANTS
    Raw,            \* flights as selected: sets of waypoints
    Attribute,      \* the attributes that must not vary within a flight
    Value,          \* their values, as numbers: the order breaks ties
    Null,           \* an attribute that a waypoint does not tell
    Origin, Destination,   \* positions of the airports
    Located,        \* whether both airports are known
    GroundLevel,    \* no waypoint is this low
    Ceiling,        \* or this high
    Approach,       \* the altitude above an airport that its waypoint gets
    MinSpeed,       \* per tick, exclusive
    MaxSpeed,
    MaxPasses,      \* passes of the speed filter that drop something
    MinReach,       \* an airport nearer than this needs no waypoint
    MaxReach,       \* and one farther off than this gets none
    MaxShare,       \* nor one farther off than a MaxShare-th of the trip
    Minute,         \* ticks of a minute
    Cutoff,         \* ticks between waypoints that are not yet a gap
    Violation,      \* kinds of violations that validation reports
    Permitted       \* those that do not matter

Waypoint == [t : Int, x : Int, alt : Int, attr : [Attribute -> Value \cup {Null}]]

ASSUME QualityAssumption ==
    /\ IsFiniteSet(Attribute)
    /\ Value \subseteq Nat /\ Null \notin Value
    /\ \A W \in Raw : W # {} /\ IsFiniteSet(W) /\ W \subseteq Waypoint
    /\ {Origin, Destination, GroundLevel, Ceiling, Approach} \subseteq Int
    /\ Located \in BOOLEAN
    /\ {MinSpeed, MaxSpeed, MaxPasses, MaxReach, MaxShare} \subseteq Nat
    /\ {MinReach, Minute, Cutoff} \subseteq Nat \ {0}
    /\ Permitted \subseteq Violation

VARIABLES
    raw,            \* the flight as it was set
    pc,             \* the stage it has reached
    traj,           \* what is left of its waypoints
    passes,         \* passes the speed filter may still make
    ends,           \* waypoints added at the airports
    minutes,        \* times of the resampled trajectory
    imputed         \* those marked as imputed

vars == <<raw, pc, traj, passes, ends, minutes, imputed>>

Stages == {"set", "uniform", "ordered", "speed", "healed", "resampled",
           "marked", "built", "skipped"}

Abs(n) == IF n < 0 THEN -n ELSE n

(* v and w follow one another. *)
Adjacent(W, v, w) == v.t < w.t /\ ~\E u \in W : v.t < u.t /\ u.t < w.t
First(W) == CHOOSE w \in W : \A u \in W : w.t <= u.t
Last(W) == CHOOSE w \in W : \A u \in W : u.t <= w.t

-------------------------------------------------------------------------------
(* Attributes. *)

Telling(W, k, v) == Cardinality({w \in W : w.attr[k] = v})

(* key_max_value_count: the mode, of several the smallest, Null if all are. *)
Mode(W, k) ==
    LET told == {w.attr[k] : w \in W} \ {Null}
        modes == {v \in told : \A u \in told : Telling(W, k, u) <= Telling(W, k, v)}
    IN  IF told = {} THEN Null ELSE CHOOSE v \in modes : \A u \in modes : v <= u

(* Variant: waypoints that do not tell an attribute are not filled. *)
UniformIfTold(W) ==
    {w \in W : \A k \in Attribute : w.attr[k] = Mode(W, k)}

(* Null attributes get the mode, waypoints with another value are dropped;    *)
(* the modes are those before any drop.                                       *)
Uniform(W) ==
    LET agreeing == {w \in W : \A k \in Attribute : w.attr[k] \in {Null, Mode(W, k)}}
    IN  {[w EXCEPT !.attr = [k \in Attribute |-> Mode(W, k)]] : w \in agreeing}

(* Sorting is not stable: any one of the waypoints of a time is kept. *)
Deduplicated(W) ==
    {D \in SUBSET W : \A w \in W : Cardinality({d \in D : d.t = w.t}) = 1}

-------------------------------------------------------------------------------
(* Altitudes and speeds. *)

FilterAltitudes(W) == {w \in W : GroundLevel < w.alt /\ w.alt < Ceiling}

Plausible(v, w) ==
    /\ MinSpeed * (w.t - v.t) < Abs(w.x - v.x)
    /\ Abs(w.x - v.x) < MaxSpeed * (w.t - v.t)

(* Waypoints on both sides of an implausible speed are dropped. *)
FilterSpeeds(W) ==
    {w \in W : /\ \A v \in W : Adjacent(W, v, w) => Plausible(v, w)
               /\ \A v \in W : Adjacent(W, w, v) => Plausible(w, v)}

-------------------------------------------------------------------------------
(* Airports. *)

(* No interpolation: too near, too far, too much of the trip, too low, or a    *)
(* segment without speed. *)
Reaches(w, v, airport) ==
    LET dist == Abs(w.x - airport) IN
    /\ MinReach <= dist /\ dist <= MaxReach
    /\ dist * MaxShare <= Abs(Destination - Origin)
    /\ w.alt > Approach
    /\ w.x # v.x

(* At the speed of the segment next to it, where the code takes the ground    *)
(* speed smoothed over some segments (handlers.py:1025), so that an airport   *)
(* may be reached sooner or later than here.  A part of a tick counts as one. *)
TicksTo(w, v, airport) ==
    -((-(Abs(w.x - airport) * Abs(w.t - v.t))) \div Abs(w.x - v.x))

Second(W) == CHOOSE w \in W : Adjacent(W, First(W), w)
Penultimate(W) == CHOOSE w \in W : Adjacent(W, w, Last(W))

Departure(W) ==
    [First(W) EXCEPT !.t = @ - TicksTo(First(W), Second(W), Origin),
                     !.x = Origin, !.alt = Approach]
Arrival(W) ==
    [Last(W) EXCEPT !.t = @ + TicksTo(Last(W), Penultimate(W), Destination),
                    !.x = Destination, !.alt = Approach]

Reached(W) ==
    (IF Reaches(First(W), Second(W), Origin) THEN {Departure(W)} ELSE {})
    \cup (IF Reaches(Last(W), Penultimate(W), Destination) THEN {Arrival(W)} ELSE {})

(* Variant: each end is looked at by itself. *)
AirportsApart(W) ==
    IF Cardinality(W) < 2 \/ ~Located \/ Origin = Destination THEN {} ELSE Reached(W)

(* No airport is added when both ends together lack too much of the trip. *)
Airports(W) ==
    IF Cardinality(W) < 2 \/ ~Located \/ Origin = Destination THEN {}
    ELSE IF (Abs(First(W).x - Origin) + Abs(Last(W).x - Destination)) * MaxShare
                > 2 * Abs(Destination - Origin) THEN {}
    ELSE Reached(W)

-------------------------------------------------------------------------------
(* Resampling and gaps. *)

WholeMinutes(W) == {m \in First(W).t .. Last(W).t : m % Minute = 0}

Gap(W, v, w) == Adjacent(W, v, w) /\ w.t - v.t > Cutoff
Bounds(W) == {w \in W : \E v \in W : Gap(W, v, w) \/ Gap(W, w, v)}

(* Variant: only the end of a gap is flagged. *)
ImputedFromEnds(W, M) ==
    {m \in M : Cardinality({w \in W : w.t <= m /\ \E v \in W : Gap(W, v, w)}) % 2 = 1}

(* Minutes after an odd number of flags: pandas' cumsum over raw waypoints    *)
(* and resampled minutes, sorted by time. *)
Imputed(W, M) ==
    {m \in M : Cardinality({w \in Bounds(W) : w.t <= m}) % 2 = 1}

-------------------------------------------------------------------------------

TypeOK ==
    /\ raw \in Raw
    /\ pc \in Stages
    /\ traj \cup ends \subseteq Waypoint
    /\ passes \in 0 .. MaxPasses
    /\ minutes \subseteq Int /\ imputed \subseteq minutes

Init ==
    /\ raw \in Raw
    /\ pc = "set" /\ traj = raw /\ passes = MaxPasses
    /\ ends = {} /\ minutes = {} /\ imputed = {}

Unify ==
    /\ pc = "set"
    /\ traj' = Uniform(traj)
    /\ pc' = "uniform"
    /\ UNCHANGED <<raw, passes, ends, minutes, imputed>>

Order ==
    /\ pc = "uniform"
    /\ \E D \in Deduplicated(traj) : traj' = FilterAltitudes(D)
    /\ pc' = "speed"
    /\ UNCHANGED <<raw, passes, ends, minutes, imputed>>

SpeedPass ==
    /\ pc = "speed" /\ passes > 0
    /\ Cardinality(traj) >= 2 /\ FilterSpeeds(traj) # traj
    /\ traj' = FilterSpeeds(traj)
    /\ passes' = passes - 1
    /\ UNCHANGED <<raw, pc, ends, minutes, imputed>>

(* Variant: one pass is taken for enough. *)
SpeedsSettleAfterOne ==
    /\ pc = "speed"
    /\ passes < MaxPasses \/ Cardinality(traj) < 2 \/ FilterSpeeds(traj) = traj
    /\ ends' = Airports(traj)
    /\ pc' = IF traj = {} THEN "skipped" ELSE "healed"
    /\ UNCHANGED <<raw, traj, passes, minutes, imputed>>

(* The filter is through with the flight; the airports are added.  A flight   *)
(* of which nothing is left is skipped. *)
SpeedsSettle ==
    /\ pc = "speed"
    /\ passes = 0 \/ Cardinality(traj) < 2 \/ FilterSpeeds(traj) = traj
    /\ ends' = Airports(traj)
    /\ pc' = IF traj = {} THEN "skipped" ELSE "healed"
    /\ UNCHANGED <<raw, traj, passes, minutes, imputed>>

Resample ==
    /\ pc = "healed"
    /\ minutes' = WholeMinutes(traj \cup ends)
    /\ pc' = IF minutes' = {} THEN "skipped" ELSE "resampled"
    /\ UNCHANGED <<raw, traj, passes, ends, imputed>>

Mark ==
    /\ pc = "resampled"
    /\ imputed' = Imputed(traj \cup ends, minutes)
    /\ pc' = "marked"
    /\ UNCHANGED <<raw, traj, passes, ends, minutes>>

(* Violations that are not permitted eject the flight. *)
Validate ==
    /\ pc = "marked"
    /\ \E found \in SUBSET Violation :
           pc' = IF found \subseteq Permitted THEN "built" ELSE "skipped"
    /\ UNCHANGED <<raw, traj, passes, ends, minutes, imputed>>

(* An exception of any step: the flight is skipped. *)
StepRaises ==
    /\ pc \notin {"built", "skipped"}
    /\ pc' = "skipped"
    /\ UNCHANGED <<raw, traj, passes, ends, minutes, imputed>>

Next ==
    \/ Unify \/ Order \/ SpeedPass \/ SpeedsSettle
    \/ Resample \/ Mark \/ Validate \/ StepRaises

Spec == Init /\ [][Next]_vars

-------------------------------------------------------------------------------
(* Properties. *)

Healed == pc \in {"healed", "resampled", "marked", "built"}

(* What comes out of healing has one waypoint per time, one value per         *)
(* attribute, altitudes of a flight in the air, and no implausible speed that *)
(* dropping neighbours has brought about, unless the passes are used up       *)
(* (handlers.py:1167-1238).                                                   *)
HealedIsClean ==
    Healed =>
        /\ \A v, w \in traj : v.attr = w.attr /\ (v.t = w.t => v = w)
        /\ \A w \in traj, k \in Attribute :
               w.attr[k] = Null => \A u \in raw : u.attr[k] = Null
        /\ \A w \in traj : GroundLevel < w.alt /\ w.alt < Ceiling
        /\ \/ passes = 0
           \/ \A v, w \in traj : Adjacent(traj, v, w) => Plausible(v, w)

(* Making the attributes uniform costs no flight its last waypoint while few  *)
(* waypoints stray: for each attribute there is a value from which fewer than  *)
(* one in as many as there are attributes differ (handlers.py:1156-1182).     *)
OutliersCostNoFlight ==
    pc = "uniform"
    /\ (\A k \in Attribute : \E v \in Value :
            Cardinality(Attribute) * Cardinality({w \in raw : w.attr[k] \notin {v, Null}})
                < Cardinality(raw))
    => traj # {}

(* Airports are added only to a flight whose own waypoints span the trip but  *)
(* for two shares: data of another trip, or airports of another flight, do     *)
(* not become one (handlers.py:1065-1072).                                    *)
AirportsOnlyForWholeTrips ==
    Healed /\ ends # {} =>
        MaxShare * Abs(Last(traj).x - First(traj).x)
            >= (MaxShare - 2) * Abs(Destination - Origin)

AdjacentGaps(W) ==
    \E u, v, w \in W : Gap(W, u, v) /\ Gap(W, v, w)
InGap(W, m) == \E v, w \in W : Gap(W, v, w) /\ v.t <= m /\ m < w.t

(* As long as no two gaps share a waypoint, the minutes marked are those in   *)
(* gaps, and one that is not marked has an observed waypoint within the        *)
(* cutoff, or is the time estimated for the arrival (services.py:613-651).    *)
ObservedIsNearData ==
    pc \in {"marked", "built"} /\ ~AdjacentGaps(traj \cup ends) =>
        \A m \in minutes :
            \/ m \in imputed /\ InGap(traj \cup ends, m)
            \/ m \notin imputed /\ \E w \in traj : Abs(w.t - m) <= Cutoff
            \/ m \notin imputed /\ \E e \in ends : e.t = m

-------------------------------------------------------------------------------
(* services.py:56: the cutoff is "used to mark resampled waypoints as imputed *)
(* if the gap between them and the previous raw waypoint is above this        *)
(* threshold".                                                                *)
ImputedIsInGap ==
    pc = "marked" => imputed = {m \in minutes : InGap(traj \cup ends, m)}
===============================================================================
