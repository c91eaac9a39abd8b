-------------------------------- MODULE MetStores --------------------------------
(***************************************************************************)
(* Which meteorology a trajectory worker loads for a chunk: one HRES        *)
(* forecast, chosen by the chunk's first waypoint and the clock, or the     *)
(* ERA5 reanalysis of some days, chosen by its first and last waypoints.    *)
(* Each delivery of the chunk chooses anew, so a retry may choose otherwise *)
(* than the attempt before it.                                              *)
(*                                                                          *)
(* Times are ticks since some midnight; forecast runs begin at multiples of *)
(* Interval.  A waypoint is telemetry: a chunk is never loaded before its   *)
(* last waypoint's time.                                                    *)
(***************************************************************************)
EXTENDS Integers

CONSTANTS
    HalfHour, Interval, Day,    \* durations, in ticks
    Availability,   \* a forecast is assumed to be there so long after its start
    Horizon,        \* what a forecast covers
    MaxAge,         \* how long CoCiP follows a contrail
    LastHour,       \* an ERA5 day's last step
    Chunks,         \* [first, last]: the chunks, by their first and last waypoint
    None,           \* nothing has been loaded
    MaxNow          \* bound: the clock stops here

ASSUME MetStoresAssumption ==
    /\ {HalfHour, Interval, Day} \subseteq Nat \ {0}
    /\ {Availability, Horizon, MaxAge, MaxNow} \subseteq Nat
    /\ LastHour = Day - 2 * HalfHour
    /\ Chunks \subseteq {c \in [first : Int, last : Int] : c.first <= c.last}
    /\ None \notin Int

(* No flight outlasts its forecast, and none is loaded so late in the       *)
(* delivery of the forecasts that the last one there does not cover it.     *)
ASSUME HorizonAssumption ==
    /\ \A c \in Chunks :
          (c.last - c.first) + MaxAge + 2 * HalfHour + Interval <= Horizon
    /\ MaxAge + HalfHour + Availability + Interval <= Horizon

VARIABLES
    now,        \* wall clock
    chunk,      \* the chunk that is delivered, again and again
    run,        \* model_run_at of the HRES store loaded last
    days        \* the ERA5 stores loaded last, each by its midnight

metVars == <<now, chunk, run, days>>

Floor(x, unit) == unit * (x \div unit)

MetTypeOK ==
    /\ now \in Int
    /\ chunk \in Chunks
    /\ run \in Int \cup {None}
    /\ days \in SUBSET Int

MetInit ==
    /\ chunk \in Chunks
    /\ now = chunk.last
    /\ run = None
    /\ days = {}

Tick ==
    /\ now < MaxNow
    /\ now' = now + 1
    /\ UNCHANGED <<chunk, run, days>>

(* Variant: no buffer before the first waypoint. *)
TargetRunUnbuffered == Floor(chunk.first, Interval)

TargetRun == Floor(chunk.first - HalfHour, Interval)

(* Variant: the next forecast is assumed to be delivered already. *)
LatestRunEarly == Floor(now - Availability, Interval) + Interval

(* Variant: a forecast is given another six hours. *)
LatestRunLate == Floor(now - Availability, Interval) - Interval

LatestRun == Floor(now - Availability, Interval)

(* The forecast wanted, or the latest one when that is not there yet. *)
NearestHresStore == IF TargetRun > LatestRun THEN LatestRun ELSE TargetRun

LoadHres ==
    /\ run' = NearestHresStore
    /\ UNCHANGED <<now, chunk, days>>

(* Variant: the stores cover the flight, not the contrails it leaves. *)
LatestContrailOfFlight == chunk.last + HalfHour

LatestContrail == chunk.last + MaxAge + HalfHour
Era5Stores ==
    {d \in Floor(chunk.first, Day) .. LatestContrail : d % Day = 0}

LoadEra5 ==
    /\ days' = Era5Stores
    /\ UNCHANGED <<now, chunk, run>>

MetNext == Tick \/ LoadHres \/ LoadEra5

MetSpec == MetInit /\ [][MetNext]_metVars

-------------------------------------------------------------------------------
(* The forecast a worker loads is one that has been delivered, begins half an *)
(* hour before the chunk, and lasts half an hour beyond its last contrail:    *)
(* the code falls back when the one it wants is not there, and never checks   *)
(* the end (handlers.py:538-609).                                             *)
ForecastCovers ==
    run # None =>
        /\ run + Availability <= now
        /\ run <= chunk.first - HalfHour
        /\ chunk.last + MaxAge + HalfHour <= run + Horizon

(* load_gcs_zarr's docstring (handlers.py:664): each attempt chooses the most *)
(* recent usable forecast, so no later run it could have had is passed over.  *)
Usable(r) ==
    /\ r % Interval = 0
    /\ r + Availability <= now
    /\ r <= chunk.first - HalfHour
MostRecentUsable ==
    [][run' # run => \A r \in (run' + 1) .. now : ~Usable(r)]_metVars

(* The stores are whole days in a row from the first waypoint's, and the last *)
(* contrail outlasts their last step by less than half an hour.               *)
Era5NearlyCovers ==
    days # {} =>
        /\ \E d \in days : d <= chunk.first
        /\ \E d \in days : chunk.last + MaxAge < d + LastHour + HalfHour
        /\ \A d \in days : d + Day <= chunk.last + MaxAge + HalfHour => d + Day \in days
===============================================================================
