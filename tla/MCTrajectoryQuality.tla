-------------------------- MODULE MCTrajectoryQuality --------------------------
(* Flights that strain one stage each.  Ticks are 30 seconds.                  *)
EXTENDS TrajectoryQuality

Point(t, x, alt, a, b) ==
    [t |-> t, x |-> x, alt |-> alt, attr |-> [k \in {"callsign", "airline"} |->
                                                IF k = "airline" THEN a ELSE b]]

(* Any attributes of three waypoints. *)
Vague ==
    {{Point(1, 10, 30, f[1], g[1]), Point(2, 20, 30, f[2], g[2]), Point(3, 30, 30, f[3], g[3])} :
        f \in [1 .. 3 -> {Null, 1, 2}], g \in [1 .. 3 -> {Null, 1, 2}]}

(* Any steps between six waypoints, some too slow or too fast, two waypoints   *)
(* of the same time, and perhaps one on the ground.                            *)
Jumpy ==
    {{Point(1, 10, 30, 1, 1), Point(2, 10 + f[1], 30, 1, 1),
      Point(3, 10 + f[1] + f[2], 30, 1, 1),
      Point(4, 10 + f[1] + f[2] + f[3], alt, 1, 1),
      Point(5, 10 + f[1] + f[2] + f[3] + f[4], 30, 1, 1),
      Point(6, 10 + f[1] + f[2] + f[3] + f[4] + f[5], 30, 1, 1),
      Point(6, 10, 30, 1, 1)} :
        f \in [1 .. 5 -> {0, 10, 60}], alt \in {0, 30}}

(* Waypoints at any times. *)
Gappy == {{Point(t, 10 * t, 30, 1, 1) : t \in T} : T \in SUBSET {1, 2, 4, 5, 7, 9, 10} \ {{}}}

(* Flights between two points of the trip, or of a shorter one. *)
Partial ==
    {{Point(1, a, alt, 1, 1), Point(2, a + 12, 30, 1, 1), Point(2 + n, a + 12 + 12 * n, alt, 1, 1)} :
        a \in {0, 2, 6, 12, 30}, n \in {1, 5, 6, 7}, alt \in {1, 30}}

MCRaw == Vague \cup Jumpy \cup Gappy \cup Partial
===============================================================================
