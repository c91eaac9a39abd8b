------------------------------- MODULE MCMetStores -------------------------------
(* A tick is a quarter of an hour and the durations are the real ones.  The   *)
(* chunks begin at any time of day, and last a quarter of an hour, three hours *)
(* or nineteen.                                                                *)
EXTENDS MetStores

MCChunks ==
    {[first |-> f, last |-> f + l] : f \in Day .. (2 * Day - 1), l \in {1, 12, 76}}
===============================================================================
