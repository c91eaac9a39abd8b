------------------------------ MODULE MCRawBatch ------------------------------
(* Two windows of four ticks, a two-tick minute, and a first marker that is *)
(* on no grid: the first window is fetched again from before the marker.    *)
(* One of two records may be taken back.                                    *)
EXTENDS RawBatch
===============================================================================
