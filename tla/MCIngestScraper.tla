---------------------------- MODULE MCIngestScraper ----------------------------
(* Two windows of two two-tick minutes and a first marker inside a minute.  *)
(* Record 1 lies before the marker's minute ends, 5 is dropped by the rules. *)
EXTENDS IngestScraper

MCUseful == Ticks \ {5}
===============================================================================
