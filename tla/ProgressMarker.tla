---------------------------- MODULE ProgressMarker ----------------------------
(***************************************************************************)
(* What the two Spire ETL jobs promise with their Firestore progress       *)
(* marker, stated without any job: spire-ingest-api-scraper and            *)
(* spire-raw-batch both implement this specification.                      *)
(*                                                                         *)
(* Time is a natural number of ticks and is Spire's ingestion time, the    *)
(* only key its API can be asked by.  A record is identified with the tick *)
(* at which Spire ingested it, and Spire may take one back.                *)
(***************************************************************************)
EXTENDS Naturals

CONSTANT FirstMarker        \* the marker's value when the deployment starts

VARIABLES
    marker,     \* last_sync_end_at in Firestore
    asked,      \* ticks that some completed request to Spire has covered
    seen,       \* ticks for which Spire returned a record to a job
    kept,       \* ticks whose record is in the job's durable output
    gone        \* ticks whose record Spire took back

pmVars == <<marker, asked, seen, kept, gone>>

(* What a job read between the first marker and m is durable or gone. *)
DurableUpTo(m) == \A t \in seen : t \in FirstMarker .. (m - 1) => t \in kept \cup gone

Init ==
    /\ marker = FirstMarker
    /\ asked = {}
    /\ seen = {}
    /\ kept = {}
    /\ gone = {}

(* A job reads a span of ticks and gets the records of some of them. *)
Read ==
    /\ asked \subseteq asked' /\ seen \subseteq seen'
    /\ seen' \ seen \subseteq asked'
    /\ UNCHANGED <<marker, kept, gone>>

(* A job stores records it has read, and loses none but those gone. *)
Keep ==
    /\ kept \ kept' \subseteq gone /\ kept' \subseteq kept \cup seen
    /\ UNCHANGED <<marker, asked, seen, gone>>

(* Spire takes records back. *)
TakeBack ==
    /\ gone \subseteq gone'
    /\ UNCHANGED <<marker, asked, seen, kept>>

(* The marker moves forward, over nothing that was not asked for, and over *)
(* no record that was read but is not durable.                             *)
Advance ==
    /\ marker' > marker
    /\ marker .. (marker' - 1) \subseteq asked
    /\ DurableUpTo(marker')
    /\ UNCHANGED <<asked, seen, kept, gone>>

Next == Read \/ Keep \/ TakeBack \/ Advance

Spec == Init /\ [][Next]_pmVars
===============================================================================
