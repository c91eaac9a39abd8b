----------------------------- MODULE JobSubmission -----------------------------
(***************************************************************************)
(* From the flags of `pipeline-cli jobworker submit` to descriptors (TWJDs), *)
(* and what the job factory makes of a descriptor before it fetches anything. *)
(*                                                                          *)
(* A flag that is absent is None; flight ids are a set, empty when absent;   *)
(* job ids are None or the set of a file's lines, where the member Blank is  *)
(* an empty line.  A day is a number; `until` ends a range of days.            *)
(***************************************************************************)
EXTENDS Integers, FiniteSets

CONSTANTS
    Flight,         \* flight ids
    Airline,        \* IATA codes, and Null
    Null,           \* the airline of a waypoint that names none ("null" in a job)
    JobId,          \* batch job ids
    Table,          \* lookup tables of batch jobs
    Blank,          \* the empty job id
    None            \* an absent flag, field or flight id

ASSUME JobSubmissionAssumption ==
    /\ Null \in Airline
    /\ None \notin Flight \cup Airline \cup JobId \cup Table \cup {Blank}
    /\ Blank \notin JobId

(* bool() of an optional string. *)
Given(x) == x \notin {None, Blank}

(* The three ways to name flights.  The CLI and verify count them alike. *)
Ways(day, airline, flights, job, table) ==
    {w \in {"airline", "flights", "job"} :
        \/ w = "airline" /\ Given(day) /\ Given(airline)
        \/ w = "flights" /\ Given(day) /\ flights # {}
        \/ w = "job" /\ Given(job) /\ Given(table)}

(* Variant: flags that name the flights twice pass. *)
AcceptedLoosely(s) == \E w \in {"airline", "flights", "job"} :
    w \in Ways(s.day, s.airline, s.flights, s.jobs, s.table)

(* The constructor raises nothing: exactly one way, and for flight ids a     *)
(* single day (without any day, looking for a range in it raises, too).      *)
Accepted(s) ==
    /\ \E w \in {"airline", "flights", "job"} :
           Ways(s.day, s.airline, s.flights, s.jobs, s.table) = {w}
    /\ s.flights # {} => s.day # None /\ s.until = None

Days(s) == IF s.until = None THEN {s.day} ELSE s.day .. s.until
Jobs(s) == IF s.jobs = None THEN {None} ELSE s.jobs

(* One descriptor per day of the range and line of the file. *)
Twjds(s) ==
    {[day |-> d, airline |-> s.airline, flights |-> s.flights, job |-> j,
      table |-> s.table, src |-> s.src] : d \in Days(s), j \in Jobs(s)}

(* TrajectoryWorkerJobDescriptor.verify. *)
Verify(t) ==
    \E w \in {"airline", "flights", "job"} :
        Ways(t.day, t.airline, t.flights, t.job, t.table) = {w}

(* The order in which run looks for a way; it need not be the one verified. *)
Way(t) ==
    IF Given(t.airline) THEN "airline"
    ELSE IF t.flights # {} THEN "flights" ELSE "job"

(* A job id, even one without a table, wins over the airline's day.  The key *)
(* ends with the source of meteorology, too: here it is one and the same, so *)
(* that as many descriptors as can share a key.                              *)
CacheKey(t) ==
    IF Given(t.job) THEN <<t.job>>
    ELSE IF Given(t.airline) THEN <<t.airline, t.day>>
    ELSE <<>>
===============================================================================
