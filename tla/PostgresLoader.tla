------------------------------ MODULE PostgresLoader ------------------------------
(***************************************************************************)
(* bq-to-postgres-util: copies the parquet shards of a BigQuery export into *)
(* three Postgres tables.  For each shard, the main table and then its      *)
(* metadata table are filled with one COPY each, and the counts of the      *)
(* impact histogram are then added to, batch by batch.  Every COPY and      *)
(* every batch is a transaction of its own, so a shard can stop half-way; a *)
(* shard that fails is reported and the others are loaded all the same.  An *)
(* operator runs the job again as often as he likes, over whole paths.      *)
(*                                                                          *)
(* A record is its primary key, (flight_id, time_start), in the main and    *)
(* the metadata table.  Time is in days, all months have MonthDays of them, *)
(* and months are numbered from year 0.                                     *)
(***************************************************************************)
EXTENDS Integers, FiniteSets

CONSTANTS
    Path,           \* directories of shards, <target_date_range>/<process_time>
    Period,         \* the target_date_range of each path, see Periods
    Shard,          \* parquet files
    PathOf,         \* where each shard is
    Rows,           \* the records of each shard
    Day,            \* the day of each record's time_start
    Bucket,         \* the histogram's key for each record
    User,           \* database users
    Owner,          \* those that may create partitions
    None,           \* no shard
    MonthDays,      \* days in a month
    ChunkSize,      \* histogram rows in a batch
    MaxErrors,      \* bound: reads and writes that fail
    MaxKills        \* bound: runs that are killed

Record == UNION {Rows[s] : s \in Shard}
Buckets == {Bucket[r] : r \in Record}
Periods == [year : Nat, part : {"year", "quarter", "month"}, n : 1 .. 12]

ASSUME PostgresLoaderAssumption ==
    /\ IsFiniteSet(Record)
    /\ None \notin Shard
    /\ PathOf \in [Shard -> Path]
    /\ Period \in [Path -> Periods]
    /\ \A r \in Record : Day[r] \in Nat
    /\ Owner \subseteq User
    /\ {MonthDays, ChunkSize} \subseteq Nat \ {0}
    /\ {MaxErrors, MaxKills} \subseteq Nat

VARIABLES
    partitions,     \* months that have a partition, in both partitioned tables
    main, meta,     \* records of trajectory-cocip and of trajectory-cocip-meta
    histogram,      \* flight_count of each bucket
    pc,             \* where the run is
    run,            \* the shards of the run
    todo,           \* those still to load
    shard,          \* the shard being loaded
    batch,          \* buckets of the shard still to add
    failed,         \* shards the run reports as failed
    errors, kills,
    accepted        \* history: shards a finished run did not report as failed

vars == <<partitions, main, meta, histogram, pc, run, todo, shard, batch, failed,
          errors, kills, accepted>>
tables == <<main, meta, histogram>>
faults == <<errors, kills>>

Of(records, b) == {r \in records : Bucket[r] = b}
BucketsOf(s) == {Bucket[r] : r \in Rows[s]}

TypeOK ==
    /\ partitions \subseteq Int
    /\ main \subseteq Record /\ meta \subseteq Record
    /\ histogram \in [Buckets -> Nat]
    /\ pc \in {"idle", "load", "main", "meta", "histogram"}
    /\ run \subseteq IF pc = "idle" THEN {} ELSE Shard
    /\ todo \subseteq run
    /\ shard \in IF pc \in {"idle", "load"} THEN {None} ELSE run
    /\ batch \subseteq IF pc = "histogram" THEN BucketsOf(shard) ELSE {}
    /\ failed \subseteq run
    /\ errors \in 0 .. MaxErrors /\ kills \in 0 .. MaxKills
    /\ accepted \subseteq Shard

Init ==
    /\ partitions = {} /\ main = {} /\ meta = {}
    /\ histogram = [b \in Buckets |-> 0]
    /\ pc = "idle" /\ run = {} /\ todo = {}
    /\ shard = None /\ batch = {} /\ failed = {}
    /\ errors = 0 /\ kills = 0
    /\ accepted = {}

-------------------------------------------------------------------------------
(* Which partitions a run needs.  Ranges are [first, end). *)

MonthOf(d) == d \div MonthDays

(* Variant: the month of an exclusive end is left out even when it is begun. *)
MonthsInShort(first, end) == MonthOf(first) .. (MonthOf(end) - 1)

MonthsIn(first, end) == {m \in MonthOf(first) .. MonthOf(end) : m * MonthDays < end}

(* extract_date_range, and what it refuses, in months. *)
FirstMonth(p) ==
    12 * p.year + CASE p.part = "year" -> 0
                    [] p.part = "quarter" -> 3 * (p.n - 1)
                    [] p.part = "month" -> p.n - 1
EndMonth(p) ==
    FirstMonth(p) + CASE p.part = "year" -> 12
                      [] p.part = "quarter" -> 3
                      [] p.part = "month" -> 1
Refused(p) == EndMonth(p) < 12 * 2000

Nominal(p) == MonthsIn(MonthDays * FirstMonth(p), MonthDays * EndMonth(p))

(* parquet_time_start_range: from the earliest record's day to the latest's. *)
Actual(s) ==
    UNION {MonthsIn(Day[first], Day[last] + 1) : first \in Rows[s], last \in Rows[s]}

ShardsIn(paths) == {s \in Shard : PathOf[s] \in paths}

Needed(paths) ==
    UNION ({Nominal(Period[p]) : p \in paths} \cup {Actual(s) : s \in ShardsIn(paths)})

-------------------------------------------------------------------------------
(* All missing partitions are committed at once, or the run ends at once. *)
Start(paths, user) ==
    /\ pc = "idle"
    /\ \A p \in paths : ~Refused(Period[p])
    /\ Needed(paths) \subseteq partitions \/ user \in Owner
    /\ partitions' = partitions \cup Needed(paths)
    /\ pc' = "load"
    /\ run' = ShardsIn(paths) /\ todo' = ShardsIn(paths)
    /\ UNCHANGED <<tables, shard, batch, failed, faults, accepted>>

Read(s) ==
    /\ pc = "load" /\ s \in todo
    /\ todo' = todo \ {s}
    /\ IF Rows[s] = {} THEN UNCHANGED <<pc, shard>>
       ELSE pc' = "main" /\ shard' = s
    /\ UNCHANGED <<partitions, run, tables, batch, failed, faults, accepted>>

ReadFails(s) ==
    /\ pc = "load" /\ s \in todo
    /\ errors < MaxErrors /\ errors' = errors + 1
    /\ todo' = todo \ {s}
    /\ failed' = failed \cup {s}
    /\ UNCHANGED <<partitions, run, tables, pc, shard, batch, kills, accepted>>

(* Variant: the batches left over from a shard are kept. *)
NextShardKeepsBatch == pc' = "load" /\ shard' = None /\ UNCHANGED batch

(* On to the next shard. *)
NextShard == pc' = "load" /\ shard' = None /\ batch' = {}

(* COPY is refused as a whole when a record has no partition, or is there.   *)
Copyable(records, table) ==
    /\ records \cap table = {}
    /\ \A r \in records : MonthOf(Day[r]) \in partitions

CopyMain ==
    /\ pc = "main" /\ Copyable(Rows[shard], main)
    /\ main' = main \cup Rows[shard]
    /\ pc' = "meta"
    /\ UNCHANGED <<partitions, run, meta, histogram, todo, shard, batch, failed, faults,
                   accepted>>

(* Variant: a refused COPY does not keep the shard from the other tables. *)
MainRefusedGoesOn ==
    /\ pc = "main" /\ ~Copyable(Rows[shard], main)
    /\ pc' = "histogram" /\ batch' = BucketsOf(shard)
    /\ failed' = failed \cup {shard}
    /\ UNCHANGED <<partitions, run, tables, todo, shard, faults, accepted>>

MainRefused ==
    /\ pc = "main" /\ ~Copyable(Rows[shard], main)
    /\ failed' = failed \cup {shard}
    /\ NextShard
    /\ UNCHANGED <<partitions, run, tables, todo, faults, accepted>>

(* Never refused: the records have just come into the main table, and the    *)
(* foreign key lets none be in the metadata table that are not in the main.   *)
CopyMeta ==
    /\ pc = "meta" /\ Copyable(Rows[shard], meta)
    /\ meta' = meta \cup Rows[shard]
    /\ pc' = "histogram"
    /\ batch' = BucketsOf(shard)
    /\ UNCHANGED <<partitions, run, main, histogram, todo, shard, failed, faults, accepted>>

Added(bs) ==
    [b \in Buckets |->
        histogram[b] + IF b \in bs THEN Cardinality(Of(Rows[shard], b)) ELSE 0]

(* One batch of the upsert: as many buckets as a chunk holds. *)
Chunks ==
    {bs \in SUBSET batch :
        IF Cardinality(batch) <= ChunkSize THEN bs = batch
        ELSE Cardinality(bs) = ChunkSize}

UpsertBatch ==
    /\ pc = "histogram" /\ batch # {}
    /\ \E bs \in Chunks :
        /\ histogram' = Added(bs)
        /\ batch' = batch \ bs
    /\ UNCHANGED <<partitions, run, main, meta, pc, todo, shard, failed, faults, accepted>>

ShardDone ==
    /\ pc = "histogram" /\ batch = {}
    /\ NextShard
    /\ UNCHANGED <<partitions, run, tables, todo, failed, faults, accepted>>

(* A write fails, and its transaction was rolled back, or committed without  *)
(* the client learning of it.                                                *)
Applied ==
    \/ pc = "main" /\ Copyable(Rows[shard], main)
        /\ main' = main \cup Rows[shard] /\ UNCHANGED <<meta, histogram>>
    \/ pc = "meta" /\ Copyable(Rows[shard], meta)
        /\ meta' = meta \cup Rows[shard] /\ UNCHANGED <<main, histogram>>
    \/ pc = "histogram" /\ batch # {}
        /\ \E bs \in Chunks : histogram' = Added(bs)
        /\ UNCHANGED <<main, meta>>

(* Variant: the failed shard is not reported. *)
WriteFailsUnreported ==
    /\ pc \in {"main", "meta"} \/ (pc = "histogram" /\ batch # {})
    /\ errors < MaxErrors /\ errors' = errors + 1
    /\ Applied \/ UNCHANGED tables
    /\ NextShard
    /\ UNCHANGED <<partitions, run, todo, failed, kills, accepted>>

WriteFails ==
    /\ pc \in {"main", "meta"} \/ (pc = "histogram" /\ batch # {})
    /\ errors < MaxErrors /\ errors' = errors + 1
    /\ Applied \/ UNCHANGED tables
    /\ failed' = failed \cup {shard}
    /\ NextShard
    /\ UNCHANGED <<partitions, run, todo, kills, accepted>>

EndRun ==
    /\ pc' = "idle" /\ run' = {} /\ todo' = {}
    /\ shard' = None /\ batch' = {} /\ failed' = {}

(* The run ends, and names the shards that failed. *)
Finish ==
    /\ pc = "load" /\ todo = {}
    /\ accepted' = accepted \cup (run \ failed)
    /\ EndRun
    /\ UNCHANGED <<partitions, tables, faults>>

Killed ==
    /\ pc # "idle"
    /\ kills < MaxKills /\ kills' = kills + 1
    /\ Applied \/ UNCHANGED tables
    /\ EndRun
    /\ UNCHANGED <<partitions, errors, accepted>>

Next ==
    \/ \E paths \in SUBSET Path \ {{}}, user \in User : Start(paths, user)
    \/ \E s \in todo : Read(s) \/ ReadFails(s)
    \/ CopyMain \/ MainRefused \/ CopyMeta \/ UpsertBatch \/ ShardDone
    \/ WriteFails \/ Finish \/ Killed

Spec == Init /\ [][Next]_vars

-------------------------------------------------------------------------------
(* The histogram counts no flight twice, however often shards fail and paths  *)
(* are loaded again: the upsert adds to what is there, and nothing but the    *)
(* main table's primary key, which every shard must pass first, keeps a       *)
(* repeated load away from it (main.py:394-417, 635-644).                     *)
HistogramNeverOvercounts ==
    \A b \in Buckets : histogram[b] <= Cardinality(Of(main, b))

(* What a run does not report as failed is in all the tables, whatever failed *)
(* before it; and when all that is in the main table came so, the histogram   *)
(* is exact (main.py:744-755).                                                *)
AcceptedIsLoaded ==
    LET records == UNION {Rows[s] : s \in accepted}
    IN  /\ records \subseteq main \cap meta
        /\ pc = "idle" /\ main = records =>
            \A b \in Buckets : histogram[b] = Cardinality(Of(main, b))

(* Partitions are created before any data is loaded, for the nominal range of *)
(* each path and for what its shards really hold: no COPY ever fails for want *)
(* of one (main.py:727-741).                                                  *)
PartitionsSuffice ==
    pc \in {"main", "meta"} => \A r \in Rows[shard] : MonthOf(Day[r]) \in partitions

===============================================================================
