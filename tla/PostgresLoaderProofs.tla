--------------------------- MODULE PostgresLoaderProofs ---------------------------
(* Proofs about the Postgres loader, for every set of shards and paths.       *)
EXTENDS PostgresLoader, FiniteSetTheorems, TLAPS

Count(records, b) == Cardinality(Of(records, b))

(* The shards loaded in full: those the finished runs accepted, and those     *)
(* that the run at work is through with and will not report.                  *)
Loaded == accepted \cup {s \in run : s \notin todo /\ s \notin failed /\ s # shard}
LoadedRows == UNION {Rows[s] : s \in Loaded}

(* What the histogram lacks of the shard at work, and what it has of it.      *)
Owed(b) ==
    IF pc = "meta" \/ (pc = "histogram" /\ b \in batch) THEN Count(Rows[shard], b)
    ELSE 0
Paid(b) == IF pc = "histogram" /\ b \notin batch THEN Count(Rows[shard], b) ELSE 0

PartitionInv == \A s \in run : Actual(s) \subseteq partitions
StageInv ==
    /\ shard \notin todo
    /\ pc \in {"meta", "histogram"} => Rows[shard] \subseteq main
    /\ pc = "histogram" => Rows[shard] \subseteq meta
LoadedInv == LoadedRows \subseteq main \cap meta
UpperInv == \A b \in Buckets : histogram[b] + Owed(b) <= Count(main, b)
LowerInv == \A b \in Buckets : Count(LoadedRows, b) + Paid(b) <= histogram[b]

Inv ==
    /\ TypeOK /\ PartitionInv /\ StageInv /\ LoadedInv /\ UpperInv /\ LowerInv

-------------------------------------------------------------------------------
(* Counting the records of a bucket. *)
LEMMA Counts ==
    ASSUME NEW A \in SUBSET Record, NEW B \in SUBSET Record, NEW b
    PROVE  /\ Count(A, b) \in Nat
           /\ A \subseteq B => Count(A, b) <= Count(B, b)
           /\ Count(A \cup B, b) <= Count(A, b) + Count(B, b)
           /\ A \cap B = {} => Count(A \cup B, b) = Count(A, b) + Count(B, b)
           /\ (\A r \in A : Bucket[r] # b) => Count(A, b) = 0
<1>1. IsFiniteSet(Of(A, b)) /\ IsFiniteSet(Of(B, b))
  BY PostgresLoaderAssumption, FS_Subset DEF Of
<1>2. Of(A \cup B, b) = Of(A, b) \cup Of(B, b)
  BY DEF Of
<1>3. IsFiniteSet(Of(A, b) \cap Of(B, b)) /\ IsFiniteSet(Of(A, b) \cup Of(B, b))
  BY <1>1, FS_Subset, FS_Union
<1>4. /\ Cardinality(Of(A, b)) \in Nat /\ Cardinality(Of(B, b)) \in Nat
      /\ Cardinality(Of(A, b) \cap Of(B, b)) \in Nat
  BY <1>1, <1>3, FS_CardinalityType
<1>5. Cardinality(Of(A, b) \cup Of(B, b)) =
        Cardinality(Of(A, b)) + Cardinality(Of(B, b)) - Cardinality(Of(A, b) \cap Of(B, b))
  BY <1>1, FS_Union
<1>6. A \subseteq B => Count(A, b) <= Count(B, b)
  <2>1. A \subseteq B => Of(A, b) \in SUBSET Of(B, b)
    BY DEF Of
  <2>2. QED
    BY <1>1, <2>1, FS_Subset DEF Count
<1>7. A \cap B = {} => Cardinality(Of(A, b) \cap Of(B, b)) = 0
  <2>1. A \cap B = {} => Of(A, b) \cap Of(B, b) = {}
    BY DEF Of
  <2>2. QED
    BY <2>1, FS_EmptySet
<1>8. (\A r \in A : Bucket[r] # b) => Count(A, b) = 0
  <2>1. (\A r \in A : Bucket[r] # b) => Of(A, b) = {}
    BY DEF Of
  <2>2. QED
    BY <2>1, FS_EmptySet DEF Count
<1>9. /\ Count(A, b) \in Nat /\ Count(B, b) \in Nat
      /\ Count(A \cup B, b) <= Count(A, b) + Count(B, b)
      /\ A \cap B = {} => Count(A \cup B, b) = Count(A, b) + Count(B, b)
  <2>1. Count(A \cup B, b) =
          Count(A, b) + Count(B, b) - Cardinality(Of(A, b) \cap Of(B, b))
    BY <1>2, <1>5 DEF Count
  <2>2. Count(A, b) \in Nat /\ Count(B, b) \in Nat
    BY <1>4 DEF Count
  <2>3. QED
    BY <1>4, <1>7, <2>1, <2>2
<1>10. QED
  BY <1>6, <1>8, <1>9

(* A day is in a month that begins before the next day does. *)
LEMMA Division ==
    ASSUME NEW d \in Int, NEW D \in Nat \ {0}
    PROVE  /\ d \div D \in Int
           /\ (d \div D) * D < d + 1
           /\ d \div D <= (d + 1) \div D
<1>1. d \div D \in Int /\ (d + 1) \div D \in Int
  OBVIOUS
<1>2. d = D * (d \div D) + (d % D) /\ (d % D) \in 0 .. (D - 1)
  OBVIOUS
<1>3. \A x \in Int : x = D * (x \div D) + (x % D) /\ (x % D) \in 0 .. (D - 1)
  OBVIOUS
<1>4. d + 1 = D * ((d + 1) \div D) + ((d + 1) % D) /\ ((d + 1) % D) \in 0 .. (D - 1)
  BY <1>3
<1>5. d \div D <= (d + 1) \div D
  <2>1. SUFFICES ASSUME (d + 1) \div D + 1 <= d \div D PROVE FALSE
    BY <1>1
  <2>2. D * ((d + 1) \div D + 1) <= D * (d \div D)
    BY <1>1, <2>1
  <2>3. D * ((d + 1) \div D + 1) = D * ((d + 1) \div D) + D
    BY <1>1
  <2>4. QED
    BY <1>1, <1>2, <1>4, <2>2, <2>3
<1>6. QED
  BY <1>1, <1>2, <1>5

(* A shard's range covers the month of each of its records. *)
LEMMA RangeCovers ==
    ASSUME NEW s \in Shard, NEW r \in Rows[s]
    PROVE  MonthOf(Day[r]) \in Actual(s)
<1>1. Day[r] \in Int /\ MonthDays \in Nat \ {0}
  BY PostgresLoaderAssumption DEF Record
<1>2. /\ Day[r] \div MonthDays \in Int /\ (Day[r] + 1) \div MonthDays \in Int
      /\ (Day[r] \div MonthDays) * MonthDays < Day[r] + 1
      /\ Day[r] \div MonthDays <= (Day[r] + 1) \div MonthDays
  <2>1. Day[r] + 1 \in Int
    BY <1>1
  <2>2. QED
    BY <1>1, <2>1, Division
<1>3. MonthOf(Day[r]) \in MonthsIn(Day[r], Day[r] + 1)
  BY <1>2 DEF MonthOf, MonthsIn
<1>4. QED
  BY <1>3 DEF Actual

-------------------------------------------------------------------------------
(* What an addition to the histogram does, bucket by bucket. *)
LEMMA Additions ==
    ASSUME TypeOK, shard \in Shard, NEW bs \in SUBSET Buckets
    PROVE  /\ Added(bs) \in [Buckets -> Nat]
           /\ \A b \in bs : Added(bs)[b] = histogram[b] + Count(Rows[shard], b)
           /\ \A b \in Buckets \ bs : Added(bs)[b] = histogram[b]
<1>1. Rows[shard] \in SUBSET Record
  BY DEF Record
<1>2. ASSUME NEW b \in Buckets
      PROVE  histogram[b] \in Nat /\ Count(Rows[shard], b) \in Nat
  BY <1>1, Counts DEF TypeOK
<1>3. ASSUME NEW b \in Buckets
      PROVE  Added(bs)[b] = IF b \in bs THEN histogram[b] + Count(Rows[shard], b)
                            ELSE histogram[b]
  BY <1>2 DEF Added, Count
<1>4. Added(bs) \in [Buckets -> Nat]
  <2>1. ASSUME NEW b \in Buckets
        PROVE  histogram[b] + (IF b \in bs THEN Cardinality(Of(Rows[shard], b)) ELSE 0)
                 \in Nat
    BY <1>2 DEF Count
  <2>2. QED
    BY <2>1 DEF Added
<1>5. QED
  BY <1>3, <1>4

(* The buckets of a shard are buckets. *)
LEMMA ShardBuckets == \A s \in Shard : BucketsOf(s) \subseteq Buckets
BY DEF BucketsOf, Buckets, Record

(* What a failing or dying write may have done keeps the types. *)
LEMMA AppliedTypes ==
    ASSUME TypeOK, Applied \/ UNCHANGED tables
    PROVE  main' \subseteq Record /\ meta' \subseteq Record /\ histogram' \in [Buckets -> Nat]
<1>1. CASE UNCHANGED tables
  BY <1>1 DEF TypeOK, tables
<1>2. CASE Applied
  <2>1. shard \in Shard /\ batch \subseteq Buckets /\ Rows[shard] \subseteq Record
    BY <1>2, ShardBuckets DEF Applied, TypeOK, Record
  <2>2. \A bs \in Chunks : Added(bs) \in [Buckets -> Nat]
    BY <2>1, Additions DEF Chunks
  <2>3. QED
    BY <1>2, <2>1, <2>2 DEF Applied, TypeOK
<1>3. QED
  BY <1>1, <1>2

(* Every step keeps the types. *)
LEMMA TypeStep == TypeOK /\ [Next]_vars => TypeOK'
<1>1. ASSUME TypeOK, [Next]_vars PROVE TypeOK'
  <2> USE <1>1, PostgresLoaderAssumption
  <2>1. ASSUME NEW paths, NEW user, Start(paths, user) PROVE TypeOK'
    <3>1. \A p : Nominal(p) \subseteq Int
      BY DEF Nominal, MonthsIn
    <3>2. \A s : Actual(s) \subseteq Int
      BY DEF Actual, MonthsIn
    <3>3. Needed(paths) \subseteq Int
      BY <3>1, <3>2 DEF Needed
    <3>4. QED
      BY <2>1, <3>3 DEF TypeOK, Start, ShardsIn, tables, faults
  <2>2. ASSUME NEW s \in todo, Read(s) PROVE TypeOK'
    BY <2>2 DEF TypeOK, Read, tables, faults
  <2>3. ASSUME NEW s \in todo, ReadFails(s) PROVE TypeOK'
    BY <2>3 DEF TypeOK, ReadFails, tables
  <2>4. CASE CopyMain
    BY <2>4 DEF TypeOK, CopyMain, faults, Record
  <2>5. CASE MainRefused
    BY <2>5 DEF TypeOK, MainRefused, NextShard, tables, faults
  <2>6. CASE CopyMeta
    BY <2>6 DEF TypeOK, CopyMeta, faults, Record
  <2>7. CASE UpsertBatch
    <3>1. shard \in Shard /\ batch \subseteq Buckets
      BY <2>7, ShardBuckets DEF UpsertBatch, TypeOK
    <3>2. histogram' \in [Buckets -> Nat] /\ batch' \subseteq batch
      BY <2>7, <3>1, Additions DEF UpsertBatch, Chunks
    <3>3. QED
      BY <2>7, <3>2 DEF TypeOK, UpsertBatch, faults
  <2>8. CASE ShardDone
    BY <2>8 DEF TypeOK, ShardDone, NextShard, tables, faults
  <2>9. CASE WriteFails
    BY <2>9, AppliedTypes DEF TypeOK, WriteFails, NextShard
  <2>10. CASE Finish
    BY <2>10 DEF TypeOK, Finish, EndRun, tables, faults
  <2>11. CASE Killed
    BY <2>11, AppliedTypes DEF TypeOK, Killed, EndRun
  <2>12. CASE UNCHANGED vars
    BY <2>12 DEF TypeOK, vars
  <2>13. QED
    BY <2>1, <2>2, <2>3, <2>4, <2>5, <2>6, <2>7, <2>8, <2>9, <2>10, <2>11, <2>12 DEF Next
<1>2. QED
  BY <1>1

(* The types are kept: the run's shards and the histogram's counts included.  *)
THEOREM TypeCorrect == Spec => []TypeOK
<1>1. Init => TypeOK
  BY PostgresLoaderAssumption DEF Init, TypeOK
<1>2. QED
  BY <1>1, TypeStep, PTL DEF Spec

-------------------------------------------------------------------------------
(* Rows that a state speaks of are records, and counts are numbers. *)
LEMMA Numbers ==
    ASSUME TypeOK, NEW b \in Buckets
    PROVE  /\ LoadedRows \in SUBSET Record
           /\ main \in SUBSET Record /\ meta \in SUBSET Record
           /\ histogram[b] \in Nat
           /\ Count(main, b) \in Nat /\ Count(LoadedRows, b) \in Nat
           /\ Owed(b) \in Nat /\ Paid(b) \in Nat
<1>1. LoadedRows \in SUBSET Record
  BY DEF LoadedRows, Loaded, TypeOK, Record
<1>2. main \in SUBSET Record /\ meta \in SUBSET Record /\ histogram[b] \in Nat
  BY DEF TypeOK
<1>3. Count(main, b) \in Nat /\ Count(LoadedRows, b) \in Nat
  BY <1>1, <1>2, Counts
<1>4. pc \in {"meta", "histogram"} => Count(Rows[shard], b) \in Nat
  <2>1. pc \in {"meta", "histogram"} => Rows[shard] \in SUBSET Record
    BY DEF TypeOK, Record
  <2>2. QED
    BY <2>1, Counts
<1>5. QED
  BY <1>1, <1>2, <1>3, <1>4 DEF Owed, Paid

(* A step that leaves no shard half-way in the tables. *)
LEMMA Settled ==
    ASSUME Inv, TypeOK',
           pc' \in {"idle", "load", "main"},
           main \subseteq main', meta \subseteq meta',
           \A b \in Buckets : /\ histogram[b] <= histogram'[b]
                              /\ histogram'[b] <= Cardinality(Of(main', b)),
           LoadedRows' \subseteq LoadedRows
    PROVE  LoadedInv' /\ UpperInv' /\ LowerInv'
<1>1. LoadedInv'
  BY DEF Inv, LoadedInv
<1>2. ASSUME NEW b \in Buckets
      PROVE  /\ histogram'[b] + Owed(b)' <= Count(main, b)'
             /\ Count(LoadedRows, b)' + Paid(b)' <= histogram'[b]
  <2>1. Owed(b)' = 0 /\ Paid(b)' = 0
    BY DEF Owed, Paid
  <2>2. /\ histogram[b] \in Nat /\ histogram'[b] \in Nat
        /\ Count(LoadedRows, b) \in Nat /\ Paid(b) \in Nat
        /\ LoadedRows \in SUBSET Record
    BY Numbers DEF Inv, TypeOK
  <2>3. Count(LoadedRows, b)' \in Nat /\ Count(LoadedRows, b)' <= Count(LoadedRows, b)
    <3>1. LoadedRows' \in SUBSET Record
      BY <2>2
    <3>2. Cardinality(Of(LoadedRows', b)) \in Nat
          /\ Cardinality(Of(LoadedRows', b)) <= Cardinality(Of(LoadedRows, b))
      BY <2>2, <3>1, Counts DEF Count
    <3>3. QED
      BY <3>2 DEF Count, Of
  <2>4. Count(LoadedRows, b) + Paid(b) <= histogram[b]
    BY DEF Inv, LowerInv
  <2>5. histogram'[b] <= Count(main, b)'
    BY DEF Count, Of
  <2>6. histogram[b] <= histogram'[b]
    OBVIOUS
  <2>7. QED
    BY <2>1, <2>2, <2>3, <2>4, <2>5, <2>6
<1>3. QED
  BY <1>1, <1>2 DEF UpperInv, LowerInv

(* What a failing or dying write may have done leaves the histogram between   *)
(* what it was and the main table's counts.                                   *)
LEMMA AppliedCounts ==
    ASSUME Inv, Applied \/ UNCHANGED tables
    PROVE  /\ main \subseteq main' /\ meta \subseteq meta'
           /\ \A b \in Buckets : /\ histogram[b] <= histogram'[b]
                                 /\ histogram'[b] <= Cardinality(Of(main', b))
<1>1. ASSUME NEW b \in Buckets
      PROVE  /\ histogram[b] \in Nat /\ Count(main, b) \in Nat /\ Owed(b) \in Nat
             /\ histogram[b] <= Count(main, b)
             /\ histogram[b] + Owed(b) <= Count(main, b)
  BY Numbers DEF Inv, UpperInv
<1>2. main' \in SUBSET Record /\ main \in SUBSET Record
  BY AppliedTypes DEF Inv, TypeOK
<1>3. main \subseteq main' /\ meta \subseteq meta'
  BY DEF Applied, tables
<1>4. ASSUME NEW b \in Buckets
      PROVE  /\ Cardinality(Of(main', b)) \in Nat
             /\ Count(main, b) <= Cardinality(Of(main', b))
  BY <1>2, <1>3, Counts DEF Count
<1>5. CASE histogram' = histogram
  BY <1>1, <1>3, <1>4, <1>5
<1>6. ASSUME NEW bs \in Chunks, pc = "histogram", histogram' = Added(bs),
             UNCHANGED <<main, meta>>, NEW b \in Buckets
      PROVE  histogram[b] <= histogram'[b] /\ histogram'[b] <= Cardinality(Of(main', b))
  <2>1. shard \in Shard /\ batch \subseteq Buckets /\ bs \in SUBSET batch
    BY <1>6, ShardBuckets DEF Inv, TypeOK, Chunks
  <2>2. /\ b \in bs => histogram'[b] = histogram[b] + Count(Rows[shard], b)
        /\ b \notin bs => histogram'[b] = histogram[b]
    BY <1>6, <2>1, Additions DEF Inv
  <2>3. b \in bs => Owed(b) = Count(Rows[shard], b)
    BY <1>6, <2>1 DEF Owed
  <2>4. histogram[b] <= histogram'[b] /\ histogram'[b] <= Count(main, b)
    BY <1>1, <2>2, <2>3
  <2>5. QED
    BY <1>6, <2>4 DEF Count
<1>7. QED
  BY <1>3, <1>5, <1>6 DEF Applied, tables

-------------------------------------------------------------------------------
(* A COPY into the main table: it owes the histogram all of the shard. *)
LEMMA CopyMainStep == Inv /\ TypeOK' /\ CopyMain => Inv'
<1> SUFFICES ASSUME Inv, TypeOK', CopyMain PROVE Inv'
  OBVIOUS
<1>1. PartitionInv' /\ StageInv'
  BY DEF Inv, PartitionInv, Actual, MonthsIn, MonthOf, StageInv, CopyMain
<1>2. LoadedRows' = LoadedRows
  BY DEF LoadedRows, Loaded, CopyMain
<1>3. LoadedInv'
  BY <1>2 DEF Inv, LoadedInv, CopyMain
<1>4. ASSUME NEW b \in Buckets
      PROVE  /\ histogram'[b] + Owed(b)' <= Count(main, b)'
             /\ Count(LoadedRows, b)' + Paid(b)' <= histogram'[b]
  <2>1. /\ histogram[b] \in Nat /\ Owed(b) \in Nat /\ Paid(b) \in Nat
        /\ Count(main, b) \in Nat /\ Count(LoadedRows, b) \in Nat
        /\ main \in SUBSET Record
    BY Numbers DEF Inv
  <2>2. Rows[shard] \in SUBSET Record
    BY DEF CopyMain, Inv, TypeOK, Record
  <2>3. main \cap Rows[shard] = {}
    BY DEF CopyMain, Copyable
  <2>4. /\ Count(Rows[shard], b) \in Nat
        /\ Count(main \cup Rows[shard], b) = Count(main, b) + Count(Rows[shard], b)
    BY <2>1, <2>2, <2>3, Counts
  <2>5. Count(main, b)' = Count(main, b) + Count(Rows[shard], b)
    BY <2>4 DEF CopyMain, Count, Of
  <2>6. Owed(b)' = Count(Rows[shard], b) /\ Paid(b)' = 0
    BY DEF CopyMain, Owed, Paid, Count, Of
  <2>7. Count(LoadedRows, b)' = Count(LoadedRows, b) /\ histogram' = histogram
    BY <1>2 DEF CopyMain, Count, Of
  <2>8. /\ histogram[b] + Owed(b) <= Count(main, b)
        /\ Count(LoadedRows, b) + Paid(b) <= histogram[b]
    BY DEF Inv, UpperInv, LowerInv
  <2>9. QED
    BY <2>1, <2>4, <2>5, <2>6, <2>7, <2>8
<1>5. QED
  BY <1>1, <1>3, <1>4 DEF Inv, UpperInv, LowerInv

(* A COPY into the metadata table changes no count. *)
LEMMA CopyMetaStep == Inv /\ TypeOK' /\ CopyMeta => Inv'
<1> SUFFICES ASSUME Inv, TypeOK', CopyMeta PROVE Inv'
  OBVIOUS
<1>1. PartitionInv' /\ StageInv'
  BY DEF Inv, PartitionInv, Actual, MonthsIn, MonthOf, StageInv, CopyMeta
<1>2. LoadedRows' = LoadedRows
  BY DEF LoadedRows, Loaded, CopyMeta
<1>3. LoadedInv'
  BY <1>2 DEF Inv, LoadedInv, CopyMeta
<1>4. ASSUME NEW b \in Buckets
      PROVE  /\ histogram'[b] + Owed(b)' <= Count(main, b)'
             /\ Count(LoadedRows, b)' + Paid(b)' <= histogram'[b]
  <2>1. /\ histogram[b] \in Nat /\ Owed(b) \in Nat /\ Paid(b) \in Nat
        /\ Count(main, b) \in Nat /\ Count(LoadedRows, b) \in Nat
    BY Numbers DEF Inv
  <2>2. Rows[shard] \in SUBSET Record
    BY DEF CopyMeta, Inv, TypeOK, Record
  <2>3. /\ Count(Rows[shard], b) \in Nat
        /\ b \notin BucketsOf(shard) => Count(Rows[shard], b) = 0
    BY <2>2, Counts DEF BucketsOf
  <2>4. Owed(b) = Count(Rows[shard], b) /\ Paid(b) = 0
    BY DEF CopyMeta, Owed, Paid
  <2>5. Owed(b)' <= Count(Rows[shard], b) /\ Paid(b)' = 0 /\ Owed(b)' \in Nat
    BY <2>3 DEF CopyMeta, Owed, Paid, Count, Of
  <2>6. /\ Count(main, b)' = Count(main, b)
        /\ Count(LoadedRows, b)' = Count(LoadedRows, b) /\ histogram' = histogram
    BY <1>2 DEF CopyMeta, Count, Of
  <2>7. /\ histogram[b] + Owed(b) <= Count(main, b)
        /\ Count(LoadedRows, b) + Paid(b) <= histogram[b]
    BY DEF Inv, UpperInv, LowerInv
  <2>8. QED
    BY <2>1, <2>3, <2>4, <2>5, <2>6, <2>7
<1>5. QED
  BY <1>1, <1>3, <1>4 DEF Inv, UpperInv, LowerInv

(* A batch moves its buckets from what is owed to what is paid. *)
LEMMA UpsertStep == Inv /\ TypeOK' /\ UpsertBatch => Inv'
<1> SUFFICES ASSUME Inv, TypeOK', UpsertBatch PROVE Inv'
  OBVIOUS
<1>1. PartitionInv' /\ StageInv'
  BY DEF Inv, PartitionInv, Actual, MonthsIn, MonthOf, StageInv, UpsertBatch
<1>2. LoadedRows' = LoadedRows
  BY DEF LoadedRows, Loaded, UpsertBatch
<1>3. LoadedInv'
  BY <1>2 DEF Inv, LoadedInv, UpsertBatch
<1>4. PICK bs \in Chunks : histogram' = Added(bs) /\ batch' = batch \ bs
  BY DEF UpsertBatch
<1>5. shard \in Shard /\ batch \subseteq Buckets /\ bs \in SUBSET batch
  BY ShardBuckets DEF UpsertBatch, Inv, TypeOK, Chunks
<1>6. ASSUME NEW b \in Buckets
      PROVE  /\ histogram'[b] + Owed(b)' <= Count(main, b)'
             /\ Count(LoadedRows, b)' + Paid(b)' <= histogram'[b]
  <2>1. /\ histogram[b] \in Nat /\ Owed(b) \in Nat /\ Paid(b) \in Nat
        /\ Count(main, b) \in Nat /\ Count(LoadedRows, b) \in Nat
    BY Numbers DEF Inv
  <2>2. Rows[shard] \in SUBSET Record
    BY <1>5 DEF Record
  <2>3. Count(Rows[shard], b) \in Nat
    BY <2>2, Counts
  <2>4. /\ b \in bs => histogram'[b] = histogram[b] + Count(Rows[shard], b)
        /\ b \notin bs => histogram'[b] = histogram[b]
    BY <1>4, <1>5, Additions DEF Inv
  <2>5. /\ Owed(b) = IF b \in batch THEN Count(Rows[shard], b) ELSE 0
        /\ Paid(b) = IF b \in batch THEN 0 ELSE Count(Rows[shard], b)
    BY DEF UpsertBatch, Owed, Paid
  <2>6. /\ Owed(b)' = IF b \in batch \ bs THEN Count(Rows[shard], b) ELSE 0
        /\ Paid(b)' = IF b \in batch \ bs THEN 0 ELSE Count(Rows[shard], b)
    BY <1>4 DEF UpsertBatch, Owed, Paid, Count, Of
  <2>7. /\ Count(main, b)' = Count(main, b)
        /\ Count(LoadedRows, b)' = Count(LoadedRows, b)
    BY <1>2 DEF UpsertBatch, Count, Of
  <2>8. /\ histogram[b] + Owed(b) <= Count(main, b)
        /\ Count(LoadedRows, b) + Paid(b) <= histogram[b]
    BY DEF Inv, UpperInv, LowerInv
  <2>9. CASE b \in bs
    BY <1>5, <2>1, <2>3, <2>4, <2>5, <2>6, <2>7, <2>8, <2>9
  <2>10. CASE b \notin bs
    BY <2>1, <2>3, <2>4, <2>5, <2>6, <2>7, <2>8, <2>10
  <2>11. QED
    BY <2>9, <2>10
<1>7. QED
  BY <1>1, <1>3, <1>6 DEF Inv, UpperInv, LowerInv

(* A shard that is through joins the loaded ones, all of it paid. *)
LEMMA ShardDoneStep == Inv /\ TypeOK' /\ ShardDone => Inv'
<1> SUFFICES ASSUME Inv, TypeOK', ShardDone PROVE Inv'
  OBVIOUS
<1>1. PartitionInv' /\ StageInv'
  BY PostgresLoaderAssumption
  DEF Inv, TypeOK, PartitionInv, Actual, MonthsIn, MonthOf, StageInv, ShardDone, NextShard
<1>2. LoadedRows' \subseteq LoadedRows \cup Rows[shard]
  BY DEF LoadedRows, Loaded, ShardDone, NextShard
<1>3. LoadedInv'
  BY <1>2 DEF Inv, LoadedInv, StageInv, ShardDone, tables
<1>4. ASSUME NEW b \in Buckets
      PROVE  /\ histogram'[b] + Owed(b)' <= Count(main, b)'
             /\ Count(LoadedRows, b)' + Paid(b)' <= histogram'[b]
  <2>1. /\ histogram[b] \in Nat /\ Owed(b) \in Nat /\ Paid(b) \in Nat
        /\ Count(main, b) \in Nat /\ Count(LoadedRows, b) \in Nat
        /\ LoadedRows \in SUBSET Record
    BY Numbers DEF Inv
  <2>2. Rows[shard] \in SUBSET Record
    BY DEF ShardDone, Inv, TypeOK, Record
  <2>3. /\ LoadedRows' \in SUBSET Record
        /\ LoadedRows \cup Rows[shard] \in SUBSET Record
    BY <1>2, <2>1, <2>2
  <2>4. /\ Count(Rows[shard], b) \in Nat
        /\ Count(LoadedRows \cup Rows[shard], b) \in Nat
        /\ Count(LoadedRows \cup Rows[shard], b) <=
             Count(LoadedRows, b) + Count(Rows[shard], b)
    BY <2>1, <2>2, <2>3, Counts
  <2>5. /\ Cardinality(Of(LoadedRows', b)) \in Nat
        /\ Cardinality(Of(LoadedRows', b)) <= Count(LoadedRows \cup Rows[shard], b)
    BY <1>2, <2>3, Counts DEF Count
  <2>6. Count(LoadedRows, b)' = Cardinality(Of(LoadedRows', b))
    BY DEF Count, Of
  <2>7. Paid(b) = Count(Rows[shard], b) /\ Paid(b)' = 0 /\ Owed(b)' = 0
    BY DEF ShardDone, NextShard, Owed, Paid
  <2>8. Count(main, b)' = Count(main, b) /\ histogram' = histogram
    BY DEF ShardDone, tables, Count, Of
  <2>9. /\ histogram[b] + Owed(b) <= Count(main, b)
        /\ Count(LoadedRows, b) + Paid(b) <= histogram[b]
    BY DEF Inv, UpperInv, LowerInv
  <2>10. QED
    BY <2>1, <2>4, <2>5, <2>6, <2>7, <2>8, <2>9
<1>5. QED
  BY <1>1, <1>3, <1>4 DEF Inv, UpperInv, LowerInv

-------------------------------------------------------------------------------
(* A run that begins, with the partitions it needs, has loaded nothing yet. *)
LEMMA StartStep ==
    ASSUME Inv, TypeOK', NEW paths, NEW user, Start(paths, user)
    PROVE  Inv'
<1>1. PartitionInv'
  <2>1. ASSUME NEW s \in ShardsIn(paths) PROVE Actual(s) \subseteq Needed(paths)
    BY DEF Needed
  <2>2. run' = ShardsIn(paths) /\ partitions' = partitions \cup Needed(paths)
    BY DEF Start
  <2>3. \A s \in run' : Actual(s) \subseteq partitions'
    BY <2>1, <2>2
  <2>4. QED
    BY <2>3 DEF PartitionInv, Actual, MonthsIn, MonthOf
<1>2. StageInv'
  BY PostgresLoaderAssumption DEF Inv, TypeOK, StageInv, Start, ShardsIn
<1>3. LoadedRows' \subseteq LoadedRows
  BY DEF LoadedRows, Loaded, Start
<1>4. UNCHANGED tables /\ pc' = "load"
  BY DEF Start
<1>5. LoadedInv' /\ UpperInv' /\ LowerInv'
  BY <1>3, <1>4, AppliedCounts, Settled
<1>6. QED
  BY <1>1, <1>2, <1>5 DEF Inv

(* A shard that is read is at work, or has nothing to load. *)
LEMMA ReadStep ==
    ASSUME Inv, TypeOK', NEW s \in todo, Read(s) \/ ReadFails(s)
    PROVE  Inv'
<1>1. pc = "load" /\ shard = None /\ None \notin todo /\ todo' = todo \ {s}
  BY PostgresLoaderAssumption DEF Inv, TypeOK, Read, ReadFails
<1>2. PartitionInv'
  BY DEF Inv, PartitionInv, Actual, MonthsIn, MonthOf, Read, ReadFails
<1>3. StageInv'
  BY <1>1 DEF StageInv, Read, ReadFails
<1>4. LoadedRows' \subseteq LoadedRows
  <2>1. CASE Read(s) /\ Rows[s] = {}
    <3>1. Loaded' \subseteq Loaded \cup {s}
      BY <1>1, <2>1 DEF Loaded, Read
    <3>2. QED
      BY <2>1, <3>1 DEF LoadedRows
  <2>2. CASE Read(s) /\ Rows[s] # {}
    <3>1. Loaded' \subseteq Loaded
      BY <1>1, <2>2, PostgresLoaderAssumption DEF Inv, TypeOK, Loaded, Read
    <3>2. QED
      BY <3>1 DEF LoadedRows
  <2>3. CASE ReadFails(s)
    <3>1. Loaded' \subseteq Loaded
      BY <1>1, <2>3 DEF Loaded, ReadFails
    <3>2. QED
      BY <3>1 DEF LoadedRows
  <2>4. QED
    BY <2>1, <2>2, <2>3
<1>5. UNCHANGED tables /\ pc' \in {"load", "main"}
  BY <1>1 DEF Read, ReadFails
<1>6. LoadedInv' /\ UpperInv' /\ LowerInv'
  BY <1>4, <1>5, AppliedCounts, Settled
<1>7. QED
  BY <1>2, <1>3, <1>6 DEF Inv

(* A shard that fails, in the first table or later, is not among the loaded. *)
LEMMA FailStep == Inv /\ TypeOK' /\ (MainRefused \/ WriteFails) => Inv'
<1> SUFFICES ASSUME Inv, TypeOK', MainRefused \/ WriteFails PROVE Inv'
  OBVIOUS
<1>1. /\ pc' = "load" /\ shard' = None /\ failed' = failed \cup {shard}
      /\ Applied \/ UNCHANGED tables
      /\ UNCHANGED <<partitions, run, todo, accepted>>
  BY DEF MainRefused, WriteFails, NextShard
<1>2. PartitionInv'
  BY <1>1 DEF Inv, PartitionInv, Actual, MonthsIn, MonthOf
<1>3. StageInv'
  BY <1>1, PostgresLoaderAssumption DEF Inv, TypeOK, StageInv
<1>4. LoadedRows' \subseteq LoadedRows
  BY <1>1 DEF LoadedRows, Loaded
<1>5. LoadedInv' /\ UpperInv' /\ LowerInv'
  BY <1>1, <1>4, AppliedCounts, Settled
<1>6. QED
  BY <1>2, <1>3, <1>5 DEF Inv

(* What a run accepts as it ends, it had loaded; a killed one accepts nothing. *)
LEMMA EndStep == Inv /\ TypeOK' /\ (Finish \/ Killed) => Inv'
<1> SUFFICES ASSUME Inv, TypeOK', Finish \/ Killed PROVE Inv'
  OBVIOUS
<1>1. pc' = "idle" /\ run' = {} /\ todo' = {} /\ shard' = None
  BY DEF Finish, Killed, EndRun
<1>2. PartitionInv' /\ StageInv'
  BY <1>1 DEF PartitionInv, StageInv
<1>3. accepted' \subseteq Loaded
  BY PostgresLoaderAssumption DEF Inv, TypeOK, Loaded, Finish, Killed
<1>4. LoadedRows' \subseteq LoadedRows
  BY <1>1, <1>3 DEF LoadedRows, Loaded
<1>5. Applied \/ UNCHANGED tables
  BY DEF Finish, Killed
<1>6. LoadedInv' /\ UpperInv' /\ LowerInv'
  BY <1>1, <1>4, <1>5, AppliedCounts, Settled
<1>7. QED
  BY <1>2, <1>6 DEF Inv

(* A step that changes nothing. *)
LEMMA StutterStep == Inv /\ UNCHANGED vars => Inv'
<1> SUFFICES ASSUME Inv, UNCHANGED vars PROVE Inv'
  OBVIOUS
<1>1. TypeOK'
  BY TypeStep DEF Inv
<1>2. PartitionInv' /\ StageInv' /\ LoadedInv'
  BY DEF Inv, PartitionInv, Actual, MonthsIn, MonthOf, StageInv, LoadedInv, LoadedRows,
         Loaded, vars
<1>3. UpperInv' /\ LowerInv'
  BY DEF Inv, UpperInv, LowerInv, Owed, Paid, Count, Of, LoadedRows, Loaded, vars
<1>4. QED
  BY <1>1, <1>2, <1>3 DEF Inv

(* Init gives the invariant: nothing is loaded and nothing counted. *)
LEMMA InvInit == Init => Inv
<1> SUFFICES ASSUME Init PROVE Inv
  OBVIOUS
<1>1. TypeOK
  BY PostgresLoaderAssumption DEF Init, TypeOK
<1>2. PartitionInv /\ StageInv
  BY DEF Init, PartitionInv, StageInv
<1>3. LoadedRows = {} /\ LoadedInv
  BY DEF Init, LoadedRows, Loaded, LoadedInv
<1>4. ASSUME NEW b \in Buckets
      PROVE  /\ histogram[b] = 0 /\ Owed(b) = 0 /\ Paid(b) = 0
             /\ Count(main, b) \in Nat /\ Count(LoadedRows, b) = 0
  <2>1. Count(main, b) \in Nat
    BY <1>1, Numbers
  <2>2. Count(LoadedRows, b) = 0
    BY <1>3, Counts
  <2>3. QED
    BY <2>1, <2>2 DEF Init, Owed, Paid
<1>5. UpperInv /\ LowerInv
  BY <1>4 DEF UpperInv, LowerInv
<1>6. QED
  BY <1>1, <1>2, <1>3, <1>5 DEF Inv

(* The inductive invariant: in every state the histogram is between what the  *)
(* loaded shards count and what the main table holds, less what is still owed.*)
THEOREM Invariance == Spec => []Inv
<1>1. ASSUME Inv, [Next]_vars PROVE Inv'
  <2>1. TypeOK'
    BY <1>1, TypeStep DEF Inv
  <2>2. ASSUME NEW paths, NEW user, Start(paths, user) PROVE Inv'
    BY <1>1, <2>1, <2>2, StartStep
  <2>3. ASSUME NEW s \in todo, Read(s) \/ ReadFails(s) PROVE Inv'
    BY <1>1, <2>1, <2>3, ReadStep
  <2>4. CASE CopyMain
    BY <1>1, <2>1, <2>4, CopyMainStep
  <2>5. CASE MainRefused \/ WriteFails
    BY <1>1, <2>1, <2>5, FailStep
  <2>6. CASE CopyMeta
    BY <1>1, <2>1, <2>6, CopyMetaStep
  <2>7. CASE UpsertBatch
    BY <1>1, <2>1, <2>7, UpsertStep
  <2>8. CASE ShardDone
    BY <1>1, <2>1, <2>8, ShardDoneStep
  <2>9. CASE Finish \/ Killed
    BY <1>1, <2>1, <2>9, EndStep
  <2>10. CASE UNCHANGED vars
    BY <1>1, <2>10, StutterStep
  <2>11. QED
    BY <1>1, <2>2, <2>3, <2>4, <2>5, <2>6, <2>7, <2>8, <2>9, <2>10 DEF Next
<1>2. QED
  BY <1>1, InvInit, PTL DEF Spec

(* No flight is counted twice, whatever fails and however often paths are     *)
(* loaded again (main.py:394-417, 635-644).                                   *)
THEOREM CountsNothingTwice == Spec => []HistogramNeverOvercounts
<1>1. Inv => HistogramNeverOvercounts
  <2>1. SUFFICES ASSUME Inv, NEW b \in Buckets
                 PROVE  histogram[b] <= Cardinality(Of(main, b))
    BY DEF HistogramNeverOvercounts
  <2>2. /\ histogram[b] \in Nat /\ Count(main, b) \in Nat /\ Owed(b) \in Nat
        /\ histogram[b] + Owed(b) <= Count(main, b)
    BY <2>1, Numbers DEF Inv, UpperInv
  <2>3. histogram[b] <= Count(main, b)
    BY <2>2
  <2>4. QED
    BY <2>3 DEF Count
<1>2. QED
  BY <1>1, Invariance, PTL

(* What no run reports as failed is in all three tables (main.py:744-755). *)
THEOREM AcceptedShardsAreLoaded == Spec => []AcceptedIsLoaded
<1>1. Inv => AcceptedIsLoaded
  <2> SUFFICES ASSUME Inv PROVE AcceptedIsLoaded
    OBVIOUS
  <2> DEFINE records == UNION {Rows[s] : s \in accepted}
  <2>1. records \subseteq LoadedRows
    BY DEF LoadedRows, Loaded
  <2>2. records \subseteq main \cap meta
    BY <2>1 DEF Inv, LoadedInv
  <2>3. ASSUME pc = "idle", main = records, NEW b \in Buckets
        PROVE  histogram[b] = Cardinality(Of(main, b))
    <3>1. LoadedRows = main
      BY <2>1, <2>3 DEF Inv, LoadedInv
    <3>2. /\ histogram[b] \in Nat /\ Count(main, b) \in Nat
          /\ Owed(b) \in Nat /\ Paid(b) \in Nat
          /\ histogram[b] + Owed(b) <= Count(main, b)
          /\ Count(main, b) + Paid(b) <= histogram[b]
      BY <3>1, Numbers DEF Inv, UpperInv, LowerInv
    <3>3. histogram[b] = Count(main, b)
      BY <3>2
    <3>4. QED
      BY <3>3 DEF Count
  <2>4. QED
    BY <2>2, <2>3 DEF AcceptedIsLoaded
<1>2. QED
  BY <1>1, Invariance, PTL

(* No record is ever without its partition (main.py:727-741). *)
THEOREM PartitionsAlwaysSuffice == Spec => []PartitionsSuffice
<1>1. Inv => PartitionsSuffice
  <2>1. SUFFICES ASSUME Inv, pc \in {"main", "meta"}, NEW r \in Rows[shard]
                 PROVE  MonthOf(Day[r]) \in partitions
    BY DEF PartitionsSuffice
  <2>2. shard \in run /\ shard \in Shard
    BY <2>1 DEF Inv, TypeOK
  <2>3. MonthOf(Day[r]) \in Actual(shard)
    BY <2>1, <2>2, RangeCovers
  <2>4. QED
    BY <2>1, <2>2, <2>3 DEF Inv, PartitionInv
<1>2. QED
  BY <1>1, Invariance, PTL
===============================================================================
