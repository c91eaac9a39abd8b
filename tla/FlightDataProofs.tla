---------------------------- MODULE FlightDataProofs ----------------------------
(***************************************************************************)
(* The data a flight is worked on with: the meteorology a worker chooses,    *)
(* for every chunk and all durations, and what healing, resampling and        *)
(* marking make of its waypoints, for every flight and all limits.            *)
(***************************************************************************)
EXTENDS MetStores, TrajectoryQuality, FiniteSetTheorems, TLAPS

-------------------------------------------------------------------------------
(* Meteorology. *)

(* Flooring to a grid gives the grid's last point that is not later. *)
LEMMA FloorIsLast ==
    ASSUME NEW x \in Int, NEW u \in Nat \ {0}
    PROVE  /\ Floor(x, u) \in Int
           /\ Floor(x, u) <= x
           /\ x < Floor(x, u) + u
           /\ \A r \in Int : r % u = 0 /\ r <= x => r <= Floor(x, u)
<1>1. x \div u \in Int
  OBVIOUS
<1>2. x = u * (x \div u) + (x % u) /\ (x % u) \in 0 .. (u - 1)
  OBVIOUS
<1>3. u * (x \div u) \in Int /\ u * (x \div u) <= x /\ x < u * (x \div u) + u
  BY <1>1, <1>2
<1>4. ASSUME NEW r \in Int, r % u = 0, r <= x
      PROVE  r <= u * (x \div u)
  <2>1. r \div u \in Int /\ r = u * (r \div u)
    BY <1>4
  <2>2. CASE r \div u <= x \div u
    <3>1. u * (r \div u) <= u * (x \div u)
      BY <1>1, <2>1, <2>2
    <3>2. QED
      BY <2>1, <3>1
  <2>3. CASE r \div u > x \div u
    <3>1. (x \div u) + 1 <= r \div u
      BY <1>1, <2>1, <2>3
    <3>2. u * ((x \div u) + 1) <= u * (r \div u)
      BY <1>1, <2>1, <3>1
    <3>3. u * ((x \div u) + 1) = u * (x \div u) + u
      BY <1>1
    <3>4. QED
      BY <1>3, <1>4, <2>1, <3>2, <3>3
  <2>4. QED
    BY <1>1, <2>1, <2>2, <2>3
<1>5. QED
  BY <1>3, <1>4 DEF Floor

(* A chunk's waypoints are telemetry. *)
PastInv == chunk.last <= now

ChunkType == chunk.first \in Int /\ chunk.last \in Int /\ chunk.first <= chunk.last

(* The waypoints of a chunk are times, in order. *)
LEMMA ChunkTypes == MetTypeOK => ChunkType
BY MetStoresAssumption DEF MetTypeOK, ChunkType

(* The forecast chosen is the earlier of the one wanted and the latest one.   *)
LEMMA StoreChoice ==
    ASSUME MetTypeOK
    PROVE  /\ NearestHresStore \in Int
           /\ NearestHresStore \in {TargetRun, LatestRun}
           /\ NearestHresStore + Availability <= now
           /\ NearestHresStore <= chunk.first - HalfHour
           /\ \A r \in Int : Usable(r) => r <= NearestHresStore
<1>1. /\ now \in Int /\ chunk.first \in Int
      /\ Availability \in Int /\ HalfHour \in Int /\ Interval \in Nat \ {0}
  BY ChunkTypes, MetStoresAssumption DEF MetTypeOK, ChunkType
<1>2. /\ TargetRun \in Int
      /\ TargetRun <= chunk.first - HalfHour
      /\ \A r \in Int : r % Interval = 0 /\ r <= chunk.first - HalfHour => r <= TargetRun
  BY <1>1, FloorIsLast DEF TargetRun
<1>3. /\ LatestRun \in Int
      /\ LatestRun <= now - Availability
      /\ \A r \in Int : r % Interval = 0 /\ r <= now - Availability => r <= LatestRun
  BY <1>1, FloorIsLast DEF LatestRun
<1>4. ASSUME NEW r \in Int, Usable(r)
      PROVE  r <= TargetRun /\ r <= LatestRun
  BY <1>1, <1>2, <1>3, <1>4 DEF Usable
<1>5. QED
  BY <1>1, <1>2, <1>3, <1>4 DEF NearestHresStore

(* Its end: the forecast wanted outlasts the longest flight's contrails, and  *)
(* the latest one began too recently to end before those of any flight.      *)
LEMMA StoreLasts ==
    ASSUME MetTypeOK, PastInv
    PROVE  chunk.last + MaxAge + HalfHour <= NearestHresStore + Horizon
<1>1. /\ now \in Int /\ chunk.first \in Int /\ chunk.last \in Int /\ chunk \in Chunks
      /\ Availability \in Int /\ HalfHour \in Int /\ Interval \in Nat \ {0}
      /\ MaxAge \in Int /\ Horizon \in Int
  BY ChunkTypes, MetStoresAssumption DEF MetTypeOK, ChunkType
<1>2. TargetRun \in Int /\ chunk.first - HalfHour < TargetRun + Interval
  BY <1>1, FloorIsLast DEF TargetRun
<1>3. LatestRun \in Int /\ now - Availability < LatestRun + Interval
  BY <1>1, FloorIsLast DEF LatestRun
<1>4. (chunk.last - chunk.first) + MaxAge + 2 * HalfHour + Interval <= Horizon
  BY <1>1, HorizonAssumption
<1>5. MaxAge + HalfHour + Availability + Interval <= Horizon
  BY HorizonAssumption
<1>6. chunk.last + MaxAge + HalfHour <= TargetRun + Horizon
  BY <1>1, <1>2, <1>4
<1>7. chunk.last + MaxAge + HalfHour <= LatestRun + Horizon
  BY <1>1, <1>3, <1>5 DEF PastInv
<1>8. QED
  BY <1>6, <1>7, StoreChoice

MetInv == MetTypeOK /\ PastInv /\ ForecastCovers

(* The invariant holds at first: nothing has been loaded. *)
LEMMA MetInvInit == MetInit => MetInv
<1>1. ASSUME NEW c \in Chunks
      PROVE  c.last \in Int /\ c.last <= c.last
  BY MetStoresAssumption
<1>2. QED
  BY <1>1 DEF MetInit, MetInv, MetTypeOK, PastInv, ForecastCovers

(* Every step keeps the invariant: one case per action. *)
LEMMA MetInvStep == MetInv /\ [MetNext]_metVars => MetInv'
<1> SUFFICES ASSUME MetInv, [MetNext]_metVars
             PROVE  MetInv'
  OBVIOUS
<1>1. ChunkType /\ Availability \in Int /\ HalfHour \in Int /\ Day \in Int
  BY ChunkTypes, MetStoresAssumption DEF MetInv
<1>2. CASE Tick
  BY <1>1, <1>2, MetStoresAssumption
     DEF Tick, MetInv, MetTypeOK, PastInv, ForecastCovers, ChunkType
<1>3. CASE LoadHres
  <2>1. MetTypeOK' /\ PastInv'
    BY <1>3, StoreChoice DEF LoadHres, MetInv, MetTypeOK, PastInv
  <2>2. ForecastCovers'
    BY <1>3, StoreChoice, StoreLasts DEF LoadHres, MetInv, ForecastCovers
  <2>3. QED
    BY <2>1, <2>2 DEF MetInv
<1>4. CASE LoadEra5
  <2>1. Era5Stores \in SUBSET Int
    BY DEF Era5Stores
  <2>2. QED
    BY <1>4, <2>1 DEF LoadEra5, MetInv, MetTypeOK, PastInv, ForecastCovers
<1>5. CASE UNCHANGED metVars
  BY <1>5 DEF metVars, MetInv, MetTypeOK, PastInv, ForecastCovers
<1>6. QED
  BY <1>2, <1>3, <1>4, <1>5 DEF MetNext

(* The forecast covers the whole simulation, whenever the chunk is loaded and *)
(* however often, and although the code checks only its beginning.            *)
THEOREM LoadedForecastCovers == MetSpec => []ForecastCovers
<1>1. MetInv => ForecastCovers
  BY DEF MetInv
<1>2. QED
  BY MetInvInit, MetInvStep, <1>1, PTL DEF MetSpec

(* No attempt passes over a forecast that is newer and usable. *)
THEOREM NewestForecastIsLoaded == MetSpec => MostRecentUsable
<1>1. ASSUME MetInv, [MetNext]_metVars
      PROVE  [run' # run => \A r \in (run' + 1) .. now : ~Usable(r)]_metVars
  <2>1. CASE run' = run
    BY <2>1
  <2>2. CASE LoadHres
    BY <1>1, <2>2, StoreChoice DEF LoadHres, MetInv, MetTypeOK
  <2>3. QED
    BY <1>1, <2>1, <2>2 DEF MetNext, Tick, LoadEra5, metVars
<1>2. QED
  BY MetInvInit, MetInvStep, <1>1, PTL DEF MetSpec, MostRecentUsable

-------------------------------------------------------------------------------
(* The points of a grid are the multiples of its unit. *)
LEMMA GridPoints ==
    ASSUME NEW k \in Int, NEW u \in Nat \ {0}
    PROVE  (u * k) % u = 0
<1>1. (u * k) \div u \in Int /\ (u * k) % u \in 0 .. (u - 1)
      /\ u * k = u * ((u * k) \div u) + ((u * k) % u)
  OBVIOUS
<1>2. DEFINE q == (u * k) \div u
<1>3. CASE k = q
  BY <1>1, <1>3
<1>4. CASE k < q
  <2>1. u * (k + 1) <= u * q
    BY <1>1, <1>4
  <2>2. u * (k + 1) = u * k + u
    OBVIOUS
  <2>3. QED
    BY <1>1, <2>1, <2>2
<1>5. CASE q < k
  <2>1. u * (q + 1) <= u * k
    BY <1>1, <1>5
  <2>2. u * (q + 1) = u * q + u
    BY <1>1
  <2>3. QED
    BY <1>1, <2>1, <2>2
<1>6. QED
  BY <1>1, <1>3, <1>4, <1>5

(* The point after a point of the grid. *)
LEMMA NextGridPoint ==
    ASSUME NEW d \in Int, NEW u \in Nat \ {0}, d % u = 0
    PROVE  (d + u) % u = 0
<1>1. d \div u \in Int /\ d = u * (d \div u)
  OBVIOUS
<1>2. d + u = u * ((d \div u) + 1)
  BY <1>1
<1>3. (d \div u) + 1 \in Int
  BY <1>1
<1>4. (u * ((d \div u) + 1)) % u = 0
  BY <1>3, GridPoints
<1>5. QED
  BY <1>2, <1>4

(* A floor is a multiple of the unit. *)
LEMMA FloorIsGridPoint ==
    ASSUME NEW x \in Int, NEW u \in Nat \ {0}
    PROVE  Floor(x, u) % u = 0
BY GridPoints DEF Floor

(* The days chosen, when they are chosen. *)
LEMMA DaysChosen ==
    ASSUME MetTypeOK, days' = Era5Stores, chunk' = chunk
    PROVE  Era5NearlyCovers'
<1>1. /\ chunk.first \in Int /\ chunk.last \in Int /\ chunk.first <= chunk.last
      /\ Day \in Nat \ {0} /\ HalfHour \in Nat \ {0} /\ MaxAge \in Nat
      /\ LastHour = Day - 2 * HalfHour
  BY ChunkTypes, MetStoresAssumption DEF ChunkType
<1>2. LatestContrail \in Int /\ chunk.first <= LatestContrail
  BY <1>1 DEF LatestContrail
<1>3. /\ Floor(chunk.first, Day) \in Int /\ Floor(chunk.first, Day) % Day = 0
      /\ Floor(chunk.first, Day) <= chunk.first
      /\ Floor(LatestContrail, Day) \in Int /\ Floor(LatestContrail, Day) % Day = 0
      /\ Floor(LatestContrail, Day) <= LatestContrail
      /\ LatestContrail < Floor(LatestContrail, Day) + Day
      /\ Floor(chunk.first, Day) <= Floor(LatestContrail, Day)
  BY <1>1, <1>2, FloorIsLast, FloorIsGridPoint
<1>4. Floor(chunk.first, Day) \in Era5Stores /\ Floor(LatestContrail, Day) \in Era5Stores
  BY <1>1, <1>2, <1>3 DEF Era5Stores
<1>5. chunk.last + MaxAge < Floor(LatestContrail, Day) + LastHour + HalfHour
  BY <1>1, <1>3 DEF LatestContrail
<1>6. ASSUME NEW d \in Era5Stores, d + Day <= chunk.last + MaxAge + HalfHour
      PROVE  d + Day \in Era5Stores
  <2>1. d \in Int /\ d % Day = 0 /\ Floor(chunk.first, Day) <= d
    BY <1>2, <1>3 DEF Era5Stores
  <2>2. (d + Day) % Day = 0
    BY <1>1, <2>1, NextGridPoint
  <2>3. QED
    BY <1>1, <1>2, <1>3, <1>6, <2>1, <2>2 DEF Era5Stores, LatestContrail
<1>7. QED
  BY <1>3, <1>4, <1>5, <1>6 DEF Era5NearlyCovers

(* The ERA5 stores loaded leave out less than half an hour of the simulation. *)
THEOREM Era5IsShortByLittle == MetSpec => []Era5NearlyCovers
<1>1. MetInit => MetTypeOK /\ Era5NearlyCovers
  BY MetInvInit DEF MetInit, MetInv, Era5NearlyCovers
<1>2. ASSUME MetInv, Era5NearlyCovers, [MetNext]_metVars
      PROVE  Era5NearlyCovers'
  <2>1. CASE LoadEra5
    BY <1>2, <2>1, DaysChosen DEF LoadEra5, MetInv
  <2>2. CASE UNCHANGED <<chunk, days>>
    BY <1>2, <2>2 DEF Era5NearlyCovers
  <2>3. QED
    BY <1>2, <2>1, <2>2 DEF MetNext, Tick, LoadHres, metVars
<1>3. QED
  BY MetInvInit, MetInvStep, <1>1, <1>2, PTL DEF MetSpec

-------------------------------------------------------------------------------
(* Finite sets. *)

(* Any set of naturals has a least member. *)
LEMMA LeastNat ==
    ASSUME NEW S, S \subseteq Nat, S # {}
    PROVE  \E n \in S : \A m \in S : n <= m
<1> DEFINE R == OpToRel(<, Nat)
<1>1. R = {p \in Nat \X Nat : p[1] < p[2]}
  BY DEF OpToRel
<1>2. IsWellFoundedOn(R, Nat)
  BY NatLessThanWellFounded
<1> HIDE DEF R
<1>3. PICK n \in S : \A m \in S : <<m, n>> \notin R
  BY <1>2, WFMin
<1>4. ASSUME NEW m \in S PROVE n <= m
  <2>1. m \in Nat /\ n \in Nat
    OBVIOUS
  <2>2. m < n => <<m, n>> \in R
    BY <1>1, <2>1
  <2>3. QED
    BY <1>3, <2>1, <2>2
<1>5. QED
  BY <1>4

(* A finite set has a member that comes first by any measure: the one with    *)
(* the fewest before it. *)
LEMMA Foremost ==
    ASSUME NEW W, IsFiniteSet(W), W # {}, NEW f \in [W -> Int]
    PROVE  \E w \in W : \A u \in W : f[w] <= f[u]
<1> DEFINE Before(w) == {u \in W : f[u] < f[w]}
           S == {Cardinality(Before(w)) : w \in W}
<1>1. ASSUME NEW w \in W
      PROVE  IsFiniteSet(Before(w)) /\ Cardinality(Before(w)) \in Nat
  <2>1. IsFiniteSet(Before(w))
    BY FS_Subset
  <2>2. QED
    BY <2>1, FS_CardinalityType
<1>2. S \subseteq Nat /\ S # {}
  BY <1>1
<1>3. PICK n \in S : \A m \in S : n <= m
  BY <1>2, LeastNat
<1>4. PICK w \in W : n = Cardinality(Before(w))
  BY <1>3
<1>5. ASSUME NEW u \in W, f[u] < f[w]
      PROVE  FALSE
  <2>1. Before(u) \subseteq Before(w)
    BY <1>5
  <2>2. u \in Before(w) /\ u \notin Before(u)
    BY <1>5
  <2>3. Cardinality(Before(u)) <= Cardinality(Before(w))
        /\ Cardinality(Before(u)) # Cardinality(Before(w))
    <3> HIDE DEF Before
    <3>1. QED
      BY <1>1, <2>1, <2>2, FS_Subset
  <2>4. n <= Cardinality(Before(u))
    BY <1>3
  <2>5. QED
    BY <1>1, <1>4, <2>3, <2>4
<1>6. QED
  BY <1>5

(* And one that comes last. *)
LEMMA Hindmost ==
    ASSUME NEW W, IsFiniteSet(W), W # {}, NEW f \in [W -> Int]
    PROVE  \E w \in W : \A u \in W : f[u] <= f[w]
<1> DEFINE g == [w \in W |-> -f[w]]
<1>1. g \in [W -> Int]
  OBVIOUS
<1>2. PICK w \in W : \A u \in W : g[w] <= g[u]
  BY <1>1, Foremost
<1>3. QED
  BY <1>2

(* Two members are more than one. *)
LEMMA TwoMembers ==
    ASSUME NEW W, IsFiniteSet(W), NEW v \in W, NEW w \in W, v # w
    PROVE  Cardinality(W) >= 2
<1>1. Cardinality(W) \in Nat
  BY FS_CardinalityType
<1>2. Cardinality(W) # 0 /\ Cardinality(W) # 1
  BY FS_EmptySet, FS_Singleton
<1>3. QED
  BY <1>1, <1>2

(* What no more than c of each of n sets share out is no more than n times c. *)
LEMMA UnionBound ==
    ASSUME NEW K, IsFiniteSet(K), NEW U, NEW c \in Nat, NEW S,
           \A k \in K : IsFiniteSet(S[k]) /\ Cardinality(S[k]) <= c,
           \A u \in U : \E k \in K : u \in S[k]
    PROVE  IsFiniteSet(U) /\ Cardinality(U) <= Cardinality(K) * c
<1>1. ASSUME NEW k \in K
      PROVE  \E b : b \in Injection(S[k], 1 .. c)
  <2>1. Cardinality(S[k]) \in Nat /\ Cardinality(S[k]) <= c
    BY FS_CardinalityType
  <2> DEFINE T == 1 .. Cardinality(S[k])
  <2>2. IsFiniteSet(T) /\ Cardinality(T) = Cardinality(S[k])
    BY <2>1, FS_Interval
  <2>3. ExistsBijection(S[k], T)
    BY <2>2, FS_SameCardinalityBij
  <2>4. PICK b : b \in Bijection(S[k], T)
    BY <2>3 DEF ExistsBijection
  <2>5. T \subseteq 1 .. c
    BY <2>1
  <2>6. b \in [S[k] -> 1 .. c] /\ \A x, y \in S[k] : b[x] = b[y] => x = y
    BY <2>4, <2>5 DEF Bijection, Injection, IsInjective
  <2>7. QED
    BY <2>6 DEF Injection, IsInjective
<1> DEFINE index(k) == CHOOSE b : b \in Injection(S[k], 1 .. c)
           of(u) == CHOOSE k \in K : u \in S[k]
           g == [u \in U |-> <<of(u), index(of(u))[u]>>]
<1>2. \A k \in K : index(k) \in Injection(S[k], 1 .. c)
  BY <1>1
<1>3. \A u \in U : of(u) \in K /\ u \in S[of(u)]
  OBVIOUS
<1> HIDE DEF index, of
<1>4. ASSUME NEW u \in U
      PROVE  index(of(u))[u] \in 1 .. c
  BY <1>2, <1>3 DEF Injection, IsInjective
<1>5. ASSUME NEW u \in U, NEW v \in U, g[u] = g[v]
      PROVE  u = v
  <2>1. of(u) = of(v) /\ index(of(u))[u] = index(of(v))[v]
    BY <1>5
  <2>2. QED
    BY <1>2, <1>3, <2>1 DEF Injection, IsInjective
<1>6. g \in [U -> K \X (1 .. c)]
  BY <1>3, <1>4
<1>7. g \in Injection(U, K \X (1 .. c))
  <2> HIDE DEF g
  <2>1. QED
    BY <1>5, <1>6 DEF Injection, IsInjective
<1>8. IsFiniteSet(1 .. c) /\ Cardinality(1 .. c) = c
  BY FS_Interval
<1>9. IsFiniteSet(K \X (1 .. c)) /\ Cardinality(K \X (1 .. c)) = Cardinality(K) * c
  BY <1>8, FS_Product
<1>10. QED
  BY <1>7, <1>9, FS_Injection

-------------------------------------------------------------------------------
(* Attributes. *)

LEMMA RawFlight ==
    ASSUME NEW W \in Raw
    PROVE  W # {} /\ IsFiniteSet(W) /\ W \subseteq Waypoint
BY QualityAssumption

LEMMA AttributeType ==
    ASSUME NEW W, W \subseteq Waypoint, NEW w \in W, NEW k \in Attribute
    PROVE  w.attr[k] \in Value \cup {Null}
BY DEF Waypoint

(* The mode is told, by as many waypoints as any value; it is Null only when   *)
(* no waypoint tells the attribute. *)
LEMMA ModeIsMostTold ==
    ASSUME NEW W, IsFiniteSet(W), W \subseteq Waypoint, NEW k \in Attribute
    PROVE  LET told == {w.attr[k] : w \in W} \ {Null} IN
           \/ told = {} /\ Mode(W, k) = Null
           \/ /\ Mode(W, k) \in told /\ Mode(W, k) # Null /\ Mode(W, k) \in Value
              /\ \A u \in told : Telling(W, k, u) <= Telling(W, k, Mode(W, k))
<1> DEFINE told == {w.attr[k] : w \in W} \ {Null}
           modes == {v \in told : \A u \in told : Telling(W, k, u) <= Telling(W, k, v)}
<1>1. told \subseteq Value /\ told \subseteq Nat
  BY AttributeType, QualityAssumption
<1>2. CASE told = {}
  BY <1>2 DEF Mode
<1>3. CASE told # {}
  <2>1. IsFiniteSet(told)
    <3> DEFINE f == [w \in W |-> w.attr[k]]
               A == {w.attr[k] : w \in W}
    <3>1. f \in Surjection(W, A)
      BY DEF Surjection
    <3>2. IsFiniteSet(A)
      BY <3>1, FS_Surjection
    <3>3. QED
      BY <3>2, FS_Subset
  <2> DEFINE g == [v \in told |-> Telling(W, k, v)]
  <2>2. \A v : Telling(W, k, v) \in Nat
    <3> SUFFICES ASSUME NEW v PROVE Telling(W, k, v) \in Nat
      OBVIOUS
    <3> DEFINE T == {w \in W : w.attr[k] = v}
    <3>1. IsFiniteSet(T)
      BY FS_Subset
    <3>2. QED
      BY <3>1, FS_CardinalityType DEF Telling
  <2>3. g \in [told -> Int]
    BY <2>2
  <2>4. \E v \in told : \A u \in told : g[u] <= g[v]
    <3> HIDE DEF g, told
    <3>1. QED
      BY <1>3, <2>1, <2>3, Hindmost
  <2>5. modes # {} /\ modes \subseteq Nat
    BY <1>1, <2>4
  <2>6. \E v \in modes : \A u \in modes : v <= u
    <3> HIDE DEF modes
    <3>1. QED
      BY <2>5, LeastNat
  <2>7. Mode(W, k) = CHOOSE v \in modes : \A u \in modes : v <= u
    BY <1>3 DEF Mode
  <2>8. Mode(W, k) \in modes
    <3> HIDE DEF modes
    <3>1. QED
      BY <2>6, <2>7
  <2>9. QED
    BY <1>1, <2>8
<1>4. QED
  BY <1>2, <1>3

LEMMA ModeType ==
    ASSUME NEW W, IsFiniteSet(W), W \subseteq Waypoint, NEW k \in Attribute
    PROVE  Mode(W, k) \in Value \cup {Null}
BY ModeIsMostTold

(* Uniform waypoints are some of those there were, with the modes. *)
LEMMA UniformWaypoints ==
    ASSUME NEW W, IsFiniteSet(W), W \subseteq Waypoint
    PROVE  /\ IsFiniteSet(Uniform(W)) /\ Uniform(W) \subseteq Waypoint
           /\ \A w \in Uniform(W) : w.attr = [k \in Attribute |-> Mode(W, k)]
           /\ Uniform(W) = {} <=>
                 {w \in W : \A k \in Attribute : w.attr[k] \in {Null, Mode(W, k)}} = {}
<1> DEFINE A == {w \in W : \A k \in Attribute : w.attr[k] \in {Null, Mode(W, k)}}
           m == [k \in Attribute |-> Mode(W, k)]
           f == [w \in A |-> [w EXCEPT !.attr = m]]
<1>1. m \in [Attribute -> Value \cup {Null}]
  BY ModeType
<1>2. IsFiniteSet(A) /\ A \subseteq Waypoint
  BY FS_Subset
<1>3. Uniform(W) = {[w EXCEPT !.attr = m] : w \in A}
  BY DEF Uniform
<1> HIDE DEF m, A
<1>4. f \in Surjection(A, Uniform(W))
  BY <1>3 DEF Surjection
<1>5. IsFiniteSet(Uniform(W))
  BY <1>2, <1>4, FS_Surjection
<1>6. ASSUME NEW w \in Waypoint
      PROVE  [w EXCEPT !.attr = m] \in Waypoint /\ [w EXCEPT !.attr = m].attr = m
  BY <1>1 DEF Waypoint
<1>7. \A w \in Uniform(W) : w \in Waypoint /\ w.attr = m
  BY <1>2, <1>3, <1>6
<1>8. Uniform(W) = {} <=> A = {}
  BY <1>3
<1>9. Uniform(W) \subseteq Waypoint
  BY <1>7
<1>10. QED
  BY <1>5, <1>7, <1>8, <1>9 DEF m, A

(* No value is strayed from by fewer waypoints than the mode. *)
Strays(W, k) == {w \in W : w.attr[k] \notin {Null, Mode(W, k)}}
Others(W, k, v) == {w \in W : w.attr[k] \notin {v, Null}}

LEMMA FewestStray ==
    ASSUME NEW W, IsFiniteSet(W), W \subseteq Waypoint, NEW k \in Attribute, NEW v \in Value
    PROVE  /\ IsFiniteSet(Strays(W, k)) /\ Cardinality(Strays(W, k)) \in Nat
           /\ Cardinality(Others(W, k, v)) \in Nat
           /\ Cardinality(Strays(W, k)) <= Cardinality(Others(W, k, v))
<1> DEFINE strays == Strays(W, k)
           others == Others(W, k, v)
           teller == {w \in W : w.attr[k] # Null}
           Tell(u) == {w \in W : w.attr[k] = u}
<1>1. ASSUME NEW S, S \subseteq W
      PROVE  IsFiniteSet(S) /\ Cardinality(S) \in Nat
  <2>1. IsFiniteSet(S)
    BY <1>1, FS_Subset
  <2>2. QED
    BY <2>1, FS_CardinalityType
<1>2. /\ IsFiniteSet(strays) /\ Cardinality(strays) \in Nat
      /\ IsFiniteSet(others) /\ Cardinality(others) \in Nat
      /\ IsFiniteSet(teller) /\ Cardinality(teller) \in Nat
  BY <1>1 DEF Strays, Others
<1>9. ASSUME NEW u
      PROVE  Telling(W, k, u) = Cardinality(Tell(u)) /\ Telling(W, k, u) \in Nat
  BY <1>1 DEF Telling
<1>3. ASSUME NEW u, u # Null
      PROVE  Cardinality(Others(W, k, u)) = Cardinality(teller) - Telling(W, k, u)
  <2> DEFINE rest == Others(W, k, u)
  <2>1. rest = teller \ Tell(u) /\ teller \cap Tell(u) = Tell(u)
    BY <1>3 DEF Others
  <2>2. Cardinality(teller \ Tell(u)) = Cardinality(teller) - Cardinality(teller \cap Tell(u))
    BY <1>2, FS_Difference
  <2>3. QED
    BY <1>9, <2>1, <2>2
<1>4. v # Null
  BY QualityAssumption
<1>5. CASE Mode(W, k) = Null
  <2>1. {w.attr[k] : w \in W} \ {Null} = {}
    BY <1>5, ModeIsMostTold
  <2>2. strays = {}
    BY <2>1 DEF Strays
  <2>3. QED
    BY <1>2, <2>2, FS_EmptySet
<1>6. CASE Mode(W, k) # Null
  <2> HIDE DEF teller
  <2>0. Telling(W, k, v) \in Nat /\ Telling(W, k, Mode(W, k)) \in Nat
    BY <1>9
  <2>1. \A u \in {w.attr[k] : w \in W} \ {Null} :
           Telling(W, k, u) <= Telling(W, k, Mode(W, k))
    BY <1>6, ModeIsMostTold
  <2>2. Telling(W, k, v) <= Telling(W, k, Mode(W, k))
    <3>1. CASE v \in {w.attr[k] : w \in W}
      BY <1>4, <2>1, <3>1
    <3>2. CASE v \notin {w.attr[k] : w \in W}
      <4>1. {w \in W : w.attr[k] = v} = {}
        BY <3>2
      <4>2. Telling(W, k, v) = 0
        BY <4>1, FS_EmptySet DEF Telling
      <4>3. QED
        BY <2>0, <4>2
    <3>3. QED
      BY <3>1, <3>2
  <2>3. Cardinality(others) = Cardinality(teller) - Telling(W, k, v)
    BY <1>3, <1>4
  <2>4. Cardinality(strays) = Cardinality(teller) - Telling(W, k, Mode(W, k))
    <3>1. strays = Others(W, k, Mode(W, k))
      BY DEF Strays, Others
    <3>2. QED
      BY <1>3, <1>6, <3>1
  <2>5. QED
    BY <1>2, <2>0, <2>2, <2>3, <2>4
<1>7. QED
  BY <1>5, <1>6

(* A value of each attribute from which few waypoints stray leaves a waypoint  *)
(* that strays from no mode. *)
LEMMA SomeAgree ==
    ASSUME NEW W, W # {}, IsFiniteSet(W), W \subseteq Waypoint,
           \A k \in Attribute : \E v \in Value :
              Cardinality(Attribute) * Cardinality(Others(W, k, v)) < Cardinality(W)
    PROVE  Uniform(W) # {}
<1> SUFFICES ASSUME \A w \in W : \E k \in Attribute : w.attr[k] \notin {Null, Mode(W, k)}
             PROVE  FALSE
  BY UniformWaypoints
<1> DEFINE S == [k \in Attribute |-> Strays(W, k)]
           c == [k \in Attribute |-> Cardinality(S[k])]
<1>1. IsFiniteSet(Attribute) /\ Cardinality(Attribute) \in Nat /\ Cardinality(W) \in Nat
  BY QualityAssumption, FS_CardinalityType
<1>2. ASSUME NEW k \in Attribute
      PROVE  /\ IsFiniteSet(S[k]) /\ c[k] = Cardinality(S[k]) /\ c[k] \in Nat
             /\ Cardinality(Attribute) * c[k] < Cardinality(W)
  <2>1. PICK v \in Value : Cardinality(Attribute) * Cardinality(Others(W, k, v)) < Cardinality(W)
    BY DEF Others
  <2> DEFINE n == Cardinality(Others(W, k, v))
  <2>2. IsFiniteSet(S[k]) /\ c[k] = Cardinality(S[k]) /\ c[k] \in Nat /\ n \in Nat /\ c[k] <= n
    BY FewestStray
  <2> HIDE DEF c, S, n
  <2>3. Cardinality(Attribute) * c[k] <= Cardinality(Attribute) * n
    BY <1>1, <2>2
  <2>4. Cardinality(Attribute) * n < Cardinality(W)
    BY <2>1 DEF n
  <2>5. Cardinality(Attribute) * n \in Int /\ Cardinality(Attribute) * c[k] \in Int
    BY <1>1, <2>2
  <2>6. QED
    BY <1>1, <2>2, <2>3, <2>4, <2>5
<1>3. Attribute # {}
  OBVIOUS
<1>4. c \in [Attribute -> Int]
  <2> HIDE DEF S
  <2>1. \A k \in Attribute : Cardinality(S[k]) \in Nat
    BY <1>2, FS_CardinalityType
  <2>2. QED
    BY <2>1
<1>5. \A w \in W : \E k \in Attribute : w \in S[k]
  BY DEF Strays
<1> HIDE DEF c, S
<1>6. PICK k \in Attribute : \A l \in Attribute : c[l] <= c[k]
  BY <1>1, <1>3, <1>4, Hindmost
<1>7. \A l \in Attribute : IsFiniteSet(S[l]) /\ Cardinality(S[l]) <= c[k]
  BY <1>2, <1>6
<1>8. Cardinality(W) <= Cardinality(Attribute) * c[k]
  BY <1>1, <1>2, <1>5, <1>7, UnionBound
<1>9. Cardinality(Attribute) * c[k] \in Int
  BY <1>1, <1>2
<1>10. QED
  BY <1>1, <1>2, <1>8, <1>9

-------------------------------------------------------------------------------
(* Times. *)

Distinct(W) == \A v, w \in W : v.t = w.t => v = w

LEMMA WaypointType ==
    ASSUME NEW w \in Waypoint
    PROVE  w.t \in Int /\ w.x \in Int /\ w.alt \in Int
BY DEF Waypoint

(* The last waypoint until some time, and the first one after it. *)
LEMMA LastUntil ==
    ASSUME NEW W, IsFiniteSet(W), W \subseteq Waypoint, NEW m \in Int, NEW x \in W, x.t <= m
    PROVE  \E w \in W : w.t <= m /\ \A u \in W : u.t <= m => u.t <= w.t
<1> DEFINE S == {u \in W : u.t <= m}
           f == [u \in S |-> u.t]
<1>1. IsFiniteSet(S) /\ S # {}
  BY FS_Subset
<1>2. f \in [S -> Int]
  BY WaypointType
<1>3. \E w \in S : \A u \in S : f[u] <= f[w]
  <2> HIDE DEF S, f
  <2>1. QED
    BY <1>1, <1>2, Hindmost
<1>4. QED
  BY <1>3

LEMMA FirstAfter ==
    ASSUME NEW W, IsFiniteSet(W), W \subseteq Waypoint, NEW m \in Int, NEW x \in W, m < x.t
    PROVE  \E w \in W : m < w.t /\ \A u \in W : m < u.t => w.t <= u.t
<1> DEFINE S == {u \in W : m < u.t}
           f == [u \in S |-> u.t]
<1>1. IsFiniteSet(S) /\ S # {}
  BY FS_Subset
<1>2. f \in [S -> Int]
  BY WaypointType
<1>3. \E w \in S : \A u \in S : f[w] <= f[u]
  <2> HIDE DEF S, f
  <2>1. QED
    BY <1>1, <1>2, Foremost
<1>4. QED
  BY <1>3

LEMMA FirstAndLast ==
    ASSUME NEW W, IsFiniteSet(W), W # {}, W \subseteq Waypoint
    PROVE  /\ First(W) \in W /\ \A u \in W : First(W).t <= u.t
           /\ Last(W) \in W /\ \A u \in W : u.t <= Last(W).t
<1> DEFINE f == [u \in W |-> u.t]
<1>1. f \in [W -> Int]
  BY WaypointType
<1>2. \E w \in W : \A u \in W : f[w] <= f[u]
  <2> HIDE DEF f
  <2>1. QED
    BY <1>1, Foremost
<1>3. \E w \in W : \A u \in W : f[u] <= f[w]
  <2> HIDE DEF f
  <2>1. QED
    BY <1>1, Hindmost
<1>4. \E w \in W : \A u \in W : w.t <= u.t
  BY <1>2
<1>5. \E w \in W : \A u \in W : u.t <= w.t
  BY <1>3
<1>6. First(W) \in W /\ \A u \in W : First(W).t <= u.t
  BY <1>4 DEF First
<1>7. Last(W) \in W /\ \A u \in W : u.t <= Last(W).t
  BY <1>5 DEF Last
<1>8. QED
  BY <1>6, <1>7

LEMMA NextToTheEnds ==
    ASSUME NEW W, IsFiniteSet(W), W \subseteq Waypoint, Distinct(W), Cardinality(W) >= 2
    PROVE  /\ Second(W) \in W /\ First(W).t < Second(W).t
           /\ Penultimate(W) \in W /\ Penultimate(W).t < Last(W).t
<1>1. W # {} /\ \A w : W # {w}
  <2>1. Cardinality(W) # 0 /\ Cardinality(W) # 1
    BY FS_CardinalityType
  <2>2. QED
    BY <2>1, FS_EmptySet, FS_Singleton
<1>2. /\ First(W) \in W /\ \A u \in W : First(W).t <= u.t
      /\ Last(W) \in W /\ \A u \in W : u.t <= Last(W).t
  BY <1>1, FirstAndLast
<1>3. \A w \in W : w.t \in Int
  BY WaypointType
<1>4. \E v \in W : Adjacent(W, First(W), v)
  <2>1. PICK x \in W : x # First(W)
    BY <1>1, <1>2
  <2>2. First(W).t < x.t
    BY <1>2, <1>3, <2>1 DEF Distinct
  <2>3. PICK v \in W : First(W).t < v.t /\ \A u \in W : First(W).t < u.t => v.t <= u.t
    BY <1>2, <1>3, <2>2, FirstAfter
  <2>4. QED
    BY <1>3, <2>3 DEF Adjacent
<1>5. \E v \in W : Adjacent(W, v, Last(W))
  <2>1. PICK x \in W : x # Last(W)
    BY <1>1, <1>2
  <2>2. x.t <= Last(W).t - 1 /\ Last(W).t - 1 \in Int
    BY <1>2, <1>3, <2>1 DEF Distinct
  <2>3. PICK v \in W : v.t <= Last(W).t - 1 /\ \A u \in W : u.t <= Last(W).t - 1 => u.t <= v.t
    BY <2>2, LastUntil
  <2>4. v.t < Last(W).t /\ \A u \in W : u.t < Last(W).t => u.t <= v.t
    BY <1>2, <1>3, <2>3
  <2>5. ~\E u \in W : v.t < u.t /\ u.t < Last(W).t
    BY <1>3, <2>4
  <2>6. QED
    BY <2>4, <2>5 DEF Adjacent
<1>6. Second(W) \in W /\ Adjacent(W, First(W), Second(W))
  BY <1>4 DEF Second
<1>7. Penultimate(W) \in W /\ Adjacent(W, Penultimate(W), Last(W))
  BY <1>5 DEF Penultimate
<1>8. QED
  BY <1>6, <1>7 DEF Adjacent

(* An airport that gets a waypoint is at least a tick away. *)
LEMMA TicksArePositive ==
    ASSUME NEW w \in Waypoint, NEW v \in Waypoint, w.t # v.t,
           NEW airport \in Int, Reaches(w, v, airport)
    PROVE  TicksTo(w, v, airport) \in Nat \ {0}
<1> DEFINE a == Abs(w.x - airport)
           b == Abs(w.t - v.t)
           c == Abs(w.x - v.x)
<1>1. a \in Nat \ {0} /\ b \in Nat \ {0} /\ c \in Nat \ {0}
  <2>1. w.t \in Int /\ v.t \in Int /\ w.x \in Int /\ v.x \in Int
    BY WaypointType
  <2>2. MinReach \in Nat \ {0}
    BY QualityAssumption
  <2>3. MinReach <= a /\ w.x # v.x
    BY DEF Reaches
  <2>4. \A n \in Int : n # 0 => Abs(n) \in Nat \ {0}
    BY DEF Abs
  <2>5. w.t - v.t # 0 /\ w.x - v.x # 0 /\ w.x - airport \in Int
    BY <2>1, <2>3
  <2>6. a # 0
    BY <2>2, <2>3
  <2>7. w.x - airport # 0
    BY <2>6 DEF Abs
  <2>8. QED
    BY <2>1, <2>4, <2>5, <2>7
<1>2. TicksTo(w, v, airport) = -((-(a * b)) \div c)
  BY DEF TicksTo
<1> HIDE DEF a, b, c
<1>3. a * b \in Int /\ a * b >= 1
  BY <1>1
<1> DEFINE n == -(a * b)
           q == n \div c
<1>4. n \in Int /\ n < 0
  BY <1>3
<1> HIDE DEF n
<1>5. q \in Int /\ c * q <= n
  BY <1>1, <1>4, FloorIsLast DEF Floor
<1>6. q < 0
  <2>1. ASSUME q >= 0 PROVE c * q >= 0
    BY <1>1, <1>5, <2>1
  <2>2. QED
    BY <1>1, <1>4, <1>5, <2>1
<1>7. QED
  BY <1>2, <1>5, <1>6 DEF n

-------------------------------------------------------------------------------
(* Airports. *)

Moved(w, n, x, alt) == [w EXCEPT !.t = n, !.x = x, !.alt = alt]

(* An airport's waypoint is before all others, or after. *)
LEMMA EndsAreOutside ==
    ASSUME NEW W, IsFiniteSet(W), W # {}, W \subseteq Waypoint, Distinct(W)
    PROVE  /\ IsFiniteSet(Airports(W)) /\ Airports(W) \subseteq Waypoint
           /\ \A e \in Airports(W) :
                 \/ e = Departure(W) /\ \A u \in W : e.t < u.t
                 \/ e = Arrival(W) /\ \A u \in W : u.t < e.t
<1>1. CASE Airports(W) = {}
  BY <1>1, FS_EmptySet
<1>2. CASE Airports(W) # {}
  <2>1. Airports(W) = Reached(W) /\ ~(Cardinality(W) < 2)
    BY <1>2 DEF Airports
  <2>2. Cardinality(W) >= 2
    BY <2>1, FS_CardinalityType
  <2>3. /\ First(W) \in W /\ \A u \in W : First(W).t <= u.t
        /\ Last(W) \in W /\ \A u \in W : u.t <= Last(W).t
    BY FirstAndLast
  <2>4. /\ Second(W) \in W /\ First(W).t < Second(W).t
        /\ Penultimate(W) \in W /\ Penultimate(W).t < Last(W).t
    BY <2>2, NextToTheEnds
  <2>5. /\ {First(W), Second(W), Penultimate(W), Last(W)} \subseteq Waypoint
        /\ \A u \in W : u.t \in Int
    BY <2>3, <2>4, WaypointType
  <2>6. {Origin, Destination, Approach} \subseteq Int
    BY QualityAssumption
  <2>7. ASSUME NEW w \in Waypoint, NEW n \in Int, NEW x \in Int, NEW alt \in Int
        PROVE  Moved(w, n, x, alt) \in Waypoint /\ Moved(w, n, x, alt).t = n
    BY DEF Waypoint, Moved
  <2>8. ASSUME Reaches(First(W), Second(W), Origin)
        PROVE  Departure(W) \in Waypoint /\ \A u \in W : Departure(W).t < u.t
    <3> DEFINE n == TicksTo(First(W), Second(W), Origin)
    <3>1. n \in Nat \ {0}
      BY <2>4, <2>5, <2>6, <2>8, TicksArePositive, WaypointType
    <3>2. First(W).t - n \in Int
      BY <2>3, <2>5, <3>1
    <3>3. Departure(W) = Moved(First(W), First(W).t - n, Origin, Approach)
      BY DEF Departure, Moved
    <3> HIDE DEF n
    <3>4. Departure(W) \in Waypoint /\ Departure(W).t = First(W).t - n
      BY <2>5, <2>6, <2>7, <3>2, <3>3
    <3>5. QED
      BY <2>3, <2>5, <3>1, <3>4
  <2>9. ASSUME Reaches(Last(W), Penultimate(W), Destination)
        PROVE  Arrival(W) \in Waypoint /\ \A u \in W : u.t < Arrival(W).t
    <3> DEFINE n == TicksTo(Last(W), Penultimate(W), Destination)
    <3>1. n \in Nat \ {0}
      BY <2>4, <2>5, <2>6, <2>9, TicksArePositive, WaypointType
    <3>2. Last(W).t + n \in Int
      BY <2>3, <2>5, <3>1
    <3>3. Arrival(W) = Moved(Last(W), Last(W).t + n, Destination, Approach)
      BY DEF Arrival, Moved
    <3> HIDE DEF n
    <3>4. Arrival(W) \in Waypoint /\ Arrival(W).t = Last(W).t + n
      BY <2>5, <2>6, <2>7, <3>2, <3>3
    <3>5. QED
      BY <2>3, <2>5, <3>1, <3>4
  <2>10. \A e \in Reached(W) :
            \/ e = Departure(W) /\ Reaches(First(W), Second(W), Origin)
            \/ e = Arrival(W) /\ Reaches(Last(W), Penultimate(W), Destination)
    BY DEF Reached
  <2>11. IsFiniteSet(Reached(W))
    <3>1. IsFiniteSet({Departure(W)} \cup {Arrival(W)})
      BY FS_Singleton, FS_Union
    <3>2. Reached(W) \in SUBSET ({Departure(W)} \cup {Arrival(W)})
      BY <2>10
    <3>3. QED
      BY <3>1, <3>2, FS_Subset
  <2>12. QED
    BY <2>1, <2>8, <2>9, <2>10, <2>11
<1>3. QED
  BY <1>1, <1>2

HasObservedEnds(T, W) == \A v, w \in T : Adjacent(T, v, w) => v \in W \/ w \in W

(* With the airports' the waypoints still differ in time, and every segment   *)
(* has an end that is observed. *)
LEMMA WithEnds ==
    ASSUME NEW W, IsFiniteSet(W), W # {}, W \subseteq Waypoint, Distinct(W)
    PROVE  LET T == W \cup Airports(W) IN
           /\ IsFiniteSet(T) /\ T # {} /\ T \subseteq Waypoint /\ Distinct(T)
           /\ HasObservedEnds(T, W)
<1> DEFINE T == W \cup Airports(W)
<1>1. /\ IsFiniteSet(Airports(W)) /\ Airports(W) \subseteq Waypoint
      /\ \A e \in Airports(W) :
            \/ e = Departure(W) /\ \A u \in W : e.t < u.t
            \/ e = Arrival(W) /\ \A u \in W : u.t < e.t
  BY EndsAreOutside
<1>2. IsFiniteSet(T) /\ T # {} /\ T \subseteq Waypoint
  BY <1>1, FS_Union
<1>3. \A w \in T : w.t \in Int
  BY <1>2, WaypointType
<1>4. PICK u \in W : TRUE
  OBVIOUS
<1>5. ASSUME NEW v \in Airports(W), NEW w \in Airports(W), v # w
      PROVE  \/ v.t < u.t /\ u.t < w.t
             \/ w.t < u.t /\ u.t < v.t
  BY <1>1, <1>4, <1>5
<1>6. ASSUME NEW v \in T, NEW w \in T, v.t = w.t
      PROVE  v = w
  <2>1. CASE v \in W /\ w \in W
    BY <1>6, <2>1 DEF Distinct
  <2>2. CASE v \in Airports(W) /\ w \in Airports(W)
    BY <1>3, <1>4, <1>5, <1>6, <2>2
  <2>3. CASE v \in Airports(W) /\ w \in W
    BY <1>1, <1>3, <1>6, <2>3
  <2>4. CASE v \in W /\ w \in Airports(W)
    BY <1>1, <1>3, <1>6, <2>4
  <2>5. QED
    BY <2>1, <2>2, <2>3, <2>4
<1>7. ASSUME NEW v \in T, NEW w \in T, Adjacent(T, v, w)
      PROVE  v \in W \/ w \in W
  <2> SUFFICES ASSUME v \in Airports(W), w \in Airports(W)
               PROVE  FALSE
    OBVIOUS
  <2>1. v.t < w.t /\ ~\E x \in T : v.t < x.t /\ x.t < w.t
    BY <1>7 DEF Adjacent
  <2>2. v # w /\ u \in T
    BY <1>3, <1>4, <2>1
  <2>3. QED
    BY <1>3, <1>5, <2>1, <2>2
<1>8. QED
  BY <1>2, <1>6, <1>7 DEF Distinct, HasObservedEnds

(* The ends lack two shares of the trip at most, so what is between them is    *)
(* the rest. *)
LEMMA SpansTheTrip ==
    ASSUME NEW W, IsFiniteSet(W), W # {}, W \subseteq Waypoint, Airports(W) # {}
    PROVE  MaxShare * Abs(Last(W).x - First(W).x) >= (MaxShare - 2) * Abs(Destination - Origin)
<1> DEFINE f == First(W).x
           l == Last(W).x
           A == Abs(f - Origin)
           B == Abs(l - Destination)
           C == Abs(l - f)
           D == Abs(Destination - Origin)
<1>1. f \in Int /\ l \in Int /\ Origin \in Int /\ Destination \in Int /\ MaxShare \in Nat
  BY FirstAndLast, WaypointType, QualityAssumption
<1>2. (A + B) * MaxShare <= 2 * D
  <2>1. ~((A + B) * MaxShare > 2 * D)
    BY DEF Airports
  <2>2. A \in Int /\ B \in Int /\ D \in Int
    BY <1>1 DEF Abs
  <2> HIDE DEF A, B, D
  <2>3. QED
    BY <1>1, <2>1, <2>2
<1> HIDE DEF f, l
<1>3. A \in Int /\ B \in Int /\ C \in Int /\ D \in Int /\ D <= A + B + C
  BY <1>1 DEF Abs
<1> HIDE DEF A, B, C, D
<1>4. MaxShare * D <= MaxShare * (A + B + C)
  BY <1>1, <1>3
<1>5. MaxShare * (A + B + C) = (A + B) * MaxShare + MaxShare * C
  BY <1>1, <1>3
<1>6. (MaxShare - 2) * D = MaxShare * D - 2 * D
  BY <1>1, <1>3
<1>7. MaxShare * C >= (MaxShare - 2) * D
  <2>1. {MaxShare * D, MaxShare * C, (A + B) * MaxShare} \subseteq Int
    BY <1>1, <1>3
  <2>2. QED
    BY <1>2, <1>3, <1>4, <1>5, <1>6, <2>1
<1>8. QED
  BY <1>7 DEF C, D, f, l

-------------------------------------------------------------------------------
(* Gaps. *)

(* A gap is between two waypoints that determine one another. *)
LEMMA GapsAreOneToOne ==
    ASSUME NEW T, T \subseteq Waypoint, Distinct(T),
           NEW u \in T, NEW v \in T, NEW w \in T
    PROVE  /\ Gap(T, u, w) /\ Gap(T, v, w) => u = v
           /\ Gap(T, u, v) /\ Gap(T, u, w) => v = w
<1>1. u.t \in Int /\ v.t \in Int /\ w.t \in Int
  BY WaypointType
<1>2. QED
  BY <1>1 DEF Gap, Adjacent, Distinct

(* Of the flags until some time those of whole gaps come in pairs, and one is  *)
(* left when the time is in a gap. *)
LEMMA OddInGaps ==
    ASSUME NEW T, IsFiniteSet(T), T \subseteq Waypoint, Distinct(T), ~AdjacentGaps(T),
           NEW m \in Int
    PROVE  Cardinality({w \in Bounds(T) : w.t <= m}) % 2 = 1 <=> InGap(T, m)
<1> DEFINE B == {w \in Bounds(T) : w.t <= m}
           E == {w \in B : \E v \in T : Gap(T, v, w)}
           S == {v \in B : \E w \in E : Gap(T, v, w)}
           O == {v \in B : \E w \in T : Gap(T, v, w) /\ m < w.t}
<1>1. \A w \in T : w.t \in Int
  BY WaypointType
<1>2. \A w : w \in B <=> w \in T /\ w.t <= m /\ \E v \in T : Gap(T, v, w) \/ Gap(T, w, v)
  BY DEF Bounds
<1>3. \A u, v, w \in T : ~(Gap(T, u, v) /\ Gap(T, v, w))
  BY DEF AdjacentGaps
<1>4. \A v, w \in T : Gap(T, v, w) => v.t < w.t
  BY DEF Gap, Adjacent
<1> HIDE DEF B
<1>5. \A w : w \in E <=> w \in B /\ \E v \in T : Gap(T, v, w)
  OBVIOUS
<1> HIDE DEF E
<1>6. \A v : v \in S <=> v \in B /\ \E w \in E : Gap(T, v, w)
  OBVIOUS
<1>7. \A v : v \in O <=> v \in B /\ \E w \in T : Gap(T, v, w) /\ m < w.t
  OBVIOUS
<1> HIDE DEF S, O
<1>8. B = (E \cup S) \cup O
  <2>1. ASSUME NEW v \in B PROVE v \in (E \cup S) \cup O
    <3>1. PICK w \in T : Gap(T, w, v) \/ Gap(T, v, w)
      BY <1>2, <2>1
    <3>2. CASE Gap(T, w, v)
      BY <1>5, <2>1, <3>2
    <3>3. CASE Gap(T, v, w) /\ w.t <= m
      <4>1. w \in E
        BY <1>2, <1>5, <2>1, <3>3
      <4>2. QED
        BY <1>6, <2>1, <3>3, <4>1
    <3>4. CASE Gap(T, v, w) /\ m < w.t
      BY <1>7, <2>1, <3>4
    <3>5. QED
      BY <1>1, <3>1, <3>2, <3>3, <3>4
  <2>2. QED
    BY <1>5, <1>6, <1>7, <2>1
<1>9. E \cap S = {}
  BY <1>2, <1>3, <1>5, <1>6
<1>10. (E \cup S) \cap O = {}
  <2>1. ASSUME NEW v \in E, v \in O PROVE FALSE
    BY <1>2, <1>3, <1>5, <1>7, <2>1
  <2>2. ASSUME NEW v \in S, v \in O PROVE FALSE
    <3>1. PICK w \in E : Gap(T, v, w)
      BY <1>6, <2>2
    <3>2. PICK u \in T : Gap(T, v, u) /\ m < u.t
      BY <1>7, <2>2
    <3>3. v \in T /\ w \in T /\ w.t <= m
      BY <1>2, <1>5, <1>6, <2>2
    <3>4. w = u
      BY <3>1, <3>2, <3>3, GapsAreOneToOne
    <3>5. QED
      BY <1>1, <3>2, <3>3, <3>4
  <2>3. QED
    BY <2>1, <2>2
<1>11. /\ IsFiniteSet(B) /\ IsFiniteSet(E) /\ IsFiniteSet(S) /\ IsFiniteSet(O)
  <2>1. B \in SUBSET T
    BY <1>2
  <2>2. E \in SUBSET T /\ S \in SUBSET T /\ O \in SUBSET T
    BY <1>5, <1>6, <1>7, <2>1
  <2>3. QED
    BY <2>1, <2>2, FS_Subset
<1>12. Cardinality(S) = Cardinality(E)
  <2> DEFINE of(w) == CHOOSE v \in T : Gap(T, v, w)
             f == [w \in E |-> of(w)]
  <2>1. ASSUME NEW w \in E
        PROVE  of(w) \in S /\ Gap(T, of(w), w)
    <3>1. of(w) \in T /\ Gap(T, of(w), w)
      BY <1>5
    <3>2. w \in T /\ w.t <= m
      BY <1>2, <1>5
    <3> HIDE DEF of
    <3>3. of(w).t <= m
      BY <1>1, <1>4, <3>1, <3>2
    <3>4. of(w) \in B
      BY <1>2, <3>1, <3>2, <3>3
    <3>5. QED
      BY <1>6, <3>1, <3>4
  <2> HIDE DEF of
  <2>2. f \in [E -> S]
    BY <2>1
  <2>3. \A v, w \in E : f[v] = f[w] => v = w
    <3> SUFFICES ASSUME NEW v \in E, NEW w \in E, f[v] = f[w] PROVE v = w
      OBVIOUS
    <3>1. of(v) = of(w) /\ Gap(T, of(v), v) /\ Gap(T, of(v), w)
      BY <2>1
    <3>2. of(v) \in T /\ v \in T /\ w \in T
      BY <1>2, <1>5, <1>6, <2>1
    <3>3. QED
      BY <3>1, <3>2, GapsAreOneToOne
  <2>4. \A v \in S : \E w \in E : f[w] = v
    <3> SUFFICES ASSUME NEW v \in S PROVE \E w \in E : f[w] = v
      OBVIOUS
    <3>1. PICK w \in E : Gap(T, v, w)
      BY <1>6
    <3>2. of(w) \in T /\ v \in T /\ w \in T /\ Gap(T, of(w), w)
      BY <1>2, <1>5, <1>6, <2>1
    <3>3. of(w) = v
      BY <3>1, <3>2, GapsAreOneToOne
    <3>4. QED
      BY <3>3
  <2> HIDE DEF f
  <2>5. f \in Bijection(E, S)
    BY <2>2, <2>3, <2>4 DEF Bijection, Injection, IsInjective, Surjection
  <2>6. QED
    BY <1>11, <2>5, FS_Bijection DEF ExistsBijection
<1>13. /\ Cardinality(E) \in Nat /\ Cardinality(O) \in Nat
       /\ Cardinality(B) = 2 * Cardinality(E) + Cardinality(O)
  <2>1. Cardinality(E) \in Nat /\ Cardinality(S) \in Nat /\ Cardinality(O) \in Nat
    BY <1>11, FS_CardinalityType
  <2>2. IsFiniteSet(E \cup S) /\ Cardinality(E \cup S) = Cardinality(E) + Cardinality(S)
    BY <1>9, <1>11, <2>1, FS_Union, FS_EmptySet
  <2>3. Cardinality(B) = Cardinality(E \cup S) + Cardinality(O)
    <3> DEFINE P == E \cup S
    <3>1. B = P \cup O /\ P \cap O = {} /\ IsFiniteSet(P) /\ IsFiniteSet(O)
      BY <1>8, <1>10, <1>11, <2>2
    <3>2. Cardinality(P) \in Nat
      BY <3>1, FS_CardinalityType
    <3> HIDE DEF P
    <3>3. Cardinality(P \cup O) = Cardinality(P) + Cardinality(O) - Cardinality(P \cap O)
      BY <3>1, FS_Union
    <3>4. Cardinality(P \cap O) = 0
      BY <3>1, FS_EmptySet
    <3>5. Cardinality(B) = Cardinality(P) + Cardinality(O)
      BY <2>1, <3>1, <3>2, <3>3, <3>4
    <3>6. QED
      BY <3>5 DEF P
  <2>4. QED
    BY <1>12, <2>1, <2>2, <2>3
<1>14. CASE InGap(T, m)
  <2>1. PICK v \in T, w \in T : Gap(T, v, w) /\ v.t <= m /\ m < w.t
    BY <1>14 DEF InGap
  <2>2. v \in O
    BY <1>2, <1>7, <2>1
  <2>3. ASSUME NEW u \in O PROVE u = v
    <3>1. PICK x \in T : Gap(T, u, x) /\ m < x.t
      BY <1>7
    <3>2. u \in T /\ u.t <= m
      BY <1>2, <1>7
    <3>3. u.t = v.t
      BY <1>1, <2>1, <3>1, <3>2 DEF Gap, Adjacent
    <3>4. QED
      BY <2>1, <3>2, <3>3 DEF Distinct
  <2>4. O = {v}
    BY <2>2, <2>3
  <2>5. Cardinality(O) = 1
    BY <2>4, FS_Singleton
  <2>6. Cardinality(B) % 2 = 1
    BY <1>13, <2>5
  <2>7. QED
    BY <1>14, <2>6 DEF B
<1>15. CASE ~InGap(T, m)
  <2>1. O = {}
    BY <1>2, <1>7, <1>15 DEF InGap
  <2>2. Cardinality(O) = 0
    BY <2>1, FS_EmptySet
  <2>3. Cardinality(B) % 2 # 1
    BY <1>13, <2>2
  <2>4. QED
    BY <1>15, <2>3 DEF B
<1>16. QED
  BY <1>14, <1>15

(* A minute outside of the gaps has an observed waypoint near, or is the very *)
(* time of an airport's. *)
LEMMA NearData ==
    ASSUME NEW W, NEW T, IsFiniteSet(T), T \subseteq Waypoint, Distinct(T),
           W \subseteq T, HasObservedEnds(T, W),
           NEW m \in WholeMinutes(T), T # {}, ~InGap(T, m)
    PROVE  \/ \E w \in W : Abs(w.t - m) <= Cutoff
           \/ \E e \in T \ W : e.t = m
<1>1. \A w \in T : w.t \in Int
  BY WaypointType
<1>2. /\ First(T) \in T /\ Last(T) \in T /\ \A u \in T : u.t <= Last(T).t
      /\ m \in Int /\ First(T).t <= m /\ m <= Last(T).t
  <2>1. First(T) \in T /\ Last(T) \in T /\ \A u \in T : u.t <= Last(T).t
    BY FirstAndLast
  <2>2. m \in First(T).t .. Last(T).t
    BY DEF WholeMinutes
  <2>3. QED
    BY <1>1, <2>1, <2>2
<1>3. PICK w \in T : w.t <= m /\ \A u \in T : u.t <= m => u.t <= w.t
  BY <1>2, LastUntil
<1>4. Cutoff \in Nat
  BY QualityAssumption
<1>5. CASE w.t = m
  <2>1. Abs(w.t - m) <= Cutoff
    BY <1>1, <1>2, <1>4, <1>5 DEF Abs
  <2>2. QED
    BY <1>5, <2>1
<1>6. CASE w.t < m
  <2>1. m < Last(T).t
    BY <1>1, <1>2, <1>3, <1>6
  <2>2. PICK v \in T : m < v.t /\ \A u \in T : m < u.t => v.t <= u.t
    BY <1>2, <2>1, FirstAfter
  <2>3. Adjacent(T, w, v)
    BY <1>1, <1>2, <1>3, <2>2 DEF Adjacent
  <2>4. v.t - w.t <= Cutoff
    BY <1>1, <1>2, <1>3, <1>4, <2>2, <2>3 DEF InGap, Gap
  <2>5. Abs(w.t - m) <= Cutoff /\ Abs(v.t - m) <= Cutoff
    BY <1>1, <1>2, <1>4, <1>6, <2>2, <2>4 DEF Abs
  <2>6. QED
    BY <2>3, <2>5 DEF HasObservedEnds
<1>7. QED
  BY <1>1, <1>2, <1>3, <1>5, <1>6

-------------------------------------------------------------------------------
(* The inductive invariant: what each stage leaves to the next. *)

Clean(W) ==
    /\ \A v, w \in W : v.attr = w.attr
    /\ Distinct(W)
    /\ \A w \in W, k \in Attribute : w.attr[k] = Null => \A u \in raw : u.attr[k] = Null
    /\ \A w \in W : GroundLevel < w.alt /\ w.alt < Ceiling

Settled ==
    /\ traj # {} /\ ends = Airports(traj)
    /\ passes = 0 \/ \A v, w \in traj : Adjacent(traj, v, w) => Plausible(v, w)

Unmarked == pc \in {"set", "uniform", "speed", "healed", "resampled"}

StageInv ==
    /\ TypeOK /\ IsFiniteSet(traj)
    /\ pc = "set" => traj = raw
    /\ pc = "uniform" => traj = Uniform(raw)
    /\ pc = "speed" \/ Healed => Clean(traj)
    /\ Healed => Settled
    /\ Unmarked => imputed = {}
    /\ pc \in {"resampled", "marked", "built"} => minutes = WholeMinutes(traj \cup ends)
    /\ pc \in {"marked", "built"} => imputed = Imputed(traj \cup ends, minutes)

(* Less of a clean trajectory is clean. *)
LEMMA LessIsClean ==
    ASSUME NEW W, Clean(W), NEW V, V \subseteq W
    PROVE  Clean(V)
BY DEF Clean, Distinct

(* Ordering keeps one waypoint of each time, and those in the air. *)
LEMMA OrderedIsClean ==
    ASSUME raw \in Raw, NEW D \in Deduplicated(Uniform(raw))
    PROVE  /\ IsFiniteSet(FilterAltitudes(D)) /\ FilterAltitudes(D) \subseteq Waypoint
           /\ Clean(FilterAltitudes(D))
<1>1. raw # {} /\ IsFiniteSet(raw) /\ raw \subseteq Waypoint
  BY RawFlight
<1>2. /\ IsFiniteSet(Uniform(raw)) /\ Uniform(raw) \subseteq Waypoint
      /\ \A w \in Uniform(raw) : w.attr = [k \in Attribute |-> Mode(raw, k)]
  BY <1>1, UniformWaypoints
<1>3. /\ D \subseteq Uniform(raw) /\ IsFiniteSet(D)
      /\ \A w \in Uniform(raw) : Cardinality({d \in D : d.t = w.t}) = 1
  <2>1. D \in SUBSET Uniform(raw)
    BY DEF Deduplicated
  <2>2. QED
    BY <1>2, <2>1, FS_Subset DEF Deduplicated
<1> DEFINE V == FilterAltitudes(D)
<1>4. V \subseteq D /\ \A w \in V : GroundLevel < w.alt /\ w.alt < Ceiling
  BY DEF FilterAltitudes
<1>5. IsFiniteSet(V)
  BY <1>3, <1>4, FS_Subset
<1> HIDE DEF V
<1>6. Distinct(V)
  <2> SUFFICES ASSUME NEW v \in V, NEW w \in V, v.t = w.t
               PROVE  v = w
    BY DEF Distinct
  <2> DEFINE S == {d \in D : d.t = w.t}
  <2>1. v \in S /\ w \in S
    BY <1>4
  <2>2. Cardinality(S) = 1 /\ IsFiniteSet(S)
    BY <1>3, <1>4, FS_Subset
  <2> HIDE DEF S
  <2>3. PICK x : S = {x}
    BY <2>2, FS_Singleton
  <2>4. QED
    BY <2>1, <2>3
<1>7. ASSUME NEW w \in V, NEW k \in Attribute, w.attr[k] = Null, NEW u \in raw
      PROVE  u.attr[k] = Null
  <2>1. Mode(raw, k) = Null
    BY <1>2, <1>3, <1>4, <1>7
  <2>2. {x.attr[k] : x \in raw} \ {Null} = {}
    BY <1>1, <2>1, ModeIsMostTold
  <2>3. QED
    BY <2>2
<1>8. \A v, w \in V : v.attr = w.attr
  BY <1>2, <1>3, <1>4
<1>9. Clean(V)
  BY <1>4, <1>6, <1>7, <1>8 DEF Clean
<1>10. V \subseteq Waypoint
  BY <1>2, <1>3, <1>4
<1>11. QED
  BY <1>5, <1>9, <1>10 DEF V

(* Where the speed filter finds nothing to drop, no speed is implausible. *)
LEMMA SettledIsPlausible ==
    ASSUME NEW W, IsFiniteSet(W), W \subseteq Waypoint,
           Cardinality(W) < 2 \/ FilterSpeeds(W) = W,
           NEW v \in W, NEW w \in W, Adjacent(W, v, w)
    PROVE  Plausible(v, w)
<1>1. CASE FilterSpeeds(W) = W
  <2>1. w \in FilterSpeeds(W)
    BY <1>1
  <2>2. QED
    BY <2>1 DEF FilterSpeeds
<1>2. CASE Cardinality(W) < 2
  <2>1. v.t \in Int /\ w.t \in Int
    BY WaypointType
  <2>2. v # w
    BY <2>1 DEF Adjacent
  <2>3. Cardinality(W) >= 2 /\ Cardinality(W) \in Nat
    BY <2>2, TwoMembers, FS_CardinalityType
  <2>4. QED
    BY <1>2, <2>3
<1>3. QED
  BY <1>1, <1>2

LEMMA StageInit == Init => StageInv
<1> SUFFICES ASSUME Init PROVE StageInv
  OBVIOUS
<1>1. /\ raw \in Raw /\ pc = "set" /\ traj = raw /\ passes = MaxPasses
      /\ ends = {} /\ minutes = {} /\ imputed = {}
  BY DEF Init
<1>2. IsFiniteSet(traj) /\ traj \subseteq Waypoint
  BY <1>1, RawFlight
<1>3. passes \in 0 .. MaxPasses
  BY <1>1, QualityAssumption
<1>4. TypeOK
  BY <1>1, <1>2, <1>3 DEF TypeOK, Stages
<1>5. QED
  BY <1>1, <1>2, <1>4 DEF StageInv, Healed

LEMMA UnifyInv ==
    ASSUME StageInv, Unify
    PROVE  StageInv'
<1>1. /\ pc = "set" /\ pc' = "uniform" /\ traj = raw /\ traj' = Uniform(raw)
      /\ raw' = raw /\ passes' = passes /\ ends' = ends /\ minutes' = minutes
      /\ imputed' = imputed
  BY DEF Unify, StageInv
<1>2. IsFiniteSet(traj') /\ traj' \subseteq Waypoint
  <2>1. IsFiniteSet(raw) /\ raw \subseteq Waypoint
    BY RawFlight DEF StageInv, TypeOK
  <2>2. QED
    BY <1>1, <2>1, UniformWaypoints
<1>3. TypeOK'
  BY <1>1, <1>2 DEF StageInv, TypeOK, Stages
<1>4. QED
  BY <1>1, <1>2, <1>3 DEF StageInv, Healed, Unmarked

LEMMA OrderInv ==
    ASSUME StageInv, Order
    PROVE  StageInv'
<1>1. /\ pc = "uniform" /\ pc' = "speed" /\ traj = Uniform(raw)
      /\ raw' = raw /\ passes' = passes /\ ends' = ends /\ minutes' = minutes
      /\ imputed' = imputed
  BY DEF Order, StageInv
<1>2. PICK D \in Deduplicated(Uniform(raw)) : traj' = FilterAltitudes(D)
  BY <1>1 DEF Order
<1>3. IsFiniteSet(traj') /\ traj' \subseteq Waypoint /\ Clean(traj')
  BY <1>2, OrderedIsClean DEF StageInv, TypeOK
<1>4. Clean(traj)'
  BY <1>1, <1>3 DEF Clean, Distinct
<1>5. TypeOK'
  BY <1>1, <1>3 DEF StageInv, TypeOK, Stages
<1>6. QED
  BY <1>1, <1>3, <1>4, <1>5 DEF StageInv, Healed, Unmarked

LEMMA SpeedPassInv ==
    ASSUME StageInv, SpeedPass
    PROVE  StageInv'
<1>1. /\ pc = "speed" /\ pc' = "speed" /\ passes > 0 /\ passes' = passes - 1
      /\ raw' = raw /\ ends' = ends /\ minutes' = minutes /\ imputed' = imputed
      /\ traj' \subseteq traj
  BY DEF SpeedPass, FilterSpeeds
<1>2. IsFiniteSet(traj') /\ traj' \subseteq Waypoint
  BY <1>1, FS_Subset DEF StageInv, TypeOK
<1>3. Clean(traj')
  BY <1>1, LessIsClean DEF StageInv
<1>4. Clean(traj)'
  BY <1>1, <1>3 DEF Clean, Distinct
<1>5. passes' \in 0 .. MaxPasses
  BY <1>1, QualityAssumption DEF StageInv, TypeOK
<1>6. TypeOK'
  BY <1>1, <1>2, <1>5 DEF StageInv, TypeOK, Stages
<1>7. QED
  BY <1>1, <1>2, <1>4, <1>6 DEF StageInv, Healed, Unmarked

LEMMA SpeedsSettleInv ==
    ASSUME StageInv, SpeedsSettle
    PROVE  StageInv'
<1>1. /\ pc = "speed" /\ pc' = IF traj = {} THEN "skipped" ELSE "healed"
      /\ passes = 0 \/ Cardinality(traj) < 2 \/ FilterSpeeds(traj) = traj
      /\ raw' = raw /\ traj' = traj /\ passes' = passes /\ ends' = Airports(traj)
      /\ minutes' = minutes /\ imputed' = imputed
  BY DEF SpeedsSettle
<1>2. IsFiniteSet(traj) /\ traj \subseteq Waypoint /\ Clean(traj)
  BY <1>1 DEF StageInv, TypeOK
<1>3. Airports(traj) \subseteq Waypoint
  <2>1. CASE traj = {}
    <3>1. Cardinality(traj) < 2
      BY <2>1, FS_EmptySet
    <3>2. QED
      BY <3>1 DEF Airports
  <2>2. CASE traj # {}
    BY <1>2, <2>2, EndsAreOutside DEF Clean
  <2>3. QED
    BY <2>1, <2>2
<1>4. TypeOK'
  BY <1>1, <1>2, <1>3 DEF StageInv, TypeOK, Stages
<1>5. Clean(traj)'
  BY <1>1, <1>2 DEF Clean, Distinct
<1>6. ASSUME traj # {}
      PROVE  Settled'
  <2>1. passes = 0 \/ \A v, w \in traj : Adjacent(traj, v, w) => Plausible(v, w)
    BY <1>1, <1>2, SettledIsPlausible
  <2>2. QED
    BY <1>1, <1>6, <2>1 DEF Settled
<1>7. QED
  BY <1>1, <1>2, <1>4, <1>5, <1>6 DEF StageInv, Healed, Unmarked

(* The later stages leave the healed trajectory alone. *)
LEMMA HealedStays ==
    ASSUME StageInv, UNCHANGED <<raw, traj, passes, ends>>, Healed
    PROVE  Clean(traj)' /\ Settled'
<1>1. raw' = raw /\ traj' = traj /\ passes' = passes /\ ends' = ends
  OBVIOUS
<1>2. Clean(traj) /\ Settled
  BY DEF StageInv
<1>3. Clean(traj)'
  BY <1>1, <1>2 DEF Clean, Distinct
<1>4. Settled'
  BY <1>1, <1>2 DEF Settled
<1>5. QED
  BY <1>3, <1>4

LEMMA ResampleInv ==
    ASSUME StageInv, Resample
    PROVE  StageInv'
<1>1. /\ pc = "healed" /\ minutes' = WholeMinutes(traj \cup ends)
      /\ pc' = IF minutes' = {} THEN "skipped" ELSE "resampled"
      /\ raw' = raw /\ traj' = traj /\ passes' = passes /\ ends' = ends /\ imputed' = imputed
  BY DEF Resample
<1>2. imputed = {} /\ minutes' \subseteq Int
  BY <1>1 DEF StageInv, Unmarked, WholeMinutes
<1>3. TypeOK'
  BY <1>1, <1>2 DEF StageInv, TypeOK, Stages
<1>4. Clean(traj)' /\ Settled'
  BY <1>1, HealedStays DEF Healed
<1>5. minutes' = WholeMinutes(traj' \cup ends')
  BY <1>1
<1>6. QED
  BY <1>1, <1>2, <1>3, <1>4, <1>5 DEF StageInv

LEMMA MarkInv ==
    ASSUME StageInv, Mark
    PROVE  StageInv'
<1>1. /\ pc = "resampled" /\ pc' = "marked" /\ imputed' = Imputed(traj \cup ends, minutes)
      /\ raw' = raw /\ traj' = traj /\ passes' = passes /\ ends' = ends /\ minutes' = minutes
  BY DEF Mark
<1>2. imputed' \subseteq minutes'
  BY <1>1 DEF Imputed
<1>3. TypeOK'
  BY <1>1, <1>2 DEF StageInv, TypeOK, Stages
<1>4. Clean(traj)' /\ Settled'
  BY <1>1, HealedStays DEF Healed
<1>5. /\ minutes' = WholeMinutes(traj' \cup ends')
      /\ imputed' = Imputed(traj' \cup ends', minutes')
  BY <1>1 DEF StageInv
<1>6. QED
  BY <1>1, <1>3, <1>4, <1>5 DEF StageInv, Unmarked

(* A stage that only moves the flight on, or off, keeps what there is. *)
LEMMA MovedOn ==
    ASSUME StageInv, UNCHANGED <<raw, traj, passes, ends, minutes, imputed>>,
           \/ pc = "marked" /\ pc' = "built"
           \/ pc' = "skipped"
    PROVE  StageInv'
<1>1. /\ raw' = raw /\ traj' = traj /\ passes' = passes /\ ends' = ends
      /\ minutes' = minutes /\ imputed' = imputed
  OBVIOUS
<1>2. TypeOK' /\ IsFiniteSet(traj')
  BY <1>1 DEF StageInv, TypeOK, Stages
<1>3. CASE pc' = "skipped"
  BY <1>2, <1>3 DEF StageInv, Healed, Unmarked
<1>4. CASE pc = "marked" /\ pc' = "built"
  <2>1. Clean(traj)' /\ Settled'
    BY <1>4, HealedStays DEF Healed
  <2>2. /\ minutes' = WholeMinutes(traj' \cup ends')
        /\ imputed' = Imputed(traj' \cup ends', minutes')
    BY <1>1, <1>4 DEF StageInv
  <2>3. QED
    BY <1>2, <1>4, <2>1, <2>2 DEF StageInv, Unmarked
<1>5. QED
  BY <1>3, <1>4

LEMMA StageStep == StageInv /\ [Next]_vars => StageInv'
<1> SUFFICES ASSUME StageInv, [Next]_vars PROVE StageInv'
  OBVIOUS
<1>1. CASE Validate
  <2>1. PICK found \in SUBSET Violation :
          pc' = IF found \subseteq Permitted THEN "built" ELSE "skipped"
    BY <1>1 DEF Validate
  <2>2. QED
    BY <1>1, <2>1, MovedOn DEF Validate
<1>2. CASE StepRaises
  BY <1>2, MovedOn DEF StepRaises
<1>3. CASE UNCHANGED vars
  <2>1. /\ raw' = raw /\ pc' = pc /\ traj' = traj /\ passes' = passes /\ ends' = ends
        /\ minutes' = minutes /\ imputed' = imputed
    BY <1>3 DEF vars
  <2>2. Clean(traj)' <=> Clean(traj)
    BY <2>1 DEF Clean, Distinct
  <2>3. QED
    BY <2>1, <2>2 DEF StageInv, TypeOK, Healed, Settled, Unmarked
<1>4. QED
  BY <1>1, <1>2, <1>3, UnifyInv, OrderInv, SpeedPassInv, SpeedsSettleInv, ResampleInv, MarkInv
     DEF Next

(* The inductive invariant of a flight's stages: what each of healing,        *)
(* resampling and marking leaves to the next, whatever the flight             *)
(* (handlers.py:1145-1268; services.py:542-741).                              *)
THEOREM Invariance == Spec => []StageInv
  BY StageInit, StageStep, PTL DEF Spec

(* A flight's waypoints and minutes keep their types, and only minutes of it  *)
(* are marked. *)
THEOREM TypeCorrect == Spec => []TypeOK
<1>1. StageInv => TypeOK
  BY DEF StageInv
<1>2. QED
  BY <1>1, Invariance, PTL

(* A healed flight has one waypoint per time, one value per attribute, told   *)
(* where any waypoint tells it, and no implausible speed, unless the passes   *)
(* are used up (handlers.py:1167-1238).                                       *)
THEOREM HealingCleans == Spec => []HealedIsClean
<1>1. StageInv => HealedIsClean
  BY DEF StageInv, Clean, Distinct, Settled, HealedIsClean
<1>2. QED
  BY <1>1, Invariance, PTL

(* As long as each attribute has a value that few enough waypoints contradict, *)
(* some waypoint agrees with every mode (handlers.py:1156-1182).              *)
THEOREM FewOutliersAreSpared == Spec => []OutliersCostNoFlight
<1>1. StageInv => OutliersCostNoFlight
  <2> SUFFICES ASSUME StageInv, pc = "uniform",
                      \A k \in Attribute : \E v \in Value :
                         Cardinality(Attribute) * Cardinality({w \in raw : w.attr[k] \notin {v, Null}})
                             < Cardinality(raw)
               PROVE  traj # {}
    BY DEF OutliersCostNoFlight
  <2>1. raw # {} /\ IsFiniteSet(raw) /\ raw \subseteq Waypoint /\ traj = Uniform(raw)
    BY RawFlight DEF StageInv, TypeOK
  <2>2. \A k \in Attribute : \E v \in Value :
           Cardinality(Attribute) * Cardinality(Others(raw, k, v)) < Cardinality(raw)
    BY DEF Others
  <2>3. QED
    BY <2>1, <2>2, SomeAgree
<1>2. QED
  BY <1>1, Invariance, PTL

(* A flight that gets a waypoint of an airport spans the trip but for two     *)
(* shares of it (handlers.py:1065-1072).                                      *)
THEOREM AirportsBelongToTheTrip == Spec => []AirportsOnlyForWholeTrips
<1>1. StageInv => AirportsOnlyForWholeTrips
  <2> SUFFICES ASSUME StageInv, Healed, ends # {}
               PROVE  MaxShare * Abs(Last(traj).x - First(traj).x)
                        >= (MaxShare - 2) * Abs(Destination - Origin)
    BY DEF AirportsOnlyForWholeTrips
  <2>1. /\ IsFiniteSet(traj) /\ traj # {} /\ traj \subseteq Waypoint
        /\ Airports(traj) # {}
    BY DEF StageInv, Settled, TypeOK
  <2>2. QED
    BY <2>1, SpansTheTrip
<1>2. QED
  BY <1>1, Invariance, PTL

(* Unless two gaps share a waypoint, the minutes marked as imputed are those   *)
(* in gaps, and all others have data near (services.py:613-651).              *)
THEOREM ObservedMinutesHaveData == Spec => []ObservedIsNearData
<1>1. StageInv => ObservedIsNearData
  <2> DEFINE T == traj \cup ends
  <2> SUFFICES ASSUME StageInv, pc \in {"marked", "built"}, ~AdjacentGaps(T), NEW m \in minutes
               PROVE  \/ m \in imputed /\ InGap(T, m)
                      \/ m \notin imputed /\ \E w \in traj : Abs(w.t - m) <= Cutoff
                      \/ m \notin imputed /\ \E e \in ends : e.t = m
    BY DEF ObservedIsNearData
  <2>1. /\ IsFiniteSet(traj) /\ traj # {} /\ traj \subseteq Waypoint /\ Distinct(traj)
        /\ ends = Airports(traj)
    BY DEF StageInv, Healed, Settled, TypeOK, Clean
  <2>2. /\ IsFiniteSet(T) /\ T # {} /\ T \subseteq Waypoint /\ Distinct(T)
        /\ HasObservedEnds(T, traj)
    BY <2>1, WithEnds
  <2>3. m \in WholeMinutes(T) /\ m \in Int /\ imputed = Imputed(T, minutes)
    BY DEF StageInv, TypeOK
  <2>4. traj \subseteq T /\ T \ traj \subseteq ends
    OBVIOUS
  <2> HIDE DEF T
  <2>5. m \in imputed <=> InGap(T, m)
    BY <2>2, <2>3, OddInGaps DEF Imputed
  <2>6. CASE InGap(T, m)
    BY <2>5, <2>6
  <2>7. CASE ~InGap(T, m)
    <3>1. \/ \E w \in traj : Abs(w.t - m) <= Cutoff
          \/ \E e \in T \ traj : e.t = m
      BY <2>2, <2>3, <2>4, <2>7, NearData
    <3>2. QED
      BY <2>4, <2>5, <2>7, <3>1
  <2>8. QED
    BY <2>6, <2>7
<1>2. QED
  BY <1>1, Invariance, PTL
===============================================================================
