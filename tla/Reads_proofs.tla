----------------------------- MODULE Reads_proofs -----------------------------
(***************************************************************************)
(* Proofs about the reads of the HTTP API, for every series of rows, window *)
(* and set of resolutions, and for every set of entities, filters and page  *)
(* limits: an accepted history request is never refused for its resolution, *)
(* an answer is the content of the database at one moment, a walk through   *)
(* the pages misses and repeats nothing, and every answer follows the       *)
(* caller's role at its last statement.                                     *)
(***************************************************************************)
EXTENDS Reads, FiniteSetTheorems, TLAPS

\* R orders S: total, antisymmetric and transitive.
Orders(R, S) ==
    /\ \A x, y \in S : <<x, y>> \in R \/ <<y, x>> \in R
    /\ \A x, y \in S : <<x, y>> \in R /\ <<y, x>> \in R => x = y
    /\ \A x, y, z \in S : <<x, y>> \in R /\ <<y, z>> \in R => <<x, z>> \in R

\* A sorted sequence has every element once, and in order.
LEMMA Sorted ==
    ASSUME NEW S, IsFiniteSet(S), NEW R, Orders(R, S)
    PROVE  /\ Cardinality(S) \in Nat
           /\ OrderBy(S, R) \in [1..Cardinality(S) -> S]
           /\ \A i, j \in 1..Cardinality(S) : i < j =>
                  /\ OrderBy(S, R)[i] # OrderBy(S, R)[j]
                  /\ <<OrderBy(S, R)[i], OrderBy(S, R)[j]>> \in R
           /\ \A x \in S : \E i \in 1..Cardinality(S) : OrderBy(S, R)[i] = x
  <1> DEFINE n == Cardinality(S)
             Below(x) == {y \in S : <<y, x>> \in R}
             rank == [x \in S |-> Cardinality(Below(x))]
             s == OrderBy(S, R)
  <1>1. n \in Nat /\ IsFiniteSet(1..n) /\ Cardinality(1..n) = n
    BY FS_CardinalityType, FS_Interval
  <1>2. ASSUME NEW x \in S
        PROVE  /\ IsFiniteSet(Below(x)) /\ Cardinality(Below(x)) \in 1..n
    <2>1. Below(x) \subseteq S /\ x \in Below(x)
      BY DEF Orders
    <2>2. /\ IsFiniteSet(Below(x)) /\ Cardinality(Below(x)) <= n
          /\ Cardinality(Below(x)) \in Nat
      BY <2>1, FS_Subset, FS_CardinalityType, Zenon
    <2>3. Cardinality(Below(x)) # 0
      BY <2>1, <2>2, FS_EmptySet
    <2> QED
      BY <2>2, <2>3, <1>1
  <1>3. ASSUME NEW x \in S, NEW y \in S, <<x, y>> \in R, x # y
        PROVE  Cardinality(Below(x)) < Cardinality(Below(y))
    <2>1. Below(x) \subseteq Below(y) /\ y \in Below(y) /\ y \notin Below(x)
      BY <1>3 DEF Orders
    <2>2. /\ Cardinality(Below(x)) <= Cardinality(Below(y))
          /\ Cardinality(Below(x)) = Cardinality(Below(y)) => Below(x) = Below(y)
      BY <2>1, <1>2, FS_Subset, Zenon
    <2>3. Cardinality(Below(x)) # Cardinality(Below(y))
      BY <2>1, <2>2
    <2> QED
      BY <2>2, <2>3, <1>2
  <1>4. ASSUME NEW x \in S, NEW y \in S, Cardinality(Below(x)) = Cardinality(Below(y))
        PROVE  x = y
    <2> HIDE DEF Below, n
    <2>1. CASE <<x, y>> \in R /\ x # y
      <3>1. Cardinality(Below(x)) < Cardinality(Below(y))
        BY <2>1, <1>3
      <3> QED
        BY <3>1, <1>4, <1>1, <1>2
    <2>2. CASE <<y, x>> \in R /\ x # y
      <3>1. Cardinality(Below(y)) < Cardinality(Below(x))
        BY <2>2, <1>3
      <3> QED
        BY <3>1, <1>4, <1>1, <1>2
    <2> QED
      BY <2>1, <2>2 DEF Orders
  <1>5. rank \in Surjection(S, 1..n)
    <2>1. rank \in [S -> 1..n]
      BY <1>2
    <2>2. \A x, y \in S : rank[x] = rank[y] => x = y
      <3> HIDE DEF Below
      <3> QED
        BY <1>4
    <2>3. rank \in Injection(S, 1..n)
      BY <2>1, <2>2, Zenon DEF Injection, IsInjective
    <2> QED
      BY <2>3, <1>1, FS_Injection
  <1>6. \A k \in 1..n : s[k] \in S /\ Cardinality(Below(s[k])) = k
    <2> TAKE k \in 1..n
    <2>1. \E x \in S : Cardinality({y \in S : <<y, x>> \in R}) = k
      BY <1>5, Zenon DEF Surjection
    <2>2. s[k] = CHOOSE x \in S : Cardinality({y \in S : <<y, x>> \in R}) = k
      BY Zenon DEF OrderBy
    <2> QED
      BY <2>1, <2>2, Zenon
  <1>7. s \in [1..n -> S]
    BY <1>6, Zenon DEF OrderBy
  <1> HIDE DEF Below, rank, s, n
  <1>8. ASSUME NEW i \in 1..n, NEW j \in 1..n, i < j
        PROVE  s[i] # s[j] /\ <<s[i], s[j]>> \in R
    <2>1. i \in Nat /\ j \in Nat /\ s[i] \in S /\ s[j] \in S
      BY <1>1, <1>6
    <2>2. s[i] # s[j]
      BY <2>1, <1>6, <1>8
    <2>3. ~(<<s[j], s[i]>> \in R)
      <3> SUFFICES ASSUME <<s[j], s[i]>> \in R PROVE FALSE
        OBVIOUS
      <3>1. Cardinality(Below(s[j])) < Cardinality(Below(s[i]))
        BY <2>1, <2>2, <1>3
      <3> QED
        BY <3>1, <2>1, <1>6, <1>8
    <2> QED
      BY <2>1, <2>2, <2>3 DEF Orders
  <1>9. ASSUME NEW x \in S
        PROVE  \E i \in 1..n : s[i] = x
    <2>1. PICK i \in 1..n : i = Cardinality(Below(x))
      BY <1>2
    <2>2. s[i] \in S /\ Cardinality(Below(s[i])) = Cardinality(Below(x))
      BY <2>1, <1>6
    <2>3. s[i] = x
      BY <2>2, <1>4
    <2> QED
      BY <2>3
  <1> QED
    BY <1>1, <1>7, <1>8, <1>9 DEF n, s
LEMMA Quotient ==
    ASSUME NEW a \in Int, NEW b \in Nat \ {0}
    PROVE  a \div b \in Int /\ b * (a \div b) <= a /\ a < b * (a \div b) + b
  BY Z3

LEMMA Product ==
    ASSUME NEW b \in Nat \ {0}, NEW x \in Int, NEW y \in Int, x < y
    PROVE  b * x + b <= b * y
  BY Z3

LEMMA QuotientIs ==
    ASSUME NEW a \in Int, NEW b \in Nat \ {0}, NEW d \in Int, b * d <= a, a < b * d + b
    PROVE  a \div b = d
  BY Quotient, Product

LEMMA FloorDiv ==
    ASSUME NEW a \in Int, NEW b \in Nat \ {0}
    PROVE  floorDiv(a, b) = a \div b
  BY Quotient, QuotientIs DEF floorDiv, GoDiv

\* The ascending order is one.
LEMMA AscendingOrders ==
    ASSUME NEW S \in SUBSET Int
    PROVE  Orders(Ascending(S), S)
  BY DEF Orders, Ascending

\* A finite set of integers in ascending order, with every element once.
LEMMA Sorted2 ==
    ASSUME NEW S \in SUBSET Int, IsFiniteSet(S)
    PROVE  LET s == OrderBy(S, Ascending(S)) IN
           /\ Cardinality(S) \in Nat
           /\ s \in [1..Cardinality(S) -> S]
           /\ \A i, j \in 1..Cardinality(S) : i < j => s[i] < s[j]
           /\ \A x \in S : \E i \in 1..Cardinality(S) : s[i] = x
  <1> DEFINE s == OrderBy(S, Ascending(S))
  <1>1. /\ Cardinality(S) \in Nat
        /\ s \in [1..Cardinality(S) -> S]
        /\ \A i, j \in 1..Cardinality(S) : i < j => s[i] # s[j] /\ <<s[i], s[j]>> \in Ascending(S)
        /\ \A x \in S : \E i \in 1..Cardinality(S) : s[i] = x
    <2> HIDE DEF s
    <2> QED
      BY Sorted, AscendingOrders DEF s
  <1> HIDE DEF s
  <1>2. ASSUME NEW i \in 1..Cardinality(S), NEW j \in 1..Cardinality(S), i < j
        PROVE  s[i] < s[j]
    <2>1. s[i] \in Int /\ s[j] \in Int
      BY <1>1, Zenon
    <2>2. s[i] # s[j] /\ <<s[i], s[j]>> \in Ascending(S)
      BY <1>1, <1>2
    <2>3. s[i] <= s[j]
      BY <2>2 DEF Ascending
    <2> QED
      BY <2>1, <2>2, <2>3
  <1> QED
    BY <1>1, <1>2 DEF s

\* What LIMIT leaves of a sequence given as a function.
LEMMA LimitKeeps ==
    ASSUME NEW S, NEW m \in Nat, NEW s \in [1..m -> S], NEW n \in Nat
    PROVE  /\ s \in Seq(S) /\ Len(s) = m
           /\ Limit(s, n) \in Seq(S)
           /\ Len(Limit(s, n)) = IF m < n THEN m ELSE n
           /\ \A i \in 1..Len(Limit(s, n)) : Limit(s, n)[i] = s[i]
           /\ m <= n => Limit(s, n) = s
  <1>1. s \in Seq(S) /\ Len(s) = m
    OBVIOUS
  <1> QED
    BY <1>1 DEF Limit

LEMMA LimitAll ==
    ASSUME NEW S, NEW m \in Nat, NEW s \in [1..m -> S], NEW n \in Nat, m <= n
    PROVE  Limit(s, n) = s /\ Len(s) = m
  BY LimitKeeps

LEMMA LimitCuts ==
    ASSUME NEW S, NEW m \in Nat, NEW s \in [1..m -> S], NEW n \in Nat, n <= m
    PROVE  /\ Limit(s, n) \in Seq(S) /\ Len(Limit(s, n)) = n
           /\ \A i \in 1..n : Limit(s, n)[i] = s[i]
  <1>1. s \in Seq(S) /\ Len(s) = m
    OBVIOUS
  <1>2. Limit(s, n) = SubSeq(s, 1, n)
    BY <1>1 DEF Limit
  <1> QED
    BY <1>1, <1>2

\* A non-empty finite set of integers has a smallest element.
LEMMA MinExists ==
    ASSUME NEW S \in SUBSET Int, IsFiniteSet(S), S # {}
    PROVE  Min(S) \in S
  <1> DEFINE s == OrderBy(S, Ascending(S))
             n == Cardinality(S)
  <1>1. /\ n \in Nat /\ s \in [1..n -> S]
        /\ \A i, j \in 1..n : i < j => s[i] < s[j]
        /\ \A x \in S : \E i \in 1..n : s[i] = x
    BY Sorted2
  <1> HIDE DEF s, n
  <1>2. 1 \in 1..n
    <2>1. PICK x \in S : TRUE
      BY Zenon
    <2>2. PICK i \in 1..n : s[i] = x
      BY <1>1, <2>1
    <2> QED
      BY <1>1, <2>2
  <1>3. ASSUME NEW x \in S
        PROVE  s[1] <= x
    <2>1. PICK i \in 1..n : s[i] = x
      BY <1>1
    <2>2. CASE i = 1
      BY <2>1, <2>2
    <2>3. CASE i # 1
      <3>1. s[1] < s[i]
        BY <1>1, <1>2, <2>3
      <3>2. s[1] \in Int /\ x \in Int
        BY <1>1, <1>2, Zenon
      <3> QED
        BY <2>1, <3>1, <3>2
    <2> QED
      BY <2>2, <2>3
  <1> QED
    BY <1>1, <1>2, <1>3, Zenon DEF Min

-----------------------------------------------------------------------------
(***************************************************************************)
(* The history.                                                            *)
(***************************************************************************)
\* What RefusedHistory lets pass.
Valid(q) ==
    /\ q.from < q.to /\ q.to - q.from <= MaxRange
    /\ q.max \in MinPoints..MaxPoints
    /\ q.res # "unsupported"
    /\ q.res = "raw" => ShortWindow(q)
    /\ ~TooFine(q, q.res)

LEMMA RequestFields ==
    ASSUME NEW q \in HistoryRequests
    PROVE  /\ q.from \in Int /\ q.to \in Int /\ q.max \in Int
           /\ q.route \in Routes /\ q.entity \in {"Gateway", "Sensor"}
           /\ q.res \in Resolutions \cup {"raw", "auto", "unsupported"}
           /\ q.route = "telemetry" => q.property = "value"
  BY HistoryAssumption

\* The resolutions are not the words that stand beside them.
LEMMA ResolutionNames ==
    /\ AllowedBucketResolutions \in Seq(STRING)
    /\ Resolutions = {AllowedBucketResolutions[k] : k \in 1..Len(AllowedBucketResolutions)}
    /\ Resolutions \cap {"raw", "auto", "unsupported", "none"} = {}
    /\ \A r \in Resolutions : Duration[r] \in Nat \ {0}
  <1>1. AllowedBucketResolutions \in Seq(STRING \ {"raw", "auto", "unsupported", "none"})
    BY HistoryAssumption
  <1>2. /\ AllowedBucketResolutions \in Seq(STRING)
        /\ DOMAIN AllowedBucketResolutions = 1..Len(AllowedBucketResolutions)
        /\ \A k \in 1..Len(AllowedBucketResolutions) :
              AllowedBucketResolutions[k] \notin {"raw", "auto", "unsupported", "none"}
    BY <1>1
  <1>3. Resolutions = {AllowedBucketResolutions[k] : k \in 1..Len(AllowedBucketResolutions)}
    BY <1>2 DEF Resolutions, Range
  <1> QED
    BY <1>2, <1>3, HistoryAssumption

LEMMA Passed ==
    ASSUME NEW q \in HistoryRequests, RefusedHistory(q) = "ok"
    PROVE  Valid(q)
  <1>1. ValidateHistoryTimeRange(q) = "ok" /\ q.max \in MinPoints..MaxPoints
    BY RequestFields DEF RefusedHistory, getTelemetryHistory, getDigitalTwinHistory,
       getDigitalTwinTemporal, PrepareTelemetryHistory, PrepareHistory, Routes
  <1> QED
    BY <1>1, RequestFields, HistoryAssumption
    DEF ValidateHistoryTimeRange, Valid, ShortWindow, ValidateHistoryPreparationConfig

\* What is validated again behind a valid request is accepted again.
LEMMA Rechecked ==
    ASSUME NEW q \in HistoryRequests, Valid(q), NEW res \in Resolutions \cup {"raw"},
           res = "raw" => ShortWindow(q), ~TooFine(q, res)
    PROVE  Revalidated(q, res) = "ok"
  <1> DEFINE e == [q EXCEPT !.res = res]
  <1>1. e.res = res /\ e.from = q.from /\ e.to = q.to /\ e.max = q.max
    BY HistoryAssumption
  <1> HIDE DEF e
  <1>2. res # "unsupported"
    BY ResolutionNames
  <1>3. ValidateHistoryTimeRange(q) = "ok" /\ PrepareTelemetryHistory(q) = "ok"
    BY RequestFields, HistoryAssumption
    DEF ValidateHistoryTimeRange, Valid, ShortWindow, PrepareTelemetryHistory
  <1>4. PrepareTelemetryHistory(e) = "ok"
    BY <1>1, <1>2, RequestFields, HistoryAssumption
    DEF ValidateHistoryTimeRange, Valid, ShortWindow, PrepareTelemetryHistory, TooFine
  <1> QED
    BY <1>3, <1>4 DEF e, Revalidated, ReadTelemetryHistory, GetTwinHistory,
       ExecuteEffectiveHistoryQuery, ReadTemporalHistory

\* IntersectingBucketCount in terms of the division that rounds down.
LEMMA CountIs ==
    ASSUME NEW from \in Int, NEW to \in Int, NEW w \in Nat \ {0}
    PROVE  /\ IntersectingBucketCount(from, to, w) = ((to - 1) \div w) - (from \div w) + 1
           /\ IntersectingBucketCount(from, to, w) \in Int
           /\ from \div w \in Int /\ w * (from \div w) <= from /\ from < w * (from \div w) + w
           /\ (to - 1) \div w \in Int /\ w * ((to - 1) \div w) <= to - 1
           /\ to - 1 < w * ((to - 1) \div w) + w
  <1>1. /\ floorDiv(from, w) = from \div w
        /\ from \div w \in Int /\ w * (from \div w) <= from /\ from < w * (from \div w) + w
    BY FloorDiv, Quotient
  <1> DEFINE l == to - 1
  <1>2. l \in Int
    OBVIOUS
  <1> HIDE DEF l
  <1>3. /\ floorDiv(l, w) = l \div w
        /\ l \div w \in Int /\ w * (l \div w) <= l /\ l < w * (l \div w) + w
    BY <1>2, FloorDiv, Quotient
  <1>4. IntersectingBucketCount(from, to, w) = (l \div w) - (from \div w) + 1
    BY <1>1, <1>3 DEF IntersectingBucketCount, l
  <1>5. (l \div w) - (from \div w) + 1 \in Int
    BY <1>1, <1>3
  <1> QED
    BY <1>1, <1>3, <1>4, <1>5 DEF l

\* A window no longer than k buckets meets at most k + 1 of them.
LEMMA FewBuckets ==
    ASSUME NEW from \in Int, NEW to \in Int, NEW w \in Nat \ {0}, NEW k \in Int,
           to - from <= w * k
    PROVE  IntersectingBucketCount(from, to, w) <= k + 1
  <1> DEFINE a == from \div w
             b == (to - 1) \div w
  <1>1. /\ a \in Int /\ w * a <= from /\ from < w * a + w
        /\ b \in Int /\ w * b <= to - 1
    BY CountIs
  <1>2. IntersectingBucketCount(from, to, w) = b - a + 1
    BY CountIs, Zenon
  <1> HIDE DEF a, b
  <1>3. b <= a + k
    <2> SUFFICES ASSUME a + k < b PROVE FALSE
      BY <1>1
    <2>1. w * (a + k) + w <= w * b
      BY <1>1, Product
    <2>2. w * (a + k) = w * a + w * k /\ w * a \in Int /\ w * k \in Int /\ w * b \in Int
      BY <1>1, Z3
    <2> QED
      BY <1>1, <2>1, <2>2
  <1> QED
    BY <1>1, <1>2, <1>3 DEF a, b

\* An automatic request always has a resolution, because of the hard caps.
LEMMA AutoFits ==
    ASSUME NEW q \in HistoryRequests, Valid(q)
    PROVE  /\ SelectAutoBucketResolution(q) \in Resolutions
           /\ ~TooFine(q, SelectAutoBucketResolution(q))
  <1>1. PICK r \in Resolutions : MaxRange <= Duration[r] * (MinPoints - 1)
    BY HistoryAssumption DEF ValidateHistoryPreparationConfig
  <1>2. PICK k \in 1..Len(AllowedBucketResolutions) : AllowedBucketResolutions[k] = r
    BY ResolutionNames
  <1>3. IntersectingBucketCount(q.from, q.to, Duration[r]) <= q.max
    <2>1. /\ q.from \in Int /\ q.to \in Int /\ q.max \in Int /\ MinPoints \in Nat
          /\ MaxRange \in Nat /\ Duration[r] \in Nat \ {0}
          /\ MinPoints <= q.max /\ q.to - q.from <= MaxRange
      BY RequestFields, HistoryAssumption DEF Valid
    <2> DEFINE k1 == MinPoints - 1
    <2>2. k1 \in Int /\ k1 + 1 <= q.max /\ Duration[r] * k1 \in Int
      BY <2>1
    <2>3. q.to - q.from <= Duration[r] * k1
      BY <1>1, <2>1, <2>2
    <2> HIDE DEF k1
    <2>4. /\ IntersectingBucketCount(q.from, q.to, Duration[r]) \in Int
          /\ IntersectingBucketCount(q.from, q.to, Duration[r]) <= k1 + 1
      BY <2>1, <2>2, <2>3, FewBuckets, CountIs, Zenon
    <2> QED
      BY <2>1, <2>2, <2>4
  <1>4. Fitting(q) \subseteq 1..Len(AllowedBucketResolutions) /\ k \in Fitting(q)
    BY <1>2, <1>3, ResolutionNames DEF Fitting
  <1>5. Len(AllowedBucketResolutions) \in Nat
    BY ResolutionNames
  <1>6. IsFiniteSet(Fitting(q)) /\ Fitting(q) \subseteq Int
    <2>1. IsFiniteSet(1..Len(AllowedBucketResolutions))
      BY <1>5, FS_Interval
    <2> QED
      BY <2>1, <1>4, <1>5, FS_Subset
  <1>7. Min(Fitting(q)) \in Fitting(q)
    BY <1>4, <1>6, MinExists
  <1> DEFINE m == Min(Fitting(q))
  <1>8. m \in Fitting(q) /\ SelectAutoBucketResolution(q) = AllowedBucketResolutions[m]
    BY <1>4, <1>7 DEF SelectAutoBucketResolution
  <1> HIDE DEF m
  <1>9. AllowedBucketResolutions[m] \in Resolutions
    BY <1>4, <1>8, ResolutionNames
  <1>10. IntersectingBucketCount(q.from, q.to, Duration[AllowedBucketResolutions[m]]) <= q.max
    BY <1>8 DEF Fitting
  <1>11. IntersectingBucketCount(q.from, q.to, Duration[AllowedBucketResolutions[m]]) \in Int
    <2>1. Duration[AllowedBucketResolutions[m]] \in Nat \ {0}
      BY <1>9, ResolutionNames
    <2> QED
      BY <2>1, RequestFields, CountIs, Zenon
  <1> QED
    BY <1>8, <1>9, <1>10, <1>11, RequestFields DEF TooFine

\* The buckets that time_bucket makes of the rows of a window are among those that
\* IntersectingBucketCount counts.
LEMMA BucketsFit ==
    ASSUME NEW q \in HistoryRequests, Valid(q), NEW res \in Resolutions, ~TooFine(q, res),
           series \in Seq(Rows)
    PROVE  /\ IsFiniteSet(Starts(q, Duration[res]))
           /\ Starts(q, Duration[res]) \subseteq Int
           /\ Cardinality(Starts(q, Duration[res])) \in Nat
           /\ Cardinality(Starts(q, Duration[res])) <= q.max
  <1> DEFINE w == Duration[res]
             S == Starts(q, w)
             a == q.from \div w
             b == (q.to - 1) \div w
             f == [x \in S |-> x \div w]
  <1>1. /\ w \in Nat \ {0} /\ q.from \in Int /\ q.to \in Int /\ q.from < q.to /\ q.max \in Int
    BY ResolutionNames, RequestFields DEF Valid
  <1>2. a \in Int /\ b \in Int /\ w * a <= q.from /\ q.to - 1 < w * b + w
    BY <1>1, CountIs, Zenon
  <1>3. b - a + 1 <= q.max
    <2>1. IntersectingBucketCount(q.from, q.to, w) = b - a + 1
      BY <1>1, CountIs, Zenon
    <2>2. ~(IntersectingBucketCount(q.from, q.to, w) > q.max)
      BY DEF TooFine
    <2> HIDE DEF a, b, w
    <2> QED
      BY <1>1, <1>2, <2>1, <2>2
  <1>4. ASSUME NEW x \in S
        PROVE  x \in Int /\ x \div w \in a..b /\ x = w * (x \div w)
    <2>1. PICK i \in InWindow(q) : x = w * (series[i].at \div w)
      BY DEF Starts, BucketOf, time_bucket
    <2> DEFINE t == series[i].at
               d == t \div w
    <2>2. t \in Int /\ q.from <= t /\ t < q.to
      BY HistoryAssumption DEF InWindow
    <2>3. d \in Int /\ w * d <= t /\ t < w * d + w
      BY <1>1, <2>2, Quotient, Zenon
    <2>4. x = w * d
      BY <2>1
    <2> HIDE DEF w, S, a, b, t, d
    <2>5. w * d \in Int
      BY <1>1, <2>3, Z3
    <2>6. x \div w = d
      BY <1>1, <2>3, <2>4, <2>5, QuotientIs
    <2>7. a <= d
      <3> SUFFICES ASSUME d < a PROVE FALSE
        BY <1>2, <2>3
      <3>1. w * d + w <= w * a /\ w * a \in Int
        BY <1>1, <1>2, <2>3, Product
      <3> QED
        BY <1>1, <1>2, <2>2, <2>3, <2>5, <3>1
    <2>8. d <= b
      <3> SUFFICES ASSUME b < d PROVE FALSE
        BY <1>2, <2>3
      <3>1. w * b + w <= w * d /\ w * b \in Int
        BY <1>1, <1>2, <2>3, Product
      <3> QED
        BY <1>1, <1>2, <2>2, <2>3, <2>5, <3>1
    <2> QED
      BY <1>2, <2>3, <2>4, <2>5, <2>6, <2>7, <2>8
  <1> HIDE DEF w, S, a, b
  <1>5. f \in Injection(S, a..b)
    <2>1. f \in [S -> a..b]
      BY <1>4
    <2>2. \A x, y \in S : f[x] = f[y] => x = y
      BY <1>4
    <2> QED
      BY <2>1, <2>2 DEF Injection, IsInjective
  <1>6. /\ IsFiniteSet(a..b)
        /\ Cardinality(a..b) = IF a > b THEN 0 ELSE b - a + 1
    BY <1>2, FS_Interval
  <1>7. IsFiniteSet(S) /\ Cardinality(S) <= Cardinality(a..b)
    BY <1>5, <1>6, FS_Injection
  <1>8. Cardinality(S) \in Nat
    BY <1>7, FS_CardinalityType
  <1>9. 0 < q.max
    BY HistoryAssumption, <1>1 DEF Valid, ValidateHistoryPreparationConfig
  <1>10. Cardinality(S) <= q.max
    BY <1>1, <1>2, <1>3, <1>6, <1>7, <1>8, <1>9
  <1> QED
    BY <1>4, <1>7, <1>8, <1>10 DEF S, w

\* The request in progress is a record of these fields, within the rows there are;
\* until it is done it is one that passed validation.
HistoryFields(r) ==
    r = [phase |-> r.phase, q |-> r.q, outcome |-> r.outcome, mode |-> r.mode,
         points |-> r.points, unit |-> r.unit, since |-> r.since]
Reading(r) ==
    /\ HistoryFields(r)
    /\ r.phase \in {"resolve", "query", "fallback", "done"}
    /\ r.q \in HistoryRequests /\ r.since \in 0..Len(series)
    /\ r.phase # "done" => r.outcome = "ok" /\ Valid(r.q)
    /\ r.phase = "fallback" => r.q.res = "auto"
HistoryInv == series \in Seq(Rows) /\ (read = Idle \/ Reading(read))

LEMMA Replied ==
    ASSUME HistoryFields(read), NEW o, Reply(o)
    PROVE  /\ HistoryFields(read') /\ read'.phase = "done" /\ read'.outcome = o
           /\ read'.q = read.q /\ read'.since = read.since
  BY Zenon DEF HistoryFields, Reply

LEMMA Answered ==
    ASSUME HistoryFields(read), NEW m, NEW p, NEW u, Answer(m, p, u)
    PROVE  /\ HistoryFields(read') /\ read'.phase = "done" /\ read'.outcome = "ok"
           /\ read'.q = read.q /\ read'.since = read.since
           /\ read'.mode = m /\ read'.points = p /\ read'.unit = u
  BY Zenon DEF HistoryFields, Answer

LEMMA Statuses ==
    ASSUME NEW q
    PROVE  Classification(q).status \in {"ok", "internal_error", "inconsistent_unit"}
  BY DEF Classification, classifyTemporalWindow

\* What the two statements can end in.
RawPoints(q) == [k \in DOMAIN RawRows(q) |-> series[RawRows(q)[k]].at]
Failed == \E o \in {"service_unavailable", "internal_error", "inconsistent_unit"} : Reply(o)
Hidden == Gateway \notin members /\ Reply("not_found")
RawAnswer ==
    /\ Gateway \in members /\ Classification(read.q).status = "ok"
    /\ Len(RawRows(read.q)) <= read.q.max
    /\ Answer("raw", RawPoints(read.q), Classification(read.q).unit)
FallsBack ==
    /\ read.q.res = "auto"
    /\ \E u : read' = [read EXCEPT !.phase = "fallback", !.unit = u]
BucketAnswer(res) ==
    /\ Gateway \in members /\ Classification(read.q).status = "ok"
    /\ Len(BucketRows(read.q, Duration[res])) <= read.q.max
    /\ Answer(res, BucketRows(read.q, Duration[res]), Classification(read.q).unit)

LEMMA RawOutcome ==
    ASSUME HistoryInv, ReadRaw
    PROVE  /\ Reading(read) /\ read.phase = "query" /\ UNCHANGED <<members, expired, series>>
           /\ \/ Failed \/ Hidden \/ RawAnswer \/ FallsBack
              \/ read.q.res = "raw" /\ Reply("raw_limit_exceeded")
  <1> DEFINE q == read.q
  <1>1. /\ Reading(read) /\ read.phase = "query" /\ UNCHANGED <<members, expired, series>>
        /\ q.res = "raw" \/ (q.res = "auto" /\ ShortWindow(q))
    BY DEF HistoryInv, Idle, ReadRaw, ReadsRaw, accessVars
  <1>2. q \in HistoryRequests /\ Valid(q)
    BY <1>1 DEF Reading
  <1>3. Revalidated(q, "raw") = "ok"
    <2>1. ShortWindow(q)
      BY <1>1, <1>2 DEF Valid
    <2>2. ~TooFine(q, "raw")
      BY ResolutionNames DEF TooFine
    <2> QED
      BY <1>2, <2>1, <2>2, Rechecked
  <1>4. Classification(q).status \in {"ok", "internal_error", "inconsistent_unit"}
    BY Statuses
  <1> QED
    BY <1>1, <1>3, <1>4, Zenon DEF ReadRaw, Authorized, Failed, Hidden, RawAnswer, RawPoints, FallsBack

LEMMA BucketOutcome ==
    ASSUME HistoryInv, ReadBuckets
    PROVE  /\ Reading(read) /\ read.phase \in {"query", "fallback"}
           /\ UNCHANGED <<members, expired, series>>
           /\ Failed \/ Hidden \/ \E res \in Resolutions : ~TooFine(read.q, res) /\ BucketAnswer(res)
  <1> DEFINE q == read.q
             res == BucketResolution(q)
  <1>1. /\ Reading(read) /\ read.phase \in {"query", "fallback"}
        /\ UNCHANGED <<members, expired, series>>
        /\ q.res \in Resolutions \/ q.res = "auto"
    BY DEF HistoryInv, Idle, ReadBuckets, ReadsBuckets, accessVars, Reading
  <1>2. q \in HistoryRequests /\ Valid(q)
    BY <1>1 DEF Reading
  <1>3. res \in Resolutions /\ ~TooFine(q, res)
    <2>1. CASE q.res = "auto"
      BY <1>2, <2>1, AutoFits DEF BucketResolution
    <2>2. CASE q.res \in Resolutions
      BY <1>2, <2>2, ResolutionNames DEF BucketResolution, Valid
    <2> QED
      BY <1>1, <2>1, <2>2
  <1>4. res # "none" /\ res # "raw"
    BY <1>3, ResolutionNames
  <1>5. Revalidated(q, res) = "ok"
    BY <1>2, <1>3, <1>4, Rechecked
  <1>6. Classification(q).status \in {"ok", "internal_error", "inconsistent_unit"}
    BY Statuses
  <1>7. /\ Len(BucketRows(q, Duration[res])) <= q.max
        /\ ~(Len(BucketRows(q, Duration[res])) > q.max)
    <2> DEFINE S == Starts(q, Duration[res])
               n == Cardinality(S)
               sorted == OrderBy(S, Ascending(S))
               B == [k \in DOMAIN sorted |-> Bucket(q, Duration[res], sorted[k])]
               T == {Bucket(q, Duration[res], x) : x \in S}
               max1 == q.max + 1
    <2>1. IsFiniteSet(S) /\ S \subseteq Int /\ n \in Nat /\ n <= q.max
      BY <1>2, <1>3, BucketsFit DEF HistoryInv
    <2>2. sorted \in [1..n -> S]
      BY <2>1, Sorted2
    <2>3. BucketRows(q, Duration[res]) = Limit(B, max1)
      BY DEF BucketRows
    <2> HIDE DEF S, n, sorted
    <2>4. B \in [1..n -> T]
      BY <2>2
    <2>5. q.max \in Int /\ max1 \in Nat /\ n < max1
      BY <1>2, <2>1, RequestFields
    <2> HIDE DEF B, T, max1
    <2>6. Len(Limit(B, max1)) = n
      BY <2>1, <2>4, <2>5, LimitKeeps, Zenon
    <2> QED
      BY <2>1, <2>3, <2>5, <2>6
  <1> HIDE DEF res
  <1>8. IF expired THEN Reply("service_unavailable")
        ELSE IF Gateway \notin members THEN Reply("not_found")
        ELSE IF Classification(q).status # "ok" THEN Reply(Classification(q).status)
        ELSE Answer(res, BucketRows(q, Duration[res]), Classification(q).unit)
    BY <1>4, <1>5, <1>7 DEF ReadBuckets, res, BucketClassification, BucketAuthorized, Authorized
  <1> QED
    BY <1>1, <1>3, <1>6, <1>7, <1>8 DEF Failed, Hidden, BucketAnswer

\* The steps that a history read or its series takes part in.
LEMMA HistorySteps ==
    ASSUME ReadsNext
    PROVE  \/ UNCHANGED historyVars
           \/ \E q \in HistoryRequests : AskHistory(q)
           \/ ResolveHistory \/ ReadRaw \/ ReadBuckets \/ CloseHistory
           \/ \E w \in Rows : StoreRow(w)
  BY DEF ReadsNext, Ask, Answering, Elsewhere, RolesAndTime

LEMMA HistoryInitially == ReadsInit => HistoryInv
  BY DEF ReadsInit, HistoryInit, HistoryInv

\* The end of a read keeps what the invariant says of it.
LEMMA DoneReading ==
    ASSUME Reading(read), HistoryFields(read'), read'.phase = "done",
           read'.q = read.q, read'.since = read.since, series' = series
    PROVE  Reading(read)'
  BY DEF Reading, HistoryFields

LEMMA HistoryStep ==
    ASSUME HistoryInv, [ReadsNext]_readsVars
    PROVE  HistoryInv'
  <1>1. CASE UNCHANGED historyVars
    BY <1>1 DEF HistoryInv, historyVars, Reading, HistoryFields
  <1>2. ASSUME NEW q \in HistoryRequests, AskHistory(q)
        PROVE  HistoryInv'
    <2>1. /\ read' = [phase |-> IF RefusedHistory(q) = "ok" THEN "resolve" ELSE "done", q |-> q,
                      outcome |-> RefusedHistory(q), mode |-> "none", points |-> <<>>,
                      unit |-> Unknown, since |-> Len(series)]
          /\ series' = series
      BY <1>2 DEF AskHistory
    <2>2. RefusedHistory(q) = "ok" => Valid(q)
      BY Passed
    <2>3. Len(series) \in Nat
      BY DEF HistoryInv
    <2>4. /\ HistoryFields(read') /\ read'.phase \in {"resolve", "done"} /\ read'.q = q
          /\ read'.outcome = RefusedHistory(q) /\ read'.since = Len(series')
          /\ read'.phase = "resolve" => RefusedHistory(q) = "ok"
      BY <2>1 DEF HistoryFields
    <2>5. Reading(read)'
      BY <2>1, <2>2, <2>3, <2>4 DEF Reading, HistoryFields, Valid, TooFine, ShortWindow
    <2> QED
      BY <2>1, <2>5 DEF HistoryInv
  <1>3. CASE ResolveHistory
    <2>1. Reading(read) /\ read.phase = "resolve" /\ series' = series
      BY <1>3 DEF ResolveHistory, HistoryInv, Idle
    <2>2. CASE \E o : Reply(o)
      BY <2>1, <2>2, Replied, DoneReading DEF HistoryInv, Reading
    <2>3. CASE read' = [read EXCEPT !.phase = "query"]
      <3>1. /\ HistoryFields(read') /\ read'.phase = "query" /\ read'.q = read.q
            /\ read'.outcome = read.outcome /\ read'.since = read.since
        BY <2>1, <2>3 DEF Reading, HistoryFields
      <3> QED
        BY <2>1, <3>1 DEF HistoryInv, Reading, HistoryFields, Valid, TooFine, ShortWindow
    <2> QED
      BY <1>3, <2>2, <2>3 DEF ResolveHistory
  <1>4. CASE ReadRaw
    <2>1. Reading(read) /\ read.phase = "query" /\ series' = series
      BY <1>4, RawOutcome
    <2>2. CASE FallsBack
      <3>1. PICK u : read' = [read EXCEPT !.phase = "fallback", !.unit = u]
        BY <2>2, Zenon DEF FallsBack
      <3>2. /\ HistoryFields(read') /\ read'.phase = "fallback" /\ read'.q = read.q
            /\ read'.outcome = read.outcome /\ read'.since = read.since
        BY <2>1, <3>1, Zenon DEF Reading, HistoryFields
      <3> QED
        BY <2>1, <2>2, <3>2 DEF FallsBack, HistoryInv, Reading, HistoryFields, Valid, TooFine, ShortWindow
    <2>3. CASE \E o : Reply(o)
      BY <2>1, <2>3, Replied, DoneReading DEF HistoryInv, Reading
    <2>4. CASE RawAnswer
      BY <2>1, <2>4, Answered, DoneReading DEF HistoryInv, Reading, RawAnswer
    <2> QED
      BY <1>4, <2>2, <2>3, <2>4, RawOutcome DEF Failed, Hidden
  <1>5. CASE ReadBuckets
    <2>1. Reading(read) /\ series' = series
      BY <1>5, BucketOutcome
    <2>2. CASE \E o : Reply(o)
      BY <2>1, <2>2, Replied, DoneReading DEF HistoryInv, Reading
    <2>3. CASE \E res \in Resolutions : BucketAnswer(res)
      BY <2>1, <2>3, Answered, DoneReading DEF HistoryInv, Reading, BucketAnswer
    <2> QED
      BY <1>5, <2>2, <2>3, BucketOutcome DEF Failed, Hidden
  <1>6. CASE CloseHistory
    BY <1>6 DEF CloseHistory, HistoryInv
  <1>7. ASSUME NEW w \in Rows, StoreRow(w)
        PROVE  HistoryInv'
    <2>1. series' \in Seq(Rows) /\ Len(series') = Len(series) + 1 /\ Len(series) \in Nat /\ read' = read
      BY <1>7 DEF StoreRow, HistoryInv
    <2> QED
      BY <2>1 DEF HistoryInv, Reading, HistoryFields
  <1>8. CASE UNCHANGED readsVars
    BY <1>1, <1>8 DEF readsVars
  <1> QED
    BY <1>1, <1>2, <1>3, <1>4, <1>5, <1>6, <1>7, <1>8, HistorySteps

\* A request that passed validation is never refused later for its resolution or
\* its window, whatever the range, the widths and the rows.
THEOREM NoLateRefusal == ReadsSpec => RefusedOnlyUpFront
  <1>1. ASSUME HistoryInv, [ReadsNext]_readsVars
        PROVE  [read.phase \in {"query", "fallback"} =>
                  /\ read'.outcome \notin {"resolution_too_fine", "invalid_request"}
                  /\ read'.outcome = "raw_limit_exceeded" => read.q.res = "raw"]_historyVars
    <2> SUFFICES ASSUME ~UNCHANGED historyVars, read.phase \in {"query", "fallback"}
                 PROVE  /\ read'.outcome \notin {"resolution_too_fine", "invalid_request"}
                        /\ read'.outcome = "raw_limit_exceeded" => read.q.res = "raw"
      OBVIOUS
    <2>1. Reading(read) /\ HistoryFields(read)
      BY <1>1 DEF HistoryInv, Reading, Idle
    <2>2. CASE ReadRaw
      <3>1. CASE FallsBack
        <4>1. read'.outcome = "ok"
          BY <2>1, <3>1 DEF FallsBack, Reading, HistoryFields
        <4> QED
          BY <4>1
      <3>2. CASE RawAnswer
        BY <2>1, <3>2, Answered DEF RawAnswer
      <3>3. CASE Failed \/ Hidden
        BY <2>1, <3>3, Replied DEF Failed, Hidden
      <3>4. CASE read.q.res = "raw" /\ Reply("raw_limit_exceeded")
        BY <2>1, <3>4, Replied
      <3> QED
        BY <1>1, <2>2, <3>1, <3>2, <3>3, <3>4, RawOutcome
    <2>3. CASE ReadBuckets
      <3>1. CASE Failed \/ Hidden
        BY <2>1, <3>1, Replied DEF Failed, Hidden
      <3>2. CASE \E res \in Resolutions : BucketAnswer(res)
        BY <2>1, <3>2, Answered DEF BucketAnswer
      <3> QED
        BY <1>1, <2>3, <3>1, <3>2, BucketOutcome
    <2>4. ASSUME NEW w \in Rows, StoreRow(w)
          PROVE  read' = read
      BY <2>4 DEF StoreRow
    <2>5. ReadsNext
      BY <1>1 DEF readsVars
    <2>6. /\ ~ResolveHistory /\ ~CloseHistory
          /\ \A q \in HistoryRequests : ~AskHistory(q)
      BY DEF AskHistory, Idle, ResolveHistory, CloseHistory
    <2>7. CASE read' = read
      BY <2>1, <2>7 DEF Reading
    <2> QED
      BY <2>2, <2>3, <2>4, <2>5, <2>6, <2>7, HistorySteps
  <1> QED
    BY <1>1, HistoryInitially, HistoryStep, PTL DEF ReadsSpec, RefusedOnlyUpFront

\* The rows of a window, when all rows there are count.
LEMMA WindowRows ==
    ASSUME series \in Seq(Rows), NEW q
    PROVE  /\ Held(q, Len(series)) = InWindow(q)
           /\ InWindow(q) \subseteq 1..Len(series)
           /\ IsFiniteSet(InWindow(q))
           /\ \A i \in InWindow(q) : i \in Int /\ series[i].at \in Int
  <1>1. InWindow(q) \subseteq 1..Len(series) /\ Len(series) \in Nat
    BY DEF InWindow
  <1>2. IsFiniteSet(1..Len(series))
    BY <1>1, FS_Interval
  <1>3. IsFiniteSet(InWindow(q))
    BY <1>1, <1>2, FS_Subset
  <1>4. Held(q, Len(series)) = InWindow(q)
    BY <1>1 DEF Held
  <1> QED
    BY <1>1, <1>3, <1>4, HistoryAssumption

LEMMA TimeOrders ==
    ASSUME series \in Seq(Rows), NEW q
    PROVE  Orders(ByTime(InWindow(q)), InWindow(q))
  <1> DEFINE I == InWindow(q)
             at(i) == series[i].at
  <1>1. \A i \in I : i \in Int /\ at(i) \in Int
    BY WindowRows
  <1>2. \A i, j \in I : <<i, j>> \in ByTime(I) <=> at(i) < at(j) \/ (at(i) = at(j) /\ i <= j)
    BY DEF ByTime
  <1> HIDE DEF I, at
  <1> QED
    BY <1>1, <1>2 DEF Orders, I

\* The values that a function takes on a finite set are finitely many.
LEMMA ImageFinite ==
    ASSUME NEW S, IsFiniteSet(S), NEW g
    PROVE  IsFiniteSet({g[x] : x \in S})
  <1> DEFINE T == {g[x] : x \in S}
             h == [x \in S |-> g[x]]
  <1>1. h \in Surjection(S, T)
    BY DEF Surjection
  <1> HIDE DEF T, h
  <1> QED
    BY <1>1, FS_Surjection DEF T

\* A window that is classified has numbers in one unit.
LEMMA OneUnit ==
    ASSUME series \in Seq(Rows), NEW q, q.property # "value", Classification(q).status = "ok",
           NEW i \in InWindow(q)
    PROVE  series[i].type = "number" /\ series[i].unit = Classification(q).unit
  <1> DEFINE I == InWindow(q)
             N == {j \in I : series[j].type = "number"}
             K == {j \in I : series[j].unit = Unknown}
             U == {series[j].unit : j \in I} \ {Unknown}
             g == [j \in I |-> series[j].unit]
  <1>1. IsFiniteSet(I) /\ i \in I
    BY WindowRows
  <1>2. N \subseteq I /\ K \subseteq I
    OBVIOUS
  <1>3. Classification(q) =
          IF Cardinality(N) < Cardinality(I) THEN [status |-> "internal_error", unit |-> Unknown]
          ELSE IF Cardinality(K) = Cardinality(I) THEN [status |-> "ok", unit |-> Unknown]
          ELSE IF Cardinality(K) = 0 /\ Cardinality(U) = 1
          THEN [status |-> "ok", unit |-> CHOOSE u \in U : TRUE]
          ELSE [status |-> "inconsistent_unit", unit |-> Unknown]
    BY Zenon DEF Classification, classifyTemporalWindow, window_summary
  <1>4. series[i].type = "number" <=> i \in N
    BY <1>1
  <1>5. series[i].unit = Unknown <=> i \in K
    BY <1>1
  <1>6. series[i].unit # Unknown => series[i].unit \in U
    BY <1>1
  <1>7. U \subseteq {g[j] : j \in I}
    OBVIOUS
  <1> HIDE DEF N, K, U, I, g
  <1>8. IsFiniteSet(U)
    <2>1. IsFiniteSet({g[j] : j \in I})
      BY <1>1, ImageFinite
    <2> QED
      BY <2>1, <1>7, FS_Subset
  <1>9. /\ Cardinality(I) \in Nat /\ Cardinality(N) \in Nat /\ Cardinality(N) <= Cardinality(I)
        /\ Cardinality(I) = Cardinality(N) => I = N
        /\ Cardinality(I) = Cardinality(K) => I = K
        /\ IsFiniteSet(K)
    BY <1>1, <1>2, FS_Subset, FS_CardinalityType
  <1>10. series[i].type = "number"
    BY <1>1, <1>3, <1>4, <1>9
  <1>11. CASE Cardinality(K) = Cardinality(I)
    BY <1>1, <1>3, <1>5, <1>9, <1>10, <1>11
  <1>12. CASE Cardinality(K) = 0 /\ Cardinality(U) = 1 /\ Cardinality(K) # Cardinality(I)
    <2>1. K = {}
      BY <1>9, <1>12, FS_EmptySet
    <2>2. series[i].unit \in U
      BY <2>1, <1>5, <1>6
    <2>3. Classification(q).unit = CHOOSE u \in U : TRUE
      BY <1>3, <1>9, <1>10, <1>12
    <2> QED
      BY <2>2, <2>3, <1>8, <1>10, <1>12, FS_Singleton
  <1> QED
    BY <1>3, <1>11, <1>12

\* The raw statement shows every row of the window, in the order of their times.
LEMMA RawIsWhole ==
    ASSUME HistoryInv, NEW q \in HistoryRequests, Valid(q), Len(RawRows(q)) <= q.max
    PROVE  LET P == RawPoints(q) IN
           /\ Len(P) = Cardinality(InWindow(q))
           /\ \A k \in 1..Len(P) - 1 : P[k] <= P[k + 1]
           /\ \A t : CountAt(P, t) = Cardinality({i \in InWindow(q) : series[i].at = t})
  <1> DEFINE I == InWindow(q)
             n == Cardinality(I)
             s == OrderBy(I, ByTime(I))
             max1 == q.max + 1
             P == RawPoints(q)
  <1>1. series \in Seq(Rows)
    BY DEF HistoryInv
  <1>2. IsFiniteSet(I) /\ \A i \in I : i \in Int /\ series[i].at \in Int
    BY <1>1, WindowRows
  <1>3. Orders(ByTime(I), I)
    BY <1>1, TimeOrders
  <1>4. RawRows(q) = Limit(s, max1)
    BY DEF RawRows
  <1>5. q.max \in Nat /\ max1 \in Nat /\ q.max < max1
    BY RequestFields, HistoryAssumption DEF Valid
  <1>6. \A i, j \in I : <<i, j>> \in ByTime(I) => series[i].at <= series[j].at
    BY <1>2 DEF ByTime
  <1> HIDE DEF I, max1
  <1>7. /\ n \in Nat /\ s \in [1..n -> I]
        /\ \A i, j \in 1..n : i < j => s[i] # s[j] /\ <<s[i], s[j]>> \in ByTime(I)
        /\ \A x \in I : \E i \in 1..n : s[i] = x
    <2>1. PICK R : R = ByTime(I)
      OBVIOUS
    <2>2. Orders(R, I) /\ IsFiniteSet(I)
      BY <1>2, <1>3, <2>1
    <2> QED
      BY <2>1, <2>2, Sorted
  <1> HIDE DEF s, n
  <1>8. RawRows(q) = s
    <2>1. CASE max1 <= n
      <3>1. Len(Limit(s, max1)) = max1
        <4>1. n \in Nat /\ s \in [1..n -> I] /\ max1 \in Nat
          BY <1>5, <1>7
        <4>2. s \in Seq(I) /\ Len(s) = n
          BY <4>1
        <4>3. Limit(s, max1) = SubSeq(s, 1, max1)
          BY <2>1, <4>1, <4>2 DEF Limit
        <4> QED
          BY <2>1, <4>1, <4>2, <4>3
      <3> QED
        BY <1>4, <1>5, <3>1
    <2>2. CASE n <= max1
      BY <1>4, <1>5, <1>7, <2>2, LimitAll, Zenon
    <2> QED
      BY <1>5, <1>7, <2>1, <2>2
  <1>9. P = [k \in 1..n |-> series[s[k]].at]
    BY <1>7, <1>8 DEF RawPoints
  <1>10. P \in Seq(Int) /\ Len(P) = n /\ DOMAIN P = 1..n /\ \A k \in 1..n : P[k] = series[s[k]].at
    <2>1. n \in Nat /\ \A k \in 1..n : s[k] \in I /\ series[s[k]].at \in Int
      BY <1>2, <1>7
    <2>2. /\ P \in [1..n -> Int] /\ DOMAIN P = 1..n
          /\ \A k \in 1..n : P[k] = series[s[k]].at
      BY <1>9, <2>1, Zenon
    <2> HIDE DEF P
    <2>3. P \in Seq(Int) /\ Len(P) = n
      BY <2>1, <2>2
    <2> QED
      BY <2>2, <2>3
  <1> HIDE DEF P
  <1>11. ASSUME NEW k \in 1..Len(P) - 1
         PROVE  P[k] <= P[k + 1]
    <2>1. k \in 1..n /\ k + 1 \in 1..n /\ k < k + 1
      BY <1>7, <1>10
    <2>2. <<s[k], s[k + 1]>> \in ByTime(I) /\ s[k] \in I /\ s[k + 1] \in I
      BY <1>7, <2>1
    <2>3. series[s[k]].at <= series[s[k + 1]].at
      BY <1>6, <2>2
    <2> QED
      BY <1>10, <2>1, <2>3
  <1>12. ASSUME NEW t
         PROVE  CountAt(P, t) = Cardinality({i \in I : series[i].at = t})
    <2> DEFINE A == {k \in 1..n : P[k] = t}
               B == {i \in I : series[i].at = t}
               g == [k \in A |-> s[k]]
    <2>1. CountAt(P, t) = Cardinality(A)
      BY <1>10 DEF CountAt
    <2>2. g \in [A -> B] /\ \A k \in A : g[k] = s[k]
      BY <1>7, <1>10
    <2>3. ASSUME NEW x \in A, NEW y \in A, g[x] = g[y]
          PROVE  x = y
      <3>1. x \in 1..n /\ y \in 1..n /\ s[x] = s[y]
        BY <2>2, <2>3
      <3> HIDE DEF A, B, g
      <3>2. x \in Int /\ y \in Int
        BY <1>7, <3>1
      <3>3. ~(x < y) /\ ~(y < x)
        BY <1>7, <3>1, Zenon
      <3> QED
        BY <3>2, <3>3
    <2>4. ASSUME NEW x \in B
          PROVE  \E k \in A : g[k] = x
      <3>1. PICK k \in 1..n : s[k] = x
        BY <1>7
      <3>2. k \in A
        BY <1>10, <3>1
      <3> QED
        BY <2>2, <3>1, <3>2
    <2>5. IsFiniteSet(A)
      <3>1. IsFiniteSet(1..n)
        BY <1>7, FS_Interval
      <3> QED
        BY <3>1, FS_Subset, Zenon
    <2> HIDE DEF A, B, g
    <2>6. g \in Bijection(A, B)
      BY <2>2, <2>3, <2>4 DEF Bijection, Injection, Surjection, IsInjective
    <2>7. Cardinality(B) = Cardinality(A)
      BY <2>5, <2>6, FS_Bijection DEF ExistsBijection
    <2> QED
      BY <2>1, <2>7 DEF B
  <1> QED
    BY <1>10, <1>11, <1>12 DEF P, n, I

\* The bucket statement shows every bucket of the window, with all of its rows.
LEMMA BucketsAreWhole ==
    ASSUME HistoryInv, NEW q \in HistoryRequests, Valid(q), NEW res \in Resolutions,
           ~TooFine(q, res)
    PROVE  LET w == Duration[res]
               P == BucketRows(q, w)
           IN /\ \A k \in 1..Len(P) - 1 : P[k].start < P[k + 1].start
              /\ {P[k].start : k \in DOMAIN P} = Starts(q, w)
              /\ \A k \in DOMAIN P :
                   P[k].count = Cardinality({i \in InWindow(q) : BucketOf(w, i) = P[k].start})
  <1> DEFINE w == Duration[res]
             S == Starts(q, w)
             n == Cardinality(S)
             s == OrderBy(S, Ascending(S))
             B == [k \in DOMAIN s |-> Bucket(q, w, s[k])]
             T == {Bucket(q, w, x) : x \in S}
             max1 == q.max + 1
             P == BucketRows(q, w)
  <1>1. IsFiniteSet(S) /\ S \subseteq Int /\ n \in Nat /\ n <= q.max
    BY BucketsFit DEF HistoryInv
  <1>2. P = Limit(B, max1)
    BY DEF BucketRows
  <1>3. max1 \in Nat /\ n <= max1
    BY <1>1, RequestFields
  <1>4. \A x : /\ Bucket(q, w, x).start = x
               /\ Bucket(q, w, x).count = Cardinality({i \in InWindow(q) : BucketOf(w, i) = x})
    BY DEF Bucket
  <1> HIDE DEF w, S, max1
  <1>5. /\ s \in [1..n -> S]
        /\ \A i, j \in 1..n : i < j => s[i] < s[j]
        /\ \A x \in S : \E i \in 1..n : s[i] = x
    BY <1>1, Sorted2
  <1> HIDE DEF s, n
  <1>6. B \in [1..n -> T] /\ \A k \in 1..n : B[k] = Bucket(q, w, s[k])
    BY <1>5
  <1> HIDE DEF B, T
  <1>7. P = B /\ Len(P) = n /\ DOMAIN P = 1..n
    <2>1. n \in Nat
      BY <1>1
    <2>2. Limit(B, max1) = B /\ Len(B) = n
      BY <2>1, <1>3, <1>6, LimitAll, Zenon
    <2> QED
      BY <1>2, <1>6, <2>1, <2>2
  <1> HIDE DEF P
  <1>8. \A k \in 1..n :
            /\ P[k].start = s[k]
            /\ P[k].count = Cardinality({i \in InWindow(q) : BucketOf(w, i) = P[k].start})
    <2> TAKE k \in 1..n
    <2>1. P[k] = Bucket(q, w, s[k])
      BY <1>6, <1>7, Zenon
    <2>2. P[k].start = s[k]
      BY <1>4, <2>1, Zenon
    <2>3. P[k].count = Cardinality({i \in InWindow(q) : BucketOf(w, i) = s[k]})
      BY <1>4, <2>1, Zenon
    <2> QED
      BY <2>2, <2>3, Zenon
  <1>9. ASSUME NEW k \in 1..Len(P) - 1
        PROVE  P[k].start < P[k + 1].start
    <2>1. k \in 1..n /\ k + 1 \in 1..n /\ k < k + 1
      BY <1>1, <1>7
    <2> QED
      BY <1>5, <1>8, <2>1, Zenon
  <1>10. {P[k].start : k \in DOMAIN P} = S
    <2>1. \A k \in DOMAIN P : P[k].start = s[k] /\ s[k] \in S
      BY <1>5, <1>7, <1>8, Zenon
    <2>2. ASSUME NEW x \in S
          PROVE  \E k \in DOMAIN P : P[k].start = x
      <3>1. PICK k \in 1..n : s[k] = x
        BY <1>5
      <3> QED
        BY <1>7, <1>8, <3>1, Zenon
    <2> QED
      BY <2>1, <2>2
  <1> QED
    BY <1>7, <1>8, <1>9, <1>10 DEF P, S, w

\* ShowsSnapshot of a given series and answer.
HeldIn(ser, q, n) ==
    {i \in {i \in DOMAIN ser : q.from <= ser[i].at /\ ser[i].at < q.to} : i <= n}
Shows(ser, q, mode, P, unit, n) ==
    /\ IF mode = "raw"
       THEN /\ Len(P) = Cardinality(HeldIn(ser, q, n))
            /\ \A k \in 1..Len(P) - 1 : P[k] <= P[k + 1]
            /\ \A t \in {ser[i].at : i \in HeldIn(ser, q, n)} :
                 CountAt(P, t) = Cardinality({i \in HeldIn(ser, q, n) : ser[i].at = t})
       ELSE /\ \A k \in 1..Len(P) - 1 : P[k].start < P[k + 1].start
            /\ {P[k].start : k \in DOMAIN P}
                 = {time_bucket(Duration[mode], t) : t \in {ser[i].at : i \in HeldIn(ser, q, n)}}
            /\ \A k \in DOMAIN P : P[k].count =
                 Cardinality({i \in HeldIn(ser, q, n) :
                                time_bucket(Duration[mode], ser[i].at) = P[k].start})
    /\ q.property # "value" =>
         \A i \in HeldIn(ser, q, n) : ser[i].type = "number" /\ ser[i].unit = unit

LEMMA ShowsNow ==
    ASSUME NEW n
    PROVE  ShowsSnapshot(n) <=> Shows(series, read.q, read.mode, read.points, read.unit, n)
  BY Zenon DEF ShowsSnapshot, Shows, Held, HeldIn, InWindow, Times

LEMMA ShowsNext ==
    ASSUME NEW n
    PROVE  ShowsSnapshot(n)' <=> Shows(series', read'.q, read'.mode, read'.points, read'.unit, n)
  BY Zenon DEF ShowsSnapshot, Shows, Held, HeldIn, InWindow, Times, CountAt

LEMMA HeldNow ==
    ASSUME series \in Seq(Rows), NEW q
    PROVE  HeldIn(series, q, Len(series)) = InWindow(q)
  BY WindowRows DEF HeldIn, Held, InWindow

LEMMA RawShown ==
    ASSUME HistoryInv, NEW q \in HistoryRequests, Valid(q), Len(RawRows(q)) <= q.max,
           Classification(q).status = "ok"
    PROVE  Shows(series, q, "raw", RawPoints(q), Classification(q).unit, Len(series))
  <1>1. series \in Seq(Rows)
    BY DEF HistoryInv
  <1>2. HeldIn(series, q, Len(series)) = InWindow(q)
    BY <1>1, HeldNow
  <1>3. q.property # "value" =>
            \A i \in InWindow(q) :
                series[i].type = "number" /\ series[i].unit = Classification(q).unit
    BY <1>1, OneUnit
  <1> DEFINE P == RawPoints(q)
  <1>4. /\ Len(P) = Cardinality(InWindow(q))
        /\ \A k \in 1..Len(P) - 1 : P[k] <= P[k + 1]
        /\ \A t : CountAt(P, t) = Cardinality({i \in InWindow(q) : series[i].at = t})
    BY RawIsWhole
  <1> HIDE DEF P
  <1> QED
    BY <1>2, <1>3, <1>4, Zenon DEF Shows, P

LEMMA BucketsShown ==
    ASSUME HistoryInv, NEW q \in HistoryRequests, Valid(q), NEW res \in Resolutions,
           ~TooFine(q, res), Classification(q).status = "ok"
    PROVE  Shows(series, q, res, BucketRows(q, Duration[res]), Classification(q).unit, Len(series))
  <1>1. series \in Seq(Rows)
    BY DEF HistoryInv
  <1>2. HeldIn(series, q, Len(series)) = InWindow(q)
    BY <1>1, HeldNow
  <1>3. q.property # "value" =>
            \A i \in InWindow(q) :
                series[i].type = "number" /\ series[i].unit = Classification(q).unit
    BY <1>1, OneUnit
  <1> DEFINE w == Duration[res]
             P == BucketRows(q, w)
  <1>4. /\ \A k \in 1..Len(P) - 1 : P[k].start < P[k + 1].start
        /\ {P[k].start : k \in DOMAIN P} = Starts(q, w)
        /\ \A k \in DOMAIN P :
              P[k].count = Cardinality({i \in InWindow(q) : BucketOf(w, i) = P[k].start})
    BY BucketsAreWhole, Zenon
  <1> HIDE DEF P
  <1>5. Starts(q, w) = {time_bucket(w, t) : t \in {series[i].at : i \in InWindow(q)}}
    BY DEF Starts, BucketOf
  <1>6. \A k \in DOMAIN P :
              P[k].count = Cardinality({i \in InWindow(q) : time_bucket(w, series[i].at) = P[k].start})
    BY <1>4 DEF BucketOf
  <1>7. res # "raw"
    BY ResolutionNames
  <1> QED
    BY <1>2, <1>3, <1>4, <1>5, <1>6, <1>7, Zenon DEF Shows, P

\* A row stored later leaves the first n rows as they are.
LEMMA ShownStays ==
    ASSUME series \in Seq(Rows), NEW w \in Rows, NEW n \in 0..Len(series),
           NEW q, NEW m, NEW P, NEW u, Shows(series, q, m, P, u, n)
    PROVE  Shows(Append(series, w), q, m, P, u, n)
  <1> DEFINE after == Append(series, w)
             H == HeldIn(series, q, n)
  <1>1. /\ Len(series) \in Nat /\ DOMAIN series = 1..Len(series)
        /\ DOMAIN after = 1..(Len(series) + 1)
        /\ \A i \in 1..Len(series) : after[i] = series[i]
    OBVIOUS
  <1> HIDE DEF after
  <1>2. HeldIn(after, q, n) = H
    <2>1. \A i \in DOMAIN after : i <= n => i \in DOMAIN series /\ after[i] = series[i]
      BY <1>1
    <2>2. DOMAIN series \subseteq DOMAIN after
      BY <1>1
    <2> QED
      BY <2>1, <2>2, <1>1 DEF HeldIn
  <1>3. \A i \in H : after[i] = series[i]
    BY <1>1 DEF HeldIn
  <1> HIDE DEF H
  <1>4. {after[i].at : i \in H} = {series[i].at : i \in H}
    BY <1>3
  <1>5. \A t : {i \in H : after[i].at = t} = {i \in H : series[i].at = t}
    BY <1>3
  <1>6. q.property # "value" =>
            \A i \in H : after[i].type = "number" /\ after[i].unit = u
    BY <1>3 DEF Shows, H
  <1>7. CASE m = "raw"
    <2>1. /\ Len(P) = Cardinality(H)
          /\ \A k \in 1..Len(P) - 1 : P[k] <= P[k + 1]
          /\ \A t \in {series[i].at : i \in H} :
               CountAt(P, t) = Cardinality({i \in H : series[i].at = t})
      BY <1>7 DEF Shows, H
    <2>2. \A t \in {after[i].at : i \in H} :
               CountAt(P, t) = Cardinality({i \in H : after[i].at = t})
      BY <2>1, <1>4, <1>5, Zenon
    <2> QED
      BY <1>2, <1>6, <1>7, <2>1, <2>2, Zenon DEF Shows, after
  <1>8. CASE m # "raw"
    <2>1. /\ \A k \in 1..Len(P) - 1 : P[k].start < P[k + 1].start
          /\ {P[k].start : k \in DOMAIN P}
               = {time_bucket(Duration[m], t) : t \in {series[i].at : i \in H}}
          /\ \A k \in DOMAIN P : P[k].count =
               Cardinality({i \in H : time_bucket(Duration[m], series[i].at) = P[k].start})
      BY <1>8, Zenon DEF Shows, H
    <2>2. {P[k].start : k \in DOMAIN P}
               = {time_bucket(Duration[m], t) : t \in {after[i].at : i \in H}}
      BY <2>1, <1>4, Zenon
    <2>3. ASSUME NEW k \in DOMAIN P
          PROVE  P[k].count =
               Cardinality({i \in H : time_bucket(Duration[m], after[i].at) = P[k].start})
      <3>1. {i \in H : time_bucket(Duration[m], after[i].at) = P[k].start}
              = {i \in H : time_bucket(Duration[m], series[i].at) = P[k].start}
        BY <1>3
      <3> QED
        BY <2>1, <3>1
    <2> QED
      BY <1>2, <1>6, <1>8, <2>1, <2>2, <2>3, Zenon DEF Shows, after
  <1> QED
    BY <1>7, <1>8

LEMMA SnapshotStep ==
    ASSUME HistoryInv, AnswerIsOneSnapshot, [ReadsNext]_readsVars
    PROVE  AnswerIsOneSnapshot'
  <1>1. series \in Seq(Rows)
    BY DEF HistoryInv
  <1>2. ASSUME read' = read, read.phase = "done", read.outcome = "ok",
               NEW w \in Rows, series' = Append(series, w)
        PROVE  \E n \in read'.since..Len(series') : ShowsSnapshot(n)'
    <2>1. Reading(read)
      BY <1>2 DEF HistoryInv, Idle
    <2>2. PICK n \in read.since..Len(series) : ShowsSnapshot(n)
      BY <1>2 DEF AnswerIsOneSnapshot
    <2>3. /\ read.since \in Nat /\ Len(series) \in Nat /\ n \in 0..Len(series)
          /\ Len(series') = Len(series) + 1
      BY <1>1, <1>2, <2>1, <2>2 DEF Reading
    <2>4. Shows(series', read.q, read.mode, read.points, read.unit, n)
      BY <1>1, <1>2, <2>2, <2>3, ShowsNow, ShownStays
    <2>5. ShowsSnapshot(n)'
      BY <1>2, <2>4, ShowsNext
    <2>6. n \in read'.since..Len(series')
      BY <1>2, <2>2, <2>3
    <2> QED
      BY <2>5, <2>6
  <1>3. ASSUME UNCHANGED historyVars
        PROVE  AnswerIsOneSnapshot'
    <2> SUFFICES ASSUME read'.phase = "done", read'.outcome = "ok"
                 PROVE  \E n \in read'.since..Len(series') : ShowsSnapshot(n)'
      BY DEF AnswerIsOneSnapshot
    <2>1. read' = read /\ series' = series
      BY <1>3 DEF historyVars
    <2>2. PICK n \in read.since..Len(series) : ShowsSnapshot(n)
      BY <2>1 DEF AnswerIsOneSnapshot
    <2>3. ShowsSnapshot(n)'
      BY <2>1, <2>2, ShowsNow, ShowsNext
    <2> QED
      BY <2>1, <2>2, <2>3
  <1>4. ASSUME Reading(read), read.phase # "done", series' = series,
               NEW m, NEW P, NEW u, Answer(m, P, u),
               Shows(series, read.q, m, P, u, Len(series))
        PROVE  AnswerIsOneSnapshot'
    <2>1. /\ read'.q = read.q /\ read'.since = read.since
          /\ read'.mode = m /\ read'.points = P /\ read'.unit = u
      BY <1>4, Answered DEF Reading
    <2>2. PICK n \in Nat : n = Len(series)
      BY <1>1
    <2>3. ShowsSnapshot(n)'
      BY <1>4, <2>1, <2>2, ShowsNext
    <2>4. n \in read'.since..Len(series')
      BY <1>1, <1>4, <2>1, <2>2 DEF Reading
    <2> QED
      BY <2>3, <2>4 DEF AnswerIsOneSnapshot
  <1>5. ASSUME Reading(read), NEW o, o # "ok", Reply(o)
        PROVE  AnswerIsOneSnapshot'
    BY <1>5, Replied DEF Reading, AnswerIsOneSnapshot
  <1>6. ASSUME read'.phase # "done"
        PROVE  AnswerIsOneSnapshot'
    BY <1>6 DEF AnswerIsOneSnapshot
  <1>7. ASSUME NEW q \in HistoryRequests, AskHistory(q)
        PROVE  AnswerIsOneSnapshot'
    BY <1>7 DEF AskHistory, AnswerIsOneSnapshot
  <1>8. CASE ResolveHistory
    <2>1. Reading(read) /\ read.phase = "resolve"
      BY <1>8 DEF ResolveHistory, HistoryInv, Idle
    <2>2. CASE read' = [read EXCEPT !.phase = "query"]
      BY <2>1, <2>2, <1>6 DEF Reading, HistoryFields
    <2> QED
      BY <1>5, <1>8, <2>1, <2>2 DEF ResolveHistory
  <1>9. CASE ReadRaw
    <2>1. Reading(read) /\ read.phase = "query" /\ series' = series
      BY <1>9, RawOutcome
    <2>2. CASE FallsBack
      <3>1. read'.phase = "fallback"
        BY <2>1, <2>2 DEF FallsBack, Reading, HistoryFields
      <3> QED
        BY <3>1, <1>6
    <2>3. CASE RawAnswer
      <3>1. Shows(series, read.q, "raw", RawPoints(read.q), Classification(read.q).unit, Len(series))
        BY <2>1, <2>3, RawShown DEF RawAnswer, Reading
      <3> QED
        BY <2>1, <2>3, <3>1, <1>4 DEF RawAnswer
    <2>4. CASE Failed \/ Hidden \/ Reply("raw_limit_exceeded")
      BY <2>1, <2>4, <1>5 DEF Failed, Hidden
    <2> QED
      BY <1>9, <2>2, <2>3, <2>4, RawOutcome
  <1>10. CASE ReadBuckets
    <2>1. Reading(read) /\ read.phase \in {"query", "fallback"} /\ series' = series
      BY <1>10, BucketOutcome
    <2>2. ASSUME NEW res \in Resolutions, ~TooFine(read.q, res), BucketAnswer(res)
          PROVE  AnswerIsOneSnapshot'
      <3>1. Shows(series, read.q, res, BucketRows(read.q, Duration[res]),
                  Classification(read.q).unit, Len(series))
        BY <2>1, <2>2, BucketsShown, Zenon DEF BucketAnswer, Reading
      <3> QED
        BY <2>1, <2>2, <3>1, <1>4, Zenon DEF BucketAnswer
    <2>3. CASE Failed \/ Hidden
      BY <2>1, <2>3, <1>5 DEF Failed, Hidden
    <2> QED
      BY <1>10, <2>2, <2>3, BucketOutcome
  <1>11. CASE CloseHistory
    BY <1>11, <1>6 DEF CloseHistory, Idle
  <1>12. ASSUME NEW w \in Rows, StoreRow(w)
         PROVE  AnswerIsOneSnapshot'
    BY <1>2, <1>12 DEF StoreRow, AnswerIsOneSnapshot
  <1> QED
    BY <1>3, <1>7, <1>8, <1>9, <1>10, <1>11, <1>12, HistorySteps DEF readsVars

\* An answer is the whole window as it was at one moment of the request, for every
\* window, every width and any number of rows.
THEOREM AnswersAreSnapshots == ReadsSpec => []AnswerIsOneSnapshot
  <1>1. ReadsInit => AnswerIsOneSnapshot
    BY DEF ReadsInit, HistoryInit, Idle, AnswerIsOneSnapshot
  <1> QED
    BY <1>1, HistoryInitially, HistoryStep, SnapshotStep, PTL DEF ReadsSpec

-----------------------------------------------------------------------------
(***************************************************************************)
(* The twins.                                                              *)
(***************************************************************************)
Kinds == {"list", "relationships", "inventory"}

LEMMA EntityNumbers ==
    /\ Entities \subseteq Int /\ IsFiniteSet(Entities)
    /\ \A S : IsFiniteSet(S \cap Entities)
  <1>1. Entities \subseteq Int /\ IsFiniteSet(Entities)
    BY TwinAssumption
  <1>2. ASSUME NEW S
        PROVE  IsFiniteSet(S \cap Entities)
    BY <1>1, FS_Subset
  <1> QED
    BY <1>1, <1>2

LEMMA CursorIsNotAbsent ==
    ASSUME NEW kind \in Kinds, NEW f \in WalkFilters(kind), NEW key \in Entities
    PROVE  /\ NextCursor(kind, f, key) # Absent
           /\ NextCursor(kind, f, key).key = key
           /\ kind # "inventory" => NextCursor(kind, f, key).filter = f
  <1> DEFINE fs == Filters \cup [gateway : Gateways, type : {"Sensor"}] \cup {Absent}
  <1>1. \E g \in fs : /\ NextCursor(kind, f, key) = [key |-> key, filter |-> g]
                      /\ kind # "inventory" => g = f
    BY Zenon DEF Kinds, WalkFilters, NextCursor, EncodeListCursor, EncodeRelationshipCursor
  <1>2. Absent \notin [key : Entities, filter : fs]
    BY TwinAssumption
  <1> HIDE DEF fs
  <1> QED
    BY <1>1, <1>2

\* A page has the first rows of A, in order and without a gap; without a next
\* cursor it has all of them, else it ends at the key of the cursor.
IsPage(kind, f, page, A) ==
    LET items == page.items IN
    /\ items \in Seq(A)
    /\ \A i, j \in 1..Len(items) : i < j => items[i] < items[j]
    /\ \/ page.next = Absent /\ \A e \in A : \E i \in 1..Len(items) : items[i] = e
       \/ /\ Len(items) \in Nat \ {0}
          /\ page.next = NextCursor(kind, f, items[Len(items)])
          /\ \A e \in A : e <= items[Len(items)] => \E i \in 1..Len(items) : items[i] = e

LEMMA PageIs ==
    ASSUME NEW S \in SUBSET Entities, NEW c, NEW kind \in Kinds, NEW f \in WalkFilters(kind),
           NEW limit \in Nat \ {0}
    PROVE  IsPage(kind, f, Page(kind, f, Fetch(S, c, limit + 1), limit), After(S, c))
  <1> DEFINE A == After(S, c)
             n == Cardinality(A)
             s == OrderBy(A, Ascending(A))
             more == limit + 1
             fetched == Fetch(S, c, more)
             page == Page(kind, f, fetched, limit)
             items == page.items
  <1>1. A \subseteq S /\ A \subseteq Entities
    BY DEF After
  <1>2. A \subseteq Int /\ IsFiniteSet(A)
    BY <1>1, EntityNumbers, FS_Subset, Zenon
  <1>3. fetched = Limit(s, more)
    BY DEF Fetch
  <1>4. more \in Nat /\ limit \in Nat /\ limit < more /\ 1 <= limit
    OBVIOUS
  <1>5. page = IF Len(fetched) > limit
               THEN [items |-> SubSeq(fetched, 1, limit), next |-> NextCursor(kind, f, fetched[limit])]
               ELSE [items |-> fetched, next |-> Absent]
    BY DEF Page
  <1> HIDE DEF A, more
  <1>6. /\ n \in Nat /\ s \in [1..n -> A]
        /\ \A i, j \in 1..n : i < j => s[i] < s[j]
        /\ \A x \in A : \E i \in 1..n : s[i] = x
    BY <1>2, Sorted2
  <1> HIDE DEF n, s, fetched, page
  <1>7. CASE n <= limit
    <2>1. fetched = s /\ Len(fetched) = n
      <3>1. n <= more
        BY <1>4, <1>6, <1>7
      <3> QED
        BY <1>3, <1>4, <1>6, <3>1, LimitAll, Zenon
    <2>2. items = s /\ page.next = Absent
      BY <1>4, <1>5, <1>6, <1>7, <2>1
    <2>3. s \in Seq(A) /\ Len(s) = n
      BY <1>6
    <2> HIDE DEF items
    <2> QED
      BY <1>6, <2>2, <2>3, Zenon DEF IsPage, items, page, fetched, A, more
  <1>8. CASE limit < n
    <2>1. Len(fetched) = more /\ fetched \in Seq(A) /\ \A i \in 1..more : fetched[i] = s[i]
      <3>1. more <= n
        BY <1>4, <1>6, <1>8 DEF more
      <3>2. n \in Nat /\ s \in [1..n -> A]
        BY <1>6
      <3>3. Limit(s, more) \in Seq(A)
        BY <1>4, <3>1, <3>2, LimitCuts
      <3>4. Len(Limit(s, more)) = more
        BY <1>4, <3>1, <3>2, LimitCuts
      <3>5. ASSUME NEW i \in 1..more
            PROVE  Limit(s, more)[i] = s[i]
        <4>1. s \in Seq(A) /\ Len(s) = n
          BY <3>2
        <4>2. Limit(s, more) = SubSeq(s, 1, more)
          BY <1>4, <3>1, <3>2, <4>1 DEF Limit
        <4> QED
          BY <1>4, <3>1, <3>2, <4>1, <4>2
      <3> QED
        BY <1>3, <3>3, <3>4, <3>5
    <2>2. items = SubSeq(fetched, 1, limit) /\ page.next = NextCursor(kind, f, fetched[limit])
      BY <1>4, <1>5, <2>1
    <2>3. items \in Seq(A) /\ Len(items) = limit /\ \A i \in 1..limit : items[i] = fetched[i]
      BY <1>4, <2>1, <2>2
    <2>4. limit \in 1..limit /\ \A i \in 1..limit : i \in 1..more /\ i \in 1..n
      BY <1>4, <1>6, <1>8
    <2> HIDE DEF items
    <2>5. \A i \in 1..limit : items[i] = s[i] /\ i \in 1..n
      BY <2>1, <2>3, <2>4
    <2>6. page.next = NextCursor(kind, f, items[limit])
      BY <2>2, <2>3, <2>4
    <2>7. ASSUME NEW e \in A, e <= items[limit]
          PROVE  \E i \in 1..limit : items[i] = e
      <3>1. PICK i \in 1..n : s[i] = e
        BY <1>6
      <3>2. e \in Int /\ s[limit] \in Int /\ e <= s[limit] /\ limit \in 1..n
        BY <1>2, <1>6, <2>4, <2>5, <2>7, Zenon
      <3>3. ~(limit < i)
        <4> SUFFICES ASSUME limit < i PROVE FALSE
          OBVIOUS
        <4>1. s[limit] < s[i]
          BY <1>6, <3>2
        <4> QED
          BY <3>1, <3>2, <4>1
      <3>4. i \in 1..limit
        BY <1>4, <1>6, <3>3
      <3> QED
        BY <2>5, <3>1, <3>4
    <2> QED
      BY <1>4, <1>6, <2>3, <2>5, <2>6, <2>7, Zenon DEF IsPage, items, page, fetched, A, more
  <1> QED
    BY <1>4, <1>6, <1>7, <1>8

\* The same, of what the cursor holds.
EndsAtCursor(kind, f, page, A) ==
    LET items == page.items
        last == items[Len(items)]
    IN  /\ items \in Seq(A)
        /\ \A i, j \in 1..Len(items) : i < j => items[i] < items[j]
        /\ page.next = Absent => \A e \in A : \E i \in 1..Len(items) : items[i] = e
        /\ page.next # Absent =>
              /\ Len(items) \in Nat \ {0} /\ last \in Entities /\ page.next.key = last
              /\ kind # "inventory" => page.next.filter = f
              /\ \A e \in A : e <= last => \E i \in 1..Len(items) : items[i] = e
LEMMA PageEnds ==
    ASSUME NEW kind \in Kinds, NEW f \in WalkFilters(kind), NEW page, NEW A \in SUBSET Entities,
           IsPage(kind, f, page, A)
    PROVE  EndsAtCursor(kind, f, page, A)
  <1> DEFINE items == page.items
             next == page.next
             last == items[Len(items)]
  <1>1. /\ items \in Seq(A)
        /\ \A i, j \in 1..Len(items) : i < j => items[i] < items[j]
        /\ \/ next = Absent /\ \A e \in A : \E i \in 1..Len(items) : items[i] = e
           \/ /\ Len(items) \in Nat \ {0} /\ next = NextCursor(kind, f, last)
              /\ \A e \in A : e <= last => \E i \in 1..Len(items) : items[i] = e
    BY Zenon DEF IsPage
  <1> HIDE DEF items, next
  <1>2. CASE Len(items) \in Nat \ {0} /\ next = NextCursor(kind, f, last)
    <2>1. last \in Entities
      BY <1>1, <1>2
    <2>2. next # Absent /\ next.key = last /\ (kind # "inventory" => next.filter = f)
      <3>1. PICK key \in Entities : key = last
        BY <2>1
      <3>2. next = NextCursor(kind, f, key)
        BY <1>2, <3>1, Zenon
      <3>3. /\ NextCursor(kind, f, key) # Absent /\ NextCursor(kind, f, key).key = key
            /\ kind # "inventory" => NextCursor(kind, f, key).filter = f
        BY CursorIsNotAbsent, Zenon
      <3> HIDE DEF last
      <3> QED
        BY <3>1, <3>2, <3>3
    <2> QED
      BY <1>1, <1>2, <2>1, <2>2, Zenon DEF EndsAtCursor, items, next
  <1>3. CASE next = Absent /\ \A e \in A : \E i \in 1..Len(items) : items[i] = e
    BY <1>1, <1>3, Zenon DEF EndsAtCursor, items, next
  <1> QED
    BY <1>1, <1>2, <1>3, Zenon

\* What holds of a walk: the pages so far are in order and end at the cursor, and
\* of the entities visible all along none before the cursor is missing.
WalkFields(w) ==
    w = [kind |-> w.kind, filter |-> w.filter, next |-> w.next, seen |-> w.seen,
         over |-> w.over, throughout |-> w.throughout]
AtCursor(w) ==
    /\ w.next.key \in Entities /\ Len(w.seen) \in Nat \ {0}
    /\ w.next.key = w.seen[Len(w.seen)]
    /\ w.kind # "inventory" => w.next.filter = w.filter
Walking(w) ==
    /\ WalkFields(w)
    /\ w.kind \in Kinds /\ w.filter \in WalkFilters(w.kind)
    /\ w.seen \in Seq(Selected(w.filter))
    /\ \A i, j \in 1..Len(w.seen) : i < j => w.seen[i] < w.seen[j]
    /\ w.next # Absent => AtCursor(w)
    /\ w.next = Absent /\ ~w.over => w.seen = <<>>
    /\ w.over => w.next = Absent
    /\ \A e \in w.throughout : w.over \/ (w.next # Absent /\ e <= w.next.key) =>
          \E i \in 1..Len(w.seen) : w.seen[i] = e
Throughout(w) == w.throughout \subseteq Visible(w.kind, w.filter)

\* What holds of a request: one for a page belongs to the walk, and has its filter
\* once it was accepted; one for an entity has found it once it was resolved.
PageFields(r) ==
    r = [phase |-> r.phase, kind |-> r.kind, filter |-> r.filter, limit |-> r.limit,
         after |-> r.after, outcome |-> r.outcome]
ForPage(r, w) ==
    /\ PageFields(r)
    /\ r.kind \in Kinds /\ r.limit \in Nat
    /\ r.phase \in {"middleware", "resolve", "admin", "page", "done"}
    /\ r.phase # "done" => w # NoWalk /\ ~w.over /\ r.kind = w.kind /\ r.after = w.next
    /\ r.phase \in {"resolve", "admin", "page"} \/ (r.phase = "middleware" /\ r.outcome = "ok") =>
          r.limit # 0 /\ r.filter = w.filter
EntityFields(r) ==
    r = [phase |-> r.phase, kind |-> r.kind, entity |-> r.entity, outcome |-> r.outcome]
ForEntity(r) ==
    /\ EntityFields(r)
    /\ r.kind \in {"detail", "state"} /\ r.entity \in Entities
    /\ r.phase \in {"resolve", "detail", "resolve_state", "state", "done"}
    /\ r.phase # "done" => r.outcome = "ok"
    /\ r.phase \in {"detail", "resolve_state", "state"} => r.entity \in present
TwinInv ==
    /\ walk = NoWalk \/ (Walking(walk) /\ Throughout(walk))
    /\ req = Quiet \/ ForPage(req, walk) \/ ForEntity(req)

LEMMA Ended ==
    ASSUME NEW o, End(o)
    PROVE  /\ PageFields(req) => /\ PageFields(req') /\ req'.phase = "done" /\ req'.outcome = o
                                 /\ req'.kind = req.kind /\ req'.limit = req.limit
           /\ EntityFields(req) => /\ EntityFields(req') /\ req'.phase = "done" /\ req'.outcome = o
                                   /\ req'.kind = req.kind /\ req'.entity = req.entity
  BY Zenon DEF End, PageFields, EntityFields

LEMMA JoinedEnds ==
    ASSUME NEW S, NEW s \in Seq(S), NEW t \in Seq(S), Len(t) # 0
    PROVE  Len(s \o t) \in Nat \ {0} /\ (s \o t)[Len(s \o t)] = t[Len(t)]
  OBVIOUS

LEMMA BeforeTheLast ==
    ASSUME NEW n \in Nat, NEW i \in 1..n, i # n
    PROVE  n \in 1..n /\ i < n
  OBVIOUS

LEMMA LessIsAtMost ==
    ASSUME NEW a \in Int, NEW b \in Int, a < b
    PROVE  a <= b
  OBVIOUS

LEMMA Joined ==
    ASSUME NEW S, NEW s \in Seq(S), NEW t \in Seq(S)
    PROVE  /\ s \o t \in Seq(S) /\ Len(s \o t) = Len(s) + Len(t)
           /\ Len(s) \in Nat /\ Len(t) \in Nat
           /\ \A i \in 1..Len(s) : (s \o t)[i] = s[i]
           /\ \A i \in 1..Len(t) : (s \o t)[Len(s) + i] = t[i]
           /\ \A i \in 1..Len(s \o t) : i <= Len(s) \/ i - Len(s) \in 1..Len(t)
  <1>1. s \o t \in Seq(S) /\ Len(s \o t) = Len(s) + Len(t) /\ Len(s) \in Nat /\ Len(t) \in Nat
    OBVIOUS
  <1>2. \A i \in 1..Len(s) : (s \o t)[i] = s[i]
    OBVIOUS
  <1>3. \A i \in 1..Len(t) : (s \o t)[Len(s) + i] = t[i]
    OBVIOUS
  <1>4. \A i \in 1..Len(s \o t) : i <= Len(s) \/ i - Len(s) \in 1..Len(t)
    BY <1>1
  <1> QED
    BY <1>1, <1>2, <1>3, <1>4

\* One more page on the walk: v is w with the page.
Added(v, w, page, limit) ==
    /\ page = Page(w.kind, w.filter, Fetch(Visible(w.kind, w.filter), w.next, limit + 1), limit)
    /\ v = [w EXCEPT !.seen = @ \o page.items, !.next = page.next, !.over = page.next = Absent]
LEMMA PageAdded ==
    ASSUME NEW w, Walking(w), Throughout(w), ~w.over, NEW limit \in Nat \ {0}, NEW v, NEW page,
           Added(v, w, page, limit)
    PROVE  /\ Walking(v) /\ v.throughout = w.throughout /\ v.kind = w.kind /\ v.filter = w.filter
  <1> DEFINE V == Visible(w.kind, w.filter)
             items == page.items
             next == page.next
             last == items[Len(items)]
             A == After(V, w.next)
             seen == w.seen
             all == seen \o items
  <1>1. /\ w.kind \in Kinds /\ w.filter \in WalkFilters(w.kind)
        /\ V \subseteq Selected(w.filter) /\ Selected(w.filter) \subseteq Entities
        /\ A \subseteq V
    BY Zenon DEF Walking, Visible, Selected, After
  <1>2. /\ v = [w EXCEPT !.seen = all, !.next = next, !.over = next = Absent]
        /\ \A e \in V : e \in A <=> (w.next = Absent \/ e > w.next.key)
    BY DEF After, Added
  <1>3. /\ items \in Seq(A)
        /\ \A i, j \in 1..Len(items) : i < j => items[i] < items[j]
        /\ next = Absent => \A e \in A : \E i \in 1..Len(items) : items[i] = e
        /\ next # Absent =>
              /\ Len(items) \in Nat \ {0} /\ last \in Entities /\ next.key = last
              /\ w.kind # "inventory" => next.filter = w.filter
              /\ \A e \in A : e <= last => \E i \in 1..Len(items) : items[i] = e
    <2>1. /\ V \in SUBSET Entities
          /\ page = Page(w.kind, w.filter, Fetch(V, w.next, limit + 1), limit)
      BY <1>1 DEF Added
    <2> HIDE DEF V
    <2>2. IsPage(w.kind, w.filter, page, A)
      BY <1>1, <2>1, PageIs
    <2>3. A \in SUBSET Entities
      BY <1>1
    <2> HIDE DEF A
    <2>4. EndsAtCursor(w.kind, w.filter, page, A)
      BY <1>1, <2>2, <2>3, PageEnds, Zenon
    <2> QED
      BY <2>4, Zenon DEF EndsAtCursor
  <1> HIDE DEF V, A, next
  <1>4. /\ v.seen = all /\ v.next = next /\ v.over = (next = Absent)
        /\ v.kind = w.kind /\ v.filter = w.filter /\ v.throughout = w.throughout
        /\ WalkFields(v)
    BY <1>2, Zenon DEF Walking, WalkFields
  <1>5. /\ seen \in Seq(Selected(w.filter)) /\ items \in Seq(Selected(w.filter))
        /\ seen \in Seq(Int) /\ items \in Seq(Int)
        /\ \A i, j \in 1..Len(seen) : i < j => seen[i] < seen[j]
    <2>1. /\ seen \in Seq(Selected(w.filter))
          /\ \A i, j \in 1..Len(seen) : i < j => seen[i] < seen[j]
      BY DEF Walking
    <2>2. A \subseteq Selected(w.filter) /\ Selected(w.filter) \subseteq Int
      BY <1>1, EntityNumbers, Zenon
    <2> HIDE DEF seen, items
    <2> QED
      BY <1>3, <2>1, <2>2
  <1>6. /\ w.next = Absent => seen = <<>>
        /\ w.next # Absent =>
              /\ w.next.key \in Int /\ Len(seen) \in Nat \ {0} /\ w.next.key = seen[Len(seen)]
        /\ \A e \in w.throughout : w.next # Absent /\ e <= w.next.key =>
              \E i \in 1..Len(seen) : seen[i] = e
        /\ w.throughout \subseteq V
    BY EntityNumbers, Zenon DEF Walking, AtCursor, Throughout, V
  <1> HIDE DEF items, seen
  <1>7. /\ all \in Seq(Selected(w.filter)) /\ Len(all) = Len(seen) + Len(items)
        /\ Len(seen) \in Nat /\ Len(items) \in Nat
        /\ \A i \in 1..Len(seen) : all[i] = seen[i]
        /\ \A i \in 1..Len(items) : all[Len(seen) + i] = items[i]
        /\ \A i \in 1..Len(all) : i <= Len(seen) \/ i - Len(seen) \in 1..Len(items)
    <2>1. PICK S : S = Selected(w.filter)
      OBVIOUS
    <2>2. seen \in Seq(S) /\ items \in Seq(S)
      BY <1>5, <2>1, Zenon
    <2> HIDE DEF all
    <2>3. /\ all \in Seq(S) /\ Len(all) = Len(seen) + Len(items)
          /\ Len(seen) \in Nat /\ Len(items) \in Nat
          /\ \A i \in 1..Len(seen) : all[i] = seen[i]
          /\ \A i \in 1..Len(items) : all[Len(seen) + i] = items[i]
          /\ \A i \in 1..Len(all) : i <= Len(seen) \/ i - Len(seen) \in 1..Len(items)
      BY <2>2, Joined DEF all
    <2> QED
      BY <2>1, <2>3, Zenon
  <1>8. ASSUME NEW i \in 1..Len(seen), NEW j \in 1..Len(items)
        PROVE  seen[i] < items[j]
    <2>1. w.next # Absent
      <3>1. seen # <<>>
        BY <1>7, <1>8
      <3> QED
        BY <1>6, <3>1, Zenon
    <2>2. items[j] \in A /\ items[j] \in V
      BY <1>1, <1>3
    <2>3. items[j] > w.next.key
      BY <1>2, <2>1, <2>2, Zenon
    <2>4. seen[i] \in Int /\ items[j] \in Int
      BY <1>5
    <2>5. PICK key : key = w.next.key /\ key \in Int /\ key = seen[Len(seen)]
      BY <1>6, <2>1, Zenon
    <2>6. seen[i] <= key
      <3>1. CASE i = Len(seen)
        BY <2>4, <2>5, <3>1
      <3>2. CASE i # Len(seen)
        <4>1. Len(seen) \in 1..Len(seen) /\ i < Len(seen)
          BY <1>7, <3>2, BeforeTheLast, Zenon
        <4>2. seen[i] < seen[Len(seen)]
          BY <1>5, <4>1
        <4> QED
          BY <2>4, <2>5, <4>2, LessIsAtMost, Zenon
      <3> QED
        BY <3>1, <3>2
    <2>7. items[j] > key
      BY <2>3, <2>5, Zenon
    <2> QED
      BY <2>4, <2>5, <2>6, <2>7
  <1> HIDE DEF all
  <1>9. ASSUME NEW i \in 1..Len(all), NEW j \in 1..Len(all), i < j
        PROVE  all[i] < all[j]
    <2>1. i \in Int /\ j \in Int
      BY <1>7
    <2>2. CASE j <= Len(seen)
      <3>1. i \in 1..Len(seen) /\ j \in 1..Len(seen)
        BY <1>7, <1>9, <2>1, <2>2
      <3> QED
        BY <1>5, <1>7, <1>9, <3>1
    <2>3. CASE i <= Len(seen) /\ ~(j <= Len(seen))
      <3>1. PICK m \in 1..Len(items) : m = j - Len(seen)
        BY <1>7, <2>3
      <3>2. i \in 1..Len(seen) /\ j = Len(seen) + m
        BY <1>7, <2>1, <2>3, <3>1
      <3>3. all[i] = seen[i] /\ all[j] = items[m]
        BY <1>7, <3>2
      <3> QED
        BY <1>8, <3>2, <3>3
    <2>4. CASE ~(i <= Len(seen)) /\ ~(j <= Len(seen))
      <3>1. PICK l \in 1..Len(items) : l = i - Len(seen)
        BY <1>7, <2>4, Zenon
      <3>2. PICK m \in 1..Len(items) : m = j - Len(seen)
        BY <1>7, <2>4, Zenon
      <3>3. i = Len(seen) + l /\ j = Len(seen) + m /\ l < m
        BY <1>7, <1>9, <2>1, <3>1, <3>2
      <3>4. all[i] = items[l] /\ all[j] = items[m] /\ l < m
        BY <1>7, <3>3
      <3> QED
        BY <1>3, <3>4
    <2> QED
      BY <1>7, <1>9, <2>1, <2>2, <2>3, <2>4
  <1>10. /\ \A e : (\E i \in 1..Len(seen) : seen[i] = e) => \E i \in 1..Len(all) : all[i] = e
         /\ \A e : (\E i \in 1..Len(items) : items[i] = e) => \E i \in 1..Len(all) : all[i] = e
    <2>1. \A i \in 1..Len(seen) : i \in 1..Len(all)
      BY <1>7
    <2>2. \A i \in 1..Len(items) : Len(seen) + i \in 1..Len(all)
      BY <1>7
    <2> QED
      BY <1>7, <2>1, <2>2, Zenon
  <1>11. ASSUME NEW e \in w.throughout, v.over \/ (v.next # Absent /\ e <= v.next.key)
         PROVE  \E i \in 1..Len(all) : all[i] = e
    <2>1. e \in V /\ e \in Int
      BY <1>1, <1>6, EntityNumbers, Zenon
    <2>2. CASE e \notin A
      <3>1. w.next # Absent /\ ~(e > w.next.key)
        BY <1>2, <2>1, <2>2
      <3>2. e <= w.next.key
        BY <1>6, <2>1, <3>1
      <3> QED
        BY <1>6, <1>10, <3>1, <3>2, Zenon
    <2>3. CASE e \in A /\ next = Absent
      BY <1>3, <1>10, <2>3
    <2>4. CASE e \in A /\ next # Absent
      <3>1. v.next.key = last /\ ~v.over /\ v.next # Absent
        BY <1>3, <1>4, <2>4, Zenon
      <3>2. e <= last
        BY <1>11, <3>1
      <3>3. \E i \in 1..Len(items) : items[i] = e
        BY <1>3, <2>4, <3>2
      <3> QED
        BY <1>10, <3>3, Zenon
    <2> QED
      BY <2>2, <2>3, <2>4
  <1>12. ASSUME v.next # Absent
         PROVE  AtCursor(v)
    <2>1. /\ Len(items) \in Nat \ {0} /\ last \in Entities /\ v.next.key = last
          /\ w.kind # "inventory" => v.next.filter = w.filter
      BY <1>3, <1>4, <1>12
    <2>2. Len(all) \in Nat \ {0} /\ all[Len(all)] = last
      <3>1. Len(items) # 0
        BY <2>1, Zenon
      <3>2. PICK S : seen \in Seq(S) /\ items \in Seq(S)
        BY <1>5, Zenon
      <3> QED
        BY <3>1, <3>2, JoinedEnds, Zenon DEF all
    <2> QED
      BY <1>4, <2>1, <2>2, Zenon DEF AtCursor
  <1> QED
    BY <1>1, <1>4, <1>7, <1>9, <1>11, <1>12, Zenon DEF Walking

\* The steps that the walk, the request or what they see takes part in.
SeesMore == UNCHANGED <<present, walk, req>> /\ members \subseteq members'
SeesLess == \E g \in Gateways : LoseRole(g) /\ Forget(g) /\ UNCHANGED <<present, req>>
LEMMA TwinSteps ==
    ASSUME ReadsNext
    PROVE  \/ SeesMore \/ SeesLess
           \/ \E e \in Entities : ProvisionTwin(e)
           \/ \E kind \in Kinds : \E f \in WalkFilters(kind), n \in Limits : StartWalk(kind, f, n)
           \/ \E f \in WalkFilters(walk.kind), n \in Limits : AskPage(f, n)
           \/ \E e \in Entities : AskDetail(e) \/ AskState(e)
           \/ ResolveSource \/ PlatformAdminMiddleware \/ CheckAdmin \/ SendPage
           \/ PrepareDetail \/ GetDetail \/ PrepareState \/ GetState \/ CloseTwin
  <1>1. CASE client = "history"
    <2>1. UNCHANGED twinVars
      BY <1>1 DEF ReadsNext
    <2>2. CASE UNCHANGED members
      BY <2>1, <2>2 DEF SeesMore, twinVars
    <2>3. CASE RolesAndTime
      <3>1. \/ \E g \in Observed : GainRole(g)
            \/ \E g \in Observed : LoseRole(g) /\ Forget(g)
            \/ Expire
        BY <2>3 DEF RolesAndTime
      <3>2. Observed \subseteq Gateways
        BY <1>1, HistoryAssumption DEF Observed
      <3> QED
        BY <2>1, <2>2, <3>1, <3>2 DEF SeesMore, SeesLess, GainRole, Expire, twinVars
    <2>4. CASE Ask \/ Answering \/ Elsewhere
      BY <1>1, <2>2, <2>4 DEF Ask, Answering, Elsewhere, AskHistory, ResolveHistory, ReadRaw,
         ReadBuckets, CloseHistory, StoreRow, accessVars
    <2> QED
      BY <2>3, <2>4 DEF ReadsNext
  <1>2. CASE client # "history"
    <2>1. CASE Ask
      BY <1>2, <2>1 DEF Ask, Kinds
    <2>2. CASE Answering
      BY <1>2, <2>2 DEF Answering
    <2>3. CASE Elsewhere
      BY <1>2, <2>3 DEF Elsewhere, SetAdmin, accessVars, SeesMore
    <2>4. CASE RolesAndTime
      BY <1>2, <2>4 DEF RolesAndTime, Observed, GainRole, Expire, SeesMore, SeesLess, twinVars
    <2> QED
      BY <2>1, <2>2, <2>3, <2>4 DEF ReadsNext
  <1> QED
    BY <1>1, <1>2

LEMMA KindOfAWalk ==
    ASSUME NEW w, w.kind \in Kinds
    PROVE  w # NoWalk
  BY DEF NoWalk, Kinds

LEMMA TwinInitially == ReadsInit => TwinInv
  BY DEF ReadsInit, TwinInit, TwinInv

\* What was seen all along is still seen when more is.
LEMMA ThroughoutKept ==
    ASSUME Throughout(walk), UNCHANGED <<walk>>, present \subseteq present',
           members \subseteq members'
    PROVE  Throughout(walk)'
  BY DEF Throughout, Visible, Authorized

LEMMA WalkKept ==
    ASSUME TwinInv, UNCHANGED <<walk>>, present \subseteq present', members \subseteq members'
    PROVE  (walk = NoWalk \/ (Walking(walk) /\ Throughout(walk)))'
  BY ThroughoutKept DEF TwinInv

LEMMA MoreSeen ==
    ASSUME TwinInv, SeesMore \/ \E e \in Entities : ProvisionTwin(e)
    PROVE  TwinInv'
  <1>1. UNCHANGED <<walk, req>> /\ present \subseteq present' /\ members \subseteq members'
    BY Zenon DEF SeesMore, ProvisionTwin, accessVars
  <1>2. (walk = NoWalk \/ (Walking(walk) /\ Throughout(walk)))'
    BY <1>1, WalkKept
  <1>3. (req = Quiet \/ ForPage(req, walk) \/ ForEntity(req))'
    <2>1. CASE ForEntity(req)
      BY <1>1, <2>1 DEF ForEntity
    <2> QED
      BY <1>1, <2>1 DEF TwinInv
  <1> QED
    BY <1>2, <1>3 DEF TwinInv

LEMMA LessSeen ==
    ASSUME TwinInv, SeesLess
    PROVE  TwinInv'
  <1>1. PICK g \in Gateways : LoseRole(g) /\ Forget(g) /\ UNCHANGED <<present, req>>
    BY DEF SeesLess
  <1>2. CASE walk = NoWalk
    BY <1>1, <1>2 DEF Forget, NoWalk, TwinInv, ForEntity
  <1>3. CASE walk # NoWalk /\ walk.kind = "inventory"
    <2>1. walk' = walk /\ Walking(walk) /\ Throughout(walk)
      BY <1>1, <1>3 DEF Forget, TwinInv
    <2>2. Throughout(walk)'
      BY <1>1, <1>3, <2>1 DEF Throughout, Visible
    <2>3. (req = Quiet \/ ForPage(req, walk) \/ ForEntity(req))'
      BY <1>1, <2>1 DEF TwinInv, ForEntity
    <2> QED
      BY <2>1, <2>2, <2>3 DEF TwinInv
  <1>4. CASE walk # NoWalk /\ walk.kind # "inventory"
    <2>1. Walking(walk) /\ Throughout(walk) /\ WalkFields(walk)
      BY <1>4, Zenon DEF TwinInv, Walking
    <2>2. walk' = [walk EXCEPT !.throughout = {e \in @ : GatewayOf[e] # g}]
      BY <1>1, <1>4, <2>1 DEF Forget, Walking, Kinds
    <2>3. /\ WalkFields(walk') /\ walk'.kind = walk.kind /\ walk'.filter = walk.filter
          /\ walk'.next = walk.next /\ walk'.seen = walk.seen /\ walk'.over = walk.over
          /\ walk'.throughout = {e \in walk.throughout : GatewayOf[e] # g}
      BY <2>1, <2>2 DEF WalkFields
    <2>4. Walking(walk')
      <3>1. walk.next # Absent => AtCursor(walk')
        BY <2>1, <2>3, Zenon DEF Walking, AtCursor
      <3>2. \A e \in walk'.throughout : e \in walk.throughout
        BY <2>3, Zenon
      <3>3. \A e \in walk'.throughout : walk.over \/ (walk.next # Absent /\ e <= walk.next.key) =>
               \E i \in 1..Len(walk.seen) : walk.seen[i] = e
        BY <2>1, <3>2, Zenon DEF Walking
      <3>4. /\ walk'.kind \in Kinds /\ walk'.filter \in WalkFilters(walk'.kind)
            /\ walk'.seen \in Seq(Selected(walk'.filter))
            /\ walk'.next = Absent /\ ~walk'.over => walk'.seen = <<>>
            /\ walk'.over => walk'.next = Absent
        BY <2>1, <2>3, Zenon DEF Walking
      <3>5. \A i, j \in 1..Len(walk'.seen) : i < j => walk'.seen[i] < walk'.seen[j]
        BY <2>1, <2>3, Zenon DEF Walking
      <3> QED
        BY <2>3, <3>1, <3>3, <3>4, <3>5, Zenon DEF Walking
    <2>5. Throughout(walk)'
      BY <1>1, <2>1, <2>3 DEF Throughout, Visible, Authorized, LoseRole
    <2>6. walk' # NoWalk
      <3>1. walk'.kind \in Kinds
        BY <2>1, <2>3, Zenon DEF Walking
      <3> QED
        BY <3>1, KindOfAWalk, Zenon
    <2>7. (req = Quiet \/ ForPage(req, walk) \/ ForEntity(req))'
      <3>1. ForPage(req, walk) => ForPage(req, walk')
        BY <2>3, <2>6 DEF ForPage
      <3> QED
        BY <1>1, <3>1 DEF TwinInv, ForEntity
    <2> QED
      BY <2>4, <2>5, <2>7 DEF TwinInv
  <1> QED
    BY <1>2, <1>3, <1>4

\* A page request that is accepted asks for at least one row.
LEMMA Requested ==
    ASSUME NEW kind \in Kinds, NEW f, NEW limit \in Limits, NEW c, Request(kind, f, limit, c)
    PROVE  /\ PageFields(req') /\ req'.kind = kind /\ req'.filter = f /\ req'.limit = limit
           /\ req'.after = c /\ limit \in Nat
           /\ req'.phase \in {"middleware", "page", "resolve", "done"}
           /\ req'.outcome = Refused(kind, f, limit, c)
           /\ req'.phase \in {"page", "resolve"} => req'.outcome = "ok"
           /\ req'.outcome = "ok" => limit # 0
  <1>1. Refused(kind, f, limit, c) = "ok" => limit \in 1..MaxLimit
    BY DEF Kinds, Refused, ParseTwinListQuery, ParseTwinDetailQuery, listAdminGateways, ParsePage
  <1>2. limit \in Nat /\ MaxLimit \in Nat
    BY TwinAssumption, Zenon
  <1>3. /\ FirstPhase(kind, Refused(kind, f, limit, c)) \in {"middleware", "page", "resolve", "done"}
        /\ FirstPhase(kind, Refused(kind, f, limit, c)) \in {"page", "resolve"} =>
              Refused(kind, f, limit, c) = "ok"
    BY DEF FirstPhase, Kinds
  <1>4. req' = [phase |-> FirstPhase(kind, Refused(kind, f, limit, c)), kind |-> kind, filter |-> f,
                limit |-> limit, after |-> c, outcome |-> Refused(kind, f, limit, c)]
    BY DEF Request
  <1>5. /\ PageFields(req') /\ req'.kind = kind /\ req'.filter = f /\ req'.limit = limit
        /\ req'.after = c /\ req'.phase = FirstPhase(kind, Refused(kind, f, limit, c))
        /\ req'.outcome = Refused(kind, f, limit, c)
    BY <1>4 DEF PageFields
  <1> QED
    BY <1>1, <1>2, <1>3, <1>5

LEMMA WalkStarts ==
    ASSUME TwinInv, NEW kind \in Kinds, NEW f \in WalkFilters(kind), NEW n \in Limits,
           StartWalk(kind, f, n)
    PROVE  TwinInv'
  <1>1. /\ walk' = [kind |-> kind, filter |-> f, next |-> Absent, seen |-> <<>>,
                    over |-> FALSE, throughout |-> Visible(kind, f)]
        /\ Request(kind, f, n, Absent) /\ UNCHANGED <<members, present>>
    BY DEF StartWalk
  <1>2. /\ WalkFields(walk') /\ walk'.kind = kind /\ walk'.filter = f /\ walk'.next = Absent
        /\ walk'.seen = <<>> /\ ~walk'.over /\ walk'.throughout = Visible(kind, f)
    BY <1>1 DEF WalkFields
  <1>3. Walking(walk')
    <2>1. <<>> \in Seq(Selected(f)) /\ Len(<<>>) = 0 /\ \A i, j \in 1..0 : FALSE
      OBVIOUS
    <2> QED
      BY <1>2, <2>1, Zenon DEF Walking
  <1>4. Throughout(walk)'
    <2>1. Visible(kind, f)' = Visible(kind, f)
      BY <1>1 DEF Visible, Authorized
    <2> QED
      BY <1>2, <2>1, Zenon DEF Throughout
  <1>5. walk' # NoWalk
    <2>1. walk'.kind \in Kinds
      BY <1>2, Zenon
    <2> QED
      BY <2>1, KindOfAWalk, Zenon
  <1>6. ForPage(req', walk')
    BY <1>1, <1>2, <1>5, Requested DEF ForPage
  <1> QED
    BY <1>3, <1>4, <1>6 DEF TwinInv

\* The next page is asked for under the filter of the walk, or refused.
LEMMA PageAsked ==
    ASSUME TwinInv, NEW f \in WalkFilters(walk.kind), NEW n \in Limits, AskPage(f, n)
    PROVE  TwinInv'
  <1>1. /\ walk # NoWalk /\ ~walk.over /\ Request(walk.kind, f, n, walk.next)
        /\ UNCHANGED <<members, present, walk>>
        /\ f = walk.filter \/ walk.next # Absent
        /\ Walking(walk) /\ walk.kind \in Kinds
    BY Zenon DEF AskPage, TwinInv, Walking
  <1>2. /\ PageFields(req') /\ req'.kind = walk.kind /\ req'.filter = f /\ req'.limit = n
        /\ req'.after = walk.next /\ n \in Nat
        /\ req'.phase \in {"middleware", "page", "resolve", "done"}
        /\ req'.outcome = Refused(walk.kind, f, n, walk.next)
        /\ req'.phase \in {"page", "resolve"} => req'.outcome = "ok"
        /\ req'.outcome = "ok" => n # 0
    BY <1>1, Requested, Zenon
  <1>3. ASSUME req'.outcome = "ok", f # walk.filter
        PROVE  FALSE
    <2>1. walk.next # Absent /\ (walk.kind # "inventory" => walk.next.filter = walk.filter)
      BY <1>1, <1>3, Zenon DEF Walking, AtCursor
    <2>2. CASE walk.kind = "list"
      BY <1>2, <1>3, <2>1, <2>2 DEF Refused, ParseTwinListQuery, ParsePage, ValidateListCursor
    <2>3. CASE walk.kind = "relationships"
      <3>1. walk.next.filter.gateway = f.gateway
        BY <1>2, <1>3, <2>1, <2>3
        DEF Refused, ParseTwinDetailQuery, ParsePage, ValidateRelationshipCursor
      <3>2. /\ f \in [gateway : Gateways, type : {"Sensor"}]
            /\ walk.filter \in [gateway : Gateways, type : {"Sensor"}]
        BY <1>1, <2>3 DEF WalkFilters, Walking
      <3> QED
        BY <1>3, <2>1, <2>3, <3>1, <3>2
    <2>4. CASE walk.kind = "inventory"
      BY <1>1, <1>3, <2>4 DEF WalkFilters, Walking
    <2> QED
      BY <1>1, <2>2, <2>3, <2>4 DEF Kinds
  <1>4. ForPage(req', walk')
    BY <1>1, <1>2, <1>3, Zenon DEF ForPage
  <1>5. (walk = NoWalk \/ (Walking(walk) /\ Throughout(walk)))'
    BY <1>1, WalkKept
  <1> QED
    BY <1>4, <1>5 DEF TwinInv

LEMMA EntityAsked ==
    ASSUME TwinInv, NEW e \in Entities, AskDetail(e) \/ AskState(e)
    PROVE  TwinInv'
  <1>1. PICK route \in {"detail", "state"} : AskEntity(route, e)
    BY DEF AskDetail, AskState
  <1>2. /\ req' = [phase |-> "resolve", kind |-> route, entity |-> e, outcome |-> "ok"]
        /\ UNCHANGED <<members, present, walk>>
    BY <1>1 DEF AskEntity
  <1>3. ForEntity(req)'
    BY <1>2 DEF ForEntity, EntityFields
  <1>4. (walk = NoWalk \/ (Walking(walk) /\ Throughout(walk)))'
    BY <1>2, WalkKept
  <1> QED
    BY <1>3, <1>4 DEF TwinInv

\* A page request moves on to its next statement, or ends.
LEMMA PageMoves ==
    ASSUME TwinInv, ResolveSource \/ PlatformAdminMiddleware \/ CheckAdmin
    PROVE  TwinInv'
  <1>1. /\ req.phase \in {"resolve", "middleware", "admin"}
        /\ req.phase = "resolve" => req.kind = "relationships"
        /\ \/ \E o : End(o)
           \/ req' = [req EXCEPT !.phase = "page"] /\ req.phase # "middleware"
           \/ /\ req' = [req EXCEPT !.phase = IF req.outcome = "ok" THEN "admin" ELSE "done"]
              /\ req.phase = "middleware"
        /\ UNCHANGED <<members, present, walk>>
    BY DEF ResolveSource, PlatformAdminMiddleware, CheckAdmin, accessVars
  <1>2. ForPage(req, walk)
    BY <1>1 DEF TwinInv, Quiet, ForEntity
  <1>3. ForPage(req', walk)
    <2>1. CASE \E o : End(o)
      BY <1>2, <2>1, Ended DEF ForPage
    <2>2. CASE req' = [req EXCEPT !.phase = "page"] /\ req.phase # "middleware"
      <3>1. /\ PageFields(req') /\ req'.phase = "page" /\ req'.kind = req.kind
            /\ req'.filter = req.filter /\ req'.limit = req.limit /\ req'.after = req.after
        BY <1>2, <2>2 DEF ForPage, PageFields
      <3> QED
        BY <1>1, <1>2, <2>2, <3>1 DEF ForPage
    <2>3. CASE /\ req' = [req EXCEPT !.phase = IF req.outcome = "ok" THEN "admin" ELSE "done"]
               /\ req.phase = "middleware"
      <3>1. /\ PageFields(req') /\ req'.phase = IF req.outcome = "ok" THEN "admin" ELSE "done"
            /\ req'.kind = req.kind
            /\ req'.filter = req.filter /\ req'.limit = req.limit /\ req'.after = req.after
        BY <1>2, <2>3 DEF ForPage, PageFields
      <3> QED
        BY <1>1, <1>2, <2>3, <3>1 DEF ForPage
    <2> QED
      BY <1>1, <2>1, <2>2, <2>3
  <1>4. (walk = NoWalk \/ (Walking(walk) /\ Throughout(walk)))'
    BY <1>1, WalkKept
  <1> QED
    BY <1>1, <1>3, <1>4 DEF TwinInv

LEMMA PageSent ==
    ASSUME TwinInv, SendPage
    PROVE  TwinInv'
  <1>1. req.phase = "page" /\ UNCHANGED <<members, present>>
    BY DEF SendPage, accessVars
  <1>2. /\ ForPage(req, walk) /\ walk # NoWalk /\ ~walk.over /\ req.kind = walk.kind
        /\ req.after = walk.next /\ req.filter = walk.filter /\ req.limit \in Nat \ {0}
        /\ Walking(walk) /\ Throughout(walk)
    <2>1. req # Quiet /\ ~ForEntity(req)
      BY <1>1 DEF Quiet, ForEntity
    <2>2. ForPage(req, walk)
      BY <2>1, Zenon DEF TwinInv
    <2>3. /\ walk # NoWalk /\ ~walk.over /\ req.kind = walk.kind /\ req.after = walk.next
          /\ req.filter = walk.filter /\ req.limit \in Nat /\ req.limit # 0
      BY <1>1, <2>2, Zenon DEF ForPage
    <2>4. Walking(walk) /\ Throughout(walk)
      BY <2>3, Zenon DEF TwinInv
    <2> QED
      BY <2>2, <2>3, <2>4
  <1>3. \E o : End(o)
    BY DEF SendPage
  <1>4. ForPage(req', walk')
    BY <1>2, <1>3, Ended, Zenon DEF ForPage
  <1>5. CASE UNCHANGED walk
    <2>1. (walk = NoWalk \/ (Walking(walk) /\ Throughout(walk)))'
      BY <1>1, <1>5, WalkKept
    <2> QED
      BY <1>4, <2>1 DEF TwinInv
  <1>6. CASE walk' = [walk EXCEPT !.seen = @ \o ReadPage(req).items, !.next = ReadPage(req).next,
                                  !.over = ReadPage(req).next = Absent]
    <2>1. ReadPage(req) =
            Page(walk.kind, walk.filter,
                 Fetch(Visible(walk.kind, walk.filter), walk.next, req.limit + 1), req.limit)
      BY <1>2, Zenon DEF ReadPage
    <2>2. /\ Walking(walk') /\ walk'.throughout = walk.throughout
          /\ walk'.kind = walk.kind /\ walk'.filter = walk.filter
      <3>1. PICK p : p = ReadPage(req)
        OBVIOUS
      <3>2. walk' = [walk EXCEPT !.seen = @ \o p.items, !.next = p.next, !.over = p.next = Absent]
        BY <1>6, <3>1
      <3>3. Added(walk', walk, p, req.limit)
        BY <2>1, <3>1, <3>2 DEF Added
      <3> QED
        BY <1>2, <3>3, PageAdded, Zenon
    <2>3. Throughout(walk)'
      BY <1>1, <1>2, <2>2 DEF Throughout, Visible, Authorized
    <2> QED
      BY <1>4, <2>2, <2>3 DEF TwinInv
  <1> QED
    BY <1>5, <1>6 DEF SendPage

\* What one statement of an entity request does.
LEMMA Staged ==
    ASSUME TwinInv, NEW from \in {"resolve", "detail", "resolve_state", "state"},
           NEW to \in {"detail", "resolve_state", "state", "done"}, NEW found,
           Stage(from, to, found)
    PROVE  /\ ForEntity(req) /\ EntityFields(req') /\ UNCHANGED <<members, present, walk>>
           /\ req'.kind = req.kind /\ req'.entity = req.entity
           /\ \/ req'.phase = "done" /\ req'.outcome = "service_unavailable"
              \/ req'.phase = "done" /\ req'.outcome = "not_found" /\ ~found
              \/ req'.phase = to /\ req'.outcome = "ok" /\ found
  <1>1. /\ req.phase = from /\ req.kind \in {"detail", "state"}
        /\ UNCHANGED <<members, present, walk>>
        /\ \/ End("service_unavailable")
           \/ End("not_found") /\ ~found
           \/ req' = [req EXCEPT !.phase = to] /\ found
    BY DEF Stage, accessVars
  <1>2. ForEntity(req) /\ EntityFields(req) /\ req.outcome = "ok"
    BY <1>1 DEF TwinInv, Quiet, ForPage, Kinds, ForEntity
  <1>3. CASE req' = [req EXCEPT !.phase = to] /\ found
    <2>1. /\ EntityFields(req') /\ req'.phase = to /\ req'.kind = req.kind
          /\ req'.entity = req.entity /\ req'.outcome = req.outcome
      BY <1>2, <1>3 DEF EntityFields
    <2> QED
      BY <1>1, <1>2, <1>3, <2>1
  <1> QED
    BY <1>1, <1>2, <1>3, Ended

LEMMA EntityMoves ==
    ASSUME TwinInv, PrepareDetail \/ GetDetail \/ PrepareState \/ GetState
    PROVE  TwinInv'
  <1>1. PICK from \in {"resolve", "detail", "resolve_state", "state"},
             to \in {"detail", "resolve_state", "state", "done"} :
                Stage(from, to, ResolveEntity(req.entity))
    BY DEF PrepareDetail, GetDetail, PrepareState, GetState, ReadEntity
  <1>2. PICK found : found = ResolveEntity(req.entity)
    OBVIOUS
  <1>3. Stage(from, to, found)
    BY <1>1, <1>2
  <1>4. /\ ForEntity(req) /\ EntityFields(req') /\ UNCHANGED <<members, present, walk>>
        /\ req'.kind = req.kind /\ req'.entity = req.entity
        /\ \/ req'.phase = "done"
           \/ req'.phase = to /\ req'.outcome = "ok" /\ found
    BY <1>3, Staged
  <1>5. ForEntity(req)'
    BY <1>2, <1>4, Zenon DEF ForEntity, ResolveEntity
  <1>6. (walk = NoWalk \/ (Walking(walk) /\ Throughout(walk)))'
    BY <1>4, WalkKept
  <1> QED
    BY <1>5, <1>6 DEF TwinInv

LEMMA TwinStep == TwinInv /\ [ReadsNext]_readsVars => TwinInv'
  <1> SUFFICES ASSUME TwinInv, [ReadsNext]_readsVars PROVE TwinInv'
    OBVIOUS
  <1>1. CASE UNCHANGED readsVars
    BY <1>1, MoreSeen DEF readsVars, accessVars, twinVars, SeesMore
  <1>2. CASE ReadsNext
    <2>1. CASE CloseTwin
      <3>1. req' = Quiet /\ UNCHANGED <<members, present, walk>>
        BY <2>1 DEF CloseTwin, accessVars
      <3>2. (walk = NoWalk \/ (Walking(walk) /\ Throughout(walk)))'
        BY <3>1, WalkKept
      <3> QED
        BY <3>1, <3>2 DEF TwinInv
    <2> QED
      BY <1>2, <2>1, TwinSteps, MoreSeen, LessSeen, WalkStarts, PageAsked, EntityAsked, PageMoves,
         PageSent, EntityMoves
  <1> QED
    BY <1>1, <1>2

\* Every walk that came to its end has shown every entity that was visible from its
\* first request to its last, in order and once: for any entities, filters and page
\* limits, any number of pages, and whatever was provisioned, granted, taken away or
\* asked for again between them (PostgreSQLRepository's keyset pages and cursors).
THEOREM WalksAreComplete == ReadsSpec => []WalkIsComplete
  <1>1. TwinInv => WalkIsComplete
    <2> SUFFICES ASSUME TwinInv, walk # NoWalk
                 PROVE  /\ \A i \in 1..Len(walk.seen) - 1 : walk.seen[i] < walk.seen[i + 1]
                        /\ Range(walk.seen) \subseteq Selected(walk.filter)
                        /\ walk.over => walk.throughout \subseteq Range(walk.seen)
      BY DEF WalkIsComplete
    <2>1. PICK s, n : s = walk.seen /\ n = Len(s)
      BY Zenon
    <2>2. /\ s \in Seq(Selected(walk.filter)) /\ n \in Nat
          /\ \A i, j \in 1..n : i < j => s[i] < s[j]
          /\ walk.over => \A e \in walk.throughout : \E i \in 1..n : s[i] = e
      <3>1. Walking(walk)
        BY DEF TwinInv
      <3>2. s \in Seq(Selected(walk.filter))
        BY <2>1, <3>1, Zenon DEF Walking
      <3>3. /\ \A i, j \in 1..n : i < j => s[i] < s[j]
            /\ walk.over => \A e \in walk.throughout : \E i \in 1..n : s[i] = e
        BY <2>1, <3>1, Zenon DEF Walking
      <3> QED
        BY <2>1, <3>2, <3>3
    <2>3. DOMAIN s = 1..n /\ \A i \in 1..n : s[i] \in Selected(walk.filter)
      BY <2>1, <2>2
    <2>4. \A i \in 1..n - 1 : i \in 1..n /\ i + 1 \in 1..n /\ i < i + 1
      BY <2>2
    <2> QED
      BY <2>1, <2>2, <2>3, <2>4, Zenon DEF Range
  <1> QED
    BY <1>1, TwinInitially, TwinStep, PTL DEF ReadsSpec

\* The answer of each kind of request, by the role at its last statement.
LEMMA HistoryFollows ==
    ASSUME HistoryInv, ReadsNext, read.phase \in {"query", "fallback"}, read'.phase = "done"
    PROVE  /\ read'.outcome = "ok" => Gateway \in members
           /\ read'.outcome = "not_found" => Gateway \notin members
  <1>1. Reading(read) /\ HistoryFields(read)
    BY DEF HistoryInv, Reading, Idle
  <1>2. CASE ReadRaw
    <2>1. ~FallsBack
      <3> SUFFICES ASSUME FallsBack PROVE FALSE
        OBVIOUS
      <3>1. read'.phase = "fallback"
        BY <1>1 DEF FallsBack, HistoryFields
      <3> QED
        BY <3>1
    <2>2. CASE RawAnswer
      BY <1>1, <2>2, Answered DEF RawAnswer
    <2>3. CASE Failed \/ Hidden \/ Reply("raw_limit_exceeded")
      BY <1>1, <2>3, Replied DEF Failed, Hidden
    <2> QED
      BY <1>2, <2>1, <2>2, <2>3, RawOutcome
  <1>3. CASE ReadBuckets
    <2>1. CASE Failed \/ Hidden
      BY <1>1, <2>1, Replied DEF Failed, Hidden
    <2>2. CASE \E res \in Resolutions : BucketAnswer(res)
      BY <1>1, <2>2, Answered DEF BucketAnswer
    <2> QED
      BY <1>3, <2>1, <2>2, BucketOutcome
  <1>4. /\ ~ResolveHistory /\ ~CloseHistory /\ ~UNCHANGED historyVars
        /\ \A q \in HistoryRequests : ~AskHistory(q)
        /\ \A w \in Rows : ~StoreRow(w)
    BY DEF AskHistory, Idle, ResolveHistory, CloseHistory, StoreRow, historyVars
  <1> QED
    BY <1>2, <1>3, <1>4, HistorySteps

LEMMA EntityFollows ==
    ASSUME TwinInv, ReadsNext, req.phase \in {"detail", "state"}, req'.phase = "done"
    PROVE  /\ req'.outcome = "ok" => GatewayOf[req.entity] \in members
           /\ req'.outcome = "not_found" => GatewayOf[req.entity] \notin members
  <1>1. GetDetail \/ GetState
    <2>1. /\ ~SeesMore /\ ~SeesLess /\ \A e \in Entities : ~ProvisionTwin(e)
          /\ ~ResolveSource /\ ~PlatformAdminMiddleware /\ ~CheckAdmin /\ ~SendPage
          /\ ~PrepareDetail /\ ~PrepareState /\ ~CloseTwin
      BY DEF SeesMore, SeesLess, ProvisionTwin, ResolveSource, PlatformAdminMiddleware, CheckAdmin,
         SendPage, PrepareDetail, PrepareState, Stage, CloseTwin
    <2>2. req # Quiet
      BY DEF Quiet
    <2> QED
      BY <2>1, <2>2, TwinSteps, Zenon DEF StartWalk, AskPage, AskDetail, AskState, AskEntity
  <1>2. PICK from \in {"detail", "state"}, to \in {"resolve_state", "done"} :
            Stage(from, to, ResolveEntity(req.entity))
    BY <1>1 DEF GetDetail, GetState, ReadEntity
  <1>3. PICK found : found = ResolveEntity(req.entity)
    OBVIOUS
  <1>4. Stage(from, to, found) /\ req.phase = from
    BY <1>2, <1>3 DEF Stage
  <1>5. /\ ForEntity(req)
        /\ \/ req'.outcome = "service_unavailable"
           \/ req'.outcome = "not_found" /\ ~found
           \/ req'.outcome = "ok" /\ found
    BY <1>4, Staged
  <1>6. req.entity \in present
    BY <1>4, <1>5 DEF ForEntity
  <1> QED
    BY <1>3, <1>5, <1>6, Zenon DEF ResolveEntity, Authorized

LEMMA PageFollows ==
    ASSUME TwinInv, ReadsNext, req.phase = "page", req.kind = "relationships", req'.phase = "done"
    PROVE  /\ req'.outcome = "ok" => req.filter.gateway \in members
           /\ req'.outcome = "not_found" => req.filter.gateway \notin members
  <1>1. SendPage
    <2>1. /\ ~SeesMore /\ ~SeesLess /\ \A e \in Entities : ~ProvisionTwin(e)
          /\ ~ResolveSource /\ ~PlatformAdminMiddleware /\ ~CheckAdmin
          /\ ~PrepareDetail /\ ~GetDetail /\ ~PrepareState /\ ~GetState /\ ~CloseTwin
      BY DEF SeesMore, SeesLess, ProvisionTwin, ResolveSource, PlatformAdminMiddleware, CheckAdmin,
         PrepareDetail, GetDetail, PrepareState, GetState, Stage, CloseTwin
    <2>2. req # Quiet
      BY DEF Quiet
    <2> QED
      BY <2>1, <2>2, TwinSteps, Zenon DEF StartWalk, AskPage, AskDetail, AskState, AskEntity
  <1>2. PageFields(req)
    <2>1. req # Quiet /\ ~ForEntity(req)
      BY DEF Quiet, ForEntity
    <2> QED
      BY <2>1, Zenon DEF TwinInv, ForPage
  <1>3. \/ End("service_unavailable")
        \/ End("not_found") /\ req.filter.gateway \notin members
        \/ End("ok") /\ req.filter.gateway \in members
    BY <1>1 DEF SendPage, Authorized
  <1> QED
    BY <1>2, <1>3, Ended

\* Every request about one gateway is answered by the caller's role at its last
\* statement: data only with the role, "not found" only without it, whatever roles
\* changed between its statements, for every set of gateways, entities and rows.
THEOREM RolesAtTheEnd == ReadsSpec => AnswersFollowMembership
  <1>1. ASSUME HistoryInv, TwinInv, [ReadsNext]_readsVars
        PROVE  [/\ (read.phase \in {"query", "fallback"} /\ read'.phase = "done") =>
                     /\ read'.outcome = "ok" => Gateway \in members
                     /\ read'.outcome = "not_found" => Gateway \notin members
                /\ (req.phase \in {"detail", "state"} /\ req'.phase = "done") =>
                     /\ req'.outcome = "ok" => GatewayOf[req.entity] \in members
                     /\ req'.outcome = "not_found" => GatewayOf[req.entity] \notin members
                /\ (req.phase = "page" /\ req.kind = "relationships" /\ req'.phase = "done") =>
                     /\ req'.outcome = "ok" => req.filter.gateway \in members
                     /\ req'.outcome = "not_found" => req.filter.gateway \notin members]_readsVars
    BY <1>1, HistoryFollows, EntityFollows, PageFollows, Zenon
  <1> QED
    BY <1>1, HistoryInitially, HistoryStep, TwinInitially, TwinStep, PTL
    DEF ReadsSpec, AnswersFollowMembership
=============================================================================
