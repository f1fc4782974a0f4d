-------------------------------- MODULE History --------------------------------
(***************************************************************************)
(* Reading the history of a sensor: GET /v1/digital-twins/{id}/temporal     *)
(* (route "temporal"), and the handlers getTelemetryHistory ("telemetry")   *)
(* and getDigitalTwinHistory ("twin"), which the router no longer registers *)
(* but which are still what the two services are built and tested for.  The *)
(* property "value" is read from the telemetry hypertable,                  *)
(* "sample_interval_us" from twin_temporal_values.                          *)
(*                                                                          *)
(* A read is: parse and validate; resolve the sensor under the caller's     *)
(* membership; one statement for the rows or the buckets.  A short window   *)
(* with resolution auto is probed for raw rows first, and read a second     *)
(* time in buckets when there are too many.  Batches are stored and roles   *)
(* change between any two of these steps.                                   *)
(*                                                                          *)
(* Times are microseconds since the epoch, negative ones included.  The     *)
(* series is the sequence of its stored rows in the order of their          *)
(* insertion (which is the order of sample_id); values are left out.        *)
(***************************************************************************)
EXTENDS ReadAccess, Functions, FiniteSetsExt

CONSTANTS
    Gateway,                    \* the gateway of the sensor that is read
    AllowedBucketResolutions,   \* the resolutions, finest first
    Duration,                   \* resolution -> width in microseconds
    MaxRange, RawWindow,        \* cfg: longest range, longest raw range
    MinPoints, MaxPoints,       \* cfg: bounds on max_points
    Rows,                       \* rows a batch may add: [at, type, unit]
    MaxRows,                    \* bound on the rows of the series
    HistoryRequests,            \* the requests clients send
    Unknown                     \* no unit in the metadata of a row

VARIABLES
    series,     \* the stored rows, in insertion order
    read        \* the request in progress

historyVars == <<series, read>>

Resolutions == Range(AllowedBucketResolutions)
Routes == {"telemetry", "twin", "temporal"}
Properties == {"value", "sample_interval_us"}

\* The configuration a server starts with.  The hard caps keep the longest range,
\* in buckets of the coarsest resolution, below the smallest number of points a
\* client may ask for (744 hours, a day, 100 points).
ValidateHistoryPreparationConfig ==
    /\ 0 < RawWindow /\ RawWindow <= MaxRange
    /\ 0 < MinPoints /\ MinPoints <= MaxPoints
    /\ \E r \in Resolutions : MaxRange <= Duration[r] * (MinPoints - 1)

ASSUME HistoryAssumption ==
    /\ Gateway \in Gateways
    /\ AllowedBucketResolutions \in Seq(STRING \ {"raw", "auto", "unsupported", "none"})
    /\ \A r \in Resolutions : Duration[r] \in Nat \ {0}
    /\ {MaxRange, RawWindow, MinPoints, MaxPoints} \subseteq Nat
    /\ ValidateHistoryPreparationConfig
    /\ \A w \in Rows : w.at \in Int
    /\ HistoryRequests \subseteq
        [route : Routes, entity : {"Gateway", "Sensor"}, property : STRING, form : STRING,
         format : STRING, from : Int, to : Int, max : Int,
         res : Resolutions \cup {"raw", "auto", "unsupported"}]
    /\ \A q \in HistoryRequests :
        /\ q.route = "telemetry" => q.property = "value" /\ q.entity = "Sensor"
        /\ q.route = "temporal" => q.res # "auto"

Idle == [phase |-> "idle"]
HistoryInit == series = <<>> /\ read = Idle

-----------------------------------------------------------------------------
\* Go's division truncates towards zero; floorDiv corrects it.
GoDiv(a, b) == IF a >= 0 THEN a \div b ELSE -((-a) \div b)
MutFloorDiv(a, b) == GoDiv(a, b)
floorDiv(a, b) ==
    LET d == GoDiv(a, b)
        r == a - b * d
    IN IF r # 0 /\ ((r < 0) # (b < 0)) THEN d - 1 ELSE d

\* The number of buckets of this width, aligned to the epoch, that meet [from, to).
IntersectingBucketCount(from, to, width) ==
    floorDiv(to - 1, width) - floorDiv(from, width) + 1

\* The finest resolution with which the window has at most max buckets.
Fitting(q) ==
    {k \in DOMAIN AllowedBucketResolutions :
        IntersectingBucketCount(q.from, q.to, Duration[AllowedBucketResolutions[k]]) <= q.max}
SelectAutoBucketResolution(q) ==
    IF Fitting(q) = {} THEN "none" ELSE AllowedBucketResolutions[Min(Fitting(q))]

\* A bucket resolution that makes more than max buckets of the window.
TooFine(q, res) ==
    res \in Resolutions /\ IntersectingBucketCount(q.from, q.to, Duration[res]) > q.max
ValidateHistoryTimeRange(q) ==
    IF q.from >= q.to THEN "invalid_request"
    ELSE IF q.to - q.from > MaxRange THEN "range_too_large"
    ELSE IF q.res = "unsupported" THEN "invalid_resolution"
    ELSE IF q.res = "raw" /\ q.to - q.from > RawWindow THEN "raw_limit_exceeded"
    ELSE IF TooFine(q, q.res) THEN "resolution_too_fine"
    ELSE "ok"

\* The strict parser of a query string: unknown, repeated, empty or missing
\* parameters, and values that do not parse.
parseRawQuery(q) == q.form = "wellformed"

\* The three parsers.  Each refuses a request before anything is read.
parseCommonTimeAndResolution(q) ==
    IF q.res = "unsupported" THEN "invalid_resolution"
    ELSE IF q.max \notin MinPoints..MaxPoints THEN "invalid_request"
    ELSE ValidateHistoryTimeRange(q)
ParseTelemetryHistoryQuery(q) ==
    IF ~parseRawQuery(q) THEN "invalid_request" ELSE parseCommonTimeAndResolution(q)
ParseTwinHistoryQuery(q) ==
    IF ~parseRawQuery(q) THEN "invalid_request"
    ELSE IF q.entity = "Gateway" \/ q.property \notin Properties THEN "invalid_property"
    ELSE parseCommonTimeAndResolution(q)

\* /temporal: the entity and the attribute, then the times; a missing period
\* means raw, never auto, and the format has to agree with it.
TemporalSelection(q) ==
    IF q.entity = "Gateway" THEN "invalid_property"
    ELSE IF ~parseRawQuery(q) THEN "invalid_request"
    ELSE IF q.property \notin Properties THEN "invalid_property"
    ELSE IF q.from >= q.to THEN "invalid_request"
    ELSE "ok"
TemporalPeriod(q) ==
    IF q.res = "unsupported" THEN "invalid_resolution"
    ELSE IF \/ q.format = "temporalValues" /\ q.res \in Resolutions
            \/ q.format = "aggregatedValues" /\ q.res = "raw" THEN "invalid_request"
    ELSE "ok"
ParseTemporalHistoryQuery(q) ==
    IF TemporalSelection(q) # "ok" THEN TemporalSelection(q)
    ELSE IF TemporalPeriod(q) # "ok" THEN TemporalPeriod(q)
    ELSE IF q.max \notin MinPoints..MaxPoints THEN "invalid_request"
    ELSE ValidateHistoryTimeRange(q)

\* The prepare functions validate again, behind the HTTP layer.
PrepareTelemetryHistory(q) ==
    IF q.max \notin MinPoints..MaxPoints THEN "invalid_request"
    ELSE ValidateHistoryTimeRange(q)
PrepareHistory(q) ==
    IF q.entity # "Sensor" \/ q.property \notin Properties THEN "invalid_property"
    ELSE IF q.max \notin MinPoints..MaxPoints THEN "invalid_request"
    ELSE ValidateHistoryTimeRange(q)

\* The handlers: what a request is refused with, if it is, before it reads.
getTelemetryHistory(q) ==
    IF ParseTelemetryHistoryQuery(q) # "ok" THEN ParseTelemetryHistoryQuery(q)
    ELSE PrepareTelemetryHistory(q)
getDigitalTwinHistory(q) ==
    IF ParseTwinHistoryQuery(q) # "ok" THEN ParseTwinHistoryQuery(q) ELSE PrepareHistory(q)
getDigitalTwinTemporal(q) ==
    IF ParseTemporalHistoryQuery(q) # "ok" THEN ParseTemporalHistoryQuery(q)
    ELSE PrepareHistory(q)
RefusedHistory(q) ==
    CASE q.route = "telemetry" -> getTelemetryHistory(q)
      [] q.route = "twin" -> getDigitalTwinHistory(q)
      [] OTHER -> getDigitalTwinTemporal(q)

-----------------------------------------------------------------------------
\* The statements.  Each sees the series as it is when it runs.

\* Rows with from <= at < to, by time and then by insertion.
InWindow(q) == {i \in DOMAIN series : q.from <= series[i].at /\ series[i].at < q.to}
ByTime(I) ==
    {p \in I \X I : \/ series[p[1]].at < series[p[2]].at
                    \/ series[p[1]].at = series[p[2]].at /\ p[1] <= p[2]}
RawRows(q) == Limit(OrderBy(InWindow(q), ByTime(InWindow(q))), q.max + 1)

\* TimescaleDB's time_bucket with the epoch as origin.
time_bucket(width, t) == width * (t \div width)

BucketOf(width, i) == time_bucket(width, series[i].at)
Starts(q, width) == {BucketOf(width, i) : i \in InWindow(q)}
Bucket(q, width, s) ==
    [start |-> s, count |-> Cardinality({i \in InWindow(q) : BucketOf(width, i) = s})]
BucketRows(q, width) ==
    LET sorted == OrderBy(Starts(q, width), Ascending(Starts(q, width)))
    IN Limit([k \in DOMAIN sorted |-> Bucket(q, width, sorted[k])], q.max + 1)

\* The CTE window_summary: the whole window, not only the rows returned.
window_summary(q) ==
    [total |-> Cardinality(InWindow(q)),
     number |-> Cardinality({i \in InWindow(q) : series[i].type = "number"}),
     unknown |-> Cardinality({i \in InWindow(q) : series[i].unit = Unknown}),
     units |-> {series[i].unit : i \in InWindow(q)} \ {Unknown}]

\* The unit of the window, or why it has no single one.  A row that is not a
\* number is a breach of what the writer stores for this property.
classifyTemporalWindow(s) ==
    IF s.number < s.total THEN [status |-> "internal_error", unit |-> Unknown]
    ELSE IF s.unknown = s.total THEN [status |-> "ok", unit |-> Unknown]
    ELSE IF s.unknown = 0 /\ Cardinality(s.units) = 1
    THEN [status |-> "ok", unit |-> CHOOSE u \in s.units : TRUE]
    ELSE [status |-> "inconsistent_unit", unit |-> Unknown]

\* A telemetry row has no unit of its own, so only the rows of the temporal
\* table are classified.
Classification(q) ==
    IF q.property = "value" THEN [status |-> "ok", unit |-> Unknown]
    ELSE classifyTemporalWindow(window_summary(q))

-----------------------------------------------------------------------------
Reply(outcome) ==
    read' = [read EXCEPT !.phase = "done", !.outcome = outcome]
Answer(mode, points, unit) ==
    read' = [read EXCEPT !.phase = "done", !.outcome = "ok", !.mode = mode,
                         !.points = points, !.unit = unit]

\* The handlers: parse, then the service validates, then the deadline starts.
AskHistory(q) ==
    /\ read = Idle
    /\ LET refusal == RefusedHistory(q) IN
       read' = [phase |-> IF refusal = "ok" THEN "resolve" ELSE "done", q |-> q,
                outcome |-> refusal, mode |-> "none", points |-> <<>>,
                unit |-> Unknown, since |-> Len(series)]
    /\ expired' = FALSE
    /\ UNCHANGED <<members, series>>

\* ResolveSensor and ResolveEntity: the sensor exists, so only the caller's
\* membership decides.
ResolveSensor(q) == Authorized(Gateway)
ResolveHistory ==
    /\ read.phase = "resolve"
    /\ IF expired THEN Reply("service_unavailable")
       ELSE IF ~ResolveSensor(read.q) THEN Reply("not_found")
       ELSE read' = [read EXCEPT !.phase = "query"]
    /\ UNCHANGED <<accessVars, series>>

\* Which statement executeEffectiveQuery and readTemporalHistoryInternal run next.
ShortWindow(q) == q.to - q.from <= RawWindow
ReadsRaw ==
    /\ read.phase = "query"
    /\ read.q.res = "raw" \/ (read.q.res = "auto" /\ ShortWindow(read.q))
ReadsBuckets ==
    \/ read.phase = "fallback"
    \/ read.phase = "query" /\ (read.q.res \in Resolutions
                                  \/ (read.q.res = "auto" /\ ~ShortWindow(read.q)))

\* Each layer on the way to the data validates once more, the last one with the
\* resolution that is really read.
ReadTelemetryHistory(q, res) == PrepareTelemetryHistory([q EXCEPT !.res = res])
ExecuteEffectiveHistoryQuery(q, res) ==
    IF PrepareTelemetryHistory(q) # "ok" THEN PrepareTelemetryHistory(q)
    ELSE ReadTelemetryHistory(q, res)
ReadTemporalHistory(q, res) ==
    IF res = "raw" /\ ~ShortWindow(q) THEN "raw_limit_exceeded"
    ELSE IF TooFine(q, res) THEN "resolution_too_fine"
    ELSE "ok"
\* GetTwinHistory delegates the property "value" to the telemetry service.
GetTwinHistory(q, res) ==
    IF q.property = "value" THEN ExecuteEffectiveHistoryQuery(q, res)
    ELSE ReadTemporalHistory(q, res)
Revalidated(q, res) ==
    IF q.route = "telemetry" THEN ReadTelemetryHistory(q, res) ELSE GetTwinHistory(q, res)

\* readRawTelemetryHistory and readTemporalDataInternal: raw rows, or the probe
\* of a short automatic window, whose rows are dropped when they are too many.
ReadRaw ==
    /\ ReadsRaw
    /\ LET q == read.q
           rows == RawRows(q)
           class == Classification(q)
       IN IF expired THEN Reply("service_unavailable")
          ELSE IF Revalidated(q, "raw") # "ok" THEN Reply(Revalidated(q, "raw"))
          ELSE IF ~Authorized(Gateway) THEN Reply("not_found")
          ELSE IF class.status # "ok" THEN Reply(class.status)
          ELSE IF Len(rows) <= q.max
          THEN Answer("raw", [k \in DOMAIN rows |-> series[rows[k]].at], class.unit)
          ELSE IF q.res = "raw" THEN Reply("raw_limit_exceeded")
          ELSE read' = [read EXCEPT !.phase = "fallback", !.unit = class.unit]
    /\ UNCHANGED <<accessVars, series>>

\* readBucketTelemetryHistory and readTemporalBucketInternal: a statement of its
\* own, which checks the membership and the units again.
BucketResolution(q) == IF q.res = "auto" THEN SelectAutoBucketResolution(q) ELSE q.res
BucketAuthorized == Authorized(Gateway)
MutBucketClassification(q) ==
    IF read.phase = "fallback" THEN [status |-> "ok", unit |-> read.unit]
    ELSE Classification(q)
BucketClassification(q) == Classification(q)
ReadBuckets ==
    /\ ReadsBuckets
    /\ LET q == read.q
           res == BucketResolution(q)
           class == BucketClassification(q)
           buckets == BucketRows(q, Duration[res])
       IN IF expired THEN Reply("service_unavailable")
          ELSE IF res = "none" THEN Reply("resolution_too_fine")
          ELSE IF Revalidated(q, res) # "ok" THEN Reply(Revalidated(q, res))
          ELSE IF ~BucketAuthorized THEN Reply("not_found")
          ELSE IF class.status # "ok" THEN Reply(class.status)
          ELSE IF Len(buckets) > q.max THEN Reply("resolution_too_fine")
          ELSE Answer(res, buckets, class.unit)
    /\ UNCHANGED <<accessVars, series>>

\* The handler writes the answer.
CloseHistory == read.phase = "done" /\ read' = Idle /\ UNCHANGED <<accessVars, series>>

\* PersistBatch of another component stores one more row of the series.
StoreRow(w) ==
    /\ Len(series) < MaxRows
    /\ series' = Append(series, w)
    /\ UNCHANGED <<accessVars, read>>

-----------------------------------------------------------------------------
\* What the first n rows of the series hold of the window of q.
Held(q, n) == {i \in InWindow(q) : i <= n}
Times(q, n) == {series[i].at : i \in Held(q, n)}
CountAt(points, t) == Cardinality({k \in DOMAIN points : points[k] = t})

\* The answer shows the window of the request as it was with the first n rows.
ShowsSnapshot(n) ==
    LET q == read.q
        P == read.points
        start(t) == time_bucket(Duration[read.mode], t)
    IN /\ IF read.mode = "raw"
          THEN /\ Len(P) = Cardinality(Held(q, n))
               /\ \A k \in 1..Len(P) - 1 : P[k] <= P[k + 1]
               /\ \A t \in Times(q, n) :
                    CountAt(P, t) = Cardinality({i \in Held(q, n) : series[i].at = t})
          ELSE /\ \A k \in 1..Len(P) - 1 : P[k].start < P[k + 1].start
               /\ {P[k].start : k \in DOMAIN P} = {start(t) : t \in Times(q, n)}
               /\ \A k \in DOMAIN P : P[k].count =
                    Cardinality({i \in Held(q, n) : start(series[i].at) = P[k].start})
       /\ q.property # "value" =>
            \A i \in Held(q, n) : series[i].type = "number" /\ series[i].unit = read.unit

\* An answer is the whole window as it was at one moment of the request: every
\* row of a raw answer, every bucket with its full count, and a unit that all of
\* those rows carry.  Nothing is cut off by a LIMIT, and the unit is not the one
\* the probe saw before the buckets were read.
AnswerIsOneSnapshot ==
    (read.phase = "done" /\ read.outcome = "ok") =>
        \E n \in read.since..Len(series) : ShowsSnapshot(n)

\* A request that passed validation is never refused later for its resolution:
\* IntersectingBucketCount, in Go, is a bound on the buckets time_bucket makes of
\* the window, on both sides of the epoch, and an automatic request always falls
\* back to buckets that fit.
RefusedOnlyUpFront ==
    [][read.phase \in {"query", "fallback"} =>
        /\ read'.outcome \notin {"resolution_too_fine", "invalid_request"}
        /\ read'.outcome = "raw_limit_exceeded" => read.q.res = "raw"]_historyVars
=============================================================================
