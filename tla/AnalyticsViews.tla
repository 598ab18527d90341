--------------------------- MODULE AnalyticsViews ---------------------------
(***************************************************************************)
(* The views of app/analytics/engine.py over the partitioned dataset, with *)
(* the windows of app/core/timeutil.py.  SQL aggregates are sets and sums; *)
(* averages and approximate quantiles are left out.  The columns of a row  *)
(* are numbers, and 0 is NULL; a level above 0 is one of ERROR_LEVELS.     *)
(***************************************************************************)
EXTENDS LogDataset, FiniteSetsExt

CONSTANTS
    DayKeys,          \* partition keys of the dataset: by day
    Window            \* hours of the window of a series

\* WINDOWS: each of them divides a day.
ASSUME ViewsAssumption == Window \in 1..HoursPerDay /\ HoursPerDay % Window = 0 /\ DayKeys \in 1..4

\* _ERROR_PREDICATE
IsError(r) == r.level > 0 \/ r.status >= 500

\* _scope: the pruned files, the range, and the filters; one that is None or an
\* empty list is ignored.
Scope(rows, start, end, filters) ==
    LET range == ParseRange(start, end)
    IN  {r \in Scan(rows, DayKeys, range[1], range[2]) :
            /\ range[1] <= r.timestamp /\ r.timestamp <= range[2]
            /\ \A c \in DOMAIN filters : filters[c] # {} => r[c] \in filters[c]}

\* _counts: the most frequent values of a column, NULLs left out.
Counts(column, rows, limit) ==
    LET n(v) == Cardinality({r \in rows : r[column] = v})
        ranked == SortedBy({r[column] : r \in rows} \ {0},
                      LAMBDA a, b : n(a) > n(b) \/ (n(a) = n(b) /\ a < b))
    IN  [k \in 1..Minimum(limit, Len(ranked)) |-> [key |-> ranked[k], count |-> n(ranked[k])]]

-----------------------------------------------------------------------------
(* Windows *)

\* floor_to_window counts from midnight.
FloorToWindow(ts) ==
    LET midnight == ts - (ts % HoursPerDay)
    IN  midnight + ((ts - midnight) - ((ts - midnight) % Window))

\* Variant: the window that the range ends in is left out.
IterWindows_open(start, end) ==
    {FloorToWindow(start) + k * Window : k \in 0..(end - start)} \intersect (0..(FloorToWindow(end) - 1))

\* iter_windows
IterWindows(start, end) ==
    {FloorToWindow(start) + k * Window : k \in 0..(end - start)} \intersect (0..FloorToWindow(end))

\* DuckDB's time_bucket counts from a fixed origin.
TimeBucket(ts) == ts - (ts % Window)

\* _METRIC_EXPRESSIONS
Metric(metric, rows) ==
    CASE metric = "requests" -> Cardinality(rows)
      [] metric = "errors" -> Cardinality({r \in rows : IsError(r)})
      [] metric = "server_errors" -> Cardinality({r \in rows : r.status >= 500})
      [] metric = "client_errors" -> Cardinality({r \in rows : r.status >= 400 /\ r.status < 500})
      [] metric = "latency_max" -> IF rows = {} THEN 0 ELSE Max({r.latency : r \in rows})
      [] metric = "bytes" -> MapThenSumSet(LAMBDA r : r.bytes, rows)
      [] metric = "unique_ips" -> Cardinality({r.ip : r \in rows} \ {0})
      [] metric = "unique_users" -> Cardinality({r.user : r \in rows} \ {0})

\* timeseries, with its gaps filled: windows that hold no rows are 0.  When no
\* row is selected at all there are no points.
Timeseries(metric, rows, start, end, filters) ==
    LET range == ParseRange(start, end)
        selected == Scope(rows, start, end, filters)
        in(b) == {r \in selected : TimeBucket(r.timestamp) = b}
    IN  IF selected = {} THEN <<>>
        ELSE LET buckets == SortedBy(IterWindows(range[1], range[2]), LAMBDA a, b : a < b)
             IN  [k \in DOMAIN buckets |->
                    [bucket |-> buckets[k], value |-> Metric(metric, in(buckets[k])),
                     count |-> Cardinality(in(buckets[k]))]]

-----------------------------------------------------------------------------
(* Views *)

Overview(s) ==
    [records |-> Cardinality(s), requests |-> Cardinality({r \in s : r.status > 0}),
     errors |-> Cardinality({r \in s : IsError(r)}),
     services |-> Cardinality({r.service : r \in s} \ {0})]

Errors(s, top) ==
    LET bad == {r \in s : IsError(r)}
    IN  [records |-> Cardinality(s), errors |-> Cardinality(bad),
         byService |-> Counts("service", bad, top), byLevel |-> Counts("level", bad, top)]

\* CAST(status_code / 100 AS INTEGER): DuckDB's / divides exactly, and its cast
\* rounds, halves to the even.
StatusClass(status) ==
    LET q == status \div 100
        rest == status % 100
    IN  IF rest > 50 \/ (rest = 50 /\ q % 2 = 1) THEN q + 1 ELSE q

StatusCodes(s) ==
    LET coded == {r \in s : r.status > 0}
        class(c) == Cardinality({r \in coded : StatusClass(r.status) = c})
    IN  [byClass |-> [c \in {StatusClass(r.status) : r \in coded} |-> class(c)],
         requests |-> Cardinality(coded), byCode |-> Counts("status", s, 15),
         success |-> class(2) + class(3), client |-> class(4), server |-> class(5)]

Latency(s) == [count |-> Cardinality({r \in s : r.latency > 0}),
               maximum |-> Metric("latency_max", s)]

Traffic(s, top) ==
    [requests |-> Cardinality(s), bytes |-> Metric("bytes", s),
     topIps |-> Counts("ip", s, top), topEndpoints |-> Counts("endpoint", s, top)]

\* _health_status: from 2% and from 10% of failures.
HealthStatus(errors, requests) ==
    IF 10 * errors >= requests THEN "unhealthy"
    ELSE IF 50 * errors >= requests THEN "degraded" ELSE "healthy"

Services(s, limit) ==
    LET counted == Counts("service", s, limit)
        of(k) == {r \in s : r.service = counted[k].key}
    IN  [k \in DOMAIN counted |->
            [service |-> counted[k].key, requests |-> counted[k].count,
             errors |-> Cardinality({r \in of(k) : IsError(r)}),
             status |-> HealthStatus(Cardinality({r \in of(k) : IsError(r)}), counted[k].count)]]

\* distinct_values
DistinctValues(column, s, limit) ==
    LET sorted == SortedBy({r[column] : r \in s} \ {0}, LAMBDA a, b : a < b)
    IN  SubSeq(sorted, 1, Minimum(limit, Len(sorted)))
=============================================================================
