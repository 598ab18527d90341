----------------------------- MODULE LogDataset -----------------------------
(***************************************************************************)
(* The partitioned dataset and the ways to read and to prune it: partition *)
(* pruning (app/storage/partitioning.py), DuckDBEngine.query_logs and      *)
(* count_logs, SearchService.search with its pages, and cleanup_job.       *)
(*                                                                         *)
(* Time is in hours, on a calendar of constants: HoursPerDay hours a day,  *)
(* and years of Len(MonthDays) months.  A row is a record with a timestamp *)
(* and the columns that queries test; it lies in the partition of its      *)
(* timestamp.                                                              *)
(***************************************************************************)
EXTENDS SearchQuery

CONSTANTS
    HoursPerDay,
    MonthDays,        \* the lengths of the months of a year
    MaxPageSize,      \* settings.api.max_page_size
    AbsoluteMaxRows   \* ABSOLUTE_MAX_ROWS

ASSUME DatasetAssumption ==
    /\ {HoursPerDay, MaxPageSize, AbsoluteMaxRows} \subseteq Nat \ {0}
    /\ MonthDays \in Seq(Nat \ {0})

\* ORDER BY and sorted: a sequence of a set's members; ties in any order.
SortedBy(S, before(_, _)) ==
    LET place(x, s) == Cardinality({k \in DOMAIN s : ~ before(x, s[k])})
    IN  FoldSet(LAMBDA x, s : InsertAt(s, place(x, s) + 1, x), <<>>, S)

-----------------------------------------------------------------------------
(* The calendar, and partition paths *)

MinMonth == CHOOSE d \in ToSet(MonthDays) : \A e \in ToSet(MonthDays) : d <= e
MaxMonth == CHOOSE d \in ToSet(MonthDays) : \A e \in ToSet(MonthDays) : d >= e
DaysBefore(month) == FoldLeft(LAMBDA a, b : a + b, 0, SubSeq(MonthDays, 1, month - 1))
YearHours == DaysBefore(Len(MonthDays) + 1) * HoursPerDay

Moment(year, month, day, hour) ==
    year * YearHours + (DaysBefore(month) + day - 1) * HoursPerDay + hour

\* partition_values: <<year, month, day, hour>>
PartitionValues(ts) ==
    LET day == (ts % YearHours) \div HoursPerDay
        month == CHOOSE m \in DOMAIN MonthDays :
                    DaysBefore(m) <= day /\ day < DaysBefore(m) + MonthDays[m]
    IN  <<ts \div YearHours, month, day - DaysBefore(month) + 1, ts % HoursPerDay>>

\* partition_path, for a prefix of the keys.
PartitionPath(ts, keys) == SubSeq(PartitionValues(ts), 1, keys)

\* partition_datetime: what the path does not say is the first.
PartitionDatetime(path) ==
    LET get(i, default) == IF i <= Len(path) THEN path[i] ELSE default
    IN  Moment(path[1], get(2, 1), get(3, 1), get(4, 0))

\* Variant: the days by which months differ are forgotten.
PartitionEnd_shortMonth(path) ==
    LET start == PartitionDatetime(path)
    IN  CASE Len(path) = 4 -> start + 1
          [] Len(path) = 3 -> start + HoursPerDay
          [] Len(path) = 2 -> start + MinMonth * HoursPerDay
          [] OTHER         -> Moment(path[1] + 1, 1, 1, 0)

\* _partition_end.  A month's end is found from its shortest length and the
\* number of days by which months differ.
PartitionEnd(path) ==
    LET start == PartitionDatetime(path)
        later == start + (MinMonth - 1 + MaxMonth - MinMonth + 1) * HoursPerDay
    IN  CASE Len(path) = 4 -> start + 1
          [] Len(path) = 3 -> start + HoursPerDay
          [] Len(path) = 2 -> PartitionDatetime(PartitionPath(later, 2))
          [] OTHER         -> Moment(path[1] + 1, 1, 1, 0)

\* iter_partitions
Partitions(rows, keys) == {PartitionPath(r.timestamp, keys) : r \in rows}

\* prune_partitions, for a range that has both ends.
PrunePartitions(rows, keys, start, end) ==
    {p \in Partitions(rows, keys) :
        ~ (PartitionEnd(p) <= start) /\ ~ (PartitionDatetime(p) > end)}

\* glob_for_range and DuckDBEngine.scan: the rows that DuckDB gets to see.
Scan(rows, keys, start, end) ==
    {r \in rows : PartitionPath(r.timestamp, keys) \in PrunePartitions(rows, keys, start, end)}

-----------------------------------------------------------------------------
(* Queries *)

Minimum(a, b) == IF a < b THEN a ELSE b
Maximum(a, b) == IF a > b THEN a ELSE b

\* The rows that the WHERE clause of query_logs and count_logs selects: the
\* range first, the predicate in parentheses.
Where(rows, keys, query, start, end) ==
    {r \in Scan(rows, keys, start, end) :
        /\ start <= r.timestamp /\ r.timestamp <= end
        /\ Evaluate(Paren(query.sql), query.params, r) = "T"}

\* DuckDBEngine.query_logs, in descending order of time.
QueryLogs(rows, keys, query, start, end, limit, offset) ==
    LET sorted == SortedBy(Where(rows, keys, query, start, end),
                               LAMBDA a, b : a.timestamp > b.timestamp)
        first == Maximum(0, offset) + 1
    IN  SubSeq(sorted, first, Minimum(Len(sorted), first - 1 + Minimum(limit, AbsoluteMaxRows)))

\* DuckDBEngine.count_logs
CountLogs(rows, keys, query, start, end) ==
    Cardinality(Where(rows, keys, query, start, end))

-----------------------------------------------------------------------------
(* SearchService.search *)

\* parse_range, for two ends that are given: they are put in order.
ParseRange(start, end) == <<Minimum(start, end), Maximum(start, end)>>

\* PaginationParams and search: out of range values are moved into it.
PageSize(size) == Maximum(1, Minimum(size, MaxPageSize))

\* SearchResult, with pages and has_more.
SearchResult(items, total, page, size) ==
    [items |-> items, total |-> total, size |-> size,
     pages |-> (total + size - 1) \div size, hasMore |-> page * size < total]

Search(rows, keys, tokens, filters, start, end, page, pageSize) ==
    LET range == ParseRange(start, end)
        size == PageSize(pageSize)
        number == Maximum(1, page)
        q == CompileQuery(tokens)
        f == CompileFilters(filters)
    IN  IF ~ q.ok \/ ~ f.ok THEN SyntaxError
        ELSE LET query == Combine(q.query, f.query)
                 items == QueryLogs(rows, keys, query, range[1], range[2], size,
                                    (number - 1) * size)
             IN  [ok |-> TRUE, result |-> SearchResult(items,
                    CountLogs(rows, keys, query, range[1], range[2]), number, size)]

-----------------------------------------------------------------------------
(* cleanup_job, when it is not a dry run *)

\* Variant: the end of a partition decides.
Expired_byEnd(rows, keys, cutoff) ==
    {p \in Partitions(rows, keys) : ~ (PartitionEnd(p) >= cutoff)}

Expired(rows, keys, cutoff) ==
    {p \in Partitions(rows, keys) : ~ (PartitionDatetime(p) >= cutoff)}

Cleanup(rows, keys, cutoff) ==
    {r \in rows : PartitionPath(r.timestamp, keys) \notin Expired(rows, keys, cutoff)}
=============================================================================
