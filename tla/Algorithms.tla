----------------------------- MODULE Algorithms -----------------------------
(***************************************************************************)
(* The platform's pure algorithms, each called with every input of a small *)
(* set and compared with a reference.  A state is a call: its input first, *)
(* its result after the next step.                                         *)
(***************************************************************************)
EXTENDS SecurityScan, AnomalyScan, RateLimiter, LogParsing, RecordTransform

CONSTANTS
    Trees,       \* expression trees
    Filters,     \* filter lists of the API
    Rows,        \* the rows there are
    Ranges,      \* pairs of timestamps
    PageSizes,
    Keys,        \* callers of the limiter
    Traces,      \* rows of the analytics views
    Spans,       \* ranges of those
    ViewFilters, \* filters of the views
    Attempts,    \* rows of the security detections
    Volumes,     \* numbers of events and of distinct values of a finding
    Levels, SeriesLength,  \* values and length of a series
    Documents,   \* structured records
    Lines,       \* lines of text logs
    Samples, Extensions,  \* samples of files, by the format of their lines
    Parsings,    \* parsed records
    MaxCalls, MaxGap  \* bounds: calls of the limiter, seconds between two

VARIABLES call, result
vars == <<call, result>>

None == [ok |-> FALSE, none |-> TRUE]

Histories ==
    UNION {[1..n -> (0..MaxGap) \X Keys] : n \in 1..MaxCalls}

\* Gaps between the calls become times.
Timed(h) == FoldLeft(LAMBDA acc, g :
    Append(acc, <<(IF acc = <<>> THEN 0 ELSE Last(acc)[1]) + g[1], g[2]>>), <<>>, h)

Init ==
    /\ result = None
    /\ \/ \E t \in Trees, and \in BOOLEAN, f \in Filters :
            call = [fn |-> "search", tree |-> t, and |-> and, filters |-> f]
       \/ \E rows \in SUBSET Rows, k \in 1..4, r \in Ranges, s \in PageSizes :
            call = [fn |-> "pages", rows |-> rows, keys |-> k, range |-> r, size |-> s]
       \/ \E rows \in SUBSET Traces, r \in Spans, f \in ViewFilters :
            call = [fn |-> "views", rows |-> rows, range |-> r, filters |-> f]
       \/ \E rows \in SUBSET Attempts, f \in {{}, {"floods"}, {"auth"}} :
            call = [fn |-> "security", rows |-> rows, failing |-> f]
       \/ \E t \in DOMAIN BaseScore, v, d \in Volumes, n \in 1..4, public \in BOOLEAN :
            call = [fn |-> "score", type |-> t, volume |-> v, distinct |-> d, signals |-> n, public |-> public]
       \/ \E m \in {"requests", "errors"}, v \in [1..SeriesLength -> Levels], off \in {"zscore", "iqr"} :
            call = [fn |-> "anomaly", metric |-> m, values |-> v, off |-> {off}]
       \/ \E d \in Documents : call = [fn |-> "parse", record |-> d]
       \/ \E l \in Lines : call = [fn |-> "line", line |-> l]
       \/ \E s \in Samples, x \in Extensions : call = [fn |-> "detect", sample |-> s, extension |-> x]
       \/ \E e \in Parsings : call = [fn |-> "transform", event |-> e]
       \/ \E h \in Histories : call = [fn |-> "limit", calls |-> Timed(h)]

\* The call of fn has its input and no result yet.
Calls(fn) == call.fn = fn /\ result = None /\ UNCHANGED call

SearchCall ==
    /\ Calls("search")
    /\ result' = Search(Rows, 3, Write(call.tree, call.and), call.filters, 0,
                        CHOOSE m \in {r.timestamp : r \in Rows} :
                            \A r \in Rows : r.timestamp <= m,
                        1, MaxPageSize)

PagesCall ==
    /\ Calls("pages")
    /\ LET page(n) == Search(call.rows, call.keys, <<>>, <<>>, call.range[1], call.range[2],
                             n, call.size).result
       IN  result' = [ok |-> TRUE, pages |-> [n \in 1..(Cardinality(call.rows) + 1) |-> page(n)],
                      left |-> Cleanup(call.rows, call.keys, call.range[1])]

LimitCall ==
    /\ Calls("limit")
    /\ result' = [ok |-> TRUE, answers |-> After(call.calls)]

\* The endpoints of the dashboard, each of the same range and filters.
ViewsCall ==
    /\ Calls("views")
    /\ LET s == Scope(call.rows, call.range[1], call.range[2], call.filters)
           series(m) == Timeseries(m, call.rows, call.range[1], call.range[2], call.filters)
       IN  result' = [ok |-> TRUE, overview |-> Overview(s), errors |-> Errors(s, 2),
                      status |-> StatusCodes(s), traffic |-> Traffic(s, 2), services |-> Services(s, 2),
                      latency |-> Latency(s), names |-> DistinctValues("service", s, 2),
                      series |-> [m \in {"requests", "errors", "server_errors", "client_errors",
                                         "latency_max", "bytes", "unique_ips", "unique_users"} |-> series(m)]]

SecurityCall ==
    /\ Calls("security")
    /\ result' = [ok |-> TRUE, findings |-> Analyze(call.rows, 0, 20, call.failing, 100)]

ScoreCall ==
    /\ Calls("score")
    /\ LET alone == [type |-> call.type, subject |-> IF call.public THEN 0 ELSE CHOOSE p \in Private : TRUE,
                     count |-> call.volume, evidence |-> 2, severity |-> "info",
                     score |-> ScoreFinding(call.type, call.volume, call.distinct, call.public, 1)]
       IN  result' = [ok |-> TRUE, alone |-> alone, together |-> Correlated(alone, call.signals)]

AnomalyCall ==
    /\ Calls("anomaly")
    /\ result' = [ok |-> TRUE, found |-> ScanMetric(call.metric, call.values, call.off, 1, 200),
                  trailing |-> MovingAverage(call.metric, call.values)]

ParseCall ==
    /\ Calls("parse")
    /\ result' = ParseRecord(call.record, 9)

LineCall ==
    /\ Calls("line")
    /\ result' = ParseLine(call.line.format, call.line, 9)

DetectCall ==
    /\ Calls("detect")
    /\ result' = [ok |-> TRUE, parser |-> DetectFormat(call.sample, call.extension)]

TransformCall ==
    /\ Calls("transform")
    /\ LET e == Apply(call.event, <<"app">>)
       IN  result' = [ok |-> TRUE, event |-> e, verdict |-> Validate(e, 9)]

Next == ParseCall \/ LineCall \/ DetectCall \/ TransformCall \/ ViewsCall \/ SecurityCall \/ ScoreCall \/ AnomalyCall \/ SearchCall \/ PagesCall \/ LimitCall

Spec == Init /\ [][Next]_vars

-----------------------------------------------------------------------------
(* Properties *)

Done(fn) == call.fn = fn /\ result # None

\* app/search/query.py: an expression written with the fewest parentheses, its
\* values quoted only where they must be, is read as that expression.  Once it
\* is SQL text with positional parameters, joined with the API's filters and
\* the range, DuckDB selects the rows for which the expression is true; NULLs
\* and literal % signs included.  Refused is only an expression that is too
\* large or nested too deep, and a filter of a column that there is not.
SearchMeansQuery ==
    Done("search") =>
        IF \/ Size(call.tree) > MaxNodes \/ Nesting(Write(call.tree, call.and)) > MaxDepth
           \/ \E i \in DOMAIN call.filters : Alias(call.filters[i][1]) \notin Columns
        THEN ~ result.ok
        ELSE /\ result.ok
             /\ ToSet(result.result.items) =
                    {r \in Rows : /\ Meaning(call.tree, r) = "T"
                                  /\ \A i \in DOMAIN call.filters :
                                        call.filters[i][2] # <<>> => r[Alias(call.filters[i][1])] \in ToSet(call.filters[i][2])}

\* app/search/service.py and partitioning.py: the pages of a search, one after
\* the other, are the rows of the range from the youngest to the oldest, none
\* left out by pruning, and has_more is false on the last page only.  (Rows of
\* one timestamp have no order: see KeysetPaging.)
PagesCoverRange ==
    Done("pages") =>
        LET pages == result.pages
            lo == Minimum(call.range[1], call.range[2])
            hi == Maximum(call.range[1], call.range[2])
            read == FlattenSeq([n \in DOMAIN pages |-> pages[n].items])
        IN  /\ ToSet(read) = {r \in call.rows : r.timestamp \in lo..hi}
            /\ \A i, j \in DOMAIN read : i < j => read[i].timestamp > read[j].timestamp
            /\ \A n \in DOMAIN pages : pages[n].hasMore <=> n < pages[n].pages

\* cleanup_job: every row older than the cutoff is deleted, and a row at or
\* after the cutoff only together with one that shares its partition and is
\* due: no row that has a whole partition between it and the cutoff.
CleanupBounded ==
    Done("pages") => \A r \in call.rows :
        LET cutoff == call.range[1]
            start == PartitionDatetime(PartitionPath(r.timestamp, call.keys))
        IN  /\ r.timestamp < cutoff => r \notin result.left
            /\ r \notin result.left => start < cutoff

\* TokenBucketLimiter: over any interval a caller whose bucket is not evicted is
\* let in no more often than a full bucket and the refill allow, and one that
\* waits as long as Retry-After says is let in.
RateBounded ==
    Done("limit") =>
        LET a == result.answers
            c == call.calls
            of(k) == {i \in DOMAIN c : c[i][2] = k}
            kept(k, i, j) == \A n \in i..j : \E b \in ToSet(a[n].buckets) : b.key = k
        IN  \A k \in Keys : \A i, j \in of(k) : (i <= j /\ kept(k, i, j)) =>
               /\ Cost * Cardinality({n \in of(k) \intersect (i..j) : a[n].allowed})
                     <= Capacity + Rate * (c[j][1] - c[i][1])
               /\ (/\ i < j /\ ~ a[i].allowed
                   /\ of(k) \intersect (i+1..j-1) = {}
                   /\ c[j][1] >= c[i][1] + a[i].retry) => a[j].allowed

\* app/analytics/engine.py: views of the same range and filters agree, however
\* each is computed: the gap-filled series add up to the totals, with every
\* record in one window and no window of the range missing; no value is counted
\* that a filter excludes; and each error is in one of the lists it belongs to.
ViewsAgree ==
    Done("views") =>
        LET lo == Minimum(call.range[1], call.range[2])
            hi == Maximum(call.range[1], call.range[2])
            chosen == {r \in call.rows : /\ r.timestamp \in lo..hi
                                         /\ \A c \in DOMAIN call.filters :
                                              call.filters[c] # {} => r[c] \in call.filters[c]}
            sum(m) == SumOf([k \in DOMAIN result.series[m] |-> result.series[m][k].value])
            starts(m) == {result.series[m][k].bucket : k \in DOMAIN result.series[m]}
        IN  /\ result.overview.records = Cardinality(chosen)
            /\ sum("requests") = result.traffic.requests
            /\ sum("errors") = result.errors.errors /\ result.errors.errors = result.overview.errors
            /\ sum("bytes") = result.traffic.bytes
            /\ sum("server_errors") + sum("client_errors") <= result.overview.requests
            /\ chosen # {} => \A t \in lo..hi : \E b \in starts("requests") : b <= t /\ t < b + Window
            /\ \A k \in DOMAIN result.services :
                  /\ result.services[k].errors <= result.services[k].requests
                  /\ \A r \in chosen : r.service = result.services[k].service /\ IsError(r)
                        => result.services[k].errors > 0 /\ result.services[k].status # "healthy"

\* analytics/security.py: an address with a burst of failed logins inside the
\* window is reported, whatever else the rows hold and whichever other detection
\* fails, unless as many worse ones are; what is called concentrated is a burst.
\* Correlation with two other signals never lowers a score, and with one it
\* costs less than one point; the list is ranked.
FindingsSound ==
    /\ Done("security") =>
         LET found == ToSet(result.findings)
             brute == {f \in found : f.type = "brute_force"}
             of(ip) == {r \in call.rows : r.ip = ip /\ r.status \in {401, 403}}
             burst(ip) == \E t \in {r.timestamp : r \in of(ip)} :
                 Cardinality({r \in of(ip) : r.timestamp \in t..(t + FailedAuthWindow)}) >= FailedAuthThreshold
         IN  /\ "auth" \notin call.failing =>
                  \A ip \in {r.ip : r \in call.rows} \ {0} : burst(ip) =>
                     \/ \E f \in brute : f.subject = ip
                     \/ Cardinality({f \in brute : f.count >= Cardinality(of(ip))}) = MaxFindings
             /\ \A f \in brute : Concentrated(f) => burst(f.subject)
             /\ \A i, j \in DOMAIN result.findings : i < j => result.findings[i].score >= result.findings[j].score
    /\ Done("score") =>
         /\ call.signals >= 3 => result.together.score >= result.alone.score
         /\ result.together.score + 1000 > result.alone.score

\* app/anomaly_detection: nothing is reported of a constant series; a point
\* that leaves a flat baseline is, unless it is a drop of a metric whose drops
\* do not matter or too small to be noticed; no point is reported twice; and
\* what the trailing detector says of a point does not change with the points
\* that follow, so that an alert can be raised as the data comes in.
AnomaliesFound ==
    Done("anomaly") =>
        LET v == call.values
            reported == {result.found[k].index : k \in DOMAIN result.found}
        IN  /\ Cardinality({v[i] : i \in DOMAIN v}) = 1 => result.found = <<>>
            /\ \A i \in (TrailWindow + 1)..Len(v) :
                 (/\ \A k \in 1..TrailWindow : v[i - k] = v[i - 1]
                  /\ \/ v[i] > v[i - 1] /\ v[i] >= MinObserved
                     \/ v[i] < v[i - 1] /\ call.metric \in DropMetrics) => i \in reported
            /\ Cardinality(reported) = Len(result.found)
            /\ \A n \in Maximum(MinHistory, TrailWindow)..Len(v) :
                 MovingAverage(call.metric, SubSeq(v, 1, n)) = {a \in result.trailing : a.index <= n}

\* The values of a record, by their path.
RECURSIVE Members(_, _, _)
Members(record, prefix, depth) ==
    UNION {LET path == prefix \o record[i][1]
               value == record[i][2]
           IN  IF value[1] = "object" /\ depth < MaxFlattenDepth THEN Members(value[2], path, depth + 1)
               ELSE {<<path, value>>} : i \in DOMAIN record}

\* What a value means where a field is read from it; nothing where it is no
\* value of that field, or where its unit is a guess.
Meant(field, key, value) ==
    CASE field \in {"message", "request_id"} -> {value}
      [] field = "timestamp" /\ value[1] = "clock" -> {value[2]}
      [] field = "status_code" /\ value[1] = "num" -> {value[2] \div 1000} \intersect (100..599)
      [] field = "bytes_sent" /\ value[1] = "num" -> {value[2] \div 1000}
      [] field = "response_time_ms" /\ value[1] = "unit" -> {value[2] * Units[value[3]]}
      [] field = "response_time_ms" /\ value[1] = "num" /\ key = <<"took", "ms">> -> {value[2]}
      [] field = "response_time_ms" /\ value[1] = "num" /\ key = <<"req", "time">> -> {value[2] * 1000}
      [] OTHER -> {}

\* app/parsers: a value of a structured record is in the field its name stands
\* for, with its unit, or in the metadata under its full name, unless another
\* value's name ends in that name, or the metadata is full; a value out of the
\* schema's range is the only reason to refuse one that is not empty.  An
\* access line is an error exactly when its status is.  A sample of
\* one format is read by that format's parser, whatever the file is called, and
\* one of no format as plain text unless the file's name speaks for another.
ParsedFaithfully ==
    /\ Done("parse") =>
         LET all == Members(call.record, <<>>, 0)
             shadowed(p) == \E q \in all \ {p} : IsSuffix(NormaliseKey(p[1]), NormaliseKey(q[1]))
             metadata == result.event.metadata
             reads(p) == \E f \in CanonicalOf(NormaliseKey(p[1])) : f # "level" =>
                 LET meant == Meant(f, NormaliseKey(p[1]), p[2])
                 IN  meant # {} => result.event[f] = meant
         IN  IF result.ok
             THEN \A p \in all : (p[2] # Empty /\ ~ shadowed(p) /\ Len(metadata) < MaxMetadataKeys) =>
                     LET key == NormaliseKey(p[1])
                     IN  (HasKey(metadata, key) /\ ValueOf(metadata, key) = p[2]) \/ reads(p)
             ELSE call.record = <<>> \/ \E p \in all : p[2][1] \in {"num", "unit"} /\ p[2][2] > MaxResponseTime \div 1000
    /\ (Done("line") /\ call.line.format = "access") =>
         IF call.line.status \subseteq 100..599
         THEN result.ok /\ (result.event.level = "ERROR" <=> \E s \in call.line.status : s >= 500)
         ELSE ~ result.ok
    /\ Done("detect") => \A f \in ToSet(call.sample) \ {"blank", "csv"} :
         ToSet(call.sample) \subseteq {f, "blank"} =>
             \/ result.parser = IF f \in DOMAIN Parsers THEN f ELSE "plaintext"
             \/ f = "junk" /\ call.extension \in Parsers[result.parser].extensions

\* A value that was longer than its rule can match has left a rest behind.
Overlong(t) ==
    \E i \in DOMAIN t : /\ t[i] = "red" /\ i < Len(t) /\ t[i + 1] \notin Blank
                        /\ \E k \in 1..(i - 1) : t[k] = "key" /\ \A j \in (k + 1)..(i - 1) : t[j] \in Blank

\* app/transformation in the order of TransformationChain: nothing that a
\* masking rule matches is stored, also where it only shows once control
\* characters are gone, in a path as in a message, but for the rest of a value
\* that is longer than the rule can match; nor a value under a sensitive name;
\* a field is one printable line, but for a message whose encoding was repaired
\* after it was cleaned; the flag of a masked record is set where something was
\* masked, or cut, or where the source has set it; a record is too long only for
\* what masking added; the name of a service is final, within the limits of
\* names and segments, and so is that of an endpoint unless it was masked, which
\* writes capitals, or had a segment cut that was too long for an identifier.
StoredTextClean ==
    Done("transform") =>
        LET e == result.event
            texts == {e.message, e.agent, e.raw, e.endpoint} \union {e.metadata[k] : k \in DOMAIN e.metadata}
            lines == texts \ {e.message, e.raw}
        IN  /\ \A t \in texts : LET shown == Dropping(t, {"cut"})
                               IN  MaskVendorKey(shown) = shown /\ (Overlong(shown) \/ Redact(shown) = shown)
            /\ \A k \in DOMAIN e.metadata \intersect SensitiveFieldNames : e.metadata[k] = <<"red">>
            /\ \A t \in lines \union (IF "mw" \in ToSet(call.event.message) THEN {} ELSE {e.message}) :
                  ToSet(t) \intersect {"ctl", "ansi", "nl", "ls"} = {}
            /\ "masked" \in DOMAIN e.metadata <=>
                  \/ "masked" \in DOMAIN call.event.metadata
                  \/ \E t \in texts : ToSet(t) \intersect {"red", "cut"} # {}
            /\ (\E i \in DOMAIN result.verdict.issues : result.verdict.issues[i].reason = "message_too_long")
                  => "red" \in ToSet(e.message)
            /\ NormaliseService(e.service) = e.service
            /\ ToSet(e.endpoint) \intersect {"red", "hex"} = {} => TemplateEndpoint(e.endpoint) = e.endpoint

\* app/api/routers/analytics.py calls the view the "2xx/3xx/4xx/5xx split", and
\* LogEvent.status_class divides by 100: a class counts the codes of a hundred.
ClassesAreHundreds ==
    Done("views") =>
        \A c \in DOMAIN result.status.byClass :
            result.status.byClass[c] = Cardinality({r \in Scope(call.rows, call.range[1], call.range[2], call.filters) :
                                                       r.status \div 100 = c})
=============================================================================
