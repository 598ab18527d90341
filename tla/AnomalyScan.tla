---------------------------- MODULE AnomalyScan ----------------------------
(***************************************************************************)
(* The moving-average, Tukey and z-score detectors of AnomalyService       *)
(* (app/anomaly_detection), with the functions of app/analytics/statistics *)
(* they use.  Values are whole numbers; means, deviations and quantiles    *)
(* are compared by multiplying out, so a score is kept as its square, in   *)
(* the form of a fraction <<a, b>>.                                        *)
(***************************************************************************)
EXTENDS AnalyticsViews

CONSTANTS
    Threshold,     \* analytics.zscore_threshold
    TrailWindow,   \* analytics.moving_average_window
    MinHistory,    \* analytics.min_history_points
    MinObserved    \* DetectorConfig.min_observed

ASSUME AnomalyAssumption ==
    /\ {Threshold, MinHistory, MinObserved} \subseteq Nat
    /\ TrailWindow \in Nat /\ TrailWindow >= 2

DropMetrics == {"requests", "bytes", "unique_users"}

SumOf(s) == FoldLeft(LAMBDA acc, v : acc + v, 0, s)
Squares(s) == FoldLeft(LAMBDA acc, v : acc + v * v, 0, s)
Sq(x) == x * x

\* a / b >= n / d, for positive denominators.
AtLeast(f, n, d) == f[1] * d >= n * f[2]

\* _severity_from_ratio, of the observed value, the expected one and the square
\* of the score.
SeverityFromRatio(observed, expected, score2) ==
    LET ratio == IF expected[1] > 0 THEN <<observed * expected[2], expected[1]>>
                 ELSE IF observed > 0 THEN <<2, 1>> ELSE <<1, 1>>
    IN  IF AtLeast(score2, 36, 1) /\ AtLeast(ratio, 5, 1) THEN 4
        ELSE IF AtLeast(score2, 81, 4) /\ AtLeast(ratio, 3, 1) THEN 3
        ELSE IF AtLeast(score2, 9, 1) /\ AtLeast(ratio, 7, 4) THEN 2
        ELSE IF AtLeast(score2, 25, 4) THEN 1 ELSE 0

\* _build
Anomaly(detector, index, observed, expected, score2, direction) ==
    [index |-> index, detectors |-> {detector}, score2 |-> score2, direction |-> direction,
     severity |-> SeverityFromRatio(observed, expected, score2)]

Reported(metric, direction, observed) ==
    /\ direction = "down" => metric \in DropMetrics
    /\ direction = "up" => observed >= MinObserved

\* Variant: the baseline includes the point that is measured against it.
Baseline_own(values, index) == SubSeq(values, index - TrailWindow + 1, index)

\* moving_average and rolling_std at the point before: the trailing window.
Baseline(values, index) == SubSeq(values, index - TrailWindow, index - 1)

\* MovingAverageDetector.detect.  A flat baseline has no scale: any change
\* counts, with a score just above the threshold.
MovingAverage(metric, values) ==
    LET point(i) ==
            LET base == Baseline(values, i)
                w == TrailWindow
                off == w * values[i] - SumOf(base)
                spread == w * Squares(base) - Sq(SumOf(base))
                score2 == IF spread = 0 THEN <<Sq(Threshold + 1), 1>>
                          ELSE <<Sq(off) * (w - 1), w * spread>>
                direction == IF off > 0 THEN "up" ELSE "down"
            IN  [hit |-> off # 0 /\ AtLeast(score2, Sq(Threshold), 1)
                         /\ Reported(metric, direction, values[i]),
                 anomaly |-> Anomaly("moving_average", i, values[i], <<SumOf(base), w>>, score2, direction)]
    IN  IF Len(values) < Maximum(MinHistory, TrailWindow) THEN {}
        ELSE {point(i).anomaly : i \in {j \in (TrailWindow + 1)..Len(values) : point(j).hit}}

\* ZScoreDetector.detect, not one of the two that run by default.
ZScore(metric, values) ==
    LET n == Len(values)
        off(v) == n * v - SumOf(values)
        spread == n * Squares(values) - Sq(SumOf(values))
        score2(v) == <<Sq(off(v)) * (n - 1), n * spread>>
        direction(v) == IF off(v) > 0 THEN "up" ELSE "down"
    IN  IF n < MinHistory \/ spread = 0 THEN {}
        ELSE {Anomaly("zscore", i, values[i], <<SumOf(values), n>>, score2(values[i]), direction(values[i])) :
                i \in {j \in DOMAIN values : /\ AtLeast(score2(values[j]), Sq(Threshold), 1)
                                             /\ Reported(metric, direction(values[j]), values[j])}}

\* Four times percentile(values, k / 4), by linear interpolation.
Quartile(sorted, k) ==
    LET position == k * (Len(sorted) - 1)
        lower == sorted[(position \div 4) + 1]
        weight == position % 4
        upper == IF weight = 0 THEN lower ELSE sorted[(position \div 4) + 2]
    IN  lower * (4 - weight) + upper * weight

\* IqrDetector.detect, with iqr_bounds and the multiplier 1.5; all is counted
\* in eighths.
Iqr(metric, values) ==
    LET sorted == SortSeq(values, <)
        q1 == Quartile(sorted, 1)
        median == Quartile(sorted, 2)
        q3 == Quartile(sorted, 3)
        low == 2 * q1 - 3 * (q3 - q1)
        high == 2 * q3 + 3 * (q3 - q1)
        spread == high - 2 * median
        direction(v) == IF 8 * v > high THEN "up" ELSE "down"
        \* A spread of nothing is replaced by a very small one.
        score2(v) == IF spread = 0 THEN <<1000000, 1>>
                     ELSE <<Sq((8 * v - 2 * median) * Threshold), Sq(spread)>>
    IN  IF Len(values) < Maximum(MinHistory, 8) THEN {}
        ELSE {Anomaly("iqr", i, values[i], <<median, 4>>, score2(values[i]), direction(values[i])) :
                i \in {j \in DOMAIN values : /\ ~ (low <= 8 * values[j] /\ 8 * values[j] <= high)
                                             /\ Reported(metric, direction(values[j]), values[j])}}

\* _rank: severity, then score.
Outranks(a, b) ==
    a.severity > b.severity
    \/ (a.severity = b.severity /\ a.score2[1] * b.score2[2] > b.score2[1] * a.score2[2])

\* deduplicate: one anomaly for each point, the one of the highest rank, under
\* the names of all the detectors that agree.
Deduplicate(found) ==
    LET at(i) == {a \in found : a.index = i}
        best(i) == CHOOSE a \in at(i) : \A b \in at(i) : ~ Outranks(b, a)
    IN  {[best(i) EXCEPT !.detectors = UNION {a.detectors : a \in at(i)}] : i \in {a.index : a \in found}}

\* _scan_series: a detector that raises, or is not configured, is skipped.
ScanSeries(metric, values, failing) ==
    (IF "moving_average" \in failing THEN {} ELSE MovingAverage(metric, values))
    \union (IF "iqr" \in failing THEN {} ELSE Iqr(metric, values))
    \union (IF "zscore" \in failing THEN {} ELSE ZScore(metric, values))

\* AnomalyService.scan of one metric: what is severe enough, the worst first.
ScanMetric(metric, values, failing, minSeverity, limit) ==
    LET kept == {a \in Deduplicate(ScanSeries(metric, values, failing)) : a.severity >= minSeverity}
        sorted == SortedBy(kept, LAMBDA a, b : Outranks(a, b) \/ (~ Outranks(b, a) /\ a.index < b.index))
    IN  SubSeq(sorted, 1, Minimum(limit, Len(sorted)))
=============================================================================
