---------------------------- MODULE SecurityScan ----------------------------
(***************************************************************************)
(* app/analytics/security.py: the detections over the stored rows, the     *)
(* score of a finding, and the correlation of those of one subject.        *)
(* Scores are in thousandths of a point.                                   *)
(***************************************************************************)
EXTENDS AnalyticsViews

CONSTANTS
    FailedAuthThreshold, FailedAuthWindow, NotFoundThreshold, RequestRateThreshold,
    StuffingFloor,     \* the least number of accounts of credential stuffing (5)
    MaxFindings,       \* MAX_FINDINGS_PER_TYPE
    Private,           \* addresses that are private or loopback
    SensitiveEndpoints, SuspiciousAgents

ASSUME SecurityAssumption ==
    {FailedAuthThreshold, FailedAuthWindow, NotFoundThreshold, RequestRateThreshold,
     StuffingFloor, MaxFindings} \subseteq Nat \ {0}

BaseScore ==
    [brute_force |-> 55000, credential_stuffing |-> 70000, endpoint_scanning |-> 45000,
     sensitive_endpoint_access |-> 60000, suspicious_user_agent |-> 35000,
     request_flood |-> 40000, secret_in_log |-> 65000]

\* Thousandths of the decimal logarithm, of small numbers and powers of ten.
Log10(n) == IF n <= 10 THEN <<0, 301, 477, 602, 698, 778, 845, 903, 954, 1000>>[n]
            ELSE IF n <= 100 THEN 2000 ELSE IF n <= 1000 THEN 3000 ELSE 4000

ScoreFinding(type, volume, distinct, public, signals) ==
    LET raw == BaseScore[type]
               + Minimum(32000, 8 * Log10(Maximum(volume, 1)))
               + Minimum(10000, 5 * Log10(Maximum(distinct, 1)))
               + Minimum(15000, (signals - 1) * 7500)
               - (IF public THEN 0 ELSE 12000)
    IN  Maximum(0, Minimum(100000, raw))

\* Severity.from_score
SeverityOf(score) ==
    IF score >= 90000 THEN "critical" ELSE IF score >= 70000 THEN "high"
    ELSE IF score >= 45000 THEN "medium" ELSE IF score >= 20000 THEN "low" ELSE "info"

Distinct(rows, column) == Cardinality({r[column] : r \in rows} \ {0})
First(rows) == Min({r.timestamp : r \in rows})
Duration(rows) == Max({r.timestamp : r \in rows}) - First(rows)

\* _finding, without the wording.  evidence counts the entries of that dict.
Finding(type, subject, rows, distinct, public, evidence) ==
    LET score == ScoreFinding(type, Cardinality(rows), distinct, public /\ subject \notin Private, 1)
    IN  [type |-> type, subject |-> subject, count |-> Cardinality(rows), score |-> score,
         severity |-> SeverityOf(score), evidence |-> evidence, rows |-> rows]

\* GROUP BY column HAVING ... ORDER BY rank DESC LIMIT: ties have no order.
Groups(rows, column, having(_), rank(_)) ==
    LET of(v) == {r \in rows : r[column] = v}
        kept == {v \in {r[column] : r \in rows} \ {0} : having(of(v))}
        top == CHOOSE t \in SUBSET kept :
                 /\ Cardinality(t) = Minimum(MaxFindings, Cardinality(kept))
                 /\ \A a \in t, b \in kept \ t : rank(of(a)) >= rank(of(b))
    IN  {<<v, of(v)>> : v \in top}

Failures(s) == {r \in s : r.status \in {401, 403}}

\* Variant: an address at the threshold is let off.
FailedAuthentication_above(s) ==
    {Finding("brute_force", g[1], g[2], Maximum(1, Distinct(g[2], "endpoint")), TRUE, 6) :
        g \in Groups(Failures(s), "ip", LAMBDA rows : Cardinality(rows) > FailedAuthThreshold,
                     Cardinality)}

FailedAuthentication(s) ==
    {Finding("brute_force", g[1], g[2], Maximum(1, Distinct(g[2], "endpoint")), TRUE, 6) :
        g \in Groups(Failures(s), "ip", LAMBDA rows : Cardinality(rows) >= FailedAuthThreshold,
                     Cardinality)}

\* The same count spread over a day is weaker evidence.
Concentrated(f) == Duration(f.rows) <= FailedAuthWindow

CredentialStuffing(s) ==
    {Finding("credential_stuffing", g[1], g[2], Distinct(g[2], "user"), TRUE, 2) :
        g \in Groups({r \in Failures(s) : r.user # 0}, "ip",
                     LAMBDA rows : Distinct(rows, "user") >= Maximum(StuffingFloor, FailedAuthThreshold),
                     LAMBDA rows : Distinct(rows, "user"))}

EndpointScanning(s) ==
    {Finding("endpoint_scanning", g[1], g[2], Distinct(g[2], "endpoint"), TRUE, 3) :
        g \in Groups({r \in s : r.status = 404}, "ip",
                     LAMBDA rows : Cardinality(rows) >= NotFoundThreshold,
                     LAMBDA rows : Distinct(rows, "endpoint"))}

Sensitive(s) ==
    {Finding("sensitive_endpoint_access", g[1], g[2], Distinct(g[2], "endpoint"), TRUE, 2) :
        g \in Groups({r \in s : r.endpoint \in SensitiveEndpoints}, "ip", LAMBDA rows : TRUE, Cardinality)}

SuspiciousUserAgents(s) ==
    {Finding("suspicious_user_agent", g[1], g[2], Maximum(1, Distinct(g[2], "endpoint")), TRUE, 2) :
        g \in Groups({r \in s : r.agent \in SuspiciousAgents}, "ip", LAMBDA rows : TRUE, Cardinality)}

\* Only what reaches one request a second; a burst shorter than that counts
\* as one second.
RequestFloods(s) ==
    {Finding("request_flood", g[1], g[2], Maximum(1, Distinct(g[2], "endpoint")), TRUE, 3) :
        g \in {h \in Groups(s, "ip", LAMBDA rows : Cardinality(rows) >= RequestRateThreshold, Cardinality) :
                  Cardinality(h[2]) >= Maximum(Duration(h[2]), 1)}}

\* Grouped by service, which is never an address; NULL is 'unknown'.
UnknownService == 99

SecretsInLogs(s) ==
    LET named == {[r EXCEPT !.service = IF @ = 0 THEN UnknownService ELSE @] : r \in {q \in s : q.masked}}
    IN  {Finding("secret_in_log", g[1], g[2], Maximum(1, Distinct(g[2], "logger")), FALSE, 2) :
            g \in Groups(named, "service", LAMBDA rows : TRUE, Cardinality)}

\* _correlate: a subject with several types of finding has each scored again,
\* the breadth now taken from the size of the evidence.
Correlated(f, signals) ==
    IF signals <= 1 THEN f
    ELSE LET score == ScoreFinding(f.type, f.count, Maximum(1, f.evidence), f.subject \notin Private, signals)
         IN  [f EXCEPT !.score = score, !.severity = SeverityOf(score), !.evidence = @ + 1]

Correlate(findings) ==
    {Correlated(f, Cardinality({g.type : g \in {h \in findings : h.subject = f.subject}})) : f \in findings}

\* analyze: a detection that raises is left out; the others go on.
Analyze(rows, start, end, failing, limit) ==
    LET s == Scope(rows, start, end, <<>>)
        found(name, findings) == IF name \in failing THEN {} ELSE findings
        all == found("auth", FailedAuthentication(s)) \union found("stuffing", CredentialStuffing(s))
               \union found("scanning", EndpointScanning(s)) \union found("sensitive", Sensitive(s))
               \union found("agents", SuspiciousUserAgents(s)) \union found("floods", RequestFloods(s))
               \union found("secrets", SecretsInLogs(s))
        ranked == SortedBy(Correlate(all), LAMBDA a, b :
                      a.score > b.score \/ (a.score = b.score /\ a.subject < b.subject))
    IN  SubSeq(ranked, 1, Minimum(limit, Len(ranked)))
=============================================================================
