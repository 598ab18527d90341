---------------------------- MODULE KeysetPaging ----------------------------
(***************************************************************************)
(* A client that reads a whole result with SearchService.search_after: each *)
(* page's last item is the cursor of the next call.  query_logs orders by   *)
(* the timestamp alone, so DuckDB may return rows of one timestamp in any   *)
(* order.                                                                   *)
(***************************************************************************)
EXTENDS Integers, FiniteSets

CONSTANTS
    MaxTimestamp, MaxEventId,   \* bounds: rows are all pairs up to these
    PageSize

VARIABLES rows, cursor, seen, ended
vars == <<rows, cursor, seen, ended>>

Row == [timestamp : 1..MaxTimestamp, event_id : 1..MaxEventId]

\* No cursor: after_timestamp is None.
NoCursor == [timestamp |-> MaxTimestamp + 1, event_id |-> 0]

Init ==
    /\ rows \in SUBSET Row
    /\ cursor = NoCursor
    /\ seen = [r \in Row |-> 0]
    /\ ended = FALSE

\* (timestamp < ? OR (timestamp = ? AND event_id < ?))
Before(r, c) ==
    \/ r.timestamp < c.timestamp
    \/ r.timestamp = c.timestamp /\ r.event_id < c.event_id

\* What ORDER BY timestamp DESC LIMIT n may return: a page, and its last row.
Pages(found) ==
    {p \in (SUBSET found) \X found :
        LET page == p[1]
            last == p[2]
        IN
        /\ last \in page
        /\ Cardinality(page) = (IF Cardinality(found) < PageSize THEN Cardinality(found)
                                ELSE PageSize)
        /\ \A r \in page : \A s \in found \ page : r.timestamp >= s.timestamp
        /\ \A r \in page : last.timestamp <= r.timestamp}

\* search_after: the client goes on from the last item of the page.
SearchAfter ==
    /\ ~ ended
    /\ LET found == {r \in rows : Before(r, cursor)}
       IN  \E p \in Pages(found) :
              /\ seen' = [r \in Row |-> IF r \in p[1] THEN seen[r] + 1 ELSE seen[r]]
              /\ cursor' = p[2]
              /\ UNCHANGED ended
    /\ UNCHANGED rows

\* An empty page is the end.
LastPage ==
    /\ ~ ended
    /\ {r \in rows : Before(r, cursor)} = {}
    /\ ended' = TRUE
    /\ UNCHANGED <<rows, cursor, seen>>

Next == SearchAfter \/ LastPage

Spec == Init /\ [][Next]_vars

\* search_after's docstring: "the event id breaks ties so no record is skipped
\* or repeated when many records share a timestamp".
NoneSkippedOrRepeated == ended => \A r \in rows : seen[r] = 1
=============================================================================
