----------------------------- MODULE AtLeastOnce -----------------------------
(***************************************************************************)
(* What the streaming path promises a producer, without its mechanism: an  *)
(* offset is acknowledged only when every message up to it, from where the *)
(* consumer group began reading, is settled; settled messages stay settled *)
(* and acknowledgements never move back.                                   *)
(***************************************************************************)
EXTENDS Integers

CONSTANT N        \* messages of the topic partition are 1..N

NoOffset == -1    \* the group has no committed offset

VARIABLES
    start,        \* offset at which the group began reading
    acked,        \* committed offset, or NoOffset
    settled       \* messages that are stored, or rejected as unusable

Init ==
    /\ start = 0
    /\ acked = NoOffset
    /\ settled \in SUBSET (1..N)

\* Without a committed offset the group begins at a place of the broker's choice.
Subscribe ==
    /\ acked = NoOffset
    /\ start' \in 0..N
    /\ UNCHANGED <<acked, settled>>

Persist ==
    /\ settled' \in SUBSET (1..N)
    /\ settled \subseteq settled'
    /\ UNCHANGED <<start, acked>>

Acknowledge ==
    /\ acked' \in 0..N
    /\ acked' >= acked
    /\ (start + 1)..acked' \subseteq settled
    /\ UNCHANGED <<start, settled>>

Next == Subscribe \/ Persist \/ Acknowledge

Spec == Init /\ [][Next]_<<start, acked, settled>>
=============================================================================
