---------------------------- MODULE MCReplicator ----------------------------
(* Small instances of the snapshot copier. *)
EXTENDS Replicator

CONSTANTS p1, p2

\* One partition, p1, whose last offset of the first window holds no record.
OneGap == [p \in Partitions |-> {1}]

\* p1 ends its windows with a marker, p2 has none.
GapInFirst == [p \in Partitions |-> IF p = p1 THEN {1} ELSE {}]

NoGaps == [p \in Partitions |-> {}]
=============================================================================
