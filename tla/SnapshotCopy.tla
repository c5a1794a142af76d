---------------------------- MODULE SnapshotCopy ----------------------------
(***************************************************************************)
(* What the snapshot copier promises, whatever its windows, polls, retries *)
(* and threads: a run fixes a range of offsets per partition, hands the    *)
(* records of that range to the target's producer in offset order, skips   *)
(* only what the source has deleted, never takes a record from outside the *)
(* range, and reports success only when nothing readable is left.          *)
(***************************************************************************)
EXTENDS Integers, Sequences

CONSTANTS Partitions, MaxOffset, Gaps

VARIABLES
  status,      \* "idle", "opening", "copying", "succeeded" or "stopped"
  retained,    \* per partition, the oldest offset the source still holds
  lo, hi,      \* the range of offsets to copy
  copied       \* what this run handed over, in order

vars == <<status, retained, lo, hi, copied>>

\* The offsets of p in [from, to) that hold a record.
RecordsOf(p, from, to) == {o \in from..(to - 1) : o \notin Gaps[p]}

CopiedSet(p) == {copied[p][i] : i \in 1..Len(copied[p])}

\* All records of p below offset x are copied or deleted at the source.
NothingLeftBelow(p, x) ==
  \A o \in RecordsOf(p, lo[p], x) : o >= retained[p] => o \in CopiedSet(p)

Init ==
  /\ status = "idle"
  /\ retained = [p \in Partitions |-> 0]
  /\ lo = retained /\ hi = retained
  /\ copied = [p \in Partitions |-> <<>>]

Delete(p) ==
  /\ \E o \in (retained[p] + 1)..MaxOffset : retained' = [retained EXCEPT ![p] = o]
  /\ UNCHANGED <<status, lo, hi, copied>>

Open ==
  /\ status \in {"idle", "succeeded", "stopped"}
  /\ status' = "opening"
  /\ lo' = retained /\ hi' = retained
  /\ copied' = [p \in Partitions |-> <<>>]
  /\ UNCHANGED retained

FixRange ==
  /\ status = "opening"
  /\ status' = "copying"
  /\ hi' \in [Partitions -> 0..MaxOffset]
  /\ \A p \in Partitions : lo[p] <= hi'[p]
  /\ UNCHANGED <<retained, lo, copied>>

Copy(p) ==
  /\ status = "copying"
  /\ \E o \in RecordsOf(p, lo[p], hi[p]) :
       /\ \A i \in 1..Len(copied[p]) : copied[p][i] < o
       /\ NothingLeftBelow(p, o)
       /\ copied' = [copied EXCEPT ![p] = Append(@, o)]
  /\ UNCHANGED <<status, retained, lo, hi>>

Succeed ==
  /\ status = "copying"
  /\ \A p \in Partitions : NothingLeftBelow(p, hi[p])
  /\ status' = "succeeded"
  /\ UNCHANGED <<retained, lo, hi, copied>>

Stop ==
  /\ status \in {"opening", "copying"}
  /\ status' = "stopped"
  /\ UNCHANGED <<retained, lo, hi, copied>>

Next ==
  \/ Open \/ FixRange \/ Succeed \/ Stop
  \/ \E p \in Partitions : Delete(p) \/ Copy(p)

Spec == Init /\ [][Next]_vars
=============================================================================
