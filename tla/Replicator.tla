----------------------------- MODULE Replicator -----------------------------
(***************************************************************************)
(* The Kafka -> FSK snapshot copier (ApacheKafkaToFskReplicatorApp.java).  *)
(*                                                                         *)
(* Three actors share the state: the source brokers (records keep arriving *)
(* and retention keeps deleting while the tool runs), the application      *)
(* thread (snapshot, windows, poll loop, flush), and the sender thread of  *)
(* the Kafka producer, which ships batches to the target while the         *)
(* application goes on reading.  A run may be killed and started again;    *)
(* the target keeps what it has.                                           *)
(*                                                                         *)
(* A record is its source offset.  Offsets in Gaps[p] hold no record       *)
(* (transaction markers, compacted records): the consumer's position       *)
(* moves over them but poll() never returns them.                          *)
(***************************************************************************)
EXTENDS Integers, Sequences, FiniteSets

CONSTANTS
  Partitions,     \* the topic partitions matched by the pattern
  MaxOffset,      \* bound: the source logs hold offsets 0..MaxOffset-1
  Gaps,           \* per partition, the offsets that hold no record
  Live,           \* partitions whose log changes while the tool runs
  Busy,           \* live partitions whose producers never stop
  BatchSize,      \* --batch-size
  MaxEmptyPolls,  \* --max-empty-polls
  Retries,        \* the producer's "retries"
  Faults,         \* which faults may happen, a subset of FaultKinds
  MaxRuns         \* bound: how many times the tool is started

FaultKinds == {"slow", "source", "target", "send", "request", "ack", "reject", "crash"}

ASSUME ConstantsAssumption ==
  /\ MaxOffset \in Nat
  /\ Gaps \in [Partitions -> SUBSET Nat]
  /\ Busy \subseteq Live /\ Live \subseteq Partitions
  /\ BatchSize \in Nat \ {0}
  /\ MaxEmptyPolls \in Nat \ {0}
  /\ Retries \in Nat /\ MaxRuns \in Nat
  /\ Faults \subseteq FaultKinds

VARIABLES
  logStart, logEnd,      \* source: first retained offset, next offset
  pc,                    \* where the application thread is
  begin, end,            \* beginOffsets, endOffsets: the snapshot
  completed,             \* partitions copied to the end of the snapshot
  batchStart,            \* start of the current window
  active, batchDone,     \* partitions of the window, those drained
  emptyPolls,            \* consecutive empty polls
  pos,                   \* the consumer's position
  cur,                   \* next offset of the records poll() returned
  published,             \* actualReadCounts
  buffered,              \* producer: accumulated, not yet drained
  inflight, attempts,    \* producer: the batch on the wire, its retries
  target,                \* the partition's log on the target
  sent,                  \* history: offsets given to send() in this run
  failed,                \* history: offsets whose callback got an error
  mark,                  \* history: length of target when the run began
  runs                   \* history: runs started

source   == <<logStart, logEnd>>
snapshot == <<begin, end>>
window   == <<completed, batchStart, active, batchDone, emptyPolls>>
consumer == <<pos, cur>>
counts   == <<published, sent>>
producer == <<buffered, inflight, attempts, target, failed>>
history  == <<mark, runs>>
vars == <<source, pc, snapshot, window, consumer, counts, producer, history>>

Offsets == 0..MaxOffset
Stopped == {"idle", "done", "failed", "crashed"}
Running == {"snapshot", "create", "window", "poll", "records", "flush", "closing"}

\* The offsets of p in [lo, hi) that hold a record.
Records(p, lo, hi) == {o \in lo..(hi - 1) : o \notin Gaps[p]}

Elements(s) == {s[i] : i \in 1..Len(s)}

AtLeast(a, b) == IF a < b THEN b ELSE a
AtMost(a, b)  == IF a < b THEN a ELSE b

\* plannedCounts of the pre-copy report.
Planned(p) == AtLeast(0, end[p] - begin[p])

-----------------------------------------------------------------------------
(* The source brokers.                                                     *)

Produce(p) ==
  /\ p \in Live
  /\ logEnd[p] < MaxOffset
  /\ logEnd' = [logEnd EXCEPT ![p] = @ + 1]
  /\ UNCHANGED <<logStart, pc, snapshot, window, consumer, counts, producer, history>>

\* Retention deletes the oldest offset.
Expire(p) ==
  /\ p \in Live
  /\ logStart[p] < logEnd[p]
  /\ logStart' = [logStart EXCEPT ![p] = @ + 1]
  /\ UNCHANGED <<logEnd, pc, snapshot, window, consumer, counts, producer, history>>

-----------------------------------------------------------------------------
(* The application thread: run() and replicateSnapshot().                  *)

\* A new process: fresh consumer, fresh producer, begin offsets read.
Start ==
  /\ pc \in Stopped /\ runs < MaxRuns
  /\ runs' = runs + 1
  /\ pc' = "snapshot"
  /\ begin' = logStart /\ end' = logStart
  /\ batchStart' = logStart /\ pos' = logStart /\ cur' = logStart
  /\ completed' = {} /\ active' = {} /\ batchDone' = {} /\ emptyPolls' = 0
  /\ published' = [p \in Partitions |-> 0]
  /\ sent' = [p \in Partitions |-> <<>>]
  /\ failed' = [p \in Partitions |-> {}]
  /\ mark' = [p \in Partitions |-> Len(target[p])]
  /\ UNCHANGED <<source, buffered, inflight, attempts, target>>

\* The second, separate call: the end offsets.
ReadEndOffsets ==
  /\ pc = "snapshot"
  /\ end' = logEnd
  /\ pc' = "create"
  /\ UNCHANGED <<source, begin, window, consumer, counts, producer, history>>

\* Topics exist on the target; replicateSnapshot marks the empty partitions.
CreateTopics ==
  /\ pc = "create"
  /\ completed' = {p \in Partitions : begin[p] >= end[p]}
  /\ batchStart' = begin
  /\ pc' = "window"
  /\ UNCHANGED <<source, snapshot, active, batchDone, emptyPolls, consumer, counts,
                 producer, history>>

WindowEndMutant(p) == batchStart[p] + BatchSize

\* The window of p is [batchStart[p], WindowEnd(p)).
WindowEnd(p) == AtMost(batchStart[p] + BatchSize, end[p])

SeekOffsetMutant(p) == begin[p]

\* Where the consumer is put when a window opens.
SeekOffset(p) == batchStart[p]

\* Build the next window, assign and seek.
OpenWindow ==
  /\ pc = "window" /\ completed # Partitions
  /\ active' = Partitions \ completed
  /\ pos' = [p \in Partitions |-> IF p \in completed THEN pos[p] ELSE SeekOffset(p)]
  /\ cur' = pos'
  /\ batchDone' = {} /\ emptyPolls' = 0
  /\ pc' = "poll"
  /\ UNCHANGED <<source, snapshot, completed, batchStart, counts, producer, history>>

\* Where a fetch of p starts: the position, or the log start when retention
\* has passed it (auto.offset.reset=earliest).  A busy partition that reached
\* the bound always has one more record: the last offset stands for all those
\* after the snapshot.
FetchFrom(p) ==
  {AtLeast(pos[p], logStart[p])}
    \cup {o \in {MaxOffset - 1} : p \in Busy /\ pos[p] = MaxOffset /\ end[p] < MaxOffset}

\* What poll() can do to p: fetch the offsets from f[1] up to f[2].
Fetch(p) ==
  IF p \in active
  THEN {f \in Offsets \X Offsets : f[1] \in FetchFrom(p) /\ f[2] \in f[1]..logEnd[p]}
  ELSE {<<pos[p], pos[p]>>}

Fetches ==
  {f \in [Partitions -> UNION {Fetch(p) : p \in Partitions}] :
     \A p \in Partitions : f[p] \in Fetch(p)}

HasRecords(f) == \E p \in active : Records(p, f[p][1], f[p][2]) # {}

Advance(f) ==
  /\ cur' = [p \in Partitions |-> f[p][1]]
  /\ pos' = [p \in Partitions |-> f[p][2]]

PollRecords ==
  /\ pc = "poll"
  /\ \E f \in Fetches : HasRecords(f) /\ Advance(f)
  /\ emptyPolls' = 0
  /\ pc' = "records"
  /\ UNCHANGED <<source, snapshot, completed, batchStart, active, batchDone, counts,
                 producer, history>>

\* poll() timed out without a record; positions may have moved over gaps.  A
\* responsive source ("slow" is no fault) returns nothing only when it has
\* nothing left.
TimedOut(f) ==
  /\ ~HasRecords(f)
  /\ "slow" \notin Faults =>
       /\ ~\E g \in Fetches : HasRecords(g)
       /\ \A p \in active : f[p][2] = logEnd[p]

\* On an empty poll only: partitions whose position reached the window's end.
DrainedByPositionMutant == {p \in active : pos'[p] > WindowEnd(p)}

DrainedByPosition == {p \in active : pos'[p] >= WindowEnd(p)}

GivesUp(n) == n >= MaxEmptyPolls

PollEmpty ==
  /\ pc = "poll"
  /\ \E f \in Fetches : TimedOut(f) /\ Advance(f)
  /\ emptyPolls' = emptyPolls + 1
  /\ batchDone' = batchDone \cup DrainedByPosition
  /\ pc' = IF GivesUp(emptyPolls') THEN "closing"
           ELSE IF batchDone' = active THEN "flush" ELSE "poll"
  /\ UNCHANGED <<source, snapshot, completed, batchStart, active, counts, producer, history>>

\* A record past the window marks the partition drained.
SkipRecord(p, o) ==
  /\ o >= WindowEnd(p)
  /\ batchDone' = batchDone \cup {p}
  /\ UNCHANGED <<completed, counts, buffered, failed>>

ReachesEndMutant(p, o) == o + 2 >= end[p]

\* The record is the last offset of the snapshot.
ReachesEnd(p, o) == o + 1 >= end[p]

\* send() is asynchronous and buffers the record.  It fails at once, through the
\* callback, when it cannot: the target has no such partition, the buffer is full,
\* the record is too large.
Accept(p, o) == buffered' = [buffered EXCEPT ![p] = Append(@, o)] /\ UNCHANGED failed

Refuse(p, o) ==
  "send" \in Faults /\ failed' = [failed EXCEPT ![p] = @ \cup {o}] /\ UNCHANGED buffered

\* Either way the record is counted.
SendRecord(p, o) ==
  /\ o < WindowEnd(p)
  /\ Accept(p, o) \/ Refuse(p, o)
  /\ sent' = [sent EXCEPT ![p] = Append(@, o)]
  /\ published' = [published EXCEPT ![p] = @ + 1]
  /\ batchDone' = batchDone \cup {q \in {p} : o + 1 >= WindowEnd(p)}
  /\ completed' = completed \cup {q \in {p} : ReachesEnd(p, o)}

\* The body of the loop over the polled records.
HandleRecord(p) ==
  /\ pc = "records" /\ p \in active
  /\ \E o \in Records(p, cur[p], pos[p]) :
       /\ \A q \in Records(p, cur[p], pos[p]) : o <= q
       /\ cur' = [cur EXCEPT ![p] = o + 1]
       /\ SkipRecord(p, o) \/ SendRecord(p, o)
  /\ UNCHANGED <<source, pc, snapshot, batchStart, active, emptyPolls, pos,
                 inflight, attempts, target, history>>

\* The polled records are used up: the loop condition decides.
RecordsDone ==
  /\ pc = "records"
  /\ \A p \in active : Records(p, cur[p], pos[p]) = {}
  /\ cur' = pos
  /\ pc' = IF batchDone = active THEN "flush" ELSE "poll"
  /\ UNCHANGED <<source, snapshot, window, pos, counts, producer, history>>

ProducerIdleMutant == TRUE

ProducerIdle == \A p \in Partitions : buffered[p] = <<>> /\ inflight[p] = <<>>

NextStartMutant(p) == batchStart[p]

\* Where the next window of p starts.
NextStart(p) == IF p \in active THEN WindowEnd(p) ELSE batchStart[p]

LastWindowMutant == {p \in active : WindowEnd(p) > end[p]}

\* The partitions of this window that have no next one.
LastWindow == {p \in active : WindowEnd(p) >= end[p]}

\* flush() returned; the windows move on.
Flush ==
  /\ pc = "flush" /\ ProducerIdle
  /\ batchStart' = [p \in Partitions |-> NextStart(p)]
  /\ completed' = completed \cup LastWindow
  /\ pc' = "window"
  /\ UNCHANGED <<source, snapshot, active, batchDone, emptyPolls, consumer, counts,
                 producer, history>>

\* Final statistics, clients closed, exit code 0.
Finish ==
  /\ pc = "window" /\ completed = Partitions
  /\ pc' = "done"
  /\ UNCHANGED <<source, snapshot, window, consumer, counts, producer, history>>

\* An exception of a client call leaves run() through try-with-resources.
ClientFails ==
  /\ \/ "source" \in Faults /\ pc \in {"snapshot", "poll"}
     \/ "target" \in Faults /\ pc = "create"
  /\ pc' = "closing"
  /\ UNCHANGED <<source, snapshot, window, consumer, counts, producer, history>>

\* The producer's close() waits for what it still holds; then exit code 1.
Close ==
  /\ pc = "closing" /\ ProducerIdle
  /\ pc' = "failed"
  /\ UNCHANGED <<source, snapshot, window, consumer, counts, producer, history>>

\* The process is killed: what the producer holds is gone.
Crash ==
  /\ "crash" \in Faults /\ pc \in Running
  /\ pc' = "crashed"
  /\ buffered' = [p \in Partitions |-> <<>>]
  /\ inflight' = [p \in Partitions |-> <<>>]
  /\ attempts' = [p \in Partitions |-> 0]
  /\ UNCHANGED <<source, snapshot, window, consumer, counts, target, failed, history>>

-----------------------------------------------------------------------------
(* The producer's sender thread.  max.in.flight.requests.per.connection=1: *)
(* one batch of a partition is on the wire, and its retries come first.    *)

\* Some of the accumulated records of p leave as one batch.
Drain(p) ==
  /\ inflight[p] = <<>>
  /\ \E n \in 1..Len(buffered[p]) :
       /\ inflight' = [inflight EXCEPT ![p] = SubSeq(buffered[p], 1, n)]
       /\ buffered' = [buffered EXCEPT ![p] = SubSeq(@, n + 1, Len(@))]
  /\ UNCHANGED <<source, pc, snapshot, window, consumer, counts, attempts, target,
                 failed, history>>

Appended(p) == target' = [target EXCEPT ![p] = @ \o inflight[p]]

BatchLeaves(p) ==
  /\ inflight' = [inflight EXCEPT ![p] = <<>>]
  /\ attempts' = [attempts EXCEPT ![p] = 0]

CallbacksFailMutant(p) == UNCHANGED failed

\* Every record of the batch gets its callback with an exception: a line on
\* standard output, and nothing else.
CallbacksFail(p) == failed' = [failed EXCEPT ![p] = @ \cup Elements(inflight[p])]

RetryMutant(p) ==
  /\ attempts[p] < Retries
  /\ attempts' = [attempts EXCEPT ![p] = @ + 1]
  /\ buffered' = [buffered EXCEPT ![p] = @ \o inflight[p]]
  /\ inflight' = [inflight EXCEPT ![p] = <<>>]
  /\ UNCHANGED failed

\* The attempt failed in a retriable way: same batch, ahead of newer records.
Retry(p) ==
  /\ attempts[p] < Retries
  /\ attempts' = [attempts EXCEPT ![p] = @ + 1]
  /\ UNCHANGED <<buffered, inflight, failed>>

\* The retries are used up.
GiveUp(p) ==
  /\ attempts[p] >= Retries
  /\ BatchLeaves(p) /\ CallbacksFail(p)
  /\ UNCHANGED buffered

Ack(p) ==
  /\ inflight[p] # <<>>
  /\ Appended(p) /\ BatchLeaves(p)
  /\ UNCHANGED <<source, pc, snapshot, window, consumer, counts, buffered, failed, history>>

\* The request never reaches the target.
LoseRequest(p) ==
  /\ "request" \in Faults /\ inflight[p] # <<>>
  /\ Retry(p) \/ GiveUp(p)
  /\ UNCHANGED <<source, pc, snapshot, window, consumer, counts, target, history>>

\* The target appended the batch and its answer is lost.
LoseAck(p) ==
  /\ "ack" \in Faults /\ inflight[p] # <<>>
  /\ Appended(p)
  /\ Retry(p) \/ GiveUp(p)
  /\ UNCHANGED <<source, pc, snapshot, window, consumer, counts, history>>

\* The target refuses the batch for good.
Reject(p) ==
  /\ "reject" \in Faults /\ inflight[p] # <<>>
  /\ BatchLeaves(p) /\ CallbacksFail(p)
  /\ UNCHANGED <<source, pc, snapshot, window, consumer, counts, buffered, target, history>>

-----------------------------------------------------------------------------

Init ==
  /\ logStart = [p \in Partitions |-> 0]
  /\ logEnd \in [Partitions -> Offsets]
  /\ pc = "idle" /\ runs = 0
  /\ begin = logStart /\ end = logStart
  /\ completed = {} /\ batchStart = logStart
  /\ active = {} /\ batchDone = {} /\ emptyPolls = 0
  /\ pos = logStart /\ cur = logStart
  /\ published = [p \in Partitions |-> 0]
  /\ sent = [p \in Partitions |-> <<>>]
  /\ buffered = sent /\ inflight = sent /\ target = sent
  /\ attempts = [p \in Partitions |-> 0]
  /\ failed = [p \in Partitions |-> {}]
  /\ mark = [p \in Partitions |-> 0]

Source == \E p \in Partitions : Produce(p) \/ Expire(p)

\* The steps of a running process.
Run ==
  \/ ReadEndOffsets \/ CreateTopics
  \/ OpenWindow \/ PollRecords \/ PollEmpty
  \/ (\E p \in Partitions : HandleRecord(p))
  \/ RecordsDone \/ Flush \/ Finish \/ Close

Sender(p) == Drain(p) \/ Ack(p) \/ LoseRequest(p) \/ LoseAck(p) \/ Reject(p)

Next ==
  \/ Source \/ Start \/ Run \/ ClientFails \/ Crash
  \/ \E p \in Partitions : Sender(p)

Spec == Init /\ [][Next]_vars

\* The threads of a process that is not killed keep running.
Fairness ==
  /\ WF_vars(Run)
  /\ \A p \in Partitions : WF_vars(Sender(p))

FairSpec == Spec /\ Fairness

-----------------------------------------------------------------------------
(* Properties.                                                             *)

\* The variables have their types; the positions stay inside the logs.
TypeOK ==
  /\ logStart \in [Partitions -> Offsets] /\ logEnd \in [Partitions -> Offsets]
  /\ pc \in Stopped \cup Running
  /\ begin \in [Partitions -> Offsets] /\ end \in [Partitions -> Offsets]
  /\ completed \subseteq Partitions /\ active \subseteq Partitions
  /\ batchDone \subseteq active
  /\ batchStart \in [Partitions -> Offsets]
  /\ emptyPolls \in Nat
  /\ pos \in [Partitions -> Offsets] /\ cur \in [Partitions -> Offsets]
  /\ published \in [Partitions -> Nat]
  /\ buffered \in [Partitions -> Seq(Offsets)] /\ inflight \in [Partitions -> Seq(Offsets)]
  /\ attempts \in [Partitions -> 0..Retries]
  /\ target \in [Partitions -> Seq(Offsets)] /\ sent \in [Partitions -> Seq(Offsets)]
  /\ failed \in [Partitions -> SUBSET Offsets]
  /\ mark \in [Partitions -> Nat]
  /\ runs \in 0..MaxRuns

\* Within a run each record of the snapshot is sent at most once and in offset
\* order, whatever the windows, re-seeks and empty polls, and no record that
\* arrived after the snapshot is sent (lines 296-377).
SentOnceInOrder ==
  \A p \in Partitions :
    /\ \A i \in 1..Len(sent[p]) : sent[p][i] \in Records(p, begin[p], end[p])
    /\ \A i, j \in 1..Len(sent[p]) : i < j => sent[p][i] < sent[p][j]

\* The summary never reports more published records than it planned to copy,
\* although the two numbers come from different places: offsets subtracted
\* before the copy, sends counted during it (lines 189-205, 366-367).
PublishedWithinPlanned ==
  pc \notin {"snapshot", "idle", "crashed"} =>
    \A p \in Partitions : published[p] <= Planned(p)

\* A partition is marked completed only when every record of its snapshot that
\* the source still holds was sent, even when retention has overtaken the
\* window in the meantime (lines 279-285, 373-376, 393-400).
CompletedMeansCopied ==
  pc \in Running \ {"snapshot", "create"} =>
    \A p \in completed :
      \A o \in Records(p, begin[p], end[p]) : o >= logStart[p] => o \in Elements(sent[p])

\* What this run has put on the target.
Written(p) == SubSeq(target[p], mark[p] + 1, Len(target[p]))

\* Once a window is closed, each record sent for it has an outcome: it is on
\* the target or its callback reported a failure.  A kill loses at most the
\* records of the window that is open (lines 380-381).
ClosedWindowsSettled ==
  \A p \in Partitions : \A i \in 1..Len(sent[p]) :
    sent[p][i] < batchStart[p] =>
      sent[p][i] \in Elements(Written(p)) \cup failed[p]

\* Retries and lost answers duplicate records on the target but never let a
\* later record overtake an earlier one: first copies are in offset order
\* (max.in.flight.requests.per.connection=1, lines 680-694).
FirstCopiesInOrder ==
  \A p \in Partitions : \A j \in 1..Len(Written(p)) :
    (\A i \in 1..(j - 1) : Written(p)[i] # Written(p)[j]) =>
      \A i \in 1..(j - 1) : Written(p)[i] < Written(p)[j]

\* When the tool exits 0, every record of the snapshot that the source still
\* holds was either written to the target in this run or reported on standard
\* output as failed: nothing is dropped without a trace.
ExitZeroAccountsForAll ==
  pc = "done" =>
    \A p \in Partitions : \A o \in Records(p, begin[p], end[p]) :
      o >= logStart[p] => o \in Elements(Written(p)) \cup failed[p]

\* Without lost answers a run writes no record twice, even when requests are
\* lost and retried.
DuplicatesNeedLostAcks ==
  "ack" \notin Faults =>
    \A p \in Partitions : \A i, j \in 1..Len(Written(p)) :
      i # j => Written(p)[i] # Written(p)[j]

\* A started run ends, one way or another, when the source's producers are not
\* endless: neither gaps, slow polls nor a broken target hang it.
RunEnds == (pc \in Running) ~> (pc \in Stopped)

\* When the source answers, the clients do not fail, and at least two empty
\* polls are allowed, a started run succeeds, also with gaps and with records
\* that arrive or expire during the copy.
ResponsiveRunSucceeds ==
  (Faults \cap {"slow", "source", "target", "crash"} = {} /\ MaxEmptyPolls >= 2) =>
    ((pc \in Running) ~> (pc = "done"))

-----------------------------------------------------------------------------
(* The run as its caller sees it.                                          *)

Status ==
  CASE pc = "idle" -> "idle"
    [] pc = "snapshot" -> "opening"
    [] pc = "done" -> "succeeded"
    [] pc \in {"failed", "crashed"} -> "stopped"
    [] OTHER -> "copying"

Copy == INSTANCE SnapshotCopy
          WITH status <- Status, retained <- logStart, lo <- begin, hi <- end, copied <- sent

\* Windows, re-seeks, empty polls, threads, retention and kills together are
\* still a copy of one fixed range in offset order that skips only deleted
\* records and claims success only when nothing is left (SnapshotCopy).
ImplementsSnapshotCopy == Copy!Spec

-----------------------------------------------------------------------------
(* The inductive invariant: CopyInv behind SentOnceInOrder,                *)
(* PublishedWithinPlanned, CompletedMeansCopied and the refinement,        *)
(* DeliveryInv behind the properties of what arrives.                      *)

Copying == {"window", "poll", "records", "flush"}

\* Below its frontier the run is through with partition p: in a window the
\* position (or the iterator over the polled records), cut at the window's end.
Frontier(p) ==
  IF pc \in Stopped \cup {"closing"} THEN end[p]
  ELSE IF p \notin active THEN batchStart[p]
  ELSE IF pc = "poll" THEN AtMost(pos[p], WindowEnd(p))
  ELSE IF pc = "records" THEN AtMost(cur[p], WindowEnd(p))
  ELSE IF pc = "flush" THEN WindowEnd(p)
  ELSE batchStart[p]

\* Every record of p below x that the source still holds was sent.
CopiedBelow(p, x) ==
  \A o \in Records(p, begin[p], x) : o >= logStart[p] => o \in Elements(sent[p])

RangesOrdered(p) ==
  /\ begin[p] <= logStart[p] /\ logStart[p] <= logEnd[p]
  /\ begin[p] <= batchStart[p] /\ batchStart[p] <= end[p] /\ end[p] <= logEnd[p]
  /\ pc \in {"snapshot", "create"} => batchStart[p] = begin[p] /\ completed = {}
  /\ pc \in {"poll", "records"} /\ p \in active =>
       batchStart[p] <= pos[p] /\ batchStart[p] <= cur[p]
  /\ pc = "records" /\ p \in active => cur[p] <= pos[p]

SentBelowFrontier(p) ==
  /\ \A i \in 1..Len(sent[p]) : sent[p][i] \in Records(p, begin[p], Frontier(p))
  /\ \A i, j \in 1..Len(sent[p]) : i < j => sent[p][i] < sent[p][j]
  /\ published[p] <= Frontier(p) - begin[p]

CopiedBelowFrontier(p) ==
  /\ pc \in Copying => CopiedBelow(p, Frontier(p))
  /\ pc \in {"poll", "records", "flush"} /\ p \in batchDone => Frontier(p) = WindowEnd(p)
  /\ pc = "flush" => batchDone = active
  /\ pc \in Copying /\ p \in completed => Frontier(p) = end[p]
  /\ pc \notin {"snapshot", "create"} /\ p \in completed => CopiedBelow(p, end[p])

\* The run works its way through each partition from one frontier to the next:
\* what it sent lies below, in order; what it did not send below is deleted;
\* a drained partition's frontier is the window's end, a completed one's the
\* end of the snapshot (lines 292-401).
CopyInv ==
  \A p \in Partitions : RangesOrdered(p) /\ SentBelowFrontier(p) /\ CopiedBelowFrontier(p)

Ascending(s) == \A i, j \in 1..Len(s) : i < j => s[i] < s[j]

AllBelow(s, t) == \A x \in Elements(s), y \in Elements(t) : x < y

\* What is on its way to the target is in order and ahead of what has arrived; a
\* batch that has arrived and is still on the wire lost its answer.
QueuesInOrder(p) ==
  /\ Ascending(inflight[p]) /\ Ascending(buffered[p])
  /\ AllBelow(inflight[p], buffered[p]) /\ AllBelow(Written(p), buffered[p])
  /\ \/ AllBelow(Written(p), inflight[p])
     \/ "ack" \in Faults /\ Elements(inflight[p]) \subseteq Elements(Written(p))

\* Every record that was sent has an outcome or is on its way; one of a closed
\* window has an outcome.  Only a kill takes a record off the way.
SentAccounted(p) ==
  /\ Elements(Written(p)) \cup Elements(inflight[p]) \cup Elements(buffered[p])
       \subseteq Elements(sent[p])
  /\ \A o \in Elements(sent[p]) \ (Elements(Written(p)) \cup failed[p]) :
       /\ o >= batchStart[p]
       /\ pc # "crashed" => o \in Elements(inflight[p]) \cup Elements(buffered[p])

\* The way of the records through the producer (lines 360-381, 680-694).
DeliveryInv ==
  /\ \A p \in Partitions : mark[p] <= Len(target[p]) /\ QueuesInOrder(p) /\ SentAccounted(p)
  /\ pc \in Stopped \cup {"snapshot", "create", "window"} => ProducerIdle
  /\ pc = "done" => completed = Partitions
  /\ FirstCopiesInOrder /\ DuplicatesNeedLostAcks

\* The inductive invariant.
IInv == TypeOK /\ CopyInv /\ DeliveryInv

-----------------------------------------------------------------------------
(* What the documentation says and the code does not do.                   *)

\* "Empty polls before a partition counts as drained" (README 747): reaching
\* the limit ends the window and not the run.
EmptyPollsDrain == emptyPolls >= MaxEmptyPolls => pc # "closing"

\* "polls until the window is drained, flushes to FSK, then advances the
\* window" (comment, lines 289-291): a window whose positions have all reached
\* its end is flushed.
WindowDrained == pc \in {"poll", "records"} /\ \A p \in active : pos[p] >= WindowEnd(p)
DrainedWindowIsFlushed == WindowDrained ~> pc \in {"flush"} \cup Stopped

\* "Check that planned equals published in the summary" (README 183): a copy
\* that lost nothing prints equal numbers.
PlannedEqualsPublished ==
  (pc = "done" /\ \A p \in Partitions : logStart[p] <= begin[p]) =>
    \A p \in Partitions : published[p] = Planned(p)

\* "The exit code is 0 on success and non-zero on failure" (README 785).
ExitZeroMeansWritten ==
  pc = "done" => \A p \in Partitions : \A i \in 1..Len(sent[p]) :
                   sent[p][i] \in Elements(Written(p))
=============================================================================
