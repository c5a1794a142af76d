-------------------------- MODULE ReplicatorProofs --------------------------
(* What holds of the snapshot copier, and of the setup of the target before *)
(* it (TargetTopics), for every value of their constants.                   *)
EXTENDS TargetTopics, Replicator, SequenceTheorems, TLAPS

\* The window of p ends inside the snapshot.
LEMMA WindowEndType ==
  ASSUME TypeOK, NEW p \in Partitions
  PROVE  /\ WindowEnd(p) \in Offsets
         /\ WindowEnd(p) <= end[p] /\ WindowEnd(p) <= batchStart[p] + BatchSize
         /\ batchStart[p] <= end[p] => batchStart[p] <= WindowEnd(p)
<1>1. batchStart[p] \in Nat /\ end[p] \in 0..MaxOffset
  BY ConstantsAssumption DEF TypeOK, Offsets
<1>2. BatchSize \in Nat /\ MaxOffset \in Nat
  BY ConstantsAssumption
<1>3. QED
  BY <1>1, <1>2 DEF WindowEnd, AtMost, Offsets

\* A fetch moves no position out of the log's offsets.
LEMMA FetchesType ==
  ASSUME TypeOK, NEW f \in Fetches, NEW p \in Partitions
  PROVE  f[p][1] \in Offsets /\ f[p][2] \in Offsets
<1>1. f[p] \in Fetch(p) /\ pos[p] \in Offsets
  BY DEF Fetches, TypeOK
<1>2. QED
  BY <1>1 DEF Fetch

\* Both parts of a queue cut in two are sequences of offsets.
LEMMA DrainType ==
  ASSUME NEW s \in Seq(Offsets), NEW n \in 1..Len(s)
  PROVE  SubSeq(s, 1, n) \in Seq(Offsets) /\ SubSeq(s, n + 1, Len(s)) \in Seq(Offsets)
<1>1. Len(s) \in Nat /\ \A i \in 1..Len(s) : s[i] \in Offsets
  BY LenProperties, ElementOfSeq
<1>2. SubSeq(s, 1, n) \in Seq(Offsets)
  BY <1>1, SubSeqProperties
<1>3. SubSeq(s, n + 1, Len(s)) \in Seq(Offsets)
  BY <1>1, SubSeqProperties
<1>4. QED
  BY <1>2, <1>3

\* The variables keep their types in every run, for every value of the constants.
THEOREM TypeCorrect == Spec => []TypeOK
<1>1. Init => TypeOK
  BY ConstantsAssumption DEF Init, TypeOK, Offsets, Stopped
<1>2. TypeOK /\ [Next]_vars => TypeOK'
  <2> SUFFICES ASSUME TypeOK, [Next]_vars PROVE TypeOK'
    OBVIOUS
  <2> USE ConstantsAssumption
  <2>1. ASSUME NEW p \in Partitions, Produce(p) PROVE TypeOK'
    <3>1. logEnd[p] \in Nat /\ logEnd[p] < MaxOffset /\ MaxOffset \in Nat
      BY <2>1 DEF TypeOK, Produce, Offsets
    <3>2. logEnd[p] + 1 \in Offsets
      BY <3>1 DEF Offsets
    <3>3. logEnd' \in [Partitions -> Offsets]
      BY <2>1, <3>2 DEF TypeOK, Produce
    <3>4. QED
      BY <2>1, <3>3 DEF TypeOK, Produce, snapshot, window, consumer, counts, producer, history
  <2>2. ASSUME NEW p \in Partitions, Expire(p) PROVE TypeOK'
    <3>1. /\ logStart[p] \in Nat /\ logEnd[p] \in 0..MaxOffset
          /\ logStart[p] < logEnd[p] /\ MaxOffset \in Nat
      BY <2>2 DEF TypeOK, Expire, Offsets
    <3>2. logStart[p] + 1 \in Offsets
      BY <3>1 DEF Offsets
    <3>3. logStart' \in [Partitions -> Offsets]
      BY <2>2, <3>2 DEF TypeOK, Expire
    <3>4. QED
      BY <2>2, <3>3 DEF TypeOK, Expire, snapshot, window, consumer, counts, producer, history
  <2>3. CASE Start
    BY <2>3 DEF TypeOK, Start, source, Offsets, Running
  <2>4. CASE ReadEndOffsets
    BY <2>4 DEF TypeOK, ReadEndOffsets, source, window, consumer, counts, producer, history, Running
  <2>5. CASE CreateTopics
    BY <2>5 DEF TypeOK, CreateTopics, source, snapshot, consumer, counts, producer, history, Running
  <2>6. CASE OpenWindow
    BY <2>6 DEF TypeOK, OpenWindow, SeekOffset, source, snapshot, counts, producer, history, Running
  <2>7. CASE PollRecords
    <3>1. PICK f \in Fetches : Advance(f)
      BY <2>7 DEF PollRecords
    <3>2. pos' \in [Partitions -> Offsets] /\ cur' \in [Partitions -> Offsets]
      BY <3>1, FetchesType DEF Advance
    <3>3. QED
      BY <2>7, <3>2 DEF TypeOK, PollRecords, source, snapshot, counts, producer, history, Running
  <2>8. CASE PollEmpty
    <3>1. PICK f \in Fetches : Advance(f)
      BY <2>8 DEF PollEmpty
    <3>2. pos' \in [Partitions -> Offsets] /\ cur' \in [Partitions -> Offsets]
      BY <3>1, FetchesType DEF Advance
    <3>3. pc' \in {"closing", "flush", "poll"} /\ emptyPolls' \in Nat
      BY <2>8 DEF PollEmpty, TypeOK
    <3>4. batchDone' \subseteq active
      BY <2>8 DEF PollEmpty, DrainedByPosition, TypeOK
    <3>5. QED
      BY <2>8, <3>2, <3>3, <3>4 DEF TypeOK, PollEmpty, source, snapshot, counts, producer, history, Running
  <2>9. ASSUME NEW p \in Partitions, HandleRecord(p) PROVE TypeOK'
    <3>1. PICK o \in Records(p, cur[p], pos[p]) :
            /\ cur' = [cur EXCEPT ![p] = o + 1]
            /\ SkipRecord(p, o) \/ SendRecord(p, o)
      BY <2>9 DEF HandleRecord
    <3>2. o \in Offsets /\ o + 1 \in Offsets
      <4>1. cur[p] \in 0..MaxOffset /\ pos[p] \in 0..MaxOffset /\ MaxOffset \in Nat
        BY DEF TypeOK, Offsets
      <4>2. QED
        BY <4>1, <3>1 DEF Records, Offsets
    <3>3. p \in active
      BY <2>9 DEF HandleRecord
    <3>4. cur' \in [Partitions -> Offsets]
      BY <3>1, <3>2 DEF TypeOK
    <3>5. /\ completed' \subseteq Partitions /\ batchDone' \subseteq active
          /\ sent' \in [Partitions -> Seq(Offsets)] /\ buffered' \in [Partitions -> Seq(Offsets)]
          /\ published' \in [Partitions -> Nat] /\ failed' \in [Partitions -> SUBSET Offsets]
      <4>1. CASE SkipRecord(p, o)
        BY <4>1, <3>3 DEF TypeOK, SkipRecord, counts
      <4>2. CASE SendRecord(p, o)
        <5>1. /\ Append(buffered[p], o) \in Seq(Offsets) /\ Append(sent[p], o) \in Seq(Offsets)
              /\ published[p] + 1 \in Nat
          BY <3>2 DEF TypeOK
        <5>2. /\ buffered' \in [Partitions -> Seq(Offsets)]
              /\ failed' \in [Partitions -> SUBSET Offsets]
          <6>1. CASE Accept(p, o)
            BY <5>1, <6>1 DEF TypeOK, Accept
          <6>2. CASE Refuse(p, o)
            <7>1. failed[p] \cup {o} \in SUBSET Offsets
              BY <3>2 DEF TypeOK
            <7>2. QED
              BY <6>2, <7>1 DEF TypeOK, Refuse
          <6>3. QED
            BY <4>2, <6>1, <6>2 DEF SendRecord
        <5>3. QED
          BY <4>2, <5>1, <5>2, <3>3 DEF TypeOK, SendRecord
      <4>3. QED
        BY <3>1, <4>1, <4>2
    <3>6. QED
      BY <2>9, <3>4, <3>5 DEF TypeOK, HandleRecord, source, snapshot, history
  <2>10. CASE RecordsDone
    BY <2>10 DEF TypeOK, RecordsDone, source, snapshot, window, counts, producer, history, Running
  <2>11. CASE Flush
    BY <2>11, WindowEndType DEF TypeOK, Flush, NextStart, LastWindow, source, snapshot, consumer, counts, producer, history, Running
  <2>12. CASE Finish \/ Close \/ ClientFails
    BY <2>12 DEF TypeOK, Finish, Close, ClientFails, source, snapshot, window, consumer, counts,
                 producer, history, Stopped, Running
  <2>13. CASE Crash
    <3>1. <<>> \in Seq(Offsets) /\ 0 \in 0..Retries
      BY EmptySeq
    <3>2. /\ buffered' \in [Partitions -> Seq(Offsets)] /\ inflight' \in [Partitions -> Seq(Offsets)]
          /\ attempts' \in [Partitions -> 0..Retries]
      BY <2>13, <3>1 DEF Crash
    <3>3. QED
      BY <2>13, <3>2 DEF TypeOK, Crash, source, snapshot, window, consumer, counts, history, Stopped
  <2>14. ASSUME NEW p \in Partitions, Drain(p) PROVE TypeOK'
    <3>1. PICK n \in 1..Len(buffered[p]) :
            /\ inflight' = [inflight EXCEPT ![p] = SubSeq(buffered[p], 1, n)]
            /\ buffered' = [buffered EXCEPT ![p] = SubSeq(@, n + 1, Len(@))]
      BY <2>14 DEF Drain
    <3>2. inflight' \in [Partitions -> Seq(Offsets)] /\ buffered' \in [Partitions -> Seq(Offsets)]
      BY <3>1, DrainType DEF TypeOK
    <3>3. QED
      BY <2>14, <3>2 DEF TypeOK, Drain, source, snapshot, window, consumer, counts, history
  <2>15. ASSUME NEW p \in Partitions, Ack(p) \/ LoseRequest(p) \/ LoseAck(p) \/ Reject(p)
         PROVE  TypeOK'
    <3>1. UNCHANGED <<source, pc, snapshot, window, consumer, counts, history, buffered>>
      BY <2>15 DEF Ack, LoseRequest, LoseAck, Reject, Retry, GiveUp, source, snapshot, window,
                   consumer, counts, history
    <3>2. target' = target \/ target' = [target EXCEPT ![p] = @ \o inflight[p]]
      BY <2>15 DEF Ack, LoseRequest, LoseAck, Reject, Appended
    <3>3. target' \in [Partitions -> Seq(Offsets)]
      <4>1. target[p] \in Seq(Offsets) /\ inflight[p] \in Seq(Offsets)
        BY DEF TypeOK
      <4>2. target[p] \o inflight[p] \in Seq(Offsets)
        BY <4>1, ConcatProperties
      <4>3. QED
        BY <3>2, <4>2 DEF TypeOK
    <3>4. /\ inflight' = inflight \/ inflight' = [inflight EXCEPT ![p] = <<>>]
          /\ \/ attempts' = [attempts EXCEPT ![p] = 0]
             \/ attempts[p] < Retries /\ attempts' = [attempts EXCEPT ![p] = @ + 1]
          /\ failed' = failed \/ failed' = [failed EXCEPT ![p] = @ \cup Elements(inflight[p])]
      BY <2>15 DEF Ack, LoseRequest, LoseAck, Reject, BatchLeaves, CallbacksFail, Retry, GiveUp
    <3>5. inflight' \in [Partitions -> Seq(Offsets)] /\ attempts' \in [Partitions -> 0..Retries]
      <4>1. attempts[p] \in Nat /\ Retries \in Nat
        BY DEF TypeOK
      <4>2. <<>> \in Seq(Offsets)
        BY EmptySeq
      <4>3. inflight' \in [Partitions -> Seq(Offsets)]
        <5>1. CASE inflight' = inflight
          BY <5>1 DEF TypeOK
        <5>2. CASE inflight' = [inflight EXCEPT ![p] = <<>>]
          BY <5>2, <4>2 DEF TypeOK
        <5>3. QED
          BY <3>4, <5>1, <5>2
      <4>4. 0 \in 0..Retries /\ (attempts[p] < Retries => attempts[p] + 1 \in 0..Retries)
        BY <4>1
      <4>5. attempts' \in [Partitions -> 0..Retries]
        <5>1. attempts \in [Partitions -> 0..Retries]
          BY DEF TypeOK
        <5>2. CASE attempts' = [attempts EXCEPT ![p] = 0]
          BY <4>4, <5>1, <5>2
        <5>3. CASE attempts[p] < Retries /\ attempts' = [attempts EXCEPT ![p] = @ + 1]
          BY <4>4, <5>1, <5>3
        <5>4. QED
          BY <3>4, <5>2, <5>3
      <4>6. QED
        BY <4>3, <4>5
    <3>6. Elements(inflight[p]) \subseteq Offsets
      <4>1. inflight[p] \in Seq(Offsets)
        BY DEF TypeOK
      <4>2. QED
        BY <4>1, ElementOfSeq DEF Elements
    <3>7. failed' \in [Partitions -> SUBSET Offsets]
      <4>1. CASE failed' = failed
        BY <4>1 DEF TypeOK
      <4>2. CASE failed' = [failed EXCEPT ![p] = @ \cup Elements(inflight[p])]
        BY <4>2, <3>6 DEF TypeOK
      <4>3. QED
        BY <3>4, <4>1, <4>2
    <3>8. QED
      BY <3>1, <3>3, <3>5, <3>7
         DEF TypeOK, source, snapshot, window, consumer, counts, history
  <2>16. CASE UNCHANGED vars
    BY <2>16 DEF TypeOK, vars, source, snapshot, window, consumer, counts, producer, history
  <2>17. QED
    BY <2>1, <2>2, <2>3, <2>4, <2>5, <2>6, <2>7, <2>8, <2>9, <2>10, <2>11, <2>12, <2>13, <2>14,
       <2>15, <2>16 DEF Next, Source, Run, Sender
<1>3. QED
  BY <1>1, <1>2, PTL DEF Spec

-----------------------------------------------------------------------------
(* The copy: the invariant CopyInv and what follows from it.               *)

LEMMA Numbers ==
  ASSUME TypeOK, NEW p \in Partitions
  PROVE  /\ begin[p] \in Nat /\ end[p] \in Nat /\ batchStart[p] \in Nat
         /\ pos[p] \in Nat /\ cur[p] \in Nat /\ logStart[p] \in Nat /\ logEnd[p] \in Nat
         /\ published[p] \in Nat /\ WindowEnd(p) \in Nat /\ BatchSize \in Nat /\ MaxOffset \in Nat
         /\ sent[p] \in Seq(Offsets) /\ Len(sent[p]) \in Nat
<1>1. WindowEnd(p) \in Nat
  BY WindowEndType, ConstantsAssumption DEF Offsets
<1>2. QED
  BY <1>1, ConstantsAssumption DEF TypeOK, Offsets

LEMMA FrontierBounds ==
  ASSUME TypeOK, NEW p \in Partitions, RangesOrdered(p)
  PROVE  /\ Frontier(p) \in Nat
         /\ begin[p] <= Frontier(p) /\ batchStart[p] <= Frontier(p) /\ Frontier(p) <= end[p]
BY Numbers, WindowEndType DEF RangesOrdered, Frontier, AtMost

\* The same two lemmas of the next state.
LEMMA NumbersNext ==
  ASSUME TypeOK', NEW p \in Partitions
  PROVE  /\ begin'[p] \in Nat /\ end'[p] \in Nat /\ batchStart'[p] \in Nat
         /\ pos'[p] \in Nat /\ cur'[p] \in Nat /\ logStart'[p] \in Nat /\ logEnd'[p] \in Nat
         /\ published'[p] \in Nat /\ WindowEnd(p)' \in Nat
         /\ sent'[p] \in Seq(Offsets) /\ Len(sent'[p]) \in Nat
<1>1. batchStart'[p] \in Nat /\ end'[p] \in Nat /\ BatchSize \in Nat
  BY ConstantsAssumption DEF TypeOK, Offsets
<1>2. WindowEnd(p)' \in Nat
  BY <1>1 DEF WindowEnd, AtMost
<1>3. QED
  BY <1>1, <1>2, ConstantsAssumption DEF TypeOK, Offsets

LEMMA FrontierBoundsNext ==
  ASSUME TypeOK', NEW p \in Partitions, RangesOrdered(p)'
  PROVE  /\ Frontier(p)' \in Nat
         /\ begin'[p] <= Frontier(p)' /\ batchStart'[p] <= Frontier(p)' /\ Frontier(p)' <= end'[p]
<1>1. /\ begin'[p] \in Nat /\ end'[p] \in Nat /\ batchStart'[p] \in Nat
      /\ pos'[p] \in Nat /\ cur'[p] \in Nat /\ BatchSize \in Nat
  BY NumbersNext, ConstantsAssumption
<1>2. WindowEnd(p)' \in Nat /\ WindowEnd(p)' <= end'[p] /\ batchStart'[p] <= WindowEnd(p)'
  BY <1>1 DEF WindowEnd, AtMost, RangesOrdered
<1>3. QED
  BY <1>1, <1>2 DEF RangesOrdered, Frontier, AtMost

\* What was sent stays below a frontier that moves forward.
LEMMA SentStaysBelow ==
  ASSUME TypeOK, TypeOK', NEW p \in Partitions, RangesOrdered(p), RangesOrdered(p)',
         SentBelowFrontier(p), begin'[p] = begin[p], sent'[p] = sent[p],
         published'[p] = published[p], Frontier(p) <= Frontier(p)'
  PROVE  SentBelowFrontier(p)'
<1>1. /\ Frontier(p) \in Nat /\ Frontier(p)' \in Nat /\ begin[p] \in Nat /\ published[p] \in Nat
  BY FrontierBounds, FrontierBoundsNext, Numbers
<1>2. ASSUME NEW o \in Records(p, begin[p], Frontier(p))
      PROVE  o \in Records(p, begin[p], Frontier(p)')
  BY <1>1 DEF Records
<1>3. QED
  BY <1>1, <1>2 DEF SentBelowFrontier

\* Records already copied stay copied while the source only deletes.
LEMMA CopiedStays ==
  ASSUME TypeOK, TypeOK', NEW p \in Partitions, NEW x,
         begin'[p] = begin[p], sent'[p] = sent[p], logStart[p] <= logStart'[p],
         CopiedBelow(p, x)
  PROVE  \A o \in Records(p, begin'[p], x) : o >= logStart'[p] => o \in Elements(sent'[p])
<1>1. logStart[p] \in Nat /\ logStart'[p] \in Nat /\ begin[p] \in Nat
  BY Numbers, NumbersNext
<1>2. \A o \in Records(p, begin[p], x) : o \in Int
  BY <1>1 DEF Records
<1>3. QED
  BY <1>1, <1>2 DEF CopiedBelow

\* Steps of the source and of the sender thread leave the copy where it is.
LEMMA OtherActors ==
  ASSUME TypeOK, TypeOK', CopyInv,
         UNCHANGED <<pc, snapshot, window, consumer, counts>>,
         \A p \in Partitions :
           logStart[p] <= logStart'[p] /\ logStart'[p] <= logEnd'[p] /\ logEnd[p] <= logEnd'[p]
  PROVE  CopyInv'
<1> SUFFICES ASSUME NEW p \in Partitions
             PROVE  (RangesOrdered(p) /\ SentBelowFrontier(p) /\ CopiedBelowFrontier(p))'
  BY DEF CopyInv
<1>0. RangesOrdered(p) /\ SentBelowFrontier(p) /\ CopiedBelowFrontier(p)
  BY DEF CopyInv
<1>1. /\ pc' = pc /\ begin' = begin /\ end' = end /\ completed' = completed
      /\ batchStart' = batchStart /\ active' = active /\ batchDone' = batchDone
      /\ pos' = pos /\ cur' = cur /\ published' = published /\ sent' = sent
  BY DEF snapshot, window, consumer, counts
<1>2. WindowEnd(p)' = WindowEnd(p) /\ Frontier(p)' = Frontier(p)
  BY <1>1 DEF WindowEnd, Frontier
<1>3. RangesOrdered(p)'
  BY <1>0, <1>1, Numbers, NumbersNext, SMTT(20) DEF RangesOrdered
<1>4. SentBelowFrontier(p)'
  BY <1>0, <1>1, <1>2 DEF SentBelowFrontier
<1>5. \A x : CopiedBelow(p, x) => CopiedBelow(p, x)'
  BY <1>1, CopiedStays DEF CopiedBelow
<1>6. CopiedBelowFrontier(p)'
  BY <1>0, <1>1, <1>2, <1>5 DEF CopiedBelowFrontier
<1>7. QED
  BY <1>3, <1>4, <1>6

LEMMA StartCopies ==
  ASSUME TypeOK, TypeOK', CopyInv, Start
  PROVE  CopyInv'
<1> SUFFICES ASSUME NEW p \in Partitions
             PROVE  (RangesOrdered(p) /\ SentBelowFrontier(p) /\ CopiedBelowFrontier(p))'
  BY DEF CopyInv
<1>0. RangesOrdered(p)
  BY DEF CopyInv
<1>1. /\ pc' = "snapshot" /\ begin'[p] = logStart[p] /\ end'[p] = logStart[p]
      /\ batchStart'[p] = logStart[p] /\ sent'[p] = <<>> /\ published'[p] = 0
      /\ completed' = {} /\ active' = {} /\ batchDone' = {}
      /\ logStart' = logStart /\ logEnd' = logEnd
  BY DEF Start, source
<1>2. Frontier(p)' = logStart[p]
  BY <1>1 DEF Frontier, Stopped
<1>3. RangesOrdered(p)'
  BY <1>0, <1>1, Numbers DEF RangesOrdered
<1>4. SentBelowFrontier(p)'
  BY <1>1, <1>2, Numbers DEF SentBelowFrontier
<1>5. CopiedBelowFrontier(p)'
  BY <1>1 DEF CopiedBelowFrontier, Copying
<1>6. QED
  BY <1>3, <1>4, <1>5

LEMMA ReadEndOffsetsCopies ==
  ASSUME TypeOK, TypeOK', CopyInv, ReadEndOffsets
  PROVE  CopyInv'
<1> SUFFICES ASSUME NEW p \in Partitions
             PROVE  (RangesOrdered(p) /\ SentBelowFrontier(p) /\ CopiedBelowFrontier(p))'
  BY DEF CopyInv
<1>0. RangesOrdered(p) /\ SentBelowFrontier(p)
  BY DEF CopyInv
<1>1. /\ pc = "snapshot" /\ pc' = "create" /\ end' = logEnd /\ begin' = begin
      /\ batchStart' = batchStart /\ sent' = sent /\ published' = published
      /\ completed' = completed /\ active' = active
      /\ logStart' = logStart /\ logEnd' = logEnd
  BY DEF ReadEndOffsets, source, window, counts
<1>2. Frontier(p)' = Frontier(p)
  BY <1>1 DEF Frontier, Stopped
<1>3. RangesOrdered(p)'
  BY <1>0, <1>1, Numbers DEF RangesOrdered
<1>4. SentBelowFrontier(p)'
  BY <1>0, <1>1, <1>2 DEF SentBelowFrontier
<1>5. CopiedBelowFrontier(p)'
  BY <1>1 DEF CopiedBelowFrontier, Copying
<1>6. QED
  BY <1>3, <1>4, <1>5

LEMMA CreateTopicsCopies ==
  ASSUME TypeOK, TypeOK', CopyInv, CreateTopics
  PROVE  CopyInv'
<1> SUFFICES ASSUME NEW p \in Partitions
             PROVE  (RangesOrdered(p) /\ SentBelowFrontier(p) /\ CopiedBelowFrontier(p))'
  BY DEF CopyInv
<1>0. RangesOrdered(p) /\ SentBelowFrontier(p)
  BY DEF CopyInv
<1>1. /\ pc = "create" /\ pc' = "window" /\ end' = end /\ begin' = begin
      /\ batchStart' = begin /\ sent' = sent /\ published' = published
      /\ completed' = {q \in Partitions : begin[q] >= end[q]} /\ active' = active
      /\ logStart' = logStart /\ logEnd' = logEnd
  BY DEF CreateTopics, source, snapshot, counts
<1>2. Frontier(p)' = begin[p] /\ Frontier(p) = begin[p]
  BY <1>0, <1>1 DEF Frontier, Stopped, RangesOrdered
<1>3. RangesOrdered(p)'
  BY <1>0, <1>1, Numbers DEF RangesOrdered
<1>4. SentBelowFrontier(p)'
  BY <1>0, <1>1, <1>2 DEF SentBelowFrontier
<1>5. p \in completed' => end[p] = begin[p]
  BY <1>0, <1>1, Numbers DEF RangesOrdered
<1>6. Records(p, begin[p], begin[p]) = {}
  BY Numbers DEF Records
<1>7. CopiedBelowFrontier(p)'
  BY <1>1, <1>2, <1>5, <1>6 DEF CopiedBelowFrontier, CopiedBelow
<1>8. QED
  BY <1>3, <1>4, <1>7

LEMMA OpenWindowCopies ==
  ASSUME TypeOK, TypeOK', CopyInv, OpenWindow
  PROVE  CopyInv'
<1> SUFFICES ASSUME NEW p \in Partitions
             PROVE  (RangesOrdered(p) /\ SentBelowFrontier(p) /\ CopiedBelowFrontier(p))'
  BY DEF CopyInv
<1>0. RangesOrdered(p) /\ SentBelowFrontier(p) /\ CopiedBelowFrontier(p)
  BY DEF CopyInv
<1>1. /\ pc = "window" /\ pc' = "poll" /\ end' = end /\ begin' = begin
      /\ batchStart' = batchStart /\ sent' = sent /\ published' = published
      /\ completed' = completed /\ active' = Partitions \ completed /\ batchDone' = {}
      /\ logStart' = logStart /\ logEnd' = logEnd
      /\ p \in active' => pos'[p] = batchStart[p] /\ cur'[p] = batchStart[p]
  BY DEF OpenWindow, SeekOffset, source, snapshot, counts
<1>2. Frontier(p) = batchStart[p]
  BY <1>1 DEF Frontier, Stopped
<1>3. batchStart[p] <= WindowEnd(p)' /\ WindowEnd(p)' \in Nat
  BY <1>0, <1>1, Numbers, NumbersNext DEF WindowEnd, AtMost, RangesOrdered
<1>4. Frontier(p)' = batchStart[p]
  BY <1>1, <1>3, Numbers DEF Frontier, Stopped, AtMost
<1>5. RangesOrdered(p)'
  BY <1>0, <1>1, Numbers DEF RangesOrdered
<1>6. SentBelowFrontier(p)'
  BY <1>0, <1>1, <1>2, <1>4 DEF SentBelowFrontier
<1>7. \A x : CopiedBelow(p, x) => CopiedBelow(p, x)'
  BY <1>1 DEF CopiedBelow
<1>8. CopiedBelowFrontier(p)'
  BY <1>0, <1>1, <1>2, <1>4, <1>7 DEF CopiedBelowFrontier, Copying
<1>9. QED
  BY <1>5, <1>6, <1>8

\* Offsets that hold no record, or a deleted one, extend what is copied.
LEMMA CopiedGrows ==
  ASSUME TypeOK, NEW p \in Partitions, NEW x \in Nat, NEW y \in Nat, CopiedBelow(p, x),
         \A o \in Nat : x <= o /\ o < y /\ o \notin Gaps[p] => o < logStart[p]
  PROVE  CopiedBelow(p, y)
<1> SUFFICES ASSUME NEW o \in Records(p, begin[p], y), o >= logStart[p]
             PROVE  o \in Elements(sent[p])
  BY DEF CopiedBelow
<1>1. begin[p] \in Nat /\ logStart[p] \in Nat
  BY Numbers
<1>2. o \in Nat /\ begin[p] <= o /\ o < y /\ o \notin Gaps[p]
  BY <1>1 DEF Records
<1>3. o < x
  BY <1>1, <1>2
<1>4. o \in Records(p, begin[p], x)
  BY <1>1, <1>2, <1>3 DEF Records
<1>5. QED
  BY <1>4 DEF CopiedBelow

\* A fetch never starts before the position, except on a busy partition whose
\* position is past the window anyway; what it jumps over is deleted.
LEMMA FetchStart ==
  ASSUME TypeOK, NEW p \in active, RangesOrdered(p), pc = "poll", NEW f \in Fetches
  PROVE  /\ f[p][1] \in Nat /\ f[p][2] \in Nat /\ f[p][1] <= f[p][2]
         /\ batchStart[p] <= f[p][1]
         /\ AtMost(pos[p], WindowEnd(p)) <= AtMost(f[p][1], WindowEnd(p))
         /\ \A o \in Nat : /\ AtMost(pos[p], WindowEnd(p)) <= o
                           /\ o < AtMost(f[p][1], WindowEnd(p))
                           => o < logStart[p]
<1>1. p \in Partitions /\ f[p] \in Fetch(p)
  BY DEF TypeOK, Fetches
<1>2. f[p] \in Offsets \X Offsets /\ f[p][1] \in FetchFrom(p) /\ f[p][2] \in f[p][1]..logEnd[p]
  BY <1>1 DEF Fetch
<1>3. f[p][1] \in Nat /\ f[p][2] \in Nat /\ f[p][1] <= f[p][2]
  BY <1>2, ConstantsAssumption, Numbers DEF Offsets
<1>4. /\ pos[p] \in Nat /\ logStart[p] \in Nat /\ end[p] \in Nat /\ WindowEnd(p) \in Nat
      /\ batchStart[p] \in Nat /\ MaxOffset \in Nat
      /\ WindowEnd(p) <= end[p] /\ batchStart[p] <= pos[p] /\ batchStart[p] <= end[p]
  BY <1>1, Numbers, WindowEndType DEF RangesOrdered
<1>5. CASE f[p][1] = AtLeast(pos[p], logStart[p])
  BY <1>3, <1>4, <1>5 DEF AtLeast, AtMost
<1>6. CASE f[p][1] = MaxOffset - 1 /\ pos[p] = MaxOffset /\ end[p] < MaxOffset
  BY <1>3, <1>4, <1>6 DEF AtMost
<1>7. QED
  BY <1>2, <1>3, <1>5, <1>6 DEF FetchFrom

LEMMA PollRecordsCopies ==
  ASSUME TypeOK, TypeOK', CopyInv, PollRecords
  PROVE  CopyInv'
<1> SUFFICES ASSUME NEW p \in Partitions
             PROVE  (RangesOrdered(p) /\ SentBelowFrontier(p) /\ CopiedBelowFrontier(p))'
  BY DEF CopyInv
<1>0. RangesOrdered(p) /\ SentBelowFrontier(p) /\ CopiedBelowFrontier(p)
  BY DEF CopyInv
<1>1. /\ pc = "poll" /\ pc' = "records" /\ end' = end /\ begin' = begin
      /\ batchStart' = batchStart /\ sent' = sent /\ published' = published
      /\ completed' = completed /\ active' = active /\ batchDone' = batchDone
      /\ logStart' = logStart /\ logEnd' = logEnd
  BY DEF PollRecords, source, snapshot, counts
<1>2. PICK f \in Fetches : cur'[p] = f[p][1] /\ pos'[p] = f[p][2]
  BY DEF PollRecords, Advance
<1>3. WindowEnd(p)' = WindowEnd(p) /\ WindowEnd(p) \in Nat
  BY <1>1, Numbers DEF WindowEnd
<1>4. CASE p \notin active
  <2>1. Frontier(p) = batchStart[p] /\ Frontier(p)' = batchStart[p]
    BY <1>1, <1>4 DEF Frontier, Stopped
  <2>2. RangesOrdered(p)'
    BY <1>0, <1>1, <1>4 DEF RangesOrdered
  <2>3. SentBelowFrontier(p)'
    BY <1>0, <1>1, <2>1 DEF SentBelowFrontier
  <2>4. CopiedBelowFrontier(p)'
    BY <1>0, <1>1, <1>3, <2>1 DEF CopiedBelowFrontier, Copying, CopiedBelow
  <2>5. QED
    BY <2>2, <2>3, <2>4
<1>5. CASE p \in active
  <2>1. /\ Frontier(p) = AtMost(pos[p], WindowEnd(p))
        /\ Frontier(p)' = AtMost(f[p][1], WindowEnd(p))
    BY <1>1, <1>2, <1>3, <1>5 DEF Frontier, Stopped
  <2>2. /\ f[p][1] \in Nat /\ f[p][2] \in Nat /\ f[p][1] <= f[p][2] /\ batchStart[p] <= f[p][1]
        /\ Frontier(p) <= Frontier(p)'
        /\ \A o \in Nat : Frontier(p) <= o /\ o < Frontier(p)' => o < logStart[p]
    BY <1>0, <1>1, <1>5, <2>1, FetchStart
  <2>3. RangesOrdered(p)'
    BY <1>0, <1>1, <1>2, <1>5, <2>2, Numbers DEF RangesOrdered
  <2>4. SentBelowFrontier(p)'
    BY <1>0, <1>1, <2>2, <2>3, SentStaysBelow
  <2>5. \A o \in Records(p, begin[p], Frontier(p)') : o >= logStart[p] => o \in Elements(sent[p])
    <3>1. CopiedBelow(p, Frontier(p))
      BY <1>0, <1>1 DEF CopiedBelowFrontier, Copying
    <3>2. Frontier(p) \in Nat /\ Frontier(p)' \in Nat
      BY <1>0, <2>3, FrontierBounds, FrontierBoundsNext
    <3>3. CopiedBelow(p, Frontier(p)')
      BY <2>2, <3>1, <3>2, CopiedGrows
    <3>4. QED
      BY <3>3 DEF CopiedBelow
  <2>6. Frontier(p)' <= WindowEnd(p) /\ Frontier(p)' <= end[p]
    BY <1>0, <1>1, <1>3, <2>1, <2>2, <2>3, FrontierBoundsNext DEF AtMost
  <2>7. /\ p \in batchDone => Frontier(p)' = WindowEnd(p)
        /\ p \in completed => Frontier(p)' = end[p]
    <3>1. Frontier(p) \in Nat /\ Frontier(p)' \in Nat /\ end[p] \in Nat
      BY <1>0, <2>3, FrontierBounds, FrontierBoundsNext, Numbers
    <3>2. QED
      BY <1>0, <1>1, <1>3, <2>2, <2>6, <3>1 DEF CopiedBelowFrontier, Copying
  <2>8. p \in completed => CopiedBelow(p, end[p])'
    BY <1>0, <1>1 DEF CopiedBelowFrontier, CopiedBelow
  <2>9. CopiedBelowFrontier(p)'
    BY <1>1, <1>3, <2>5, <2>7, <2>8 DEF CopiedBelowFrontier, CopiedBelow
  <2>10. QED
    BY <2>3, <2>4, <2>9
<1>6. QED
  BY <1>4, <1>5

LEMMA PollEmptyCopies ==
  ASSUME TypeOK, TypeOK', CopyInv, PollEmpty
  PROVE  CopyInv'
<1> SUFFICES ASSUME NEW p \in Partitions
             PROVE  (RangesOrdered(p) /\ SentBelowFrontier(p) /\ CopiedBelowFrontier(p))'
  BY DEF CopyInv
<1>0. RangesOrdered(p) /\ SentBelowFrontier(p) /\ CopiedBelowFrontier(p)
  BY DEF CopyInv
<1>1. /\ pc = "poll" /\ end' = end /\ begin' = begin
      /\ batchStart' = batchStart /\ sent' = sent /\ published' = published
      /\ completed' = completed /\ active' = active
      /\ batchDone' = batchDone \cup {q \in active : pos'[q] >= WindowEnd(q)}
      /\ logStart' = logStart /\ logEnd' = logEnd
  BY DEF PollEmpty, DrainedByPosition, source, snapshot, counts
<1>2. PICK f \in Fetches : cur'[p] = f[p][1] /\ pos'[p] = f[p][2] /\ ~HasRecords(f)
  BY DEF PollEmpty, Advance, TimedOut
<1>3. WindowEnd(p)' = WindowEnd(p) /\ WindowEnd(p) \in Nat /\ WindowEnd(p) <= end[p]
  BY <1>1, Numbers, WindowEndType DEF WindowEnd
<1>4. \/ pc' = "closing"
      \/ pc' = "flush" /\ batchDone' = active
      \/ pc' = "poll"
  BY DEF PollEmpty
<1>5. CASE p \notin active
  <2>1. Frontier(p) = batchStart[p]
    BY <1>1, <1>5 DEF Frontier, Stopped
  <2>2. IF pc' = "closing" THEN Frontier(p)' = end[p] ELSE Frontier(p)' = batchStart[p]
    BY <1>1, <1>4, <1>5 DEF Frontier, Stopped
  <2>3. RangesOrdered(p)'
    BY <1>0, <1>1, <1>4, <1>5 DEF RangesOrdered
  <2>4. Frontier(p) <= Frontier(p)'
    BY <1>0, <2>1, <2>2, Numbers DEF RangesOrdered
  <2>5. SentBelowFrontier(p)'
    BY <1>0, <1>1, <2>3, <2>4, SentStaysBelow
  <2>6. p \notin batchDone'
    BY <1>1, <1>5 DEF TypeOK
  <2>7. CopiedBelowFrontier(p)'
    BY <1>0, <1>1, <1>4, <2>1, <2>2, <2>6 DEF CopiedBelowFrontier, Copying, CopiedBelow
  <2>8. QED
    BY <2>3, <2>5, <2>7
<1>6. CASE p \in active
  <2> DEFINE F == AtMost(pos[p], WindowEnd(p))
             G == AtMost(f[p][2], WindowEnd(p))
  <2>1. Frontier(p) = F
    BY <1>1, <1>6 DEF Frontier, Stopped
  <2>2. /\ f[p][1] \in Nat /\ f[p][2] \in Nat /\ f[p][1] <= f[p][2] /\ batchStart[p] <= f[p][1]
        /\ F <= AtMost(f[p][1], WindowEnd(p))
        /\ \A o \in Nat : F <= o /\ o < AtMost(f[p][1], WindowEnd(p)) => o < logStart[p]
    BY <1>0, <1>1, <1>6, FetchStart
  <2>3. \A o \in Nat : f[p][1] <= o /\ o < f[p][2] => o \in Gaps[p]
    BY <1>2, <1>6, <2>2 DEF HasRecords, Records
  <2>4. F \in Nat /\ G \in Nat /\ F <= G /\ G <= WindowEnd(p)
    BY <1>3, <2>2, Numbers DEF AtMost
  <2>5. CopiedBelow(p, G)
    <3>1. CopiedBelow(p, F)
      BY <1>0, <1>1, <2>1 DEF CopiedBelowFrontier, Copying
    <3>2. ASSUME NEW o \in Nat, F <= o, o < G, o \notin Gaps[p]
          PROVE  o < logStart[p]
      <4>1. o < f[p][1]
        BY <1>3, <2>2, <2>3, <3>2 DEF AtMost
      <4>2. o < AtMost(f[p][1], WindowEnd(p))
        BY <1>3, <2>2, <3>2, <4>1 DEF AtMost
      <4>3. QED
        BY <2>2, <3>2, <4>2
    <3>3. QED
      BY <2>4, <3>1, <3>2, CopiedGrows
  <2>6. p \in batchDone' => G = WindowEnd(p)
    <3>1. CASE p \in batchDone
      <4>1. F = WindowEnd(p)
        BY <1>0, <1>1, <2>1, <3>1 DEF CopiedBelowFrontier
      <4>2. QED
        BY <1>3, <2>4, <4>1
    <3>2. CASE pos'[p] >= WindowEnd(p)
      BY <1>2, <1>3, <2>2, <3>2 DEF AtMost
    <3>3. QED
      BY <1>1, <3>1, <3>2
  <2>7. p \in completed => F = end[p] /\ G = end[p] /\ WindowEnd(p) = end[p]
    BY <1>0, <1>1, <1>3, <2>1, <2>4, Numbers DEF CopiedBelowFrontier, Copying
  <2>8. IF pc' = "closing" THEN Frontier(p)' = end[p] ELSE Frontier(p)' = G
    BY <1>1, <1>2, <1>3, <1>4, <1>6, <2>6 DEF Frontier, Stopped
  <2>9. RangesOrdered(p)'
    <3>1. pc' \in {"closing", "flush", "poll"} /\ cur'[p] = f[p][1] /\ pos'[p] = f[p][2]
      BY <1>2, <1>4
    <3>2. batchStart[p] <= f[p][1] /\ batchStart[p] <= f[p][2]
      BY <2>2, Numbers
    <3>3. QED
      BY <1>0, <1>1, <3>1, <3>2 DEF RangesOrdered
  <2>10. Frontier(p) <= Frontier(p)'
    BY <1>3, <2>1, <2>4, <2>8, Numbers
  <2>11. SentBelowFrontier(p)'
    BY <1>0, <1>1, <2>9, <2>10, SentStaysBelow
  <2>12. p \in completed => CopiedBelow(p, end[p])'
    BY <1>0, <1>1 DEF CopiedBelow, CopiedBelowFrontier
  <2>13. CopiedBelowFrontier(p)'
    <3>1. CASE pc' = "closing"
      BY <1>1, <2>12, <3>1 DEF CopiedBelowFrontier, Copying
    <3>2. CASE pc' # "closing"
      <4>1. Frontier(p)' = G /\ pc' \in {"flush", "poll"} /\ (pc' = "flush" => batchDone' = active')
        BY <1>1, <1>4, <2>8, <3>2
      <4>2. QED
        BY <1>1, <1>3, <2>5, <2>6, <2>7, <2>12, <4>1 DEF CopiedBelowFrontier, CopiedBelow
    <3>3. QED
      BY <3>1, <3>2
  <2>14. QED
    BY <2>9, <2>11, <2>13
<1>7. QED
  BY <1>5, <1>6

\* What one pass of the loop over the polled records does to the other partitions.
LEMMA HandleRecordElsewhere ==
  ASSUME TypeOK, TypeOK', CopyInv, NEW r \in Partitions, HandleRecord(r),
         NEW p \in Partitions, p # r
  PROVE  (RangesOrdered(p) /\ SentBelowFrontier(p) /\ CopiedBelowFrontier(p))'
<1>0. RangesOrdered(p) /\ SentBelowFrontier(p) /\ CopiedBelowFrontier(p)
  BY DEF CopyInv
<1>1. /\ pc = "records" /\ pc' = "records" /\ end' = end /\ begin' = begin
      /\ batchStart' = batchStart /\ active' = active /\ pos' = pos
      /\ logStart' = logStart /\ logEnd' = logEnd
  BY DEF HandleRecord, source, snapshot
<1>2. PICK o \in Records(r, cur[r], pos[r]) :
        /\ cur' = [cur EXCEPT ![r] = o + 1]
        /\ SkipRecord(r, o) \/ SendRecord(r, o)
  BY DEF HandleRecord
<1>3. cur'[p] = cur[p]
  BY <1>2 DEF TypeOK
<1>4. /\ sent'[p] = sent[p] /\ published'[p] = published[p]
      /\ p \in batchDone' <=> p \in batchDone
      /\ p \in completed' <=> p \in completed
  <2>1. CASE SkipRecord(r, o)
    BY <2>1 DEF SkipRecord, counts
  <2>2. CASE SendRecord(r, o)
    BY <2>2 DEF SendRecord, TypeOK
  <2>3. QED
    BY <1>2, <2>1, <2>2
<1>5. WindowEnd(p)' = WindowEnd(p) /\ Frontier(p)' = Frontier(p)
  BY <1>1, <1>3 DEF WindowEnd, Frontier, Stopped
<1>6. RangesOrdered(p)'
  BY <1>0, <1>1, <1>3 DEF RangesOrdered
<1>7. SentBelowFrontier(p)'
  BY <1>0, <1>1, <1>4, <1>5 DEF SentBelowFrontier
<1>8. CopiedBelowFrontier(p)'
  BY <1>0, <1>1, <1>4, <1>5 DEF CopiedBelowFrontier, CopiedBelow, Copying
<1>9. QED
  BY <1>6, <1>7, <1>8

\* The partition whose record it is: skipped past the window, sent inside it.
LEMMA HandleRecordHere ==
  ASSUME TypeOK, TypeOK', CopyInv, NEW p \in Partitions, HandleRecord(p)
  PROVE  (RangesOrdered(p) /\ SentBelowFrontier(p) /\ CopiedBelowFrontier(p))'
<1>0. RangesOrdered(p) /\ SentBelowFrontier(p) /\ CopiedBelowFrontier(p)
  BY DEF CopyInv
<1>1. /\ pc = "records" /\ pc' = "records" /\ end' = end /\ begin' = begin /\ p \in active
      /\ batchStart' = batchStart /\ active' = active /\ pos' = pos
      /\ logStart' = logStart /\ logEnd' = logEnd
  BY DEF HandleRecord, source, snapshot
<1>2. PICK o \in Records(p, cur[p], pos[p]) :
        /\ \A q \in Records(p, cur[p], pos[p]) : o <= q
        /\ cur' = [cur EXCEPT ![p] = o + 1]
        /\ SkipRecord(p, o) \/ SendRecord(p, o)
  BY DEF HandleRecord
<1>3. /\ cur[p] \in Nat /\ pos[p] \in Nat /\ end[p] \in Nat /\ begin[p] \in Nat
      /\ batchStart[p] \in Nat /\ published[p] \in Nat
      /\ WindowEnd(p) \in Nat /\ WindowEnd(p) <= end[p]
      /\ begin[p] <= batchStart[p] /\ batchStart[p] <= cur[p] /\ cur[p] <= pos[p]
  BY <1>0, <1>1, Numbers, WindowEndType DEF RangesOrdered
<1>4. o \in Nat /\ cur[p] <= o /\ o < pos[p] /\ o \notin Gaps[p] /\ cur'[p] = o + 1
  <2>1. cur'[p] = o + 1
    BY <1>2 DEF TypeOK
  <2>2. QED
    BY <1>2, <1>3, <2>1 DEF Records
<1>5. \A q \in Nat : cur[p] <= q /\ q < o => q \in Gaps[p]
  BY <1>2, <1>3, <1>4 DEF Records
<1>6. WindowEnd(p)' = WindowEnd(p)
  BY <1>1 DEF WindowEnd
<1>7. Frontier(p) = AtMost(cur[p], WindowEnd(p)) /\ Frontier(p)' = AtMost(o + 1, WindowEnd(p))
  BY <1>1, <1>4, <1>6 DEF Frontier, Stopped
<1>8. /\ Frontier(p) \in Nat /\ Frontier(p)' \in Nat /\ Frontier(p) <= Frontier(p)'
      /\ Frontier(p)' <= WindowEnd(p)
  BY <1>3, <1>4, <1>7 DEF AtMost
<1>9. RangesOrdered(p)'
  BY <1>0, <1>1, <1>3, <1>4 DEF RangesOrdered
<1>10. p \in batchDone => Frontier(p)' = WindowEnd(p)
  BY <1>0, <1>1, <1>8 DEF CopiedBelowFrontier
<1>11. p \in completed => Frontier(p)' = end[p]
  BY <1>0, <1>1, <1>3, <1>8 DEF CopiedBelowFrontier, Copying
<1>12. CopiedBelow(p, Frontier(p))
  BY <1>0, <1>1 DEF CopiedBelowFrontier, Copying
<1>13. CASE SkipRecord(p, o)
  <2>1. /\ o >= WindowEnd(p) /\ sent' = sent /\ published' = published /\ completed' = completed
    BY <1>13 DEF SkipRecord, counts
  <2>2. Frontier(p)' = WindowEnd(p)
    BY <1>3, <1>4, <1>7, <2>1 DEF AtMost
  <2>3. SentBelowFrontier(p)'
    BY <1>0, <1>1, <1>8, <1>9, <2>1, SentStaysBelow
  <2>4. \A q \in Nat : Frontier(p) <= q /\ q < WindowEnd(p) /\ q \notin Gaps[p] => q < logStart[p]
    BY <1>3, <1>4, <1>5, <1>7, <2>1 DEF AtMost
  <2>5. CopiedBelow(p, WindowEnd(p))
    BY <1>3, <1>8, <1>12, <2>4, CopiedGrows
  <2>6. CopiedBelowFrontier(p)'
    BY <1>0, <1>1, <1>6, <1>11, <2>1, <2>2, <2>5 DEF CopiedBelowFrontier, CopiedBelow
  <2>7. QED
    BY <1>9, <2>3, <2>6
<1>14. CASE SendRecord(p, o)
  <2>1. /\ o < WindowEnd(p) /\ sent'[p] = Append(sent[p], o) /\ published'[p] = published[p] + 1
        /\ p \in batchDone' <=> p \in batchDone \/ o + 1 >= WindowEnd(p)
        /\ p \in completed' <=> p \in completed \/ o + 1 >= end[p]
    BY <1>14 DEF SendRecord, ReachesEnd, TypeOK
  <2>2. Frontier(p)' = o + 1 /\ Frontier(p) = cur[p]
    BY <1>3, <1>4, <1>7, <2>1 DEF AtMost
  <2>3. /\ sent[p] \in Seq(Offsets) /\ Len(sent[p]) \in Nat /\ Len(sent'[p]) = Len(sent[p]) + 1
        /\ \A i \in 1..Len(sent[p]) : sent'[p][i] = sent[p][i]
        /\ sent'[p][Len(sent[p]) + 1] = o
    <3>1. sent[p] \in Seq(Offsets) /\ Len(sent[p]) \in Nat
      BY Numbers
    <3>2. o \in Offsets
      <4>1. pos[p] \in 0..MaxOffset /\ MaxOffset \in Nat
        BY ConstantsAssumption DEF TypeOK, Offsets
      <4>2. QED
        BY <1>4, <4>1 DEF Offsets
    <3>3. QED
      BY <2>1, <3>1, <3>2, AppendProperties
  <2>4. SentBelowFrontier(p)'
    <3>1. \A i \in 1..Len(sent[p]) : /\ sent[p][i] \in Nat /\ begin[p] <= sent[p][i]
                                     /\ sent[p][i] < cur[p] /\ sent[p][i] \notin Gaps[p]
      <4>1. \A i \in 1..Len(sent[p]) : sent[p][i] \in Records(p, begin[p], cur[p])
        BY <1>0, <2>2 DEF SentBelowFrontier
      <4>2. \A q \in Records(p, begin[p], cur[p]) :
              q \in Nat /\ begin[p] <= q /\ q < cur[p] /\ q \notin Gaps[p]
        BY <1>3 DEF Records
      <4>3. QED
        BY <4>1, <4>2
    <3>2. ASSUME NEW i \in 1..Len(sent'[p])
          PROVE  sent'[p][i] \in Records(p, begin[p], o + 1)
      <4>1. CASE i \in 1..Len(sent[p])
        <5>1. sent'[p][i] \in Nat /\ begin[p] <= sent'[p][i] /\ sent'[p][i] < cur[p] /\ sent'[p][i] \notin Gaps[p]
          BY <2>3, <3>1, <4>1
        <5>2. QED
          BY <1>3, <1>4, <5>1, SMTT(20) DEF Records
      <4>2. CASE i = Len(sent[p]) + 1
        <5>1. o \in Records(p, begin[p], o + 1)
          BY <1>3, <1>4 DEF Records
        <5>2. QED
          BY <2>3, <4>2, <5>1
      <4>3. QED
        BY <2>3, <4>1, <4>2
    <3>3. ASSUME NEW i \in 1..Len(sent'[p]), NEW j \in 1..Len(sent'[p]), i < j
          PROVE  sent'[p][i] < sent'[p][j]
      <4>1. i \in 1..Len(sent[p])
        BY <2>3, <3>3
      <4>2. CASE j = Len(sent[p]) + 1
        <5>1. sent'[p][j] = o /\ sent'[p][i] = sent[p][i]
          BY <2>3, <4>1, <4>2
        <5>2. sent[p][i] < cur[p] /\ sent[p][i] \in Nat
          BY <3>1, <4>1
        <5>3. QED
          BY <1>3, <1>4, <5>1, <5>2
      <4>3. CASE j \in 1..Len(sent[p])
        BY <1>0, <2>3, <3>3, <4>1, <4>3 DEF SentBelowFrontier
      <4>4. QED
        BY <2>3, <4>2, <4>3
    <3>4. published'[p] <= o + 1 - begin[p]
      BY <1>0, <1>3, <1>4, <2>1, <2>2, SMTT(20) DEF SentBelowFrontier
    <3>5. QED
      <4>1. \A i \in 1..Len(sent'[p]) : sent'[p][i] \in Records(p, begin'[p], Frontier(p)')
        BY <1>1, <2>2, <3>2
      <4>2. published'[p] <= Frontier(p)' - begin'[p]
        <5>1. begin'[p] = begin[p]
          BY <1>1
        <5>2. Frontier(p)' = o + 1
          BY <2>2
        <5>3. QED
          BY <1>3, <1>4, <3>4, <5>1, <5>2
      <4>3. QED
        BY <3>3, <4>1, <4>2 DEF SentBelowFrontier
  <2>5. Elements(sent[p]) \subseteq Elements(sent'[p]) /\ o \in Elements(sent'[p])
    <3>1. ASSUME NEW i \in 1..Len(sent[p]) PROVE sent[p][i] \in Elements(sent'[p])
      <4>1. i \in 1..Len(sent'[p]) /\ sent'[p][i] = sent[p][i]
        BY <2>3
      <4>2. QED
        BY <4>1 DEF Elements
    <3>2. Len(sent[p]) + 1 \in 1..Len(sent'[p])
      BY <2>3
    <3>3. QED
      BY <2>3, <3>1, <3>2 DEF Elements
  <2>6. \A q \in Records(p, begin[p], o + 1) : q >= logStart[p] => q \in Elements(sent'[p])
    <3>1. ASSUME NEW q \in Records(p, begin[p], o + 1), q >= logStart[p], q # o
          PROVE  q \in Elements(sent[p])
      <4>1. q \in Nat /\ begin[p] <= q /\ q < o /\ q \notin Gaps[p]
        BY <1>3, <1>4, <3>1 DEF Records
      <4>2. q < cur[p]
        BY <1>3, <1>5, <4>1
      <4>3. q \in Records(p, begin[p], Frontier(p))
        BY <1>3, <2>2, <4>1, <4>2 DEF Records
      <4>4. QED
        BY <1>12, <3>1, <4>3 DEF CopiedBelow
    <3>2. QED
      BY <2>5, <3>1
  <2>7. p \in batchDone' => o + 1 = WindowEnd(p)
    BY <1>3, <1>4, <1>10, <2>1, <2>2
  <2>8. p \in completed' => o + 1 = end[p]
    BY <1>3, <1>4, <1>11, <2>1, <2>2
  <2>9. CopiedBelowFrontier(p)'
    BY <1>1, <1>6, <2>2, <2>6, <2>7, <2>8 DEF CopiedBelowFrontier, CopiedBelow
  <2>10. QED
    BY <1>9, <2>4, <2>9
<1>15. QED
  BY <1>2, <1>13, <1>14

LEMMA RecordsDoneCopies ==
  ASSUME TypeOK, TypeOK', CopyInv, RecordsDone
  PROVE  CopyInv'
<1> SUFFICES ASSUME NEW p \in Partitions
             PROVE  (RangesOrdered(p) /\ SentBelowFrontier(p) /\ CopiedBelowFrontier(p))'
  BY DEF CopyInv
<1>0. RangesOrdered(p) /\ SentBelowFrontier(p) /\ CopiedBelowFrontier(p)
  BY DEF CopyInv
<1>1. /\ pc = "records" /\ end' = end /\ begin' = begin
      /\ batchStart' = batchStart /\ sent' = sent /\ published' = published
      /\ completed' = completed /\ active' = active /\ batchDone' = batchDone
      /\ logStart' = logStart /\ logEnd' = logEnd /\ pos' = pos /\ cur' = pos
      /\ p \in active => Records(p, cur[p], pos[p]) = {}
      /\ \/ pc' = "flush" /\ batchDone = active
         \/ pc' = "poll"
  BY DEF RecordsDone, source, snapshot, window, counts
<1>2. WindowEnd(p)' = WindowEnd(p) /\ WindowEnd(p) \in Nat
  BY <1>1, Numbers DEF WindowEnd
<1>3. CASE p \notin active
  <2>1. Frontier(p)' = Frontier(p)
    BY <1>1, <1>3 DEF Frontier, Stopped
  <2>2. RangesOrdered(p)'
    BY <1>0, <1>1, <1>3 DEF RangesOrdered
  <2>3. SentBelowFrontier(p)'
    BY <1>0, <1>1, <2>1 DEF SentBelowFrontier
  <2>4. CopiedBelowFrontier(p)'
    BY <1>0, <1>1, <1>2, <2>1 DEF CopiedBelowFrontier, CopiedBelow, Copying
  <2>5. QED
    BY <2>2, <2>3, <2>4
<1>4. CASE p \in active
  <2> DEFINE G == AtMost(pos[p], WindowEnd(p))
  <2>1. /\ pos[p] \in Nat /\ cur[p] \in Nat /\ end[p] \in Nat /\ cur[p] <= pos[p]
        /\ WindowEnd(p) <= end[p]
    BY <1>0, <1>1, <1>4, Numbers, WindowEndType DEF RangesOrdered
  <2>2. Frontier(p) = AtMost(cur[p], WindowEnd(p))
    BY <1>1, <1>4 DEF Frontier, Stopped
  <2>3. Frontier(p) \in Nat /\ G \in Nat /\ Frontier(p) <= G /\ G <= WindowEnd(p)
    BY <1>2, <2>1, <2>2 DEF AtMost
  <2>4. \A o \in Nat : cur[p] <= o /\ o < pos[p] => o \in Gaps[p]
    BY <1>1, <1>4, <2>1 DEF Records
  <2>5. CopiedBelow(p, G)
    <3>1. CopiedBelow(p, Frontier(p))
      BY <1>0, <1>1 DEF CopiedBelowFrontier, Copying
    <3>2. ASSUME NEW o \in Nat, Frontier(p) <= o, o < G
          PROVE  o \in Gaps[p]
      BY <1>2, <2>1, <2>2, <2>4, <3>2 DEF AtMost
    <3>3. QED
      BY <2>3, <3>1, <3>2, CopiedGrows
  <2>6. p \in batchDone => G = WindowEnd(p)
    BY <1>0, <1>1, <1>2, <2>3 DEF CopiedBelowFrontier
  <2>7. p \in completed => G = end[p]
    BY <1>0, <1>1, <1>2, <2>1, <2>3 DEF CopiedBelowFrontier, Copying
  <2>8. Frontier(p)' = G
    BY <1>1, <1>2, <1>4, <2>6 DEF Frontier, Stopped
  <2>9. RangesOrdered(p)'
    BY <1>0, <1>1, <1>4, <2>1 DEF RangesOrdered
  <2>10. SentBelowFrontier(p)'
    BY <1>0, <1>1, <2>3, <2>8, <2>9, SentStaysBelow
  <2>11. CopiedBelowFrontier(p)'
    BY <1>0, <1>1, <1>2, <2>5, <2>6, <2>7, <2>8 DEF CopiedBelowFrontier, CopiedBelow
  <2>12. QED
    BY <2>9, <2>10, <2>11
<1>5. QED
  BY <1>3, <1>4

LEMMA FlushCopies ==
  ASSUME TypeOK, TypeOK', CopyInv, Flush
  PROVE  CopyInv'
<1> SUFFICES ASSUME NEW p \in Partitions
             PROVE  (RangesOrdered(p) /\ SentBelowFrontier(p) /\ CopiedBelowFrontier(p))'
  BY DEF CopyInv
<1>0. RangesOrdered(p) /\ SentBelowFrontier(p) /\ CopiedBelowFrontier(p)
  BY DEF CopyInv
<1>1. /\ pc = "flush" /\ pc' = "window" /\ end' = end /\ begin' = begin
      /\ sent' = sent /\ published' = published /\ active' = active
      /\ batchStart'[p] = (IF p \in active THEN WindowEnd(p) ELSE batchStart[p])
      /\ p \in completed' <=> p \in completed \/ (p \in active /\ WindowEnd(p) >= end[p])
      /\ logStart' = logStart /\ logEnd' = logEnd
  BY DEF Flush, NextStart, LastWindow, source, snapshot, counts
<1>2. /\ WindowEnd(p) \in Nat /\ end[p] \in Nat /\ batchStart[p] \in Nat
      /\ WindowEnd(p) <= end[p] /\ begin[p] \in Nat
      /\ batchStart[p] <= end[p] => batchStart[p] <= WindowEnd(p)
  BY Numbers, WindowEndType
<1>3. Frontier(p) = batchStart'[p] /\ Frontier(p)' = batchStart'[p]
  BY <1>1 DEF Frontier, Stopped
<1>4. RangesOrdered(p)'
  BY <1>0, <1>1, <1>2 DEF RangesOrdered
<1>5. SentBelowFrontier(p)'
  BY <1>0, <1>1, <1>3 DEF SentBelowFrontier
<1>6. p \in completed' => Frontier(p) = end[p]
  BY <1>0, <1>1, <1>2, <1>3 DEF CopiedBelowFrontier, Copying
<1>7. CopiedBelow(p, Frontier(p))
  BY <1>0, <1>1 DEF CopiedBelowFrontier, Copying
<1>8. CopiedBelowFrontier(p)'
  BY <1>1, <1>3, <1>6, <1>7 DEF CopiedBelowFrontier, CopiedBelow
<1>9. QED
  BY <1>4, <1>5, <1>8

\* The ways out of a run.
LEMMA StopCopies ==
  ASSUME TypeOK, TypeOK', CopyInv, Finish \/ Close \/ ClientFails \/ Crash
  PROVE  CopyInv'
<1> SUFFICES ASSUME NEW p \in Partitions
             PROVE  (RangesOrdered(p) /\ SentBelowFrontier(p) /\ CopiedBelowFrontier(p))'
  BY DEF CopyInv
<1>0. RangesOrdered(p) /\ SentBelowFrontier(p) /\ CopiedBelowFrontier(p)
  BY DEF CopyInv
<1>1. /\ pc' \in {"done", "closing", "failed", "crashed"}
      /\ end' = end /\ begin' = begin /\ batchStart' = batchStart
      /\ sent' = sent /\ published' = published /\ completed' = completed
      /\ logStart' = logStart /\ logEnd' = logEnd
  BY DEF Finish, Close, ClientFails, Crash, source, snapshot, window, counts
<1>2. Frontier(p)' = end[p]
  BY <1>1 DEF Frontier, Stopped
<1>3. RangesOrdered(p)'
  BY <1>0, <1>1 DEF RangesOrdered
<1>4. Frontier(p) <= Frontier(p)'
  BY <1>0, <1>2, FrontierBounds
<1>5. SentBelowFrontier(p)'
  BY <1>0, <1>1, <1>3, <1>4, SentStaysBelow
<1>6. p \in completed => CopiedBelow(p, end[p])
  BY <1>0 DEF CopiedBelowFrontier, RangesOrdered
<1>7. CopiedBelowFrontier(p)'
  BY <1>1, <1>6 DEF CopiedBelowFrontier, CopiedBelow, Copying
<1>8. QED
  BY <1>3, <1>5, <1>7

\* In every run, with any windows, gaps, faults, retention and restarts, the
\* copy goes from one frontier to the next.
THEOREM CopyInvariant == Spec => []CopyInv
<1>1. Init => CopyInv
  <2> SUFFICES ASSUME Init, NEW p \in Partitions
               PROVE  RangesOrdered(p) /\ SentBelowFrontier(p) /\ CopiedBelowFrontier(p)
    BY DEF CopyInv
  <2>1. logEnd[p] \in Nat
    BY ConstantsAssumption DEF Init, Offsets
  <2>2. Frontier(p) = 0 /\ begin[p] = 0 /\ end[p] = 0
    BY DEF Init, Frontier, Stopped
  <2>3. QED
    BY <2>1, <2>2
       DEF Init, RangesOrdered, SentBelowFrontier, CopiedBelowFrontier, Copying
<1>2. TypeOK /\ TypeOK' /\ CopyInv /\ [Next]_vars => CopyInv'
  <2> SUFFICES ASSUME TypeOK, TypeOK', CopyInv, [Next]_vars PROVE CopyInv'
    OBVIOUS
  <2>0. \A p \in Partitions : /\ logStart[p] \in Nat /\ logEnd[p] \in Nat
                              /\ logStart[p] <= logEnd[p]
    BY Numbers DEF CopyInv, RangesOrdered
  <2>1. ASSUME NEW p \in Partitions, Produce(p) PROVE CopyInv'
    <3>1. /\ UNCHANGED <<pc, snapshot, window, consumer, counts>>
          /\ logStart' = logStart /\ logEnd' = [logEnd EXCEPT ![p] = @ + 1]
      BY <2>1 DEF Produce
    <3>2. ASSUME NEW q \in Partitions
          PROVE  logEnd'[q] = logEnd[q] \/ logEnd'[q] = logEnd[q] + 1
      BY <3>1 DEF TypeOK
    <3>3. \A q \in Partitions : /\ logStart[q] <= logStart'[q] /\ logStart'[q] <= logEnd'[q]
                                /\ logEnd[q] <= logEnd'[q]
      BY <2>0, <3>1, <3>2
    <3>4. QED
      BY <3>1, <3>3, OtherActors
  <2>2. ASSUME NEW p \in Partitions, Expire(p) PROVE CopyInv'
    <3>1. /\ UNCHANGED <<pc, snapshot, window, consumer, counts>> /\ logStart[p] < logEnd[p]
          /\ logEnd' = logEnd /\ logStart' = [logStart EXCEPT ![p] = @ + 1]
      BY <2>2 DEF Expire
    <3>2. ASSUME NEW q \in Partitions
          PROVE  \/ logStart'[q] = logStart[q]
                 \/ logStart'[q] = logStart[q] + 1 /\ logStart[q] < logEnd[q]
      BY <3>1 DEF TypeOK
    <3>3. \A q \in Partitions : /\ logStart[q] <= logStart'[q] /\ logStart'[q] <= logEnd'[q]
                                /\ logEnd[q] <= logEnd'[q]
      BY <2>0, <3>1, <3>2
    <3>4. QED
      BY <3>1, <3>3, OtherActors
  <2>3. ASSUME NEW p \in Partitions, HandleRecord(p) PROVE CopyInv'
    BY <2>3, HandleRecordHere, HandleRecordElsewhere DEF CopyInv
  <2>4. ASSUME NEW p \in Partitions, Sender(p) PROVE CopyInv'
    <3>1. UNCHANGED <<pc, snapshot, window, consumer, source>> /\ UNCHANGED counts
      BY <2>4 DEF Sender, Drain, Ack, LoseRequest, LoseAck, Reject
    <3>2. logStart' = logStart /\ logEnd' = logEnd
      BY <3>1 DEF source
    <3>3. QED
      BY <2>0, <3>1, <3>2, OtherActors
  <2>5. CASE UNCHANGED vars
    <3>1. UNCHANGED <<pc, snapshot, window, consumer, counts>> /\ logStart' = logStart /\ logEnd' = logEnd
      BY <2>5 DEF vars, source
    <3>2. QED
      BY <2>0, <3>1, OtherActors
  <2>6. QED
    BY <2>1, <2>2, <2>3, <2>4, <2>5, StartCopies, ReadEndOffsetsCopies, CreateTopicsCopies,
       OpenWindowCopies, PollRecordsCopies, PollEmptyCopies, RecordsDoneCopies, FlushCopies,
       StopCopies DEF Next, Source, Run
<1>3. QED
  BY <1>1, <1>2, TypeCorrect, PTL DEF Spec

\* Each record of the snapshot is sent at most once in a run, in offset order,
\* and nothing from outside the snapshot.
THEOREM SendsOnceInOrder == Spec => []SentOnceInOrder
<1>1. TypeOK /\ CopyInv => SentOnceInOrder
  <2> SUFFICES ASSUME TypeOK, CopyInv, NEW p \in Partitions
               PROVE  /\ \A i \in 1..Len(sent[p]) : sent[p][i] \in Records(p, begin[p], end[p])
                      /\ \A i, j \in 1..Len(sent[p]) : i < j => sent[p][i] < sent[p][j]
    BY DEF SentOnceInOrder
  <2>1. RangesOrdered(p) /\ SentBelowFrontier(p)
    BY DEF CopyInv
  <2>2. Frontier(p) \in Nat /\ Frontier(p) <= end[p] /\ begin[p] \in Nat /\ end[p] \in Nat
    BY <2>1, FrontierBounds, Numbers
  <2>3. Records(p, begin[p], Frontier(p)) \subseteq Records(p, begin[p], end[p])
    BY <2>2 DEF Records
  <2>4. QED
    BY <2>1, <2>3 DEF SentBelowFrontier
<1>2. QED
  BY <1>1, TypeCorrect, CopyInvariant, PTL

\* The final report never shows more published records than planned ones.
THEOREM PublishesWithinPlan == Spec => []PublishedWithinPlanned
<1>1. TypeOK /\ CopyInv => PublishedWithinPlanned
  <2> SUFFICES ASSUME TypeOK, CopyInv, NEW p \in Partitions
               PROVE  published[p] <= Planned(p)
    BY DEF PublishedWithinPlanned
  <2>1. RangesOrdered(p) /\ SentBelowFrontier(p)
    BY DEF CopyInv
  <2>2. /\ Frontier(p) \in Nat /\ Frontier(p) <= end[p] /\ begin[p] \in Nat /\ end[p] \in Nat
        /\ published[p] \in Nat
    BY <2>1, FrontierBounds, Numbers
  <2>3. published[p] <= end[p] - begin[p]
    BY <2>1, <2>2 DEF SentBelowFrontier
  <2>4. QED
    BY <2>2, <2>3 DEF Planned, AtLeast
<1>2. QED
  BY <1>1, TypeCorrect, CopyInvariant, PTL

\* A partition counts as completed only when all of its snapshot that the
\* source still holds was sent.
THEOREM CompletedIsCopied == Spec => []CompletedMeansCopied
<1>1. TypeOK /\ CopyInv => CompletedMeansCopied
  <2> SUFFICES ASSUME TypeOK, CopyInv, pc \in Running \ {"snapshot", "create"}, NEW p \in completed
               PROVE  CopiedBelow(p, end[p])
    BY DEF CompletedMeansCopied, CopiedBelow
  <2>1. p \in Partitions
    BY DEF TypeOK
  <2>2. QED
    BY <2>1 DEF CopyInv, CopiedBelowFrontier
<1>2. QED
  BY <1>1, TypeCorrect, CopyInvariant, PTL

-----------------------------------------------------------------------------
(* What holds of the records on their way to the target, for every set of  *)
(* faults, and that the runs of the copier are runs of SnapshotCopy.       *)

-----------------------------------------------------------------------------
(* Queues of offsets.                                                      *)

\* The first occurrences in w are in ascending order.
FirstsAscend(w) ==
  \A j \in 1..Len(w) :
    (\A i \in 1..(j - 1) : w[i] # w[j]) => \A i \in 1..(j - 1) : w[i] < w[j]

NoDuplicates(w) == \A i, j \in 1..Len(w) : i # j => w[i] # w[j]

LEMMA ElementsType ==
  ASSUME NEW s \in Seq(Offsets)
  PROVE  Elements(s) \subseteq Offsets /\ (s = <<>> <=> Elements(s) = {})
<1>1. Len(s) \in Nat /\ (s = <<>> <=> Len(s) = 0)
  BY LenProperties, EmptySeq
<1>2. \A i \in 1..Len(s) : s[i] \in Offsets
  BY ElementOfSeq
<1>3. Len(s) # 0 => 1 \in 1..Len(s)
  BY <1>1
<1>4. Elements(s) \subseteq Offsets
  BY <1>2 DEF Elements
<1>5. Len(s) # 0 => s[1] \in Elements(s)
  BY <1>3 DEF Elements
<1>6. Len(s) = 0 => Elements(s) = {}
  BY DEF Elements
<1>7. QED
  BY <1>1, <1>4, <1>5, <1>6

LEMMA ElementsEmpty == Elements(<<>>) = {} /\ Ascending(<<>>)
BY DEF Elements, Ascending

LEMMA ElementsConcat ==
  ASSUME NEW s \in Seq(Offsets), NEW t \in Seq(Offsets)
  PROVE  Elements(s \o t) = Elements(s) \cup Elements(t)
<1>1. /\ Len(s) \in Nat /\ Len(t) \in Nat /\ Len(s \o t) = Len(s) + Len(t)
      /\ \A i \in 1..(Len(s) + Len(t)) :
           (s \o t)[i] = IF i <= Len(s) THEN s[i] ELSE t[i - Len(s)]
  BY ConcatProperties, LenProperties
<1>2. ASSUME NEW x \in Elements(s \o t) PROVE x \in Elements(s) \cup Elements(t)
  <2>1. PICK i \in 1..(Len(s) + Len(t)) : x = (s \o t)[i]
    BY <1>1 DEF Elements
  <2>2. i <= Len(s) => i \in 1..Len(s)
    BY <1>1
  <2>3. ~(i <= Len(s)) => i - Len(s) \in 1..Len(t)
    BY <1>1
  <2>4. QED
    BY <1>1, <2>1, <2>2, <2>3 DEF Elements
<1>3. ASSUME NEW x \in Elements(s) PROVE x \in Elements(s \o t)
  <2>1. PICK i \in 1..Len(s) : x = s[i]
    BY DEF Elements
  <2>2. i \in 1..(Len(s) + Len(t)) /\ i <= Len(s)
    BY <1>1
  <2>3. QED
    BY <1>1, <2>1, <2>2 DEF Elements
<1>4. ASSUME NEW x \in Elements(t) PROVE x \in Elements(s \o t)
  <2>1. PICK i \in 1..Len(t) : x = t[i]
    BY DEF Elements
  <2>2. i + Len(s) \in 1..(Len(s) + Len(t)) /\ ~(i + Len(s) <= Len(s)) /\ (i + Len(s)) - Len(s) = i
    BY <1>1
  <2>3. QED
    BY <1>1, <2>1, <2>2 DEF Elements
<1>5. QED
  BY <1>2, <1>3, <1>4

\* A record that is later than all of a queue is appended to it.
LEMMA AppendInOrder ==
  ASSUME NEW s \in Seq(Offsets), NEW o \in Offsets
  PROVE  /\ Elements(Append(s, o)) = Elements(s) \cup {o}
         /\ Ascending(s) /\ (\A x \in Elements(s) : x < o) => Ascending(Append(s, o))
<1>1. /\ Len(s) \in Nat /\ Len(Append(s, o)) = Len(s) + 1
      /\ \A i \in 1..Len(s) : Append(s, o)[i] = s[i]
      /\ Append(s, o)[Len(s) + 1] = o
  BY LenProperties, AppendProperties
<1>2. 1..(Len(s) + 1) = (1..Len(s)) \cup {Len(s) + 1}
  BY <1>1
<1>3. Elements(Append(s, o)) = Elements(s) \cup {o}
  BY <1>1, <1>2 DEF Elements
<1>4. ASSUME Ascending(s), \A x \in Elements(s) : x < o,
             NEW i \in 1..(Len(s) + 1), NEW j \in 1..(Len(s) + 1), i < j
      PROVE  Append(s, o)[i] < Append(s, o)[j]
  <2>1. i \in 1..Len(s) /\ s[i] < o
    BY <1>1, <1>4 DEF Elements
  <2>2. CASE j \in 1..Len(s)
    BY <1>1, <1>4, <2>1, <2>2 DEF Ascending
  <2>3. CASE j = Len(s) + 1
    BY <1>1, <2>1, <2>3
  <2>4. QED
    BY <1>2, <2>2, <2>3
<1>5. QED
  BY <1>1, <1>3, <1>4 DEF Ascending

\* A queue cut in two: the same records, and no record of the second part is
\* earlier than one of the first.
LEMMA CutInOrder ==
  ASSUME NEW s \in Seq(Offsets), NEW n \in 1..Len(s)
  PROVE  /\ Elements(s) = Elements(SubSeq(s, 1, n)) \cup Elements(SubSeq(s, n + 1, Len(s)))
         /\ Ascending(s) => /\ Ascending(SubSeq(s, 1, n)) /\ Ascending(SubSeq(s, n + 1, Len(s)))
                            /\ AllBelow(SubSeq(s, 1, n), SubSeq(s, n + 1, Len(s)))
<1> DEFINE a == SubSeq(s, 1, n)
           b == SubSeq(s, n + 1, Len(s))
<1>0. Len(s) \in Nat /\ n \in Nat /\ \A i \in 1..Len(s) : s[i] \in Offsets
  BY LenProperties, ElementOfSeq
<1>1. Len(a) = n /\ \A i \in 1..n : a[i] = s[i]
  <2>1. /\ Len(a) = IF 1 <= n THEN n - 1 + 1 ELSE 0
        /\ \A i \in 1..(n - 1 + 1) : a[i] = s[1 + i - 1]
    <3>1. \A i \in 1..n : s[i] \in Offsets
      BY <1>0
    <3>2. QED
      BY <1>0, <3>1, SubSeqProperties
  <2>2. QED
    BY <1>0, <2>1
<1>2. Len(b) = Len(s) - n /\ \A i \in 1..(Len(s) - n) : b[i] = s[n + i]
  <2>1. /\ Len(b) = IF n + 1 <= Len(s) THEN Len(s) - (n + 1) + 1 ELSE 0
        /\ \A i \in 1..(Len(s) - (n + 1) + 1) : b[i] = s[(n + 1) + i - 1]
    <3>1. \A i \in (n + 1)..Len(s) : s[i] \in Offsets
      BY <1>0
    <3>2. QED
      BY <1>0, <3>1, SubSeqProperties
  <2>2. QED
    BY <1>0, <2>1
<1>3. \A i \in 1..Len(a) : i \in 1..Len(s) /\ i <= n /\ a[i] = s[i]
  BY <1>0, <1>1
<1>4. \A i \in 1..Len(b) : n + i \in 1..Len(s) /\ b[i] = s[n + i]
  BY <1>0, <1>2
<1>5. ASSUME NEW x \in Elements(s) PROVE x \in Elements(a) \cup Elements(b)
  <2>1. PICK i \in 1..Len(s) : x = s[i]
    BY DEF Elements
  <2>2. CASE i <= n
    <3>1. i \in 1..Len(a) /\ a[i] = x
      BY <1>0, <1>1, <2>1, <2>2
    <3>2. QED
      BY <3>1 DEF Elements
  <2>3. CASE ~(i <= n)
    <3>1. i - n \in 1..(Len(s) - n) /\ n + (i - n) = i
      BY <1>0, <2>3
    <3>2. i - n \in 1..Len(b) /\ b[i - n] = x
      BY <1>2, <2>1, <3>1
    <3>3. QED
      BY <3>2 DEF Elements
  <2>4. QED
    BY <2>2, <2>3
<1>6. Elements(a) \cup Elements(b) \subseteq Elements(s)
  BY <1>3, <1>4 DEF Elements
<1>7. ASSUME Ascending(s) PROVE Ascending(a) /\ Ascending(b) /\ AllBelow(a, b)
  <2>1. Ascending(a)
    BY <1>3, <1>7 DEF Ascending
  <2>2. ASSUME NEW i \in 1..Len(b), NEW j \in 1..Len(b), i < j PROVE b[i] < b[j]
    <3>1. n + i < n + j
      BY <1>0, <2>2
    <3>2. QED
      BY <1>4, <1>7, <3>1 DEF Ascending
  <2>3. ASSUME NEW i \in 1..Len(a), NEW j \in 1..Len(b) PROVE a[i] < b[j]
    <3>1. i < n + j
      BY <1>0, <1>3
    <3>2. QED
      BY <1>3, <1>4, <1>7, <3>1 DEF Ascending
  <2>4. QED
    BY <2>1, <2>2, <2>3 DEF Ascending, AllBelow, Elements
<1>8. QED
  BY <1>5, <1>6, <1>7

\* An ascending batch that is new, or all of which has arrived before, keeps the
\* first copies ascending; a new one keeps the log free of duplicates.
LEMMA ArriveInOrder ==
  ASSUME NEW w \in Seq(Offsets), NEW s \in Seq(Offsets), Ascending(s)
  PROVE  /\ /\ FirstsAscend(w)
            /\ AllBelow(w, s) \/ Elements(s) \subseteq Elements(w)
            => FirstsAscend(w \o s)
         /\ NoDuplicates(w) /\ AllBelow(w, s) => NoDuplicates(w \o s)
<1>1. /\ Len(s) \in Nat /\ Len(w) \in Nat /\ Len(w \o s) = Len(w) + Len(s)
      /\ \A i \in 1..(Len(w) + Len(s)) :
           (w \o s)[i] = IF i <= Len(w) THEN w[i] ELSE s[i - Len(w)]
  BY ConcatProperties, LenProperties
<1>2. \A i \in 1..Len(w) : i \in 1..(Len(w) + Len(s)) /\ (w \o s)[i] = w[i]
  BY <1>1
<1>3. ASSUME NEW i \in 1..(Len(w) + Len(s))
      PROVE  \/ i \in 1..Len(w)
             \/ i > Len(w) /\ i - Len(w) \in 1..Len(s) /\ (w \o s)[i] = s[i - Len(w)]
  BY <1>1
<1>4. \A i \in 1..Len(w) : w[i] \in Int
  BY ElementOfSeq, ConstantsAssumption DEF Offsets
<1>5. \A i \in 1..Len(s) : s[i] \in Int
  BY ElementOfSeq, ConstantsAssumption DEF Offsets
<1>6. ASSUME AllBelow(w, s), NEW i \in 1..(Len(w) + Len(s)), NEW j \in 1..(Len(w) + Len(s)),
             i < j, ~(j \in 1..Len(w))
      PROVE  (w \o s)[i] < (w \o s)[j]
  <2>1. j - Len(w) \in 1..Len(s) /\ (w \o s)[j] = s[j - Len(w)]
    BY <1>3, <1>6
  <2>2. CASE i \in 1..Len(w)
    BY <1>2, <1>6, <2>1, <2>2 DEF AllBelow, Elements
  <2>3. CASE ~(i \in 1..Len(w))
    <3>1. i - Len(w) \in 1..Len(s) /\ (w \o s)[i] = s[i - Len(w)]
      BY <1>3, <2>3
    <3>2. i - Len(w) < j - Len(w)
      BY <1>1, <1>6
    <3>3. QED
      BY <2>1, <3>1, <3>2 DEF Ascending
  <2>4. QED
    BY <2>2, <2>3
<1>7. ASSUME FirstsAscend(w), AllBelow(w, s) \/ Elements(s) \subseteq Elements(w)
      PROVE  FirstsAscend(w \o s)
  <2> SUFFICES ASSUME NEW j \in 1..(Len(w) + Len(s)),
                      \A i \in 1..(j - 1) : (w \o s)[i] # (w \o s)[j],
                      NEW i \in 1..(j - 1)
               PROVE  (w \o s)[i] < (w \o s)[j]
    BY <1>1 DEF FirstsAscend
  <2>1. i \in 1..(Len(w) + Len(s)) /\ i < j
    BY <1>1
  <2>2. CASE j \in 1..Len(w)
    <3>1. \A k \in 1..(j - 1) : k \in 1..Len(w) /\ (w \o s)[k] = w[k]
      BY <1>1, <1>2, <2>2
    <3>2. \A k \in 1..(j - 1) : w[k] # w[j]
      BY <1>2, <2>2, <3>1
    <3>3. w[i] < w[j]
      BY <1>7, <2>2, <3>2 DEF FirstsAscend
    <3>4. QED
      BY <1>2, <2>2, <3>1, <3>3
  <2>3. CASE ~(j \in 1..Len(w))
    <3>1. j - Len(w) \in 1..Len(s) /\ (w \o s)[j] = s[j - Len(w)] /\ j > Len(w)
      BY <1>3, <2>3
    <3>2. CASE AllBelow(w, s)
      BY <1>6, <2>1, <2>3, <3>2
    <3>3. CASE Elements(s) \subseteq Elements(w)
      <4>1. PICK k \in 1..Len(w) : s[j - Len(w)] = w[k]
        BY <3>1, <3>3 DEF Elements
      <4>2. k \in 1..(j - 1)
        BY <1>1, <3>1
      <4>3. QED
        BY <1>2, <3>1, <4>1, <4>2
    <3>4. QED
      BY <1>7, <3>2, <3>3
  <2>4. QED
    BY <2>2, <2>3
<1>8. ASSUME NoDuplicates(w), AllBelow(w, s),
             NEW i \in 1..(Len(w) + Len(s)), NEW j \in 1..(Len(w) + Len(s)), i < j
      PROVE  (w \o s)[i] # (w \o s)[j]
  <2>1. CASE j \in 1..Len(w)
    <3>1. i \in 1..Len(w)
      BY <1>1, <1>8, <2>1
    <3>2. QED
      BY <1>2, <1>8, <2>1, <3>1 DEF NoDuplicates
  <2>2. CASE ~(j \in 1..Len(w))
    <3>1. (w \o s)[i] < (w \o s)[j]
      BY <1>6, <1>8, <2>2
    <3>2. (w \o s)[i] \in Int /\ (w \o s)[j] \in Int
      BY <1>2, <1>3, <1>4, <1>5
    <3>3. QED
      BY <3>1, <3>2
  <2>3. QED
    BY <2>1, <2>2
<1>9. ASSUME NoDuplicates(w), AllBelow(w, s) PROVE NoDuplicates(w \o s)
  <2>1. \A i, j \in 1..(Len(w) + Len(s)) : i # j => i < j \/ j < i
    BY <1>1
  <2>2. QED
    BY <1>1, <1>8, <1>9, <2>1 DEF NoDuplicates
<1>10. QED
  BY <1>7, <1>9

-----------------------------------------------------------------------------
(* The way of the records: the invariant DeliveryInv.                      *)

\* DeliveryInv of one partition.
Delivered(p) ==
  /\ mark[p] <= Len(target[p]) /\ QueuesInOrder(p) /\ SentAccounted(p)
  /\ FirstsAscend(Written(p)) /\ ("ack" \notin Faults => NoDuplicates(Written(p)))

Settled ==
  /\ pc \in Stopped \cup {"snapshot", "create", "window"} => ProducerIdle
  /\ pc = "done" => completed = Partitions

LEMMA DeliveryByPartition ==
  DeliveryInv <=> Settled /\ \A p \in Partitions : Delivered(p)
BY DEF DeliveryInv, Settled, Delivered, FirstCopiesInOrder, DuplicatesNeedLostAcks,
       FirstsAscend, NoDuplicates

LEMMA WrittenType ==
  ASSUME TypeOK, NEW p \in Partitions
  PROVE  /\ Written(p) \in Seq(Offsets) /\ target[p] \in Seq(Offsets) /\ mark[p] \in Nat
         /\ inflight[p] \in Seq(Offsets) /\ buffered[p] \in Seq(Offsets) /\ sent[p] \in Seq(Offsets)
         /\ Elements(Written(p)) \subseteq Offsets /\ Elements(inflight[p]) \subseteq Offsets
         /\ Elements(buffered[p]) \subseteq Offsets /\ Elements(sent[p]) \subseteq Offsets
         /\ Offsets \subseteq Int
<1>1. /\ target[p] \in Seq(Offsets) /\ mark[p] \in Nat /\ inflight[p] \in Seq(Offsets)
      /\ buffered[p] \in Seq(Offsets) /\ sent[p] \in Seq(Offsets)
  BY DEF TypeOK
<1>2. Written(p) \in Seq(Offsets)
  <2>1. Len(target[p]) \in Int /\ mark[p] + 1 \in Int
    BY <1>1, LenProperties
  <2>2. \A i \in (mark[p] + 1)..Len(target[p]) : target[p][i] \in Offsets
    <3>1. \A i \in (mark[p] + 1)..Len(target[p]) : i \in 1..Len(target[p])
      BY <1>1, <2>1
    <3>2. QED
      BY <1>1, <3>1, ElementOfSeq
  <2>3. QED
    BY <2>1, <2>2, SubSeqProperties DEF Written
<1>3. QED
  BY <1>1, <1>2, ElementsType, ConstantsAssumption DEF Offsets

\* What a sequence holds after its first m elements.
LEMMA TailProperties ==
  ASSUME NEW s \in Seq(Offsets), NEW m \in Nat, m <= Len(s)
  PROVE  /\ SubSeq(s, m + 1, Len(s)) \in Seq(Offsets)
         /\ Len(SubSeq(s, m + 1, Len(s))) = Len(s) - m
         /\ \A i \in 1..(Len(s) - m) : SubSeq(s, m + 1, Len(s))[i] = s[m + i]
<1>1. Len(s) \in Nat /\ \A i \in 1..Len(s) : s[i] \in Offsets
  BY LenProperties, ElementOfSeq
<1>2. \A i \in (m + 1)..Len(s) : s[i] \in Offsets
  BY <1>1
<1>3. /\ SubSeq(s, m + 1, Len(s)) \in Seq(Offsets)
      /\ Len(SubSeq(s, m + 1, Len(s))) = IF m + 1 <= Len(s) THEN Len(s) - (m + 1) + 1 ELSE 0
      /\ \A i \in 1..(Len(s) - (m + 1) + 1) : SubSeq(s, m + 1, Len(s))[i] = s[(m + 1) + i - 1]
  BY <1>1, <1>2, SubSeqProperties
<1>4. QED
  BY <1>1, <1>3

LEMMA TailOfConcat ==
  ASSUME NEW s \in Seq(Offsets), NEW t \in Seq(Offsets), NEW m \in Nat, m <= Len(s)
  PROVE  /\ SubSeq(s \o t, m + 1, Len(s \o t)) = SubSeq(s, m + 1, Len(s)) \o t
         /\ m <= Len(s \o t)
<1>1. /\ Len(s) \in Nat /\ Len(t) \in Nat /\ s \o t \in Seq(Offsets)
      /\ Len(s \o t) = Len(s) + Len(t)
      /\ \A i \in 1..(Len(s) + Len(t)) : (s \o t)[i] = IF i <= Len(s) THEN s[i] ELSE t[i - Len(s)]
  BY ConcatProperties, LenProperties
<1>2. m <= Len(s \o t)
  BY <1>1
<1> DEFINE w == SubSeq(s, m + 1, Len(s))
           v == SubSeq(s \o t, m + 1, Len(s \o t))
<1>3. /\ w \in Seq(Offsets) /\ Len(w) = Len(s) - m
      /\ \A i \in 1..(Len(s) - m) : w[i] = s[m + i]
  BY TailProperties
<1>4. /\ v \in Seq(Offsets) /\ Len(v) = Len(s \o t) - m
      /\ \A i \in 1..(Len(s \o t) - m) : v[i] = (s \o t)[m + i]
  BY <1>1, <1>2, TailProperties
<1> HIDE DEF w, v
<1>5. /\ w \o t \in Seq(Offsets) /\ Len(w \o t) = Len(w) + Len(t)
      /\ \A i \in 1..(Len(w) + Len(t)) : (w \o t)[i] = IF i <= Len(w) THEN w[i] ELSE t[i - Len(w)]
  BY <1>3, ConcatProperties
<1>6. Len(v) = Len(w \o t) /\ Len(v) = Len(s) + Len(t) - m
  BY <1>1, <1>3, <1>4, <1>5
<1>7. ASSUME NEW i \in 1..Len(v) PROVE v[i] = (w \o t)[i]
  <2>1. i \in 1..(Len(s) + Len(t) - m)
    BY <1>6
  <2>2. v[i] = (s \o t)[m + i] /\ m + i \in 1..(Len(s) + Len(t))
    <3>1. Len(s \o t) - m = Len(s) + Len(t) - m
      BY <1>1
    <3>2. i \in 1..(Len(s \o t) - m)
      BY <2>1, <3>1
    <3>3. v[i] = (s \o t)[m + i]
      BY <1>4, <3>2
    <3>4. m + i \in 1..(Len(s) + Len(t))
      <4>1. Len(s) \in Nat /\ Len(t) \in Nat
        BY <1>1
      <4>2. QED
        BY <2>1, <4>1
    <3>5. QED
      BY <3>3, <3>4
  <2>3. CASE i <= Len(s) - m
    <3>1. m + i <= Len(s) /\ i \in 1..(Len(s) - m) /\ i <= Len(w) /\ i \in 1..(Len(w) + Len(t))
      BY <1>1, <1>3, <2>1, <2>3
    <3>2. QED
      BY <1>1, <1>3, <1>5, <2>2, <3>1
  <2>4. CASE ~(i <= Len(s) - m)
    <3>1. /\ ~(m + i <= Len(s)) /\ (m + i) - Len(s) = i - Len(w)
          /\ ~(i <= Len(w)) /\ i \in 1..(Len(w) + Len(t))
      BY <1>1, <1>3, <2>1, <2>4
    <3>2. QED
      BY <1>1, <1>5, <2>2, <3>1
  <2>5. QED
    BY <2>3, <2>4
<1>8. v = w \o t
  BY <1>4, <1>5, <1>6, <1>7, SeqEqual
<1>9. QED
  BY <1>2, <1>8 DEF w, v

\* What the target appends adds to what this run has put there.
LEMMA WrittenAppended ==
  ASSUME TypeOK, NEW p \in Partitions, mark[p] <= Len(target[p]), mark'[p] = mark[p],
         target'[p] = target[p] \o inflight[p]
  PROVE  Written(p)' = Written(p) \o inflight[p] /\ mark'[p] <= Len(target'[p])
<1>1. target[p] \in Seq(Offsets) /\ inflight[p] \in Seq(Offsets) /\ mark[p] \in Nat
  BY WrittenType
<1>2. Written(p)' = SubSeq(target[p] \o inflight[p], mark[p] + 1, Len(target[p] \o inflight[p]))
  BY DEF Written
<1>3. /\ Written(p)' = SubSeq(target[p], mark[p] + 1, Len(target[p])) \o inflight[p]
      /\ mark[p] <= Len(target[p] \o inflight[p])
  BY <1>1, <1>2, TailOfConcat
<1>4. QED
  BY <1>3 DEF Written

\* A partition none of whose records moves.
LEMMA DeliveredStays ==
  ASSUME NEW p \in Partitions, Delivered(p),
         mark'[p] = mark[p], target'[p] = target[p], inflight'[p] = inflight[p],
         buffered'[p] = buffered[p], sent'[p] = sent[p], failed'[p] = failed[p],
         batchStart'[p] = batchStart[p], pc' = pc \/ pc # "crashed"
  PROVE  Delivered(p)'
<1>1. Written(p)' = Written(p)
  BY DEF Written
<1>2. QED
  BY <1>1 DEF Delivered, QueuesInOrder, SentAccounted, AllBelow

LEMMA DeliveredFromStart ==
  ASSUME TypeOK, NEW p \in Partitions, Start, Settled
  PROVE  Delivered(p)'
<1>1. /\ sent'[p] = <<>> /\ failed'[p] = {} /\ mark'[p] = Len(target[p]) /\ target' = target
      /\ inflight' = inflight /\ buffered' = buffered
  BY DEF Start
<1>2. inflight[p] = <<>> /\ buffered[p] = <<>>
  BY DEF Start, Settled, ProducerIdle
<1>3. Len(target[p]) \in Nat
  BY WrittenType, LenProperties
<1>4. Written(p)' = <<>>
  <2>1. Written(p)' = SubSeq(target[p], Len(target[p]) + 1, Len(target[p]))
    BY <1>1 DEF Written
  <2>2. QED
    BY <1>3, <2>1, SubSeqEmpty
<1>5. QueuesInOrder(p)'
  BY <1>1, <1>2, <1>4, ElementsEmpty DEF QueuesInOrder, AllBelow
<1>6. SentAccounted(p)'
  BY <1>1, <1>2, <1>4, ElementsEmpty DEF SentAccounted
<1>7. FirstsAscend(<<>>) /\ NoDuplicates(<<>>)
  BY DEF FirstsAscend, NoDuplicates
<1>8. QED
  BY <1>1, <1>3, <1>4, <1>5, <1>6, <1>7 DEF Delivered

\* A record just sent is later than all before it.
LEMMA DeliveredSend ==
  ASSUME TypeOK, CopyInv, NEW p \in Partitions, HandleRecord(p), Delivered(p)
  PROVE  Delivered(p)'
<1>0. /\ RangesOrdered(p) /\ SentBelowFrontier(p) /\ pc = "records" /\ pc' = "records" /\ p \in active
      /\ batchStart' = batchStart /\ mark' = mark /\ target' = target /\ inflight' = inflight
  BY DEF CopyInv, HandleRecord, history
<1>1. PICK o \in Records(p, cur[p], pos[p]) :
        \/ SkipRecord(p, o)
        \/ SendRecord(p, o)
  BY DEF HandleRecord
<1>2. CASE SkipRecord(p, o)
  BY <1>0, <1>2, DeliveredStays DEF SkipRecord, counts
<1>3. CASE SendRecord(p, o)
  <2>1. /\ begin[p] \in Nat /\ end[p] \in Nat /\ cur[p] \in Nat /\ pos[p] \in 0..MaxOffset
        /\ WindowEnd(p) \in Nat /\ batchStart[p] \in Nat /\ MaxOffset \in Nat
        /\ begin[p] <= batchStart[p] /\ batchStart[p] <= cur[p] /\ cur[p] <= pos[p]
    BY <1>0, Numbers, WindowEndType DEF RangesOrdered, TypeOK, Offsets
  <2>2. o \in Offsets /\ cur[p] <= o /\ o < pos[p] /\ o < WindowEnd(p)
    BY <1>1, <1>3, <2>1 DEF Records, SendRecord, Offsets
  <2>3. Frontier(p) = cur[p]
    BY <1>0, <2>1, <2>2 DEF Frontier, AtMost, Stopped, Offsets
  <2>4. \A x \in Elements(sent[p]) : x < o
    BY <1>0, <2>1, <2>2, <2>3 DEF SentBelowFrontier, Records, Elements, Offsets
  <2>5. sent'[p] = Append(sent[p], o)
    BY <1>3 DEF SendRecord, TypeOK
  <2>6. Elements(sent'[p]) = Elements(sent[p]) \cup {o}
    BY <2>2, <2>5, WrittenType, AppendInOrder
  <2>7. Written(p)' = Written(p)
    BY <1>0 DEF Written
  <2>8. /\ QueuesInOrder(p) /\ SentAccounted(p)
    BY DEF Delivered
  <2>9. o >= batchStart[p] /\ o \in Int
    BY <2>1, <2>2 DEF Offsets
  <2>10. CASE Accept(p, o)
    <3>1. buffered'[p] = Append(buffered[p], o) /\ failed' = failed
      BY <2>10 DEF Accept, TypeOK
    <3>2. \A x \in Elements(buffered[p]) : x < o
      BY <2>4, <2>8 DEF SentAccounted
    <3>3. Elements(buffered'[p]) = Elements(buffered[p]) \cup {o} /\ Ascending(buffered'[p])
      BY <2>2, <2>8, <3>1, <3>2, WrittenType, AppendInOrder DEF QueuesInOrder
    <3>4. AllBelow(inflight[p], buffered'[p]) /\ AllBelow(Written(p), buffered'[p])
      BY <2>4, <2>8, <3>3 DEF QueuesInOrder, SentAccounted, AllBelow
    <3>5. QueuesInOrder(p)'
      BY <1>0, <2>7, <2>8, <3>3, <3>4 DEF QueuesInOrder, AllBelow
    <3>6. SentAccounted(p)'
      BY <1>0, <2>6, <2>7, <2>8, <2>9, <3>1, <3>3 DEF SentAccounted
    <3>7. QED
      BY <1>0, <2>7, <3>5, <3>6 DEF Delivered
  <2>11. CASE Refuse(p, o)
    <3>1. buffered' = buffered /\ failed'[p] = failed[p] \cup {o}
      BY <2>11 DEF Refuse, TypeOK
    <3>2. QueuesInOrder(p)'
      BY <1>0, <2>7, <2>8, <3>1 DEF QueuesInOrder, AllBelow
    <3>3. SentAccounted(p)'
      BY <1>0, <2>6, <2>7, <2>8, <3>1 DEF SentAccounted
    <3>4. QED
      BY <1>0, <2>7, <3>2, <3>3 DEF Delivered
  <2>12. QED
    BY <1>3, <2>10, <2>11 DEF SendRecord
<1>4. QED
  BY <1>1, <1>2, <1>3

\* flush() closes the windows over an idle producer.
LEMMA DeliveredFlush ==
  ASSUME NEW p \in Partitions, Flush, Delivered(p)
  PROVE  Delivered(p)'
<1>1. /\ pc = "flush" /\ UNCHANGED <<mark, target, inflight, buffered, sent, failed>>
      /\ inflight[p] = <<>> /\ buffered[p] = <<>>
  BY DEF Flush, ProducerIdle, counts, producer, history
<1>2. Written(p)' = Written(p)
  BY <1>1 DEF Written
<1>3. Elements(sent[p]) \subseteq Elements(Written(p)) \cup failed[p]
  BY <1>1, ElementsEmpty DEF Delivered, SentAccounted
<1>4. QED
  BY <1>1, <1>2, <1>3 DEF Delivered, QueuesInOrder, SentAccounted, AllBelow

\* A kill empties the queues.
LEMMA DeliveredCrash ==
  ASSUME NEW p \in Partitions, Crash, Delivered(p)
  PROVE  Delivered(p)'
<1>1. /\ pc' = "crashed" /\ UNCHANGED <<mark, target, sent, failed, batchStart>>
      /\ inflight'[p] = <<>> /\ buffered'[p] = <<>>
  BY DEF Crash, counts, window, history
<1>2. Written(p)' = Written(p)
  BY <1>1 DEF Written
<1>3. QueuesInOrder(p)'
  BY <1>1, <1>2, ElementsEmpty DEF QueuesInOrder, AllBelow
<1>4. SentAccounted(p)'
  BY <1>1, <1>2, ElementsEmpty DEF Delivered, SentAccounted
<1>5. QED
  BY <1>1, <1>2, <1>3, <1>4 DEF Delivered

LEMMA DeliveredDrain ==
  ASSUME TypeOK, NEW p \in Partitions, Drain(p), Delivered(p)
  PROVE  Delivered(p)'
<1>1. PICK n \in 1..Len(buffered[p]) :
        /\ inflight'[p] = SubSeq(buffered[p], 1, n)
        /\ buffered'[p] = SubSeq(buffered[p], n + 1, Len(buffered[p]))
  BY DEF Drain, TypeOK
<1>2. inflight[p] = <<>> /\ UNCHANGED <<pc, mark, target, sent, failed, batchStart>>
  BY DEF Drain, counts, window, history
<1>3. Written(p)' = Written(p)
  BY <1>2 DEF Written
<1>4. /\ Elements(buffered[p]) = Elements(inflight'[p]) \cup Elements(buffered'[p])
      /\ Ascending(buffered[p]) => /\ Ascending(inflight'[p]) /\ Ascending(buffered'[p])
                                   /\ AllBelow(inflight'[p], buffered'[p])
  BY <1>1, WrittenType, CutInOrder
<1>5. QueuesInOrder(p)'
  BY <1>3, <1>4 DEF Delivered, QueuesInOrder, AllBelow
<1>6. SentAccounted(p)'
  BY <1>2, <1>3, <1>4, ElementsEmpty DEF Delivered, SentAccounted
<1>7. QED
  BY <1>2, <1>3, <1>5, <1>6 DEF Delivered

\* A batch that is appended, and one that leaves the wire or stays there.
LEMMA DeliveredBatch ==
  ASSUME TypeOK, NEW p \in Partitions, Delivered(p), inflight[p] # <<>>,
         UNCHANGED <<pc, mark, sent, batchStart, buffered>>,
         \/ target' = target
         \/ Appended(p),
         \/ inflight' = inflight /\ failed' = failed /\ (target' # target => "ack" \in Faults)
         \/ /\ inflight'[p] = <<>>
            /\ \/ failed' = failed /\ Appended(p)
               \/ CallbacksFail(p)
  PROVE  Delivered(p)'
<1>1. QueuesInOrder(p) /\ SentAccounted(p) /\ mark[p] <= Len(target[p])
  BY DEF Delivered
<1>2. /\ Elements(inflight[p]) # {} /\ Elements(inflight[p]) \subseteq Offsets
      /\ inflight[p] \in Seq(Offsets) /\ Written(p) \in Seq(Offsets)
  BY WrittenType, ElementsType
<1>3. /\ mark'[p] <= Len(target'[p])
      /\ target' = target => Written(p)' = Written(p)
      /\ Appended(p) => Written(p)' = Written(p) \o inflight[p]
  <2>1. CASE target' = target
    <3>1. Written(p)' = Written(p)
      BY <2>1 DEF Written
    <3>2. ASSUME Appended(p) PROVE Written(p)' = Written(p) \o inflight[p]
      <4>1. target'[p] = target[p] \o inflight[p]
        BY <3>2 DEF Appended, TypeOK
      <4>2. QED
        BY <1>1, <4>1, WrittenAppended
    <3>3. QED
      BY <1>1, <2>1, <3>1, <3>2
  <2>2. CASE Appended(p)
    <3>1. target'[p] = target[p] \o inflight[p]
      BY <2>2 DEF Appended, TypeOK
    <3>2. Written(p)' = Written(p) \o inflight[p] /\ mark'[p] <= Len(target'[p])
      BY <1>1, <3>1, WrittenAppended
    <3>3. target' = target => Written(p)' = Written(p)
      BY DEF Written
    <3>4. QED
      BY <3>2, <3>3
  <2>3. QED
    BY <2>1, <2>2
<1>4. Elements(Written(p) \o inflight[p]) = Elements(Written(p)) \cup Elements(inflight[p])
  BY <1>2, ElementsConcat
<1>5. FirstsAscend(Written(p))' /\ ("ack" \notin Faults => NoDuplicates(Written(p))')
  <2>1. CASE Written(p)' = Written(p)
    BY <2>1 DEF Delivered, FirstsAscend, NoDuplicates
  <2>2. CASE Written(p)' = Written(p) \o inflight[p]
    <3>1. /\ FirstsAscend(Written(p) \o inflight[p])
          /\ "ack" \notin Faults => NoDuplicates(Written(p) \o inflight[p])
      BY <1>1, <1>2, ArriveInOrder DEF Delivered, QueuesInOrder
    <3>2. QED
      BY <2>2, <3>1 DEF FirstsAscend, NoDuplicates
  <2>3. QED
    BY <1>3, <2>1, <2>2
<1>6. /\ Elements(Written(p)) \subseteq Elements(Written(p)')
      /\ Elements(Written(p)') \subseteq Elements(Written(p)) \cup Elements(inflight[p])
      /\ Appended(p) => Elements(inflight[p]) \subseteq Elements(Written(p)')
  BY <1>3, <1>4
<1>7. failed[p] \subseteq failed'[p] /\ (CallbacksFail(p) => Elements(inflight[p]) \subseteq failed'[p])
  BY DEF CallbacksFail, TypeOK
<1>8. AllBelow(Written(p)', buffered[p])
  BY <1>1, <1>6 DEF QueuesInOrder, AllBelow
<1>9. CASE inflight' = inflight /\ failed' = failed /\ (target' # target => "ack" \in Faults)
  <2>1. \/ AllBelow(Written(p)', inflight[p])
        \/ "ack" \in Faults /\ Elements(inflight[p]) \subseteq Elements(Written(p)')
    BY <1>1, <1>3, <1>6, <1>9 DEF QueuesInOrder
  <2>2. QueuesInOrder(p)'
    BY <1>1, <1>8, <1>9, <2>1 DEF QueuesInOrder, AllBelow
  <2>3. SentAccounted(p)'
    BY <1>1, <1>6, <1>7, <1>9 DEF SentAccounted
  <2>4. QED
    BY <1>3, <1>5, <2>2, <2>3 DEF Delivered, FirstsAscend, NoDuplicates
<1>10. CASE /\ inflight'[p] = <<>>
            /\ \/ failed' = failed /\ Appended(p)
               \/ CallbacksFail(p)
  <2>1. QueuesInOrder(p)'
    BY <1>1, <1>8, <1>10, ElementsEmpty DEF QueuesInOrder, AllBelow
  <2>2. Elements(inflight[p]) \subseteq Elements(Written(p)') \cup failed'[p]
    BY <1>6, <1>7, <1>10
  <2>3. SentAccounted(p)'
    BY <1>1, <1>6, <1>7, <1>10, <2>2, ElementsEmpty DEF SentAccounted
  <2>4. QED
    BY <1>3, <1>5, <2>1, <2>3 DEF Delivered, FirstsAscend, NoDuplicates
<1>11. QED
  BY <1>9, <1>10

\* A step that leaves the producer and the history alone.
LEMMA DeliveredAside ==
  ASSUME NEW p \in Partitions, Delivered(p),
         UNCHANGED <<producer, mark, sent>>, batchStart'[p] = batchStart[p],
         pc' = pc \/ pc # "crashed"
  PROVE  Delivered(p)'
BY DeliveredStays DEF producer

\* The sender thread has nothing to do in an idle producer.
LEMMA SenderNeedsRecords ==
  ASSUME NEW p \in Partitions, Sender(p)
  PROVE  inflight[p] # <<>> \/ buffered[p] # <<>>
<1>1. CASE Drain(p)
  <2>1. PICK n \in 1..Len(buffered[p]) : TRUE
    BY <1>1 DEF Drain
  <2>2. CASE buffered[p] = <<>>
    <3>1. Len(buffered[p]) = 0
      BY <2>2
    <3>2. QED
      BY <2>1, <3>1
  <2>3. QED
    BY <2>2
<1>2. QED
  BY <1>1 DEF Sender, Ack, LoseRequest, LoseAck, Reject

\* Steps of the sender thread keep every partition's queues in order and its
\* records accounted for.
LEMMA DeliveredSender ==
  ASSUME TypeOK, NEW p \in Partitions, NEW q \in Partitions, Sender(q), Delivered(p)
  PROVE  Delivered(p)'
<1>1. UNCHANGED <<pc, mark, sent, batchStart>>
  BY DEF Sender, Drain, Ack, LoseRequest, LoseAck, Reject, window, counts, history
<1>2. CASE p # q
  <2>1. target'[p] = target[p]
    BY <1>2 DEF Sender, Drain, Ack, LoseRequest, LoseAck, Reject, Appended, TypeOK
  <2>2. /\ inflight'[p] = inflight[p] /\ buffered'[p] = buffered[p] /\ failed'[p] = failed[p]
    BY <1>2 DEF Sender, Drain, Ack, LoseRequest, LoseAck, Reject, Retry, GiveUp, BatchLeaves,
                CallbacksFail, TypeOK
  <2>3. QED
    BY <1>1, <2>1, <2>2, DeliveredStays
<1>3. CASE p = q
  <2>1. CASE Drain(p)
    BY <2>1, DeliveredDrain
  <2>2. CASE Ack(p)
    <3>1. inflight'[p] = <<>>
      BY <2>2 DEF Ack, BatchLeaves, TypeOK
    <3>2. inflight[p] # <<>> /\ Appended(p) /\ failed' = failed /\ buffered' = buffered
      BY <2>2 DEF Ack
    <3>3. QED
      BY <1>1, <3>1, <3>2, DeliveredBatch
  <2>3. CASE LoseRequest(p)
    <3>1. inflight[p] # <<>> /\ target' = target /\ buffered' = buffered
      BY <2>3 DEF LoseRequest, Retry, GiveUp
    <3>2. CASE Retry(p)
      <4>1. inflight' = inflight /\ failed' = failed
        BY <3>2 DEF Retry
      <4>2. QED
        BY <1>1, <3>1, <4>1, DeliveredBatch
    <3>3. CASE GiveUp(p)
      <4>1. inflight'[p] = <<>> /\ CallbacksFail(p)
        BY <3>3 DEF GiveUp, BatchLeaves, TypeOK
      <4>2. QED
        BY <1>1, <3>1, <4>1, DeliveredBatch
    <3>4. QED
      BY <2>3, <3>2, <3>3 DEF LoseRequest
  <2>4. CASE LoseAck(p)
    <3>1. "ack" \in Faults /\ inflight[p] # <<>> /\ Appended(p) /\ buffered' = buffered
      BY <2>4 DEF LoseAck, Retry, GiveUp
    <3>2. CASE Retry(p)
      <4>1. inflight' = inflight /\ failed' = failed
        BY <3>2 DEF Retry
      <4>2. QED
        BY <1>1, <3>1, <4>1, DeliveredBatch
    <3>3. CASE GiveUp(p)
      <4>1. inflight'[p] = <<>> /\ CallbacksFail(p)
        BY <3>3 DEF GiveUp, BatchLeaves, TypeOK
      <4>2. QED
        BY <1>1, <3>1, <4>1, DeliveredBatch
    <3>4. QED
      BY <2>4, <3>2, <3>3 DEF LoseAck
  <2>5. CASE Reject(p)
    <3>1. /\ inflight[p] # <<>> /\ target' = target /\ buffered' = buffered
          /\ inflight'[p] = <<>> /\ CallbacksFail(p)
      BY <2>5 DEF Reject, BatchLeaves, TypeOK
    <3>2. QED
      BY <1>1, <3>1, DeliveredBatch
  <2>6. QED
    BY <1>3, <2>1, <2>2, <2>3, <2>4, <2>5 DEF Sender
<1>4. QED
  BY <1>2, <1>3

\* Where the records of the other partitions are when one is handled.
LEMMA DeliveredHandle ==
  ASSUME TypeOK, CopyInv, NEW p \in Partitions, NEW q \in Partitions, HandleRecord(q), Delivered(p)
  PROVE  Delivered(p)'
<1>1. CASE p = q
  BY <1>1, DeliveredSend
<1>2. CASE p # q
  <2>1. /\ pc' = pc /\ batchStart' = batchStart /\ mark' = mark /\ target' = target
        /\ inflight' = inflight
    BY DEF HandleRecord, history
  <2>2. PICK o \in Records(q, cur[q], pos[q]) : SkipRecord(q, o) \/ SendRecord(q, o)
    BY DEF HandleRecord
  <2>3. CASE SkipRecord(q, o)
    BY <2>1, <2>3, DeliveredStays DEF SkipRecord, counts
  <2>4. CASE SendRecord(q, o)
    <3>1. sent'[p] = sent[p] /\ buffered'[p] = buffered[p] /\ failed'[p] = failed[p]
      BY <1>2, <2>4 DEF SendRecord, Accept, Refuse, TypeOK
    <3>2. QED
      BY <2>1, <3>1, DeliveredStays
  <2>5. QED
    BY <2>2, <2>3, <2>4
<1>3. QED
  BY <1>1, <1>2

\* When the windows close, and when the run ends, the producer is idle.
LEMMA SettledStep ==
  ASSUME TypeOK, Settled, [Next]_vars
  PROVE  Settled'
<1>1. CASE Source \/ UNCHANGED vars
  BY <1>1 DEF Source, Produce, Expire, Settled, ProducerIdle, vars, window, producer
<1>2. CASE Start
  BY <1>2 DEF Start, Settled, ProducerIdle
<1>3. CASE ReadEndOffsets \/ CreateTopics
  BY <1>3 DEF ReadEndOffsets, CreateTopics, Settled, ProducerIdle, producer
<1>4. CASE OpenWindow \/ PollRecords \/ RecordsDone
  BY <1>4 DEF OpenWindow, PollRecords, RecordsDone, Settled, Stopped
<1>5. CASE PollEmpty
  <2>1. pc' \in {"closing", "flush", "poll"}
    BY <1>5 DEF PollEmpty
  <2>2. QED
    BY <2>1 DEF Settled, Stopped
<1>6. ASSUME NEW p \in Partitions, HandleRecord(p) PROVE Settled'
  BY <1>6 DEF HandleRecord, Settled, Stopped
<1>7. CASE Flush \/ Close
  BY <1>7 DEF Flush, Close, Settled, ProducerIdle, producer
<1>8. CASE Finish
  BY <1>8 DEF Finish, Settled, ProducerIdle, producer, window
<1>9. CASE ClientFails \/ Crash
  BY <1>9 DEF ClientFails, Crash, Settled, ProducerIdle, Stopped
<1>10. ASSUME NEW p \in Partitions, Sender(p) PROVE Settled'
  <2>1. ~ProducerIdle
    BY <1>10, SenderNeedsRecords DEF ProducerIdle
  <2>2. pc' = pc
    BY <1>10 DEF Sender, Drain, Ack, LoseRequest, LoseAck, Reject
  <2>3. pc # "done"
    BY <2>1 DEF Settled, Stopped
  <2>4. QED
    BY <2>1, <2>2, <2>3 DEF Settled
<1>11. QED
  BY <1>1, <1>2, <1>3, <1>4, <1>5, <1>6, <1>7, <1>8, <1>9, <1>10 DEF Next, Run

\* No step of any actor puts a partition's records out of order or loses track
\* of one.
LEMMA DeliveredStep ==
  ASSUME TypeOK, CopyInv, Settled, NEW p \in Partitions, Delivered(p), [Next]_vars
  PROVE  Delivered(p)'
<1>1. CASE Source
  <2>1. PICK q \in Partitions : Produce(q) \/ Expire(q)
    BY <1>1 DEF Source
  <2>2. UNCHANGED <<producer, mark, sent, batchStart, pc>>
    BY <2>1 DEF Produce, Expire, window, counts, history
  <2>3. QED
    BY <2>2, DeliveredAside
<1>2. CASE UNCHANGED vars
  BY <1>2, DeliveredAside DEF vars, window, counts, history
<1>3. CASE Start
  BY <1>3, DeliveredFromStart
<1>4. CASE ReadEndOffsets \/ OpenWindow \/ PollRecords \/ RecordsDone \/ Finish \/ ClientFails \/ Close
  <2>1. UNCHANGED <<producer, mark, sent, batchStart>> /\ pc # "crashed"
    BY <1>4 DEF ReadEndOffsets, OpenWindow, PollRecords, RecordsDone, Finish, ClientFails, Close,
                window, counts, history
  <2>2. QED
    BY <2>1, DeliveredAside
<1>5. CASE PollEmpty
  <2>1. UNCHANGED <<producer, mark, sent, batchStart>> /\ pc # "crashed"
    BY <1>5 DEF PollEmpty, counts, history
  <2>2. QED
    BY <2>1, DeliveredAside
<1>6. CASE CreateTopics
  <2>1. UNCHANGED <<producer, mark, sent>> /\ pc = "create" /\ batchStart' = begin
    BY <1>6 DEF CreateTopics, counts, history
  <2>2. batchStart[p] = begin[p]
    BY <2>1 DEF CopyInv, RangesOrdered
  <2>3. QED
    BY <2>1, <2>2, DeliveredAside
<1>7. ASSUME NEW q \in Partitions, HandleRecord(q) PROVE Delivered(p)'
  BY <1>7, DeliveredHandle
<1>8. CASE Flush
  BY <1>8, DeliveredFlush
<1>9. CASE Crash
  BY <1>9, DeliveredCrash
<1>10. ASSUME NEW q \in Partitions, Sender(q) PROVE Delivered(p)'
  BY <1>10, DeliveredSender
<1>11. QED
  BY <1>1, <1>2, <1>3, <1>4, <1>5, <1>6, <1>7, <1>8, <1>9, <1>10 DEF Next, Run

\* In every run, under every set of faults, what is on its way to the target is
\* in order, and every record sent has arrived, was reported or is on its way.
THEOREM DeliveryInvariant == Spec => []DeliveryInv
<1>1. Init => DeliveryInv
  <2> SUFFICES ASSUME Init PROVE DeliveryInv
    OBVIOUS
  <2>1. Settled
    BY DEF Init, Settled, ProducerIdle
  <2>2. ASSUME NEW p \in Partitions PROVE Delivered(p)
    <3>1. /\ sent[p] = <<>> /\ buffered[p] = <<>> /\ inflight[p] = <<>> /\ target[p] = <<>>
          /\ failed[p] = {} /\ mark[p] = 0
      BY DEF Init
    <3>2. Len(target[p]) = 0
      BY <3>1
    <3>3. Written(p) = <<>>
      BY <3>1, <3>2, SubSeqEmpty DEF Written
    <3>4. QueuesInOrder(p) /\ SentAccounted(p)
      BY <3>1, <3>3, ElementsEmpty DEF QueuesInOrder, SentAccounted, AllBelow
    <3>5. FirstsAscend(<<>>) /\ NoDuplicates(<<>>)
      BY DEF FirstsAscend, NoDuplicates
    <3>6. QED
      BY <3>1, <3>2, <3>3, <3>4, <3>5 DEF Delivered
  <2>3. QED
    BY <2>1, <2>2, DeliveryByPartition
<1>2. TypeOK /\ CopyInv /\ DeliveryInv /\ [Next]_vars => DeliveryInv'
  <2> SUFFICES ASSUME TypeOK, CopyInv, DeliveryInv, [Next]_vars PROVE DeliveryInv'
    OBVIOUS
  <2>1. Settled /\ \A p \in Partitions : Delivered(p)
    BY DeliveryByPartition
  <2>2. Settled' /\ \A p \in Partitions : Delivered(p)'
    BY <2>1, SettledStep, DeliveredStep
  <2>3. QED
    BY <2>2 DEF DeliveryInv, Settled, Delivered, FirstCopiesInOrder, DuplicatesNeedLostAcks,
                FirstsAscend, NoDuplicates
<1>3. QED
  BY <1>1, <1>2, TypeCorrect, CopyInvariant, PTL DEF Spec

\* The three parts of the inductive invariant together.
THEOREM InductiveInvariant == Spec => []IInv
<1>1. TypeOK /\ CopyInv /\ DeliveryInv => IInv
  BY DEF IInv
<1>2. QED
  BY <1>1, TypeCorrect, CopyInvariant, DeliveryInvariant, PTL

\* Each record of a closed window is on the target or was reported as failed:
\* the windows advance only over records that have an outcome (lines 380-381).
THEOREM ClosedWindowsAreSettled == Spec => []ClosedWindowsSettled
<1>1. IInv => ClosedWindowsSettled
  <2> SUFFICES ASSUME IInv, NEW p \in Partitions, NEW i \in 1..Len(sent[p]),
                      sent[p][i] < batchStart[p],
                      sent[p][i] \notin Elements(Written(p)) \cup failed[p]
               PROVE  FALSE
    BY DEF ClosedWindowsSettled
  <2>1. SentAccounted(p)
    BY DEF IInv, DeliveryInv
  <2>2. sent[p][i] \in Elements(sent[p])
    BY DEF Elements
  <2>3. sent[p][i] >= batchStart[p]
    BY <2>1, <2>2 DEF SentAccounted
  <2>4. sent[p][i] \in Int /\ batchStart[p] \in Int
    BY <2>2, Numbers, WrittenType DEF IInv
  <2>5. QED
    BY <2>3, <2>4
<1>2. QED
  BY <1>1, InductiveInvariant, PTL

\* Retries and lost answers never let a later record overtake an earlier one on
\* the target: first copies are in offset order (lines 680-694).
THEOREM FirstCopiesAreInOrder == Spec => []FirstCopiesInOrder
<1>1. DeliveryInv => FirstCopiesInOrder
  BY DEF DeliveryInv
<1>2. QED
  BY <1>1, DeliveryInvariant, PTL

\* Only a lost answer makes a run write a record twice.
THEOREM DuplicatesComeFromLostAcks == Spec => []DuplicatesNeedLostAcks
<1>1. DeliveryInv => DuplicatesNeedLostAcks
  BY DEF DeliveryInv
<1>2. QED
  BY <1>1, DeliveryInvariant, PTL

\* A run that exits 0 has written or reported every record of the snapshot that
\* the source still holds.
THEOREM ExitZeroIsAccountedFor == Spec => []ExitZeroAccountsForAll
<1>1. IInv => ExitZeroAccountsForAll
  <2> SUFFICES ASSUME IInv, pc = "done", NEW p \in Partitions,
                      NEW o \in Records(p, begin[p], end[p]), o >= logStart[p]
               PROVE  o \in Elements(Written(p)) \cup failed[p]
    BY DEF ExitZeroAccountsForAll
  <2>1. p \in completed /\ ProducerIdle
    BY DEF IInv, DeliveryInv, Stopped
  <2>2. CopiedBelow(p, end[p])
    BY <2>1 DEF IInv, CopyInv, CopiedBelowFrontier
  <2>3. o \in Elements(sent[p])
    BY <2>2 DEF CopiedBelow
  <2>4. Elements(inflight[p]) = {} /\ Elements(buffered[p]) = {}
    BY <2>1, ElementsEmpty DEF ProducerIdle
  <2>5. QED
    BY <2>3, <2>4 DEF IInv, DeliveryInv, SentAccounted
<1>2. QED
  BY <1>1, InductiveInvariant, PTL
-----------------------------------------------------------------------------
(* The refinement of SnapshotCopy.                                         *)

\* What the sender thread does is not seen from outside the run.
LEMMA SenderStutters ==
  ASSUME NEW p \in Partitions, Sender(p)
  PROVE  UNCHANGED Copy!vars
<1>1. UNCHANGED <<source, pc, snapshot, counts>>
  BY DEF Sender, Drain, Ack, LoseRequest, LoseAck, Reject
<1>2. QED
  BY <1>1 DEF Copy!vars, Status, source, snapshot, counts

\* Retention is the deletion of the specification.
LEMMA SourceDeletes ==
  ASSUME TypeOK, NEW p \in Partitions, Produce(p) \/ Expire(p)
  PROVE  Copy!Delete(p) \/ UNCHANGED Copy!vars
<1>1. UNCHANGED <<pc, snapshot, counts>>
  BY DEF Produce, Expire
<1>2. UNCHANGED <<Status, begin, end, sent>>
  BY <1>1 DEF Status, snapshot, counts
<1>3. CASE Produce(p)
  BY <1>2, <1>3 DEF Produce, Copy!vars
<1>4. CASE Expire(p)
  <2>1. /\ logStart[p] \in Nat /\ logEnd[p] \in 0..MaxOffset /\ logStart[p] < logEnd[p]
        /\ MaxOffset \in Nat
    BY <1>4, ConstantsAssumption DEF TypeOK, Offsets, Expire
  <2>2. logStart[p] + 1 \in (logStart[p] + 1)..MaxOffset
    BY <2>1
  <2>3. logStart' = [logStart EXCEPT ![p] = logStart[p] + 1]
    BY <1>4 DEF Expire
  <2>4. QED
    BY <1>2, <2>2, <2>3 DEF Copy!Delete
<1>5. QED
  BY <1>3, <1>4

\* A sent record is the next one of the specification: what is below it was copied
\* or is deleted.
LEMMA HandleRecordCopies ==
  ASSUME TypeOK, CopyInv, NEW p \in Partitions, HandleRecord(p)
  PROVE  Copy!Copy(p) \/ UNCHANGED Copy!vars
<1>1. PICK o \in Records(p, cur[p], pos[p]) :
        /\ \A q \in Records(p, cur[p], pos[p]) : o <= q
        /\ SkipRecord(p, o) \/ SendRecord(p, o)
  BY DEF HandleRecord
<1>2. /\ pc = "records" /\ p \in active /\ RangesOrdered(p) /\ SentBelowFrontier(p)
      /\ CopiedBelowFrontier(p) /\ UNCHANGED <<logStart, Status, begin, end>>
  BY DEF HandleRecord, CopyInv, Status, source, snapshot
<1>3. CASE SkipRecord(p, o)
  BY <1>2, <1>3 DEF SkipRecord, counts, Copy!vars
<1>4. CASE SendRecord(p, o)
  <2>1. /\ begin[p] \in Nat /\ end[p] \in Nat /\ cur[p] \in Nat /\ pos[p] \in Nat /\ logStart[p] \in Nat
        /\ WindowEnd(p) \in Nat /\ WindowEnd(p) <= end[p]
        /\ begin[p] <= batchStart[p] /\ batchStart[p] <= cur[p] /\ batchStart[p] \in Nat
        /\ cur[p] <= pos[p]
    BY <1>2, Numbers, WindowEndType DEF RangesOrdered
  <2>2. /\ o \in Nat /\ cur[p] <= o /\ o < pos[p] /\ o \notin Gaps[p] /\ o < WindowEnd(p)
        /\ sent' = [sent EXCEPT ![p] = Append(@, o)]
    BY <1>1, <1>4, <2>1 DEF Records, SendRecord
  <2>3. Frontier(p) = cur[p]
    BY <1>2, <2>1, <2>2 DEF Frontier, AtMost, Stopped
  <2>4. o \in Copy!RecordsOf(p, begin[p], end[p])
    BY <2>1, <2>2 DEF Copy!RecordsOf
  <2>5. \A i \in 1..Len(sent[p]) : sent[p][i] < o
    <3>1. \A i \in 1..Len(sent[p]) : sent[p][i] \in Records(p, begin[p], cur[p])
      BY <1>2, <2>3 DEF SentBelowFrontier
    <3>2. \A x \in Records(p, begin[p], cur[p]) : x \in Nat /\ x < cur[p]
      BY <2>1 DEF Records
    <3>3. ASSUME NEW i \in 1..Len(sent[p]) PROVE sent[p][i] < o
      <4>1. sent[p][i] \in Nat /\ sent[p][i] < cur[p]
        BY <3>1, <3>2
      <4>2. cur[p] \in Nat /\ o \in Nat /\ cur[p] <= o
        BY <2>1, <2>2
      <4>3. QED
        BY <4>1, <4>2
    <3>4. QED
      BY <3>3
  <2>6. Copy!NothingLeftBelow(p, o)
    <3>1. SUFFICES ASSUME NEW x \in Copy!RecordsOf(p, begin[p], o), x >= logStart[p]
                   PROVE  x \in Elements(sent[p])
      BY DEF Copy!NothingLeftBelow, Copy!CopiedSet, Elements
    <3>2. x \in Nat /\ begin[p] <= x /\ x < o /\ x \notin Gaps[p]
      BY <2>1, <2>2, <3>1 DEF Copy!RecordsOf
    <3>3. x < cur[p]
      BY <1>1, <2>1, <2>2, <3>2 DEF Records
    <3>4. CopiedBelow(p, cur[p])
      BY <1>2, <2>3 DEF CopiedBelowFrontier, Copying
    <3>5. QED
      BY <2>1, <3>1, <3>2, <3>3, <3>4 DEF CopiedBelow, Records
  <2>7. Status = "copying"
    BY <1>2 DEF Status
  <2>8. QED
    BY <1>2, <2>2, <2>4, <2>5, <2>6, <2>7 DEF Copy!Copy
<1>5. QED
  BY <1>1, <1>3, <1>4

\* Each step of a run is a step of the specification or none.
THEOREM Implements == Spec => ImplementsSnapshotCopy
<1>1. Init => Copy!Init
  BY DEF Init, Copy!Init, Status
<1>2. IInv /\ [Next]_vars => [Copy!Next]_(Copy!vars)
  <2> SUFFICES ASSUME IInv, [Next]_vars PROVE Copy!Next \/ UNCHANGED Copy!vars
    OBVIOUS
  <2>0. TypeOK /\ CopyInv
    BY DEF IInv
  <2>1. CASE Source
    BY <2>0, <2>1, SourceDeletes DEF Source, Copy!Next
  <2>2. CASE Start
    <3>1. Status \in {"idle", "succeeded", "stopped"} /\ Status' = "opening"
      BY <2>2 DEF Start, Status, Stopped
    <3>2. QED
      BY <2>2, <3>1 DEF Start, source, Copy!Open, Copy!Next
  <2>3. CASE ReadEndOffsets
    <3>1. Status = "opening" /\ Status' = "copying"
      BY <2>3 DEF ReadEndOffsets, Status
    <3>2. end' \in [Partitions -> 0..MaxOffset] /\ \A p \in Partitions : begin[p] <= end'[p]
      <4>1. end' = logEnd
        BY <2>3 DEF ReadEndOffsets
      <4>2. \A p \in Partitions : begin[p] <= logEnd[p]
        BY <2>0, Numbers DEF CopyInv, RangesOrdered
      <4>3. QED
        BY <2>0, <4>1, <4>2 DEF TypeOK, Offsets
    <3>3. UNCHANGED <<logStart, begin, sent>>
      BY <2>3 DEF ReadEndOffsets, source, counts
    <3>4. QED
      BY <3>1, <3>2, <3>3 DEF Copy!FixRange, Copy!Next
  <2>4. CASE CreateTopics \/ OpenWindow \/ PollRecords \/ PollEmpty \/ RecordsDone \/ Flush
    <3>1. UNCHANGED <<logStart, begin, end, sent>>
      BY <2>4 DEF CreateTopics, OpenWindow, PollRecords, PollEmpty, RecordsDone, Flush,
                  source, snapshot, counts
    <3>2. pc' \in {"window", "poll", "records", "flush", "closing"}
      BY <2>4 DEF CreateTopics, OpenWindow, PollRecords, PollEmpty, RecordsDone, Flush
    <3>3. pc \in {"create", "window", "poll", "records", "flush"}
      BY <2>4 DEF CreateTopics, OpenWindow, PollRecords, PollEmpty, RecordsDone, Flush
    <3>4. Status = "copying" /\ Status' = "copying"
      BY <3>2, <3>3 DEF Status
    <3>5. QED
      BY <3>1, <3>4 DEF Copy!vars
  <2>5. ASSUME NEW p \in Partitions, HandleRecord(p) PROVE Copy!Next \/ UNCHANGED Copy!vars
    BY <2>0, <2>5, HandleRecordCopies DEF Copy!Next
  <2>6. CASE Finish
    <3>1. UNCHANGED <<logStart, begin, end, sent>> /\ Status = "copying" /\ Status' = "succeeded"
      BY <2>6 DEF Finish, source, snapshot, counts, Status
    <3>2. \A p \in Partitions : CopiedBelow(p, end[p])
      BY <2>0, <2>6 DEF Finish, CopyInv, CopiedBelowFrontier
    <3>3. \A p \in Partitions : Copy!NothingLeftBelow(p, end[p])
      BY <3>2 DEF CopiedBelow, Records, Elements, Copy!NothingLeftBelow, Copy!RecordsOf, Copy!CopiedSet
    <3>4. QED
      BY <3>1, <3>3 DEF Copy!Succeed, Copy!Next
  <2>7. CASE ClientFails
    <3>1. UNCHANGED <<logStart, begin, end, sent>> /\ Status' = "copying"
      BY <2>7 DEF ClientFails, source, snapshot, counts, Status
    <3>2. CASE pc = "snapshot"
      <4>1. Status = "opening"
        BY <3>2 DEF Status
      <4>2. \A p \in Partitions : begin[p] <= end[p]
        BY <2>0, FrontierBounds, Numbers DEF CopyInv
      <4>3. end' \in [Partitions -> 0..MaxOffset]
        BY <2>0, <3>1 DEF TypeOK, Offsets
      <4>4. QED
        BY <3>1, <4>1, <4>2, <4>3 DEF Copy!FixRange, Copy!Next
    <3>3. CASE pc # "snapshot"
      <4>1. Status = "copying"
        BY <2>7, <3>3 DEF ClientFails, Status
      <4>2. QED
        BY <3>1, <4>1 DEF Copy!vars
    <3>4. QED
      BY <3>2, <3>3
  <2>8. CASE Close \/ Crash
    <3>1. UNCHANGED <<logStart, begin, end, sent>>
      BY <2>8 DEF Close, Crash, source, snapshot, counts
    <3>2. Status \in {"opening", "copying"} /\ Status' = "stopped"
      BY <2>8 DEF Close, Crash, Status, Running
    <3>3. QED
      BY <3>1, <3>2 DEF Copy!Stop, Copy!Next
  <2>9. ASSUME NEW p \in Partitions, Sender(p) PROVE UNCHANGED Copy!vars
    BY <2>9, SenderStutters
  <2>10. CASE UNCHANGED vars
    BY <2>10 DEF vars, source, snapshot, counts, Copy!vars, Status
  <2>11. QED
    BY <2>1, <2>2, <2>3, <2>4, <2>5, <2>6, <2>7, <2>8, <2>9, <2>10 DEF Next, Run
<1>3. QED
  BY <1>1, <1>2, InductiveInvariant, PTL DEF Spec, ImplementsSnapshotCopy, Copy!Spec

-----------------------------------------------------------------------------
(* The setup of the target (TargetTopics), for any topics, sizes and       *)
(* interference.                                                           *)

\* The initial state knows nothing of either cluster.
LEMMA SetupInitially == SetupInit => SetupIInv
  BY SetupAssumption DEF SetupInit, SetupIInv, SetupTypeOK, SetupInv

\* The steps of discoverSourceTopics and the offsets keep the invariant.
LEMMA DiscoverKeeps ==
  ASSUME SetupIInv, ListTopics \/ DescribeTopics \/ ReadOffsets PROVE SetupIInv'
<1> USE SetupAssumption DEF SetupIInv, SetupTypeOK, SetupInv, Admitted, clusters, plan
<1>1. CASE ListTopics
  BY <1>1 DEF ListTopics
<1>2. CASE DescribeTopics
  <2>1. \A t \in listed : onSource[t] \in Sizes \ {0}
    BY <1>2 DEF DescribeTopics, Existing, Goto, Sizes
  <2>2. described' \in [listed -> Sizes \ {0}]
    BY <1>2, <2>1 DEF DescribeTopics
  <2>3. QED
    BY <1>2, <2>2 DEF DescribeTopics, Goto
<1>3. CASE ReadOffsets
  BY <1>3 DEF ReadOffsets, Goto
<1>4. QED
  BY <1>1, <1>2, <1>3

\* Listing the target splits the topics into those there and those to create.
LEMMA ListTargetKeeps == ASSUME SetupIInv, ListTarget PROVE SetupIInv'
<1> USE SetupAssumption DEF SetupIInv, SetupTypeOK, SetupInv, Admitted, clusters, plan
<1>1. \A t \in listed \ Missing : onTarget[t] > 0
  BY DEF Missing, Existing
<1>2. SetupTypeOK'
  BY DEF ListTarget, Missing
<1>3. /\ Missing \subseteq listed /\ toCreate' = Missing
      /\ results' = [t \in Missing |-> "pending"]
      /\ UNCHANGED <<onTarget, described, listed, dryRun>> /\ ~dryRun /\ DOMAIN described = listed
      /\ stage' = IF Missing = {} THEN "copy" ELSE "create"
  BY DEF ListTarget, Missing
<1>4. SetupInv'
  <2> HIDE DEF Missing
  <2>1. CASE Missing = {}
    BY <1>1, <1>3, <2>1
  <2>2. CASE Missing # {}
    BY <1>1, <1>3, <2>2
  <2>3. QED
    BY <2>1, <2>2
<1>5. QED
  BY <1>2, <1>4

\* Handling one topic of the request keeps the invariant.
LEMMA HandleKeeps ==
  ASSUME SetupIInv, NEW t \in Topics, CreateTopic(t) \/ FindTopic(t) \/ RefuseTopic(t) PROVE SetupIInv'
<1> USE SetupAssumption DEF SetupIInv, SetupTypeOK, SetupInv, Admitted, clusters, plan
<1>1. stage = "create" /\ t \in toCreate /\ t \in listed /\ DOMAIN described = listed
  BY DEF CreateTopic, FindTopic, RefuseTopic, Pending
<1>2. described[t] \in Sizes \ {0}
  BY <1>1
<1>3. CASE CreateTopic(t)
  <2>1. onTarget' = [onTarget EXCEPT ![t] = described[t]] /\ onTarget[t] = 0
    BY <1>3 DEF CreateTopic, NewPartitions
  <2>2. onTarget' \in [Topics -> Sizes]
    BY <1>2, <2>1
  <2>3. \A u \in Topics : onTarget'[u] >= onTarget[u]
    BY <1>2, <2>1, <2>2 DEF Sizes
  <2>4. onTarget'[t] = described[t] /\ onTarget'[t] > 0
    BY <1>2, <2>1 DEF Sizes
  <2>5. SetupTypeOK'
    BY <1>3, <2>2 DEF CreateTopic
  <2>6. \A u \in toCreate : u # t => results'[u] = results[u]
    BY <1>3 DEF CreateTopic
  <2>7. /\ \A u \in toCreate : u \in Topics /\ onTarget[u] \in Nat /\ onTarget'[u] \in Nat
        /\ \A u \in listed : u \in Topics /\ onTarget[u] \in Nat /\ described[u] \in Nat
    BY <1>1, <2>2 DEF Sizes
  <2>8. SetupInv'
    BY <1>1, <1>3, <2>3, <2>4, <2>6, <2>7 DEF CreateTopic
  <2>9. QED
    BY <2>5, <2>8
<1>4. CASE FindTopic(t)
  BY <1>1, <1>4 DEF FindTopic
<1>5. CASE RefuseTopic(t)
  BY <1>1, <1>5 DEF RefuseTopic
<1>6. QED
  BY <1>3, <1>4, <1>5

\* The other clients only add to what the tool found on the target.
LEMMA OthersKeep == ASSUME SetupIInv, ChangeSource \/ ChangeTarget PROVE SetupIInv'
<1> USE SetupAssumption DEF SetupIInv, SetupTypeOK, SetupInv, Admitted, clusters, plan
<1>1. CASE ChangeSource
  BY <1>1 DEF ChangeSource
<1>2. CASE ChangeTarget
  <2>1. onTarget' \in [Topics -> Sizes] /\ \A u \in Topics : onTarget'[u] >= onTarget[u]
    BY <1>2 DEF ChangeTarget, Sizes
  <2>2. SetupTypeOK'
    BY <1>2, <2>1 DEF ChangeTarget
  <2>3. /\ \A u \in toCreate : u \in Topics /\ onTarget[u] \in Nat /\ onTarget'[u] \in Nat
        /\ \A u \in listed : u \in Topics /\ onTarget[u] \in Nat /\ onTarget'[u] \in Nat
    BY <2>1 DEF Sizes
  <2>4. stage \in {"create", "copy"} => \A u \in toCreate : described[u] \in Nat
    BY DEF Sizes
  <2>5. SetupInv'
    BY <1>2, <2>1, <2>3, <2>4 DEF ChangeTarget
  <2>6. QED
    BY <2>2, <2>5
<1>3. QED
  BY <1>1, <1>2

\* Types and progress are invariant.
THEOREM SetupInvariant == SetupSpec => []SetupIInv
<1>1. SetupIInv /\ [SetupNext]_setupVars => SetupIInv'
  <2> SUFFICES ASSUME SetupIInv, [SetupNext]_setupVars PROVE SetupIInv'
    OBVIOUS
  <2>1. CASE Created \/ NotCreated \/ CallFails \/ Rerun
    <3> USE SetupAssumption DEF SetupIInv, SetupTypeOK, SetupInv, clusters, plan
    <3>1. CASE Created
      BY <3>1 DEF Created, Reports
    <3>2. CASE NotCreated \/ CallFails
      BY <3>2 DEF NotCreated, CallFails
    <3>3. CASE Rerun
      BY <3>3 DEF Rerun
    <3>4. QED
      BY <2>1, <3>1, <3>2, <3>3
  <2>2. CASE UNCHANGED setupVars
    BY <2>2 DEF setupVars, clusters, plan, SetupIInv, SetupTypeOK, SetupInv
  <2>3. QED
    BY <2>1, <2>2, DiscoverKeeps, ListTargetKeeps, HandleKeeps, OthersKeep DEF SetupNext, Call, Handle
<1>2. QED
  BY <1>1, SetupInitially, PTL DEF SetupSpec

\* Unless a topic was reported as existing, the copy finds every topic on the
\* target, with the partitions it needs where this run created it.
THEOREM CopyIsPrepared == SetupSpec => []CopyFindsTopics
<1>1. SetupIInv => CopyFindsTopics
  BY DEF SetupIInv, SetupTypeOK, SetupInv, CopyFindsTopics, Admitted
<1>2. QED
  BY <1>1, SetupInvariant, PTL

\* Only a refusal hidden behind an existing topic leaves a topic missing.
THEOREM MaskedRefusalsOnly == SetupSpec => []OnlyMaskedRefusals
<1>1. SetupIInv => OnlyMaskedRefusals
  BY DEF SetupIInv, SetupTypeOK, SetupInv, OnlyMaskedRefusals, Sizes
<1>2. QED
  BY <1>1, SetupInvariant, PTL

\* The tool adds to the target what it described, and only that.
THEOREM AddsOnlyMissing == SetupSpec => AddsOnlyMissingTopics
<1>1. SetupIInv /\ [SetupNext]_setupVars =>
        [\A t \in Topics : onTarget'[t] # onTarget[t] =>
           \/ changes' = changes + 1
           \/ /\ ~dryRun /\ t \in Matching /\ (t \in Internal => IncludeInternal)
              /\ onTarget[t] = 0 /\ onTarget'[t] = described[t]]_setupVars
  <2> SUFFICES ASSUME SetupTypeOK, SetupInv, SetupNext, NEW t \in Topics, onTarget'[t] # onTarget[t]
               PROVE  \/ changes' = changes + 1
                      \/ /\ ~dryRun /\ t \in Matching /\ (t \in Internal => IncludeInternal)
                         /\ onTarget[t] = 0 /\ onTarget'[t] = described[t]
    BY DEF SetupIInv
  <2>1. CASE ChangeTarget
    BY <2>1 DEF ChangeTarget
  <2>2. ASSUME NEW u \in Topics, CreateTopic(u)
        PROVE  /\ ~dryRun /\ t \in Matching /\ (t \in Internal => IncludeInternal)
               /\ onTarget[t] = 0 /\ onTarget'[t] = described[t]
    <3>1. stage = "create" /\ u \in toCreate /\ u \in listed
      BY <2>2 DEF CreateTopic, Pending, SetupTypeOK
    <3>2. onTarget' = [onTarget EXCEPT ![u] = described[u]] /\ onTarget[u] = 0
      BY <2>2 DEF CreateTopic, NewPartitions
    <3>3. t = u
      BY <3>2 DEF SetupTypeOK
    <3>4. QED
      BY <3>1, <3>2, <3>3 DEF SetupTypeOK, SetupInv, Admitted
  <2>3. QED
    BY <2>1, <2>2
    DEF SetupNext, Call, Handle, clusters, plan, ListTopics, DescribeTopics, ReadOffsets,
        ListTarget, Created, NotCreated, CallFails, FindTopic, RefuseTopic, Rerun, ChangeSource
<1>2. QED
  BY <1>1, SetupInvariant, PTL DEF SetupSpec, AddsOnlyMissingTopics
=============================================================================
