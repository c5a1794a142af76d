--------------------------- MODULE DemoServersProofs ---------------------------
(* What holds of the start and stop scripts for any number of servers, any  *)
(* process ids and any number of runs and interruptions.                    *)
EXTENDS DemoServers, FiniteSetTheorems, TLAPS

USE ConstantsAssumption DEF Servers, NoPid, Orphans, Free, Other, IsServer, Up

LEMMA InitTypes ==
  ASSUME Init PROVE TypeOK
<1>1. realm \in {0, N} \cup Shapes
  BY DEF Init
<1>2. clean \in BOOLEAN
  BY DEF Init
<1>3. proc \in [Pids -> 0..(N + 1)] /\ port \in [Servers -> Pids \cup {NoPid, Orphans}]
  BY DEF Init
<1>4. QED
  BY <1>1, <1>2, <1>3 DEF Init, TypeOK

\* A step keeps the types.
LEMMA StepTypes ==
  ASSUME TypeOK, ScriptInv, [Next]_vars PROVE TypeOK'
<1> USE DEF TypeOK, script, waiting, cluster
<1>1. CASE Operator
  <2>1. CASE Start
    BY <2>1 DEF Start, Command
  <2>2. CASE Stop
    BY <2>2 DEF Stop, Command
  <2>3. CASE Wait
    BY <2>3 DEF Wait, Command
  <2>4. CASE AdminStop
    <3>1. clean' \in BOOLEAN /\ joined' \subseteq Servers
      BY <2>4 DEF AdminStop
    <3>2. proc' \in [Pids -> 0..(N + 1)] /\ port' \in [Servers -> Pids \cup {NoPid, Orphans}]
      BY <2>4 DEF AdminStop
    <3>3. QED
      BY <2>4, <3>1, <3>2 DEF AdminStop
  <2>5. CASE CleanUp
    BY <2>5 DEF CleanUp
  <2>6. CASE Interrupt
    <3>1. clean' \in BOOLEAN /\ lost' \subseteq Pids
      BY <2>6 DEF Interrupt
    <3>2. QED
      BY <2>6, <3>1 DEF Interrupt
  <2>7. QED
    BY <1>1, <2>1, <2>2, <2>3, <2>4, <2>5, <2>6 DEF Operator
<1>2. CASE ScriptStep
  <2>1. CASE KillNext
    <3>1. PICK p \in todo : Kill(p) /\ todo' = todo \ {p} /\ clean' = (clean /\ ~IsServer(p))
      BY <2>1 DEF KillNext
    <3>2. clean' \in BOOLEAN
      BY <3>1
    <3>3. p \in Pids
      OBVIOUS
    <3>4. /\ proc' \in [Pids -> 0..(N + 1)] /\ dying' \subseteq Pids
          /\ port' \in [Servers -> Pids \cup {NoPid, Orphans}] /\ joined' \subseteq Servers
      <4>1. CASE KillFsk(p)
        <5>1. proc' = [proc EXCEPT ![p] = Free] /\ dying' = dying
          BY <4>1 DEF KillFsk
        <5>2. /\ port' = port \/ port' = [port EXCEPT ![proc[p]] = Orphans]
              /\ joined' \subseteq joined
          BY <4>1 DEF KillFsk
        <5>3. proc' \in [Pids -> 0..(N + 1)] /\ dying' \subseteq Pids
          BY <5>1
        <5>4. proc[p] \in 0..(N + 1) => port' \in [Servers -> Pids \cup {NoPid, Orphans}]
          BY <5>2
        <5>5. QED
          BY <3>3, <5>2, <5>3, <5>4
      <4>2. CASE KillKafka(p)
        BY <3>3, <4>2 DEF KillKafka
      <4>3. QED
        BY <3>1, <4>1, <4>2 DEF Kill
    <3>5. QED
      BY <2>1, <3>1, <3>2, <3>4 DEF KillNext
  <2>2. CASE FinishStop
    BY <2>2 DEF FinishStop
  <2>3. CASE Emptied
    BY <2>3 DEF Emptied
  <2>4. CASE Launch
    BY <2>4 DEF Launch
  <2>5. CASE Record
    <3>1. pending \in Pids /\ next' \in 1..(N + 1)
      BY <2>5 DEF Record, ScriptInv
    <3>2. QED
      BY <2>5, <3>1 DEF Record
  <2>6. CASE Launched
    BY <2>6 DEF Launched
  <2>7. CASE Poll
    <3>1. PICK d \in 0..MaxPoll : PollReady(d) \/ PollAgain(d) \/ PollAborts(d)
      BY <2>7 DEF Poll
    <3>2. spent + d \in Nat
      OBVIOUS
    <3>3. CASE PollReady(d)
      BY <3>2, <3>3 DEF PollReady
    <3>4. CASE PollAgain(d)
      BY <3>2, <3>4 DEF PollAgain
    <3>5. CASE PollAborts(d)
      BY <3>2, <3>5 DEF PollAborts
    <3>6. QED
      BY <3>1, <3>3, <3>4, <3>5
  <2>8. CASE Sleep
    BY <2>8 DEF Sleep
  <2>9. QED
    BY <1>2, <2>1, <2>2, <2>3, <2>4, <2>5, <2>6, <2>7, <2>8 DEF ScriptStep
<1>3. ASSUME NEW p \in Pids, ServerStep(p) \/ StartOther(p) PROVE TypeOK'
  <2>1. CASE Boot(p)
    BY <2>1 DEF Boot
  <2>2. CASE FailToBind(p)
    BY <2>2 DEF FailToBind
  <2>3. CASE ShutDown(p)
    BY <2>3 DEF ShutDown
  <2>4. CASE StartOther(p)
    BY <2>4 DEF StartOther
  <2>5. QED
    BY <1>3, <2>1, <2>2, <2>3, <2>4 DEF ServerStep
<1>4. ASSUME NEW k \in Servers, Join(k) PROVE TypeOK'
  BY <1>4 DEF Join
<1>5. CASE UNCHANGED vars
  BY <1>5 DEF vars
<1>6. QED
  BY <1>1, <1>2, <1>3, <1>4, <1>5 DEF Next

\* A step keeps what the script has still to do.
LEMMA StepScript ==
  ASSUME TypeOK, ScriptInv, [Next]_vars PROVE ScriptInv'
<1> USE DEF ScriptInv, script, waiting, cluster
<1>1. CASE Operator
  <2>1. CASE Start \/ Stop \/ Wait
    BY <1>1, <2>1 DEF Start, Stop, Wait, Command
  <2>2. CASE AdminStop \/ CleanUp \/ Interrupt
    BY <1>1, <2>2 DEF AdminStop, CleanUp, Interrupt
  <2>3. QED
    BY <1>1, <2>1, <2>2 DEF Operator
<1>2. CASE ScriptStep
  <2>1. CASE KillNext
    <3>1. PICK p \in todo : Kill(p) /\ todo' = todo \ {p}
      BY <2>1 DEF KillNext
    <3>2. ASSUME NEW q \in recorded \ (todo \ {p}), proc'[q] \in Servers PROVE q \in dying'
      <4>1. p \in Pids /\ q \in Pids
        BY DEF TypeOK
      <4>2. CASE KillFsk(p)
        BY <2>1, <3>2, <4>1, <4>2 DEF KillFsk, KillNext, TypeOK
      <4>3. CASE KillKafka(p)
        BY <2>1, <3>2, <4>1, <4>3 DEF KillKafka, KillNext, TypeOK
      <4>4. QED
        BY <3>1, <4>2, <4>3 DEF Kill
    <3>3. QED
      BY <2>1, <3>1, <3>2 DEF KillNext
  <2>2. CASE FinishStop \/ Emptied
    BY <2>2 DEF FinishStop, Emptied
  <2>6. CASE Launched
    <3>1. pending = NoPid
      BY <2>6 DEF Launched, TypeOK
    <3>2. QED
      BY <2>6, <3>1 DEF Launched
  <2>3. CASE Launch \/ Record
    BY <2>3 DEF Launch, Record, TypeOK
  <2>4. CASE Poll \/ Sleep
    <3>1. todo' = todo /\ recorded' = recorded /\ pending' = pending /\ next' = next
      BY <2>4 DEF Poll, PollReady, PollAgain, PollAborts, Sleep
    <3>2. step \in {"poll", "sleep"} /\ step' \in {"none", "poll", "sleep"}
      BY <2>4 DEF Poll, PollReady, PollAgain, PollAborts, Sleep
    <3>3. QED
      BY <3>1, <3>2
  <2>5. QED
    BY <1>2, <2>1, <2>2, <2>3, <2>4, <2>6 DEF ScriptStep
<1>3. ASSUME NEW p \in Pids, ServerStep(p) \/ StartOther(p) PROVE ScriptInv'
  <2>1. CASE Boot(p)
    BY <2>1 DEF Boot
  <2>2. CASE FailToBind(p) \/ ShutDown(p)
    <3>1. proc' = [proc EXCEPT ![p] = Free] /\ dying' = dying \ {p}
      BY <2>2 DEF FailToBind, ShutDown
    <3>2. UNCHANGED <<recorded, step, todo, next, pending, lost>>
      BY <2>2 DEF FailToBind, ShutDown
    <3>3. \A q \in Pids : proc'[q] \in Servers => q # p /\ proc[q] \in Servers
      BY <3>1 DEF TypeOK
    <3>4. QED
      BY <3>1, <3>2, <3>3 DEF TypeOK
  <2>3. CASE StartOther(p)
    BY <2>3 DEF StartOther, FreePids, TypeOK
  <2>4. QED
    BY <1>3, <2>1, <2>2, <2>3 DEF ServerStep
<1>4. ASSUME NEW k \in Servers, Join(k) PROVE ScriptInv'
  BY <1>4 DEF Join
<1>5. CASE UNCHANGED vars
  BY <1>5 DEF vars
<1>6. QED
  BY <1>1, <1>2, <1>3, <1>4, <1>5 DEF Next

\* A step loses no server.
LEMMA StepRecorded ==
  ASSUME TypeOK, ScriptInv, EveryServerRecorded, [Next]_vars PROVE EveryServerRecorded'
<1> USE DEF EveryServerRecorded, ScriptInv, script, waiting, cluster
<1>1. CASE Operator
  <2>1. CASE Start \/ Stop \/ Wait
    BY <1>1, <2>1 DEF Start, Stop, Wait, Command
  <2>2. CASE AdminStop
    BY <2>2 DEF AdminStop, TypeOK
  <2>3. CASE CleanUp \/ Interrupt
    BY <2>3 DEF CleanUp, Interrupt
  <2>4. QED
    BY <1>1, <2>1, <2>2, <2>3 DEF Operator
<1>2. CASE ScriptStep
  <2>1. CASE KillNext
    <3>1. PICK p \in todo : Kill(p)
      BY <2>1 DEF KillNext
    <3>2. UNCHANGED <<recorded, pending, lost>>
      BY <2>1 DEF KillNext
    <3>3. ASSUME NEW q \in Pids, proc'[q] \in Servers PROVE proc[q] \in Servers
      <4>1. proc' = proc \/ proc' = [proc EXCEPT ![p] = Free]
        BY <3>1 DEF Kill, KillFsk, KillKafka
      <4>2. QED
        BY <3>3, <4>1 DEF TypeOK
    <3>4. dying \subseteq dying'
      BY <3>1 DEF Kill, KillFsk, KillKafka
    <3>5. QED
      BY <3>2, <3>3, <3>4
  <2>2. CASE FinishStop \/ Emptied
    BY <2>2 DEF FinishStop, Emptied, TypeOK
  <2>3. CASE Launch
    BY <2>3 DEF Launch, TypeOK
  <2>4. CASE Record \/ Launched
    BY <2>4 DEF Record, Launched
  <2>5. CASE Poll \/ Sleep
    BY <2>5 DEF Poll, PollReady, PollAgain, PollAborts, Sleep
  <2>6. QED
    BY <1>2, <2>1, <2>2, <2>3, <2>4, <2>5 DEF ScriptStep
<1>3. ASSUME NEW p \in Pids, ServerStep(p) \/ StartOther(p) PROVE EveryServerRecorded'
  <2>1. CASE Boot(p)
    BY <2>1 DEF Boot
  <2>2. CASE FailToBind(p) \/ ShutDown(p)
    <3>1. proc' = [proc EXCEPT ![p] = Free] /\ dying' = dying \ {p}
      BY <2>2 DEF FailToBind, ShutDown
    <3>2. UNCHANGED <<recorded, step, todo, next, pending, lost>>
      BY <2>2 DEF FailToBind, ShutDown
    <3>3. \A q \in Pids : proc'[q] \in Servers => q # p /\ proc[q] \in Servers
      BY <3>1 DEF TypeOK
    <3>4. QED
      BY <3>1, <3>2, <3>3 DEF TypeOK
  <2>3. CASE StartOther(p)
    BY <2>3 DEF StartOther, FreePids, TypeOK
  <2>4. QED
    BY <1>3, <2>1, <2>2, <2>3 DEF ServerStep
<1>4. ASSUME NEW k \in Servers, Join(k) PROVE EveryServerRecorded'
  BY <1>4 DEF Join
<1>5. CASE UNCHANGED vars
  BY <1>5 DEF vars
<1>6. QED
  BY <1>1, <1>2, <1>3, <1>4, <1>5 DEF Next

\* A step keeps what a clean start has brought about.
LEMMA StepClean ==
  ASSUME TypeOK, CleanInv, [Next]_vars PROVE CleanInv'
<1> USE DEF CleanInv, script, waiting, cluster
<1>1. CASE Operator
  <2>1. CASE Start \/ Stop \/ Wait
    BY <1>1, <2>1 DEF Start, Stop, Wait, Command
  <2>2. CASE AdminStop
    BY <2>2 DEF AdminStop, TypeOK
  <2>3. CASE CleanUp
    BY <2>3 DEF CleanUp
  <2>4. CASE Interrupt
    BY <2>4 DEF Interrupt
  <2>5. QED
    BY <1>1, <2>1, <2>2, <2>3, <2>4 DEF Operator
<1>2. CASE ScriptStep
  <2>1. CASE KillNext
    <3>1. PICK p \in todo : Kill(p) /\ p \in Pids /\ clean' = (clean /\ ~IsServer(p))
      BY <2>1 DEF KillNext, TypeOK
    <3>2. UNCHANGED <<system, realm, step, verdict>>
      BY <2>1 DEF KillNext, waiting
    <3>3. CASE system = "fsk"
      <4>1. dying' = dying /\ joined' \subseteq joined
        BY <3>1, <3>3 DEF Kill, KillFsk
      <4>2. IF IsServer(p) THEN port' = port \/ port' = [port EXCEPT ![proc[p]] = Orphans]
                           ELSE port' = port
        BY <3>1, <3>3 DEF Kill, KillFsk
      <4>3. \A k \in joined' : port'[k] # NoPid
        BY <4>1, <4>2 DEF TypeOK
      <4>4. clean' => port' = port /\ clean
        BY <3>1, <4>2
      <4>5. QED
        BY <3>2, <3>3, <4>1, <4>3, <4>4
    <3>4. CASE system = "kafka"
      <4>1. port' = port /\ joined' = joined
        BY <3>1, <3>4 DEF Kill, KillKafka
      <4>2. \A q \in dying' : proc'[q] \in Servers
        <5>1. CASE IsServer(p)
          <6>1. dying' = dying \cup {p} /\ proc' = proc
            BY <3>1, <3>4, <5>1 DEF Kill, KillKafka
          <6>2. QED
            BY <5>1, <6>1
        <5>2. CASE ~IsServer(p)
          <6>1. dying' = dying /\ proc' = [proc EXCEPT ![p] = Free] /\ p \notin dying
            BY <3>1, <3>4, <5>2 DEF Kill, KillKafka
          <6>2. QED
            BY <6>1 DEF TypeOK
        <5>3. QED
          BY <5>1, <5>2
      <4>3. clean' => dying' = dying /\ clean
        BY <3>1, <3>4 DEF Kill, KillKafka
      <4>4. QED
        BY <3>2, <3>4, <4>1, <4>2, <4>3
    <3>5. QED
      BY <3>3, <3>4 DEF TypeOK
  <2>2. CASE FinishStop \/ Record \/ Launched
    BY <2>2 DEF FinishStop, Record, Launched
  <2>3. CASE Emptied
    BY <2>3 DEF Emptied, TypeOK
  <2>4. CASE Launch
    BY <2>4 DEF Launch, TypeOK
  <2>5. CASE Poll
    BY <2>5 DEF Poll, PollReady, PollAgain, PollAborts
  <2>6. CASE Sleep
    BY <2>6 DEF Sleep
  <2>7. QED
    BY <1>2, <2>1, <2>2, <2>3, <2>4, <2>5, <2>6 DEF ScriptStep
<1>3. ASSUME NEW p \in Pids, ServerStep(p) \/ StartOther(p) PROVE CleanInv'
  <2>1. CASE Boot(p)
    BY <2>1 DEF Boot, TypeOK
  <2>2. CASE FailToBind(p)
    BY <2>2 DEF FailToBind, TypeOK
  <2>3. CASE ShutDown(p)
    BY <2>3 DEF ShutDown, TypeOK
  <2>4. CASE StartOther(p)
    BY <2>4 DEF StartOther, FreePids, TypeOK
  <2>5. QED
    BY <1>3, <2>1, <2>2, <2>3, <2>4 DEF ServerStep
<1>4. ASSUME NEW k \in Servers, Join(k) PROVE CleanInv'
  BY <1>4 DEF Join, TypeOK
<1>5. CASE UNCHANGED vars
  BY <1>5 DEF vars
<1>6. QED
  BY <1>1, <1>2, <1>3, <1>4, <1>5 DEF Next

\* One round of a wait: a sleep adds to both sides what a sleep and a poll take.
LEMMA RoundTime ==
  ASSUME NEW e \in Nat, NEW s \in Nat,
         (s - MaxPoll) * Interval <= e * (Interval + MaxPoll)
  PROVE  (s + Interval) * Interval <= (e + Interval) * (Interval + MaxPoll)
<1>1. (s - MaxPoll) * Interval = s * Interval - MaxPoll * Interval
  OBVIOUS
<1>2. (s + Interval) * Interval = s * Interval + Interval * Interval
  OBVIOUS
<1>3. (e + Interval) * (Interval + MaxPoll)
        = e * (Interval + MaxPoll) + Interval * Interval + MaxPoll * Interval
  OBVIOUS
<1>4. s * Interval \in Int /\ Interval * Interval \in Int /\ MaxPoll * Interval \in Int
      /\ e * (Interval + MaxPoll) \in Int
  OBVIOUS
<1>5. QED
  BY <1>1, <1>2, <1>3, <1>4

\* The wait that gives up after that round.
LEMMA RoundBound ==
  ASSUME NEW e \in Nat, NEW s \in Nat, e = 0 \/ e < Timeout,
         (s + Interval) * Interval <= (e + Interval) * (Interval + MaxPoll)
  PROVE  \/ s + Interval <= Interval + MaxPoll
         \/ (s + Interval) * Interval < (Timeout + Interval) * (Interval + MaxPoll)
<1>1. CASE e = 0
  BY <1>1
<1>2. CASE e < Timeout
  <2>1. (e + Interval) * (Interval + MaxPoll) < (Timeout + Interval) * (Interval + MaxPoll)
    BY <1>2
  <2>2. QED
    BY <2>1
<1>3. QED
  BY <1>1, <1>2

\* A step keeps the account of the time.
LEMMA StepTime ==
  ASSUME TypeOK, CleanInv, TimeInv, GivesUpInTime, [Next]_vars
  PROVE  TimeInv' /\ GivesUpInTime'
<1> USE DEF TimeInv, script, waiting, cluster
<1>0. elapsed \in Nat /\ spent \in Nat
  BY DEF TypeOK
<1>1. CASE Operator
  <2>1. CASE Start \/ Stop \/ Wait
    BY <1>0, <2>1 DEF Start, Stop, Wait, Command, GivesUpInTime
  <2>2. CASE AdminStop \/ CleanUp
    BY <2>2 DEF AdminStop, CleanUp, GivesUpInTime
  <2>3. CASE Interrupt
    BY <2>3 DEF Interrupt, GivesUpInTime
  <2>4. QED
    BY <1>1, <2>1, <2>2, <2>3 DEF Operator
<1>2. CASE ScriptStep
  <2>1. CASE KillNext \/ FinishStop \/ Emptied \/ Launch \/ Record
    <3>1. UNCHANGED waiting /\ step \in {"start", "stop", "launch"}
          /\ step' \in {"start", "stop", "launch", "none"}
      BY <2>1 DEF KillNext, FinishStop, Emptied, Launch, Record
    <3>2. QED
      BY <3>1 DEF GivesUpInTime
  <2>2. CASE Launched
    <3>1. UNCHANGED waiting /\ step = "launch" /\ step' \in {"poll", "none"}
      BY <2>2 DEF Launched
    <3>2. spent = 0 /\ elapsed = 0
      BY <1>0, <3>1
    <3>3. QED
      BY <3>1, <3>2 DEF GivesUpInTime
  <2>3. ASSUME NEW d \in 0..MaxPoll, PollReady(d) PROVE TimeInv' /\ GivesUpInTime'
    BY <1>0, <2>3 DEF PollReady, GivesUpInTime
  <2>4. ASSUME NEW d \in 0..MaxPoll, PollAgain(d) PROVE TimeInv' /\ GivesUpInTime'
    <3>1. /\ step = "poll" /\ step' = "sleep" /\ spent' = spent + d /\ UNCHANGED elapsed
          /\ verdict' = "none"
      BY <2>4 DEF PollAgain, CleanInv
    <3>2. (spent' - MaxPoll) * Interval <= elapsed * (Interval + MaxPoll)
      <4>1. spent' - MaxPoll <= spent /\ spent' - MaxPoll \in Int
        BY <1>0, <3>1
      <4>2. (spent' - MaxPoll) * Interval <= spent * Interval
        BY <1>0, <4>1
      <4>3. spent * Interval \in Int /\ (spent' - MaxPoll) * Interval \in Int
            /\ elapsed * (Interval + MaxPoll) \in Int
        BY <1>0, <4>1
      <4>4. QED
        BY <3>1, <4>2, <4>3
    <3>3. QED
      BY <1>0, <3>1, <3>2 DEF GivesUpInTime
  <2>7. ASSUME NEW d \in 0..MaxPoll, PollAborts(d) PROVE TimeInv' /\ GivesUpInTime'
    BY <1>0, <2>7 DEF PollAborts, GivesUpInTime, CleanInv
  <2>5. CASE Sleep
    <3>1. /\ step = "sleep" /\ elapsed' = elapsed + Interval /\ spent' = spent + Interval
          /\ IF elapsed' >= Timeout THEN step' = "none" /\ verdict' = "timeout"
             ELSE step' = "poll" /\ verdict' = verdict
      BY <2>5 DEF Sleep
    <3>2. spent' * Interval <= elapsed' * (Interval + MaxPoll)
      BY <1>0, <3>1, RoundTime
    <3>3. elapsed' <= spent'
      BY <1>0, <3>1
    <3>4. CASE elapsed' >= Timeout
      <4>1. \/ spent' <= Interval + MaxPoll
            \/ spent' * Interval < (Timeout + Interval) * (Interval + MaxPoll)
        BY <1>0, <3>1, <3>2, RoundBound
      <4>2. spent' >= Timeout
        BY <1>0, <3>1, <3>3, <3>4
      <4>3. QED
        BY <3>1, <3>3, <3>4, <4>1, <4>2 DEF GivesUpInTime
    <3>5. CASE ~(elapsed' >= Timeout)
      <4>1. step' = "poll" /\ verdict' = "none" /\ elapsed' < Timeout
        BY <1>0, <3>1, <3>5 DEF CleanInv
      <4>2. QED
        BY <3>2, <3>3, <4>1 DEF GivesUpInTime
    <3>6. QED
      BY <3>4, <3>5
  <2>6. QED
    BY <1>2, <2>1, <2>2, <2>3, <2>4, <2>5, <2>7 DEF ScriptStep, Poll
<1>3. ASSUME NEW p \in Pids, ServerStep(p) \/ StartOther(p) PROVE TimeInv' /\ GivesUpInTime'
  BY <1>3 DEF ServerStep, Boot, FailToBind, ShutDown, StartOther, GivesUpInTime
<1>4. ASSUME NEW k \in Servers, Join(k) PROVE TimeInv' /\ GivesUpInTime'
  BY <1>4 DEF Join, GivesUpInTime
<1>5. CASE UNCHANGED vars
  BY <1>5 DEF vars, GivesUpInTime
<1>6. QED
  BY <1>1, <1>2, <1>3, <1>4, <1>5 DEF Next

\* The inductive invariant holds in every run.
THEOREM InductiveInvariant == Spec => []IInv
<1>1. Init => IInv
  <2> SUFFICES ASSUME Init PROVE IInv
    OBVIOUS
  <2>1. \A p \in Pids : ~IsServer(p)
    BY DEF Init
  <2>2. ScriptInv /\ CleanInv /\ EveryServerRecorded
    BY <2>1 DEF Init, ScriptInv, CleanInv, EveryServerRecorded
  <2>3. TimeInv /\ GivesUpInTime
    BY DEF Init, TimeInv, GivesUpInTime
  <2>4. QED
    BY <2>2, <2>3, InitTypes DEF IInv
<1>2. IInv /\ [Next]_vars => IInv'
  BY StepTypes, StepScript, StepClean, StepTime, StepRecorded DEF IInv
<1>3. QED
  BY <1>1, <1>2, PTL DEF Spec

\* No server gets out of the scripts' reach, but for those launched right before an
\* interruption.
THEOREM ServersRecorded == Spec => []EveryServerRecorded
  BY InductiveInvariant, PTL DEF IInv

\* A wait that gives up has waited for its timeout, and no longer than one poll
\* for every sleep adds to it.
THEOREM WaitsAreBounded == Spec => []GivesUpInTime
  BY InductiveInvariant, PTL DEF IInv

\* Ready, after a clean start, is ready: as many servers in the quorum as the
\* configuration has are all of them, and each serves its own port.  With another
\* number in --members it is that many.
THEOREM ReadyServed == Spec => ReadyMeansServed
<1>1. IInv /\ [Next]_vars =>
        (clean /\ step = "poll" /\ verdict' = "ready" =>
           IF system = "kafka" THEN Up(1) /\ port[1] \notin dying
           ELSE /\ \A k \in joined : Up(k)
                /\ IF members \in {0, N} THEN AllUp /\ joined = Servers
                   ELSE Cardinality(joined) = members)
  <2> SUFFICES ASSUME IInv, [Next]_vars, clean, step = "poll", verdict' = "ready"
               PROVE IF system = "kafka" THEN Up(1) /\ port[1] \notin dying
                     ELSE /\ \A k \in joined : Up(k)
                          /\ IF members \in {0, N} THEN AllUp /\ joined = Servers
                             ELSE Cardinality(joined) = members
    OBVIOUS
  <2>1. Ready
    <3>1. verdict' # verdict
      BY DEF IInv, CleanInv
    <3>2. CASE Operator
      BY <3>1, <3>2 DEF Operator, Start, Stop, Wait, Command, AdminStop, CleanUp, Interrupt, waiting
    <3>3. CASE ScriptStep
      BY <3>1, <3>3 DEF ScriptStep, KillNext, FinishStop, Emptied, Launch, Record, Launched, Poll,
                        PollReady, PollAgain, PollAborts, Sleep, waiting
    <3>4. ASSUME NEW p \in Pids, ServerStep(p) \/ StartOther(p) PROVE FALSE
      BY <3>1, <3>4 DEF ServerStep, Boot, FailToBind, ShutDown, StartOther, waiting
    <3>5. ASSUME NEW k \in Servers, Join(k) PROVE FALSE
      BY <3>1, <3>5 DEF Join, waiting
    <3>6. QED
      BY <3>1, <3>2, <3>3, <3>4, <3>5 DEF Next, vars, waiting
  <2>2. dying = {}
    BY DEF IInv, CleanInv
  <2>3. CASE system = "fsk"
    <3>1. realm = N /\ Cardinality(joined) = Want
      BY <2>1, <2>3 DEF Ready, IInv, CleanInv, TypeOK
    <3>2. \A k \in joined : Up(k)
      BY <2>3 DEF IInv, CleanInv, TypeOK
    <3>3. CASE members \in {0, N}
      <4>1. Cardinality(joined) = N
        BY <3>1, <3>3 DEF Want
      <4>2. IsFiniteSet(Servers) /\ Cardinality(Servers) = N
        BY FS_Interval
      <4>3. joined = Servers
        BY <4>1, <4>2, FS_Subset DEF IInv, TypeOK
      <4>4. AllUp
        BY <2>2, <3>2, <4>3 DEF AllUp
      <4>5. QED
        BY <2>3, <3>2, <3>3, <4>3, <4>4
    <3>4. CASE members \notin {0, N}
      BY <2>3, <3>1, <3>2, <3>4 DEF Want
    <3>5. QED
      BY <3>3, <3>4
  <2>4. CASE system = "kafka"
    BY <2>1, <2>2, <2>4 DEF Ready
  <2>5. QED
    BY <2>3, <2>4 DEF IInv, TypeOK
<1>2. QED
  BY <1>1, InductiveInvariant, PTL DEF Spec, ReadyMeansServed
=============================================================================
