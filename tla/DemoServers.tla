------------------------------ MODULE DemoServers ------------------------------
(***************************************************************************)
(* The scripts that start, stop and wait for the servers of the demo       *)
(* (importdata/demo): start-kof-brokers.sh, stop-kof-brokers.sh and        *)
(* wait-for-kof.sh for FSK, setup-kafka-kraft.sh and stop-kafka.sh for the *)
(* source Kafka cluster.  Both pairs keep the process ids of what they     *)
(* started in a file and go by it the next time; the operator may          *)
(* interrupt any of them between two lines.                                *)
(*                                                                         *)
(* The servers are external, modelled from what the scripts and            *)
(* importdata/README.md 58-96 say of them.  A killed tibftlserver leaves   *)
(* its children behind, which hold the port and answer nothing.  A killed  *)
(* Kafka broker shuts down in its own time and answers until it is done.   *)
(* A server that finds its port taken exits.                               *)
(***************************************************************************)
EXTENDS Integers, FiniteSets

CONSTANTS
  N,            \* servers: SRV1.. or brokers 1.. (3 in the scripts)
  Pids,         \* process ids the system hands out
  Shapes,       \* members of the realms that earlier runs may have left
  Interval,     \* seconds between two polls
  MaxPoll,      \* seconds a poll may take (curl -m, the Kafka client's limits)
  Timeout,      \* --timeout
  MemberCounts, \* --members, where it is given
  MaxOthers,    \* bound: process ids that other programs take
  MaxCommands   \* bound: scripts the operator runs

ASSUME ConstantsAssumption ==
  /\ N \in Nat \ {0} /\ Pids \subseteq Nat \ {0} /\ Shapes \subseteq Nat \ {0}
  /\ Interval \in Nat \ {0} /\ MaxPoll \in Nat /\ Timeout \in Nat
  /\ MemberCounts \subseteq Nat \ {0}
  /\ MaxOthers \in Nat /\ MaxCommands \in Nat

Servers == 1..N
NoPid == 0      \* a port nobody listens on, no process
Orphans == -1   \* a port held by the children of a killed server
Free == 0       \* a process id that is not in use
Other == N + 1  \* a process id of some other program

VARIABLES
  system,     \* "fsk" or "kafka"
  proc,       \* process id -> the server it runs
  dying,      \* brokers told to stop and not yet gone
  port,       \* server -> the process serving its port
  realm,      \* members of the realm in the data directory, 0 when it is empty
  joined,     \* servers whose pserver is in the quorum
  recorded,   \* the process ids of the PID file
  step,       \* line of the running script
  todo,       \* process ids still to be killed
  next,       \* server of the launching loop
  pending,    \* $!, launched and not yet written to the PID file
  members,    \* --members, 0 when it is not given
  elapsed,    \* ELAPSED
  verdict,    \* what the last wait ended with
  commands,
  spent,      \* history: seconds the wait took
  lost,       \* history: processes an interrupted script did not record
  clean       \* history: launched on free ports and left alone since

cluster == <<proc, dying, port, realm, joined>>
script == <<step, todo, next, pending>>
waiting == <<members, elapsed, verdict, spent>>
vars == <<system, cluster, recorded, script, waiting, commands, lost, clean>>

IsServer(p) == proc[p] \in Servers
Up(k) == port[k] \in Pids
AllUp == \A k \in Servers : Up(k) /\ port[k] \notin dying

-----------------------------------------------------------------------------
(* The servers.                                                            *)

\* A launched process gets its port when it is free; an empty data directory is
\* seeded with the realm of the configuration.
Boot(p) ==
  /\ IsServer(p) /\ p \notin dying /\ port[proc[p]] = NoPid
  /\ port' = [port EXCEPT ![proc[p]] = p]
  /\ realm' = IF system = "fsk" /\ realm = 0 THEN N ELSE realm
  /\ UNCHANGED <<system, proc, dying, joined, recorded, script, waiting, commands, lost, clean>>

\* Its port is taken by another process: fatal startup error.
FailToBind(p) ==
  /\ IsServer(p) /\ port[proc[p]] \notin {NoPid, p}
  /\ proc' = [proc EXCEPT ![p] = Free] /\ dying' = dying \ {p}
  /\ UNCHANGED <<system, port, realm, joined, recorded, script, waiting, commands, lost, clean>>

\* The pserver of a server joins the quorum, when the realm has it.
Join(k) ==
  /\ system = "fsk" /\ Up(k) /\ k \notin joined /\ k <= realm
  /\ joined' = joined \cup {k}
  /\ UNCHANGED <<system, proc, dying, port, realm, recorded, script, waiting, commands, lost, clean>>

\* A broker that was told to stop is done.
ShutDown(p) ==
  /\ p \in dying /\ dying' = dying \ {p}
  /\ proc' = [proc EXCEPT ![p] = Free]
  /\ port' = [k \in Servers |-> IF port[k] = p THEN NoPid ELSE port[k]]
  /\ UNCHANGED <<system, realm, joined, recorded, script, waiting, commands, lost, clean>>

\* The process ids that are free, and the one handed out next: the least, so
\* that ids are used again as early as they can be.
FreePids == {p \in Pids : proc[p] = Free}
NewPid(p) == p \in FreePids /\ \A q \in FreePids : p <= q

\* Another program gets a process id; only those the PID file still names matter.
StartOther(p) ==
  /\ p \in recorded \cap FreePids /\ Cardinality({q \in Pids : proc[q] = Other}) < MaxOthers
  /\ proc' = [proc EXCEPT ![p] = Other]
  /\ UNCHANGED <<system, dying, port, realm, joined, recorded, script, waiting, commands, lost, clean>>

\* What kill does to process p, and that nothing happens to a free id.
KillFsk(p) ==
  LET k == proc[p] IN
  /\ proc' = [proc EXCEPT ![p] = Free]
  /\ IF k \in Servers /\ port[k] = p
     THEN /\ port' = [port EXCEPT ![k] = Orphans]
          /\ joined' \in {joined, joined \ {k}}
     ELSE UNCHANGED <<port, joined>>
  /\ UNCHANGED dying

KillKafka(p) ==
  /\ dying' = IF IsServer(p) THEN dying \cup {p} ELSE dying
  /\ proc' = IF IsServer(p) THEN proc ELSE [proc EXCEPT ![p] = Free]
  /\ UNCHANGED <<port, joined>>

Kill(p) == IF system = "fsk" THEN KillFsk(p) ELSE KillKafka(p)

-----------------------------------------------------------------------------
(* The operator.                                                           *)

Command ==
  /\ step = "none" /\ commands < MaxCommands /\ commands' = commands + 1
  /\ elapsed' = 0 /\ verdict' = "none" /\ spent' = 0

\* start-kof-brokers.sh, setup-kafka-kraft.sh: first the processes of the file.
Start ==
  /\ Command /\ members' = 0 /\ step' = "start" /\ todo' = recorded
  /\ UNCHANGED <<system, cluster, recorded, next, pending, lost, clean>>

\* stop-kof-brokers.sh, stop-kafka.sh: without a file there is nothing to do.
Stop ==
  /\ Command /\ members' = 0 /\ step' = "stop" /\ todo' = recorded
  /\ UNCHANGED <<system, cluster, recorded, next, pending, lost, clean>>

\* wait-for-kof.sh
Wait ==
  /\ Command /\ system = "fsk" /\ step' = "poll" /\ members' \in {0} \cup MemberCounts
  /\ UNCHANGED <<system, cluster, recorded, todo, next, pending, lost, clean>>

\* tibftladmin -xc: the servers that are up end with their children.
AdminStop ==
  /\ step = "none" /\ system = "fsk" /\ Up(1) /\ clean' = FALSE
  /\ proc' = [p \in Pids |-> IF \E k \in Servers : port[k] = p THEN Free ELSE proc[p]]
  /\ port' = [k \in Servers |-> IF Up(k) THEN NoPid ELSE port[k]]
  /\ joined' = {k \in joined : ~Up(k)}
  /\ UNCHANGED <<system, dying, realm, recorded, script, waiting, commands, lost>>

\* pkill of the children that were left, and rm -rf of the data directory or not,
\* while no server is up.
CleanUp ==
  /\ step = "none" /\ system = "fsk" /\ \A k \in Servers : ~Up(k)
  /\ port' = [k \in Servers |-> NoPid] /\ joined' = {} /\ realm' \in {realm, 0}
  /\ UNCHANGED <<system, proc, dying, recorded, script, waiting, commands, lost, clean>>

\* Ctrl-C, or a line that fails.
Interrupt ==
  /\ step # "none" /\ step' = "none"
  /\ lost' = lost \cup ({pending} \ {NoPid}) /\ pending' = NoPid
  /\ todo' = {} /\ next' = 1 /\ clean' = FALSE
  /\ UNCHANGED <<system, cluster, recorded, waiting, commands>>

-----------------------------------------------------------------------------
(* The scripts.                                                            *)

KillNext ==
  /\ step \in {"start", "stop"}
  /\ \E p \in todo :
       /\ Kill(p) /\ todo' = todo \ {p}
       /\ clean' = (clean /\ ~IsServer(p))
  /\ UNCHANGED <<system, realm, recorded, step, next, pending, waiting, commands, lost>>

FinishStopMutant ==
  /\ step = "stop" /\ step' = "none" /\ recorded' = {} /\ todo' = {}
  /\ UNCHANGED <<system, cluster, next, pending, waiting, commands, lost, clean>>

\* All of the file were told to stop: the file goes.
FinishStop ==
  /\ step = "stop" /\ todo = {} /\ step' = "none" /\ recorded' = {}
  /\ UNCHANGED <<system, cluster, todo, next, pending, waiting, commands, lost, clean>>

\* Without waiting for the kills.
EmptiedMutant ==
  /\ step = "start" /\ step' = "launch" /\ recorded' = {} /\ todo' = {}
  /\ clean' = ((\A k \in Servers : port[k] = NoPid) /\ (\A p \in Pids : ~IsServer(p))
               /\ realm \in {0, N})
  /\ UNCHANGED <<system, cluster, next, pending, waiting, commands, lost>>

Emptied ==
  /\ step = "start" /\ todo = {} /\ step' = "launch" /\ recorded' = {}
  /\ clean' = ((\A k \in Servers : port[k] = NoPid) /\ (\A p \in Pids : ~IsServer(p))
               /\ realm \in {0, N})
  /\ UNCHANGED <<system, cluster, todo, next, pending, waiting, commands, lost>>

Launch ==
  /\ step = "launch" /\ next <= N /\ pending = NoPid
  /\ \E p \in Pids :
       /\ NewPid(p) /\ proc' = [proc EXCEPT ![p] = next]
       /\ pending' = p /\ lost' = lost \ {p}
  /\ UNCHANGED <<system, dying, port, realm, joined, recorded, step, todo, next, waiting,
                 commands, clean>>

Record ==
  /\ step = "launch" /\ pending # NoPid
  /\ recorded' = recorded \cup {pending} /\ pending' = NoPid /\ next' = next + 1
  /\ UNCHANGED <<system, cluster, step, todo, waiting, commands, lost, clean>>

LaunchedMutant ==
  /\ step = "launch" /\ next >= N /\ next' = 1
  /\ step' = IF system = "kafka" THEN "poll" ELSE "none"
  /\ UNCHANGED <<system, cluster, recorded, todo, pending, waiting, commands, lost, clean>>

\* The Kafka script goes on to wait, the other one ends.
Launched ==
  /\ step = "launch" /\ next > N /\ next' = 1
  /\ step' = IF system = "kafka" THEN "poll" ELSE "none"
  /\ UNCHANGED <<system, cluster, recorded, todo, pending, waiting, commands, lost, clean>>

\* The quorum request, answered by the first server; any answer of the first
\* broker will do for Kafka.
Want == IF members = 0 THEN realm ELSE members

ReadyMutant ==
  Up(1) /\ (system = "fsk" => realm > 0 /\ 2 * Cardinality(joined) > realm)

Ready ==
  /\ Up(1)
  /\ system = "fsk" => /\ realm > 0 /\ 2 * Cardinality(joined) > realm
                       /\ Cardinality(joined) = Want

\* A poll, by its answer; the time it takes passes before the answer.
PollReady(d) ==
  /\ step = "poll" /\ Ready
  /\ step' = "none" /\ verdict' = "ready" /\ spent' = spent + d
  /\ UNCHANGED <<system, cluster, recorded, todo, next, pending, members, elapsed, commands,
                 lost, clean>>

PollAgain(d) ==
  /\ step = "poll" /\ ~Ready
  /\ step' = "sleep" /\ spent' = spent + d
  /\ UNCHANGED <<system, cluster, recorded, todo, next, pending, members, elapsed, verdict,
                 commands, lost, clean>>

SleepMutant ==
  /\ step = "sleep" /\ elapsed' = elapsed + Interval /\ spent' = spent + Interval
  /\ IF elapsed' > Timeout
     THEN step' = "none" /\ verdict' = "timeout"
     ELSE step' = "poll" /\ UNCHANGED verdict
  /\ UNCHANGED <<system, cluster, recorded, todo, next, pending, members, commands,
                 lost, clean>>

\* The sleep, and the check of the time after it.
Sleep ==
  /\ step = "sleep" /\ elapsed' = elapsed + Interval /\ spent' = spent + Interval
  /\ IF elapsed' >= Timeout
     THEN step' = "none" /\ verdict' = "timeout"
     ELSE step' = "poll" /\ UNCHANGED verdict
  /\ UNCHANGED <<system, cluster, recorded, todo, next, pending, members, commands,
                 lost, clean>>

\* The first server answers 200 without one of the fields: its grep finds nothing,
\* and errexit ends the script before the timeout.
PollAborts(d) ==
  /\ step = "poll" /\ system = "fsk" /\ Up(1)
  /\ step' = "none" /\ spent' = spent + d
  /\ UNCHANGED <<system, cluster, recorded, todo, next, pending, members, elapsed, verdict,
                 commands, lost, clean>>

Poll == \E d \in 0..MaxPoll : PollReady(d) \/ PollAgain(d) \/ PollAborts(d)

ScriptStep ==
  \/ KillNext \/ FinishStop \/ Emptied \/ Launch \/ Record \/ Launched \/ Poll \/ Sleep

Operator ==
  \/ Start \/ Stop \/ Wait \/ AdminStop \/ CleanUp \/ Interrupt

ServerStep(p) == Boot(p) \/ FailToBind(p) \/ ShutDown(p)

Init ==
  /\ system \in {"fsk", "kafka"}
  /\ proc = [p \in Pids |-> Free] /\ dying = {} /\ port = [k \in Servers |-> NoPid]
  /\ realm \in IF system = "fsk" THEN {0} \cup Shapes ELSE {0}
  /\ joined = {} /\ recorded = {}
  /\ step = "none" /\ todo = {} /\ next = 1 /\ pending = NoPid
  /\ members = 0 /\ elapsed = 0 /\ verdict = "none" /\ spent = 0
  /\ commands = 0 /\ lost = {} /\ clean = FALSE

Next ==
  \/ Operator \/ ScriptStep
  \/ \E p \in Pids : ServerStep(p) \/ StartOther(p)
  \/ \E k \in Servers : Join(k)

Spec == Init /\ [][Next]_vars

\* A script goes on until it ends or is interrupted; a server gets up, joins
\* the realm of its own configuration, and a broker told to stop does so.
FairSpec ==
  /\ Spec /\ WF_vars(ScriptStep)
  /\ \A p \in Pids : WF_vars(ServerStep(p))
  /\ \A k \in Servers : WF_vars(realm = N /\ Join(k))

-----------------------------------------------------------------------------
(* Properties.                                                             *)

TypeOK ==
  /\ system \in {"fsk", "kafka"}
  /\ proc \in [Pids -> 0..(N + 1)] /\ dying \subseteq Pids
  /\ port \in [Servers -> Pids \cup {NoPid, Orphans}]
  /\ realm \in {0, N} \cup Shapes /\ joined \subseteq Servers
  /\ recorded \subseteq Pids /\ todo \subseteq Pids /\ lost \subseteq Pids
  /\ step \in {"none", "start", "stop", "launch", "poll", "sleep"}
  /\ next \in 1..(N + 1) /\ pending \in Pids \cup {NoPid}
  /\ members \in {0} \cup MemberCounts /\ elapsed \in Nat /\ spent \in Nat
  /\ verdict \in {"none", "ready", "timeout"}
  /\ commands \in 0..MaxCommands /\ clean \in BOOLEAN

\* No server gets out of the scripts' reach: whatever runs is in the PID file or
\* about to be written there, whenever and however often a script is interrupted,
\* but for the one launched right before the interruption.
EveryServerRecorded ==
  \A p \in Pids : IsServer(p) /\ p \notin dying => p \in recorded \cup {pending} \cup lost

\* What a script has still to do accounts for what it has left running.
ScriptInv ==
  /\ pending # NoPid => step = "launch" /\ next <= N
  /\ step \notin {"start", "stop"} => todo = {}
  /\ step \in {"start", "stop"} => \A p \in recorded \ todo : IsServer(p) => p \in dying

\* What launching on free ports leaves true until something is killed.
CleanInv ==
  /\ step # "none" => verdict = "none"
  /\ system = "fsk" => dying = {}
  /\ system = "kafka" => joined = {}
  /\ \A p \in dying : IsServer(p)
  /\ \A k \in joined : port[k] # NoPid
  /\ clean => dying = {} /\ realm \in {0, N} /\ \A k \in Servers : port[k] # Orphans

\* What a wait has taken so far: its sleeps, which it counts, and at most one poll
\* for each of them and one more, which it does not.
TimeInv ==
  /\ elapsed <= spent
  /\ step \in {"start", "stop", "launch"} => spent = 0
  /\ step = "poll" => spent * Interval <= elapsed * (Interval + MaxPoll)
  /\ step = "sleep" => (spent - MaxPoll) * Interval <= elapsed * (Interval + MaxPoll)
  /\ step \in {"poll", "sleep"} => elapsed = 0 \/ elapsed < Timeout

\* A wait that gives up has waited for the timeout, and at most as long as its
\* polls add to that; one poll and one sleep it makes whatever the timeout.
GivesUpInTime ==
  verdict = "timeout" =>
    /\ spent >= Timeout
    /\ \/ spent <= Interval + MaxPoll
       \/ spent * Interval < (Timeout + Interval) * (Interval + MaxPoll)

\* The inductive invariant behind EveryServerRecorded, ReadyMeansServed and
\* GivesUpInTime.
IInv == TypeOK /\ ScriptInv /\ CleanInv /\ EveryServerRecorded /\ TimeInv /\ GivesUpInTime

\* When a wait says ready of servers launched on free ports, with the data directory
\* of this configuration or an empty one, and left alone since: without --members, or
\* with the number of the servers, every one is up and has joined (wait-for-kof.sh
\* 6-8); with another number, exactly that many have.  For Kafka, the first broker is.
ReadyMeansServed ==
  [][clean /\ step = "poll" /\ verdict' = "ready" =>
       IF system = "kafka" THEN Up(1) /\ port[1] \notin dying
       ELSE /\ \A k \in joined : Up(k)
            /\ IF members \in {0, N} THEN AllUp /\ joined = Servers
               ELSE Cardinality(joined) = members]_vars

\* Servers launched on free ports and left alone get up, and FSK's all join.
CleanStartComesUp ==
  clean ~> (~clean \/ (AllUp /\ (system = "fsk" => joined = Servers)))

-----------------------------------------------------------------------------
(* What the documents say and the code does not do.                        *)

\* "Stop FSK with `tibftladmin`, never `kill`" (importdata/README.md 78): once a stop
\* script is through, nothing holds a server's port (stop-kof-brokers.sh 20).
StopFreesPorts ==
  [][FinishStop /\ system = "fsk" /\ lost = {} => \A k \in Servers : port[k] = NoPid]_vars

\* "Stop any previously started pservers" (start-kof-brokers.sh 59): a script kills
\* nothing else.
KillsOnlyServers ==
  [][\A p \in Pids : proc[p] = Other => proc'[p] = Other]_vars

\* "Kafka KRaft cluster is up" (setup-kafka-kraft.sh 114) is said of the brokers
\* the script has started.
UpMeansStarted ==
  [][system = "kafka" /\ step = "poll" /\ verdict' = "ready" =>
       \A k \in Servers : Up(k) /\ port[k] \in recorded]_vars

\* "... quorum with all three pservers joined" (importdata/README.md 285): whatever
\* was in the data directory before.
ReadyMeansConfigured ==
  [][system = "fsk" /\ step = "poll" /\ verdict' = "ready" => joined = Servers]_vars

\* "Block until the FSK persistence cluster has formed a quorum and every one of its
\* pservers has joined" (wait-for-kof.sh 6-7), also with --members.
ReadyMeansAllJoined ==
  [][clean /\ system = "fsk" /\ step = "poll" /\ verdict' = "ready" => joined = Servers]_vars

\* --timeout bounds the time the script takes (wait-for-kof.sh 27, 108).
WaitWithinTimeout == verdict = "timeout" => spent <= Timeout + Interval
=============================================================================
