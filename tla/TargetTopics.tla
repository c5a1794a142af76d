----------------------------- MODULE TargetTopics -----------------------------
(***************************************************************************)
(* What the replicator does before the first record moves                  *)
(* (ApacheKafkaToFskReplicatorApp: run, discoverSourceTopics,              *)
(* toTopicPartitions, createTopicsOnTarget): list and describe the topics  *)
(* of the source, read the offsets of their partitions, list the topics of *)
(* the target and create those that are missing.  Each of these is a call  *)
(* to a cluster that other clients are changing meanwhile, and the         *)
(* creation is one request with one answer per topic.                      *)
(*                                                                         *)
(* A topic is its number of partitions, 0 when it does not exist.          *)
(***************************************************************************)
EXTENDS Naturals

CONSTANTS
  Topics,
  Matching,         \* topics whose name matches --topic-pattern
  Internal,         \* topics the source calls internal
  IncludeInternal,  \* --include-internal
  MaxParts,         \* bound: partitions of a topic
  MaxChanges,       \* bound: changes other clients make to either cluster
  MaxSetups,        \* bound: runs of the tool
  MayRefuse         \* the target may refuse a topic (replication factor, policy)

ASSUME SetupAssumption ==
  /\ Matching \subseteq Topics /\ Internal \subseteq Topics
  /\ IncludeInternal \in BOOLEAN /\ MayRefuse \in BOOLEAN
  /\ MaxParts \in Nat /\ MaxChanges \in Nat /\ MaxSetups \in Nat \ {0}

Sizes == 0..MaxParts

VARIABLES
  onSource, onTarget,  \* the topics of the two clusters
  dryRun,
  stage,
  listed,          \* filtered topic names
  described,       \* sourceTopics: partitions of each listed topic
  toCreate,        \* topics of the creation request
  results,         \* the answer for each of them
  changes, setups

clusters == <<onSource, onTarget>>
plan == <<listed, described, toCreate>>
setupVars == <<clusters, dryRun, stage, plan, results, changes, setups>>

Existing(cluster) == {t \in Topics : cluster[t] > 0}

Goto(from, to) == stage = from /\ stage' = to

-----------------------------------------------------------------------------
(* discoverSourceTopics and the offsets.                                   *)

\* The filters on names and on internal topics.
Admitted == {t \in Matching : t \in Internal => IncludeInternal}

ListTopics ==
  /\ stage = "list"
  /\ listed' = Existing(onSource) \cap Admitted
  /\ stage' = IF listed' = {} THEN "ended" ELSE "describe"
  /\ UNCHANGED <<clusters, dryRun, described, toCreate, results, changes, setups>>

\* describeTopics fails for all when one of them is gone.
DescribeTopics ==
  /\ Goto("describe", "offsets")
  /\ listed \subseteq Existing(onSource)
  /\ described' = [t \in listed |-> onSource[t]]
  /\ UNCHANGED <<clusters, dryRun, listed, toCreate, results, changes, setups>>

\* Offsets are asked for the partitions described, which must still exist.
ReadOffsets ==
  /\ Goto("offsets", IF dryRun THEN "ended" ELSE "existing")
  /\ \A t \in listed : described[t] <= onSource[t]
  /\ UNCHANGED <<clusters, dryRun, plan, results, changes, setups>>

-----------------------------------------------------------------------------
(* createTopicsOnTarget.                                                   *)

MissingMutant == Existing(onSource) \ Existing(onTarget)

Missing == listed \ Existing(onTarget)

ListTarget ==
  /\ stage = "existing"
  /\ toCreate' = Missing
  /\ results' = [t \in Missing |-> "pending"]
  /\ stage' = IF Missing = {} THEN "copy" ELSE "create"
  /\ UNCHANGED <<clusters, dryRun, listed, described, changes, setups>>

Pending(t) == stage = "create" /\ t \in toCreate /\ results[t] = "pending"

NewPartitionsMutant(t) == 1

NewPartitions(t) == described[t]

\* The target handles one topic of the request; its answer may get lost, and
\* the client's retry then finds the topic there.
CreateTopic(t) ==
  /\ Pending(t) /\ onTarget[t] = 0
  /\ onTarget' = [onTarget EXCEPT ![t] = NewPartitions(t)]
  /\ \E r \in {"created", "pending"} : results' = [results EXCEPT ![t] = r]
  /\ UNCHANGED <<onSource, dryRun, stage, plan, changes, setups>>

FindTopic(t) ==
  /\ Pending(t) /\ onTarget[t] > 0
  /\ results' = [results EXCEPT ![t] = "exists"]
  /\ UNCHANGED <<clusters, dryRun, stage, plan, changes, setups>>

RefuseTopic(t) ==
  /\ Pending(t) /\ MayRefuse
  /\ results' = [results EXCEPT ![t] = "refused"]
  /\ UNCHANGED <<clusters, dryRun, stage, plan, changes, setups>>

ReportsMutant(r) == \A t \in toCreate : results[t] # "pending"

\* all(): one of the failures, when there are any, speaks for the request.
Reports(r) ==
  /\ \A t \in toCreate : results[t] # "pending"
  /\ \E t \in toCreate : results[t] = r
  /\ r = "created" => \A t \in toCreate : results[t] = "created"

\* A TopicExistsException is taken for success, any other failure ends the run.
Created == stage = "create" /\ (Reports("created") \/ Reports("exists")) /\ stage' = "copy"
             /\ UNCHANGED <<clusters, dryRun, plan, results, changes, setups>>

NotCreated == stage = "create" /\ Reports("refused") /\ stage' = "failed"
             /\ UNCHANGED <<clusters, dryRun, plan, results, changes, setups>>

\* A call times out or finds its topic gone.
CallFails ==
  /\ stage \in {"list", "describe", "offsets", "existing", "create"}
  /\ stage' = "failed"
  /\ UNCHANGED <<clusters, dryRun, plan, results, changes, setups>>

\* The operator starts the tool again, as a rehearsal or for real.
Rerun ==
  /\ stage \in {"failed", "ended"} /\ setups < MaxSetups
  /\ setups' = setups + 1 /\ stage' = "list" /\ dryRun' \in BOOLEAN
  /\ listed' = {} /\ described' = <<>> /\ toCreate' = {} /\ results' = <<>>
  /\ UNCHANGED <<clusters, changes>>

-----------------------------------------------------------------------------
(* Other clients: topics come, grow and go at the source, come and grow at *)
(* the target.                                                             *)

ChangeSource ==
  /\ stage # "copy" /\ changes < MaxChanges /\ changes' = changes + 1
  /\ \E t \in Topics : \E k \in Sizes :
       (k > onSource[t] \/ (k = 0 /\ onSource[t] > 0)) /\ onSource' = [onSource EXCEPT ![t] = k]
  /\ UNCHANGED <<onTarget, dryRun, stage, plan, results, setups>>

ChangeTarget ==
  /\ stage # "copy" /\ changes < MaxChanges /\ changes' = changes + 1
  /\ \E t \in Topics : \E k \in Sizes :
       k > onTarget[t] /\ onTarget' = [onTarget EXCEPT ![t] = k]
  /\ UNCHANGED <<onSource, dryRun, stage, plan, results, setups>>

SetupInit ==
  /\ onSource \in [Topics -> Sizes] /\ onTarget \in [Topics -> Sizes]
  /\ dryRun \in BOOLEAN
  /\ stage = "list" /\ listed = {} /\ described = <<>> /\ toCreate = {} /\ results = <<>>
  /\ changes = 0 /\ setups = 1

Call ==
  \/ ListTopics \/ DescribeTopics \/ ReadOffsets \/ ListTarget
  \/ Created \/ NotCreated \/ CallFails

Handle == \E t \in Topics : CreateTopic(t) \/ FindTopic(t) \/ RefuseTopic(t)

SetupNext == Call \/ Handle \/ Rerun \/ ChangeSource \/ ChangeTarget

SetupSpec == SetupInit /\ [][SetupNext]_setupVars

-----------------------------------------------------------------------------
(* Properties.                                                             *)

\* The variables have their types.
SetupTypeOK ==
  /\ onSource \in [Topics -> Sizes] /\ onTarget \in [Topics -> Sizes]
  /\ dryRun \in BOOLEAN
  /\ stage \in {"list", "describe", "offsets", "existing", "create", "copy", "ended", "failed"}
  /\ listed \subseteq Admitted /\ toCreate \subseteq listed
  /\ described \in [DOMAIN described -> Sizes \ {0}]
  /\ results \in [toCreate -> {"pending", "created", "exists", "refused"}]
  /\ changes \in 0..MaxChanges /\ setups \in 1..MaxSetups

\* Whatever the other clients do meanwhile, the tool changes the target only by
\* adding, outside of a dry run, a topic of the filter that is not there, with the
\* partitions the source described (lines 111-116, 226-246).
AddsOnlyMissingTopics ==
  [][\A t \in Topics : onTarget'[t] # onTarget[t] =>
       \/ changes' = changes + 1
       \/ /\ ~dryRun /\ t \in Matching /\ (t \in Internal => IncludeInternal)
          /\ onTarget[t] = 0 /\ onTarget'[t] = described[t]]_setupVars

\* When the copy starts although no topic was reported as existing, every
\* topic to be copied is on the target, and whatever this run created there
\* has at least the partitions of the source.
CopyFindsTopics ==
  stage = "copy" /\ (\A t \in toCreate : results[t] # "exists") =>
    /\ \A t \in listed : onTarget[t] > 0
    /\ \A t \in toCreate : onTarget[t] >= described[t]

\* A topic missing on the target when the copy starts was refused in a request
\* that also met an existing topic: nothing else leads there.
OnlyMaskedRefusals ==
  stage = "copy" =>
    \A t \in listed : onTarget[t] = 0 =>
      /\ t \in toCreate /\ results[t] = "refused"
      /\ \E u \in toCreate : results[u] = "exists"

\* How far the setup is, and what that says of the target: the invariant the
\* two above follow from.
SetupInv ==
  /\ stage \in {"list", "describe"} => toCreate = {}
  /\ stage \in {"offsets", "existing", "create", "copy"} => DOMAIN described = listed
  /\ stage \in {"describe", "offsets", "existing"} => toCreate = {}
  /\ stage \in {"existing", "create", "copy"} => ~dryRun
  /\ stage \in {"create", "copy"} =>
       /\ \A t \in listed \ toCreate : onTarget[t] > 0
       /\ \A t \in toCreate : results[t] \in {"created", "exists"} => onTarget[t] > 0
       /\ \A t \in toCreate : results[t] = "created" => onTarget[t] >= described[t]
  /\ stage = "copy" =>
       /\ \A t \in toCreate : results[t] # "pending"
       /\ \/ \A t \in toCreate : results[t] = "created"
          \/ \E t \in toCreate : results[t] = "exists"

\* Types and progress hold together, what is created having the size that was
\* described, and what was described being what was listed: inductive.
SetupIInv == SetupTypeOK /\ SetupInv

-----------------------------------------------------------------------------
(* What the documents say and the code does not do.                        *)

\* "It discovers every topic and partition, creates them on the target"
\* (importdata/README.md 3-4).
PartitionsMatch ==
  stage = "copy" => \A t \in listed : onTarget[t] > 0 => onTarget[t] >= described[t]

\* "The exit code is 0 on success and non-zero on failure" (importdata/README.md
\* 785): a topic that was refused ends the run.
RefusalEndsRun == stage = "copy" => \A t \in toCreate : results[t] # "refused"
=============================================================================
