------------------------------- MODULE NodeIds -------------------------------
(***************************************************************************)
(* The broker identities of a converted cluster (translator/broker.go):    *)
(* each server.properties file is parsed (broker.id is renamed to node.id),*)
(* then EnsureNodeIDs makes two passes over the brokers.  The first marks  *)
(* the usable ids as taken, the second gives every broker without one the  *)
(* next free positive id.                                                  *)
(*                                                                         *)
(* Any negative or unreadable value of the key stands for the same thing:  *)
(* present, but not usable.                                                *)
(***************************************************************************)
EXTENDS Integers

CONSTANTS
  N,        \* number of broker files, in command-line order
  MaxId,    \* bound: the ids the files name are -1..MaxId
  Absent    \* the key is not in the file

ASSUME ConstantsAssumption ==
  /\ N \in Nat \ {0} /\ MaxId \in Nat
  /\ Absent \notin Int

Brokers == 1..N
Values == (-1..MaxId) \cup {Absent}

VARIABLES
  nodeKey,    \* node.id in the file, then in Settings
  brokerKey,  \* broker.id in the file, then in Settings
  origin,     \* NodeIDOrigin
  nodeId,     \* cfg.NodeID
  taken,      \* ids some broker claims
  next,       \* the next id to try
  pc, i,      \* the loop and its index
  claimed     \* history: the id each file asked for

vars == <<nodeKey, brokerKey, origin, nodeId, taken, next, pc, i, claimed>>

\* usableNodeID: present and non-negative.
Usable(v) == v # Absent /\ v >= 0

\* The identity a file asks for: node.id wins over broker.id.
Asked(node, broker) == IF node # Absent THEN node ELSE broker

\* The end of one turn of a loop; the next loop starts over.
Turn(loop, following) ==
  /\ pc = loop
  /\ IF i < N THEN i' = i + 1 /\ pc' = pc ELSE i' = 1 /\ pc' = following

-----------------------------------------------------------------------------

\* broker.id moves to node.id only when the file has no node.id.
Renames == nodeKey[i] = Absent /\ brokerKey[i] # Absent

Parse ==
  /\ Turn("parse", "claim")
  /\ IF Renames
     THEN /\ nodeKey' = [nodeKey EXCEPT ![i] = brokerKey[i]]
          /\ brokerKey' = [brokerKey EXCEPT ![i] = Absent]
          /\ origin' = [origin EXCEPT ![i] = "broker.id"]
     ELSE UNCHANGED <<nodeKey, brokerKey, origin>>
  /\ UNCHANGED <<nodeId, taken, next, claimed>>

ClaimsMutant == {n \in {nodeKey[i]} : Usable(n) /\ i > 1}

Claims == {n \in {nodeKey[i]} : Usable(n)}

\* First pass of EnsureNodeIDs.
Claim ==
  /\ Turn("claim", "assign")
  /\ taken' = taken \cup Claims
  /\ UNCHANGED <<nodeKey, brokerKey, origin, nodeId, next, claimed>>

\* Second pass: a usable id is kept.
Keep ==
  /\ Turn("assign", "done")
  /\ Usable(nodeKey[i])
  /\ nodeId' = [nodeId EXCEPT ![i] = nodeKey[i]]
  /\ UNCHANGED <<nodeKey, brokerKey, origin, taken, next, claimed>>

StuckMutant(n) == n

After(n) == n + 1

\* The inner loop: look for a free id.
Skip ==
  /\ pc = "assign" /\ ~Usable(nodeKey[i])
  /\ next \in taken
  /\ next' = After(next)
  /\ UNCHANGED <<nodeKey, brokerKey, origin, nodeId, taken, pc, i, claimed>>

TakesMutant == {}

Takes == {next}

\* setNodeID: the chosen id goes into the struct and into the settings.
Assign ==
  /\ Turn("assign", "done")
  /\ ~Usable(nodeKey[i]) /\ next \notin taken
  /\ taken' = taken \cup Takes
  /\ nodeId' = [nodeId EXCEPT ![i] = next]
  /\ nodeKey' = [nodeKey EXCEPT ![i] = next]
  /\ origin' = [origin EXCEPT ![i] = "assigned"]
  /\ UNCHANGED <<brokerKey, next, claimed>>

Init ==
  /\ nodeKey \in [Brokers -> Values] /\ brokerKey \in [Brokers -> Values]
  /\ origin = [b \in Brokers |-> "source"]
  /\ nodeId = [b \in Brokers |-> 1]
  /\ taken = {} /\ next = 1
  /\ pc = "parse" /\ i = 1
  /\ claimed = [b \in Brokers |-> Asked(nodeKey[b], brokerKey[b])]

Next == Parse \/ Claim \/ Keep \/ Skip \/ Assign

Spec == Init /\ [][Next]_vars

\* A sequential program: the loop goes on as long as it has a step.
FairSpec == Spec /\ WF_vars(Next)

-----------------------------------------------------------------------------
(* Properties.                                                             *)

\* The variables have their types.
TypeOK ==
  /\ nodeKey \in [Brokers -> Int \cup {Absent}]
  /\ brokerKey \in [Brokers -> Int \cup {Absent}]
  /\ origin \in [Brokers -> {"source", "broker.id", "assigned"}]
  /\ nodeId \in [Brokers -> Int]
  /\ taken \subseteq Nat /\ next \in Nat \ {0}
  /\ pc \in {"parse", "claim", "assign", "done"} /\ i \in Brokers
  /\ claimed \in [Brokers -> Int \cup {Absent}]

\* Every broker leaves with a non-negative id, the same in the struct and in the
\* file that is written, and it is the one its source asked for whenever that
\* was usable (comments at lines 286-295, tests NodeIDWinsOverBrokerID and
\* AssignedNodeIDIsEmitted).
IdsUsable ==
  pc = "done" =>
    \A b \in Brokers :
      /\ nodeId[b] >= 0 /\ nodeKey[b] = nodeId[b]
      /\ Usable(claimed[b]) => nodeId[b] = claimed[b] /\ origin[b] # "assigned"

\* An id the tool picks collides with no other broker of the set, neither an
\* earlier one nor one whose file comes later on the command line.
AssignedIdsDistinct ==
  pc = "done" =>
    \A b, c \in Brokers : b # c /\ origin[b] = "assigned" => nodeId[b] # nodeId[c]

\* "given the lowest positive id no other broker in the set already claims"
\* (line 294): every smaller positive id belongs to some other broker.
AssignedIdsLowest ==
  pc = "done" =>
    \A b \in Brokers : origin[b] = "assigned" =>
      \A n \in 1..(nodeId[b] - 1) : \E c \in Brokers : nodeId[c] = n

\* The two passes end.
Terminates == <>(pc = "done")

\* Stages of the inductive invariant.
Through(b) == pc = "done" \/ (pc = "assign" /\ b < i)
Claimed(b) == pc \in {"assign", "done"} \/ (pc = "claim" /\ b < i)
Parsed(b) == pc # "parse" \/ b < i

\* How far the passes are with broker b, and what that leaves behind.
Progressed(b) ==
  /\ ~Through(b) =>
       /\ origin[b] # "assigned"
       /\ claimed[b] = IF Parsed(b) THEN nodeKey[b] ELSE Asked(nodeKey[b], brokerKey[b])
  /\ Claimed(b) /\ Usable(claimed[b]) => claimed[b] \in taken
  /\ Through(b) => nodeId[b] \in taken /\ nodeKey[b] = nodeId[b]
  /\ Through(b) /\ origin[b] # "assigned" => nodeId[b] = claimed[b]
  /\ origin[b] = "assigned" => ~Usable(claimed[b]) /\ nodeId[b] <= next

\* No id below the next candidate is free.
NoGapBelow ==
  /\ pc \in {"parse", "claim"} => next = 1
  /\ \A n \in 1..(next - 1) : n \in taken

\* Every taken id belongs to some broker.
TakenOwned ==
  \A n \in taken : \E b \in Brokers :
    \/ claimed[b] = n /\ Usable(claimed[b])
    \/ Through(b) /\ nodeId[b] = n

\* An assigned id is nobody else's, now or later.
Apart ==
  \A b, c \in Brokers : Through(b) /\ origin[b] = "assigned" =>
    /\ c # b /\ Through(c) => nodeId[c] # nodeId[b]
    /\ Usable(claimed[c]) => claimed[c] # nodeId[b]

\* The account of the ids that the three invariants above follow from.
NodeIdsInv ==
  /\ \A b \in Brokers : Progressed(b)
  /\ NoGapBelow /\ TakenOwned /\ Apart

\* With the types, the inductive invariant.
IInv == TypeOK /\ NodeIdsInv

-----------------------------------------------------------------------------

\* "EnsureNodeIDs guarantees every broker in the set carries a usable node.id,
\* and that the ids stay distinct" (lines 286-287); "Every pserver needs a
\* distinct, non-negative node.id or it will not start" (main.go 254).
IdsDistinct ==
  pc = "done" => \A b, c \in Brokers : b # c => nodeId[b] # nodeId[c]
=============================================================================
