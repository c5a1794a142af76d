------------------------------ MODULE FetchProofs ------------------------------
(* What holds of the broker identities for any number of broker files, and *)
(* wherever the configurations come from: the account of the ids survives   *)
(* the fetching loop.                                                       *)
EXTENDS Fetch, TLAPS

-----------------------------------------------------------------------------
(* The ids of a conversion from files.                                      *)

\* A step keeps the types.
LEMMA StepTypes ==
  ASSUME TypeOK, [Next]_vars PROVE TypeOK'
<1> USE ConstantsAssumption DEF Brokers, Turn, Usable
<1>1. CASE Parse
  <2>1. /\ i' \in Brokers /\ pc' \in {"parse", "claim"}
    BY <1>1 DEF Parse, TypeOK
  <2>2. /\ nodeKey' \in [Brokers -> Int \cup {Absent}]
        /\ brokerKey' \in [Brokers -> Int \cup {Absent}]
        /\ origin' \in [Brokers -> {"source", "broker.id", "assigned"}]
    BY <1>1, ZenonT(30) DEF Parse, TypeOK
  <2>3. QED
    BY <1>1, <2>1, <2>2 DEF Parse, TypeOK
<1>2. CASE Claim
  <2>1. \A n \in Claims : n \in Nat
    BY DEF Claims, TypeOK
  <2>2. /\ i' \in Brokers /\ pc' \in {"claim", "assign"}
    BY <1>2 DEF Claim, TypeOK
  <2>3. QED
    BY <1>2, <2>1, <2>2 DEF Claim, TypeOK
<1>3. CASE Keep
  BY <1>3 DEF Keep, TypeOK
<1>4. CASE Skip
  BY <1>4 DEF Skip, After, TypeOK
<1>5. CASE Assign
  BY <1>5 DEF Assign, Takes, TypeOK
<1>6. CASE UNCHANGED vars
  BY <1>6 DEF vars, TypeOK
<1>7. QED
  BY <1>1, <1>2, <1>3, <1>4, <1>5, <1>6 DEF Next

\* The variables keep their types in every run.
THEOREM TypeCorrect == Spec => []TypeOK
<1>1. Init => TypeOK
  BY ConstantsAssumption DEF Init, TypeOK, Brokers, Values, Asked
<1>2. QED
  BY <1>1, StepTypes, PTL DEF Spec

\* Renaming broker.id and reading the ids keep the account.
LEMMA FirstPasses ==
  ASSUME TypeOK, NodeIdsInv, Parse \/ Claim PROVE NodeIdsInv'
<1> USE ConstantsAssumption DEF Brokers, Turn, Usable, Through, Claimed, Parsed
<1>1. CASE Parse
  BY <1>1, SMTT(20) DEF Parse, NodeIdsInv, Progressed, NoGapBelow, TakenOwned, Apart, TypeOK, Asked, Renames
<1>2. CASE Claim
  BY <1>2 DEF Claim, Claims, NodeIdsInv, Progressed, NoGapBelow, TakenOwned, Apart, TypeOK
<1>3. QED
  BY <1>1, <1>2

\* A usable id is kept.
LEMMA KeepAccounts ==
  ASSUME TypeOK, NodeIdsInv, Keep PROVE NodeIdsInv'
<1> USE ConstantsAssumption DEF Brokers, Turn, Usable, Through, Claimed, Parsed
<1>1. claimed[i] = nodeKey[i] /\ origin[i] # "assigned" /\ nodeKey[i] \in taken
  BY DEF Keep, NodeIdsInv, Progressed, TypeOK
<1>2. (\A b \in Brokers : Progressed(b))'
  BY <1>1 DEF Keep, NodeIdsInv, Progressed, TypeOK
<1>3. NoGapBelow' /\ TakenOwned'
  BY DEF Keep, NodeIdsInv, NoGapBelow, TakenOwned, TypeOK
<1>4. Apart'
  BY <1>1 DEF Keep, NodeIdsInv, Apart, TypeOK
<1>5. QED
  BY <1>2, <1>3, <1>4 DEF NodeIdsInv

\* A free id is assigned: nobody claims it, and no one before has it.
LEMMA AssignAccounts ==
  ASSUME TypeOK, NodeIdsInv, Assign PROVE NodeIdsInv'
<1> USE ConstantsAssumption DEF Brokers, Turn, Usable, Through, Claimed, Parsed
<1>1. /\ ~Usable(claimed[i]) /\ origin[i] # "assigned" /\ next \notin taken
      /\ i \in Brokers /\ pc = "assign" /\ next \in Nat
  BY DEF Assign, NodeIdsInv, Progressed, TypeOK
<1>2. (\A b \in Brokers : Progressed(b))'
  BY <1>1 DEF Assign, Takes, NodeIdsInv, Progressed, TypeOK
<1>3. NoGapBelow' /\ TakenOwned'
  <2> HIDE DEF Usable
  <2>0. /\ claimed' = claimed /\ taken' = taken \cup {next} /\ next' = next
        /\ nodeId' = [nodeId EXCEPT ![i] = next] /\ pc' \in {"assign", "done"}
    BY <1>1 DEF Assign, Takes
  <2>1. NoGapBelow'
    BY <2>0, <1>1 DEF NodeIdsInv, NoGapBelow
  <2>2. \A b \in Brokers : b = i => Through(b)' /\ nodeId'[b] = next
    BY <2>0, <1>1 DEF Assign, TypeOK
  <2>3. \A b \in Brokers : Through(b) => b # i /\ Through(b)'
    BY <1>1 DEF Assign, TypeOK
  <2>4. ASSUME NEW n \in taken
        PROVE \E b \in Brokers : (claimed'[b] = n /\ Usable(claimed'[b])) \/ (Through(b)' /\ nodeId'[b] = n)
    <3>1. PICK b \in Brokers : (claimed[b] = n /\ Usable(claimed[b])) \/ (Through(b) /\ nodeId[b] = n)
      BY DEF NodeIdsInv, TakenOwned
    <3>2. CASE claimed[b] = n /\ Usable(claimed[b])
      BY <2>0, <3>2
    <3>3. CASE Through(b) /\ nodeId[b] = n
      <4>1. Through(b)' /\ nodeId'[b] = nodeId[b]
        BY <2>0, <2>3, <3>3 DEF TypeOK
      <4>2. QED
        BY <4>1, <3>3
    <3>4. QED
      BY <3>1, <3>2, <3>3
  <2>5. TakenOwned'
    BY <1>1, <2>0, <2>2, <2>4 DEF TakenOwned
  <2>6. QED
    BY <2>1, <2>5
<1>4. \A c \in Brokers :
        /\ Through(c) => nodeId[c] # next
        /\ Usable(claimed[c]) => claimed[c] # next
  BY <1>1 DEF NodeIdsInv, Progressed
<1>5. ASSUME NEW b \in Brokers, NEW c \in Brokers, Through(b)', origin'[b] = "assigned"
      PROVE /\ c # b /\ Through(c)' => nodeId'[c] # nodeId'[b]
            /\ Usable(claimed'[c]) => claimed'[c] # nodeId'[b]
  <2>1. CASE b = i
    BY <1>1, <1>4, <1>5, <2>1 DEF Assign, TypeOK
  <2>2. CASE b # i
    <3>1. Through(b) /\ origin[b] = "assigned" /\ nodeId'[b] = nodeId[b]
      BY <1>1, <1>5, <2>2 DEF Assign, TypeOK
    <3>2. Usable(claimed'[c]) => claimed'[c] # nodeId'[b]
      BY <3>1 DEF Assign, NodeIdsInv, Apart
    <3>3. CASE c = i
      BY <1>1, <1>4, <3>1, <3>2, <3>3 DEF Assign, TypeOK
    <3>4. CASE c # i
      BY <1>1, <3>1, <3>2, <3>4 DEF Assign, TypeOK, NodeIdsInv, Apart
    <3>5. QED
      BY <3>3, <3>4
  <2>3. QED
    BY <2>1, <2>2
<1>6. Apart'
  BY <1>5 DEF Apart
<1>7. QED
  BY <1>2, <1>3, <1>6 DEF NodeIdsInv

\* A step keeps the account.
LEMMA StepAccounts ==
  ASSUME TypeOK, NodeIdsInv, [Next]_vars PROVE NodeIdsInv'
<1>1. CASE Skip
  BY <1>1, ConstantsAssumption
     DEF Skip, After, NodeIdsInv, Progressed, NoGapBelow, TakenOwned, Apart, Through,
         Claimed, Parsed, TypeOK
<1>2. CASE UNCHANGED vars
  BY <1>2 DEF vars, NodeIdsInv, Progressed, NoGapBelow, TakenOwned, Apart, Through,
              Claimed, Parsed, Asked
<1>3. QED
  BY <1>1, <1>2, FirstPasses, KeepAccounts, AssignAccounts DEF Next

\* The account holds at the start, when the files are about to be read.
LEMMA InitAccounts ==
  ASSUME Init PROVE TypeOK /\ NodeIdsInv
<1>1. TypeOK
  BY ConstantsAssumption DEF Init, TypeOK, Brokers, Values, Asked
<1>2. NodeIdsInv
  BY ConstantsAssumption
     DEF Init, NodeIdsInv, Progressed, NoGapBelow, TakenOwned, Apart, Through, Claimed,
         Parsed, Brokers, Asked
<1>3. QED
  BY <1>1, <1>2

\* The account of the taken ids holds in every run.
THEOREM IdsAccounted == Spec => []NodeIdsInv
  BY InitAccounts, StepAccounts, TypeCorrect, PTL DEF Spec

\* The inductive invariant holds in every state of every run.
THEOREM InductiveInvariant == Spec => []IInv
  BY TypeCorrect, IdsAccounted, PTL DEF IInv

\* Any cluster leaves with usable ids, and with the ones its files asked for.
THEOREM UsableIds == Spec => []IdsUsable
<1>1. TypeOK /\ NodeIdsInv => IdsUsable
  BY DEF TypeOK, NodeIdsInv, Progressed, IdsUsable, Through, Usable
<1>2. QED
  BY <1>1, TypeCorrect, IdsAccounted, PTL

\* No id the tool picks is another broker's.
THEOREM DistinctAssignedIds == Spec => []AssignedIdsDistinct
<1>1. NodeIdsInv => AssignedIdsDistinct
  BY DEF NodeIdsInv, Apart, AssignedIdsDistinct, Through
<1>2. QED
  BY <1>1, IdsAccounted, PTL

\* Every smaller positive id is another broker's.
THEOREM LowestAssignedIds == Spec => []AssignedIdsLowest
<1>1. TypeOK /\ NodeIdsInv => AssignedIdsLowest
  <2> SUFFICES ASSUME TypeOK, NodeIdsInv, pc = "done", NEW b \in Brokers,
                      origin[b] = "assigned", NEW n \in 1..(nodeId[b] - 1)
               PROVE \E c \in Brokers : nodeId[c] = n
    BY DEF AssignedIdsLowest
  <2>1. n \in taken
    BY DEF NodeIdsInv, Progressed, NoGapBelow, TypeOK
  <2>2. PICK c \in Brokers : (claimed[c] = n /\ Usable(claimed[c])) \/ nodeId[c] = n
    BY <2>1 DEF NodeIdsInv, TakenOwned
  <2>3. QED
    BY <2>2 DEF NodeIdsInv, Progressed, Through
<1>2. QED
  BY <1>1, TypeCorrect, IdsAccounted, PTL

-----------------------------------------------------------------------------
(* The ids of fetched configurations.                                       *)

\* While the loop runs nothing is claimed yet, and each address that a broker
\* advertises has asked for the id of that broker's configuration.
Fetching ==
  /\ phase \in {"files", "fetching", "fetched", "failed"}
  /\ phase = "fetching" => pc = "claim" /\ i = 1 /\ taken = {} /\ next = 1 /\ j \in Brokers
  /\ phase # "files" =>
       /\ addrs \in [Brokers -> 0..MaxId] /\ live \subseteq 0..MaxId
       /\ \A b \in live : /\ FetchedId(b) \in {b, -1}
                          /\ reported[b].broker \in {b, -1, Absent}
       /\ \A k \in Brokers : (phase = "fetched" \/ (phase = "fetching" /\ k < j)) /\ addrs[k] \in live =>
            claimed[k] = FetchedId(addrs[k])

FetchIInv == TypeOK /\ NodeIdsInv /\ Fetching

\* Both sources start with a sound account.
LEMMA FetchStarts ==
  ASSUME FetchInit PROVE FetchIInv
<1>1. CASE FromFiles
  BY <1>1, InitAccounts DEF FromFiles, FetchIInv, Fetching
<1>2. CASE FromBrokers
  <2>1. TypeOK
    BY <1>2, ConstantsAssumption DEF FromBrokers, TypeOK, Brokers
  <2>2. NodeIdsInv
    BY <1>2, ConstantsAssumption
       DEF FromBrokers, NodeIdsInv, Progressed, NoGapBelow, TakenOwned, Apart, Through, Claimed,
           Parsed, Brokers, Usable
  <2>3. \A b \in live : /\ FetchedId(b) \in {b, -1}
                        /\ reported[b].broker \in {b, -1, Absent}
    <3>1. ASSUME NEW b \in live
          PROVE reported[b].node \in {b, Absent} /\ reported[b].broker \in {b, -1, Absent}
      BY <1>2 DEF FromBrokers
    <3>2. QED
      BY <3>1 DEF FetchedId, Asked
  <2>4. live \subseteq 0..MaxId /\ addrs \in [Brokers -> 0..MaxId]
    BY <1>2, LiveIdsAssumption DEF FromBrokers
  <2>5. 1 \in Brokers /\ j = 1
    BY ConstantsAssumption DEF Brokers, FetchInit
  <2>6. Fetching
    BY <1>2, <2>3, <2>4, <2>5, ConstantsAssumption DEF FromBrokers, Fetching, Brokers
  <2>7. QED
    BY <2>1, <2>2, <2>6 DEF FetchIInv
<1>3. QED
  BY <1>1, <1>2 DEF FetchInit

\* Fetching one configuration keeps the account.
LEMMA FetchKeeps ==
  ASSUME FetchIInv, FetchBrokerConfig PROVE FetchIInv'
<1> USE ConstantsAssumption
<1>1. PICK b \in BrokersAt(addrs[j]) :
        /\ nodeKey' = [nodeKey EXCEPT ![j] = FetchedId(b)]
        /\ brokerKey' = [brokerKey EXCEPT ![j] =
             IF reported[b].node = Absent THEN Absent ELSE reported[b].broker]
        /\ origin' = [origin EXCEPT ![j] =
             IF reported[b].node = Absent /\ reported[b].broker # Absent
             THEN "broker.id" ELSE "source"]
        /\ claimed' = [claimed EXCEPT ![j] = FetchedId(b)]
  BY DEF FetchBrokerConfig
<1>2. b \in live /\ j \in Brokers /\ phase = "fetching"
  BY <1>1 DEF FetchBrokerConfig, BrokersAt, FetchIInv, Fetching
<1>3. FetchedId(b) \in Int
  BY <1>2 DEF FetchIInv, Fetching
<1>4. /\ nodeId' = nodeId /\ taken' = taken /\ next' = next /\ pc' = pc /\ i' = i
      /\ live' = live /\ reported' = reported /\ addrs' = addrs
      /\ pc = "claim" /\ i = 1 /\ taken = {} /\ next = 1
  BY <1>2 DEF FetchBrokerConfig, FetchIInv, Fetching, cluster
<1>5. TypeOK'
  <2>1. /\ nodeKey' \in [Brokers -> Int \cup {Absent}]
        /\ claimed' \in [Brokers -> Int \cup {Absent}]
    BY <1>1, <1>2, <1>3 DEF FetchIInv, TypeOK
  <2>2. reported[b].broker \in Int \cup {Absent}
    BY <1>2 DEF FetchIInv, Fetching
  <2>3. brokerKey' \in [Brokers -> Int \cup {Absent}]
    BY <1>1, <1>2, <2>2 DEF FetchIInv, TypeOK
  <2>4. origin' \in [Brokers -> {"source", "broker.id", "assigned"}]
    BY <1>1, <1>2 DEF FetchIInv, TypeOK
  <2>5. QED
    BY <1>4, <2>1, <2>3, <2>4 DEF FetchIInv, TypeOK
<1>6. NodeIdsInv'
  <2>1. ASSUME NEW k \in Brokers PROVE Progressed(k)'
    <3>1. ~Through(k) /\ ~Through(k)' /\ ~Claimed(k)' /\ Parsed(k)'
      BY <1>4 DEF Through, Claimed, Parsed, Brokers
    <3>2. origin'[k] # "assigned" /\ claimed'[k] = nodeKey'[k]
      BY <1>1, <1>2, <1>4, <3>1 DEF FetchIInv, NodeIdsInv, Progressed, TypeOK, Parsed
    <3>3. QED
      BY <3>1, <3>2 DEF Progressed
  <2>2. NoGapBelow' /\ TakenOwned'
    BY <1>4 DEF NoGapBelow, TakenOwned
  <2>3. Apart'
    BY <1>4 DEF Apart, Through, Brokers
  <2>4. QED
    BY <2>1, <2>2, <2>3 DEF NodeIdsInv
<1>7. Fetching'
  <2>1. \A c \in live : FetchedId(c)' = FetchedId(c)
    BY <1>4 DEF FetchedId
  <2>2. \/ phase' = "fetching" /\ j' = j + 1 /\ j < N
        \/ phase' = "fetched" /\ j' = j /\ j >= N
    BY <1>2 DEF FetchBrokerConfig, Brokers
  <2>3. addrs[j] \in live => b = addrs[j]
    BY <1>1 DEF BrokersAt
  <2>4. ASSUME NEW k \in Brokers, phase' = "fetched" \/ k < j', addrs[k] \in live
        PROVE claimed'[k] = FetchedId(addrs[k])
    <3>1. k < j \/ k = j
      BY <1>2, <2>2, <2>4 DEF Brokers
    <3>2. QED
      BY <1>1, <1>2, <2>3, <3>1, <2>4 DEF FetchIInv, Fetching, TypeOK
  <2>5. phase' = "fetching" => j' \in Brokers
    BY <1>2, <2>2 DEF Brokers
  <2>6. QED
    BY <1>2, <1>4, <2>1, <2>2, <2>4, <2>5 DEF FetchIInv, Fetching
<1>8. QED
  BY <1>5, <1>6, <1>7 DEF FetchIInv

\* The account holds in every run, from files or from brokers.
THEOREM FetchAccounted == FetchSpec => []FetchIInv
<1>1. FetchIInv /\ [FetchNext]_allVars => FetchIInv'
  <2> SUFFICES ASSUME FetchIInv, [FetchNext]_allVars PROVE FetchIInv'
    OBVIOUS
  <2>1. CASE FetchFails
    <3>1. UNCHANGED vars /\ UNCHANGED <<live, reported, addrs>> /\ phase' = "failed"
      BY <2>1 DEF FetchFails, cluster
    <3>2. TypeOK' /\ NodeIdsInv'
      BY <3>1, StepTypes, StepAccounts DEF FetchIInv
    <3>3. Fetching'
      BY <2>1, <3>1 DEF FetchFails, FetchIInv, Fetching, FetchedId
    <3>4. QED
      BY <3>2, <3>3 DEF FetchIInv
  <2>2. CASE Ensure
    <3>1. TypeOK' /\ NodeIdsInv'
      BY <2>2, StepTypes, StepAccounts DEF Ensure, FetchIInv
    <3>2. claimed' = claimed
      <4>1. Next
        BY <2>2 DEF Ensure
      <4>2. CASE Parse
        BY <4>2 DEF Parse
      <4>3. CASE Claim \/ Keep \/ Skip \/ Assign
        BY <4>3 DEF Claim, Keep, Skip, Assign
      <4>4. QED
        BY <4>1, <4>2, <4>3 DEF Next
    <3>3. Fetching'
      BY <2>2, <3>2 DEF Ensure, FetchIInv, Fetching, FetchedId, fetchVars, cluster
    <3>4. QED
      BY <3>1, <3>3 DEF FetchIInv
  <2>3. CASE UNCHANGED allVars
    <3>1. UNCHANGED vars /\ UNCHANGED fetchVars
      BY <2>3 DEF allVars
    <3>2. TypeOK' /\ NodeIdsInv'
      BY <3>1, StepTypes, StepAccounts DEF FetchIInv
    <3>3. Fetching'
      BY <3>1 DEF vars, fetchVars, cluster, FetchIInv, Fetching, FetchedId
    <3>4. QED
      BY <3>2, <3>3 DEF FetchIInv
  <2>4. QED
    BY <2>1, <2>2, <2>3, FetchKeeps DEF FetchNext
<1>2. QED
  BY <1>1, FetchStarts, PTL DEF FetchSpec

\* The inductive invariant of NodeIds holds with either source.
THEOREM FetchedIdsAccounted == FetchSpec => []IInv
<1>1. FetchIInv => IInv
  BY DEF FetchIInv, IInv
<1>2. QED
  BY <1>1, FetchAccounted, PTL

\* No id the tool picks is another broker's, with either source.
THEOREM FetchedAssignedDistinct == FetchSpec => []AssignedIdsDistinct
<1>1. FetchIInv => AssignedIdsDistinct
  BY DEF FetchIInv, NodeIdsInv, Apart, AssignedIdsDistinct, Through
<1>2. QED
  BY <1>1, FetchAccounted, PTL

\* Brokers addressed by what they advertise keep their ids, and stay apart.
THEOREM AddressedKept == FetchSpec => []AddressedKeepIdentity
<1>1. FetchIInv => AddressedKeepIdentity
  <2> SUFFICES ASSUME FetchIInv, pc = "done", phase = "fetched",
                      NEW k \in Brokers, addrs[k] \in live
               PROVE /\ FetchedId(addrs[k]) # -1 => nodeId[k] = addrs[k]
                     /\ \A m \in Brokers : addrs[m] \in live \ {addrs[k]} => nodeId[m] # nodeId[k]
    BY DEF AddressedKeepIdentity
  <2>1. ASSUME NEW m \in Brokers, addrs[m] \in live
        PROVE origin[m] # "assigned" => nodeId[m] = addrs[m]
    <3>1. claimed[m] \in {addrs[m], -1}
      BY <2>1 DEF FetchIInv, Fetching
    <3>2. Through(m)
      BY DEF Through
    <3>3. nodeId[m] \in Nat
      BY <3>2 DEF FetchIInv, TypeOK, NodeIdsInv, Progressed
    <3>4. QED
      BY <3>1, <3>2, <3>3 DEF FetchIInv, NodeIdsInv, Progressed
  <2>2. FetchedId(addrs[k]) # -1 => nodeId[k] = addrs[k]
    <3>1. FetchedId(addrs[k]) # -1 => claimed[k] = addrs[k] /\ addrs[k] \in Nat
      BY DEF FetchIInv, Fetching
    <3>2. addrs[k] \in Nat => addrs[k] # Absent /\ addrs[k] >= 0
      BY ConstantsAssumption
    <3>3. FetchedId(addrs[k]) # -1 => Usable(claimed[k])
      BY <3>1, <3>2 DEF Usable
    <3>4. QED
      BY <2>1, <3>3 DEF FetchIInv, NodeIdsInv, Progressed
  <2>3. ASSUME NEW m \in Brokers, addrs[m] \in live, addrs[m] # addrs[k]
        PROVE nodeId[m] # nodeId[k]
    <3>1. Through(m) /\ Through(k) /\ m # k
      BY <2>3 DEF Through
    <3>2. CASE origin[m] = "assigned" \/ origin[k] = "assigned"
      BY <3>1, <3>2 DEF FetchIInv, NodeIdsInv, Apart
    <3>3. CASE origin[m] # "assigned" /\ origin[k] # "assigned"
      BY <2>1, <2>3, <3>3
    <3>4. QED
      BY <3>2, <3>3
  <2>4. QED
    BY <2>2, <2>3
<1>2. QED
  BY <1>1, FetchAccounted, PTL
=============================================================================
