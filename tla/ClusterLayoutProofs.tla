------------------------- MODULE ClusterLayoutProofs -------------------------
(* The shards of the realm partition the pservers of the YAML, for any     *)
(* number of brokers, any lists and any ports.                             *)
EXTENDS ClusterLayout, FiniteSetTheorems, TLAPS

\* The names and addresses a list stands for.
LEMMA ParsedType ==
  ASSUME NEW list \in Seq(ListEntry), NEW k \in 1..Len(list)
  PROVE  /\ Parsed(list)[k].name \in Names
         /\ Parsed(list)[k].addr \in Address
<1>1. list[k].name \in Names \cup {Bare} /\ list[k].addr \in Address /\ k \in Nat \ {0}
  <2>1. list[k] \in ListEntry /\ k \in Nat \ {0}
    OBVIOUS
  <2>2. QED
    BY <2>1 DEF ListEntry
<1>2. <<"SRV", k>> \in Names
  BY <1>1, ConstantsAssumption DEF Names
<1>3. Name(list, k) \in Names
  BY <1>1, <1>2 DEF Name
<1>4. Parsed(list)[k] = [name |-> Name(list, k), addr |-> list[k].addr]
  BY DEF Parsed
<1>5. QED
  BY <1>1, <1>3, <1>4

\* An element of a sequence over S is in S.
LEMMA ElementType ==
  ASSUME NEW S, NEW list \in Seq(S), NEW k \in 1..Len(list) PROVE list[k] \in S
OBVIOUS

\* Every port of a list of ports is one.
LEMMA PortOfList ==
  ASSUME NEW list \in Seq(5700..5799), NEW k \in 1..Len(list) PROVE list[k] \in Nat
<1> DEFINE S == 5700..5799
<1>1. list \in Seq(S)
  OBVIOUS
<1>2. \A p \in S : p \in Nat
  OBVIOUS
<1> HIDE DEF S
<1>3. QED
  BY <1>1, <1>2, ElementType

\* A draw is an offset below a hundred.
LEMMA DrawType ==
  ASSUME NEW m \in 1..MaxServers, NEW k \in 1..(2 * m), NEW d \in Draws[k] PROVE d \in 0..99
<1> DEFINE top == 1..(2 * MaxServers)
           offsets == 0..99
<1>1. k \in top
  <2>1. MaxServers \in Nat /\ m \in Nat /\ m <= MaxServers
    BY ConstantsAssumption
  <2>2. QED
    BY <2>1
<1>2. Draws \in [top -> SUBSET offsets]
  BY ConstantsAssumption
<1> HIDE DEF top, offsets
<1>3. d \in offsets
  BY <1>1, <1>2
<1>4. QED
  BY <1>3 DEF offsets

\* The entry of a server that is written.
LEMMA EntryTypes ==
  ASSUME TypeOK, Len(realmPorts) \in Nat, Len(pserverPorts) = n, NEW k \in 1..n
  PROVE  /\ ServerName(k) \in Names /\ DRServerName(k) \in Names
         /\ OwnAddress(k, Cores) \in Address \cup {<<>>}
         /\ OwnAddress(k, drList) \in Address \cup {<<>>}
<1>1. /\ coreList \in Seq(ListEntry) /\ drList \in Seq(ListEntry)
      /\ n \in Nat \ {0} /\ k \in Nat \ {0}
  BY ConstantsAssumption DEF TypeOK
<1>2. <<"SRV", k>> \in Names /\ <<"DRSRV", k>> \in Names
  BY <1>1, ConstantsAssumption DEF Names
<1>3. <<"host", pserverPorts[k]>> \in Address
  <2>1. pserverPorts \in Seq(5700..5799) /\ k \in 1..Len(pserverPorts)
    BY DEF TypeOK
  <2>2. QED
    BY <2>1, PortOfList DEF Address
<1>4. OwnAddress(k, Cores) \in Address \cup {<<>>} /\ OwnAddress(k, drList) \in Address \cup {<<>>}
  BY <1>3 DEF OwnAddress
<1>5. DRServerName(k) \in Names
  BY <1>1, <1>2, ParsedType DEF DRServerName
<1>6. ServerName(k) \in Names
  <2>1. CASE coreList = <<>>
    BY <1>1, <1>2, <2>1 DEF ServerName, Cores, CoreCount, AtMost
  <2>2. CASE coreList # <<>>
    <3>1. Cores = Parsed(coreList) /\ Len(Cores) = Len(coreList)
      BY <1>1, <2>2 DEF Cores, Parsed
    <3>2. QED
      BY <1>1, <1>2, <3>1, ParsedType DEF ServerName
  <2>3. QED
    BY <2>1, <2>2
<1>7. QED
  BY <1>4, <1>5, <1>6

\* The variables keep their types.
THEOREM TypeCorrect == Spec => [](TypeOK /\ PortsInv)
<1>1. Init => TypeOK /\ PortsInv
  BY DEF Init, TypeOK, PortsInv
<1>2. TypeOK /\ PortsInv /\ [Next]_vars => TypeOK' /\ PortsInv'
  <2> SUFFICES ASSUME TypeOK, PortsInv, [Next]_vars PROVE TypeOK' /\ PortsInv'
    OBVIOUS
  <2> USE DEF flags, ports, files
  <2>0. n \in Nat \ {0}
    BY ConstantsAssumption DEF TypeOK
  <2>1. CASE ResolveFactor
    <3>1. ResolvedFactor \in Factors
      BY <2>1 DEF ResolvedFactor, Factors, TypeOK
    <3>2. pc' \in {"ports", "rejected"} /\ (pc' = "ports" => n % factor' = 0) /\ factor' \in Factors
      BY <2>1, <3>1 DEF ResolveFactor, Divisible
    <3>3. UNCHANGED <<n, coreList, drList, realmPorts, pserverPorts, servers, drServers, shards>>
      BY <2>1 DEF ResolveFactor
    <3>4. TypeOK'
      BY <3>2, <3>3 DEF TypeOK, Entry
    <3>5. PortsInv'
      BY <2>1, <3>2, <3>3 DEF PortsInv, ResolveFactor
    <3>6. QED
      BY <3>4, <3>5
  <2>2. CASE PickRealmPort
    <3>1. PICK d \in Draws[Len(realmPorts) + 1] : realmPorts' = Append(realmPorts, 5600 + d)
      BY <2>2 DEF PickRealmPort
    <3>2. Len(realmPorts) \in Nat /\ Len(realmPorts) < n
      BY <2>2 DEF PickRealmPort, TypeOK
    <3>3. d \in 0..99
      <4>1. n \in 1..MaxServers /\ Len(realmPorts) + 1 \in 1..(2 * n)
        BY <2>0, <3>2 DEF TypeOK
      <4>2. QED
        BY <3>1, <4>1, DrawType
    <3>4. realmPorts' \in Seq(5600..5699)
      BY <3>1, <3>3 DEF TypeOK
    <3>5. QED
      BY <2>2, <3>4 DEF PickRealmPort, TypeOK, PortsInv, Entry
  <2>3. CASE PickPserverPort
    <3>1. PICK d \in Draws[n + Len(pserverPorts) + 1] : pserverPorts' = Append(pserverPorts, 5700 + d)
      BY <2>3 DEF PickPserverPort
    <3>2. Len(pserverPorts) \in Nat /\ Len(pserverPorts) < n
      BY <2>3 DEF PickPserverPort, TypeOK
    <3>3. d \in 0..99
      <4>1. n \in 1..MaxServers /\ n + Len(pserverPorts) + 1 \in 1..(2 * n)
        BY <2>0, <3>2 DEF TypeOK
      <4>2. QED
        BY <3>1, <4>1, DrawType
    <3>4. pserverPorts' \in Seq(5700..5799)
      BY <3>1, <3>3 DEF TypeOK
    <3>5. QED
      BY <2>3, <3>4 DEF PickPserverPort, TypeOK, PortsInv, Entry
  <2>4. CASE PortsPicked
    <3>1. UNCHANGED <<n, factor, coreList, drList, realmPorts, pserverPorts, servers, drServers, shards>>
      BY <2>4 DEF PortsPicked
    <3>2. pc' = "yaml" /\ factor \in Factors /\ n % factor = 0
      BY <2>4 DEF PortsPicked, TypeOK
    <3>3. TypeOK'
      BY <3>1, <3>2 DEF TypeOK, Entry
    <3>4. PortsInv'
      <4>1. Len(pserverPorts) = n
        BY <2>4 DEF PortsPicked
      <4>2. Len(realmPorts) = n
        BY <2>4 DEF PortsPicked, PortsInv
      <4>3. QED
        BY <3>1, <4>1, <4>2 DEF PortsInv
    <3>5. QED
      BY <3>3, <3>4
  <2>5. CASE WriteServer
    <3>1. Len(servers) + 1 \in 1..n /\ Len(realmPorts) \in Nat /\ Len(pserverPorts) = n
      BY <2>0, <2>5 DEF WriteServer, TypeOK, PortsInv
    <3>2. servers' \in Seq(Entry)
      <4> DEFINE k == Len(servers) + 1
      <4>1. k \in 1..n /\ <<"srv", k>> \in {"srv"} \X Nat
        BY <2>0, <3>1
      <4>2. [key |-> ServerName(k), ftl |-> OwnAddress(k, Cores), dir |-> <<"srv", k>>,
             pserver |-> k, props |-> k] \in Entry
        BY <3>1, <4>1, EntryTypes DEF Entry
      <4>3. QED
        BY <2>5, <4>2 DEF WriteServer, TypeOK
    <3>3. QED
      BY <2>5, <3>2 DEF WriteServer, TypeOK, PortsInv, Entry
  <2>6. CASE WriteDRServer
    <3>1. Len(drServers) + 1 \in 1..n /\ Len(realmPorts) \in Nat /\ Len(pserverPorts) = n
      BY <2>0, <2>6 DEF WriteDRServer, TypeOK, PortsInv
    <3>2. drServers' \in Seq(Entry)
      <4> DEFINE k == Len(drServers) + 1
      <4>1. k \in 1..n /\ <<"srv", k>> \in {"srv"} \X Nat
        BY <2>0, <3>1
      <4>2. [key |-> DRServerName(k), ftl |-> OwnAddress(k, drList), dir |-> <<"srv", k>>,
             pserver |-> k, props |-> k] \in Entry
        BY <3>1, <4>1, EntryTypes DEF Entry
      <4>3. QED
        BY <2>6, <4>2 DEF WriteDRServer, TypeOK
    <3>3. QED
      BY <2>6, <3>2 DEF WriteDRServer, TypeOK, PortsInv, Entry
  <2>7. CASE YamlWritten
    BY <2>7 DEF YamlWritten, TypeOK, PortsInv, Entry
  <2>8. CASE BuildCluster
    <3> DEFINE members == FirstPserver(Len(shards))..(EndPserver(Len(shards)) - 1)
    <3>1. factor \in {1, 3, 5} /\ Len(shards) \in Nat
      BY <2>8 DEF BuildCluster, TypeOK, Factors
    <3>2. members \subseteq 1..n
      BY <2>0, <3>1 DEF FirstPserver, EndPserver, AtMost
    <3>3. shards' \in Seq([setA : SUBSET (1..n), drSet : SUBSET (1..n)])
      BY <2>8, <3>2 DEF BuildCluster, TypeOK
    <3>4. QED
      BY <2>8, <3>3 DEF BuildCluster, TypeOK, PortsInv, Entry
  <2>9. CASE RealmWritten
    BY <2>9 DEF RealmWritten, TypeOK, PortsInv, Entry
  <2>10. CASE UNCHANGED vars
    BY <2>10 DEF vars, TypeOK, PortsInv, Entry
  <2>11. QED
    BY <2>1, <2>2, <2>3, <2>4, <2>5, <2>6, <2>7, <2>8, <2>9, <2>10 DEF Next
<1>3. QED
  BY <1>1, <1>2, PTL DEF Spec

-----------------------------------------------------------------------------
(* The shards.                                                             *)

\* Cluster c of a whole number of shards ends at a multiple of the factor.
LEMMA Bounds ==
  ASSUME TypeOK, pc \notin {"factor", "rejected"}
  PROVE  /\ factor \in {1, 3, 5} /\ n \in Nat \ {0}
         /\ ClusterCount \in Nat \ {0} /\ n = ClusterCount * factor
<1>1. factor \in {1, 3, 5} /\ n \in Nat \ {0} /\ n % factor = 0
  BY ConstantsAssumption DEF TypeOK, Factors
<1>2. n = (n \div factor) * factor
  BY <1>1
<1>3. n \div factor \in Nat \ {0}
  BY <1>1
<1>4. QED
  BY <1>1, <1>2, <1>3 DEF ClusterCount

\* The members of a shard: factor consecutive numbers, all of them servers'.
LEMMA Members ==
  ASSUME TypeOK, pc \notin {"factor", "rejected"}, NEW c \in 0..(ClusterCount - 1)
  PROVE  FirstPserver(c)..(EndPserver(c) - 1) = (c * factor + 1)..(c * factor + factor)
<1>1. /\ factor \in {1, 3, 5} /\ n \in Nat \ {0}
      /\ ClusterCount \in Nat \ {0} /\ n = ClusterCount * factor
  BY Bounds
<1>2. c * factor + factor <= n
  BY <1>1
<1>3. QED
  BY <1>1, <1>2 DEF FirstPserver, EndPserver, AtMost

\* The loops agree through the pservers' numbers.
THEOREM LayoutInvariant == Spec => []LayoutInv
<1>1. Init => LayoutInv
  BY ConstantsAssumption DEF Init, LayoutInv
<1>2. TypeOK /\ LayoutInv /\ [Next]_vars => LayoutInv'
  <2> SUFFICES ASSUME TypeOK, LayoutInv, [Next]_vars PROVE LayoutInv'
    OBVIOUS
  <2> USE DEF flags, ports, files
  <2>0. n \in Nat \ {0} /\ Len(servers) \in Nat /\ Len(shards) \in Nat
    BY ConstantsAssumption DEF TypeOK
  <2>1. CASE ResolveFactor
    BY <2>0, <2>1 DEF ResolveFactor, LayoutInv
  <2>2. CASE WriteServer
    <3>1. /\ Len(servers') = Len(servers) + 1 /\ Len(servers) < n
          /\ \A k \in 1..Len(servers) : servers'[k] = servers[k]
          /\ servers'[Len(servers) + 1].pserver = Len(servers) + 1
      BY <2>2 DEF WriteServer, TypeOK
    <3>2. Len(servers') <= n /\ \A k \in 1..Len(servers') : servers'[k].pserver = k
      BY <2>0, <3>1 DEF LayoutInv
    <3>3. QED
      BY <2>2, <3>2 DEF WriteServer, LayoutInv
  <2>3. CASE WriteDRServer
    <3>1. /\ Len(drServers') = Len(drServers) + 1 /\ Len(drServers) < n
          /\ Len(drServers) \in Nat
          /\ \A k \in 1..Len(drServers) : drServers'[k] = drServers[k]
          /\ drServers'[Len(drServers) + 1].pserver = Len(drServers) + 1
      BY <2>3 DEF WriteDRServer, TypeOK
    <3>2. ASSUME NEW k \in 1..Len(drServers') PROVE drServers'[k].pserver = k
      <4>1. k \in 1..Len(drServers) \/ k = Len(drServers) + 1
        BY <3>1
      <4>2. QED
        BY <3>1, <4>1 DEF LayoutInv
    <3>3. Len(drServers') <= n
      BY <2>0, <3>1
    <3>4. QED
      BY <2>3, <3>2, <3>3 DEF WriteDRServer, LayoutInv
  <2>4. CASE BuildCluster
    <3> DEFINE members == FirstPserver(Len(shards))..(EndPserver(Len(shards)) - 1)
    <3>1. /\ Len(shards') = Len(shards) + 1
          /\ \A c \in 1..Len(shards) : shards'[c] = shards[c]
          /\ shards'[Len(shards) + 1].setA = members
          /\ DREnabled => shards'[Len(shards) + 1].drSet = members
      BY <2>4 DEF BuildCluster, TypeOK
    <3>2. Len(shards') <= ClusterCount
      <4>1. ClusterCount \in Nat
        BY <2>4, Bounds DEF BuildCluster
      <4>2. QED
        BY <2>0, <2>4, <3>1, <4>1 DEF BuildCluster
    <3>3. ASSUME NEW c \in 1..Len(shards')
          PROVE  /\ shards'[c].setA = FirstPserver(c - 1)..(EndPserver(c - 1) - 1)
                 /\ DREnabled => shards'[c].drSet = shards'[c].setA
      <4>1. CASE c \in 1..Len(shards)
        BY <3>1, <4>1 DEF LayoutInv
      <4>2. CASE c = Len(shards) + 1
        <5>1. c - 1 = Len(shards)
          BY <2>0, <4>2
        <5>2. QED
          BY <3>1, <4>2, <5>1
      <4>3. QED
        BY <2>0, <3>1, <4>1, <4>2
    <3>4. UNCHANGED <<n, factor, pc, drList, servers, drServers>> /\ pc = "realm"
      BY <2>4 DEF BuildCluster
    <3>5. QED
      BY <3>2, <3>3, <3>4 DEF LayoutInv, ClusterCount, FirstPserver, EndPserver, DREnabled
  <2>5. CASE PickRealmPort \/ PickPserverPort \/ PortsPicked
    <3>1. UNCHANGED <<n, factor, drList, servers, drServers, shards>>
      BY <2>5 DEF PickRealmPort, PickPserverPort, PortsPicked
    <3>2. pc \in {"ports", "yaml"} /\ pc' \in {"ports", "yaml"}
      BY <2>5 DEF PickRealmPort, PickPserverPort, PortsPicked
    <3>3. QED
      BY <3>1, <3>2 DEF LayoutInv, FirstPserver, EndPserver, DREnabled
  <2>6. CASE YamlWritten
    <3>1. ClusterCount \in Nat /\ Len(servers) = n /\ shards = <<>>
      BY <2>6, Bounds DEF YamlWritten, LayoutInv
    <3>2. QED
      BY <2>6, <3>1 DEF YamlWritten, LayoutInv, ClusterCount, DREnabled
  <2>7. CASE RealmWritten
    BY <2>7 DEF RealmWritten, LayoutInv, ClusterCount, FirstPserver, EndPserver, DREnabled
  <2>8. CASE UNCHANGED vars
    BY <2>8 DEF vars, LayoutInv, ClusterCount, FirstPserver, EndPserver, DREnabled
  <2>9. QED
    BY <2>1, <2>2, <2>3, <2>4, <2>5, <2>6, <2>7, <2>8 DEF Next
<1>3. QED
  BY <1>1, <1>2, TypeCorrect, PTL DEF Spec

\* A port that is not in a list of different ports makes a longer such list.
LEMMA StillDifferent ==
  ASSUME NEW S, NEW list \in Seq(S), NEW p \in S,
         \A k \in 1..Len(list) : list[k] # p,
         \A k, l \in 1..Len(list) : k # l => list[k] # list[l]
  PROVE  \A k, l \in 1..Len(Append(list, p)) :
           k # l => Append(list, p)[k] # Append(list, p)[l]
<1>1. Len(Append(list, p)) = Len(list) + 1 /\ Len(list) \in Nat
  OBVIOUS
<1>2. \A i \in 1..(Len(list) + 1) :
        Append(list, p)[i] = IF i = Len(list) + 1 THEN p ELSE list[i]
  OBVIOUS
<1> DEFINE q == Append(list, p)
<1> HIDE DEF q
<1>3. QED
  BY <1>1, <1>2 DEF q

\* The generator never yields a port twice.
THEOREM PortsStayDifferent == Spec => []PortsDiffer
<1>1. Init => PortsDiffer
  BY DEF Init, PortsDiffer
<1>2. TypeOK /\ PortsDiffer /\ [Next]_vars => PortsDiffer'
  <2> SUFFICES ASSUME TypeOK, PortsDiffer, [Next]_vars PROVE PortsDiffer'
    OBVIOUS
  <2>2. CASE PickRealmPort
    <3>1. PICK d \in Draws[Len(realmPorts) + 1] :
             5600 + d \notin Used /\ realmPorts' = Append(realmPorts, 5600 + d)
      BY <2>2 DEF PickRealmPort
    <3>2. d \in 0..99
      <4>1. n \in 1..MaxServers /\ Len(realmPorts) \in Nat /\ Len(realmPorts) < n
        BY <2>2 DEF PickRealmPort, TypeOK
      <4>2. Len(realmPorts) + 1 \in 1..(2 * n)
        BY <4>1, ConstantsAssumption
      <4>3. QED
        BY <4>1, <4>2, DrawType
    <3>3. \A k \in 1..Len(realmPorts) : realmPorts[k] # 5600 + d
      BY <3>1 DEF Used
    <3>4. pserverPorts' = pserverPorts
      BY <2>2 DEF PickRealmPort
    <3>5. realmPorts \in Seq(5600..5699) /\ 5600 + d \in 5600..5699
      BY <3>2 DEF TypeOK
    <3>6. \A k, l \in 1..Len(realmPorts') : k # l => realmPorts'[k] # realmPorts'[l]
      <4>1. \A k, l \in 1..Len(realmPorts) : k # l => realmPorts[k] # realmPorts[l]
        BY DEF PortsDiffer
      <4>2. QED
        BY <3>1, <3>3, <3>5, <4>1, StillDifferent
    <3>7. QED
      BY <3>4, <3>6 DEF PortsDiffer
  <2>3. CASE PickPserverPort
    <3>1. PICK d \in Draws[n + Len(pserverPorts) + 1] :
             5700 + d \notin Used /\ pserverPorts' = Append(pserverPorts, 5700 + d)
      BY <2>3 DEF PickPserverPort
    <3>2. d \in 0..99
      <4>1. n \in 1..MaxServers /\ Len(pserverPorts) \in Nat /\ Len(pserverPorts) < n
        BY <2>3 DEF PickPserverPort, TypeOK
      <4>2. n + Len(pserverPorts) + 1 \in 1..(2 * n)
        BY <4>1, ConstantsAssumption
      <4>3. QED
        BY <4>1, <4>2, DrawType
    <3>3. \A k \in 1..Len(pserverPorts) : pserverPorts[k] # 5700 + d
      BY <3>1 DEF Used
    <3>4. realmPorts' = realmPorts
      BY <2>3 DEF PickPserverPort
    <3>5. pserverPorts \in Seq(5700..5799) /\ 5700 + d \in 5700..5799
      BY <3>2 DEF TypeOK
    <3>6. \A k, l \in 1..Len(pserverPorts') : k # l => pserverPorts'[k] # pserverPorts'[l]
      <4>1. \A k, l \in 1..Len(pserverPorts) : k # l => pserverPorts[k] # pserverPorts[l]
        BY DEF PortsDiffer
      <4>2. QED
        BY <3>1, <3>3, <3>5, <4>1, StillDifferent
    <3>7. QED
      BY <3>4, <3>6 DEF PortsDiffer
  <2>4. CASE UNCHANGED ports
    BY <2>4 DEF ports, PortsDiffer
  <2>5. QED
    BY <2>2, <2>3, <2>4 DEF Next, vars, ResolveFactor, PortsPicked, WriteServer, WriteDRServer,
                            YamlWritten, BuildCluster, RealmWritten
<1>3. QED
  BY <1>1, <1>2, TypeCorrect, PTL DEF Spec

\* The entries are those of the lists and the ports.
THEOREM EntriesInvariant == Spec => []EntriesInv
<1>1. Init => EntriesInv
  BY DEF Init, EntriesInv
<1>2. TypeOK /\ EntriesInv /\ [Next]_vars => EntriesInv'
  <2> SUFFICES ASSUME TypeOK, EntriesInv, [Next]_vars PROVE EntriesInv'
    OBVIOUS
  <2> USE DEF flags, ports, files
  <2>0. servers \in Seq(Entry) /\ drServers \in Seq(Entry)
    BY DEF TypeOK
  <2>1. CASE ResolveFactor \/ PickRealmPort \/ PickPserverPort \/ PortsPicked
    <3>1. servers = <<>> /\ drServers = <<>> /\ servers' = <<>> /\ drServers' = <<>>
      BY <2>1 DEF ResolveFactor, PickRealmPort, PickPserverPort, PortsPicked, EntriesInv
    <3>2. QED
      BY <3>1 DEF EntriesInv
  <2>2. CASE WriteServer
    <3>1. UNCHANGED <<coreList, drList, realmPorts, pserverPorts, drServers, pc>> /\ pc = "yaml"
      BY <2>2 DEF WriteServer
    <3>2. Cores' = Cores
      BY <3>1 DEF Cores, CoreCount, Parsed, Name
    <3>3. \A k \in 1..(Len(servers) + 1) :
            ServerName(k)' = ServerName(k) /\ OwnAddress(k, Cores)' = OwnAddress(k, Cores)
      BY <3>1, <3>2 DEF ServerName, OwnAddress
    <3>4. /\ Len(servers) \in Nat /\ Len(servers') = Len(servers) + 1
          /\ \A k \in 1..Len(servers) : servers'[k] = servers[k]
          /\ servers'[Len(servers) + 1].key = ServerName(Len(servers) + 1)
          /\ servers'[Len(servers) + 1].ftl = OwnAddress(Len(servers) + 1, Cores)
          /\ servers'[Len(servers) + 1].dir = <<"srv", Len(servers) + 1>>
      BY <2>0, <2>2 DEF WriteServer
    <3>5. ASSUME NEW k \in 1..Len(servers')
          PROVE  /\ servers'[k].key = ServerName(k) /\ servers'[k].ftl = OwnAddress(k, Cores)
                 /\ servers'[k].dir = <<"srv", k>>
      <4>1. k \in 1..Len(servers) \/ k = Len(servers) + 1
        BY <3>4
      <4>2. QED
        BY <3>4, <4>1 DEF EntriesInv
    <3>6. \A k \in 1..Len(drServers) :
            DRServerName(k)' = DRServerName(k) /\ OwnAddress(k, drList)' = OwnAddress(k, drList)
      BY <3>1 DEF DRServerName, Parsed, Name, OwnAddress
    <3>7. QED
      BY <3>1, <3>3, <3>4, <3>5, <3>6 DEF EntriesInv
  <2>3. CASE WriteDRServer
    <3>1. UNCHANGED <<coreList, drList, realmPorts, pserverPorts, servers, pc>> /\ pc = "yaml"
      BY <2>3 DEF WriteDRServer
    <3>2. Cores' = Cores
      BY <3>1 DEF Cores, CoreCount, Parsed, Name
    <3>3. \A k \in 1..Len(servers) :
            ServerName(k)' = ServerName(k) /\ OwnAddress(k, Cores)' = OwnAddress(k, Cores)
      BY <3>1, <3>2 DEF ServerName, OwnAddress
    <3>4. /\ Len(drServers) \in Nat /\ Len(drServers') = Len(drServers) + 1
          /\ \A k \in 1..Len(drServers) : drServers'[k] = drServers[k]
          /\ drServers'[Len(drServers) + 1].key = DRServerName(Len(drServers) + 1)
          /\ drServers'[Len(drServers) + 1].ftl = OwnAddress(Len(drServers) + 1, drList)
      BY <2>0, <2>3 DEF WriteDRServer
    <3>5. ASSUME NEW k \in 1..Len(drServers')
          PROVE  drServers'[k].key = DRServerName(k) /\ drServers'[k].ftl = OwnAddress(k, drList)
      <4>1. k \in 1..Len(drServers) \/ k = Len(drServers) + 1
        BY <3>4
      <4>2. QED
        BY <3>4, <4>1 DEF EntriesInv
    <3>6. \A k \in 1..Len(drServers') :
            DRServerName(k)' = DRServerName(k) /\ OwnAddress(k, drList)' = OwnAddress(k, drList)
      BY <3>1 DEF DRServerName, Parsed, Name, OwnAddress
    <3>7. QED
      BY <3>1, <3>3, <3>5, <3>6 DEF EntriesInv
  <2>4. CASE YamlWritten \/ BuildCluster \/ RealmWritten \/ UNCHANGED vars
    <3>1. UNCHANGED <<coreList, drList, realmPorts, pserverPorts, servers, drServers>>
      BY <2>4 DEF YamlWritten, BuildCluster, RealmWritten, vars
    <3>2. pc' = pc \/ pc' \in {"realm", "done"}
      BY <2>4 DEF YamlWritten, BuildCluster, RealmWritten, vars
    <3>3. Cores' = Cores
      BY <3>1 DEF Cores, CoreCount, Parsed, Name
    <3>4. \A k \in 1..Len(servers) :
            ServerName(k)' = ServerName(k) /\ OwnAddress(k, Cores)' = OwnAddress(k, Cores)
      BY <3>1, <3>3 DEF ServerName, OwnAddress
    <3>5. \A k \in 1..Len(drServers) :
            DRServerName(k)' = DRServerName(k) /\ OwnAddress(k, drList)' = OwnAddress(k, drList)
      BY <3>1 DEF DRServerName, Parsed, Name, OwnAddress
    <3>6. QED
      BY <3>1, <3>2, <3>4, <3>5 DEF EntriesInv
  <2>5. QED
    BY <2>1, <2>2, <2>3, <2>4 DEF Next
<1>3. QED
  BY <1>1, <1>2, TypeCorrect, PTL DEF Spec

\* The inductive invariant holds in every state of every run.
THEOREM InductiveInvariant == Spec => []IInv
  BY TypeCorrect, LayoutInvariant, PortsStayDifferent, EntriesInvariant, PTL DEF IInv

\* For any number of brokers and any factor the code admits, the realm and the
\* YAML agree: the shards partition the pservers that the YAML starts, into
\* sets of the size asked for.
THEOREM ShardsPartition == Spec => []ShardsPartitionPservers
<1>1. TypeOK /\ LayoutInv => ShardsPartitionPservers
  <2> SUFFICES ASSUME TypeOK, LayoutInv, pc = "done"
               PROVE  ShardsPartitionPservers
    BY DEF ShardsPartitionPservers
  <2>1. /\ factor \in {1, 3, 5} /\ n \in Nat \ {0}
        /\ ClusterCount \in Nat \ {0} /\ n = ClusterCount * factor
    BY Bounds
  <2>2. Len(shards) = ClusterCount /\ Len(servers) = n
    BY DEF LayoutInv
  <2>3. \A c \in 1..ClusterCount :
          shards[c].setA = ((c - 1) * factor + 1)..((c - 1) * factor + factor)
    <3> SUFFICES ASSUME NEW c \in 1..ClusterCount
                 PROVE shards[c].setA = ((c - 1) * factor + 1)..((c - 1) * factor + factor)
      OBVIOUS
    <3>1. c - 1 \in 0..(ClusterCount - 1)
      BY <2>1
    <3>2. shards[c].setA = FirstPserver(c - 1)..(EndPserver(c - 1) - 1)
      BY <2>2 DEF LayoutInv
    <3>3. QED
      BY <3>1, <3>2, Members
  <2>4. Hosted(servers) = 1..n
    BY <2>1, <2>2 DEF Hosted, LayoutInv
  <2>5. ASSUME NEW c \in 1..ClusterCount
        PROVE  shards[c].setA \subseteq Hosted(servers) /\ Cardinality(shards[c].setA) = factor
    <3>1. (c - 1) * factor \in Nat /\ (c - 1) * factor + factor <= n
      BY <2>1
    <3>2. shards[c].setA \subseteq Hosted(servers)
      <4> DEFINE q == (c - 1) * factor
      <4>1. q \in Nat /\ q + factor <= n /\ factor \in Nat /\ n \in Nat
        BY <2>1, <3>1
      <4>2. shards[c].setA = (q + 1)..(q + factor)
        BY <2>3
      <4> HIDE DEF q
      <4>3. QED
        BY <2>4, <4>1, <4>2
    <3> DEFINE a == (c - 1) * factor + 1
               b == (c - 1) * factor + factor
    <3>3. a \in Int /\ b \in Int /\ a <= b /\ b - a + 1 = factor
      BY <2>1, <3>1
    <3> HIDE DEF a, b
    <3>4. Cardinality(a..b) = factor
      BY <3>3, FS_Interval
    <3>5. QED
      BY <2>3, <3>2, <3>4 DEF a, b
  <2>6. ASSUME NEW k \in 1..n
        PROVE  \E c \in 1..ClusterCount : servers[k].pserver \in shards[c].setA
    <3> DEFINE c == ((k - 1) \div factor) + 1
    <3>1. c \in 1..ClusterCount /\ k \in ((c - 1) * factor + 1)..((c - 1) * factor + factor)
      BY <2>1
    <3>2. servers[k].pserver = k
      BY <2>2 DEF LayoutInv
    <3>3. QED
      BY <2>3, <3>1, <3>2
  <2>7. ASSUME NEW c \in 1..ClusterCount, NEW d \in 1..ClusterCount, c # d
        PROVE  shards[c].setA \cap shards[d].setA = {}
    <3>1. (c - 1) * factor + factor <= (d - 1) * factor \/ (d - 1) * factor + factor <= (c - 1) * factor
      BY <2>1, <2>7
    <3>2. (c - 1) * factor \in Int /\ (d - 1) * factor \in Int
      BY <2>1
    <3> DEFINE q == (c - 1) * factor
               r == (d - 1) * factor
    <3>3. shards[c].setA = (q + 1)..(q + factor) /\ shards[d].setA = (r + 1)..(r + factor)
      BY <2>3
    <3>4. q \in Int /\ r \in Int /\ factor \in Int /\ (q + factor <= r \/ r + factor <= q)
      BY <2>1, <3>1, <3>2
    <3> HIDE DEF q, r
    <3>5. QED
      BY <3>3, <3>4
  <2>8. QED
    BY <2>2, <2>5, <2>6, <2>7 DEF ShardsPartitionPservers
<1>2. QED
  BY <1>1, TypeCorrect, LayoutInvariant, PTL

\* Every shard of the realm has its replicas under the primaries' numbers, and
\* the DR YAML starts exactly those (buildDRClusterYAML, realm.go 196-221).
THEOREM ReplicasMirror == Spec => []ReplicasMirrorPrimaries
<1>1. TypeOK /\ LayoutInv /\ ShardsPartitionPservers => ReplicasMirrorPrimaries
  <2> SUFFICES ASSUME TypeOK, LayoutInv, ShardsPartitionPservers, pc = "done", DREnabled
               PROVE  /\ \A c \in 1..Len(shards) : shards[c].drSet = shards[c].setA
                      /\ UNION {shards[c].drSet : c \in 1..Len(shards)} = Hosted(drServers)
    BY DEF ReplicasMirrorPrimaries
  <2>1. \A c \in 1..Len(shards) : shards[c].drSet = shards[c].setA
    BY DEF LayoutInv
  <2>2. n \in Nat /\ Len(servers) = n /\ Len(drServers) = n
    BY ConstantsAssumption DEF TypeOK, LayoutInv
  <2>3. Hosted(drServers) = 1..n /\ Hosted(servers) = 1..n
    BY <2>2 DEF Hosted, LayoutInv
  <2>4. \A c \in 1..Len(shards) : shards[c].setA \subseteq 1..n
    BY <2>3 DEF ShardsPartitionPservers
  <2>5. \A k \in 1..n : \E c \in 1..Len(shards) : k \in shards[c].setA
    <3>1. \A k \in 1..n : servers[k].pserver = k
      BY <2>2 DEF LayoutInv
    <3>2. QED
      BY <2>2, <3>1, ZenonT(30) DEF ShardsPartitionPservers
  <2>6. QED
    BY <2>1, <2>3, <2>4, <2>5
<1>2. QED
  BY <1>1, TypeCorrect, LayoutInvariant, ShardsPartition, PTL

-----------------------------------------------------------------------------
(* The servers.                                                            *)

\* The entries of a YAML that is written: the names and addresses of a list, and
\* past its end the generated names and the pservers' own ports.
Written(list, known, word) ==
  \A k \in 1..n :
    /\ list[k].key = IF k <= Len(known) THEN known[k].name ELSE <<word, k>>
    /\ list[k].ftl = IF k <= Len(known) THEN <<>> ELSE <<"host", pserverPorts[k]>>

\* The names of a list differ from each other and from what is generated past
\* its end.
NamesDistinct(known, word) ==
  /\ \A k, l \in 1..Len(known) : k # l => known[k].name # known[l].name
  /\ \A k \in 1..Len(known), l \in 1..n : l > Len(known) => known[k].name # <<word, l>>

\* The same of its addresses.
AddressesDistinct(known) ==
  /\ \A k, l \in 1..Len(known) : k # l => known[k].addr # known[l].addr
  /\ \A k \in 1..Len(known), l \in 1..n : l > Len(known) =>
       known[k].addr # <<"host", pserverPorts[l]>>

\* A server of the list listens where the list says, one past its end where its
\* own entry does.
LEMMA WhereItListens ==
  ASSUME n \in Nat, NEW list, NEW known, NEW word, Len(known) \in Nat,
         Written(list, known, word), NamesDistinct(known, word), NEW k \in 1..n
  PROVE  ListensAt(list, known, k)
           = {IF k <= Len(known) THEN known[k].addr ELSE <<"host", pserverPorts[k]>>}
<1>1. CASE k <= Len(known)
  <2>1. list[k].ftl = <<>> /\ list[k].key = known[k].name
    BY <1>1 DEF Written
  <2>2. {l \in 1..Len(known) : known[l].name = list[k].key} = {k}
    BY <1>1, <2>1 DEF NamesDistinct
  <2>3. QED
    BY <1>1, <2>1, <2>2 DEF ListensAt
<1>2. CASE ~(k <= Len(known))
  <2>1. list[k].ftl = <<"host", pserverPorts[k]>>
    BY <1>2 DEF Written
  <2>2. <<"host", pserverPorts[k]>> # <<>>
    OBVIOUS
  <2>3. QED
    BY <1>2, <2>1, <2>2 DEF ListensAt
<1>3. QED
  BY <1>1, <1>2

\* Such a YAML gives every server a key of its own and one address.
LEMMA WrittenIdentified ==
  ASSUME n \in Nat, NEW list, NEW known, NEW word, Len(known) \in Nat,
         Written(list, known, word), NamesDistinct(known, word)
  PROVE  Identified(list, known)
<1>1. ASSUME NEW k \in 1..n PROVE Cardinality(ListensAt(list, known, k)) = 1
  <2>1. PICK a : ListensAt(list, known, k) = {a}
    BY WhereItListens
  <2>2. QED
    BY <2>1, FS_Singleton
<1>2. ASSUME NEW k \in 1..n, NEW l \in 1..n, k # l
      PROVE  list[k].key # list[l].key
  <2>1. ASSUME NEW i \in 1..n, NEW j \in 1..n, i <= Len(known), ~(j <= Len(known))
        PROVE  list[i].key # list[j].key
    <3>1. i \in 1..Len(known) /\ j > Len(known)
      BY <2>1
    <3>2. known[i].name # <<word, j>>
      BY <3>1 DEF NamesDistinct
    <3>3. list[i].key = known[i].name /\ list[j].key = <<word, j>>
      BY <2>1 DEF Written
    <3>4. QED
      BY <3>2, <3>3
  <2>2. CASE k <= Len(known) /\ l <= Len(known)
    <3>1. k \in 1..Len(known) /\ l \in 1..Len(known)
      BY <2>2
    <3>2. known[k].name # known[l].name
      BY <1>2, <3>1 DEF NamesDistinct
    <3>3. list[k].key = known[k].name /\ list[l].key = known[l].name
      BY <2>2 DEF Written
    <3>4. QED
      BY <3>2, <3>3
  <2>3. CASE ~(k <= Len(known)) /\ ~(l <= Len(known))
    <3>1. list[k].key = <<word, k>> /\ list[l].key = <<word, l>>
      BY <2>3 DEF Written
    <3>2. QED
      BY <1>2, <3>1
  <2>4. CASE k <= Len(known) /\ ~(l <= Len(known))
    BY <2>1, <2>4
  <2>5. CASE ~(k <= Len(known)) /\ l <= Len(known)
    <3>1. list[l].key # list[k].key
      BY <2>1, <2>5
    <3>2. QED
      BY <3>1
  <2>6. QED
    BY <2>2, <2>3, <2>4, <2>5
<1>3. QED
  BY <1>1, <1>2 DEF Identified

\* Where the addresses differ too, every server gets its own.
LEMMA WrittenApart ==
  ASSUME n \in Nat, NEW list, NEW known, NEW word, Len(known) \in Nat,
         Written(list, known, word), NamesDistinct(known, word), AddressesDistinct(known),
         \A k, l \in 1..n : k # l => pserverPorts[k] # pserverPorts[l]
  PROVE  Apart(list, known)
<1> DEFINE At(k) == IF k <= Len(known) THEN known[k].addr ELSE <<"host", pserverPorts[k]>>
<1>1. \A k \in 1..n : ListensAt(list, known, k) = {At(k)}
  BY WhereItListens
<1>2. ASSUME NEW k \in 1..n, NEW l \in 1..n, k # l
      PROVE  At(k) # At(l)
  <2>1. ASSUME NEW i \in 1..n, NEW j \in 1..n, i <= Len(known), ~(j <= Len(known))
        PROVE  At(i) # At(j)
    <3>1. i \in 1..Len(known) /\ j > Len(known)
      BY <2>1
    <3>2. known[i].addr # <<"host", pserverPorts[j]>>
      BY <3>1 DEF AddressesDistinct
    <3>3. At(i) = known[i].addr /\ At(j) = <<"host", pserverPorts[j]>>
      BY <2>1
    <3> HIDE DEF At
    <3>4. QED
      BY <3>2, <3>3
  <2>2. CASE k <= Len(known) /\ l <= Len(known)
    <3>1. k \in 1..Len(known) /\ l \in 1..Len(known)
      BY <2>2
    <3>2. known[k].addr # known[l].addr
      BY <1>2, <3>1 DEF AddressesDistinct
    <3>3. QED
      BY <2>2, <3>2
  <2>3. CASE ~(k <= Len(known)) /\ ~(l <= Len(known))
    <3>1. pserverPorts[k] # pserverPorts[l]
      BY <1>2
    <3>2. QED
      BY <2>3, <3>1
  <2>4. CASE k <= Len(known) /\ ~(l <= Len(known))
    BY <2>1, <2>4
  <2>5. CASE ~(k <= Len(known)) /\ l <= Len(known)
    <3>1. At(l) # At(k)
      BY <2>1, <2>5
    <3> HIDE DEF At
    <3>2. QED
      BY <3>1
  <2>6. QED
    BY <2>2, <2>3, <2>4, <2>5
<1> HIDE DEF At
<1>3. QED
  BY <1>1, <1>2 DEF Apart

\* A list of the user's is such a list, as long as its names and its addresses
\* do not clash.
LEMMA ParsedDistinct ==
  ASSUME n \in Nat, NEW list \in Seq(ListEntry), NEW word \in {"SRV", "DRSRV"},
         NamesApart(list, word)
  PROVE  /\ Len(Parsed(list)) = Len(list) /\ Len(Parsed(list)) \in Nat
         /\ NamesDistinct(Parsed(list), word)
         /\ AddressesApart(list) => AddressesDistinct(Parsed(list))
<1>1. Len(Parsed(list)) = Len(list) /\ Len(list) \in Nat
  BY DEF Parsed
<1>2. \A k \in 1..Len(list) :
        Parsed(list)[k].name = Name(list, k) /\ Parsed(list)[k].addr = list[k].addr
  BY DEF Parsed
<1>3. ASSUME NEW k \in 1..Len(list), NEW l \in 1..Len(list), k # l
      PROVE  Name(list, k) # Name(list, l)
  <2>1. CASE list[k].name # Bare /\ list[l].name # Bare
    BY <1>3, <2>1 DEF NamesApart, Name
  <2>2. CASE list[k].name = Bare /\ list[l].name = Bare
    BY <1>3, <2>2 DEF Name
  <2>3. CASE list[k].name # Bare /\ list[l].name = Bare
    <3>1. list[k].name[1] = "SRV" => list[k].name[2] = k
      BY <2>3 DEF NamesApart
    <3>2. list[k].name # <<"SRV", l>>
      BY <1>3, <3>1
    <3>3. QED
      BY <2>3, <3>2 DEF Name
  <2>4. CASE list[k].name = Bare /\ list[l].name # Bare
    <3>1. list[l].name[1] = "SRV" => list[l].name[2] = l
      BY <2>4 DEF NamesApart
    <3>2. list[l].name # <<"SRV", k>>
      BY <1>3, <3>1
    <3>3. QED
      BY <2>4, <3>2 DEF Name
  <2>5. QED
    BY <2>1, <2>2, <2>3, <2>4
<1>4. ASSUME NEW k \in 1..Len(list), NEW l \in 1..n, l > Len(list)
      PROVE  Name(list, k) # <<word, l>>
  <2>1. k # l
    BY <1>1, <1>4
  <2>2. CASE list[k].name = Bare
    BY <2>1, <2>2 DEF Name
  <2>3. CASE list[k].name # Bare
    <3>1. list[k].name[1] = word => list[k].name[2] = k
      BY <2>3 DEF NamesApart
    <3>2. list[k].name # <<word, l>>
      BY <2>1, <3>1
    <3>3. QED
      BY <2>3, <3>2 DEF Name
  <2>4. QED
    BY <2>2, <2>3
<1> DEFINE parsed == Parsed(list)
<1>5. /\ Len(parsed) = Len(list) /\ Len(parsed) \in Nat
      /\ \A k \in 1..Len(parsed) : parsed[k].name = Name(list, k) /\ parsed[k].addr = list[k].addr
  BY <1>1, <1>2
<1> HIDE DEF parsed
<1>6. NamesDistinct(parsed, word)
  <2>1. ASSUME NEW k \in 1..Len(parsed), NEW l \in 1..Len(parsed), k # l
        PROVE  parsed[k].name # parsed[l].name
    <3>1. parsed[k].name = Name(list, k) /\ parsed[l].name = Name(list, l)
      BY <1>5
    <3>2. QED
      BY <1>3, <1>5, <2>1, <3>1
  <2>2. ASSUME NEW k \in 1..Len(parsed), NEW l \in 1..n, l > Len(parsed)
        PROVE  parsed[k].name # <<word, l>>
    <3>1. parsed[k].name = Name(list, k)
      BY <1>5
    <3>2. QED
      BY <1>4, <1>5, <2>2, <3>1
  <2>3. QED
    BY <2>1, <2>2 DEF NamesDistinct
<1>7. AddressesApart(list) => AddressesDistinct(parsed)
  BY <1>5 DEF AddressesApart, AddressesDistinct
<1>8. QED
  BY <1>5, <1>6, <1>7 DEF parsed

\* For any number of brokers, any lists and any ports: where the user's names do
\* not clash, tibftlserver finds one address for every server of either YAML; where
\* the user's addresses do not clash either, no two servers get the same.
THEOREM ServersStayApart == Spec => []ServersApart
<1>1. TypeOK /\ PortsInv /\ PortsDiffer /\ EntriesInv /\ LayoutInv => ServersApart
  <2> SUFFICES ASSUME TypeOK, PortsInv, PortsDiffer, EntriesInv, LayoutInv, pc \in {"realm", "done"}
               PROVE  /\ \A k, l \in 1..n : k # l => servers[k].dir # servers[l].dir
                      /\ NamesApart(coreList, "SRV") =>
                           /\ Identified(servers, Cores)
                           /\ AddressesApart(coreList) => Apart(servers, Cores)
                      /\ DREnabled /\ NamesApart(drList, "DRSRV") =>
                           /\ Identified(drServers, Parsed(drList))
                           /\ AddressesApart(drList) => Apart(drServers, Parsed(drList))
    BY DEF ServersApart
  <2>1. /\ n \in Nat \ {0} /\ Len(servers) = n /\ Len(pserverPorts) = n
        /\ DREnabled => Len(drServers) = n
    BY ConstantsAssumption DEF TypeOK, PortsInv, LayoutInv
  <2>2. Len(realmPorts) = n
    BY <2>1 DEF PortsInv
  <2>3. /\ \A k, l \in 1..n : k # l => pserverPorts[k] # pserverPorts[l]
        /\ \A k, l \in 1..n : k # l => realmPorts[k] # realmPorts[l]
    BY <2>1, <2>2 DEF PortsDiffer
  <2>4. coreList \in Seq(ListEntry) /\ drList \in Seq(ListEntry)
    BY ConstantsAssumption DEF TypeOK
  <2>5. ASSUME NamesApart(coreList, "SRV")
        PROVE  /\ Identified(servers, Cores)
               /\ AddressesApart(coreList) => Apart(servers, Cores)
    <3>1. /\ NamesDistinct(Cores, "SRV") /\ Len(Cores) \in Nat
          /\ AddressesApart(coreList) => AddressesDistinct(Cores)
      <4>1. CASE coreList # <<>>
        <5>1. Cores = Parsed(coreList)
          BY <4>1 DEF Cores
        <5>2. QED
          BY <2>1, <2>4, <2>5, <5>1, ParsedDistinct
      <4>2. CASE coreList = <<>>
        <5>1. /\ Len(Cores) = CoreCount /\ CoreCount \in 0..n
              /\ \A k \in 1..CoreCount : /\ Cores[k].name = <<"SRV", k>>
                                         /\ Cores[k].addr = <<"host", realmPorts[k]>>
          BY <2>1, <2>2, <4>2 DEF Cores, CoreCount, AtMost
        <5>2. \A k, l \in 1..n : realmPorts[k] # pserverPorts[l]
          <6>1. ASSUME NEW k \in 1..n, NEW l \in 1..n PROVE realmPorts[k] # pserverPorts[l]
            <7>1. realmPorts \in Seq(5600..5699) /\ pserverPorts \in Seq(5700..5799)
              BY DEF TypeOK
            <7> DEFINE R == 5600..5699
                       P == 5700..5799
            <7>2. realmPorts \in Seq(R) /\ pserverPorts \in Seq(P)
              BY <7>1
            <7>3. \A r \in R, p \in P : r # p
              OBVIOUS
            <7>4. k \in 1..Len(realmPorts) /\ l \in 1..Len(pserverPorts)
              BY <2>1, <2>2
            <7> HIDE DEF R, P
            <7>5. realmPorts[k] \in R /\ pserverPorts[l] \in P
              BY <7>2, <7>4, ElementType
            <7>6. QED
              BY <7>3, <7>5
          <6>2. QED
            BY <6>1
        <5>3. QED
          BY <2>1, <2>3, <5>1, <5>2 DEF NamesDistinct, AddressesDistinct
      <4>3. QED
        BY <4>1, <4>2
    <3>2. Written(servers, Cores, "SRV")
      <4>1. \A k \in 1..n : servers[k].key = ServerName(k) /\ servers[k].ftl = OwnAddress(k, Cores)
        BY <2>1 DEF EntriesInv
      <4>2. QED
        BY <4>1 DEF Written, ServerName, OwnAddress
    <3>3. QED
      BY <2>1, <2>3, <3>1, <3>2, WrittenIdentified, WrittenApart
  <2>6. \A k, l \in 1..n : k # l => servers[k].dir # servers[l].dir
    <3>1. \A k \in 1..n : servers[k].dir = <<"srv", k>>
      BY <2>1 DEF EntriesInv
    <3>2. QED
      BY <3>1
  <2>7. ASSUME DREnabled, NamesApart(drList, "DRSRV")
        PROVE  /\ Identified(drServers, Parsed(drList))
               /\ AddressesApart(drList) => Apart(drServers, Parsed(drList))
    <3>1. /\ NamesDistinct(Parsed(drList), "DRSRV") /\ Len(Parsed(drList)) = Len(drList)
          /\ Len(Parsed(drList)) \in Nat
          /\ AddressesApart(drList) => AddressesDistinct(Parsed(drList))
      BY <2>1, <2>4, <2>7, ParsedDistinct
    <3>2. Written(drServers, Parsed(drList), "DRSRV")
      <4>1. \A k \in 1..n :
              drServers[k].key = DRServerName(k) /\ drServers[k].ftl = OwnAddress(k, drList)
        BY <2>1, <2>7 DEF EntriesInv
      <4>2. QED
        BY <3>1, <4>1 DEF Written, DRServerName, OwnAddress
    <3>3. QED
      BY <2>1, <2>3, <3>1, <3>2, WrittenIdentified, WrittenApart
  <2>8. QED
    BY <2>5, <2>6, <2>7
<1>2. QED
  BY <1>1, InductiveInvariant, PTL DEF IInv
=============================================================================
