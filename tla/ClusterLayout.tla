---------------------------- MODULE ClusterLayout ----------------------------
(***************************************************************************)
(* The cluster files of one conversion (main.go, translator/yaml.go and    *)
(* translator/realm.go): from the number of broker files and the flags to  *)
(* the tibftlserver YAML (who runs where), its DR counterpart, and the     *)
(* realm's ftlserver.json (which pserver belongs to which shard).  The     *)
(* three are written one after the other by loops that never see each      *)
(* other's output and agree only through the pservers' numbers.            *)
(*                                                                         *)
(* A server name is a pair of a word and a number, so that <<"SRV", 2>> is *)
(* SRV2; an address is a host and a port, "host" being the one that the    *)
(* tool gives the servers itself (resolveHost).                            *)
(***************************************************************************)
EXTENDS Integers, Sequences, FiniteSets

CONSTANTS
  MaxServers,   \* bound: broker files on the command line (the code's is 9)
  CoreLists,    \* values of -core-servers: sequences of entries
  DRLists,      \* values of -dr-servers, likewise
  Bare,         \* stands for the name of an entry "host:port" without one
  Words,        \* the words of the names, SRV and DRSRV among them
  Draws         \* Draws[k]: port offsets the generator may yield for port k

Names == Words \X (Nat \ {0})
Address == {"host", "other"} \X Nat

\* NAME=host:port, or host:port. No entry is compared with another, nor with
\* what the tool generates.
ListEntry == [name : Names \cup {Bare}, addr : Address]

ASSUME ConstantsAssumption ==
  /\ MaxServers \in Nat \ {0}
  /\ "SRV" \in Words /\ "DRSRV" \in Words
  /\ CoreLists \subseteq Seq(ListEntry) /\ DRLists \subseteq Seq(ListEntry)
  /\ Draws \in [1..(2 * MaxServers) -> SUBSET (0..99)]

Factors == {1, 3, 5}

VARIABLES
  n,             \* numPservers
  factor,        \* --replication-factor, 0 when unset, then replFactor
  coreList, drList,
  pc,
  realmPorts, pserverPorts,  \* PortMap
  servers,       \* the servers: entries of the primary YAML
  drServers,     \* those of the DR YAML
  shards         \* the kof.cluster entries of the realm

flags == <<n, coreList, drList>>
ports == <<realmPorts, pserverPorts>>
files == <<servers, drServers, shards>>
vars == <<flags, factor, pc, ports, files>>

AtMost(a, b) == IF a < b THEN a ELSE b

Name(list, k) == IF list[k].name = Bare THEN <<"SRV", k>> ELSE list[k].name

\* parseCoreServers: an entry without a name is called after its position.
Parsed(list) == [k \in 1..Len(list) |-> [name |-> Name(list, k), addr |-> list[k].addr]]

DREnabled == drList # <<>>

-----------------------------------------------------------------------------
(* main.go: the replication factor and the ports.                          *)

Divisible(rf) == n % rf = 0

ResolvedFactor == IF factor # 0 THEN factor ELSE IF n = 1 THEN 1 ELSE 3

ResolveFactor ==
  /\ pc = "factor"
  /\ factor' = ResolvedFactor
  /\ pc' = IF Divisible(ResolvedFactor) THEN "ports" ELSE "rejected"
  /\ UNCHANGED <<flags, ports, files>>

UsedMutant == {}

\* "used" of generatePorts.
Used == {realmPorts[k] : k \in 1..Len(realmPorts)}
          \cup {pserverPorts[k] : k \in 1..Len(pserverPorts)}

PickRealmPort ==
  /\ pc = "ports" /\ Len(realmPorts) < n
  /\ \E d \in Draws[Len(realmPorts) + 1] :
       5600 + d \notin Used /\ realmPorts' = Append(realmPorts, 5600 + d)
  /\ UNCHANGED <<flags, factor, pc, pserverPorts, files>>

PickPserverPort ==
  /\ pc = "ports" /\ Len(realmPorts) = n /\ Len(pserverPorts) < n
  /\ \E d \in Draws[n + Len(pserverPorts) + 1] :
       5700 + d \notin Used /\ pserverPorts' = Append(pserverPorts, 5700 + d)
  /\ UNCHANGED <<flags, factor, pc, realmPorts, files>>

PortsPicked ==
  /\ pc = "ports" /\ Len(pserverPorts) = n
  /\ pc' = "yaml"
  /\ UNCHANGED <<flags, factor, ports, files>>

-----------------------------------------------------------------------------
(* yaml.go.                                                                *)

CoreCount == AtMost(3, Len(realmPorts))

\* buildCoreServers: the user's list, or three servers on realm ports.
Cores ==
  IF coreList # <<>> THEN Parsed(coreList)
  ELSE [k \in 1..CoreCount |-> [name |-> <<"SRV", k>>, addr |-> <<"host", realmPorts[k]>>]]

\* primaryServerName.
ServerName(k) == IF k <= Len(Cores) THEN Cores[k].name ELSE <<"SRV", k>>

OwnAddressMutant(k, list) == IF k <= 3 THEN <<>> ELSE <<"host", pserverPorts[k]>>

\* The servers past the list state their own address in an ftl: block.
OwnAddress(k, list) == IF k <= Len(list) THEN <<>> ELSE <<"host", pserverPorts[k]>>

WriteServer ==
  /\ pc = "yaml" /\ Len(servers) < n
  /\ LET k == Len(servers) + 1
     IN servers' = Append(servers, [key |-> ServerName(k), ftl |-> OwnAddress(k, Cores),
                                    dir |-> <<"srv", k>>, pserver |-> k, props |-> k])
  /\ UNCHANGED <<flags, factor, pc, ports, drServers, shards>>

DRServerName(k) == IF k <= Len(drList) THEN Parsed(drList)[k].name ELSE <<"DRSRV", k>>

WriteDRServer ==
  /\ pc = "yaml" /\ Len(servers) = n /\ DREnabled /\ Len(drServers) < n
  /\ LET k == Len(drServers) + 1
     IN drServers' = Append(drServers, [key |-> DRServerName(k), ftl |-> OwnAddress(k, drList),
                                        dir |-> <<"srv", k>>, pserver |-> k, props |-> k])
  /\ UNCHANGED <<flags, factor, pc, ports, servers, shards>>

YamlWrittenMutant ==
  /\ pc = "yaml" /\ Len(servers) >= CoreCount
  /\ pc' = "realm"
  /\ UNCHANGED <<flags, factor, ports, files>>

YamlWritten ==
  /\ pc = "yaml" /\ Len(servers) = n
  /\ DREnabled => Len(drServers) = n
  /\ pc' = "realm"
  /\ UNCHANGED <<flags, factor, ports, files>>

-----------------------------------------------------------------------------
(* realm.go.                                                               *)

ClusterCount == IF n \div factor < 1 THEN 1 ELSE n \div factor

\* startPserver and endPserver of cluster c, counted from 0.
FirstPserver(c) == c * factor + 1

EndPserverMutant(c) == AtMost(FirstPserver(c) + factor, n)

EndPserver(c) == AtMost(FirstPserver(c) + factor, n + 1)

\* buildKOFCluster: the primary set, and a DR set with the same numbers.
BuildCluster ==
  /\ pc = "realm" /\ Len(shards) < ClusterCount
  /\ LET members == FirstPserver(Len(shards))..(EndPserver(Len(shards)) - 1)
     IN shards' = Append(shards, [setA |-> members, drSet |-> IF DREnabled THEN members ELSE {}])
  /\ UNCHANGED <<flags, factor, pc, ports, servers, drServers>>

RealmWritten ==
  /\ pc = "realm" /\ Len(shards) = ClusterCount
  /\ pc' = "done"
  /\ UNCHANGED <<flags, factor, ports, files>>

Init ==
  /\ n \in 1..MaxServers /\ factor \in Factors \cup {0}
  /\ coreList \in CoreLists /\ drList \in DRLists
  /\ pc = "factor"
  /\ realmPorts = <<>> /\ pserverPorts = <<>>
  /\ servers = <<>> /\ drServers = <<>> /\ shards = <<>>

Next ==
  \/ ResolveFactor \/ PickRealmPort \/ PickPserverPort \/ PortsPicked
  \/ WriteServer \/ WriteDRServer \/ YamlWritten
  \/ BuildCluster \/ RealmWritten

Spec == Init /\ [][Next]_vars

-----------------------------------------------------------------------------
(* Properties.                                                             *)

Hosted(list) == {list[k].pserver : k \in 1..Len(list)}

\* An entry of servers:; an empty ftl address is one that is not stated.
Entry == [key : Names, ftl : Address \cup {<<>>}, dir : {"srv"} \X Nat,
          pserver : 1..n, props : 1..n]

\* The variables have their types.
TypeOK ==
  /\ n \in 1..MaxServers /\ factor \in Factors \cup {0}
  /\ pc \in {"factor", "rejected", "ports", "yaml", "realm", "done"}
  /\ pc \notin {"factor", "rejected"} => factor \in Factors /\ n % factor = 0
  /\ realmPorts \in Seq(5600..5699) /\ pserverPorts \in Seq(5700..5799)
  /\ coreList \in CoreLists /\ drList \in DRLists
  /\ servers \in Seq(Entry) /\ drServers \in Seq(Entry)
  /\ shards \in Seq([setA : SUBSET (1..n), drSet : SUBSET (1..n)])

\* Once both files are out, the realm puts every pserver that the YAML starts
\* into exactly one shard, every shard has as many members as the replication
\* factor says, and no shard names a pserver that no server runs
\* (realm.go 160-224, yaml.go 245-281).
ShardsPartitionPservers ==
  pc = "done" =>
    /\ \A c \in 1..Len(shards) :
         shards[c].setA \subseteq Hosted(servers) /\ Cardinality(shards[c].setA) = factor
    /\ \A k \in 1..Len(servers) :
         \E c \in 1..Len(shards) : servers[k].pserver \in shards[c].setA
    /\ \A c, d \in 1..Len(shards) : c # d => shards[c].setA \cap shards[d].setA = {}

\* In DR mode every primary pserver has its replica in the same shard, and the
\* DR YAML starts exactly the replicas the realm names.
ReplicasMirrorPrimaries ==
  pc = "done" /\ DREnabled =>
    /\ \A c \in 1..Len(shards) : shards[c].drSet = shards[c].setA
    /\ UNION {shards[c].drSet : c \in 1..Len(shards)} = Hosted(drServers)

\* A generated name keeps its position: a user's name clashes only when it is a
\* generated name of another position, or is given twice.
NamesApart(list, word) ==
  \A k \in 1..Len(list) : list[k].name # Bare =>
    /\ list[k].name[1] \in {word, "SRV"} => list[k].name[2] = k
    /\ \A l \in 1..Len(list) : l # k => list[l].name # list[k].name

\* A user's address clashes when it is given twice, or is that of the port
\* drawn for a server past the list.
AddressesApart(list) ==
  \A k \in 1..Len(list) :
    /\ \A l \in 1..Len(list) : l # k => list[l].addr # list[k].addr
    /\ \A l \in 1..n : l > Len(list) => list[k].addr # <<"host", pserverPorts[l]>>

\* Where server k listens: its ftl: block, or the core.servers entry of its name.
ListensAt(list, known, k) ==
  IF list[k].ftl # <<>> THEN {list[k].ftl}
  ELSE {known[l].addr : l \in {l \in 1..Len(known) : known[l].name = list[k].key}}

Identified(list, known) ==
  /\ \A k \in 1..n : Cardinality(ListensAt(list, known, k)) = 1
  /\ \A k, l \in 1..n : k # l => list[k].key # list[l].key

Apart(list, known) ==
  \A k, l \in 1..n : k # l => ListensAt(list, known, k) # ListensAt(list, known, l)

\* As long as the user's names are apart, tibftlserver finds one address for
\* every server of the YAML and no two servers share a key; if the user's
\* addresses are apart from each other and from the drawn ones as well, no two
\* servers get the same; and realm directories are never shared. The same of the
\* DR servers and their list (yaml.go 339-352, 249-254, 192-198, 294-337; main.go
\* 600-663).
ServersApart ==
  pc \in {"realm", "done"} =>
    /\ \A k, l \in 1..n : k # l => servers[k].dir # servers[l].dir
    /\ NamesApart(coreList, "SRV") =>
         /\ Identified(servers, Cores)
         /\ AddressesApart(coreList) => Apart(servers, Cores)
    /\ DREnabled /\ NamesApart(drList, "DRSRV") =>
         /\ Identified(drServers, Parsed(drList))
         /\ AddressesApart(drList) => Apart(drServers, Parsed(drList))

\* The loops agree through the pservers' numbers: what ShardsPartitionPservers
\* and ReplicasMirrorPrimaries follow from.
LayoutInv ==
  /\ Len(servers) <= n /\ \A k \in 1..Len(servers) : servers[k].pserver = k
  /\ Len(drServers) <= n /\ \A k \in 1..Len(drServers) : drServers[k].pserver = k
  /\ pc \in {"realm", "done"} => Len(servers) = n /\ (DREnabled => Len(drServers) = n)
  /\ pc \in {"factor", "rejected", "ports", "yaml"} => shards = <<>>
  /\ pc \in {"realm", "done"} => Len(shards) <= ClusterCount
  /\ pc = "done" => Len(shards) = ClusterCount
  /\ \A c \in 1..Len(shards) :
       /\ shards[c].setA = FirstPserver(c - 1)..(EndPserver(c - 1) - 1)
       /\ DREnabled => shards[c].drSet = shards[c].setA

\* The ports picked so far belong to existing servers.
PortsInv ==
  /\ Len(realmPorts) <= n /\ Len(pserverPorts) <= n
  /\ Len(pserverPorts) > 0 => Len(realmPorts) = n
  /\ pc \in {"yaml", "realm", "done"} => Len(pserverPorts) = n

\* No two servers are given the same port.
PortsDiffer ==
  /\ \A k, l \in 1..Len(realmPorts) : k # l => realmPorts[k] # realmPorts[l]
  /\ \A k, l \in 1..Len(pserverPorts) : k # l => pserverPorts[k] # pserverPorts[l]

\* The entries written so far, by the lists and the ports: what ServersApart
\* follows from, with PortsDiffer.
EntriesInv ==
  /\ pc \in {"factor", "rejected", "ports"} => servers = <<>> /\ drServers = <<>>
  /\ \A k \in 1..Len(servers) :
       /\ servers[k].key = ServerName(k) /\ servers[k].ftl = OwnAddress(k, Cores)
       /\ servers[k].dir = <<"srv", k>>
  /\ \A k \in 1..Len(drServers) :
       drServers[k].key = DRServerName(k) /\ drServers[k].ftl = OwnAddress(k, drList)

\* Types, ports, entries and pserver numbers together: the inductive invariant.
IInv == TypeOK /\ PortsInv /\ PortsDiffer /\ EntriesInv /\ LayoutInv

-----------------------------------------------------------------------------
(* What the comments say and the code does not do.                         *)

\* "Generating the names keeps the servers: keys unique, which YAML requires"
\* (yaml.go 291-292).
DRKeysUnique ==
  \A k, l \in 1..Len(drServers) : k # l => drServers[k].key # drServers[l].key

\* "generatePorts picks one FTL port per pserver" (main.go 629): a port drawn for
\* a server is nobody else's, the servers that the user listed included.
DrawnPortsAreFree ==
  pc \in {"realm", "done"} /\ NamesApart(coreList, "SRV") =>
    \A k \in 1..n : servers[k].ftl # <<>> =>
      \A l \in 1..n : l # k => ListensAt(servers, Cores, l) # {servers[k].ftl}

\* "globals.core.servers names only the first shard" (yaml.go 160-161).
CoreServersAreFirstShard ==
  pc = "done" /\ coreList = <<>> => 1..Len(Cores) = shards[1].setA
=============================================================================
