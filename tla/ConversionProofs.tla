--------------------------- MODULE ConversionProofs ---------------------------
(* What a run of the importer leaves in its directory, for every set of     *)
(* inputs and flags, any number of runs, and failures anywhere.             *)
EXTENDS Conversion, SequenceTheorems, TLAPS

\* What the names of the files say of each other.
LEMMA FileNames ==
  /\ Stem \in BaseYamls /\ SecureStem \in SecureYamls /\ DRStem \in {"standalone-dr", "cluster-dr"}
  /\ BaseYamls \cup SecureYamls \subseteq Files /\ DRStem \in Files
  /\ {"unsupported", "ftl-users", "kafka-users", "realm", "migration"} \subseteq Files
  /\ DRStem \notin BaseYamls \cup SecureYamls
BY DEF Stem, SecureStem, DRStem, BaseYamls, SecureYamls, Files

\* What depends on the input of the run only.
LEMMA SameInput ==
  ASSUME UNCHANGED input
  PROVE  /\ cfgs' = cfgs /\ flags' = flags /\ runs' = runs
         /\ Stem' = Stem /\ SecureStem' = SecureStem /\ DRStem' = DRStem
         /\ UnsupportedKeys' = UnsupportedKeys /\ AllUnsupported' = AllUnsupported
         /\ (Provisions' <=> Provisions) /\ (WritesSecure' <=> WritesSecure)
         /\ AllUsers' = AllUsers /\ (Conflict' <=> Conflict)
         /\ KafkaClientUsers' = KafkaClientUsers /\ OAuth2' = OAuth2 /\ RealmJSON' = RealmJSON
         /\ \A b : BrokerProperties(b)' = BrokerProperties(b)
<1>1. cfgs' = cfgs /\ flags' = flags /\ runs' = runs
  BY DEF input
<1>2. Stem' = Stem /\ SecureStem' = SecureStem /\ DRStem' = DRStem /\ RealmJSON' = RealmJSON
  BY <1>1 DEF Stem, SecureStem, DRStem, RealmJSON
<1>3. UnsupportedKeys' = UnsupportedKeys
  BY <1>1 DEF UnsupportedKeys
<1>4. AllUnsupported' = AllUnsupported
  BY <1>1, <1>3 DEF AllUnsupported
<1>5. (Provisions' <=> Provisions) /\ (WritesSecure' <=> WritesSecure) /\ OAuth2' = OAuth2
  BY <1>1 DEF Provisions, WritesSecure, OAuth2
<1>6. AllUsers' = AllUsers
  BY <1>1 DEF AllUsers
<1>7. Conflict' <=> Conflict
  BY <1>6 DEF Conflict
<1>8. ASSUME NEW u PROVE Password(u)' = Password(u)
  BY <1>6 DEF Password
<1>9. KafkaClientUsers' = KafkaClientUsers
  BY <1>1, <1>6, <1>8 DEF KafkaClientUsers
<1>10. ASSUME NEW b PROVE BrokerProperties(b)' = BrokerProperties(b)
  BY <1>1 DEF BrokerProperties
<1>11. QED
  BY <1>1, <1>2, <1>3, <1>4, <1>5, <1>6, <1>7, <1>9, <1>10

-----------------------------------------------------------------------------
(* One file is written.                                                    *)

\* What the invariant says of the directory, apart from what is this run's.
Directory ==
  /\ cut \subseteq Files
  /\ DOMAIN dir = Files /\ \A f \in Files : dir[f].run \in 0..runs
  /\ \A y \in BaseYamls \cup SecureYamls : dir[y].run > 0 =>
       dir[y].files \subseteq {"ftl-users", "kafka-users", "operator-users"}
  /\ NamedUsersAreWritten

UsersFiles == {"ftl-users", "kafka-users", "operator-users"}
OwnUsers == {"ftl-users", "kafka-users"}
Yamls == BaseYamls \cup SecureYamls

\* What this run wrote of the users files it wrote for good.
UsersKept ==
  \A g \in OwnUsers :
    dir[g].run = runs /\ g \notin cut => dir'[g].run = runs /\ g \notin cut'

LEMMA OtherNames ==
  /\ {"unsupported", "realm", "migration", DRStem} \cap (OwnUsers \cup Yamls) = {}
  /\ Stem \in Yamls /\ SecureStem \in Yamls /\ Yamls \cap OwnUsers = {}
BY DEF OwnUsers, Yamls, BaseYamls, SecureYamls, Stem, SecureStem, DRStem

LEMMA OwnUsersNames ==
  /\ OwnUsers \subseteq Files /\ UsersFiles \ {"operator-users"} = OwnUsers
  /\ Yamls \subseteq Files \ OwnUsers
BY DEF OwnUsers, UsersFiles, Files, Yamls, BaseYamls, SecureYamls

LEMMA RunNumbers ==
  ASSUME TypeOK
  PROVE  runs \in Nat /\ runs > 0 /\ DOMAIN dir = Files /\ \A g \in Files : dir[g].run \in 0..runs
<1>1. MaxRuns \in Nat
  BY ConstantsAssumption
<1>2. runs \in 1..MaxRuns
  BY DEF TypeOK
<1>3. runs \in Nat /\ runs > 0
  BY <1>1, <1>2
<1>4. QED
  BY <1>3 DEF TypeOK

LEMMA PutFile ==
  ASSUME TypeOK, NEW f \in Files, NEW c, Put(f, c)
  PROVE  /\ DOMAIN dir' = Files /\ dir'[f] = c /\ cut' \subseteq Files
         /\ \A g \in Files : g # f => dir'[g] = dir[g] /\ (g \in cut' <=> g \in cut)
<1>1. dir' = [dir EXCEPT ![f] = c] /\ (cut' = cut \ {f} \/ cut' = cut \cup {f})
  BY DEF Put, PutWhole, PutCut, Create
<1>2. DOMAIN dir = Files /\ cut \subseteq Files
  BY DEF TypeOK
<1>3. QED
  BY <1>1, <1>2

\* The directory stays in order when a run creates a file of its own: a YAML only
\* with users files that it wrote before or the operator's, and a users file only
\* whole or before any YAML.
LEMMA PutKeepsOrder ==
  ASSUME TypeOK, NamedUsersAreWritten, UNCHANGED runs, NEW f \in Files, NEW c, Put(f, c),
         c.run = runs,
         f \in Yamls =>
           /\ c.files \subseteq UsersFiles
           /\ \A g \in c.files \ {"operator-users"} : dir[g].run = runs /\ g \notin cut,
         f \in OwnUsers => PutWhole(f, c) \/ \A y \in Yamls : dir[y].run < runs
  PROVE  /\ Directory'
         /\ (f \in OwnUsers => PutWhole(f, c)) => UsersKept
<1>1. /\ DOMAIN dir' = Files /\ dir'[f] = c /\ cut' \subseteq Files
      /\ \A g \in Files : g # f => dir'[g] = dir[g] /\ (g \in cut' <=> g \in cut)
  BY PutFile
<1>2. runs \in Nat /\ runs' = runs /\ \A g \in Files : dir[g].run \in 0..runs
  BY RunNumbers
<1>3. \A g \in Files : dir'[g].run \in 0..runs
  BY <1>1, <1>2
<1>4. ASSUME f \in OwnUsers => PutWhole(f, c) PROVE UsersKept
  <2>1. f \in OwnUsers => f \notin cut'
    BY <1>4 DEF PutWhole
  <2>2. QED
    BY <1>1, <2>1, OwnUsersNames DEF UsersKept
<1>5. ASSUME NEW y \in Yamls, dir'[y].run > 0
      PROVE  /\ dir'[y].files \subseteq UsersFiles
             /\ \A g \in dir'[y].files \ {"operator-users"} :
                  dir'[g].run >= dir'[y].run /\ (dir'[g].run = dir'[y].run => g \notin cut')
  <2>1. CASE y = f
    <3>1. c.files \subseteq UsersFiles
          /\ \A g \in c.files \ {"operator-users"} : dir[g].run = runs /\ g \notin cut
      BY <2>1
    <3>2. \A g \in c.files \ {"operator-users"} : g \in OwnUsers /\ g # f /\ g \in Files
      BY <2>1, <3>1, OwnUsersNames
    <3>3. \A g \in c.files \ {"operator-users"} : dir'[g].run = runs /\ g \notin cut'
      BY <1>1, <3>1, <3>2
    <3>4. dir'[y].files = c.files /\ dir'[y].run = runs
      BY <1>1, <2>1
    <3>5. QED
      BY <1>2, <3>1, <3>3, <3>4
  <2>2. CASE y # f
    <3>1. y \in Files /\ dir'[y] = dir[y] /\ dir[y].run > 0
      BY <1>1, <1>5, <2>2, OwnUsersNames
    <3>2. /\ dir[y].files \subseteq UsersFiles
          /\ \A g \in dir[y].files \ {"operator-users"} :
               dir[g].run >= dir[y].run /\ (dir[g].run = dir[y].run => g \notin cut)
      BY <3>1 DEF TypeOK, NamedUsersAreWritten, UsersFiles, Yamls
    <3>3. ASSUME NEW g \in dir[y].files \ {"operator-users"}
          PROVE  dir'[g].run >= dir[y].run /\ (dir'[g].run = dir[y].run => g \notin cut')
      <4>1. g \in OwnUsers /\ g \in Files
        BY <3>2, <3>3, OwnUsersNames
      <4>2. CASE g # f
        BY <1>1, <3>2, <3>3, <4>1, <4>2
      <4>3. CASE g = f
        <5>1. dir'[g].run = runs /\ dir[y].run <= runs
          BY <1>1, <1>2, <3>1, <4>3
        <5>2. dir[y].run = runs => PutWhole(f, c)
          BY <1>2, <4>1, <4>3
        <5>3. dir[y].run = runs => g \notin cut'
          BY <4>3, <5>2 DEF PutWhole
        <5>4. QED
          BY <1>2, <3>1, <5>1, <5>3
      <4>4. QED
        BY <4>2, <4>3
    <3>4. QED
      BY <3>1, <3>2, <3>3
  <2>3. QED
    BY <2>1, <2>2
<1>6. NamedUsersAreWritten'
  BY <1>5 DEF NamedUsersAreWritten, Yamls
<1>7. \A y \in BaseYamls \cup SecureYamls : dir'[y].run > 0 =>
        dir'[y].files \subseteq {"ftl-users", "kafka-users", "operator-users"}
  BY <1>5 DEF UsersFiles, Yamls
<1>8. QED
  BY <1>1, <1>2, <1>3, <1>4, <1>6, <1>7 DEF Directory

LEMMA DirectoryStays ==
  ASSUME TypeOK, NamedUsersAreWritten, UNCHANGED disk, runs' = runs \/ runs' = runs + 1
  PROVE  Directory'
<1>0. dir' = dir /\ cut' = cut
  BY DEF disk
<1>1. runs \in Nat /\ runs' \in Nat /\ runs <= runs'
  BY RunNumbers
<1>2. \A f \in Files : dir[f].run \in 0..runs'
  BY <1>1, RunNumbers
<1>3. NamedUsersAreWritten'
  BY <1>0 DEF NamedUsersAreWritten
<1>4. QED
  BY <1>0, <1>2, <1>3 DEF Directory, TypeOK

\* A step that writes nothing.
LEMMA DiskStays ==
  ASSUME TypeOK, NamedUsersAreWritten, UNCHANGED disk, runs' = runs
  PROVE  Directory' /\ UsersKept /\ dir' = dir /\ cut' = cut
<1>1. dir' = dir /\ cut' = cut
  BY DEF disk
<1>2. QED
  BY <1>1, DirectoryStays DEF UsersKept

\* The types of a step of a run, from its parts.
LEMMA RunType ==
  ASSUME TypeOK, UNCHANGED <<input, i, brokers>>, Directory',
         pc' \in {"unsupported", "ftl-users", "kafka-users", "yaml", "dr", "secure", "realm",
                  "migration", "report", "ended"},
         ftlUsers' \in {"", "ftl-users", "operator-users"}, kafkaUsers' \in {"", "kafka-users"},
         exit' \in {0, 1, 2}
  PROVE  TypeOK'
<1>1. cfgs' = cfgs /\ flags' = flags /\ runs' = runs /\ suggested' = suggested /\ i' = i
      /\ brokerFiles' = brokerFiles /\ cutBrokers' = cutBrokers
  BY DEF input, brokers
<1>2. QED
  BY <1>1 DEF TypeOK, Directory

LEMMA AuthFileType ==
  ASSUME TypeOK
  PROVE  flags.authFile \in {"", "operator-users"}
BY DEF TypeOK, Flag

-----------------------------------------------------------------------------
(* The steps of a run.                                                     *)

Progress == BrokersSoFar /\ UnsupportedSoFar /\ UsersSoFar /\ YAMLsSoFar /\ RealmSoFar

\* While a run goes on, the invariant is this.
LEMMA Running ==
  ASSUME ConversionInv, pc # "ended"
  PROVE  TypeOK /\ NamedUsersAreWritten /\ UsersWritten /\ Progress
BY DEF ConversionInv, Failed, Progress

LEMMA InvFromParts ==
  ASSUME TypeOK', Directory', UsersWritten', Progress' \/ Failed'
  PROVE  ConversionInv'
BY DEF ConversionInv, Directory, Progress

\* A run that stops at a file it cannot create, or at users in conflict.
LEMMA StopsInOrder ==
  ASSUME ConversionInv, WriteFails \/ RefuseUsers
  PROVE  ConversionInv'
<1>1. /\ UNCHANGED <<input, i, ftlUsers, kafkaUsers, brokers, disk>>
      /\ pc # "ended" /\ pc' = "ended" /\ exit' = 1
  BY DEF WriteFails, RefuseUsers, Writes
<1>2. TypeOK /\ NamedUsersAreWritten /\ UsersWritten
  BY <1>1, Running
<1>3. runs' = runs
  BY <1>1 DEF input
<1>4. Directory'
  BY <1>1, <1>2, <1>3, DirectoryStays
<1>5. TypeOK'
  <2>1. ftlUsers' \in {"", "ftl-users", "operator-users"} /\ kafkaUsers' \in {"", "kafka-users"}
    BY <1>1, <1>2 DEF TypeOK
  <2>2. QED
    BY <1>1, <1>2, <1>4, <2>1, RunType
<1>6. UsersWritten' /\ Failed'
  BY <1>1, <1>2, <1>3 DEF UsersWritten, Failed, disk
<1>7. QED
  BY <1>4, <1>5, <1>6, InvFromParts

\* A run that stops in the middle of a file: the users files are written before any
\* YAML names them.
LEMMA BreaksOffInOrder ==
  ASSUME ConversionInv, WriteBreaksOff
  PROVE  ConversionInv'
<1>1. PICK f \in {"ftl-users", "kafka-users", "realm"} : \E c :
        pc = f /\ c.run = runs /\ PutCut(f, c)
  <2>1. KafkaClientUsers.run = runs /\ RealmJSON.run = runs /\ [run |-> runs].run = runs
    BY DEF KafkaClientUsers, RealmJSON
  <2>2. QED
    BY <2>1 DEF WriteBreaksOff
<1>2. PICK c : pc = f /\ c.run = runs /\ PutCut(f, c)
  BY <1>1
<1>3. /\ UNCHANGED <<input, i, ftlUsers, kafkaUsers, brokers>> /\ pc' = "ended" /\ exit' = 1
      /\ runs' = runs
  BY DEF WriteBreaksOff, input
<1>4. TypeOK /\ NamedUsersAreWritten /\ UsersWritten /\ Progress
  BY <1>2, Running
<1>5. f \in Files /\ Put(f, c) /\ f \notin Yamls
  BY <1>2, FileNames DEF Put, Yamls, BaseYamls, SecureYamls
<1>6. f \in OwnUsers => \A y \in Yamls : dir[y].run < runs
  BY <1>2, <1>4 DEF OwnUsers, Progress, YAMLsSoFar, BeforeYAML, BeforeUsers, Yamls
<1>7. Directory'
  BY <1>2, <1>3, <1>4, <1>5, <1>6, PutKeepsOrder
<1>8. TypeOK'
  <2>1. ftlUsers' \in {"", "ftl-users", "operator-users"} /\ kafkaUsers' \in {"", "kafka-users"}
    BY <1>3, <1>4 DEF TypeOK
  <2>2. QED
    BY <1>3, <1>4, <1>7, <2>1, RunType
<1>9. UsersWritten'
  <2>1. \A g \in OwnUsers : g # f => dir'[g] = dir[g] /\ (g \in cut' <=> g \in cut)
    BY <1>4, <1>5, PutFile, OwnUsersNames
  <2>2. f = "ftl-users" => ftlUsers # "ftl-users"
    <3>1. f = "ftl-users" => ftlUsers = ""
      BY <1>2, <1>4 DEF Progress, UsersSoFar, BeforeUsers
    <3>2. QED
      BY <3>1
  <2>3. f \in OwnUsers => kafkaUsers # "kafka-users"
    <3>1. f \in OwnUsers => kafkaUsers = ""
      BY <1>2, <1>4 DEF Progress, UsersSoFar, BeforeUsers, OwnUsers
    <3>2. QED
      BY <3>1
  <2>4. ftlUsers = "ftl-users" => dir'["ftl-users"].run = runs /\ "ftl-users" \notin cut'
    BY <1>4, <2>1, <2>2 DEF UsersWritten, OwnUsers
  <2>5. kafkaUsers = "kafka-users" => dir'["kafka-users"].run = runs /\ "kafka-users" \notin cut'
    BY <1>4, <2>1, <2>3 DEF UsersWritten, OwnUsers
  <2>6. QED
    BY <1>3, <2>4, <2>5 DEF UsersWritten
<1>10. QED
  BY <1>3, <1>7, <1>8, <1>9, InvFromParts DEF Failed

\* The file of a broker.
LEMMA WriteBrokerInOrder ==
  ASSUME ConversionInv, WriteBroker
  PROVE  ConversionInv'
<1>0. TypeOK /\ NamedUsersAreWritten /\ UsersWritten /\ Progress /\ pc = "brokers"
  BY Running DEF WriteBroker
<1>1. /\ UNCHANGED <<input, ftlUsers, kafkaUsers, disk, exit>> /\ runs' = runs /\ cfgs' = cfgs
      /\ brokerFiles' = [brokerFiles EXCEPT ![i] = BrokerProperties(i)]
      /\ cutBrokers' \subseteq cutBrokers \cup {i} /\ dir' = dir /\ cut' = cut
      /\ i' = i + 1 /\ pc' = (IF i = Len(cfgs) THEN "unsupported" ELSE "brokers")
  BY <1>0 DEF WriteBroker, input, disk
<1>2. /\ Len(cfgs) \in Nat /\ i \in 1..Len(cfgs) /\ i \in DOMAIN brokerFiles
      /\ 1..Len(cfgs) \subseteq DOMAIN brokerFiles
  <2>1. cfgs \in Seq(Broker) /\ i \in 1..(Len(cfgs) + 1) /\ 1..Len(cfgs) \subseteq DOMAIN brokerFiles
    BY <1>0 DEF TypeOK
  <2>2. i <= Len(cfgs)
    BY <1>0 DEF Progress, BrokersSoFar
  <2>3. QED
    BY <2>1, <2>2, LenProperties
<1>3. Directory'
  BY <1>0, <1>1, DirectoryStays
<1>4. DOMAIN brokerFiles' = DOMAIN brokerFiles /\ brokerFiles'[i] = BrokerProperties(i)
      /\ \A b \in DOMAIN brokerFiles : b # i => brokerFiles'[b] = brokerFiles[b]
  BY <1>1, <1>2
<1>5. BrokerProperties(i).run = runs /\ BrokerProperties(i).broker \in Broker
      /\ BrokerProperties(i).broker.users = <<>>
  <2>1. cfgs[i] \in Broker
    BY <1>0, <1>2, ElementOfSeq DEF TypeOK
  <2>2. <<>> \in Seq(STRING \X STRING)
    BY EmptySeq
  <2>3. Emitted(cfgs[i]) \in Broker /\ Emitted(cfgs[i]).users = <<>>
    BY <2>1, <2>2 DEF Emitted, Broker
  <2>4. QED
    BY <2>3 DEF BrokerProperties
<1>6. TypeOK'
  <2>1. \A b \in DOMAIN brokerFiles' :
          \/ brokerFiles'[b] = Absent
          \/ brokerFiles'[b].run \in 1..runs' /\ brokerFiles'[b].broker \in Broker
             /\ brokerFiles'[b].broker.users = <<>>
    <3>1. runs \in 1..runs'
      BY <1>0, <1>1, RunNumbers
    <3>2. Absent' = Absent
      BY DEF Absent
    <3>3. ASSUME NEW b \in DOMAIN brokerFiles', b # i
          PROVE  \/ brokerFiles'[b] = Absent
                 \/ brokerFiles'[b].run \in 1..runs' /\ brokerFiles'[b].broker \in Broker
                    /\ brokerFiles'[b].broker.users = <<>>
      BY <1>0, <1>1, <1>4, <3>3 DEF TypeOK
    <3>4. QED
      BY <1>4, <1>5, <3>1, <3>3
  <2>2. i' \in 1..(Len(cfgs') + 1)
    BY <1>1, <1>2
  <2>3. /\ cfgs' \in Seq(Broker) /\ cfgs' # <<>> /\ 1..Len(cfgs') \subseteq BrokerNumbers
        /\ DOMAIN brokerFiles' = BrokerNumbers /\ cutBrokers' \subseteq BrokerNumbers
        /\ flags' \in Flag /\ runs' \in 1..MaxRuns /\ suggested' \in BOOLEAN
        /\ ftlUsers' \in {"", "ftl-users", "operator-users"} /\ kafkaUsers' \in {"", "kafka-users"}
        /\ exit' \in {0, 1, 2} /\ pc' \in {"brokers", "unsupported"}
    BY <1>0, <1>1, <1>2, <1>4 DEF TypeOK, input
  <2>4. QED
    BY <1>3, <2>1, <2>2, <2>3 DEF TypeOK, Directory
<1>7. UsersWritten'
  BY <1>0, <1>1 DEF UsersWritten
<1>8. Progress'
  <2>0. \A b : BrokerProperties(b)' = BrokerProperties(b)
    BY <1>1, SameInput
  <2>1. BrokersSoFar'
    <3>1. \A b \in 1..(i - 1) : brokerFiles[b] = BrokerProperties(b)
      BY <1>0 DEF Progress, BrokersSoFar
    <3>2. \A b \in 1..i : b = i \/ b \in 1..(i - 1)
      BY <1>2
    <3>3. \A b \in 1..(i - 1) : b # i /\ b \in DOMAIN brokerFiles
      <4>1. \A b \in 1..(i - 1) : b # i /\ b \in 1..Len(cfgs)
        BY <1>2
      <4>2. QED
        BY <1>2, <4>1
    <3>4. \A b \in 1..i : brokerFiles'[b] = BrokerProperties(b)
      BY <1>4, <3>1, <3>2, <3>3
    <3>5. i' - 1 = i /\ (IF pc' = "brokers" THEN i' <= Len(cfgs') ELSE i' = Len(cfgs') + 1)
      BY <1>1, <1>2
    <3>6. QED
      BY <2>0, <3>4, <3>5 DEF BrokersSoFar
  <2>2. UnsupportedSoFar' /\ UsersSoFar' /\ YAMLsSoFar' /\ RealmSoFar'
    <3>1. pc' \in {"brokers", "unsupported"}
      BY <1>1
    <3>2. UsersSoFar'
      BY <1>0, <1>1, <3>1 DEF Progress, UsersSoFar, BeforeUsers
    <3>3. YAMLsSoFar'
      BY <1>0, <1>1, <3>1, SameInput DEF Progress, YAMLsSoFar, BeforeYAML, BeforeUsers
    <3>4. QED
      BY <3>1, <3>2, <3>3 DEF UnsupportedSoFar, RealmSoFar, BeforeRealm, BeforeYAML, BeforeUsers
  <2>3. QED
    BY <2>1, <2>2 DEF Progress
<1>9. QED
  BY <1>3, <1>6, <1>7, <1>8, InvFromParts

\* What the later steps have in common: the broker files are written, and one
\* file of the run or none is.
LEMMA StepInOrder ==
  ASSUME ConversionInv, pc \notin {"brokers", "ended"}, UNCHANGED <<input, i, brokers>>,
         Directory', UsersKept,
         pc' \in {"ftl-users", "kafka-users", "yaml", "dr", "secure", "realm",
                  "migration", "report", "ended"},
         ftlUsers' \in {"", "ftl-users", "operator-users"}, kafkaUsers' \in {"", "kafka-users"},
         ftlUsers' = ftlUsers \/ (ftlUsers' = "ftl-users" => dir'["ftl-users"].run = runs /\ "ftl-users" \notin cut'),
         kafkaUsers' = kafkaUsers \/ (kafkaUsers' = "kafka-users" => dir'["kafka-users"].run = runs /\ "kafka-users" \notin cut'),
         exit' \in {0, 1, 2},
         UnsupportedSoFar' /\ UsersSoFar' /\ YAMLsSoFar' /\ RealmSoFar'
  PROVE  ConversionInv'
<1>1. TypeOK /\ UsersWritten /\ Progress
  BY Running
<1>2. TypeOK'
  BY <1>1, RunType
<1>3. runs' = runs
  BY DEF input
<1>4. UsersWritten'
  BY <1>1, <1>3 DEF UsersWritten, UsersKept, OwnUsers
<1>5. BrokersSoFar'
  BY <1>1, <1>3, SameInput DEF Progress, BrokersSoFar, brokers
<1>6. QED
  BY <1>2, <1>4, <1>5, InvFromParts DEF Progress

LEMMA WriteUnsupportedInOrder ==
  ASSUME ConversionInv, WriteUnsupported
  PROVE  ConversionInv'
<1> DEFINE content == [run |-> runs, settings |-> AllUnsupported]
<1>0. TypeOK /\ NamedUsersAreWritten /\ Progress /\ pc = "unsupported"
  BY Running DEF WriteUnsupported
<1>1. /\ UNCHANGED <<input, i, ftlUsers, kafkaUsers, brokers, exit>> /\ pc' = "ftl-users"
      /\ \/ AllUnsupported # <<>> /\ Put("unsupported", content)
         \/ AllUnsupported = <<>> /\ UNCHANGED disk
  BY DEF WriteUnsupported
<1>2. runs' = runs
  BY <1>1 DEF input
<1>3. /\ Directory' /\ UsersKept
      /\ \A g \in Files : g # "unsupported" => dir'[g] = dir[g]
      /\ AllUnsupported # <<>> => dir'["unsupported"] = content
  <2>1. CASE AllUnsupported # <<>> /\ Put("unsupported", content)
    <3>1. content.run = runs /\ "unsupported" \in Files
      BY FileNames
    <3>2. QED
      BY <1>0, <1>2, <2>1, <3>1, PutFile, PutKeepsOrder, OtherNames
  <2>2. CASE AllUnsupported = <<>> /\ UNCHANGED disk
    BY <1>0, <1>2, <2>2, DiskStays
  <2>3. QED
    BY <1>1, <2>1, <2>2
<1>4. UnsupportedKeys # {} => AllUnsupported # <<>>
  <2>1. DOMAIN AllUnsupported = UnsupportedKeys
    BY DEF AllUnsupported
  <2>2. DOMAIN <<>> = {}
    OBVIOUS
  <2>3. QED
    BY <2>1, <2>2
<1>5. UnsupportedSoFar'
  BY <1>1, <1>2, <1>3, <1>4, SameInput DEF UnsupportedSoFar
<1>6. UsersSoFar'
  BY <1>0, <1>1, SameInput DEF Progress, UsersSoFar, BeforeUsers
<1>7. YAMLsSoFar' /\ RealmSoFar'
  <2>1. \A y \in BaseYamls \cup SecureYamls : dir'[y] = dir[y]
    BY <1>3, OwnUsersNames, FileNames DEF OwnUsers, Yamls, BaseYamls, SecureYamls
  <2>2. QED
    BY <1>0, <1>1, <2>1, FileNames, SameInput
       DEF Progress, YAMLsSoFar, RealmSoFar, BeforeRealm, BeforeYAML, BeforeUsers
<1>8. QED
  <2>1. ftlUsers' \in {"", "ftl-users", "operator-users"} /\ kafkaUsers' \in {"", "kafka-users"}
        /\ exit' \in {0, 1, 2}
    BY <1>0, <1>1 DEF TypeOK
  <2>2. QED
    BY <1>0, <1>1, <1>3, <1>5, <1>6, <1>7, <2>1, StepInOrder

LEMMA WriteFTLServerUsersInOrder ==
  ASSUME ConversionInv, WriteFTLServerUsers
  PROVE  ConversionInv'
<1>0. TypeOK /\ NamedUsersAreWritten /\ Progress /\ pc = "ftl-users"
  BY Running DEF WriteFTLServerUsers
<1>1. /\ UNCHANGED <<input, i, kafkaUsers, brokers, exit>> /\ pc' = "kafka-users"
      /\ \/ Provisions /\ PutWhole("ftl-users", [run |-> runs]) /\ ftlUsers' = "ftl-users"
         \/ ~Provisions /\ UNCHANGED disk /\ ftlUsers' = flags.authFile
  BY DEF WriteFTLServerUsers
<1>2. runs' = runs
  BY <1>1 DEF input
<1>3. /\ Directory' /\ UsersKept
      /\ \A g \in Files : g # "ftl-users" => dir'[g] = dir[g]
      /\ Provisions => dir'["ftl-users"].run = runs /\ "ftl-users" \notin cut'
  <2>1. CASE PutWhole("ftl-users", [run |-> runs])
    <3>1. "ftl-users" \in Files /\ "ftl-users" \notin Yamls /\ Put("ftl-users", [run |-> runs])
      BY <2>1, OwnUsersNames DEF OwnUsers, Put
    <3>2. QED
      BY <1>0, <1>2, <2>1, <3>1, PutFile, PutKeepsOrder DEF PutWhole
  <2>2. CASE ~Provisions /\ UNCHANGED disk
    BY <1>0, <1>2, <2>2, DiskStays
  <2>3. QED
    BY <1>1, <2>1, <2>2
<1>4. flags.authFile \in {"", "operator-users"} /\ ftlUsers' \in {"", "ftl-users", "operator-users"}
  BY <1>0, <1>1, AuthFileType
<1>5. UsersSoFar'
  BY <1>0, <1>1, SameInput DEF Progress, UsersSoFar, BeforeUsers
<1>6. UnsupportedSoFar'
  <2>1. dir'["unsupported"] = dir["unsupported"]
    BY <1>3, FileNames
  <2>2. QED
    BY <1>0, <1>1, <2>1, SameInput DEF Progress, UnsupportedSoFar
<1>7. YAMLsSoFar' /\ RealmSoFar'
  <2>1. \A y \in BaseYamls \cup SecureYamls : dir'[y] = dir[y]
    BY <1>3, OwnUsersNames, FileNames DEF OwnUsers, Yamls, BaseYamls, SecureYamls
  <2>2. QED
    BY <1>0, <1>1, <2>1, FileNames, SameInput
       DEF Progress, YAMLsSoFar, RealmSoFar, BeforeRealm, BeforeYAML, BeforeUsers
<1>8. QED
  <2>1. kafkaUsers' \in {"", "kafka-users"} /\ exit' \in {0, 1, 2}
    BY <1>0, <1>1 DEF TypeOK
  <2>2. ftlUsers' = "ftl-users" => dir'["ftl-users"].run = runs /\ "ftl-users" \notin cut'
    BY <1>1, <1>3, <1>4
  <2>3. QED
    BY <1>0, <1>1, <1>3, <1>4, <1>5, <1>6, <1>7, <2>1, <2>2, StepInOrder

LEMMA WriteKafkaClientUsersInOrder ==
  ASSUME ConversionInv, WriteKafkaClientUsers
  PROVE  ConversionInv'
<1>0. TypeOK /\ NamedUsersAreWritten /\ Progress /\ pc = "kafka-users"
  BY Running DEF WriteKafkaClientUsers
<1>1. /\ UNCHANGED <<input, i, ftlUsers, brokers, exit>> /\ pc' = "yaml"
      /\ ftlUsers # "" => ~Conflict
      /\ \/ Collects /\ PutWhole("kafka-users", KafkaClientUsers) /\ kafkaUsers' = "kafka-users"
         \/ ~Collects /\ UNCHANGED disk /\ kafkaUsers' = kafkaUsers
  BY DEF WriteKafkaClientUsers
<1>2. runs' = runs
  BY <1>1 DEF input
<1>3. /\ Directory' /\ UsersKept
      /\ \A g \in Files : g # "kafka-users" => dir'[g] = dir[g]
      /\ Collects => dir'["kafka-users"] = KafkaClientUsers /\ "kafka-users" \notin cut'
  <2>1. CASE PutWhole("kafka-users", KafkaClientUsers)
    <3>1. "kafka-users" \in Files /\ "kafka-users" \notin Yamls
          /\ KafkaClientUsers.run = runs /\ Put("kafka-users", KafkaClientUsers)
      BY <2>1, OwnUsersNames DEF OwnUsers, KafkaClientUsers, Put
    <3>2. QED
      BY <1>0, <1>2, <2>1, <3>1, PutFile, PutKeepsOrder DEF PutWhole
  <2>2. CASE ~Collects /\ UNCHANGED disk
    BY <1>0, <1>2, <2>2, DiskStays
  <2>3. QED
    BY <1>1, <2>1, <2>2
<1>4. kafkaUsers = ""
  BY <1>0 DEF Progress, UsersSoFar
<1>5. UsersSoFar'
  <2>1. Collects' <=> Collects
    BY <1>1, SameInput DEF Collects
  <2>2. Collects => ~Conflict
    BY <1>1 DEF Collects
  <2>3. QED
    BY <1>0, <1>1, <1>3, <1>4, <2>1, <2>2, SameInput DEF Progress, UsersSoFar, BeforeUsers
<1>6. UnsupportedSoFar'
  <2>1. dir'["unsupported"] = dir["unsupported"]
    BY <1>3, FileNames
  <2>2. QED
    BY <1>0, <1>1, <2>1, SameInput DEF Progress, UnsupportedSoFar
<1>7. YAMLsSoFar' /\ RealmSoFar'
  <2>1. \A y \in BaseYamls \cup SecureYamls : dir'[y] = dir[y]
    BY <1>3, OwnUsersNames, FileNames DEF OwnUsers, Yamls, BaseYamls, SecureYamls
  <2>2. QED
    BY <1>0, <1>1, <2>1, FileNames, SameInput
       DEF Progress, YAMLsSoFar, RealmSoFar, BeforeRealm, BeforeYAML, BeforeUsers
<1>8. QED
  <2>1. /\ ftlUsers' \in {"", "ftl-users", "operator-users"} /\ kafkaUsers' \in {"", "kafka-users"}
        /\ exit' \in {0, 1, 2} /\ ftlUsers' = ftlUsers
    BY <1>0, <1>1 DEF TypeOK
  <2>2. kafkaUsers' = "kafka-users" => dir'["kafka-users"].run = runs /\ "kafka-users" \notin cut'
    <3>1. KafkaClientUsers.run = runs
      BY DEF KafkaClientUsers
    <3>2. QED
      BY <1>1, <1>3, <1>4, <3>1
  <2>3. QED
    BY <1>0, <1>1, <1>3, <1>5, <1>6, <1>7, <2>1, <2>2, StepInOrder

\* After the users files, what the YAMLs say depends on nothing that changes.
LEMMA SameYAML ==
  ASSUME UNCHANGED <<input, ftlUsers, kafkaUsers>>
  PROVE  /\ YAML' = YAML /\ DRYAML' = DRYAML /\ SecureYAML' = SecureYAML
         /\ (Collects' <=> Collects)
<1>1. /\ cfgs' = cfgs /\ flags' = flags /\ runs' = runs /\ OAuth2' = OAuth2 /\ AllUsers' = AllUsers
      /\ ftlUsers' = ftlUsers /\ kafkaUsers' = kafkaUsers
  BY SameInput
<1>2. SecureUsers' = SecureUsers
  BY <1>1 DEF SecureUsers
<1>3. QED
  BY <1>1, <1>2 DEF YAML, DRYAML, SecureYAML, Collects

\* The users files that a YAML of this run may name.
LEMMA NamedFiles ==
  ASSUME TypeOK, UsersWritten, NEW first \in {"", "operator-users", ftlUsers}
  PROVE  /\ UserFiles(first, kafkaUsers) \subseteq UsersFiles
         /\ \A g \in UserFiles(first, kafkaUsers) \ {"operator-users"} : dir[g].run = runs /\ g \notin cut
<1>1. ftlUsers \in {"", "ftl-users", "operator-users"} /\ kafkaUsers \in {"", "kafka-users"}
  BY DEF TypeOK
<1>2. QED
  BY <1>1 DEF UserFiles, UsersFiles, UsersWritten

\* The steps after the users files: what they leave of the earlier ones.
LEMMA LateStep ==
  ASSUME ConversionInv, pc \notin BeforeUsers \cup {"kafka-users", "ended"},
         UNCHANGED <<input, i, ftlUsers, kafkaUsers, brokers>>, exit' \in {0, 1, 2},
         pc' \in {"dr", "secure", "realm", "migration", "report", "ended"},
         Directory', UsersKept,
         dir'["unsupported"] = dir["unsupported"], dir'["kafka-users"] = dir["kafka-users"],
         YAMLsSoFar', RealmSoFar'
  PROVE  ConversionInv'
<1>1. TypeOK /\ Progress
  BY Running
<1>2. UnsupportedSoFar'
  BY <1>1, SameInput DEF Progress, UnsupportedSoFar, BeforeUsers
<1>3. UsersSoFar'
  BY <1>1, SameInput, SameYAML DEF Progress, UsersSoFar, BeforeUsers
<1>4. ftlUsers' \in {"", "ftl-users", "operator-users"} /\ kafkaUsers' \in {"", "kafka-users"}
  BY <1>1 DEF TypeOK
<1>5. pc \notin {"brokers", "ended"}
  BY DEF BeforeUsers
<1>6. QED
  BY <1>2, <1>3, <1>4, <1>5, StepInOrder

LEMMA WriteYAMLInOrder ==
  ASSUME ConversionInv, WriteYAML
  PROVE  ConversionInv'
<1>0. TypeOK /\ NamedUsersAreWritten /\ UsersWritten /\ Progress /\ pc = "yaml"
  BY Running DEF WriteYAML
<1>1. /\ UNCHANGED <<input, i, ftlUsers, kafkaUsers, brokers, exit>> /\ pc' = "dr"
      /\ Put(Stem, YAML) /\ runs' = runs
  BY DEF WriteYAML, input
<1>2. /\ YAML.run = runs /\ YAML.files \subseteq UsersFiles
      /\ \A g \in YAML.files \ {"operator-users"} : dir[g].run = runs /\ g \notin cut
  BY <1>0, NamedFiles DEF YAML
<1>3. /\ Directory' /\ UsersKept
      /\ \A g \in Files : g # Stem => dir'[g] = dir[g]
      /\ dir'[Stem] = YAML
  <2>1. Stem \in Files
    BY FileNames
  <2>2. QED
    BY <1>0, <1>1, <1>2, <2>1, PutFile, PutKeepsOrder, OtherNames
<1>4. /\ dir'["unsupported"] = dir["unsupported"] /\ dir'["kafka-users"] = dir["kafka-users"]
      /\ dir'[SecureStem] = dir[SecureStem]
  BY <1>3, FileNames DEF BaseYamls, SecureYamls
<1>5. YAMLsSoFar'
  BY <1>0, <1>1, <1>3, <1>4, SameInput, SameYAML DEF Progress, YAMLsSoFar, BeforeYAML, BeforeUsers
<1>6. RealmSoFar'
  BY <1>1 DEF RealmSoFar, BeforeRealm, BeforeYAML
<1>7. exit' \in {0, 1, 2}
  BY <1>0, <1>1 DEF TypeOK
<1>8. QED
  BY <1>0, <1>1, <1>3, <1>4, <1>5, <1>6, <1>7, LateStep DEF BeforeUsers

LEMMA WriteDRYAMLInOrder ==
  ASSUME ConversionInv, WriteDRYAML
  PROVE  ConversionInv'
<1>0. TypeOK /\ NamedUsersAreWritten /\ UsersWritten /\ Progress /\ pc = "dr"
  BY Running DEF WriteDRYAML
<1>1. /\ UNCHANGED <<input, i, ftlUsers, kafkaUsers, brokers, exit>> /\ pc' = "secure"
      /\ \/ flags.dr /\ Put(DRStem, DRYAML)
         \/ ~flags.dr /\ UNCHANGED disk
      /\ runs' = runs /\ flags' = flags
  BY DEF WriteDRYAML, input
<1>2. /\ Directory' /\ UsersKept
      /\ \A g \in Files : g # DRStem => dir'[g] = dir[g]
      /\ flags.dr => dir'[DRStem] = DRYAML
  <2>1. CASE Put(DRStem, DRYAML)
    <3>1. DRStem \in Files /\ DRStem \notin BaseYamls \cup SecureYamls /\ DRYAML.run = runs
      BY FileNames DEF DRYAML
    <3>2. QED
      BY <1>0, <1>1, <2>1, <3>1, PutFile, PutKeepsOrder, OtherNames
  <2>2. CASE ~flags.dr /\ UNCHANGED disk
    BY <1>0, <1>1, <2>2, DiskStays
  <2>3. QED
    BY <1>1, <2>1, <2>2
<1>3. /\ dir'["unsupported"] = dir["unsupported"] /\ dir'["kafka-users"] = dir["kafka-users"]
      /\ dir'[SecureStem] = dir[SecureStem] /\ dir'[Stem] = dir[Stem]
  BY <1>2, FileNames DEF BaseYamls, SecureYamls
<1>4. YAMLsSoFar'
  BY <1>0, <1>1, <1>2, <1>3, SameInput, SameYAML DEF Progress, YAMLsSoFar, BeforeYAML, BeforeUsers
<1>5. RealmSoFar'
  BY <1>1 DEF RealmSoFar, BeforeRealm, BeforeYAML
<1>6. exit' \in {0, 1, 2}
  BY <1>0, <1>1 DEF TypeOK
<1>7. QED
  BY <1>0, <1>1, <1>2, <1>3, <1>4, <1>5, <1>6, LateStep DEF BeforeUsers

LEMMA WriteSecureYAMLInOrder ==
  ASSUME ConversionInv, WriteSecureYAML
  PROVE  ConversionInv'
<1>0. TypeOK /\ NamedUsersAreWritten /\ UsersWritten /\ Progress /\ pc = "secure"
  BY Running DEF WriteSecureYAML
<1>1. /\ UNCHANGED <<input, i, ftlUsers, kafkaUsers, brokers, exit>> /\ pc' = "realm"
      /\ \/ WritesSecure /\ Put(SecureStem, SecureYAML)
         \/ ~WritesSecure /\ UNCHANGED disk
      /\ runs' = runs /\ flags' = flags
  BY DEF WriteSecureYAML, input
<1>2. /\ SecureYAML.run = runs /\ SecureYAML.files \subseteq UsersFiles
      /\ \A g \in SecureYAML.files \ {"operator-users"} : dir[g].run = runs /\ g \notin cut
  <2>1. SecureUsers \in {"", "operator-users", ftlUsers}
    BY <1>0, AuthFileType DEF SecureUsers
  <2>2. QED
    BY <1>0, <2>1, NamedFiles DEF SecureYAML
<1>3. /\ Directory' /\ UsersKept
      /\ \A g \in Files : g # SecureStem => dir'[g] = dir[g]
      /\ IF WritesSecure THEN dir'[SecureStem] = SecureYAML
         ELSE dir'[SecureStem] = dir[SecureStem]
  <2>1. CASE WritesSecure /\ Put(SecureStem, SecureYAML)
    <3>1. SecureStem \in Files
      BY FileNames
    <3>2. QED
      BY <1>0, <1>1, <1>2, <2>1, <3>1, PutFile, PutKeepsOrder, OtherNames
  <2>2. CASE ~WritesSecure /\ UNCHANGED disk
    BY <1>0, <1>1, <2>2, DiskStays
  <2>3. QED
    BY <1>1, <2>1, <2>2
<1>4. /\ dir'["unsupported"] = dir["unsupported"] /\ dir'["kafka-users"] = dir["kafka-users"]
      /\ dir'[DRStem] = dir[DRStem] /\ dir'[Stem] = dir[Stem]
  BY <1>3, FileNames DEF BaseYamls, SecureYamls
<1>5. YAMLsSoFar'
  BY <1>0, <1>1, <1>3, <1>4, SameInput, SameYAML DEF Progress, YAMLsSoFar, BeforeYAML, BeforeUsers
<1>6. RealmSoFar'
  BY <1>1 DEF RealmSoFar, BeforeRealm, BeforeYAML
<1>7. exit' \in {0, 1, 2}
  BY <1>0, <1>1 DEF TypeOK
<1>8. QED
  BY <1>0, <1>1, <1>3, <1>4, <1>5, <1>6, <1>7, LateStep DEF BeforeUsers

\* The realm and the migration file.
LEMMA WriteRealmInOrder ==
  ASSUME ConversionInv, WriteRealmJSON \/ WriteMigrationConfig
  PROVE  ConversionInv'
<1> DEFINE listed == [run |-> runs, servers |-> Len(cfgs)]
<1>0. TypeOK /\ NamedUsersAreWritten /\ UsersWritten /\ Progress /\ pc \in {"realm", "migration"}
  BY Running DEF WriteRealmJSON, WriteMigrationConfig
<1>1. /\ UNCHANGED <<input, i, ftlUsers, kafkaUsers, brokers, exit>>
      /\ \/ pc = "realm" /\ pc' = "migration" /\ Put("realm", RealmJSON)
         \/ pc = "migration" /\ pc' = "report" /\ flags.migration /\ Put("migration", listed)
         \/ pc = "migration" /\ pc' = "report" /\ ~flags.migration /\ UNCHANGED disk
      /\ runs' = runs /\ flags' = flags /\ cfgs' = cfgs
  BY DEF WriteRealmJSON, WriteMigrationConfig, input
<1>2. /\ Directory' /\ UsersKept
      /\ \A g \in Files \ {"realm", "migration"} : dir'[g] = dir[g]
      /\ pc = "realm" => dir'["realm"] = RealmJSON
      /\ pc = "migration" => dir'["realm"] = dir["realm"] /\ (flags.migration => dir'["migration"] = listed)
  <2>0. {"realm", "migration"} \subseteq Files /\ RealmJSON.run = runs /\ listed.run = runs
    BY FileNames DEF RealmJSON
  <2>1. CASE pc = "realm" /\ Put("realm", RealmJSON)
    BY <1>0, <1>1, <2>0, <2>1, PutFile, PutKeepsOrder, OtherNames
  <2>2. CASE pc = "migration" /\ Put("migration", listed)
    BY <1>0, <1>1, <2>0, <2>2, PutFile, PutKeepsOrder, OtherNames
  <2>3. CASE pc = "migration" /\ ~flags.migration /\ UNCHANGED disk
    BY <1>0, <1>1, <2>3, DiskStays
  <2>4. QED
    BY <1>1, <2>1, <2>2, <2>3
<1>3. /\ dir'["unsupported"] = dir["unsupported"] /\ dir'["kafka-users"] = dir["kafka-users"]
      /\ dir'[DRStem] = dir[DRStem] /\ dir'[Stem] = dir[Stem] /\ dir'[SecureStem] = dir[SecureStem]
  BY <1>2, FileNames DEF BaseYamls, SecureYamls
<1>4. YAMLsSoFar'
  BY <1>0, <1>1, <1>3, SameInput, SameYAML DEF Progress, YAMLsSoFar, BeforeYAML, BeforeUsers
<1>5. RealmSoFar'
  BY <1>0, <1>1, <1>2, SameInput DEF Progress, RealmSoFar, BeforeRealm, BeforeYAML, BeforeUsers
<1>6. exit' \in {0, 1, 2} /\ pc' \in {"migration", "report"}
  BY <1>0, <1>1 DEF TypeOK
<1>7. pc \notin BeforeUsers \cup {"kafka-users", "ended"}
  BY <1>0 DEF BeforeUsers
<1>8. QED
  BY <1>1, <1>2, <1>3, <1>4, <1>5, <1>6, <1>7, LateStep

LEMMA ReportInOrder ==
  ASSUME ConversionInv, Report
  PROVE  ConversionInv'
<1>0. TypeOK /\ NamedUsersAreWritten /\ UsersWritten /\ Progress /\ pc = "report"
  BY Running DEF Report
<1>1. /\ UNCHANGED <<input, i, ftlUsers, kafkaUsers, brokers, disk>> /\ pc' = "ended"
      /\ exit' \in {0, 1, 2} /\ runs' = runs /\ flags' = flags /\ cfgs' = cfgs
  BY DEF Report, input
<1>2. Directory' /\ UsersKept /\ dir' = dir /\ cut' = cut
  BY <1>0, <1>1, DiskStays
<1>3. YAMLsSoFar'
  BY <1>0, <1>1, <1>2, SameInput, SameYAML DEF Progress, YAMLsSoFar, BeforeYAML, BeforeUsers
<1>4. RealmSoFar'
  BY <1>0, <1>1, <1>2, SameInput DEF Progress, RealmSoFar, BeforeRealm, BeforeYAML, BeforeUsers
<1>5. QED
  BY <1>0, <1>1, <1>2, <1>3, <1>4, LateStep DEF BeforeUsers

-----------------------------------------------------------------------------
(* Runs.                                                                   *)

\* A run that starts finds the directory as the earlier ones left it.
LEMMA StartInOrder ==
  ASSUME ConversionInv, NEW s \in Seq(Broker), s # <<>>, 1..Len(s) \subseteq BrokerNumbers,
         NEW f \in Flag, Start(s, f), suggested' \in BOOLEAN
  PROVE  ConversionInv'
<1>0. TypeOK /\ NamedUsersAreWritten
  BY DEF ConversionInv
<1>1. /\ cfgs' = s /\ flags' = f /\ runs' = runs + 1 /\ runs < MaxRuns
      /\ pc' = "brokers" /\ i' = 1 /\ UNCHANGED <<brokers, disk, exit>>
      /\ brokerFiles' = brokerFiles /\ cutBrokers' = cutBrokers /\ dir' = dir
  BY DEF Start, brokers, disk
<1>1a. ftlUsers' = "" /\ kafkaUsers' = ""
  BY DEF Start
<1>2. Directory'
  BY <1>0, <1>1, DirectoryStays
<1>3. runs \in Nat /\ MaxRuns \in Nat /\ runs' \in 1..MaxRuns /\ runs < runs' /\ 1..runs \subseteq 1..runs'
  <2>1. MaxRuns \in Nat
    BY ConstantsAssumption
  <2>2. runs \in Nat
    BY <1>0, RunNumbers
  <2>3. QED
    BY <1>1, <2>1, <2>2
<1>4. Len(s) \in Nat /\ Len(s) # 0
  BY LenProperties, EmptySeq
<1>5. TypeOK'
  <2>1. \A b \in DOMAIN brokerFiles' :
          \/ brokerFiles'[b] = Absent
          \/ brokerFiles'[b].run \in 1..runs' /\ brokerFiles'[b].broker \in Broker
             /\ brokerFiles'[b].broker.users = <<>>
    BY <1>0, <1>1, <1>3 DEF TypeOK
  <2>2. i' \in 1..(Len(cfgs') + 1)
    BY <1>1, <1>4
  <2>3. exit' \in {0, 1, 2} /\ DOMAIN brokerFiles' = BrokerNumbers
    BY <1>0, <1>1 DEF TypeOK
  <2>4. QED
    BY <1>0, <1>1, <1>2, <1>3, <1>1a, <2>1, <2>2, <2>3 DEF TypeOK, Directory
<1>6. UsersWritten'
  BY <1>1a DEF UsersWritten
<1>7. Progress'
  <2>1. BrokersSoFar'
    <3>1. 1 <= Len(s) /\ 1..(1 - 1) = {}
      BY <1>4
    <3>2. QED
      BY <1>1, <3>1 DEF BrokersSoFar
  <2>2. UsersSoFar'
    BY <1>1, <1>1a DEF UsersSoFar, BeforeUsers
  <2>3. \A g \in Files : dir'[g].run < runs'
    BY <1>0, <1>1, <1>3, RunNumbers
  <2>4. SecureStem' \in Files
    <3>1. SecureStem' \in {"standalone-secure", "cluster-secure"}
      BY DEF SecureStem
    <3>2. QED
      BY <3>1 DEF Files
  <2>5. YAMLsSoFar'
    BY <1>1, <2>3, <2>4, FileNames DEF YAMLsSoFar, BeforeYAML, BeforeUsers
  <2>6. UnsupportedSoFar' /\ RealmSoFar'
    BY <1>1 DEF UnsupportedSoFar, RealmSoFar, BeforeRealm, BeforeYAML, BeforeUsers
  <2>7. QED
    BY <2>1, <2>2, <2>5, <2>6 DEF Progress
<1>8. QED
  BY <1>2, <1>5, <1>6, <1>7, InvFromParts

LEMMA InputsType ==
  ASSUME NEW s \in Inputs
  PROVE  s \in Seq(Broker) /\ s # <<>> /\ 1..Len(s) \subseteq BrokerNumbers
BY ConstantsAssumption DEF BrokerNumbers

LEMMA ConvertInOrder ==
  ASSUME ConversionInv, Convert
  PROVE  ConversionInv'
<1>1. PICK s \in Inputs, f \in Flags : Start(s, f) /\ suggested' = FALSE
  BY DEF Convert
<1>2. f \in Flag
  BY ConstantsAssumption
<1>3. QED
  BY <1>1, <1>2, InputsType, StartInOrder

\* The suggested run reads what the last one wrote.
LEMMA FollowSuggestionInOrder ==
  ASSUME ConversionInv, FollowSuggestion
  PROVE  ConversionInv'
<1>1. PICK b \in 1..Len(cfgs), secure, oauth \in BOOLEAN :
        Start(<<[brokerFiles[b].broker EXCEPT !.secure = secure, !.oauth = oauth, !.invalid = FALSE]>>,
              NoFlags)
  BY DEF FollowSuggestion
<1>2. pc = "ended" /\ exit = 2 /\ suggested' = TRUE
  BY DEF FollowSuggestion
<1>3. TypeOK /\ BrokersSoFar
  BY <1>2 DEF ConversionInv, Failed
<1>4. Len(cfgs) \in Nat /\ Len(cfgs) # 0 /\ i = Len(cfgs) + 1
  BY <1>2, <1>3, LenProperties, EmptySeq DEF TypeOK, BrokersSoFar
<1>5. brokerFiles[b] = BrokerProperties(b) /\ b \in DOMAIN brokerFiles /\ 1 \in BrokerNumbers
  <2>1. b \in 1..(i - 1) /\ 1 \in 1..Len(cfgs)
    BY <1>4
  <2>2. QED
    BY <1>3, <2>1 DEF TypeOK, BrokersSoFar
<1>6. brokerFiles[b].broker \in Broker
  <2>1. brokerFiles[b].run # 0
    BY <1>3, <1>5, RunNumbers DEF BrokerProperties
  <2>2. brokerFiles[b] # Absent
    BY <2>1 DEF Absent
  <2>3. QED
    BY <1>3, <1>5, <2>2 DEF TypeOK
<1> DEFINE edited == [brokerFiles[b].broker EXCEPT !.secure = secure, !.oauth = oauth, !.invalid = FALSE]
<1>7. edited \in Broker
  BY <1>6 DEF Broker
<1>8. /\ <<edited>> \in Seq(Broker) /\ <<edited>> # <<>> /\ Len(<<edited>>) = 1
      /\ 1..Len(<<edited>>) \subseteq BrokerNumbers
  <2>1. <<edited>> \in Seq(Broker) /\ <<edited>> # <<>> /\ Len(<<edited>>) = 1
    BY <1>7
  <2>2. 1..1 = {1}
    OBVIOUS
  <2>3. QED
    BY <1>5, <2>1, <2>2
<1>9. NoFlags \in Flag
  BY DEF NoFlags, Flag
<1>10. QED
  BY <1>1, <1>2, <1>8, <1>9, StartInOrder

LEMMA InitInOrder ==
  ASSUME Init
  PROVE  ConversionInv
<1>1. /\ cfgs \in Inputs /\ flags \in Flags /\ runs = 1 /\ suggested = FALSE
      /\ pc = "brokers" /\ i = 1 /\ exit = 0
      /\ brokerFiles = [b \in BrokerNumbers |-> Absent] /\ dir = [f \in Files |-> Absent]
      /\ cutBrokers = {} /\ cut = {}
  BY DEF Init
<1>1a. ftlUsers = "" /\ kafkaUsers = ""
  BY DEF Init
<1>2. cfgs \in Seq(Broker) /\ cfgs # <<>> /\ 1..Len(cfgs) \subseteq BrokerNumbers
  BY <1>1, InputsType
<1>3. Len(cfgs) \in Nat /\ Len(cfgs) # 0
  BY <1>2, LenProperties, EmptySeq
<1>4. \A f \in Files : dir[f].run = 0
  BY <1>1 DEF Absent
<1>4a. \A y \in BaseYamls \cup SecureYamls : dir[y].run = 0 /\ ~(dir[y].run > 0)
  <2>1. BaseYamls \cup SecureYamls \subseteq Files
    BY FileNames
  <2>2. \A y \in BaseYamls \cup SecureYamls : dir[y].run = 0
    BY <1>4, <2>1
  <2>3. QED
    BY <2>2
<1>5. flags \in Flag /\ runs \in 1..MaxRuns
  <2>1. MaxRuns \in Nat \ {0} /\ Flags \subseteq Flag
    BY ConstantsAssumption
  <2>2. QED
    BY <1>1, <2>1
<1>6. TypeOK
  <2>1. i \in 1..(Len(cfgs) + 1)
    BY <1>1, <1>3
  <2>2. DOMAIN dir = Files /\ \A f \in Files : dir[f].run \in 0..runs
    BY <1>1, <1>4
  <2>3. \A y \in BaseYamls \cup SecureYamls : ~(dir[y].run > 0)
    BY <1>4a
  <2>4. DOMAIN brokerFiles = BrokerNumbers /\ \A b \in BrokerNumbers : brokerFiles[b] = Absent
    BY <1>1
  <2>5. QED
    BY <1>1, <1>1a, <1>2, <1>5, <2>1, <2>2, <2>3, <2>4 DEF TypeOK
<1>7. NamedUsersAreWritten
  BY <1>4a DEF NamedUsersAreWritten
<1>8. UsersWritten
  BY <1>1a DEF UsersWritten
<1>9. BrokersSoFar
  <2>1. 1 <= Len(cfgs) /\ 1..(1 - 1) = {}
    BY <1>3
  <2>2. QED
    BY <1>1, <2>1 DEF BrokersSoFar
<1>10. UsersSoFar
  BY <1>1, <1>1a DEF UsersSoFar, BeforeUsers
<1>11. YAMLsSoFar
  <2>1. dir[SecureStem].run < runs /\ \A y \in BaseYamls \cup SecureYamls : dir[y].run < runs
    BY <1>1, <1>4, FileNames
  <2>2. QED
    BY <1>1, <2>1 DEF YAMLsSoFar, BeforeYAML, BeforeUsers
<1>12. UnsupportedSoFar /\ RealmSoFar
  BY <1>1 DEF UnsupportedSoFar, RealmSoFar, BeforeRealm, BeforeYAML, BeforeUsers
<1>13. QED
  BY <1>6, <1>7, <1>8, <1>9, <1>10, <1>11, <1>12 DEF ConversionInv

\* In any number of runs over one directory, ended anywhere: the files a run has
\* passed are its own, and a users file that a YAML names is not older than it.
THEOREM ConversionInvariant == Spec => []ConversionInv
<1>1. ConversionInv /\ [Next]_vars => ConversionInv'
  <2> SUFFICES ASSUME ConversionInv, [Next]_vars PROVE ConversionInv'
    OBVIOUS
  <2>1. CASE UNCHANGED vars
    <3>1. /\ UNCHANGED <<input, pc, i, ftlUsers, kafkaUsers, brokers, disk, exit>>
          /\ runs' = runs /\ UNCHANGED <<brokerFiles, cutBrokers, dir, cut>>
      BY <2>1 DEF vars, input, brokers, disk
    <3>2. Directory'
      BY <3>1, DirectoryStays DEF ConversionInv
    <3>3. TypeOK' /\ UsersWritten'
      BY <3>1 DEF ConversionInv, TypeOK, UsersWritten, input
    <3>4. Failed' <=> Failed
      BY <3>1 DEF Failed
    <3>5. ~Failed => Progress'
      <4>1. ~Failed => Progress
        BY DEF ConversionInv, Progress
      <4>2. BrokersSoFar => BrokersSoFar'
        BY <3>1, SameInput DEF BrokersSoFar
      <4>3. UnsupportedSoFar => UnsupportedSoFar'
        BY <3>1, SameInput DEF UnsupportedSoFar
      <4>4. UsersSoFar => UsersSoFar'
        BY <3>1, SameInput, SameYAML DEF UsersSoFar
      <4>5. YAMLsSoFar => YAMLsSoFar'
        BY <3>1, SameInput, SameYAML DEF YAMLsSoFar
      <4>6. RealmSoFar => RealmSoFar'
        BY <3>1, SameInput DEF RealmSoFar
      <4>7. QED
        BY <4>1, <4>2, <4>3, <4>4, <4>5, <4>6 DEF Progress
    <3>6. QED
      BY <3>2, <3>3, <3>4, <3>5, InvFromParts
  <2>2. QED
    BY <2>1, StopsInOrder, BreaksOffInOrder, WriteBrokerInOrder, WriteUnsupportedInOrder, WriteFTLServerUsersInOrder,
       WriteKafkaClientUsersInOrder, WriteYAMLInOrder, WriteDRYAMLInOrder, WriteSecureYAMLInOrder,
       WriteRealmInOrder, ReportInOrder, ConvertInOrder, FollowSuggestionInOrder DEF Next, Run
<1>2. QED
  BY <1>1, InitInOrder, PTL DEF Spec

-----------------------------------------------------------------------------
(* What a completed run has left.                                          *)

LEMMA CompletedRun ==
  ASSUME ConversionInv, Completed
  PROVE  TypeOK /\ Progress /\ pc = "ended" /\ Len(cfgs) \in Nat /\ Len(cfgs) # 0
<1>1. TypeOK /\ Progress /\ pc = "ended"
  BY DEF ConversionInv, Completed, Failed, Progress
<1>2. QED
  BY <1>1, LenProperties, EmptySeq DEF TypeOK

\* An exit code other than 1 means that every file of the run is the run's own and
\* its users files are whole, and that those of the others that are whole are for its
\* own servers and have every setting on record.
THEOREM CompletedRunsFitTogether == Spec => []CompletedRunFitsTogether
<1>1. ConversionInv => CompletedRunFitsTogether
  <2> SUFFICES ASSUME ConversionInv, Completed PROVE CompletedRunFitsTogether
    BY DEF CompletedRunFitsTogether
  <2>0. TypeOK /\ Progress /\ UsersWritten /\ pc = "ended" /\ Len(cfgs) \in Nat
    BY CompletedRun DEF ConversionInv
  <2>1. ASSUME NEW b \in 1..Len(cfgs)
        PROVE  brokerFiles[b].run = runs /\ brokerFiles[b].broker.id = cfgs[b].id
    <3>1. i = Len(cfgs) + 1
      BY <2>0 DEF Progress, BrokersSoFar
    <3>2. b \in 1..(i - 1)
      BY <2>0, <3>1
    <3>3. brokerFiles[b] = BrokerProperties(b)
      BY <2>0, <3>2 DEF Progress, BrokersSoFar
    <3>4. cfgs[b] \in Broker
      BY <2>0, ElementOfSeq DEF TypeOK
    <3>5. Emitted(cfgs[b]).id = cfgs[b].id
      BY <3>4 DEF Emitted, Broker
    <3>6. QED
      BY <3>3, <3>5 DEF BrokerProperties
  <2> DEFINE listed == [run |-> runs, servers |-> Len(cfgs)]
  <2>2. /\ dir[Stem] = YAML /\ dir["realm"] = RealmJSON /\ (flags.dr => dir[DRStem] = DRYAML)
        /\ dir[SecureStem].run < runs \/ dir[SecureStem] = SecureYAML
        /\ flags.migration => dir["migration"] = listed
    BY <2>0 DEF Progress, YAMLsSoFar, RealmSoFar, BeforeRealm, BeforeYAML, BeforeUsers
  <2>3. dir[SecureStem].run = runs => dir[SecureStem] = SecureYAML
    BY <2>0, <2>2, RunNumbers, FileNames
  <2>4. UnsupportedKeys # {} =>
          dir["unsupported"].run = runs /\ DOMAIN dir["unsupported"].settings = UnsupportedKeys
    <3>1. DOMAIN AllUnsupported = UnsupportedKeys
      BY DEF AllUnsupported
    <3>2. UnsupportedKeys # {} => dir["unsupported"] = [run |-> runs, settings |-> AllUnsupported]
      BY <2>0 DEF Progress, UnsupportedSoFar
    <3>3. QED
      BY <3>1, <3>2
  <2>5. /\ YAML.run = runs /\ YAML.servers = Len(cfgs) /\ YAML.dr = flags.dr
        /\ RealmJSON.run = runs /\ RealmJSON.servers = Len(cfgs) /\ RealmJSON.dr = flags.dr
        /\ SecureYAML.dr = flags.dr /\ SecureYAML.servers = Len(cfgs)
        /\ DRYAML.run = runs /\ DRYAML.servers = Len(cfgs)
    BY DEF YAML, RealmJSON, SecureYAML, DRYAML
  <2>6. \A f \in {ftlUsers, kafkaUsers} \ {"", "operator-users"} : dir[f].run = runs /\ f \notin cut
    BY <2>0 DEF TypeOK, UsersWritten
  <2>7. \A f \in {Stem, SecureStem, "realm"} : dir[f].run = runs =>
          dir[f].servers = Len(cfgs) /\ dir[f].dr = flags.dr
    BY <2>2, <2>3, <2>5
  <2>8. /\ flags.dr => dir[DRStem].run = runs /\ dir[DRStem].servers = Len(cfgs)
        /\ flags.migration => dir["migration"].run = runs /\ dir["migration"].servers = Len(cfgs)
    BY <2>2, <2>5
  <2>9. QED
    BY <2>1, <2>2, <2>4, <2>5, <2>6, <2>7, <2>8 DEF CompletedRunFitsTogether
<1>2. QED
  BY <1>1, ConversionInvariant, PTL

\* An inline user of any broker logs in with the password of that broker, or the
\* run has refused.
THEOREM UsersKeepPasswords == Spec => []EveryUserKeepsItsPassword
<1>1. ConversionInv => EveryUserKeepsItsPassword
  <2> SUFFICES ASSUME ConversionInv, Completed, ftlUsers # "",
                      NEW b \in 1..Len(cfgs), NEW u \in 1..Len(cfgs[b].users)
               PROVE  /\ "kafka-users" \in dir[Stem].files
                      /\ dir["kafka-users"].run = runs /\ "kafka-users" \notin cut
                      /\ dir["kafka-users"].users[cfgs[b].users[u][1]] = cfgs[b].users[u][2]
    BY DEF EveryUserKeepsItsPassword
  <2> DEFINE user == cfgs[b].users[u]
  <2>0. TypeOK /\ Progress /\ pc = "ended"
    BY CompletedRun
  <2>1. user \in AllUsers
    <3>1. user \in Items(cfgs[b].users)
      BY DEF Items
    <3>2. QED
      BY <3>1 DEF AllUsers
  <2>2. Collects
    BY <2>1 DEF Collects
  <2>3. /\ kafkaUsers = "kafka-users" /\ dir["kafka-users"] = KafkaClientUsers /\ ~Conflict
        /\ "kafka-users" \notin cut
    BY <2>0, <2>2 DEF Progress, UsersSoFar, BeforeUsers, ConversionInv, UsersWritten
  <2>4. dir[Stem] = YAML
    BY <2>0 DEF Progress, YAMLsSoFar, BeforeYAML, BeforeUsers
  <2>5. "kafka-users" \in YAML.files
    BY <2>3 DEF YAML, UserFiles
  <2>6. Password(user[1]) = user[2]
    <3> DEFINE v == CHOOSE w \in AllUsers : w[1] = user[1]
    <3>1. v \in AllUsers /\ v[1] = user[1]
      BY <2>1
    <3>2. v = user
      BY <2>1, <2>3, <3>1 DEF Conflict
    <3>3. QED
      BY <3>2 DEF Password
  <2>7. KafkaClientUsers.run = runs /\ KafkaClientUsers.users[user[1]] = Password(user[1])
    <3>1. user[1] \in {e[1] : e \in AllUsers}
      BY <2>1
    <3>2. QED
      BY <3>1 DEF KafkaClientUsers
  <2>8. QED
    BY <2>3, <2>4, <2>5, <2>6, <2>7
<1>2. QED
  BY <1>1, ConversionInvariant, PTL

\* The secure YAML authenticates, with the users files of the plain one.
THEOREM SecureYamlsAuthenticate == Spec => []SecureYamlAuthenticates
<1>1. ConversionInv => SecureYamlAuthenticates
  <2> SUFFICES ASSUME ConversionInv, Completed, dir[SecureStem].run = runs
               PROVE  dir[SecureStem].files # {} /\ dir[SecureStem].files = dir[Stem].files
    BY DEF SecureYamlAuthenticates
  <2>0. TypeOK /\ Progress /\ pc = "ended"
    BY CompletedRun
  <2>1. runs \in Nat
    BY <2>0, RunNumbers
  <2>2. dir[Stem] = YAML /\ WritesSecure /\ dir[SecureStem] = SecureYAML
    BY <2>0, <2>1 DEF Progress, YAMLsSoFar, BeforeYAML, BeforeUsers
  <2>3. ftlUsers = IF Provisions THEN "ftl-users" ELSE flags.authFile
    BY <2>0 DEF Progress, UsersSoFar, BeforeUsers
  <2>4. SecureUsers = ftlUsers /\ ftlUsers # ""
    BY <2>2, <2>3 DEF SecureUsers, Provisions, WritesSecure
  <2>5. YAML.files = UserFiles(ftlUsers, kafkaUsers) /\ SecureYAML.files = YAML.files
    BY <2>4 DEF YAML, SecureYAML
  <2>6. ftlUsers \in UserFiles(ftlUsers, kafkaUsers)
    BY <2>4 DEF UserFiles
  <2>7. QED
    BY <2>2, <2>5, <2>6
<1>2. QED
  BY <1>1, ConversionInvariant, PTL
=============================================================================
