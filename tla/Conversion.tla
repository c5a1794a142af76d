------------------------------ MODULE Conversion ------------------------------
(***************************************************************************)
(* The importer's runs over one output directory (main.go 200-458,         *)
(* translator/ftl_auth.go, secure_yaml.go).  A run writes its files one by *)
(* one and exits at the first that it cannot create; nothing is ever       *)
(* deleted, so that a later run, over other brokers or with other flags,   *)
(* finds the files of the earlier ones.  Most writers look at no error     *)
(* after os.Create, so that a file may be cut off and the run go on.       *)
(*                                                                         *)
(* A broker is reduced to what decides which files are written and what    *)
(* they name: `id' is the broker it describes, `secure' is IsSecure,       *)
(* `oauth' an oauth_tls listener, `users' the inline users of its          *)
(* SASL/PLAIN listeners in their order, `invalid' its status and           *)
(* `unsupported' the settings FSK has no equivalent for, in file order.    *)
(***************************************************************************)
EXTENDS Naturals, Sequences, FiniteSets

CONSTANTS
  Inputs,     \* the broker sequences the operator may convert
  Flags,      \* the flags the operator may give
  MaxRuns,    \* bound: runs of the tool
  MaxCut      \* bound: files in the directory that are cut off

Broker == [id : Nat \ {0}, secure : BOOLEAN, oauth : BOOLEAN,
           users : Seq(STRING \X STRING), invalid : BOOLEAN,
           unsupported : Seq(STRING \X STRING)]

\* authFile is --auth-users-file, serverUser --server-user, tls --tls-cert,
\* token --oauth-token-url, dr --dr-servers, migration --migration-config.
Flag == [authFile : {"", "operator-users"}, serverUser : {"internal", "operator"},
         tls : BOOLEAN, token : BOOLEAN, dr : BOOLEAN, migration : BOOLEAN]

ASSUME ConstantsAssumption ==
  /\ Inputs \subseteq Seq(Broker)
  /\ \A s \in Inputs : s # <<>> /\ \A b \in 1..Len(s) : /\ s[b].id = b
                                                        /\ s[b].users # <<>> \/ s[b].oauth
                                                             => s[b].secure
                                                        /\ s[b].users # <<>> => s[b].unsupported # <<>>
  /\ Flags \subseteq Flag /\ MaxRuns \in Nat \ {0} /\ MaxCut \in Nat

VARIABLES
  cfgs, flags,   \* the run's input
  runs,          \* how many runs have been started
  suggested,     \* history: whether this run is the one the last run told to make
  pc, i,
  ftlUsers,      \* ftlUsersFile
  kafkaUsers,    \* kafkaUsersFile
  brokerFiles,   \* kof.broker.N.properties
  cutBrokers,    \* those of them that hold only the beginning of it
  dir,           \* the other files
  cut,           \* those of them that hold only the beginning of it
  exit           \* the exit code of the last run

input == <<cfgs, flags, runs, suggested>>
brokers == <<brokerFiles, cutBrokers>>
disk == <<dir, cut>>
vars == <<input, pc, i, ftlUsers, kafkaUsers, brokers, disk, exit>>

\* A file is a record of what a run was writing to it, with that run; run 0
\* never was.
Absent == [run |-> 0]
Files == {"unsupported", "ftl-users", "kafka-users", "realm", "migration"}
           \cup {"standalone", "cluster", "standalone-secure", "cluster-secure"}
           \cup {"standalone-dr", "cluster-dr"}

BrokerNumbers == UNION {1..Len(s) : s \in Inputs}

Items(seq) == {seq[j] : j \in 1..Len(seq)}

-----------------------------------------------------------------------------
(* The files.                                                              *)

Stem == IF Len(cfgs) <= 1 THEN "standalone" ELSE "cluster"
SecureStem == IF Len(cfgs) <= 1 THEN "standalone-secure" ELSE "cluster-secure"
DRStem == IF Len(cfgs) <= 1 THEN "standalone-dr" ELSE "cluster-dr"

CreateMutant(file, content) == dir' = [dir EXCEPT ![file] = IF @.run = 0 THEN content ELSE @]

\* os.Create: whatever the file held is gone.
Create(file, content) == dir' = [dir EXCEPT ![file] = content]

CutAllowed == Cardinality(cut) + Cardinality(cutBrokers) < MaxCut

PutWholeMutant(file, content) ==
  Create(file, content) /\ cut' \in {cut \ {file}, cut \cup {file}}

\* Every byte arrives, or else only some do, on a full disk say.
PutWhole(file, content) == Create(file, content) /\ cut' = cut \ {file}
PutCut(file, content) == Create(file, content) /\ CutAllowed /\ cut' = cut \cup {file}

\* A writer that ignores the errors of its writes and of Close.
Put(file, content) == PutWhole(file, content) \/ PutCut(file, content)

\* What a kof.broker.N.properties says of its broker to a later run: the JAAS
\* lines are not among the supported keys, nor is any unsupported setting.
Emitted(b) == [b EXCEPT !.users = <<>>, !.unsupported = <<>>]

BrokerProperties(b) == [run |-> runs, broker |-> Emitted(cfgs[b])]

WriteBroker ==
  /\ pc = "brokers"
  /\ brokerFiles' = [brokerFiles EXCEPT ![i] = BrokerProperties(i)]
  /\ \/ cutBrokers' = cutBrokers \ {i}
     \/ CutAllowed /\ cutBrokers' = cutBrokers \cup {i}
  /\ i' = i + 1 /\ pc' = IF i = Len(cfgs) THEN "unsupported" ELSE pc
  /\ UNCHANGED <<input, ftlUsers, kafkaUsers, disk, exit>>

UnsupportedKeys == {e[1] : e \in UNION {Items(cfgs[b].unsupported) : b \in 1..Len(cfgs)}}

AllUnsupportedMutant ==
  [key \in {e[1] : e \in Items(cfgs[1].unsupported)} |->
     (CHOOSE e \in Items(cfgs[1].unsupported) : e[1] = key)[2]]

\* seenUnsupported: a key is written once, with the value of the first broker
\* that has it.
AllUnsupported ==
  [key \in UnsupportedKeys |->
     LET Has(b) == \E e \in Items(cfgs[b].unsupported) : e[1] = key
         first == CHOOSE b \in 1..Len(cfgs) : Has(b) /\ \A c \in 1..(b - 1) : ~Has(c)
     IN (CHOOSE e \in Items(cfgs[first].unsupported) : e[1] = key)[2]]

\* Only written when there is something to write.
WriteUnsupported ==
  /\ pc = "unsupported" /\ pc' = "ftl-users"
  /\ IF AllUnsupported # <<>>
     THEN Put("unsupported", [run |-> runs, settings |-> AllUnsupported])
     ELSE UNCHANGED disk
  /\ UNCHANGED <<input, i, ftlUsers, kafkaUsers, brokers, exit>>

\* cfgs[0].IsSecure && ftlUsersFile == ""
Provisions == cfgs[1].secure /\ flags.authFile = ""

WriteFTLServerUsers ==
  /\ pc = "ftl-users" /\ pc' = "kafka-users"
  /\ IF Provisions
     THEN PutWhole("ftl-users", [run |-> runs]) /\ ftlUsers' = "ftl-users"
     ELSE UNCHANGED disk /\ ftlUsers' = flags.authFile
  /\ UNCHANGED <<input, i, kafkaUsers, brokers, exit>>

AllUsers == UNION {Items(cfgs[b].users) : b \in 1..Len(cfgs)}

ConflictMutant == \E b \in 1..Len(cfgs) : \E u, v \in 1..Len(cfgs[b].users) :
                    cfgs[b].users[u][1] = cfgs[b].users[v][1] /\ cfgs[b].users[u] # cfgs[b].users[v]

\* A user that two listeners or two brokers give different passwords.
Conflict == \E u, v \in AllUsers : u[1] = v[1] /\ u # v

\* Without a conflict, any mention of a user.
Password(user) == (CHOOSE u \in AllUsers : u[1] = user)[2]

KafkaClientUsers == [run |-> runs, users |-> [u \in {e[1] : e \in AllUsers} |-> Password(u)]]

Collects == ftlUsers # "" /\ AllUsers # {}

WriteKafkaClientUsers ==
  /\ pc = "kafka-users" /\ (ftlUsers # "" => ~Conflict)
  /\ IF Collects
     THEN PutWhole("kafka-users", KafkaClientUsers) /\ kafkaUsers' = "kafka-users"
     ELSE UNCHANGED <<disk, kafkaUsers>>
  /\ pc' = "yaml"
  /\ UNCHANGED <<input, i, ftlUsers, brokers, exit>>

\* "inline jaas user has conflicting passwords": the broker files are written.
RefuseUsers ==
  /\ pc = "kafka-users" /\ ftlUsers # "" /\ Conflict
  /\ pc' = "ended" /\ exit' = 1
  /\ UNCHANGED <<input, i, ftlUsers, kafkaUsers, brokers, disk>>

UserFiles(first, second) == IF first = "" THEN {} ELSE {first, second} \ {""}

\* Every server presents the tool's own login, whosever the users file is.
YAML ==
  [run |-> runs, servers |-> Len(cfgs), files |-> UserFiles(ftlUsers, kafkaUsers),
   login |-> IF ftlUsers # "" THEN "internal" ELSE "", dr |-> flags.dr]

WriteYAML ==
  /\ pc = "yaml" /\ pc' = "dr"
  /\ Put(Stem, YAML)
  /\ UNCHANGED <<input, i, ftlUsers, kafkaUsers, brokers, exit>>

\* The replicas: one for each server, no users and no login.
DRYAML == [run |-> runs, servers |-> Len(cfgs), files |-> {}, login |-> ""]

WriteDRYAML ==
  /\ pc = "dr" /\ pc' = "secure"
  /\ IF flags.dr THEN Put(DRStem, DRYAML) ELSE UNCHANGED disk
  /\ UNCHANGED <<input, i, ftlUsers, kafkaUsers, brokers, exit>>

\* ShouldWriteSecure, on the flags as they were given.
WritesSecure == cfgs[1].secure /\ (flags.tls \/ flags.token \/ flags.authFile # "")

OAuth2 == cfgs[1].oauth /\ flags.token

SecureUsersMutant == flags.authFile

\* opts.AuthUsersFile: the flag, or the file this run provisioned.
SecureUsers == IF flags.authFile # "" THEN flags.authFile ELSE ftlUsers

\* Without TLS flags only an oauth2 configuration puts anything in the
\* server properties.
SecureYAML ==
  [run |-> runs, servers |-> Len(cfgs), files |-> UserFiles(SecureUsers, kafkaUsers),
   oauth2 |-> OAuth2, dr |-> flags.dr,
   login |-> IF flags.tls /\ ~OAuth2 THEN flags.serverUser ELSE ""]

WriteSecureYAML ==
  /\ pc = "secure" /\ pc' = "realm"
  /\ IF WritesSecure THEN Put(SecureStem, SecureYAML) ELSE UNCHANGED disk
  /\ UNCHANGED <<input, i, ftlUsers, kafkaUsers, brokers, exit>>

\* With --dr-servers every shard of the realm has a second set of pservers.
RealmJSON == [run |-> runs, servers |-> Len(cfgs), dr |-> flags.dr]

WriteRealmJSON ==
  /\ pc = "realm" /\ pc' = "migration"
  /\ Put("realm", RealmJSON)
  /\ UNCHANGED <<input, i, ftlUsers, kafkaUsers, brokers, exit>>

WriteMigrationConfig ==
  /\ pc = "migration" /\ pc' = "report"
  /\ IF flags.migration
     THEN Put("migration", [run |-> runs, servers |-> Len(cfgs)])
     ELSE UNCHANGED disk
  /\ UNCHANGED <<input, i, ftlUsers, kafkaUsers, brokers, exit>>

Report ==
  /\ pc = "report" /\ pc' = "ended"
  /\ exit' = IF \E b \in 1..Len(cfgs) : cfgs[b].invalid THEN 2 ELSE 0
  /\ UNCHANGED <<input, i, ftlUsers, kafkaUsers, brokers, disk>>

\* Whether the next step writes a file at all.
Writes ==
  \/ pc \in {"brokers", "yaml", "realm"}
  \/ pc = "unsupported" /\ UnsupportedKeys # {}
  \/ pc = "ftl-users" /\ Provisions
  \/ pc = "kafka-users" /\ Collects /\ ~Conflict
  \/ pc = "dr" /\ flags.dr
  \/ pc = "secure" /\ WritesSecure
  \/ pc = "migration" /\ flags.migration

\* The file cannot be created: the run ends where it is.
WriteFails ==
  /\ Writes /\ pc' = "ended" /\ exit' = 1
  /\ UNCHANGED <<input, i, ftlUsers, kafkaUsers, brokers, disk>>

\* os.WriteFile and the JSON encoder report a write that fails, when what the
\* file held is gone already.
WriteBreaksOff ==
  /\ \/ pc = "ftl-users" /\ Provisions /\ PutCut("ftl-users", [run |-> runs])
     \/ pc = "kafka-users" /\ Collects /\ ~Conflict /\ PutCut("kafka-users", KafkaClientUsers)
     \/ pc = "realm" /\ PutCut("realm", RealmJSON)
  /\ pc' = "ended" /\ exit' = 1
  /\ UNCHANGED <<input, i, ftlUsers, kafkaUsers, brokers>>

-----------------------------------------------------------------------------
(* Runs.                                                                   *)

Start(s, f) ==
  /\ pc = "ended" /\ runs < MaxRuns /\ runs' = runs + 1
  /\ cfgs' = s /\ flags' = f
  /\ pc' = "brokers" /\ i' = 1 /\ ftlUsers' = "" /\ kafkaUsers' = ""
  /\ UNCHANGED <<brokers, disk, exit>>

Convert == \E s \in Inputs, f \in Flags : Start(s, f) /\ suggested' = FALSE

\* The defaults of the flags.
NoFlags == [authFile |-> "", serverUser |-> "internal", tls |-> FALSE, token |-> FALSE,
            dr |-> FALSE, migration |-> FALSE]

\* Whether a run finds the broker in the file secure, and with oauth_tls: the
\* beginning of the file may lack the listeners, or what else makes them so.
Found(b, secure, oauth) ==
  IF b \in cutBrokers THEN oauth => secure
  ELSE brokerFiles[b].broker.secure = secure /\ brokerFiles[b].broker.oauth = oauth

\* "Then re-run the same command: tibftlimportconfig -output-dir <dir>
\* <dir>/kof.broker.N.properties", once its blocks have been edited.
FollowSuggestion ==
  /\ pc = "ended" /\ exit = 2
  /\ \E b \in 1..Len(cfgs), secure, oauth \in BOOLEAN :
       /\ cfgs[b].invalid /\ Found(b, secure, oauth)
       /\ Start(<<[brokerFiles[b].broker EXCEPT !.secure = secure, !.oauth = oauth, !.invalid = FALSE]>>,
                NoFlags)
  /\ suggested' = TRUE

Init ==
  /\ cfgs \in Inputs /\ flags \in Flags /\ runs = 1 /\ suggested = FALSE
  /\ pc = "brokers" /\ i = 1 /\ ftlUsers = "" /\ kafkaUsers = ""
  /\ brokerFiles = [b \in BrokerNumbers |-> Absent] /\ cutBrokers = {}
  /\ dir = [f \in Files |-> Absent] /\ cut = {} /\ exit = 0

Run ==
  \/ WriteBroker \/ WriteUnsupported \/ WriteFTLServerUsers
  \/ WriteKafkaClientUsers \/ RefuseUsers \/ WriteYAML \/ WriteDRYAML \/ WriteSecureYAML
  \/ WriteRealmJSON \/ WriteMigrationConfig \/ Report

Next == Run \/ WriteFails \/ WriteBreaksOff \/ Convert \/ FollowSuggestion

Spec == Init /\ [][Next]_vars

-----------------------------------------------------------------------------
(* Properties.                                                             *)

BaseYamls == {"standalone", "cluster"}
SecureYamls == {"standalone-secure", "cluster-secure"}

\* The variables have their types; in particular no broker file carries a
\* JAAS user on.
TypeOK ==
  /\ cfgs \in Seq(Broker) /\ cfgs # <<>> /\ 1..Len(cfgs) \subseteq BrokerNumbers
  /\ DOMAIN brokerFiles = BrokerNumbers
  /\ flags \in Flag /\ runs \in 1..MaxRuns /\ suggested \in BOOLEAN
  /\ pc \in {"brokers", "unsupported", "ftl-users", "kafka-users", "yaml", "dr", "secure", "realm",
             "migration", "report", "ended"}
  /\ i \in 1..(Len(cfgs) + 1)
  /\ ftlUsers \in {"", "ftl-users", "operator-users"} /\ kafkaUsers \in {"", "kafka-users"}
  /\ \A b \in DOMAIN brokerFiles :
       \/ brokerFiles[b] = Absent
       \/ brokerFiles[b].run \in 1..runs /\ brokerFiles[b].broker \in Broker
          /\ brokerFiles[b].broker.users = <<>>
  /\ cutBrokers \subseteq BrokerNumbers /\ cut \subseteq Files
  /\ DOMAIN dir = Files /\ \A f \in Files : dir[f].run \in 0..runs
  /\ \A y \in BaseYamls \cup SecureYamls : dir[y].run > 0 =>
       dir[y].files \subseteq {"ftl-users", "kafka-users", "operator-users"}
  /\ exit \in {0, 1, 2}

\* A YAML, of whatever run and however that or a later run ended, never names
\* a users file of the tool's that is missing, is from before the YAML, or was cut
\* off by the run that wrote the YAML (main.go 374-403: the users files are written
\* first, unconditionally, and their errors end the run).
NamedUsersAreWritten ==
  \A y \in BaseYamls \cup SecureYamls : dir[y].run > 0 =>
    \A f \in dir[y].files \ {"operator-users"} :
      dir[f].run >= dir[y].run /\ (dir[f].run = dir[y].run => f \notin cut)

\* How far a run has come says which files are its own, and what is in them.
BeforeUsers == {"brokers", "unsupported", "ftl-users"}
BeforeYAML  == BeforeUsers \cup {"kafka-users", "yaml"}
BeforeRealm == BeforeYAML \cup {"dr", "secure", "realm"}

Failed == pc = "ended" /\ exit = 1

BrokersSoFar ==
  /\ IF pc = "brokers" THEN i <= Len(cfgs) ELSE i = Len(cfgs) + 1
  /\ \A b \in 1..(i - 1) : brokerFiles[b] = BrokerProperties(b)

UnsupportedSoFar ==
  pc \notin {"brokers", "unsupported"} /\ UnsupportedKeys # {} =>
    dir["unsupported"] = [run |-> runs, settings |-> AllUnsupported]

UsersSoFar ==
  /\ ftlUsers = IF pc \in BeforeUsers THEN "" ELSE IF Provisions THEN "ftl-users" ELSE flags.authFile
  /\ IF pc \in BeforeUsers \cup {"kafka-users"} \/ ~Collects THEN kafkaUsers = ""
     ELSE kafkaUsers = "kafka-users" /\ dir["kafka-users"] = KafkaClientUsers /\ ~Conflict

YAMLsSoFar ==
  /\ pc \in BeforeYAML => \A y \in BaseYamls \cup SecureYamls : dir[y].run < runs
  /\ pc \notin BeforeYAML => dir[Stem] = YAML
  /\ pc \notin BeforeYAML \cup {"dr"} /\ flags.dr => dir[DRStem] = DRYAML
  /\ IF pc \in BeforeYAML \cup {"dr", "secure"} \/ ~WritesSecure THEN dir[SecureStem].run < runs
     ELSE dir[SecureStem] = SecureYAML

RealmSoFar ==
  /\ pc \notin BeforeRealm => dir["realm"] = RealmJSON
  /\ pc \notin BeforeRealm \cup {"migration"} /\ flags.migration =>
       dir["migration"] = [run |-> runs, servers |-> Len(cfgs)]

\* The users files this run has named are its own and whole, also when it fails
\* later.
UsersWritten ==
  /\ ftlUsers = "ftl-users" => dir["ftl-users"].run = runs /\ "ftl-users" \notin cut
  /\ kafkaUsers = "kafka-users" => dir["kafka-users"].run = runs /\ "kafka-users" \notin cut

\* The types, the users files behind every YAML, and what a run that has not failed
\* has created and was writing to it (main.go 336-443).
ConversionInv ==
  /\ TypeOK /\ NamedUsersAreWritten /\ UsersWritten
  /\ ~Failed => BrokersSoFar /\ UnsupportedSoFar /\ UsersSoFar /\ YAMLsSoFar /\ RealmSoFar

Completed == pc = "ended" /\ exit \in {0, 2}

\* An exit code other than 1 says that the files of the run are together: whatever
\* was in the directory, every broker's file, the YAML and the realm are this run's,
\* the replicas have a YAML when there are any, the users files are whole, and the
\* files of the run that are whole, which the exit code does not say, are for the
\* same servers, agree on the replicas and have every key that no broker file could
\* take on record (main.go 336-457).
CompletedRunFitsTogether ==
  Completed =>
    /\ \A b \in 1..Len(cfgs) :
         brokerFiles[b].run = runs /\ (b \notin cutBrokers => brokerFiles[b].broker.id = cfgs[b].id)
    /\ dir[Stem].run = runs /\ dir["realm"].run = runs
    /\ \A f \in {Stem, SecureStem, "realm"} \ cut :
         dir[f].run = runs => dir[f].servers = Len(cfgs) /\ dir[f].dr = flags.dr
    /\ \A f \in (IF flags.dr THEN {DRStem} ELSE {}) \cup (IF flags.migration THEN {"migration"} ELSE {}) :
         dir[f].run = runs /\ (f \notin cut => dir[f].servers = Len(cfgs))
    /\ \A f \in {ftlUsers, kafkaUsers} \ {"", "operator-users"} : dir[f].run = runs /\ f \notin cut
    /\ UnsupportedKeys # {} =>
         /\ dir["unsupported"].run = runs
         /\ "unsupported" \notin cut => DOMAIN dir["unsupported"].settings = UnsupportedKeys

\* A completed run whose servers authenticate lets every inline user of every
\* broker in with the password that broker has for it (ftl_auth.go 78-86), unless the
\* YAML is cut off.
EveryUserKeepsItsPassword ==
  Completed /\ ftlUsers # "" =>
    \A b \in 1..Len(cfgs) : \A u \in 1..Len(cfgs[b].users) :
      /\ Stem \notin cut => "kafka-users" \in dir[Stem].files
      /\ dir["kafka-users"].run = runs /\ "kafka-users" \notin cut
      /\ dir["kafka-users"].users[cfgs[b].users[u][1]] = cfgs[b].users[u][2]

\* The secure YAML of a completed run is never TLS without authentication, unless it
\* is cut off: it names users files, the same as the plain YAML (main.go 404-412).
SecureYamlAuthenticates ==
  Completed /\ dir[SecureStem].run = runs /\ SecureStem \notin cut =>
    dir[SecureStem].files # {} /\ (Stem \notin cut => dir[SecureStem].files = dir[Stem].files)

-----------------------------------------------------------------------------
(* What the documents say and the code does not do.                        *)

\* "It returns the validation status, the list of unsupported key=value pairs (routed
\* to unsupported.properties by the caller), and any I/O error." (props.go 51-53), and
\* an error ends the run (main.go 343-346): a completed run's broker files are whole.
IOErrorsEndTheRun == Completed => cutBrokers \cap (1..Len(cfgs)) = {}

\* "Settings that could not automatically convert were written to a separate file:
\* unsupported.properties" (props.go 134-135): with the value each broker gave them.
EverySettingIsOnRecord ==
  Completed => \A b \in 1..Len(cfgs) : \A e \in Items(cfgs[b].unsupported) :
    dir["unsupported"].settings[e[1]] = e[2]

\* "if any Apache Kafka listener is secured, the FTL servers (the realm and the
\* pservers) must require authentication too" (main.go 370).
SecuredListenerMeansFTLAuth ==
  Completed /\ (\E b \in 1..Len(cfgs) : cfgs[b].secure) => dir[Stem].files # {}

\* The same sentence of the replicas: their servers are FTL servers with a realm and
\* pservers too (yaml.go 302-340).
ReplicasAuthenticateToo ==
  Completed /\ dir[Stem].files # {} /\ dir[Stem].dr => dir[DRStem].files # {}

\* "-server-user | internal | user in ftlserver.properties for server-to-server
\* connections (non-oauth2 modes)" (getting-started.md 2404), in the secure YAML.
SecureServersLogIn ==
  Completed /\ dir[SecureStem].run = runs /\ ~dir[SecureStem].oauth2 =>
    dir[SecureStem].login = flags.serverUser

\* The same of the plain YAML, whose servers log in to each other too.
ServersLogInAsServerUser ==
  Completed /\ dir[Stem].files # {} => dir[Stem].login = flags.serverUser

\* "Then re-run the same command" (main.go 521): what the tool tells the
\* operator to run leaves every broker's file with that broker.
SuggestionKeepsBrokers ==
  Completed /\ suggested =>
    \A b \in DOMAIN brokerFiles : brokerFiles[b].run > 0 => brokerFiles[b].broker.id = b

\* "This is what makes the tool idempotent" (auth.go 39): the suggested run over
\* a lone broker's file leaves the users in the YAML's providers.
SuggestionKeepsUsers ==
  Completed /\ suggested /\ dir["kafka-users"].run > 0 /\ runs = dir["kafka-users"].run + 1
    => "kafka-users" \in dir[Stem].files
=============================================================================
