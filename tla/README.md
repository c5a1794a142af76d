# A TLA+ development of ftl-fsk-tools

`tibfsk/` holds two command-line tools that move an Apache Kafka cluster to
FTL Streaming for Kafka (FSK, called KOF in the code):

* `importconfig/`, the **configuration importer** (Go): reads the
  `server.properties` of every broker, writes one `kof.broker.N.properties` per
  broker, the YAML and realm JSON of the FTL servers, users files, a migration
  file, and a report of what the operator still has to do;
* `importdata/`, the **snapshot replicator** (Java, one class): copies the
  records that a source cluster held when it started to an FSK target.

This directory holds TLA+ modules of both, the configurations TLC checks them
with, and proofs checked by TLAPS. Source paths below are relative to
`src/tibfsk`; line numbers of the Java class and of the Go files are those that
`PROJECT.json` maps each definition to. Throughout, *application* is
`ApacheKafkaToFskReplicatorApp.java`, *translator* is `importconfig/translator`.

Contents: [inventory](#1-inventory), [module map](#2-modules),
[how code became actions](#3-correspondence-with-the-code),
[runs](#4-what-the-runs-show), [bounds](#5-bounds),
[where documents and code part](#6-where-documents-and-code-part),
[fairness](#7-fairness-and-deadlock), [proofs](#8-proofs),
[what is only model-checked and what is not modelled](#9-limits), [plan](#10-plan).

## 1. Inventory

### 1.1 Snapshot replicator (application, `run`, `replicateSnapshot`)

*State.* `beginOffsets` and `endOffsets` (two separate calls to the source),
`batchStart` per partition, the set `completed`, and per window `active`,
`batchDone`, `emptyPolls`; the consumer's position; `actualReadCounts`; in the
producer, accumulated records and one batch per partition on the wire.
On the target, the log it appends to.

*Operations.* Read begin offsets, read end offsets, create topics, open a
window (assign and seek), poll, loop over the polled records (skip or send),
flush and advance, finish; and on every path `close` through
try-with-resources. The producer's sender thread drains, sends, retries and
completes batches.

*Interactions.* Application thread and sender thread share the producer's
buffers; both clusters are changed by others while the tool runs (live
producers, retention). A kill loses the buffers; a new run starts from new
snapshots and appends to what the target has.

*Hard.* The position moves over gaps (transaction markers, compacted records)
but polls return nothing for them, so a window is drained on two different
paths: by a record, or by an *empty* poll. Retention can overtake a window.
The callback of `send` runs on another thread, after the record was counted.
A lost answer duplicates.

*Correct when* it sends exactly the snapshot, once, in order; a partition is
`completed` only when nothing readable of it is left; a closed window has an
outcome for each record; retries do not reorder; exit code 0 drops nothing without
a trace; the run ends.

### 1.2 Topic setup (application, `discoverSourceTopics`, `createTopicsOnTarget`)

*State.* The filtered names, the described partitions, the topics of the
creation request and the answer for each; the topics of both clusters.
*Operations.* List and describe the source, read offsets, list the target, one
creation request with an answer per topic of which `all()` reports only one.
*Hard.* Both clusters change between any two calls; a retried request finds its own
topic; the one failure that `all()` shows can be `TopicExistsException`, which is taken for success.
*Correct when* the copy finds the topics it writes to and nothing on the target
that was there is touched.

### 1.3 Broker node ids (`translator/broker.go`, `renameBrokerID`, `EnsureNodeIDs`)

*State.* `node.id`/`broker.id` of each file, `NodeIDOrigin`, the `taken` set and
the cursor. *Operations.* One pass that renames, one that claims, one that fills in.
The configurations come from files or, with `--from-brokers`, from running brokers
asked one by one over the Admin API (`fetch.go`, main.go 193-231), which finds the
broker an address stands for in the metadata and takes the first one otherwise.
*Hard.* Ids that are named, missing, negative and repeated meet in one pass; an
address may be that of no broker; each request may fail.
*Correct when* every broker ends with a usable id, and an id the tool chose is no
other broker's (and the lowest that is free).

### 1.4 Listener parsing (`translator/broker.go`, `ParseBrokerConfig`; `migration.go`)

*State.* The three listener properties, the controller and inter-broker names,
`KafkaHost`/`KafkaPort`, `RemovedListeners`, `Listeners`, `IsSecure`, `KOFHost`.
*Hard.* An address is remembered before listeners are stripped; a listener's
protocol may be stated in the map or be its own name; the generated file no
longer says what was internal, and is parsed again.
*Correct when* clients keep their ways in, the rewritten properties agree with
the parsed listeners, security is neither lost nor invented, and a second parse agrees.

### 1.5 Broker properties (`translator/props.go`, `whitelist.go`, `inert.go`, `auth.go`, `summary.go`, `support.go`)

*State.* The settings, the status stamped on the file, what has been emitted,
the lines of the output, the report. *Operations.* Stamp; three emission passes;
report; then the operator edits the file and runs the tool over it.
*Hard.* Status, blocks and report come from three copies of the same conditions;
a whitelist of the tool mirrors one of the server; inertness is a judgement about
the *effective* value, of files, inline keys and listeners the parse has taken out; the tool has to recognize its own output; what it does with a
property and what it lists as supported (`support.go`) are separate tables.
*Correct when* the three agree, nothing the server rejects is active, what was commented out as inert governs no file and no
SASL listener that is left, and following the advice ends in ACCEPTED.

### 1.6 Keystore conversion (`translator/keystore.go`, `auto.go`; `main.go` 326-334, 436-457)

*State.* The conversions of a broker with `Done`, and the disk: Java stores,
PKCS12 intermediates, `.pem` files. *Operations.* Rewriting settings in the parse;
`keytool` and `openssl` run by `--auto` or by the operator; the SEVERE WARNING.
*Hard.* The rewrite happens whether or not the conversion does; commands fail
halfway and leave empty files; two settings may share a file; later runs judge by the disk.
*Correct when* success is reported only if each `.pem` is there, and a `.pem` holds
what the kind of its keystore asks for.

### 1.7 Cluster layout (`main.go` 234-252, 600-663, `translator/yaml.go`, `realm.go`)

*State.* Number of brokers, replication factor, ports, the server lists of the two
YAMLs and the shards of the realm. *Hard.* Three loops in three files have to number the
same servers the same way; generated and user-given names meet in one YAML map, generated and
user-given addresses in one cluster, and neither are compared.
*Correct when* the shards partition the servers the YAML starts, and servers are
apart in directory, and in key and address as far as the lists allow.

### 1.8 Conversion run (`main.go` 200-458, `ftl_auth.go`, `secure_yaml.go`, `yaml.go`, `migration.go`)

*State.* The output directory over several runs, the variables that carry which users files
were written. *Operations.* One per file: the broker files, `unsupported.properties`, the
two users files, the YAML, its DR and secure variants, the realm, the migration file; the report.
*Hard.* A run writes up to nine kinds of file and ends at the first
it cannot create; most writers ignore what goes wrong after that, so that a file may be cut off
and the run complete, while the users files and the realm report it; nothing is ever deleted; the flags are read before and after the
tool fills some in; the report tells the operator to run the tool on *part* of the input.
*Correct when* no YAML names a users file that was not written, an exit code other
than 1 stands for files of this run that fit together where they are whole, no user gets another broker's
password, and a secure YAML authenticates.

### 1.9 Demo servers (`importdata/demo`: `start-kof-brokers.sh`, `stop-kof-brokers.sh`, `wait-for-kof.sh`, `setup-kafka-kraft.sh`, `stop-kafka.sh`)

*State.* A PID file for each of the two clusters; the servers, their ports, the realm in
the data directory, the members of the quorum; the elapsed time of a wait. *Operations.*
Kill what the file names, empty it, launch a server and append its id, three times;
kill and remove the file; poll until ready or out of time.
*Hard.* A script may stop anywhere between two lines; a process id may be somebody
else's by the time it is used; a killed `tibftlserver` leaves children on its port; a
killed Kafka broker answers until it is gone; the quorum request speaks of the realm on disk.
*Correct when* no server but the one launched right before an interruption gets out of reach, *ready* means that the servers
serve, as many as `--members` asks for, a launch on free ports comes up, and a wait gives up in time.

### 1.10 The rest

| Part | Treatment |
| --- | --- |
| Replicator's command line and `Config` | inputs of the modules (constants) |
| `fetch.go`: which settings an answer holds | not modelled: defaults are skipped and sensitive values come empty; which broker and which id is in `Fetch` |
| SASL callback handlers (`auth.go` 212-349, `props.go` 390-445) | not modelled; no key of the whitelist reaches them |
| `help.go`, layout of `unsupported.properties` and of the reports | not modelled: text |
| TLS, mTLS, OAuth lines of `secure_yaml.go`; transports and stores of `realm.go` | not modelled: flags copied to lines |
| `run-migration.sh`, `verify-kof.sh`, `create-topics.sh`, `populate-kafka.sh` | not modelled: one command after the other, no state |
| demo producer, launcher, `regen-examples.sh` | not modelled: samples, a class path, a loop over examples |

How the parts interact: `main` parses each broker (1.4, 1.3, 1.6 in one
`ParseBrokerConfig`), runs `--auto` (1.6), writes broker files (1.5), users files
and YAMLs and realm (1.7, 1.8), and reports. The migration file names the address
1.4 remembered; the operator completes it and the replicator starts from it: first
1.2, then 1.1. The two tools share only that file. The scripts of 1.9 run the
clusters on both ends for the demo, and touch nothing of the tools.

The hazards of all parts, each at its line and with the properties that watch
it, are in `PROJECT.json`.

## 2. Modules

| Module | Of | Kind |
| --- | --- | --- |
| `SnapshotCopy` | what 1.1 promises | abstract specification |
| `Replicator` | 1.1: source, application thread, sender thread, kills | state machine; `ImplementsSnapshotCopy` |
| `TargetTopics` | 1.2 against two clusters that others change | state machine |
| `NodeIds` | 1.3, `EnsureNodeIDs` | state machine, one action per loop turn |
| `Fetch` | 1.3 with both sources of the configurations; EXTENDS `NodeIds` | state machine, composition |
| `Listeners` | 1.4, two parses | state machine |
| `KeystoreRules` | which keystore settings are rewritten (`keystore.go`, `auth.go`) | operators, used by the next two |
| `SupportList` | the table of `support.go` | operators, used by `BrokerProps` |
| `BrokerProps` | 1.5 and the operator, several runs | state machine |
| `Keystores` | 1.6, disk, external commands, several runs | state machine |
| `ClusterLayout` | 1.7 | state machine, one action per loop turn |
| `Conversion` | 1.8, files, write failures, several runs | state machine |
| `DemoServers` | 1.9: scripts, servers and an operator who interrupts them | state machine |
| `MC...` | values for constants that a `.cfg` cannot write | instances |
| `...Proofs` | theorems of `Replicator` and `TargetTopics` (the two stages of one class, in `ReplicatorProofs`), of `NodeIds` and `Fetch` (in `FetchProofs`), and of `ClusterLayout`, `Listeners`, `BrokerProps`, `Keystores`, `Conversion` and `DemoServers` | proofs |

Why they are apart: the two tools never run together; within the importer, each
stage ends before the next begins and hands on a value (the settings, the list of
brokers, the ids). A stage is modelled over every value its predecessor can hand
on, or more. `KeystoreRules` is the one piece of state transformation two stages share.
`Conversion` is where the stages meet: it has one action per file, and stands for the
content of each by what another file or a later run depends on.

## 3. Correspondence with the code

`PROJECT.json` maps each definition to its lines. The decisions worth knowing:

**Replicator.** `pc` is the place of the application thread: `snapshot` (begin
offsets read, end offsets not), `create`, `window` (head of the outer loop),
`poll`, `records` (inside the loop over polled records), `flush`, `closing`. A
record is its source offset. `pos` is the consumer's position after the last
poll, `cur` the place of the iterator over what the poll returned; records are
those of `[cur, pos)` that are no gap. One `HandleRecord` step is one turn of the
loop body; `RecordsDone` is the loop condition after it. Draining by position
happens in `PollEmpty` only, as in the code (lines 321-337). `send` appends to `buffered` and
counts in the same step, as the code does after `send` returns (366-367); the sender's steps
(`Drain`, `Ack`, `LoseRequest`, `LoseAck`, `Reject`) interleave with everything, and
the callback only records the failure, which is what the code's callback does
(it prints). `flush()` and `close()` are guards on `ProducerIdle`. Of `send`,
`Accept` and `Refuse` are its two outcomes: with the fault `send` the client refuses the record at
once, as it does for a record that is too large, and calls back before `send` returns, so
that the record is counted all the same. Configuration
lines 680-694 fix one request in flight and the retry count. `target`, `failed`,
`sent` and `mark` serve the properties; no guard reads them, except that `target` is what
survives a run. The sender is modelled from how the code configures and calls it; it
is not under `src/` and is marked external.

**SnapshotCopy** keeps a range per partition, what is retained, what was handed
over, and a status. A copy step needs every record before it to be copied or
deleted. It knows nothing of windows, polls, threads or kills.

**TargetTopics.** One action per Admin call, the creation request handled topic by
topic by the target, `Reports` for what `all()` makes of the answers. `ChangeSource` and
`ChangeTarget` are the other clients. The source's topics can also go away; on
the target they come and grow (a target that loses topics during its own
migration is an operator's error). The names of its variables and properties are kept
apart from those of `Replicator`, so that one module can extend both.

**NodeIds**, **ClusterLayout**. A `for` loop is an action that takes one turn,
with the index as a variable; a loop that looks for a free id or port has its own action.
Port draws (`rand.Intn` until unused) are chosen from a set per draw. An entry of a server list is a name, or none, and
an address, which is the tool's own host or another with a port; `parseCoreServers` compares entries neither with each other
nor with the draws, and neither does `Parsed`.

**Fetch.** `NodeIds` with the other source in front: one `FetchBrokerConfig` per
address, then `Ensure`, which is `NodeIds!Next`. An address is named for the broker that
advertises it; for one that nobody advertises, the broker asked is any of the running ones,
since the client lists them in no order. `FetchFails` is every error exit of
main.go 201-214.

**Listeners.** A listener's name stands for its port. `Reparse` gives the parser its
own output, without the two keys that named internal listeners (`whitelist.go`
drops them). Names are compared in upper case, as the code folds them.

**BrokerProps.** A key is a pair of listener name (or `""`) and base name. A value
is what the conditions tell apart: a mechanism list is the set of mechanisms, a
location is a stem and an extension. `EmitNext` is one turn of one of the loops of
`writeKOFProps`, the first over its own list of keys, the others over the file; `Line` is `emitProp`, whose early returns are a chain of `IF`s in the order of
the code, since more than one of its conditions may hold.
`Resolve` is an operator following the text of one block; `Rerun` reads active
lines and edits, and nothing that is commented out. `Stripped` are the listeners the parse has taken out: the settings
have their keys, `inert.go` no longer sees them. `SupportList` is the table that
`--list-properties` prints, as a relation between dispositions and properties; the code never
reads it, and neither does any guard here: only properties do.

**Keystores.** `ParseKey` is one turn of the loop of `NormalizeKeystores`, whose result is that of
`KeystoreRules`; then the disk. `openssl`
opens its output before it fails, so failure may leave an empty file. `Done` is set
by `--auto` alone; `Report` computes `pending` from `Done` and the disk.

**Conversion.** A file is a record of the run that wrote it and of what another
file or a later run relies on; `cut` and `cutBrokers` are the files that hold only the beginning of
what their record says. `Create` is `os.Create`: it truncates. What follows differs. `PutWhole` is what
`os.WriteFile` has done when it returns no error (the users files); `Put`, whole or cut off, is a writer that looks at no
error after `os.Create`, or at none of Close, and goes on; `WriteBreaksOff` is one that does look: `os.WriteFile` and the JSON
encoder of the realm, which end the run with code 1 when the old content is gone already. `WriteFails` is
any file that cannot be created; it ends the run with code 1, as every error path
between lines 336 and 427 does. A later run over a broker file that is cut off may find it secure or not, with OAuth or
not (`Found`). The unsupported settings are collected key by key over the
brokers in order (`AllUnsupported`), so that the first broker's value stands. `FollowSuggestion` is the command printed at the end
of a run with INVALID files (main.go 483-522).

**DemoServers.** `step` is the part of the script that runs; the variables of the scripts are
`todo`, `next`, `pending` (`$!` before it is appended), `members`, `elapsed`. The scripts
for FSK and for Kafka are the same loops with the same gaps, so one set of actions serves both
and `system` says which; they differ in what `kill` does, in what *ready* means and in that the Kafka
script waits itself. Servers are external: `Boot`, `FailToBind`, `Join`, `ShutDown` are what
the scripts' comments and importdata/README.md 58-96 say of them. `Interrupt` may happen
before every line. `--members` is any number of `MemberCounts`, or not given. `PollAborts` is an answer without one of
the fields, at which `grep`, `pipefail` and `set -e` end the script at once. `spent`, `lost` and `clean` serve the properties.

## 4. What the runs show

| Run | Configuration | Distinct states | Question and answer |
| --- | --- | --- | --- |
| `copy` | `MCReplicatorCopy` | 91,130 | Two partitions, gaps in one, endless traffic and retention on the other, slow polls, failing clients. `SentOnceInOrder`: the run sends each record of the snapshot at most once, in offset order, and nothing else; `CompletedMeansCopied`: a completed partition has nothing readable left; `ImplementsSnapshotCopy`: windows, polls and threads do not show. |
| `faults` | `MCReplicatorFaults` | 576,055 | One partition with a gap and retention; requests and answers lost, batches and records refused, slow polls, kills, a second run. `IInv` is the inductive invariant, of the copy and of the delivery; `ClosedWindowsSettled`: when a window has closed, each of its records is written or has failed; `FirstCopiesInOrder`: the first copies on the target are in order whatever is retried; `ExitZeroAccountsForAll`: with exit code 0 each sent record was written or had its callback; `RunEnds`: every run ends. |
| `succeeds` | `MCReplicatorSucceeds` | 132,819 | Two partitions and a source that answers. `DuplicatesNeedLostAcks`: while no answer is lost, no record is written twice by a run; `ResponsiveRunSucceeds`: the run ends in success over gaps, retention, new records, lost requests and refusals. |
| `topics` | `TargetTopics` | 154,476 | Three topics, other clients, refusals, lost answers, failing calls, a second run. What each call establishes (`SetupIInv`), what the copy may count on (`CopyFindsTopics`), and what the tool does to the target (`AddsOnlyMissingTopics`). |
| `broker_ids` | `Fetch` | 1,204,583 | Three files, or three addresses of a running cluster. The account of the ids (`IInv`, inductive); an id that is filled in is no other broker's (`AssignedIdsDistinct`); brokers reached under addresses they advertise keep their ids and stay apart (`AddressedKeepIdentity`); fetching and the loop with the shared cursor end (`FetchTerminates`). |
| `layout` | `MCClusterLayout` | 143,460 | One to nine brokers, all factors, five core lists and four DR lists, some with an address given twice or one that is drawn, colliding draws. Numbers, ports and entries fit the place of the loops (`IInv`, inductive); realm and YAML agree (`ShardsPartitionPservers`); servers are apart in directory, in key as long as the names of the list are, and in address if its addresses are too, the DR servers likewise (`ServersApart`). |
| `listeners` | `MCListeners` | 552,546 | Up to three listeners. What is kept, removed and parsed fits the place of the loops of either parse (`ListenersInv`, inductive), clients keep their ways in (`ClientListenersServed`), properties, listeners and security agree after stripping (`StrippedConsistently`), a second parse agrees (`ReparseStable`). |
| `props` | `MCBrokerProps` | 291,357 | Two listeners and a stripped one, authorizers, mechanisms, keystores, settings of the support list; an operator and a second run. The stamp, the blocks and the report agree at every point of the writing (`BrokerPropsInv`, inductive); what was commented out as inert is the type of no file a listener loads and the mechanisms of no SASL listener that is left (`InertLoadsNoFile`); what the server or the tool's own list refuses goes to `unsupported.properties` (`RefusedGoToUnsupported`); a run over its own output keeps what was active (`RerunKeepsActiveLines`), and following every block leads to ACCEPTED (`ResolvedIsAccepted`). |
| `keystores` | `MCKeystores` | 16,257 | Three keystores or a shared one, three runs, `--auto`, commands by hand, commands failing halfway. Success means each `.pem` is there and not empty (`SuccessHasEveryPem`), with what its kind asks for (`KeystoresInv`). |
| `conversion` | `MCConversion` | 1,340,927 | One or two brokers, five sets of flags, two runs, any file not created, cut off or broken off. Users files the YAMLs name were written whole, and how far the run is says what it has written (`ConversionInv`, inductive), a run that did not exit with 1 left files of one run of which those that are whole fit together, the users files always, the DR YAML and the migration file included, and every key without a place on record (`CompletedRunFitsTogether`), no user gets another's password (`EveryUserKeepsItsPassword`), the secure YAML authenticates (`SecureYamlAuthenticates`). |
| `servers` | `DemoServers` | 291,248 | Three servers of either system, two commands, interrupted anywhere, `--members` of 2, 3, 4 or none, data directories of smaller and larger realms, a process id used again. No server gets out of reach, but for the one launched right before an interruption (`EveryServerRecorded`, inductive as `IInv`); *ready* after a launch on free ports means that all have joined, or as many as `--members` says (`ReadyMeansServed`); such a launch comes up (`CleanStartComesUp`), and a wait that gives up has waited its time and not much more (`GivesUpInTime`). |
| `exit_code` | `MCReplicatorExitCode` | *violated* | `ExitZeroMeansWritten`: a record the target never got leaves the exit code at 0. |

The run marked *violated* shows that a sentence of a document is not what
the code does; the sentence is quoted at the property and in `findings`. Section 6 has the others.

Every property of a passing run has a mutant in `PROJECT.json`: a changed
definition (a dropped guard, an off-by-one, a missing reset) under which TLC finds
the property violated with the same configuration. The operators named
`...Mutant` in the modules are these, and nothing else uses them.

## 5. Bounds

Every bound is a constant with "bound" in its comment, or a set in an `MC` module.

* *Replicator.* `MaxOffset` 3 or 4 with `BatchSize` 2 gives a first window that
  is full, a second that is short, and offsets after the snapshot; a gap at the
  end of the first window is the case that drains by position. Two partitions are
  what it takes for one to be drained while the other is not (`batchDone = active`);
  all loops are over single partitions otherwise. `MaxRuns` 2 where the target's
  old content matters. `Live` and `Busy` partitions have a log that moves during
  the run; a busy one stands for endless production by always having a last record.
  Faults are switched on by name, a few per run, since they act on different
  threads: the proofs are for every set of faults.
* *TargetTopics.* Three topics (one that is refused, one that exists, one that the filter
  drops), two partitions, one foreign change, two runs.
* *NodeIds.* Three files with ids from -1 to 3 or none, each under both keys: as many ids as
  brokers, so that the cursor has to skip and may be past all of them.
* *Fetch.* The same three files, or three addresses in any combination of clusters of one to
  three brokers with ids 0 to 2; of the four addresses, at least one is advertised by none,
  and any two of the three may be the same.
* *ClusterLayout.* Up to nine brokers, so that the factor 3 gives three shards and three core servers
  are fewer than the servers; lists shorter and longer than the
  number of brokers, with and without names, among them one that gives an address twice and one with an address that may be drawn for the
  second server. Each port is drawn from its own offset and, for the first four ports and
  every second one after, from offset 0, so that a draw may meet any earlier one.
* *Listeners.* Three listeners in every order, two of them named as protocols, every
  choice of controllers and inter-broker name; two parses.
* *BrokerProps.* Two families of files, each with the keys whose conditions
  touch: authorizer and mechanisms next to keys of every table; keystore types and
  locations; and a type whose key is inline. Two client listeners, one that the parse has taken out, two runs.
* *Keystores.* Three type keys over two stems, in files of their own or one, three runs.
* *Conversion.* Five kinds of broker, alone, and in pairs of which the first has inline users or nothing and the second users or
  an unsupported setting; five sets of flags, two runs: what an
  earlier run leaves behind is seen by the second, and no step looks further back. `MaxCut` 1: one file of the directory is cut
  off at a time, of either run; no writer looks at two files.
* *DemoServers.* Three servers as in the scripts, and five process ids handed out lowest
  first, so that the two scripts of a behaviour use them again; one other program; data directories of a
  realm that is smaller or larger; a timeout of two intervals, and polls of up to one; `--members` of fewer, as
  many and more than the servers.

## 6. Where documents and code part

One of these has a run of its own (`exit_code`, section 4). The others are properties of the same
modules, under the heading "What the documents (comments) say and the code does not do", each with the
sentence it quotes. To see a counterexample, put the property in the place of those of the
configuration (under `PROPERTIES` when the table says so) and run TLC.

| Property | Configuration | What TLC shows |
| --- | --- | --- |
| `Replicator!EmptyPollsDrain` | `MCReplicatorFaults` | The empty-poll limit ends the run, not the window, even in the poll that drained it (application 330). |
| `Replicator!DrainedWindowIsFlushed` (`PROPERTIES`) | `MCReplicatorCopy` with `FairSpec`, `Faults = {}`, `MaxEmptyPolls = 3` | A window whose partitions are all drained is never flushed while another partition has endless traffic: positions are looked at in empty polls only (321). |
| `Replicator!PlannedEqualsPublished` | `MCReplicatorFaults` | Planned is a difference of offsets, published a count: a complete copy of a log with a gap prints two numbers (201). |
| `TargetTopics!PartitionsMatch` | `TargetTopics` | A topic that is on the target keeps the partitions it has there (232). |
| `TargetTopics!RefusalEndsRun` | `TargetTopics` | One existing topic in the request hides the refusal of another (254). |
| `NodeIds!IdsDistinct` | `Fetch` | Two files that name one id both keep it (`broker.go` 296). |
| `Fetch!DifferentAddressesDifferentBrokers` | `Fetch` | Two addresses that no broker advertises are both taken for the first broker of the answer (`fetch.go` 56). |
| `Fetch!MetadataBeatsInvention` | `Fetch` | A fetched `broker.id` of -1 counts as an id, so the metadata is not asked and the tool invents one (`fetch.go` 105). |
| `ClusterLayout!DRKeysUnique` | `MCClusterLayout` | A DR list may name its first server as the second is going to be named (`yaml.go` 317). |
| `ClusterLayout!DrawnPortsAreFree` | `MCClusterLayout` | The port drawn for a server past the list may be that of a listed one (`main.go` 645, 620). |
| `ClusterLayout!CoreServersAreFirstShard` | `MCClusterLayout` | Three core servers, shards of one, three or five (`yaml.go` 357). |
| `Listeners!SecuredByNameIsSecure` | `MCListeners` | A listener named after a protocol that the map leaves out is secure in Kafka and not here (`broker.go` 209). |
| `Listeners!TargetPortServed` | `MCListeners` | The target port of the migration file may be that of a stripped listener (`migration.go` 47). |
| `BrokerProps!AcceptedOnlyOnceResolved` | `MCBrokerProps` | A run over the generated file sees no block, and stamps ACCEPTED (`props.go` 297). |
| `BrokerProps!AcceptedListenersReadPem` | `MCBrokerProps` | A broker-wide type becomes PEM, the file of a listener that inherits it does not (`keystore.go` 72). |
| `BrokerProps!InertHadNoEffect` | `MCBrokerProps` | A keystore type whose key is given inline, and the mechanisms of an inter-broker listener that was stripped, are commented out as without effect (`inert.go` 32, `props.go` 253). |
| `BrokerProps!AcceptedIsHonored` | `MCBrokerProps` | Properties that the tool's list calls accepted are dropped by its whitelist (`support.go` 27). |
| `Keystores!SuccessMeansRunnable` (`PROPERTIES`) | `MCKeystores` | A run over the generated file has no conversions left to warn of (`keystore.go` 66). |
| `Keystores!KeystorePemHasKey` (`PROPERTIES`) | `MCKeystores` | A store used as keystore and truststore becomes one `.pem`, without the key (`keystore.go` 78). |
| `Keystores!AutoFailuresWarnedAgain` | `MCKeystores` | A `.pem` that is there hides a conversion that failed (`keystore.go` 129). |
| `Conversion!SecuredListenerMeansFTLAuth` | `MCConversion` | Only the first broker decides whether the servers authenticate (`main.go` 375). |
| `Conversion!ReplicasAuthenticateToo` | `MCConversion` | The DR YAML of a cluster that authenticates has neither providers nor a login (`yaml.go` 294). |
| `Conversion!SecureServersLogIn` | `MCConversion` | A secure YAML without TLS flags names providers and presents no login (`secure_yaml.go` 214). |
| `Conversion!ServersLogInAsServerUser` | `MCConversion` | The plain YAML presents the tool's own login whatever `-server-user` says (`yaml.go` 264). |
| `Conversion!SuggestionKeepsUsers` | `MCConversion` | The suggested run has no inline users any more (`main.go` 521). |
| `Conversion!SuggestionKeepsBrokers` | `MCConversion` | The suggested run converts one file, and writes it as broker 1, whichever it was (`main.go` 521). |
| `Conversion!IOErrorsEndTheRun` | `MCConversion` | Errors after `os.Create` are not looked at: a run whose broker file is cut off exits 0 or 2 (`props.go` 57). |
| `Conversion!EverySettingIsOnRecord` | `MCConversion` | Of a setting that brokers disagree on, the first value is written (`main.go` 351). |
| `DemoServers!StopFreesPorts` (`PROPERTIES`) | `DemoServers` | The servers are stopped by `kill`, which leaves their children on the ports (`stop-kof-brokers.sh` 20; importdata/README.md 78). |
| `DemoServers!KillsOnlyServers` (`PROPERTIES`) | `DemoServers` | A process id of the file may be another program's by the time it is killed (`start-kof-brokers.sh` 63). |
| `DemoServers!UpMeansStarted` (`PROPERTIES`) | `DemoServers` | A broker of the earlier cluster that is still going down answers for the new one (`setup-kafka-kraft.sh` 102). |
| `DemoServers!ReadyMeansAllJoined` (`PROPERTIES`) | `DemoServers` | With `--members 2` the wait is over when two of the three have joined (`wait-for-kof.sh` 83). |
| `DemoServers!ReadyMeansConfigured` (`PROPERTIES`) | `DemoServers` | Without `--members` the wait takes the number of members from the realm that is in the data directory (`wait-for-kof.sh` 83). |
| `DemoServers!WaitWithinTimeout` | `DemoServers` | The time the polls take is not counted (`wait-for-kof.sh` 107). |

## 7. Fairness and deadlock

`Replicator!Fairness` is weak fairness of the application thread's next step
(`Run`) and of each partition's sender step. Both are threads of one live
process that block only in calls with a time limit (`poll(ofMillis)`,
`delivery.timeout.ms`); nothing is assumed of the source, of retention, of client
failures or of kills. Weak fairness of `Sender(p)` says that a batch on the wire has some
outcome, not that it has a good one: `RunEnds` holds with requests lost for ever, since
`Retries` runs out. It is checked where no producer is endless; section 6 says what an
endless one does. `ResponsiveRunSucceeds` states its own premises in the
formula: a source that answers, no failing client, at least two empty polls.

`Fetch!FairFetchSpec` (and `NodeIds!FairSpec`) is weak fairness of a sequential program's only step; the
requests over the Admin API have time limits, and their failure is a step too.

`DemoServers!FairSpec` says that a script goes on until it ends or is interrupted, that a launched
server gets its port or finds it taken, that a broker told to stop does so, and that the
pserver of a server that is up joins when the realm is the one of the configuration. Nothing is assumed
of the operator. Weak fairness is enough since only a script that is running, or the death of the server, can disable
one of these steps.

`CHECK_DEADLOCK FALSE` stands in all configurations because both tools end: after the last run a
behaviour has no further step, which is what "done" means.

## 8. Proofs

| Module | Theorem | Says |
| --- | --- | --- |
| `ReplicatorProofs` | `InductiveInvariant` | `Spec => []IInv`: types, positions inside the logs, the frontier, the way through the producer |
| | `SendsOnceInOrder` | `Spec => []SentOnceInOrder` |
| | `CompletedIsCopied` | `Spec => []CompletedMeansCopied` |
| | `PublishesWithinPlan` | `Spec => []PublishedWithinPlanned`: never more published than planned |
| | `ClosedWindowsAreSettled` | `Spec => []ClosedWindowsSettled` |
| | `FirstCopiesAreInOrder` | `Spec => []FirstCopiesInOrder` |
| | `DuplicatesComeFromLostAcks` | `Spec => []DuplicatesNeedLostAcks` |
| | `ExitZeroIsAccountedFor` | `Spec => []ExitZeroAccountsForAll` |
| | `Implements` | `Spec => ImplementsSnapshotCopy`: the refinement |
| | `SetupInvariant` | `SetupSpec => []SetupIInv` (of `TargetTopics`): what each call established |
| | `CopyIsPrepared`, `MaskedRefusalsOnly` | `SetupSpec => []CopyFindsTopics`, `SetupSpec => []OnlyMaskedRefusals` |
| | `AddsOnlyMissing` | `SetupSpec => AddsOnlyMissingTopics`, an action property |
| `FetchProofs` | `InductiveInvariant` | `Spec => []IInv` (of `NodeIds`): the account of the ids |
| | `DistinctAssignedIds`, `LowestAssignedIds`, `UsableIds` | ids the tool gives are nobody else's, the lowest that are free, and every broker has one |
| | `FetchedIdsAccounted`, `FetchedAssignedDistinct` | `FetchSpec => []IInv`, `FetchSpec => []AssignedIdsDistinct`: the account holds for either source |
| | `AddressedKept` | `FetchSpec => []AddressedKeepIdentity` |
| `ClusterLayoutProofs` | `InductiveInvariant` | `Spec => []IInv`: entries, numbers and ports |
| | `ShardsPartition` | `Spec => []ShardsPartitionPservers` |
| | `ReplicasMirror` | `Spec => []ReplicasMirrorPrimaries`: the same for the DR replicas |
| | `ServersStayApart` | `Spec => []ServersApart`: in directory; in key if the names of the list are apart; in address if its addresses are too |
| `ListenersProofs` | `ListenersInvariant` | `Spec => []ListenersInv`: both parses, loop by loop |
| | `ClientsServed`, `StrippingIsConsistent`, `ReparseIsStable` | `Spec => []ClientListenersServed`, `[]StrippedConsistently`, `[]ReparseStable` |
| `BrokerPropsProofs` | `BrokerPropsInvariant` | `Spec => []BrokerPropsInv`: stamp, blocks and report agree, line by line |
| | `RefusedAreKeptOut` | `Spec => []RefusedGoToUnsupported`: three tables, one verdict |
| | `InertTypesLoadNoFile` | `Spec => []InertLoadsNoFile` |
| | `RerunsKeepActive` | `Spec => []RerunKeepsActiveLines` |
| | `ResolvedAreAccepted` | `Spec => []ResolvedIsAccepted` |
| `KeystoresProofs` | `KeystoresInvariant` | `Spec => []KeystoresInv`: conversions, disk and what a `.pem` holds |
| | `SuccessHasPems` | `Spec => SuccessHasEveryPem`, an action property |
| `ConversionProofs` | `ConversionInvariant` | `Spec => []ConversionInv`: which files are the run's own, and what is in them |
| | `CompletedRunsFitTogether`, `UsersKeepPasswords`, `SecureYamlsAuthenticate` | `Spec => []CompletedRunFitsTogether`, `[]EveryUserKeepsItsPassword`, `[]SecureYamlAuthenticates` |
| `DemoServersProofs` | `InductiveInvariant` | `Spec => []IInv`: what a script has left to do, what a clean launch leaves true, what a wait has taken |
| | `ServersRecorded` | `Spec => []EveryServerRecorded`, which excuses the server launched right before an interruption |
| | `ReadyServed` | `Spec => ReadyMeansServed`, an action property: all have joined without `--members`, as many as it says with it |
| | `WaitsAreBounded` | `Spec => []GivesUpInTime` |

Every inductive invariant is the conjunction of `TypeOK` and named parts, and an invariant of a run too, where
the parts were found: `IInv` of `Replicator` (`CopyInv`, `DeliveryInv`), of `NodeIds` (`NodeIdsInv`),
of `ClusterLayout` (`PortsInv`, `PortsDiffer`, `EntriesInv`, `LayoutInv`) and of `DemoServers` (`ScriptInv`, `CleanInv`,
`TimeInv`); `SetupIInv` (`SetupInv`); `ListenersInv`, `BrokerPropsInv`, `KeystoresInv` and `ConversionInv`, whose parts are
named after what they speak of.

The constants' assumptions are the `ConstantsAssumption` of each module (`SetupAssumption` of `TargetTopics`); TLC
evaluates them on every run. No other assumption is used.

*Replicator, the copy.* `SentOnceInOrder` is not inductive: it says nothing of where the run
is. `CopyInv` gives each partition a **frontier**, the offset the run has worked
through: the position, or the iterator while polled records are being handled, cut at
the end of the window. What was sent lies below the frontier in increasing
order; what lies below it and was not sent is deleted at the source; the count is
at most the frontier's distance from the begin offset; a drained partition's
frontier is the end of its window and a completed one's the end of the snapshot.
Each action moves the frontier up past what it handled. `PublishedWithinPlanned`
and `CompletedMeansCopied` are then read off at the end of the snapshot. The
proof has one lemma per action and conjunct that the action can disturb; `TypeCorrect` comes
first, since arithmetic on the positions needs them to be offsets. The sender's and
the source's steps only matter to `CopyInv` through `logStart`, which grows.

*Replicator, the delivery.* `DeliveryInv` follows the records through the producer. What is accumulated and
what is on the wire is in ascending order; the accumulated records come after those on the wire, and those after all that have arrived, except for a batch whose
answer was lost, all of which has arrived (`QueuesInOrder`). Every record that was sent is on the
target, has failed, or is still on its way; only a kill takes one off it, and what is still on
its way belongs to the open window (`SentAccounted`). `ClosedWindowsSettled` follows since the producer is
idle at the head of the loop, which is what `flush()` waits for; `FirstCopiesInOrder` since a batch
that arrives comes after all that was written, or is a second copy of it; `ExitZeroAccountsForAll` since a finished run has closed its last window.
One request in flight (application 680-694) is what `QueuesInOrder` rests on.

*The refinement.* The mapping takes `SnapshotCopy`'s range to begin and end offsets, its copied records to `sent` and
its status to `pc`. Each step hands over one record, takes a snapshot, decides the run, moves what is
retained, or stutters; `CopyInv` gives the abstract copy step its guard, that every record before
is copied or deleted. Nothing of `DeliveryInv` is needed: what the producer does later is below the abstraction.

*TargetTopics.* `SetupInv` says what each call established: topics not in the
request are on the target; topics answered `created` have the partitions that were
described; and a finished request has either only such answers or one that says
`exists`. Other clients cannot undo any of it. `MaskedRefusalsOnly` and
`CopyIsPrepared` follow at `stage = "copy"`.

*NodeIds.* `NodeIdsInv` relates `taken` to the ids asked for and given, and says
that all ids below the cursor are taken; distinctness and minimality follow for
any number of brokers and any ids. The lemmas are about `NodeIds!Next` alone,
so the theorems of `Fetch` use them for its `Ensure` step.

*Fetch.* The invariant `Fetching` of `FetchProofs` says that nothing is claimed while the
loop over the addresses runs, and that each address a running broker advertises has asked for the
`FetchedId` of that broker. With `NodeIdsInv` at the end, an
addressed broker keeps its id, and two of them differ since ids in the cluster do.

*ClusterLayout.* `LayoutInv` gives every shard its interval of numbers and every
server its number. That the intervals partition `1..n` uses `n = factor * (n \div factor)`,
which the divisibility check at main.go 242 provides; this is where the proof
would fail without it. `ReplicasMirror` uses `ShardsPartition` and the numbers of the DR servers. For `ServersStayApart`,
`PortsDiffer` says that no port is drawn twice and `EntriesInv` that entry `k` has the name, the address and the
directory of server `k`: the servers past the list have an address of the tool's with
a port of its own. That the names of the list are apart from each other and from the generated ones (`NamesApart`), and for addresses that
those of the list are apart from each other and from the drawn ones (`AddressesApart`), are premises of `ServersApart`, since the code checks neither; section 6 (`DRKeysUnique`,
`DrawnPortsAreFree`) says what happens otherwise.

*Listeners.* The hard part is that there are two parses and the second starts from what the first wrote. `SourceInv`
says, in terms of the configuration that was given, which names are internal and what is left of the three properties
once they are stripped; `ReparseInv` that the second parse keeps what it is given, and `EntriesInv` that the
entries are those of the stripped properties, and so was the result of the first parse. `ReparseStable` is the last two together.

*BrokerProps.* `WritingInv` says that the lines written so far are `Line` of their settings, one for each, and at the end one
for every setting. A setting has a block exactly when its `Line` is one, exactly when `configStatus` counts it, and exactly when `summary.go` lists it;
these are lemmas about the conditions, over any file, and give `StatusReportAndBlocksAgree`. A line that is active is
`Settled`: the tool passes it on as it is. What the blocks ask for (`Advised`) is settled too, and a settled
file has no blocks, which gives `RerunKeepsActiveLines` and `ResolvedIsAccepted`, and also shows why
`AcceptedOnlyOnceResolved` of section 6 fails: a file with all blocks left commented out is settled as well.
`InertLoadsNoFile` is a lemma of the same kind: it compares the conditions of `inert.go` with the file and the mechanisms a
server would read, in any state. It is what those conditions are good for; that the generated comment claims more is `InertHadNoEffect` of section 6. `RefusedGoToUnsupported` rests on a fact about the tables: what the server rejects is outside the tool's whitelist, and all of
the whitelist is listed as something other than refused.

*Keystores.* `SourceInv` says that the file of a later run is the generated one, of which the parse
records no conversion. `DoneInv` is what makes `SuccessHasEveryPem` inductive: a conversion that is marked
`Done` has its `.pem`, unless a later one with the same `.pem` failed and is not marked, which keeps
the report from success. `PemsInv` carries `PemFitsKind` through commands that fail halfway.

*Conversion.* How far the run has come says which files are its own and what is in
them (one conjunct per file, for a run that has not failed), and `NamedUsersAreWritten` holds of
the YAMLs of every run, however it ended: a users file is never older than a YAML that names it, nor cut off by the run that wrote it.
The records say what a run was writing, so that the invariant goes through whatever is cut off; the results speak of whole files.
The results are read off at the end of a run.

*DemoServers.* `EveryServerRecorded` is inductive with what a script has still to do: while it
kills, every recorded process it is past is dying or gone (`ScriptInv`), which is what makes emptying
the file safe. `CleanInv` says that no port of a clean launch is held by orphans
and that a joined member holds its port; `ReadyMeansServed` then is a matter of counting, since as many
members as the realm has are all of them, and any other number is that of those that have joined. `TimeInv` pays for each poll with the interval that was counted
with it, one poll ahead; a timeout of zero is the case of one poll and one sleep.

## 9. Limits

*Only model-checked.* Liveness (`RunEnds`, `ResponsiveRunSucceeds`, `FetchTerminates`,
`CleanStartComesUp`), which is out of the prover's reach. Every invariant, action property and
refinement that a passing run checks is a theorem for every value of the constants, under the assumptions the modules state.

*Abstracted.* Keys, values, headers and timestamps of records (copied through);
text of blocks, reports and JSON; parsing of `.properties` syntax; addresses
beyond the own host or another and a port. The client libraries are modelled from how the code
configures and calls them and are marked external in the map: a batch is
atomic on the target and answers are per batch.

*Not modelled.* A `.pem` that a failing command leaves partly written; a user who is in both `ftl-users.txt` and
`kafka-users.txt`, which the tool does not compare; and the parts listed as `not_modelled` in section 1.10 and in `PROJECT.json`, with the reason.

## 10. Plan

Order of the modules, most important behaviour first; all of these are done.

1. `SnapshotCopy`, `Replicator` — the copy. Theorems: type, frontier invariant, the three results.
2. `TargetTopics` — what the copy starts from.
3. `NodeIds`, `ClusterLayout` — numbering and sharding, provable for every size.
4. `Listeners`, `KeystoreRules`, `BrokerProps`, `Keystores` — one broker.
5. `Conversion` — the run over the directory.
6. `Fetch` — the second source of the configurations, over `NodeIds`.
7. `SupportList` — the tool's own list, held against what `BrokerProps` does.
8. `DemoServers` — the scripts around the tools.

Theorems, in the order of what they say about the system; all of these are done.

1. The copy: the frontier, then the delivery under faults, then the refinement of `SnapshotCopy`.
2. Topic setup: what each call established.
3. Ids, from files and from a running cluster; sharding, ports and entries.
4. One broker: listeners over two parses, lines and blocks over any file, keystores over any disk.
5. The run over the directory; the scripts.

Next, extending the model:

* `TargetTopics` composed with `Replicator`, which one module can now extend together: a partition that is missing
  on the target when the copy reaches it, and what its sends do to the window that is open;
* `Listeners` handing its result to `Conversion` (`IsSecure`, `oauth`), so that which
  users file is named depends on the parsed listeners of each broker; `ListenersInvariant` is what
  `Conversion` would assume of a broker.

Next, proofs:

* the composition of the two stages: `CopyIsPrepared` as the initial condition of the copy;
* `Normalized` of a normalized file is that file (`RewritingSettles` of `KeystoresProofs`), used on both sides, in one place.
