------------------------------ MODULE BrokerProps ------------------------------
(***************************************************************************)
(* One kof.broker.N.properties (translator/props.go, whitelist.go,         *)
(* inert.go, auth.go and summary.go): the tool parses a file, stamps a     *)
(* status, writes every setting active, commented or in a block the        *)
(* operator has to resolve, or hands it to unsupported.properties, and     *)
(* reports what is left to do.  The operator edits the generated file and  *)
(* runs the tool over it again; of that file it reads the active lines.    *)
(*                                                                         *)
(* The status, the report and the blocks are computed in three places from *)
(* three copies of the same conditions.                                    *)
(***************************************************************************)
EXTENDS Naturals, Sequences, FiniteSets, KeystoreRules, SupportList

CONSTANTS
  Order,          \* the keys the files may hold, in file order
  Files,          \* the source files: functions from keys to values
  Stems,          \* stems of the locations, "placeholder" with them
  Listeners,      \* client listeners of the broker
  Stripped,       \* listeners of the source that the parse has taken out
  Protocols,      \* what they may speak
  OtherSecurity,  \* bases under ssl., sasl., plain. or oauthbearer. in no table below
  MaxRuns         \* bound: runs of the tool

Keys == {Order[j] : j \in 1..Len(Order)}

Locations == [stem : Stems, ext : {"jks", "p12", "pem"}]

Located(f) == \A k \in DOMAIN f : isKeystoreLocationKey(k) => f[k] \in Locations \cup {Blank}

ASSUME ConstantsAssumption ==
  /\ Order \in Seq((Listeners \cup Stripped \cup {""}) \X STRING)
  /\ \A j, l \in 1..Len(Order) : j # l => Order[j] # Order[l]
  /\ \A k \in Keys : isKeystoreTypeKey(k) => keystoreLocationKey(k) \in Keys
  /\ \A f \in Files : DOMAIN f \subseteq Keys /\ Located(f)
  /\ "placeholder" \in Stems /\ Blank \notin Locations \cup {"KofAuthorizer"}
  /\ "" \notin Listeners \cup Stripped /\ Listeners \cap Stripped = {}
  /\ MaxRuns \in Nat \ {0}

VARIABLES
  protocol,     \* what each listener of the source speaks; the parse hands on Listeners
  source,       \* the file the tool is given
  settings,     \* cfg.Settings
  conversions,  \* cfg.KeystoreConversions
  pc,
  status,
  emitted,
  written,      \* the lines of the two output files
  items,        \* the report
  edits,        \* what the operator sets in the generated file
  runs,
  before        \* history: the previous run

vars == <<protocol, source, settings, conversions, pc, status, emitted, written, items,
          edits, runs, before>>

-----------------------------------------------------------------------------
(* whitelist.go.                                                           *)

section1Keys ==
  {"listener.security.protocol.map", "ssl.keystore.location", "ssl.keystore.type",
   "ssl.key.password", "ssl.truststore.location", "ssl.truststore.type", "ssl.client.auth",
   "ssl.enabled.protocols", "ssl.cipher.suites", "ssl.principal.mapping.rules",
   "sasl.enabled.mechanisms", "plain.connections.max.reauth.ms",
   "oauthbearer.connections.max.reauth.ms", "authorizer.class.name", "super.users",
   "allow.everyone.if.no.acl.found"}

section2Keys ==
  {"node.id", "listeners", "advertised.listeners", "producer.id.expiration.ms",
   "group.initial.rebalance.delay.ms", "num.partitions", "log.cleanup.policy",
   "compression.type", "log.cleaner.delete.retention.ms", "log.index.interval.bytes",
   "message.max.bytes", "log.message.timestamp.type", "log.retention.bytes",
   "log.retention.ms", "log.retention.minutes", "log.retention.hours",
   "socket.request.max.bytes", "auto.create.topics.enable"}

section3Keys ==
  {"process.roles", "controller.quorum.voters", "controller.listener.names",
   "inter.broker.listener.name", "control.plane.listener.name", "early.start.listeners"}

perListenerReauth == {"plain.connections.max.reauth.ms", "oauthbearer.connections.max.reauth.ms"}

isSecurityDomainKey(base) == base \in section1Keys \cup OtherSecurity

isSupportedMutant(k) ==
  /\ ~(k[1] = "" /\ k[2] \in section3Keys)
  /\ IF isSecurityDomainKey(k[2]) THEN k[2] \in section1Keys ELSE k[2] \in section2Keys

isSupportedBrokerProperty(k) ==
  /\ ~(k[1] = "" /\ k[2] \in section3Keys)
  /\ IF isSecurityDomainKey(k[2])
     THEN k[2] \in section1Keys /\ (k[2] \in perListenerReauth => k[1] # "")
     ELSE k[2] \in section2Keys

runtimeSecurityWhitelist ==
  {"listener.security.protocol.map", "ssl.keystore.location", "ssl.keystore.type",
   "ssl.key.password", "ssl.truststore.location", "ssl.truststore.type", "ssl.client.auth",
   "ssl.enabled.protocols", "ssl.cipher.suites", "ssl.principal.mapping.rules",
   "sasl.enabled.mechanisms", "connections.max.reauth.ms", "plain.connections.max.reauth.ms",
   "oauthbearer.connections.max.reauth.ms", "authorizer.class.name", "super.users",
   "allow.everyone.if.no.acl.found"}

runtimeIsSecurityDomainKey(base) ==
  isSecurityDomainKey(base) \/ base \in {"connections.max.reauth.ms", "oauth2.scope"}

runtimeRejects(k) ==
  \/ k[2] \in section3Keys
  \/ k[2] \in perListenerReauth /\ k[1] = ""
  \/ runtimeIsSecurityDomainKey(k[2]) /\ k[2] \notin runtimeSecurityWhitelist

-----------------------------------------------------------------------------
(* What a setting is worth: auth.go and inert.go.                          *)

isAuthorizerKey(k) == k = <<"", "authorizer.class.name">>

isMechanismsKey(k) == k[2] = "sasl.enabled.mechanisms"

recognizedAuthorizerMutant(v) == v = "standard"

recognizedAuthorizer(v) == v \in {"standard", "KofAuthorizer"}

\* A value is the set of the mechanisms it lists.
mechanismsUnservable(v) == v # {} /\ v \cap {"PLAIN", "OAUTHBEARER"} = {}

saslInUseMutant(k) == \E l \in Listeners : protocol[l] = "SASL_SSL"

\* TRUE when the tool cannot tell: no listener, none of that name, or a protocol
\* it does not know.
saslInUse(k) ==
  LET governed == IF k[1] = "" THEN Listeners ELSE Listeners \cap {k[1]}
  IN governed = {} \/ \E l \in governed : protocol[l] \notin {"PLAINTEXT", "SSL"}

Inert(k) ==
  \/ isAuthorizerKey(k) /\ settings[k] = Blank
  \/ isKeystoreTypeKey(k) /\ keystoreLocation(settings, k) = Blank
  \/ isMechanismsKey(k) /\ ~saslInUse(k)

-----------------------------------------------------------------------------
(* The tool: parse, stamp, write, report.                                  *)

Parse ==
  /\ pc = "parse" /\ pc' = "stamp"
  /\ settings' = Normalized(source)
  /\ conversions' = Conversions(source)
  /\ UNCHANGED <<protocol, source, status, emitted, written, items, edits, runs, before>>

Considered(k) == isSupportedBrokerProperty(k) /\ ~Inert(k)

\* The conditions of configStatus.
Refused(k) ==
  \/ isAuthorizerKey(k) /\ ~recognizedAuthorizer(settings[k])
  \/ isKeystoreTypeKey(k) /\ isJavaKeystore(settings[k])
  \/ isMechanismsKey(k) /\ mechanismsUnservable(settings[k])

configStatus ==
  IF \E k \in DOMAIN settings : Considered(k) /\ Refused(k) THEN "INVALID" ELSE "ACCEPTED"

StampStatus ==
  /\ pc = "stamp" /\ pc' = "listeners"
  /\ status' = configStatus
  /\ UNCHANGED <<protocol, source, settings, conversions, emitted, written, items, edits,
                 runs, before>>

\* emitProp: the first case that applies.
EmittedForm(k) ==
  LET v == settings[k]
  IN IF Inert(k) THEN "comment"
     ELSE IF \E c \in conversions : k \in {c.typeKey, c.locKey} THEN "active"
     ELSE IF isAuthorizerKey(k) THEN (IF recognizedAuthorizer(v) THEN "active" ELSE "block")
     ELSE IF isKeystoreTypeKey(k) /\ isJavaKeystore(v) THEN "block"
     ELSE IF isMechanismsKey(k) /\ mechanismsUnservable(v) THEN "block"
     ELSE IF runtimeRejects(k) THEN "comment"
     ELSE "active"

EmittedValue(k) == IF isAuthorizerKey(k) THEN "KofAuthorizer" ELSE settings[k]

Line(k) ==
  IF ~isSupportedBrokerProperty(k) THEN [key |-> k, form |-> "unsupported", value |-> settings[k]]
  ELSE [key |-> k, form |-> EmittedForm(k),
        value |-> IF EmittedForm(k) = "active" THEN EmittedValue(k) ELSE settings[k]]

listenerKeyOrder ==
  <<<<"", "listeners">>, <<"", "advertised.listeners">>, <<"", "listener.security.protocol.map">>,
    <<"", "inter.broker.listener.name">>, <<"", "controller.listener.names">>>>

\* What a pass goes through; the last two, the file.
KeysOfPass(pass) == IF pass = "listeners" THEN listenerKeyOrder ELSE Order

Pending(pass) ==
  {j \in 1..Len(KeysOfPass(pass)) :
     /\ KeysOfPass(pass)[j] \in DOMAIN settings \ emitted
     /\ pass = "scoped" => KeysOfPass(pass)[j][1] # ""}

Passes == {"listeners", "scoped", "rest"}

\* One turn of one of the three loops of writeKOFProps.
EmitNext ==
  /\ pc \in Passes
  /\ \E j \in Pending(pc) :
       /\ \A l \in Pending(pc) : j <= l
       /\ written' = Append(written, Line(KeysOfPass(pc)[j]))
       /\ emitted' = emitted \cup {KeysOfPass(pc)[j]}
  /\ UNCHANGED <<protocol, source, settings, conversions, pc, status, items, edits, runs,
                 before>>

EndPass ==
  /\ pc \in Passes /\ Pending(pc) = {}
  /\ pc' = CASE pc = "listeners" -> "scoped" [] pc = "scoped" -> "rest" [] OTHER -> "report"
  /\ UNCHANGED <<protocol, source, settings, conversions, status, emitted, written, items,
                 edits, runs, before>>

SummarizedMutant ==
  {k \in DOMAIN settings :
     /\ isSupportedBrokerProperty(k)
     /\ CASE isAuthorizerKey(k) -> ~recognizedAuthorizer(settings[k])
          [] isKeystoreTypeKey(k) -> isJavaKeystore(settings[k])
          [] isMechanismsKey(k) -> mechanismsUnservable(settings[k])
          [] OTHER -> FALSE}

\* Summarize.
Summarized ==
  {k \in DOMAIN settings :
     /\ isSupportedBrokerProperty(k) /\ ~Inert(k)
     /\ CASE isAuthorizerKey(k) -> ~recognizedAuthorizer(settings[k])
          [] isKeystoreTypeKey(k) -> isJavaKeystore(settings[k])
          [] isMechanismsKey(k) -> mechanismsUnservable(settings[k])
          [] OTHER -> FALSE}

Report ==
  /\ pc = "report" /\ pc' = "done"
  /\ items' = IF status = "INVALID" THEN Summarized ELSE {}
  /\ UNCHANGED <<protocol, source, settings, conversions, status, emitted, written, edits,
                 runs, before>>

-----------------------------------------------------------------------------
(* The operator.                                                           *)

Blocks == {written[j].key : j \in {l \in 1..Len(written) : written[l].form = "block"}}

\* The lines that the next run reads.
Active ==
  LET lines == {j \in 1..Len(written) : written[j].form = "active"}
  IN [k \in {written[j].key : j \in lines} |->
        written[CHOOSE j \in lines : written[j].key = k].value]

Override(f, g) ==
  [k \in DOMAIN f \cup DOMAIN g |-> IF k \in DOMAIN g THEN g[k] ELSE f[k]]

AdviceMutant(k) ==
  IF isAuthorizerKey(k) THEN [x \in {k} |-> "KofAuthorizer"]
  ELSE IF isMechanismsKey(k) THEN [x \in {k} |-> {"PLAIN"}]
  ELSE [x \in {k, <<k[1], "keystore.location">>} |->
          IF x = k THEN "PEM" ELSE [stem |-> "placeholder", ext |-> "pem"]]

\* What the block says: the value to uncomment, and for a keystore the location
\* to set, a placeholder when the type's own location key is empty.
Advice(k) ==
  IF isAuthorizerKey(k) THEN [x \in {k} |-> "KofAuthorizer"]
  ELSE IF isMechanismsKey(k) THEN [x \in {k} |-> {"PLAIN"}]
  ELSE LET own == Setting(settings, keystoreLocationKey(k))
       IN [x \in {k, keystoreLocationKey(k)} |->
             IF x = k THEN "PEM"
             ELSE IF own = Blank THEN [stem |-> "placeholder", ext |-> "pem"]
             ELSE WithExt(own, "pem")]

\* Follow one block's advice.
Resolve(k) ==
  /\ pc = "done" /\ k \in Blocks \ DOMAIN edits
  /\ edits' = Override(edits, Advice(k))
  /\ UNCHANGED <<protocol, source, settings, conversions, pc, status, emitted, written,
                 items, runs, before>>

\* Run the tool over the generated file.
Rerun ==
  /\ pc = "done" /\ runs < MaxRuns
  /\ runs' = runs + 1 /\ pc' = "parse"
  /\ source' = Override(Active, edits)
  /\ before' = [status |-> status, active |-> Active, left |-> Blocks \ DOMAIN edits,
                edited |-> DOMAIN edits]
  /\ settings' = <<>> /\ conversions' = {}
  /\ emitted' = {} /\ written' = <<>> /\ items' = {} /\ edits' = <<>>
  /\ UNCHANGED <<protocol, status>>

Init ==
  /\ protocol \in [Listeners \cup Stripped -> Protocols]
  /\ source \in Files
  /\ settings = <<>> /\ conversions = {}
  /\ pc = "parse" /\ status = "ACCEPTED"
  /\ emitted = {} /\ written = <<>> /\ items = {} /\ edits = <<>>
  /\ runs = 1 /\ before = [status |-> "none", active |-> <<>>, left |-> {}, edited |-> {}]

Next ==
  \/ Parse \/ StampStatus \/ EmitNext \/ EndPass \/ Report
  \/ \E k \in Keys : Resolve(k)
  \/ Rerun

Spec == Init /\ [][Next]_vars

-----------------------------------------------------------------------------
(* Properties.                                                             *)

Forms == {"active", "comment", "block", "unsupported"}

\* The variables have their types.
TypeOK ==
  /\ protocol \in [Listeners \cup Stripped -> Protocols]
  /\ DOMAIN source \subseteq Keys /\ DOMAIN settings \subseteq Keys
  /\ \A c \in conversions : c.typeKey \in Keys /\ c.locKey \in Keys
  /\ pc \in Passes \cup {"parse", "stamp", "report", "done"}
  /\ status \in {"INVALID", "ACCEPTED"}
  /\ emitted \subseteq Keys /\ items \subseteq Keys /\ DOMAIN edits \subseteq Keys
  /\ \A j \in 1..Len(written) : written[j].key \in Keys /\ written[j].form \in Forms
  /\ runs \in 1..MaxRuns

\* The stamp, the blocks in the file and the report name the same settings: the
\* file is INVALID exactly when it has a block, and the report lists the blocks
\* ("it must stay in step with configStatus", summary.go 38-39).
StatusReportAndBlocksAgree ==
  pc = "done" => /\ status = "INVALID" <=> Blocks # {}
                 /\ items = Blocks

\* What is parsed, written and stamped is so in terms of the file that was given, and
\* at the end every setting has its line.
WritingInv ==
  /\ pc # "parse" => settings = Normalized(source) /\ conversions = Conversions(source)
  /\ pc \in {"parse", "stamp"} => written = <<>>
  /\ pc \notin {"parse", "stamp"} => status = configStatus
  /\ written \in Seq({Line(k) : k \in DOMAIN settings})
  /\ emitted = {written[j].key : j \in 1..Len(written)}
  /\ \A j, l \in 1..Len(written) : written[j].key = written[l].key => j = l
  /\ pc \in {"report", "done"} => emitted = DOMAIN settings
  /\ pc = "done" => items = IF status = "INVALID" THEN Summarized ELSE {}

\* A file whose every line the tool passes on as it is.
Settled(f) ==
  \A k \in DOMAIN f :
    /\ isSupportedBrokerProperty(k)
    /\ isAuthorizerKey(k) => f[k] = "KofAuthorizer"
    /\ isKeystoreTypeKey(k) => ~isJavaKeystore(f[k]) /\ keystoreLocation(f, k) # Blank
    /\ isMechanismsKey(k) => ~mechanismsUnservable(f[k]) /\ saslInUse(k)

\* What the blocks ask the operator to set.
Advised(f) ==
  \A k \in DOMAIN f :
    /\ isSupportedBrokerProperty(k)
    /\ isAuthorizerKey(k) => f[k] = "KofAuthorizer"
    /\ isKeystoreTypeKey(k) => f[k] = "PEM" /\ keystoreLocationKey(k) \in DOMAIN f
    /\ isKeystoreLocationKey(k) => f[k] \in Locations
    /\ isMechanismsKey(k) => f[k] = {"PLAIN"} /\ saslInUse(k)

\* Nothing is edited before the end, and then only as the blocks ask.
EditsInv == (pc # "done" => edits = <<>>) /\ Advised(edits)

\* A file the tool wrote is settled, whatever the operator left of it.
SourceInv ==
  /\ Located(source)
  /\ runs > 1 => /\ source = [k \in DOMAIN source |-> source[k]] /\ Settled(source)
                 /\ before.edited \subseteq DOMAIN source
                 /\ before.edited = {} => source = before.active

\* The inductive invariant.
BrokerPropsInv ==
  TypeOK /\ WritingInv /\ EditsInv /\ SourceInv /\ StatusReportAndBlocksAgree

\* What the server would reject at startup, and what the tool's own list says it
\* ignores or does not support, never gets into the broker file, not even as a
\* comment, under whatever listener: it goes to unsupported.properties.  The tool,
\* the server and the list have a table each (whitelist.go 154-158, support.go 14-17:
\* "the documentation cannot drift from the tool").
RefusedGoToUnsupported ==
  \A j \in 1..Len(written) :
    LET k == written[j].key
    IN runtimeRejects(k) \/ ListedAs(k[2], Refusing) => written[j].form = "unsupported"

\* The key the type of listener l's keystore (or truststore) is read from in
\* Apache Kafka, and the location.
EffectiveKey(base, l) == IF Setting(settings, <<l, base>>) # Blank THEN <<l, base>> ELSE <<"", base>>

\* A type commented out as inert is the type of no keystore file that any
\* listener of the source loads, by its own key or by the broker-wide one it falls
\* back to; and a mechanism list commented out as inert is that of no client
\* listener that the parse has left and that speaks SASL (inert.go 32-40). It does not
\* speak of keys and certificates given inline, nor of the mechanisms of listeners the
\* parse took out: see InertHadNoEffect below.
InertLoadsNoFile ==
  pc = "done" => \A k \in DOMAIN settings : isSupportedBrokerProperty(k) /\ Inert(k) =>
    /\ \A l \in Listeners \cup Stripped : isKeystoreTypeKey(k) /\ EffectiveKey(k[2], l) = k =>
         Setting(settings, EffectiveKey(keystoreLocationKey(k)[2], l)) = Blank
    /\ \A l \in Listeners : isMechanismsKey(k) /\ EffectiveKey(k[2], l) = k =>
         protocol[l] \in {"PLAINTEXT", "SSL"}

\* A run over an unedited generated file gives the same active lines and no new
\* block: rewritten values are recognized again (auth.go 200, test
\* TestIdempotent_CanonicalAuthorizer).
RerunKeepsActiveLines ==
  pc = "done" /\ runs > 1 /\ before.edited = {} => Active = before.active /\ Blocks = {}

\* Once the advice of every block is followed, the next run stamps ACCEPTED and
\* the resolved settings are active (getting-started.md 2744-2746).
ResolvedIsAccepted ==
  pc = "done" /\ runs > 1 /\ before.left = {} =>
    status = "ACCEPTED" /\ before.edited \subseteq DOMAIN Active

-----------------------------------------------------------------------------
(* What the comments say and the code does not do.                         *)

\* The material of a keystore that is given inline, for a type PEM without a
\* location.
InlineBases(typeBase) ==
  IF typeBase = "ssl.keystore.type" THEN {"ssl.keystore.key", "ssl.keystore.certificate.chain"}
  ELSE {"ssl.truststore.certificates"}

\* "Kept for reference; it had no effect on the source broker either" (props.go 253,
\* and inert.go 22-24: "a wrong inert would silently drop a setting a real cluster
\* depends on"): what is commented out is the type of no key or certificate that a
\* TLS listener is given inline (support.go 86-89, 100-101), and the mechanisms of no
\* listener that speaks SASL, the inter-broker listener included.
InertHadNoEffect ==
  pc = "done" => \A k \in DOMAIN settings : isSupportedBrokerProperty(k) /\ Inert(k) =>
    \A l \in Listeners \cup Stripped : EffectiveKey(k[2], l) = k =>
      /\ isKeystoreTypeKey(k) /\ protocol[l] \in {"SSL", "SASL_SSL"} =>
           \A base \in InlineBases(k[2]) : Setting(settings, EffectiveKey(base, l)) = Blank
      /\ isMechanismsKey(k) => protocol[l] \in {"PLAINTEXT", "SSL"}

\* "accept: honored as written and passed through to the FSK listener" (support.go
\* 27-28): an accepted property that is in use is active in the broker file.
AcceptedIsHonored ==
  \A j \in 1..Len(written) :
    ListedAs(written[j].key[2], {"accept"}) => written[j].form = "active"

\* "it re-checks and stamps ACCEPTED once nothing is left" (props.go 130): not
\* while a block is unresolved.
AcceptedOnlyOnceResolved ==
  pc = "done" /\ runs > 1 /\ before.left # {} => status = "INVALID"

\* "NormalizeKeystores rewrites every JKS/PKCS12 keystore that names a location
\* into its PEM form" (keystore.go 59-60), where "a broker-wide type can be the type
\* of a location only some listener names" (inert.go 45-46): in an accepted file
\* a listener that read a Java keystore is pointed at its PEM form.
AcceptedListenersReadPem ==
  pc = "done" /\ runs = 1 /\ status = "ACCEPTED" =>
    \A l \in Listeners, base \in TypeBases :
      LET t == EffectiveKey(base, l)
          loc == EffectiveKey(keystoreLocationKey(t)[2], l)
      IN isJavaKeystore(Setting(source, t)) /\ Setting(source, loc) # Blank
           => Active[t] = "PEM" /\ Active[loc].ext = "pem"
=============================================================================
