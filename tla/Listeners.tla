------------------------------- MODULE Listeners -------------------------------
(***************************************************************************)
(* Which listeners of one broker survive the conversion                    *)
(* (translator/broker.go, ParseBrokerConfig, and its twin in fetch.go):    *)
(* the parser notes an address the migration tool may use, decides which   *)
(* listeners are internal to the cluster, strips those from the three      *)
(* listener properties, and builds the listeners the rest of the           *)
(* conversion works from.  The file that is written can be parsed again;   *)
(* it no longer says which listeners were internal.                        *)
(*                                                                         *)
(* A listener is its name, and so is its port.  Hosts: "host" is one that  *)
(* clients can use, "wild" is 0.0.0.0, which every listener binds to.      *)
(***************************************************************************)
EXTENDS Naturals, Sequences

CONSTANTS
  Names,       \* listener names, in upper case
  Orders,      \* values of listeners: sequences of distinct names
  Protocols,   \* protocols the map may give a listener
  AdvHosts,    \* hosts advertised.listeners may give, Unset among them
  Unset        \* not in the file

Secured == {"SSL", "SASL_PLAINTEXT", "SASL_SSL"}

ASSUME ConstantsAssumption ==
  /\ Orders \subseteq Seq(Names) \ {<<>>} /\ Unset \notin Names
  /\ \A o \in Orders : \A k, l \in 1..Len(o) : k # l => o[k] # o[l]
  /\ AdvHosts \subseteq {"host", "wild", Unset} /\ Unset \notin {"host", "wild"}
  /\ Protocols \subseteq Secured \cup {"PLAINTEXT"} /\ Unset \notin Protocols

VARIABLES
  listeners, advertised, protocolMap,  \* raw[...] of the three properties
  controllers, interBroker,            \* controllerSet, ib
  pc, i,
  kafkaHost,   \* the listener KafkaHost and KafkaPort are from, or Unset
  internal,    \* internalListeners
  kept,        \* listeners while it is rewritten
  removed,     \* RemovedListeners
  entries,     \* cfg.Listeners
  isSecure, kofHost,
  source,      \* history: the configuration before it is rewritten
  parses,      \* history: how often the broker was parsed
  before       \* history: the result of the first parse

raw == <<listeners, advertised, protocolMap, controllers, interBroker>>
result == <<entries, isSecure, kofHost>>
history == <<source, parses, before>>
vars == <<raw, pc, i, kafkaHost, internal, kept, removed, result, history>>

Listed == {listeners[k] : k \in 1..Len(listeners)}

Here == listeners[i]

\* The loops over listeners and over the entries: the next turn, or what follows.
Turn(loop, length, following) ==
  /\ pc = loop
  /\ IF i < length THEN i' = i + 1 /\ pc' = pc ELSE i' = 1 /\ pc' = following

-----------------------------------------------------------------------------
(* Before stripping.                                                       *)

Reachable(name) == name \notin controllers /\ advertised[name] = "host"

\* The first listener with a usable advertised address, internal or not.
ScanListener ==
  /\ pc = "scan"
  /\ \/ /\ Reachable(Here)
        /\ kafkaHost' = Here /\ i' = 1 /\ pc' = "mark"
     \/ /\ ~Reachable(Here) /\ Turn("scan", Len(listeners), "mark")
        /\ UNCHANGED kafkaHost
  /\ UNCHANGED <<raw, internal, kept, removed, result, history>>

HasOtherClientListenerMutant == Listed \ {interBroker} # {}

\* hasOtherClientListener.
HasOtherClientListener == Listed \ (controllers \cup {interBroker}) # {}

\* The inter-broker listener is internal unless it is the only one for clients.
MarkInternal ==
  /\ pc = "mark" /\ pc' = "strip"
  /\ internal' = controllers \cup
       (IF interBroker # Unset /\ HasOtherClientListener THEN {interBroker} ELSE {})
  /\ UNCHANGED <<raw, i, kafkaHost, kept, removed, result, history>>

-----------------------------------------------------------------------------
(* Stripping.                                                              *)

NamedBy(name) == IF name = interBroker THEN "inter.broker" ELSE "controller"

StripEntry ==
  /\ Turn("strip", Len(listeners), "drop")
  /\ \/ /\ Here \in internal
        /\ removed' = Append(removed, [name |-> Here, namedBy |-> NamedBy(Here)])
        /\ UNCHANGED kept
     \/ /\ Here \notin internal
        /\ kept' = Append(kept, Here)
        /\ UNCHANGED removed
  /\ UNCHANGED <<raw, kafkaHost, internal, result, history>>

DroppedMutant(values) == values

\* dropInternalListeners and dropInternalProtocolMap.
Dropped(values) == [n \in Names |-> IF n \in internal THEN Unset ELSE values[n]]

DropInternal ==
  /\ pc = "drop" /\ pc' = IF kept = <<>> THEN "derive" ELSE "build"
  /\ listeners' = kept
  /\ advertised' = Dropped(advertised) /\ protocolMap' = Dropped(protocolMap)
  /\ UNCHANGED <<controllers, interBroker, i, kafkaHost, internal, kept, removed, result,
                 history>>

-----------------------------------------------------------------------------
(* What is left.                                                           *)

\* deriveAuthMethod, as far as IsSecure asks: a listener the map does not name
\* has no authentication.
NeedsAuth(name) == protocolMap[name] \in Secured

AdvHostMutant(name) == advertised[name]

\* The advertised host, or the bind host when there is none.
AdvHost(name) == IF advertised[name] = Unset THEN "wild" ELSE advertised[name]

\* A ListenerDef.
Entry(name) == [name |-> name, host |-> AdvHost(name), protocol |-> protocolMap[name],
                auth |-> NeedsAuth(name)]

BuildListener ==
  /\ Turn("build", Len(listeners), "derive")
  /\ entries' = Append(entries, Entry(Here))
  /\ UNCHANGED <<raw, kafkaHost, internal, kept, removed, isSecure, kofHost, history>>

DerivesSecureMutant == Len(entries) > 0 /\ entries[1].auth

DerivesSecure == \E k \in 1..Len(entries) : entries[k].auth

FirstListenerMutant ==
  IF kafkaHost # Unset THEN kafkaHost
  ELSE IF entries = <<>> THEN Unset ELSE entries[1].name

\* The listener KOFHost and KOFPort are from.
FirstListener == IF entries = <<>> THEN Unset ELSE entries[1].name

\* IsSecure, KOFHost and KOFPort.
Derive ==
  /\ pc = "derive" /\ pc' = "done"
  /\ isSecure' = DerivesSecure
  /\ kofHost' = FirstListener
  /\ before' = IF parses = 1 THEN [entries |-> entries, secure |-> isSecure', kof |-> kofHost'] ELSE before
  /\ UNCHANGED <<raw, i, kafkaHost, internal, kept, removed, entries, source, parses>>

\* The generated file is given to the tool again, without the two keys that name
\* the internal listeners.
Reparse ==
  /\ pc = "done" /\ parses = 1 /\ listeners # <<>>
  /\ parses' = 2 /\ pc' = "scan" /\ i' = 1
  /\ controllers' = {} /\ interBroker' = Unset
  /\ kafkaHost' = Unset /\ internal' = {} /\ kept' = <<>> /\ removed' = <<>>
  /\ entries' = <<>> /\ isSecure' = FALSE /\ kofHost' = Unset
  /\ UNCHANGED <<listeners, advertised, protocolMap, source, before>>

Init ==
  /\ listeners \in Orders
  /\ \E a \in [Listed -> AdvHosts] :
       advertised = [n \in Names |-> IF n \in Listed THEN a[n] ELSE Unset]
  /\ \E p \in [Listed -> Protocols \cup {Unset}] :
       protocolMap = [n \in Names |-> IF n \in Listed THEN p[n] ELSE Unset]
  /\ controllers \in SUBSET Names /\ interBroker \in Names \cup {Unset}
  /\ pc = "scan" /\ i = 1
  /\ kafkaHost = Unset /\ internal = {} /\ kept = <<>> /\ removed = <<>>
  /\ entries = <<>> /\ isSecure = FALSE /\ kofHost = Unset
  /\ source = [listeners |-> listeners, protocolMap |-> protocolMap,
               controllers |-> controllers, interBroker |-> interBroker]
  /\ parses = 1 /\ before = [entries |-> <<>>, secure |-> FALSE, kof |-> Unset]

Next ==
  \/ ScanListener \/ MarkInternal \/ StripEntry \/ DropInternal
  \/ BuildListener \/ Derive \/ Reparse

Spec == Init /\ [][Next]_vars

-----------------------------------------------------------------------------
(* Properties.                                                             *)

Kept == {kept[k] : k \in 1..Len(kept)}
Removed == {removed[k].name : k \in 1..Len(removed)}
Entries == {entries[k].name : k \in 1..Len(entries)}
Source == {source.listeners[k] : k \in 1..Len(source.listeners)}

RemovedListener == [name : Names, namedBy : {"inter.broker", "controller"}]

ListenerDef == [name : Names, host : {"host", "wild"}, protocol : Protocols \cup {Unset},
                   auth : BOOLEAN]

\* The variables have their types.
TypeOK ==
  /\ listeners \in Seq(Names)
  /\ advertised \in [Names -> AdvHosts \cup {Unset}]
  /\ protocolMap \in [Names -> Protocols \cup {Unset}]
  /\ controllers \subseteq Names /\ interBroker \in Names \cup {Unset}
  /\ pc \in {"scan", "mark", "strip", "drop", "build", "derive", "done"} /\ i \in Nat \ {0}
  /\ kafkaHost \in Names \cup {Unset} /\ internal \subseteq Names
  /\ kept \in Seq(Names) /\ removed \in Seq(RemovedListener)
  /\ entries \in Seq(ListenerDef)
  /\ isSecure \in BOOLEAN /\ kofHost \in Names \cup {Unset}
  /\ parses \in {1, 2}

\* Clients lose no way in: every source listener that is neither a controller
\* nor, next to another client listener, the inter-broker one is served, and a
\* source with a client listener never ends up without one (comment at lines
\* 143-147, test InterBrokerOnlyClientListenerIsKept).
ClientListenersServed ==
  pc = "done" =>
    LET clients == Source \ source.controllers
    IN /\ Entries = IF clients = {source.interBroker} THEN clients
                    ELSE clients \ {source.interBroker}
       /\ clients # {} => Entries # {}

\* The three properties that are written and the listeners the rest of the
\* conversion uses name the same listeners, and what is gone is reported: every
\* source listener is served or in RemovedListeners.  IsSecure is the security of
\* the listeners that are left and whose protocol is stated: stripping neither
\* hides a secured one nor counts an internal one.
StrippedConsistently ==
  pc = "done" =>
    /\ Listed = Entries
    /\ \A n \in internal : advertised[n] = Unset /\ protocolMap[n] = Unset
    /\ Entries \cap source.controllers = {}
    /\ parses = 1 => Source = Entries \cup Removed /\ Entries \cap Removed = {}
    /\ isSecure <=> \E n \in Entries : source.protocolMap[n] \in Secured

\* Parsing the generated file gives the listeners, the security and the address
\* of the first parse, although the keys that named the internal listeners are
\* not in it.
ReparseStable ==
  pc = "done" /\ parses = 2 =>
    /\ removed = <<>>
    /\ before = [entries |-> entries, secure |-> isSecure, kof |-> kofHost]

\* How far the loops are, and what they have left behind.
Passed == {listeners[k] : k \in 1..(i - 1)}

LoopInv ==
  /\ pc \in {"scan", "strip", "build"} => i \in 1..Len(listeners)
  /\ pc \in {"mark", "drop"} => i = 1 /\ listeners # <<>>
  /\ pc \in {"scan", "mark"} => kept = <<>> /\ removed = <<>>
  /\ pc = "strip" => Kept = Passed \ internal /\ Removed = Passed \cap internal
  /\ pc = "drop" => Kept = Listed \ internal /\ Removed = Listed \cap internal
  /\ pc \in {"build", "derive", "done"} =>
       /\ listeners = kept
       /\ \A n \in internal : advertised[n] = Unset /\ protocolMap[n] = Unset

\* The listeners that the source makes internal; once the three properties are
\* stripped of those, nothing else about them changes, in either parse.
SourceInternal ==
  source.controllers \cup
    (IF source.interBroker # Unset /\ Source \ (source.controllers \cup {source.interBroker}) # {}
     THEN {source.interBroker} ELSE {})

Stripped == parses = 2 \/ pc \in {"build", "derive", "done"}

SourceInv ==
  /\ source.listeners \in Seq(Names) /\ source.controllers \subseteq Names
  /\ source.interBroker \in Names \cup {Unset}
  /\ ~Stripped => listeners = source.listeners /\ protocolMap = source.protocolMap
  /\ parses = 1 => controllers = source.controllers /\ interBroker = source.interBroker
  /\ parses = 2 => controllers = {} /\ interBroker = Unset /\ removed = <<>>
  /\ pc \notin {"scan", "mark"} => internal = IF parses = 1 THEN SourceInternal ELSE {}
  /\ Stripped =>
       /\ Listed = Source \ SourceInternal
       /\ \A n \in Names \ SourceInternal : protocolMap[n] = source.protocolMap[n]
       /\ parses = 1 => Removed = Source \cap SourceInternal

\* The second parse strips nothing: what it keeps is what it was given.
ReparseInv ==
  parses = 2 =>
    /\ pc = "strip" => Len(kept) = i - 1 /\ \A k \in 1..(i - 1) : kept[k] = listeners[k]
    /\ pc = "drop" => kept = listeners

\* The entries are those of the stripped properties, and so is the result of the
\* first parse.
Built == [k \in 1..Len(listeners) |-> Entry(listeners[k])]

BuiltResult ==
  [entries |-> Built, secure |-> \E k \in 1..Len(listeners) : NeedsAuth(listeners[k]),
   kof |-> IF listeners = <<>> THEN Unset ELSE listeners[1]]

EntriesInv ==
  /\ pc \in {"scan", "mark", "strip", "drop"} => entries = <<>>
  /\ pc = "build" => Len(entries) = i - 1 /\ \A k \in 1..(i - 1) : entries[k] = Built[k]
  /\ pc \in {"derive", "done"} => entries = Built
  /\ pc = "done" => isSecure = BuiltResult.secure /\ kofHost = BuiltResult.kof
  /\ pc = "done" \/ parses = 2 => before = BuiltResult

\* The inductive invariant behind the above.
ListenersInv == TypeOK /\ LoopInv /\ SourceInv /\ ReparseInv /\ EntriesInv

-----------------------------------------------------------------------------
(* What the comments say and the code does not do.                         *)

\* listenerProtocol of inert.go.
EffectiveProtocol(e) == IF e.protocol # Unset THEN e.protocol ELSE e.name

\* "Apache Kafka defaults a listener's protocol to its own name when
\* listener.security.protocol.map does not name it" (inert.go 109-111) and "if
\* any Apache Kafka listener is secured, the FTL servers must require
\* authentication too" (main.go 370).
SecuredByNameIsSecure ==
  pc = "done" =>
    ((\E k \in 1..Len(entries) : EffectiveProtocol(entries[k]) \in Secured) => isSecure)

\* WriteMigrationConfig: the listener whose port both bootstrap addresses use.
MigrationPort == IF kafkaHost # Unset THEN kafkaHost ELSE kofHost

\* "FSK pservers will run on different hosts but reuse the same Apache Kafka
\* listener port" (migration.go 18-19); "The ports there must match
\* advertised.listeners in the corresponding kof.broker.N.properties"
\* (importdata/README.md 631).
TargetPortServed == pc = "done" /\ Entries # {} => MigrationPort \in Entries
=============================================================================
