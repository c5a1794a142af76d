-------------------------------- MODULE Fetch --------------------------------
(***************************************************************************)
(* Where the broker configurations of a conversion come from (main.go      *)
(* 193-231): the server.properties files of the command line, or, with     *)
(* --from-brokers, the running brokers at the addresses given, asked one   *)
(* after the other over the Admin API (translator/fetch.go).  Either way   *)
(* EnsureNodeIDs follows, which NodeIds models; this module is NodeIds     *)
(* with the second source added.                                           *)
(*                                                                         *)
(* An address (a host, compared without case, and a port) is named for the *)
(* id of the broker that the metadata gives it for.  An address whose id   *)
(* no running broker has is one that none of them advertises: an alias, a  *)
(* load balancer.                                                          *)
(***************************************************************************)
EXTENDS NodeIds

CONSTANT LiveIds  \* ids the running brokers may have

ASSUME LiveIdsAssumption == LiveIds \subseteq 0..MaxId

VARIABLES
  live,        \* the running brokers, by their ids
  reported,    \* the ids their own configuration names, as a file would
  addrs,       \* --from-brokers
  phase,       \* where main is: fetching, failed or with all configurations
  j,           \* the loop over the addresses
  described    \* history: the broker whose configuration answered address j

cluster == <<live, reported, addrs>>
fetchVars == <<cluster, phase, j, described>>
allVars == <<vars, fetchVars>>

-----------------------------------------------------------------------------

\* The broker advertised at the address; any, when there is none: client.Brokers()
\* lists them in no order.
BrokersAtMutant(addr) == live

BrokersAt(addr) ==
  IF addr \in live THEN {addr} ELSE live

\* node.id, when the configuration of broker b names no id of its own.
FetchedId(b) ==
  LET asked == Asked(reported[b].node, reported[b].broker)
  IN IF asked = Absent THEN b ELSE asked

\* FetchBrokerConfig: broker.id is renamed where there is no node.id, and the id of
\* the metadata is put in where there is neither.
FetchBrokerConfig ==
  /\ phase = "fetching"
  /\ \E b \in BrokersAt(addrs[j]) :
       /\ described' = [described EXCEPT ![j] = b]
       /\ nodeKey' = [nodeKey EXCEPT ![j] = FetchedId(b)]
       /\ brokerKey' = [brokerKey EXCEPT ![j] =
            IF reported[b].node = Absent THEN Absent ELSE reported[b].broker]
       /\ origin' = [origin EXCEPT ![j] =
            IF reported[b].node = Absent /\ reported[b].broker # Absent
            THEN "broker.id" ELSE "source"]
       /\ claimed' = [claimed EXCEPT ![j] = FetchedId(b)]
  /\ IF j < N THEN j' = j + 1 /\ UNCHANGED phase ELSE phase' = "fetched" /\ UNCHANGED j
  /\ UNCHANGED <<nodeId, taken, next, pc, i, cluster>>

\* No connection, no admin client, no metadata, no answer: the tool exits.
FetchFails ==
  /\ phase = "fetching" /\ phase' = "failed"
  /\ UNCHANGED <<vars, cluster, j, described>>

\* EnsureNodeIDs over whatever was read.
Ensure == phase \in {"files", "fetched"} /\ Next /\ UNCHANGED fetchVars

FromFiles ==
  /\ Init /\ phase = "files"
  /\ live = {} /\ reported = <<>> /\ addrs = <<>>

\* The files of the running brokers name the id under either key, leave it to
\* Kafka (-1), or are silent.
FromBrokers ==
  /\ phase = "fetching"
  /\ live \in SUBSET LiveIds /\ live # {}
  /\ \E node \in [live -> BOOLEAN] : \E broker \in [live -> {"id", "auto", "no"}] :
       reported = [b \in live |->
         [node |-> IF node[b] THEN b ELSE Absent,
          broker |-> CASE broker[b] = "id" -> b [] broker[b] = "auto" -> -1
                       [] broker[b] = "no" -> Absent]]
  /\ addrs \in [Brokers -> 0..MaxId]
  /\ nodeKey = [k \in Brokers |-> Absent] /\ brokerKey = [k \in Brokers |-> Absent]
  /\ origin = [k \in Brokers |-> "source"] /\ nodeId = [k \in Brokers |-> 1]
  /\ taken = {} /\ next = 1 /\ pc = "claim" /\ i = 1
  /\ claimed = [k \in Brokers |-> Absent]

FetchInit == (FromFiles \/ FromBrokers) /\ j = 1 /\ described = [k \in Brokers |-> Absent]

FetchNext == FetchBrokerConfig \/ FetchFails \/ Ensure

FetchSpec == FetchInit /\ [][FetchNext]_allVars

\* The Admin API calls have timeouts.
FairFetchSpec == FetchSpec /\ WF_allVars(FetchNext)

-----------------------------------------------------------------------------
(* Properties.                                                             *)

\* Addresses that are told apart and that the brokers advertise become brokers that
\* are told apart, each with the id it has in the running cluster unless its own
\* configuration refuses to name one.
AddressedKeepIdentity ==
  pc = "done" /\ phase = "fetched" =>
    \A k \in Brokers : addrs[k] \in live =>
      /\ FetchedId(addrs[k]) # -1 => nodeId[k] = addrs[k]
      /\ \A m \in Brokers : addrs[m] \in live \ {addrs[k]} => nodeId[m] # nodeId[k]

\* Fetching ends too, with every configuration or none.
FetchTerminates == <>(pc = "done" \/ phase = "failed")

-----------------------------------------------------------------------------
(* What the comments say and the code does not do.                         *)

\* Different addresses are different brokers (fetch.go 56, "default to first broker
\* returned"; main.go 254, "Every pserver needs a distinct, non-negative node.id").
DifferentAddressesDifferentBrokers ==
  pc = "done" /\ phase = "fetched" =>
    \A k, m \in Brokers : addrs[k] # addrs[m] => described[k] # described[m]

\* "Cluster metadata already told us this broker's id, which beats anything
\* EnsureNodeIDs could invent later" (fetch.go 105-106).
MetadataBeatsInvention == phase = "fetched" => \A k \in Brokers : origin[k] # "assigned"
=============================================================================
