----------------------------- MODULE MCBrokerProps -----------------------------
(* Small instances of the generated broker file. *)
EXTENDS BrokerProps

CONSTANT Absent   \* the key is not in the file

Auth == <<"", "authorizer.class.name">>
Mech(scope) == <<scope, "sasl.enabled.mechanisms">>
Type(scope) == <<scope, "ssl.keystore.type">>
Loc(scope) == <<scope, "ssl.keystore.location">>

Jks(stem) == [stem |-> stem, ext |-> "jks"]

File(f) == [k \in {x \in DOMAIN f : f[x] # Absent} |-> f[k]]

KeysOf(order) == {order[j] : j \in 1..Len(order)}

\* Authorizer and mechanisms, next to keys of every table.
SaslOrder ==
  <<<<"", "controller.listener.names">>, Auth, Mech(""), Mech("a"), Mech("gone"),
    <<"", "listeners">>, <<"", "plain.connections.max.reauth.ms">>,
    <<"a", "plain.connections.max.reauth.ms">>, <<"a", "sasl.jaas.config">>>>
SaslFiles ==
  {File([k \in KeysOf(SaslOrder) |->
           CASE k = Auth -> a [] k = Mech("") -> m [] k = Mech("a") -> n
             [] k = Mech("gone") -> o [] OTHER -> "v"]) :
     a \in {Absent, Blank, "custom", "standard", "KofAuthorizer"},
     m \in {Absent, {"SCRAM"}, {"PLAIN", "SCRAM"}}, n \in {Absent, {"SCRAM"}, {"PLAIN"}},
     o \in {Absent, {"SCRAM"}}}

\* Broker-wide and listener keystores.
StoreOrder == <<Loc(""), Type(""), Loc("a"), Type("a"), Loc("b"), Type("b")>>
StoreFiles ==
  {File([k \in KeysOf(StoreOrder) |->
           CASE k = Type("") -> t [] k = Loc("") -> x [] k = Type("a") -> u
             [] k = Loc("a") -> y [] k = Type("b") -> v [] k = Loc("b") -> z]) :
     t \in {Absent, "JKS", "PKCS12", "PEM"}, x \in {Absent, Blank, Jks("x")},
     u \in {Absent, "JKS", "PEM"}, y \in {Absent, Blank, Jks("y")},
     v \in {Absent, "JKS"}, z \in {Absent, Jks("y")}}

\* A type PEM whose material is inline.
InlineOrder == <<<<"", "ssl.keystore.key">>>>
InlineFile == [k \in {Type(""), Type("a")} \cup KeysOf(InlineOrder) |-> IF k \in KeysOf(InlineOrder) THEN "v" ELSE "PEM"]

\* Properties of every section and disposition of the list.
ListedOrder ==
  <<<<"", "sasl.mechanism.inter.broker.protocol">>, <<"a", "sasl.mechanism.controller.protocol">>,
    <<"", "control.plane.listener.name">>, <<"a", "early.start.listeners">>,
    <<"", "ssl.keystore.password">>, <<"a", "ssl.client.auth">>, <<"", "ssl.provider">>,
    <<"b", "ssl.endpoint.identification.algorithm">>, <<"", "sasl.kerberos.service.name">>,
    <<"", "sasl.oauthbearer.expected.issuer">>, <<"a", "sasl.oauthbearer.scope.claim.name">>,
    <<"", "super.users">>, <<"", "principal.builder.class">>, <<"a", "max.connections.per.ip">>,
    <<"", "connections.max.idle.ms">>, <<"", "delegation.token.secret.key">>>>
ListedFile == [k \in KeysOf(ListedOrder) |-> "v"]

MCOrder == SaslOrder \o StoreOrder \o InlineOrder \o ListedOrder
MCFiles == SaslFiles \cup StoreFiles \cup {InlineFile, ListedFile}

MCOtherSecurity ==
  ({e[1] : e \in TLS \cup SASL \cup OAuthBearer} \ {"connections.max.reauth.ms"})
    \cup {"sasl.mechanism.inter.broker.protocol", "sasl.mechanism.controller.protocol"}

\* The tables agree on the whole list, not only on the properties of the files above.
ASSUME ListAgreesWithTables ==
  \A scope \in Listeners \cup {""}, e \in propSections :
    e[2] \in Refusing => ~isSupportedBrokerProperty(<<scope, e[1]>>)
=============================================================================
