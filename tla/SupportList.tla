------------------------------- MODULE SupportList -------------------------------
(***************************************************************************)
(* What the tool says it does with each listener and security property     *)
(* (translator/support.go): the list that --list-properties prints, and    *)
(* that calls itself the single source of truth.  Nothing else in the tool *)
(* reads it: what is done is decided in whitelist.go, inert.go and         *)
(* props.go, which BrokerProps models.                                     *)
(*                                                                         *)
(* A property that the list gives as a family (sasl.kerberos, with its     *)
(* members named in the explanation) is listed member by member; one whose *)
(* members are not named (sasl.oauthbearer.unsecured) is left out.         *)
(***************************************************************************)
Says(disposition, properties) == properties \X {disposition}

ListenerLayout ==
  Says("accept", {"listeners", "advertised.listeners", "listener.security.protocol.map"})
  \cup Says("not-applicable",
       {"inter.broker.listener.name", "controller.listener.names", "control.plane.listener.name",
        "sasl.mechanism.inter.broker.protocol", "sasl.mechanism.controller.protocol"})

TLS ==
  Says("accept",
    {"ssl.keystore.location", "ssl.keystore.password", "ssl.keystore.key",
     "ssl.keystore.certificate.chain", "ssl.key.password", "ssl.truststore.location",
     "ssl.truststore.password", "ssl.truststore.certificates", "ssl.client.auth",
     "ssl.enabled.protocols", "ssl.protocol", "ssl.cipher.suites"})
  \cup Says("translate", {"ssl.keystore.type", "ssl.truststore.type"})
  \cup Says("depends", {"ssl.principal.mapping.rules"})
  \cup Says("not-applicable",
       {"ssl.endpoint.identification.algorithm", "ssl.allow.dn.changes", "ssl.allow.san.changes"})
  \cup Says("unsupported",
       {"ssl.provider", "ssl.secure.random.implementation", "ssl.keymanager.algorithm",
        "ssl.trustmanager.algorithm", "ssl.engine.factory.class"})

SASL ==
  Says("accept", {"connections.max.reauth.ms"})
  \cup Says("depends",
       {"sasl.enabled.mechanisms", "sasl.jaas.config", "sasl.server.callback.handler.class"})
  \cup Says("not-applicable",
       {"sasl.client.callback.handler.class", "sasl.login.callback.handler.class",
        "sasl.login.class", "sasl.server.max.receive.size", "sasl.login.refresh.window.factor",
        "sasl.login.refresh.window.jitter", "sasl.login.refresh.min.period.seconds",
        "sasl.login.refresh.buffer.seconds",
        "sasl.login.connect.timeout.ms", "sasl.login.read.timeout.ms",
        "sasl.login.retry.backoff.ms", "sasl.login.retry.backoff.max.ms"})
  \cup Says("unsupported",
       {"sasl.kerberos.service.name", "sasl.kerberos.kinit.cmd",
        "sasl.kerberos.ticket.renew.window.factor", "sasl.kerberos.ticket.renew.jitter",
        "sasl.kerberos.min.time.before.relogin", "sasl.kerberos.principal.to.local.rules"})

OAuthBearer ==
  Says("accept",
    {"sasl.oauthbearer.jwks.endpoint.url", "sasl.oauthbearer.expected.issuer",
     "sasl.oauthbearer.expected.audience", "sasl.oauthbearer.sub.claim.name",
     "sasl.oauthbearer.clock.skew.seconds", "sasl.oauthbearer.jwks.endpoint.refresh.ms",
     "sasl.oauthbearer.jwks.endpoint.retry.backoff.ms",
     "sasl.oauthbearer.jwks.endpoint.retry.backoff.max.ms"})
  \cup Says("not-applicable",
       {"sasl.oauthbearer.scope.claim.name", "sasl.oauthbearer.token.endpoint.url"})

Authorization ==
  Says("accept", {"super.users", "allow.everyone.if.no.acl.found"})
  \cup Says("depends", {"authorizer.class.name"})
  \cup Says("not-applicable", {"early.start.listeners"})
  \cup Says("unsupported", {"principal.builder.class", "security.providers"})

ConnectionLimits ==
  Says("accept", {"max.connections"})
  \cup Says("not-applicable", {"connections.max.idle.ms"})
  \cup Says("unsupported",
       {"max.connections.per.ip", "max.connections.per.ip.overrides",
        "connection.failed.authentication.delay.ms"})

DelegationTokens ==
  Says("unsupported",
    {"delegation.token.secret.key", "delegation.token.max.lifetime.ms",
     "delegation.token.expiry.time.ms", "delegation.token.expiry.check.interval.ms"})

propSections ==
  ListenerLayout \cup TLS \cup SASL \cup OAuthBearer \cup Authorization \cup ConnectionLimits
    \cup DelegationTokens

ListedAs(base, dispositions) == \E d \in dispositions : <<base, d>> \in propSections

Refusing == {"not-applicable", "unsupported"}
=============================================================================
