---------------------------- MODULE MCConversion ----------------------------
(* Small instances of the conversions. *)
EXTENDS Conversion

B(id, secure, oauth, users, invalid, unsupported) ==
  [id |-> id, secure |-> secure, oauth |-> oauth, users |-> users,
   invalid |-> invalid, unsupported |-> unsupported]

\* The setting the inline users are in; it is not among the supported ones.
Jaas(value) == <<"sasl.jaas.config", value>>

Kinds(id) ==
  {B(id, FALSE, FALSE, <<>>, FALSE, <<>>),
   B(id, FALSE, FALSE, <<>>, FALSE, <<<<"broker.rack", "south">>>>),
   B(id, TRUE, FALSE, <<<<"u", "p">>>>, TRUE, <<Jaas("x"), <<"broker.rack", "east">>>>),
   B(id, TRUE, TRUE, <<<<"v", "p">>, <<"u", "q">>>>, FALSE, <<Jaas("y")>>),
   B(id, TRUE, FALSE, <<<<"u", "p">>, <<"u", "q">>>>, FALSE,
     <<Jaas("z"), <<"broker.rack", "west">>>>)}

\* Of two brokers the first has users or nothing, the second users or a setting.
HasSettingOnly(b) == b.unsupported # <<>> /\ b.users = <<>>

MCInputs ==
  {<<b>> : b \in Kinds(1)} \cup
  {<<a, b>> : a \in {k \in Kinds(1) : ~HasSettingOnly(k)}, b \in {k \in Kinds(2) : k.unsupported # <<>>}}

F(authFile, serverUser, tls, token, more) ==
  [authFile |-> authFile, serverUser |-> serverUser, tls |-> tls, token |-> token,
   dr |-> more, migration |-> more]

MCFlags ==
  {F("", "internal", FALSE, FALSE, FALSE), F("", "internal", TRUE, FALSE, TRUE),
   F("", "internal", FALSE, TRUE, FALSE), F("operator-users", "operator", TRUE, FALSE, FALSE),
   F("operator-users", "internal", FALSE, FALSE, TRUE)}
=============================================================================
