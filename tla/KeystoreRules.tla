----------------------------- MODULE KeystoreRules -----------------------------
(***************************************************************************)
(* How the settings of one broker name its keystores                       *)
(* (translator/keystore.go, annotations.go and inert.go): which keys are   *)
(* the type and the location of one, where a type finds its location, and  *)
(* the rewrite to PEM that the parser makes before anything else reads the *)
(* settings.                                                               *)
(*                                                                         *)
(* Settings are a function from keys to values; a key is a pair <<scope,   *)
(* base>> of a listener name ("" for the broker-wide form) and the rest of *)
(* the key.  A location is a stem and an extension.                        *)
(***************************************************************************)
CONSTANT Blank   \* the empty value, and what reading an absent key gives

TypeBases == {"ssl.keystore.type", "ssl.truststore.type"}

LocationBases == {"ssl.keystore.location", "ssl.truststore.location"}

isKeystoreTypeKey(k) == k[2] \in TypeBases

isKeystoreLocationKey(k) == k[2] \in LocationBases

isJavaKeystore(v) == v \in {"JKS", "PKCS12"}

keystoreLocationKey(k) ==
  <<k[1], IF k[2] = "ssl.keystore.type" THEN "ssl.keystore.location"
                                        ELSE "ssl.truststore.location">>

keystoreKind(k) == IF k[2] = "ssl.keystore.type" THEN "keystore" ELSE "truststore"

\* cfg.Settings[k].
Setting(settings, k) == IF k \in DOMAIN settings THEN settings[k] ELSE Blank

WithExt(loc, ext) == [stem |-> loc.stem, ext |-> ext]

\* The keystores that are rewritten: their own location key names a file.
Rewritten(settings) ==
  {k \in DOMAIN settings : /\ isKeystoreTypeKey(k) /\ isJavaKeystore(settings[k])
                           /\ Setting(settings, keystoreLocationKey(k)) # Blank}

\* A KeystoreConversion.
Conversion(settings, k) ==
  LET loc == settings[keystoreLocationKey(k)]
  IN [typeKey |-> k, locKey |-> keystoreLocationKey(k), kind |-> keystoreKind(k),
      fromType |-> settings[k], fromLoc |-> loc,
      p12Loc |-> IF settings[k] = "JKS" THEN WithExt(loc, "p12") ELSE loc,
      toLoc |-> WithExt(loc, "pem")]

\* KeystoreConversions, in no order.
Conversions(settings) == {Conversion(settings, k) : k \in Rewritten(settings)}

\* NormalizeKeystores.
Normalized(settings) ==
  [k \in DOMAIN settings |->
     IF k \in Rewritten(settings) THEN "PEM"
     ELSE IF \E t \in Rewritten(settings) : keystoreLocationKey(t) = k
          THEN WithExt(settings[k], "pem")
          ELSE settings[k]]

\* The file a type key governs: its own location, else the broker-wide one for a
\* listener's type and any listener's for the broker-wide type.
keystoreLocation(settings, k) ==
  LET base == keystoreLocationKey(k)[2]
      own == Setting(settings, keystoreLocationKey(k))
      others == IF k[1] # "" THEN {<<"", base>>}
                ELSE {l \in DOMAIN settings : l[1] # "" /\ l[2] = base}
      named == {l \in others : Setting(settings, l) # Blank}
  IN IF own # Blank THEN own
     ELSE IF named # {} THEN settings[CHOOSE l \in named : TRUE]
     ELSE Blank
=============================================================================
