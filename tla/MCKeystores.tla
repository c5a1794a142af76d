------------------------------ MODULE MCKeystores ------------------------------
(* Small instances of the keystore files. *)
EXTENDS Keystores

CONSTANT Absent   \* the key is not in the file

Type(scope, kind) == <<scope, IF kind = "k" THEN "ssl.keystore.type" ELSE "ssl.truststore.type">>
Loc(scope, kind) == keystoreLocationKey(Type(scope, kind))

MCOrder == <<Type("", "k"), Type("", "t"), Type("a", "k")>>

File(f) == [k \in {x \in DOMAIN f : f[x] # Absent} |-> f[k]]

At(stem, ext) == [stem |-> stem, ext |-> ext]

MCFile(kt, tt, at, kl, tl, al) ==
  File([k \in {Type("", "k"), Type("", "t"), Type("a", "k"),
               Loc("", "k"), Loc("", "t"), Loc("a", "k")} |->
          CASE k = Type("", "k") -> kt [] k = Type("", "t") -> tt [] k = Type("a", "k") -> at
            [] k = Loc("", "k") -> kl [] k = Loc("", "t") -> tl [] k = Loc("a", "k") -> al])

\* A keystore, a truststore and a listener's keystore, in files of their own.
ApartFiles ==
  {MCFile(kt, tt, at, At("s", "jks"), At("t", "jks"), al) :
     kt \in {"JKS", "PEM"}, tt \in {"PKCS12", Absent}, at \in {"JKS", Absent},
     al \in {At("s", "jks"), Absent}}

\* A keystore and a truststore in one file.
SharedFiles ==
  {MCFile("PKCS12", "PKCS12", Absent, At("s", "p12"), At("s", "p12"), Absent)}

MCFiles == ApartFiles \cup SharedFiles
=============================================================================
