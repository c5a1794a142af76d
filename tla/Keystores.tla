------------------------------- MODULE Keystores -------------------------------
(***************************************************************************)
(* The keystores of one broker and the files on disk (translator/auto.go,  *)
(* keystore.go; main.go, the --auto pass and the end of the run).  The     *)
(* parser rewrites the settings to PEM whether or not the .pem exists;     *)
(* producing it is two external commands per keystore, run by --auto or by *)
(* hand from the printed text, any of which may fail.  A later run looks   *)
(* at the disk and at the conversions its own parse recorded.              *)
(*                                                                         *)
(* A file holds a Java store ("jks", "p12"), a PEM with a key ("key") or   *)
(* with certificates only ("certs"), nothing ("empty"), or is "none".      *)
(***************************************************************************)
EXTENDS Naturals, Sequences, FiniteSets, KeystoreRules

CONSTANTS
  Order,     \* the type keys the files may hold, in file order
  Files,     \* the source files: functions from keys to types and locations
  Stems,     \* stems of the locations
  OldPems,   \* what may be at a .pem path before the first run
  MaxRuns    \* bound: runs of the tool

Paths == [stem : Stems, ext : {"jks", "p12", "pem"}]

ASSUME ConstantsAssumption ==
  /\ Order \in Seq(STRING \X TypeBases)
  /\ \A j, l \in 1..Len(Order) : j # l => Order[j] # Order[l]
  /\ \A f \in Files : \A k \in DOMAIN f :
       /\ isKeystoreTypeKey(k) => \E j \in 1..Len(Order) : Order[j] = k
       /\ isKeystoreLocationKey(k) => f[k] \in Paths \cup {Blank}
  /\ OldPems \subseteq {"none", "empty", "key", "certs"} /\ MaxRuns \in Nat \ {0}

VARIABLES
  source,       \* the file the tool is given
  generated,    \* history: whether it is the tool's own output
  auto,         \* --auto
  conversions,  \* cfg.KeystoreConversions, in file order
  settings,     \* cfg.Settings
  pc, i,
  done,         \* indices of the conversions marked Done
  failed,       \* history: those a command of --auto failed for in this run
  disk,
  pending,      \* the SEVERE WARNING: the conversions it lists
  message,      \* the last line of the run
  runs

run == <<source, generated, auto, runs>>
vars == <<run, conversions, settings, pc, i, done, failed, disk, pending, message>>

-----------------------------------------------------------------------------
(* Parse.                                                                  *)

\* NormalizeKeystores: a conversion for each key that is rewritten, in file order.
ParseKey ==
  /\ pc = "parse" /\ i <= Len(Order)
  /\ conversions' = IF Order[i] \in Rewritten(source)
                    THEN Append(conversions, Conversion(source, Order[i])) ELSE conversions
  /\ i' = i + 1
  /\ UNCHANGED <<run, settings, pc, done, failed, disk, pending, message>>

\* The settings as the whole loop leaves them; no key's rewriting affects another's.
Parsed ==
  /\ pc = "parse" /\ i > Len(Order)
  /\ settings' = Normalized(source)
  /\ i' = 1 /\ pc' = IF auto /\ conversions # <<>> THEN "stat" ELSE "report"
  /\ UNCHANGED <<run, conversions, done, failed, disk, pending, message>>

-----------------------------------------------------------------------------
(* The two commands of a conversion, whoever runs them.                    *)

Here == conversions[i]

Exists(path) == disk[path] # "none"

\* A Java store is what its name says.
Store(path) == IF path.ext = "jks" THEN "jks" ELSE "p12"

NokeysMutant(c) == FALSE

\* -nokeys: certificates only.
Nokeys(c) == c.kind = "truststore"

Pem(c) == IF Nokeys(c) THEN "certs" ELSE "key"

\* keytool -importkeystore: only a JKS needs it.
Imports(c) == c.fromType = "JKS"

Keytool(c) ==
  /\ Imports(c) /\ Exists(c.fromLoc)
  /\ disk' = [disk EXCEPT ![c.p12Loc] = "p12"]

Openssl(c) ==
  /\ disk[c.p12Loc] \in {"jks", "p12"}
  /\ disk' = [disk EXCEPT ![c.toLoc] = Pem(c)]

\* openssl opens its output before it knows that it can read its input.
OpensslFails(c) == \E left \in {disk[c.toLoc], "empty"} : disk' = [disk EXCEPT ![c.toLoc] = left]

-----------------------------------------------------------------------------
(* --auto: convertOneKeystore for each conversion.                         *)

ToNext ==
  IF i < Len(conversions) THEN i' = i + 1 /\ pc' = "stat" ELSE i' = 1 /\ pc' = "report"

NotConverted == failed' = failed \cup {i} /\ ToNext /\ UNCHANGED done

\* The Java store is not on this host.
AutoSkip ==
  /\ pc = "stat" /\ ~Exists(Here.fromLoc) /\ ToNext
  /\ UNCHANGED <<run, conversions, settings, done, failed, disk, pending, message>>

AutoStart ==
  /\ pc = "stat" /\ Exists(Here.fromLoc)
  /\ pc' = IF Imports(Here) THEN "keytool" ELSE "openssl"
  /\ UNCHANGED <<run, conversions, settings, i, done, failed, disk, pending, message>>

AutoKeytool ==
  /\ pc = "keytool"
  /\ \/ Keytool(Here) /\ pc' = "openssl" /\ UNCHANGED <<i, done, failed>>
     \/ NotConverted /\ UNCHANGED disk
  /\ UNCHANGED <<run, conversions, settings, pending, message>>

AutoOpenssl ==
  /\ pc = "openssl"
  /\ \/ Openssl(Here) /\ done' = done \cup {i} /\ ToNext /\ UNCHANGED failed
     \/ OpensslFails(Here) /\ NotConverted
  /\ UNCHANGED <<run, conversions, settings, pending, message>>

-----------------------------------------------------------------------------
(* The end of the run.                                                     *)

pemExistsMutant(path) == Exists(path)

pemExists(path) == disk[path] \notin {"none", "empty"}

PendingKeystores ==
  {j \in 1..Len(conversions) : j \notin done /\ ~pemExists(conversions[j].toLoc)}

\* A Java keystore whose type finds its location elsewhere is left to the operator.
Invalid ==
  \E k \in DOMAIN settings : /\ isKeystoreTypeKey(k) /\ isJavaKeystore(settings[k])
                             /\ keystoreLocation(settings, k) # Blank

Report ==
  /\ pc = "report" /\ pc' = "done"
  /\ pending' = PendingKeystores
  /\ message' = IF Invalid THEN "invalid" ELSE IF PendingKeystores # {} THEN "severe" ELSE "success"
  /\ UNCHANGED <<run, conversions, settings, i, done, failed, disk>>

-----------------------------------------------------------------------------
(* Between the runs: the operator follows the text of a conversion, one    *)
(* command at a time, brings a missing Java store to the host, and starts  *)
(* the tool again.                                                         *)

ByHand ==
  /\ pc = "done"
  /\ \E j \in 1..Len(conversions) :
       Keytool(conversions[j]) \/ Openssl(conversions[j]) \/ OpensslFails(conversions[j])
  /\ UNCHANGED <<run, conversions, settings, pc, i, done, failed, pending, message>>

Deliver ==
  /\ pc = "done"
  /\ \E j \in 1..Len(conversions) :
       LET loc == conversions[j].fromLoc
       IN ~Exists(loc) /\ disk' = [disk EXCEPT ![loc] = Store(loc)]
  /\ UNCHANGED <<run, conversions, settings, pc, i, done, failed, pending, message>>

Rerun(file, own) ==
  /\ pc = "done" /\ runs < MaxRuns
  /\ runs' = runs + 1 /\ source' = file /\ generated' = own /\ auto' \in BOOLEAN
  /\ pc' = "parse" /\ done' = {} /\ failed' = {} /\ pending' = {} /\ message' = "none"
  /\ conversions' = <<>> /\ i' = 1
  /\ UNCHANGED <<settings, disk>>

RerunSame == Rerun(source, generated)

\* The command the INVALID report and the guide suggest: the tool over its output.
RerunGenerated == ~generated /\ message # "invalid" /\ Rerun(settings, TRUE)

Init ==
  /\ source \in Files /\ generated = FALSE /\ auto \in BOOLEAN
  /\ conversions = <<>> /\ settings = <<>>
  /\ pc = "parse" /\ i = 1 /\ done = {} /\ failed = {}
  /\ \E named \in SUBSET {c.fromLoc : c \in Conversions(source)}, old \in OldPems :
       disk = [p \in Paths |-> IF p \in named THEN Store(p)
                               ELSE IF p.ext = "pem" THEN old ELSE "none"]
  /\ pending = {} /\ message = "none" /\ runs = 1

Next ==
  \/ ParseKey \/ Parsed \/ AutoSkip \/ AutoStart \/ AutoKeytool \/ AutoOpenssl \/ Report
  \/ ByHand \/ Deliver \/ RerunSame \/ RerunGenerated

Spec == Init /\ [][Next]_vars

-----------------------------------------------------------------------------
(* Properties.                                                             *)

\* The variables have their types.
TypeOK ==
  /\ generated \in BOOLEAN /\ auto \in BOOLEAN /\ runs \in 1..MaxRuns
  /\ pc \in {"parse", "stat", "keytool", "openssl", "report", "done"} /\ i \in Nat \ {0}
  /\ \A set \in {done, failed, pending} : set \subseteq 1..Len(conversions)
  /\ \A j \in 1..Len(conversions) :
       /\ {conversions[j].fromLoc, conversions[j].p12Loc, conversions[j].toLoc} \subseteq Paths
       /\ isJavaKeystore(conversions[j].fromType)
  /\ disk \in [Paths -> {"none", "empty", "jks", "p12", "key", "certs"}]
  /\ message \in {"none", "invalid", "severe", "success"}

AtEnd == pc = "done" /\ message # "none"

\* The moment a run says that all is processed, every keystore its parse rewrote
\* has a .pem with something in it (main.go 449-452, keystore.go 121-125): Done of
\* one conversion is not undone by the commands of a later one.
SuccessHasEveryPem ==
  [][pc = "report" /\ message' = "success" =>
       \A j \in 1..Len(conversions) : disk[conversions[j].toLoc] \notin {"none", "empty"}]_vars

KindContent(c) == IF c.kind = "truststore" THEN "certs" ELSE "key"

\* A keystore whose .pem is no other's, and was not there before the first run, ends
\* up with what its kind asks for, whichever mixture of --auto passes and commands by
\* hand produced it.
PemFitsKind ==
  AtEnd /\ OldPems \subseteq {"none", "empty"} =>
    \A j \in 1..Len(conversions) :
      /\ \A l \in 1..Len(conversions) : conversions[l].toLoc = conversions[j].toLoc => l = j
      /\ disk[conversions[j].toLoc] \in {"key", "certs"}
      => disk[conversions[j].toLoc] = KindContent(conversions[j])

\* A file of the tool's own has nothing left to rewrite.
SourceInv ==
  /\ IF generated THEN Rewritten(source) = {} ELSE source \in Files
  /\ \A k \in DOMAIN source : isKeystoreLocationKey(k) => source[k] \in Paths \cup {Blank}
  /\ pc # "parse" => settings = Normalized(source)

\* The list is the set of conversions of the source, as far as the loop has come.
Seen == IF pc = "parse" THEN {Order[j] : j \in 1..(i - 1)} ELSE {Order[j] : j \in 1..Len(Order)}

ParseInv ==
  /\ conversions \in Seq(Conversions(source))
  /\ {conversions[j] : j \in 1..Len(conversions)}
       = {Conversion(source, k) : k \in Rewritten(source) \cap Seen}
  /\ pc = "parse" => i <= Len(Order) + 1 /\ done = {} /\ failed = {} /\ pending = {}
  /\ pc \in {"stat", "keytool", "openssl"} => i <= Len(conversions)
  /\ pc \in {"report", "done"} => i = 1

\* A conversion marked Done has its .pem unless a later one, with the same .pem,
\* failed; that one is not marked.
DoneInv ==
  /\ pc \in {"stat", "keytool", "openssl"} => done \subseteq 1..(i - 1)
  /\ pc \in {"stat", "keytool", "openssl", "report"} =>
       \A j \in done :
         \/ pemExists(conversions[j].toLoc)
         \/ \E l \in 1..Len(conversions) \ done :
              /\ conversions[l].toLoc = conversions[j].toLoc
              /\ pc # "report" => l < i

\* PemFitsKind, at every moment.
PemsInv ==
  OldPems \subseteq {"none", "empty"} =>
    \A c \in Conversions(source) :
      /\ \A d \in Conversions(source) : d.toLoc = c.toLoc => d = c
      /\ disk[c.toLoc] \in {"key", "certs"}
      => disk[c.toLoc] = KindContent(c)

\* The inductive invariant behind PemFitsKind and SuccessHasEveryPem.
KeystoresInv == TypeOK /\ SourceInv /\ ParseInv /\ DoneInv /\ PemsInv /\ PemFitsKind

-----------------------------------------------------------------------------
(* What the comments say and the code does not do.                         *)

\* "Creating that .pem is a separate step, and until it is done the configuration
\* will not run. The tool is explicit about it" (getting-started.md 2755-2756):
\* no success while a .pem is missing, also when the file is the tool's own
\* output, of which the parse records no conversion.
SuccessMeansRunnable ==
  [][pc = "report" /\ message' = "success" =>
       \A k \in DOMAIN settings :
         isKeystoreLocationKey(k) /\ settings[k].ext = "pem" => pemExists(settings[k])]_vars

\* "keystore (key + chain)" (keystore.go 32): the .pem of a keystore has a key.
KeystorePemHasKey ==
  [][pc = "report" /\ message' = "success" =>
       \A j \in 1..Len(conversions) :
         conversions[j].kind = "keystore" => disk[conversions[j].toLoc] # "certs"]_vars

\* "every keystore it could not convert is warned about here and again in the
\* SEVERE WARNING at the end of the run -- nothing fails silently" (auto.go 25-27).
AutoFailuresWarnedAgain == AtEnd => failed \subseteq pending
=============================================================================
