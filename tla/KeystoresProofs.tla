---------------------------- MODULE KeystoresProofs ----------------------------
(* What holds of the keystores of a broker and of the files their           *)
(* conversion leaves, for any file, any number of runs and any failures.    *)
EXTENDS Keystores, SequenceTheorems, TLAPS

-----------------------------------------------------------------------------
(* The rewriting.                                                          *)

LocationsTyped(s) ==
  \A k \in DOMAIN s : isKeystoreLocationKey(k) => s[k] \in Paths \cup {Blank}

\* A key is not the type of one keystore and the location of another.
LEMMA KeysApart ==
  ASSUME NEW k, isKeystoreTypeKey(k)
  PROVE  ~isKeystoreLocationKey(k) /\ isKeystoreLocationKey(keystoreLocationKey(k))
BY DEF isKeystoreTypeKey, isKeystoreLocationKey, keystoreLocationKey, TypeBases, LocationBases

\* A name with an extension of the tool's is a path.
LEMMA RenamedPath ==
  ASSUME NEW p \in Paths, NEW ext \in {"p12", "pem"}
  PROVE  WithExt(p, ext) \in Paths
BY DEF WithExt, Paths

\* What is rewritten names a Java store.
LEMMA RewrittenTyped ==
  ASSUME NEW s, LocationsTyped(s), NEW k \in Rewritten(s)
  PROVE  /\ k \in DOMAIN s /\ isKeystoreTypeKey(k) /\ isJavaKeystore(s[k])
         /\ keystoreLocationKey(k) \in DOMAIN s /\ s[keystoreLocationKey(k)] \in Paths
<1>1. k \in DOMAIN s /\ isKeystoreTypeKey(k) /\ isJavaKeystore(s[k])
  BY DEF Rewritten
<1>2. keystoreLocationKey(k) \in DOMAIN s /\ s[keystoreLocationKey(k)] # Blank
  BY DEF Rewritten, Setting
<1>3. isKeystoreLocationKey(keystoreLocationKey(k))
  BY <1>1, KeysApart
<1>4. QED
  BY <1>1, <1>2, <1>3 DEF LocationsTyped

\* The files of a conversion are paths, and what it converts is a Java store.
LEMMA ConversionTyped ==
  ASSUME NEW s, LocationsTyped(s), NEW c \in Conversions(s)
  PROVE  {c.fromLoc, c.p12Loc, c.toLoc} \subseteq Paths /\ isJavaKeystore(c.fromType)
<1>1. PICK k \in Rewritten(s) : c = Conversion(s, k)
  BY DEF Conversions
<1>2. s[keystoreLocationKey(k)] \in Paths /\ isJavaKeystore(s[k])
  BY RewrittenTyped
<1>3. /\ WithExt(s[keystoreLocationKey(k)], "p12") \in Paths
      /\ WithExt(s[keystoreLocationKey(k)], "pem") \in Paths
  BY <1>2, RenamedPath
<1>4. QED
  BY <1>1, <1>2, <1>3 DEF Conversion

\* Rewriting settings leaves nothing to rewrite: the tool's own output has no
\* conversions.
LEMMA RewritingSettles ==
  ASSUME NEW s, LocationsTyped(s)
  PROVE  LocationsTyped(Normalized(s)) /\ Rewritten(Normalized(s)) = {}
<1> DEFINE written == Normalized(s)
<1>1. DOMAIN written = DOMAIN s
  BY DEF Normalized
<1>2. ASSUME NEW k \in DOMAIN s
      PROVE  /\ k \in Rewritten(s) => written[k] = "PEM"
             /\ k \notin Rewritten(s) =>
                  \/ \E t \in Rewritten(s) : /\ keystoreLocationKey(t) = k
                                             /\ written[k] = WithExt(s[k], "pem")
                  \/ /\ \A t \in Rewritten(s) : keystoreLocationKey(t) # k
                     /\ written[k] = s[k]
  BY DEF Normalized
<1> HIDE DEF written
<1>3. ASSUME NEW k \in DOMAIN s, isKeystoreLocationKey(k)
      PROVE  written[k] \in Paths \cup {Blank}
  <2>1. k \notin Rewritten(s)
    BY <1>3, RewrittenTyped, KeysApart
  <2>2. CASE \E t \in Rewritten(s) : /\ keystoreLocationKey(t) = k
                                     /\ written[k] = WithExt(s[k], "pem")
    BY <2>2, RewrittenTyped, RenamedPath
  <2>3. CASE written[k] = s[k]
    BY <1>3, <2>3 DEF LocationsTyped
  <2>4. QED
    BY <1>2, <2>1, <2>2, <2>3
<1>4. ASSUME NEW k \in Rewritten(written)
      PROVE  FALSE
  <2>1. /\ k \in DOMAIN s /\ isKeystoreTypeKey(k) /\ isJavaKeystore(written[k])
        /\ Setting(written, keystoreLocationKey(k)) # Blank
    BY <1>1 DEF Rewritten
  <2>2. k \notin Rewritten(s)
    BY <1>2, <2>1 DEF isJavaKeystore
  <2>3. \A t \in Rewritten(s) : keystoreLocationKey(t) # k
    BY <2>1, RewrittenTyped, KeysApart
  <2>4. isJavaKeystore(s[k])
    BY <1>2, <2>1, <2>2, <2>3
  <2>5. Setting(s, keystoreLocationKey(k)) = Blank
    BY <2>1, <2>2, <2>4 DEF Rewritten
  <2>6. keystoreLocationKey(k) \in DOMAIN s
    BY <1>1, <2>1 DEF Setting
  <2>7. s[keystoreLocationKey(k)] = Blank /\ written[keystoreLocationKey(k)] # Blank
    BY <1>1, <2>1, <2>5, <2>6 DEF Setting
  <2>8. isKeystoreLocationKey(keystoreLocationKey(k))
    BY <2>1, KeysApart
  <2>9. keystoreLocationKey(k) \notin Rewritten(s)
    BY <2>8, RewrittenTyped, KeysApart
  <2>10. PICK t \in Rewritten(s) : keystoreLocationKey(t) = keystoreLocationKey(k)
    BY <1>2, <2>6, <2>7, <2>9
  <2>11. Setting(s, keystoreLocationKey(t)) # Blank
    BY DEF Rewritten
  <2>12. QED
    BY <2>5, <2>10, <2>11
<1>5. QED
  BY <1>1, <1>3, <1>4 DEF LocationsTyped, written

-----------------------------------------------------------------------------
(* The list of conversions.                                                *)

\* What a list holds after an append.
LEMMA Appended ==
  ASSUME NEW S, NEW list \in Seq(S), NEW x \in S
  PROVE  /\ Append(list, x) \in Seq(S) /\ Len(list) \in Nat
         /\ Len(Append(list, x)) = Len(list) + 1
         /\ \A k \in 1..Len(list) : Append(list, x)[k] = list[k]
         /\ Append(list, x)[Len(list) + 1] = x
OBVIOUS

LEMMA AppendedSet ==
  ASSUME NEW S, NEW list \in Seq(S), NEW x \in S
  PROVE  {Append(list, x)[k] : k \in 1..Len(Append(list, x))}
           = {list[k] : k \in 1..Len(list)} \cup {x}
<1> DEFINE longer == Append(list, x)
<1>1. /\ Len(list) \in Nat /\ Len(longer) = Len(list) + 1
      /\ \A k \in 1..Len(list) : longer[k] = list[k]
      /\ longer[Len(list) + 1] = x
  BY Appended
<1> HIDE DEF longer
<1>2. {longer[k] : k \in 1..Len(longer)} \subseteq {list[k] : k \in 1..Len(list)} \cup {x}
  BY <1>1
<1>3. {list[k] : k \in 1..Len(list)} \subseteq {longer[k] : k \in 1..Len(longer)}
  BY <1>1
<1>4. x \in {longer[k] : k \in 1..Len(longer)}
  BY <1>1
<1>5. QED
  BY <1>2, <1>3, <1>4 DEF longer

\* Everything but PemFitsKind, which follows.
Inductive == TypeOK /\ SourceInv /\ ParseInv /\ DoneInv /\ PemsInv

\* The elements of the list are conversions of the source.
LEMMA Listed ==
  ASSUME SourceInv, ParseInv
  PROVE  /\ LocationsTyped(source) /\ Len(conversions) \in Nat
         /\ \A j \in 1..Len(conversions) :
              /\ conversions[j] \in Conversions(source)
              /\ {conversions[j].fromLoc, conversions[j].p12Loc, conversions[j].toLoc} \subseteq Paths
              /\ isJavaKeystore(conversions[j].fromType)
<1>1. LocationsTyped(source)
  BY DEF SourceInv, LocationsTyped
<1>2. conversions \in Seq(Conversions(source))
  BY DEF ParseInv
<1>3. Len(conversions) \in Nat /\ \A j \in 1..Len(conversions) : conversions[j] \in Conversions(source)
  BY <1>2, ElementOfSeq, LenProperties
<1>4. QED
  BY <1>1, <1>3, ConversionTyped

\* The order of the file has every key that is rewritten.
LEMMA OrderCovers ==
  ASSUME SourceInv
  PROVE  Rewritten(source) \subseteq {Order[j] : j \in 1..Len(Order)}
<1>1. CASE generated
  BY <1>1 DEF SourceInv
<1>2. CASE ~generated
  <2>1. source \in Files
    BY <1>2 DEF SourceInv
  <2>2. \A k \in Rewritten(source) : \E j \in 1..Len(Order) : Order[j] = k
    BY <2>1, ConstantsAssumption DEF Rewritten
  <2>3. QED
    BY <2>2
<1>3. QED
  BY <1>1, <1>2

\* Once the source is parsed the list is all of its conversions.
LEMMA WholeList ==
  ASSUME SourceInv, ParseInv, pc # "parse" \/ i > Len(Order), i \in Nat
  PROVE  {conversions[j] : j \in 1..Len(conversions)} = Conversions(source)
<1>1. Len(Order) \in Nat
  BY ConstantsAssumption, LenProperties
<1>2. pc = "parse" => i = Len(Order) + 1
  BY <1>1 DEF ParseInv
<1>3. Seen = {Order[j] : j \in 1..Len(Order)}
  BY <1>1, <1>2 DEF Seen
<1>4. Rewritten(source) \cap Seen = Rewritten(source)
  BY <1>3, OrderCovers
<1>5. QED
  BY <1>4 DEF ParseInv, Conversions

-----------------------------------------------------------------------------
(* What the commands do to the disk.                                       *)

Contents == {"none", "empty", "jks", "p12", "key", "certs"}

\* A command of a conversion writes a file of the conversion's: whichever it is and
\* however it ends, a .pem of one keystore alone has what its kind asks for.
LEMMA CommandKeepsPems ==
  ASSUME TypeOK, SourceInv, ParseInv, PemsInv, UNCHANGED source, NEW j \in 1..Len(conversions),
         \/ Keytool(conversions[j])
         \/ Openssl(conversions[j])
         \/ OpensslFails(conversions[j])
  PROVE  disk' \in [Paths -> Contents] /\ PemsInv'
<1> DEFINE c == conversions[j]
<1>1. /\ LocationsTyped(source) /\ c \in Conversions(source)
      /\ c.p12Loc \in Paths /\ c.toLoc \in Paths
  BY Listed
<1>2. disk \in [Paths -> Contents]
  BY DEF TypeOK, Contents
<1>3. Pem(c) = KindContent(c) /\ Pem(c) \in Contents
  BY DEF Pem, Nokeys, KindContent, Contents
<1>4. Conversions(source)' = Conversions(source)
  BY DEF Conversions, Conversion, Rewritten, Setting
<1>5. \A d \in Conversions(source) : d.toLoc \in Paths
  BY <1>1, ConversionTyped
<1>6. ASSUME NEW path \in Paths, NEW content \in Contents,
             disk' = [disk EXCEPT ![path] = content],
             \/ content \notin {"key", "certs"} \/ content = disk[path]
             \/ path = c.toLoc /\ content = KindContent(c)
      PROVE  disk' \in [Paths -> Contents] /\ PemsInv'
  <2>1. disk' \in [Paths -> Contents]
    BY <1>2, <1>6
  <2>2. SUFFICES ASSUME OldPems \subseteq {"none", "empty"}, NEW d \in Conversions(source),
                        \A e \in Conversions(source) : e.toLoc = d.toLoc => e = d,
                        disk'[d.toLoc] \in {"key", "certs"}
                 PROVE  disk'[d.toLoc] = KindContent(d)
    BY <1>4, <2>1 DEF PemsInv, KindContent
  <2>3. disk[d.toLoc] \in {"key", "certs"} => disk[d.toLoc] = KindContent(d)
    BY <2>2 DEF PemsInv
  <2>4. CASE path # d.toLoc
    BY <1>2, <1>5, <1>6, <2>2, <2>3, <2>4
  <2>5. CASE path = d.toLoc
    <3>1. disk'[d.toLoc] = content
      BY <1>2, <1>6, <2>5
    <3>2. CASE content = disk[path]
      BY <2>2, <2>3, <2>5, <3>1, <3>2
    <3>3. CASE path = c.toLoc /\ content = KindContent(c)
      BY <1>1, <2>2, <2>5, <3>1, <3>3
    <3>4. QED
      BY <1>6, <2>2, <3>1, <3>2, <3>3
  <2>6. QED
    BY <2>4, <2>5
<1>7. CASE Keytool(c)
  BY <1>1, <1>6, <1>7 DEF Keytool, Contents
<1>8. CASE Openssl(c)
  BY <1>1, <1>3, <1>6, <1>8 DEF Openssl
<1>9. CASE OpensslFails(c)
  <2>1. PICK left \in {disk[c.toLoc], "empty"} : disk' = [disk EXCEPT ![c.toLoc] = left]
    BY <1>9 DEF OpensslFails
  <2>2. left \in Contents
    BY <1>1, <1>2, <2>1 DEF Contents
  <2>3. QED
    BY <1>1, <1>6, <2>1, <2>2
<1>10. QED
  BY <1>7, <1>8, <1>9

-----------------------------------------------------------------------------
(* The steps.                                                              *)

LEMMA InitKeystores == Init => Inductive
<1> SUFFICES ASSUME Init PROVE Inductive
  OBVIOUS
<1> USE DEF Init
<1>1. LocationsTyped(source)
  BY ConstantsAssumption DEF LocationsTyped
<1>2. \A c \in Conversions(source) : c.toLoc \in Paths
  BY <1>1, ConversionTyped
<1>3. PICK named \in SUBSET {c.fromLoc : c \in Conversions(source)}, old \in OldPems :
        disk = [p \in Paths |-> IF p \in named THEN Store(p)
                                ELSE IF p.ext = "pem" THEN old ELSE "none"]
  OBVIOUS
<1>4. \A p \in Paths : disk[p] \in {"jks", "p12", old, "none"}
  BY <1>3 DEF Store
<1>5. disk \in [Paths -> Contents]
  BY <1>3, <1>4, ConstantsAssumption DEF Contents
<1>6. PemsInv
  BY <1>2, <1>4 DEF PemsInv
<1>7. Len(conversions) = 0
  OBVIOUS
<1>8. TypeOK
  <2>1. runs \in 1..MaxRuns
    BY ConstantsAssumption
  <2>2. /\ \A set \in {done, failed, pending} : set = {}
        /\ \A j \in 1..Len(conversions) : FALSE
    BY <1>7
  <2>3. generated \in BOOLEAN /\ auto \in BOOLEAN
    OBVIOUS
  <2>4. /\ \A set \in {done, failed, pending} : set \subseteq 1..Len(conversions)
        /\ \A j \in 1..Len(conversions) :
             /\ {conversions[j].fromLoc, conversions[j].p12Loc, conversions[j].toLoc} \subseteq Paths
             /\ isJavaKeystore(conversions[j].fromType)
    BY <2>2
  <2>5. /\ pc \in {"parse", "stat", "keytool", "openssl", "report", "done"} /\ i \in Nat \ {0}
        /\ message \in {"none", "invalid", "severe", "success"}
    OBVIOUS
  <2>6. QED
    BY <1>5, <2>1, <2>3, <2>4, <2>5 DEF TypeOK, Contents
<1>9. SourceInv
  BY <1>1 DEF SourceInv, LocationsTyped
<1>10. ParseInv
  <2>1. conversions \in Seq(Conversions(source))
    OBVIOUS
  <2>2. Seen = {}
    BY DEF Seen
  <2>3. Len(Order) \in Nat
    BY ConstantsAssumption, LenProperties
  <2>4. {conversions[j] : j \in 1..Len(conversions)} = {}
    BY <1>7
  <2>5. QED
    BY <2>1, <2>2, <2>3, <2>4 DEF ParseInv
<1>11. DoneInv
  BY DEF DoneInv
<1>12. QED
  BY <1>6, <1>8, <1>9, <1>10, <1>11 DEF Inductive

LEMMA ParseKeyStep == Inductive /\ ParseKey => Inductive'
<1> SUFFICES ASSUME Inductive, ParseKey PROVE Inductive'
  OBVIOUS
<1> USE DEF Inductive, ParseKey, run
<1>1. i \in Nat \ {0} /\ Len(Order) \in Nat /\ i \in 1..Len(Order)
  BY ConstantsAssumption, LenProperties DEF TypeOK
<1>2. Conversions(source)' = Conversions(source) /\ Rewritten(source)' = Rewritten(source)
  BY DEF Conversions, Conversion, Rewritten, Setting
<1>3. conversions \in Seq(Conversions(source))
  BY DEF ParseInv
<1>4. Seen' = Seen \cup {Order[i]}
  BY <1>1 DEF Seen
<1>5. /\ conversions' \in Seq(Conversions(source))
      /\ {conversions'[j] : j \in 1..Len(conversions')}
           = {Conversion(source, k) : k \in Rewritten(source) \cap Seen'}
  <2>1. {conversions[j] : j \in 1..Len(conversions)}
          = {Conversion(source, k) : k \in Rewritten(source) \cap Seen}
    BY DEF ParseInv
  <2>2. CASE Order[i] \in Rewritten(source)
    <3>1. Conversion(source, Order[i]) \in Conversions(source)
      BY <2>2 DEF Conversions
    <3>2. conversions' = Append(conversions, Conversion(source, Order[i]))
      BY <2>2
    <3>3. conversions' \in Seq(Conversions(source))
      BY <1>3, <3>1, <3>2, Appended
    <3>4. {conversions'[j] : j \in 1..Len(conversions')}
            = {conversions[j] : j \in 1..Len(conversions)} \cup {Conversion(source, Order[i])}
      BY <1>3, <3>1, <3>2, AppendedSet
    <3>5. {Conversion(source, k) : k \in Rewritten(source) \cap Seen'}
            = {Conversion(source, k) : k \in Rewritten(source) \cap Seen}
                \cup {Conversion(source, Order[i])}
      BY <1>4, <2>2
    <3>6. QED
      BY <2>1, <3>3, <3>4, <3>5
  <2>3. CASE Order[i] \notin Rewritten(source)
    BY <1>3, <1>4, <2>1, <2>3
  <2>4. QED
    BY <2>2, <2>3
<1>6. ParseInv'
  <2>1. {Conversion(source, k) : k \in Rewritten(source) \cap Seen'}
          = {Conversion(source, k) : k \in Rewritten(source) \cap Seen}'
    BY <1>2 DEF Conversion
  <2>2. i' <= Len(Order) + 1
    BY <1>1
  <2>3. QED
    BY <1>2, <1>5, <2>1, <2>2 DEF ParseInv
<1>7. SourceInv'
  BY <1>2 DEF SourceInv
<1>8. PemsInv'
  BY <1>2 DEF PemsInv, KindContent
<1>9. DoneInv'
  BY DEF DoneInv
<1>10. TypeOK'
  <2>1. /\ Len(conversions') \in Nat
        /\ \A j \in 1..Len(conversions') :
             /\ {conversions'[j].fromLoc, conversions'[j].p12Loc, conversions'[j].toLoc} \subseteq Paths
             /\ isJavaKeystore(conversions'[j].fromType)
    <3>1. LocationsTyped(source)
      BY Listed
    <3>2. Len(conversions') \in Nat /\ \A j \in 1..Len(conversions') : conversions'[j] \in Conversions(source)
      BY <1>5, ElementOfSeq, LenProperties
    <3>3. QED
      BY <3>1, <3>2, ConversionTyped
  <2>2. i' \in Nat \ {0}
    BY <1>1
  <2>3. done' = {} /\ failed' = {} /\ pending' = {}
    BY DEF ParseInv
  <2>4. QED
    BY <2>1, <2>2, <2>3 DEF TypeOK
<1>11. QED
  BY <1>6, <1>7, <1>8, <1>9, <1>10

LEMMA ParsedStep == Inductive /\ Parsed => Inductive'
<1> SUFFICES ASSUME Inductive, Parsed PROVE Inductive'
  OBVIOUS
<1> USE DEF Inductive, Parsed, run
<1>1. Conversions(source)' = Conversions(source) /\ Rewritten(source)' = Rewritten(source)
  BY DEF Conversions, Conversion, Rewritten, Setting
<1>2. i \in Nat \ {0}
  BY DEF TypeOK
<1>3. {conversions[j] : j \in 1..Len(conversions)} = Conversions(source)
  BY <1>2, WholeList
<1>4. Len(conversions) \in Nat /\ (conversions # <<>> => Len(conversions) >= 1)
  BY Listed, EmptySeq DEF ParseInv
<1>5. SourceInv'
  BY <1>1 DEF SourceInv, Normalized
<1>6. ParseInv'
  <2>1. Seen' = {Order[j] : j \in 1..Len(Order)}
    BY DEF Seen
  <2>2. Rewritten(source) \cap Seen' = Rewritten(source)
    BY <2>1, OrderCovers
  <2>3. {Conversion(source, k) : k \in Rewritten(source) \cap Seen}' = Conversions(source)
    BY <1>1, <2>2 DEF Conversions, Conversion
  <2>4. QED
    BY <1>1, <1>3, <1>4, <2>3 DEF ParseInv
<1>7. PemsInv'
  BY <1>1 DEF PemsInv, KindContent
<1>8. DoneInv'
  BY DEF DoneInv, ParseInv
<1>9. TypeOK'
  BY DEF TypeOK
<1>10. QED
  BY <1>5, <1>6, <1>7, <1>8, <1>9

\* What the steps of --auto leave alone keeps the parts of the invariant that are
\* not about the progress or the disk.
LEMMA AutoKeeps ==
  ASSUME Inductive, UNCHANGED <<run, conversions, settings>>, pc # "parse", pc' # "parse"
  PROVE  /\ SourceInv'
         /\ Conversions(source)' = Conversions(source)
         /\ conversions' \in Seq(Conversions(source)')
         /\ {conversions[j] : j \in 1..Len(conversions)}'
              = {Conversion(source, k) : k \in Rewritten(source) \cap Seen}'
         /\ UNCHANGED disk => PemsInv'
<1> USE DEF run
<1>1. Conversions(source)' = Conversions(source) /\ Rewritten(source)' = Rewritten(source)
  BY DEF Conversions, Conversion, Rewritten, Setting
<1>2. SourceInv'
  BY <1>1 DEF Inductive, SourceInv, Normalized
<1>3. Seen' = Seen
  BY DEF Seen
<1>4. {Conversion(source, k) : k \in Rewritten(source) \cap Seen}'
        = {Conversion(source, k) : k \in Rewritten(source) \cap Seen}
  BY <1>1, <1>3 DEF Conversion
<1>5. {conversions[j] : j \in 1..Len(conversions)}'
        = {conversions[j] : j \in 1..Len(conversions)}
  OBVIOUS
<1>6. UNCHANGED disk => PemsInv'
  BY <1>1 DEF Inductive, PemsInv, KindContent
<1>7. QED
  BY <1>1, <1>2, <1>4, <1>5, <1>6 DEF Inductive, ParseInv

\* What lies before a place of the list lies before any later one.
LEMMA StaysBelow ==
  ASSUME NEW a \in Nat, NEW b \in Nat, a <= b, NEW S, S \subseteq 1..(a - 1)
  PROVE  S \subseteq 1..(b - 1)
OBVIOUS

\* The next conversion, or the report.
LEMMA NextTurn ==
  ASSUME TypeOK, ParseInv, pc \in {"stat", "keytool", "openssl"}, Len(conversions) \in Nat, ToNext
  PROVE  /\ i \in 1..Len(conversions) /\ i' \in Nat \ {0} /\ pc' \in {"stat", "report"}
         /\ pc' = "stat" => i' = i + 1 /\ i' <= Len(conversions)
         /\ pc' = "report" => i' = 1
BY DEF TypeOK, ParseInv, ToNext

LEMMA StatStep == Inductive /\ (AutoSkip \/ AutoStart) => Inductive'
<1> SUFFICES ASSUME Inductive, AutoSkip \/ AutoStart PROVE Inductive'
  OBVIOUS
<1>1. /\ UNCHANGED <<run, conversions, settings, done, failed, disk, pending, message>>
      /\ pc = "stat"
      /\ \/ ToNext
         \/ i' = i /\ pc' \in {"keytool", "openssl"}
  BY DEF AutoSkip, AutoStart
<1>2. Len(conversions) \in Nat
  BY Listed DEF Inductive
<1>3. /\ i \in 1..Len(conversions) /\ i' \in Nat \ {0} /\ pc' \in {"stat", "keytool", "openssl", "report"}
      /\ pc' \in {"stat", "keytool", "openssl"} => i <= i' /\ i' <= Len(conversions)
      /\ pc' = "report" => i' = 1
  <2>1. CASE ToNext
    BY <1>1, <1>2, <2>1, NextTurn DEF Inductive
  <2>2. CASE i' = i /\ pc' \in {"keytool", "openssl"}
    BY <1>1, <1>2, <2>2 DEF Inductive, TypeOK, ParseInv
  <2>3. QED
    BY <1>1, <2>1, <2>2
<1>4. /\ SourceInv' /\ PemsInv'
      /\ conversions' \in Seq(Conversions(source)')
      /\ {conversions[j] : j \in 1..Len(conversions)}'
           = {Conversion(source, k) : k \in Rewritten(source) \cap Seen}'
  BY <1>1, <1>3, AutoKeeps
<1>5. ParseInv'
  BY <1>1, <1>3, <1>4 DEF ParseInv
<1>6. DoneInv'
  <2>1. done \subseteq 1..(i - 1)
    BY <1>1 DEF Inductive, DoneInv
  <2>2. ASSUME pc' # "report"
        PROVE  done' \subseteq 1..(i' - 1)
    <3>1. i \in Nat /\ i' \in Nat /\ i <= i'
      BY <1>1, <1>2, <1>3, <2>2
    <3>2. QED
      BY <1>1, <2>1, <3>1, StaysBelow
  <2>3. ASSUME NEW j \in done
        PROVE  \/ pemExists(conversions[j].toLoc)'
               \/ \E l \in 1..Len(conversions') \ done' :
                    /\ conversions'[l].toLoc = conversions'[j].toLoc
                    /\ pc' # "report" => l < i'
    <3>1. CASE pemExists(conversions[j].toLoc)
      BY <1>1, <3>1 DEF pemExists
    <3>2. CASE \E l \in 1..Len(conversions) \ done :
                 conversions[l].toLoc = conversions[j].toLoc /\ l < i
      BY <1>1, <1>2, <1>3, <3>2
    <3>3. QED
      BY <1>1, <3>1, <3>2 DEF Inductive, DoneInv
  <2>4. QED
    BY <1>1, <2>2, <2>3 DEF DoneInv
<1>7. TypeOK'
  BY <1>1, <1>3 DEF Inductive, TypeOK, run
<1>8. QED
  BY <1>4, <1>5, <1>6, <1>7 DEF Inductive

LEMMA KeytoolStep == Inductive /\ AutoKeytool => Inductive'
<1> SUFFICES ASSUME Inductive, AutoKeytool PROVE Inductive'
  OBVIOUS
<1>1. /\ UNCHANGED <<run, conversions, settings, pending, message, done>>
      /\ pc = "keytool"
  BY DEF AutoKeytool, NotConverted
<1>2. Len(conversions) \in Nat
  BY Listed DEF Inductive
<1>3. i \in 1..Len(conversions)
  BY <1>1, <1>2 DEF Inductive, TypeOK, ParseInv
<1>4. /\ failed' \subseteq 1..Len(conversions)
      /\ i' \in Nat \ {0} /\ pc' \in {"stat", "openssl", "report"}
      /\ pc' \in {"stat", "openssl"} => i <= i' /\ i' <= Len(conversions)
      /\ pc' = "report" => i' = 1
  <2>1. failed \subseteq 1..Len(conversions)
    BY DEF Inductive, TypeOK
  <2>2. CASE NotConverted
    BY <1>1, <1>2, <1>3, <2>1, <2>2, NextTurn DEF Inductive, NotConverted
  <2>3. CASE pc' = "openssl" /\ UNCHANGED <<i, failed>>
    BY <1>2, <1>3, <2>1, <2>3
  <2>4. QED
    BY <2>2, <2>3 DEF AutoKeytool
<1>5. disk' \in [Paths -> Contents] /\ PemsInv'
  <2>1. CASE Keytool(Here)
    BY <1>1, <1>3, <2>1, CommandKeepsPems DEF Inductive, Here, run
  <2>2. CASE UNCHANGED disk
    BY <1>1, <1>4, <2>2, AutoKeeps DEF Inductive, TypeOK, Contents
  <2>3. QED
    BY <2>1, <2>2 DEF AutoKeytool
<1>6. /\ SourceInv'
      /\ conversions' \in Seq(Conversions(source)')
      /\ {conversions[j] : j \in 1..Len(conversions)}'
           = {Conversion(source, k) : k \in Rewritten(source) \cap Seen}'
  BY <1>1, <1>4, AutoKeeps
<1>7. ParseInv'
  BY <1>1, <1>4, <1>6 DEF ParseInv
<1>8. DoneInv'
  <2>1. done \subseteq 1..(i - 1)
    BY <1>1 DEF Inductive, DoneInv
  <2>2. ASSUME pc' # "report"
        PROVE  done' \subseteq 1..(i' - 1)
    <3>1. i \in Nat /\ i' \in Nat /\ i <= i'
      BY <1>1, <1>2, <1>3, <1>4, <2>2
    <3>2. QED
      BY <1>1, <2>1, <3>1, StaysBelow
  <2>3. ASSUME NEW path \in Paths, pemExists(path)
        PROVE  pemExists(path)'
    <3>1. disk' = disk \/ disk' = [disk EXCEPT ![Here.p12Loc] = "p12"]
      BY DEF AutoKeytool, Keytool
    <3>2. QED
      BY <2>3, <3>1 DEF pemExists, Inductive, TypeOK
  <2>4. ASSUME NEW j \in done
        PROVE  \/ pemExists(conversions[j].toLoc)'
               \/ \E l \in 1..Len(conversions') \ done' :
                    /\ conversions'[l].toLoc = conversions'[j].toLoc
                    /\ pc' # "report" => l < i'
    <3>1. CASE pemExists(conversions[j].toLoc)
      <4>1. conversions[j].toLoc \in Paths
        BY Listed DEF Inductive, TypeOK
      <4>2. pemExists(conversions[j].toLoc)' <=> disk'[conversions[j].toLoc] \notin {"none", "empty"}
        BY <1>1 DEF pemExists
      <4>3. QED
        BY <2>3, <3>1, <4>1, <4>2 DEF pemExists
    <3>2. CASE \E l \in 1..Len(conversions) \ done :
                 conversions[l].toLoc = conversions[j].toLoc /\ l < i
      BY <1>1, <1>2, <1>3, <1>4, <3>2
    <3>3. QED
      BY <1>1, <3>1, <3>2 DEF Inductive, DoneInv
  <2>5. QED
    BY <1>1, <2>2, <2>4 DEF DoneInv
<1>9. TypeOK'
  BY <1>1, <1>4, <1>5 DEF Inductive, TypeOK, run, Contents
<1>10. QED
  BY <1>5, <1>6, <1>7, <1>8, <1>9 DEF Inductive

LEMMA OpensslStep == Inductive /\ AutoOpenssl => Inductive'
<1> SUFFICES ASSUME Inductive, AutoOpenssl PROVE Inductive'
  OBVIOUS
<1>1. /\ UNCHANGED <<run, conversions, settings, pending, message>>
      /\ pc = "openssl" /\ ToNext
      /\ \/ Openssl(Here) /\ done' = done \cup {i} /\ failed' = failed
         \/ OpensslFails(Here) /\ done' = done /\ failed' = failed \cup {i}
  BY DEF AutoOpenssl, NotConverted
<1>2. Len(conversions) \in Nat
  BY Listed DEF Inductive
<1>3. /\ i \in 1..Len(conversions) /\ i' \in Nat \ {0} /\ pc' \in {"stat", "report"}
      /\ pc' = "stat" => i' = i + 1 /\ i' <= Len(conversions)
      /\ pc' = "report" => i' = 1
  BY <1>1, <1>2, NextTurn DEF Inductive
<1>4. disk' \in [Paths -> Contents] /\ PemsInv'
  BY <1>1, <1>3, CommandKeepsPems DEF Inductive, Here, run
<1>5. /\ SourceInv'
      /\ conversions' \in Seq(Conversions(source)')
      /\ {conversions[j] : j \in 1..Len(conversions)}'
           = {Conversion(source, k) : k \in Rewritten(source) \cap Seen}'
  BY <1>1, <1>3, AutoKeeps
<1>6. ParseInv'
  BY <1>1, <1>3, <1>5 DEF ParseInv
<1>7. done \subseteq 1..(i - 1) /\ i \notin done
  <2>1. done \subseteq 1..(i - 1)
    BY <1>1 DEF Inductive, DoneInv
  <2>2. i \notin 1..(i - 1)
    BY <1>2, <1>3
  <2>3. QED
    BY <2>1, <2>2
<1>8. /\ done' \subseteq 1..Len(conversions) /\ failed' \subseteq 1..Len(conversions)
      /\ pending' \subseteq 1..Len(conversions)
  BY <1>1, <1>3 DEF Inductive, TypeOK
<1>9. ASSUME pc' # "report"
      PROVE  done' \subseteq 1..(i' - 1)
  <2>1. i \in Nat /\ i' = i + 1
    BY <1>2, <1>3, <1>9
  <2>2. 1..(i - 1) \subseteq 1..((i + 1) - 1) /\ i \in 1..((i + 1) - 1)
    BY <1>2, <1>3
  <2>3. done' \subseteq 1..((i + 1) - 1)
    BY <1>1, <1>7, <2>2
  <2>4. QED
    BY <2>1, <2>3
<1>10. ASSUME NEW j \in done'
       PROVE  \/ disk'[conversions[j].toLoc] \notin {"none", "empty"}
              \/ \E l \in 1..Len(conversions) \ done' :
                   conversions[l].toLoc = conversions[j].toLoc /\ l <= i
  <2>1. /\ conversions[i].toLoc \in Paths /\ j \in 1..Len(conversions)
        /\ conversions[j].toLoc \in Paths /\ disk \in [Paths -> Contents]
    BY <1>3, <1>8, Listed DEF Inductive, TypeOK, Contents
  <2>2. CASE conversions[j].toLoc = conversions[i].toLoc /\ Openssl(Here)
    <3>1. disk' = [disk EXCEPT ![conversions[i].toLoc] = Pem(conversions[i])]
      BY <2>2 DEF Openssl, Here
    <3>2. Pem(conversions[i]) \in {"certs", "key"}
      BY DEF Pem
    <3>3. QED
      BY <2>1, <2>2, <3>1, <3>2
  <2>3. CASE conversions[j].toLoc = conversions[i].toLoc /\ done' = done
    BY <1>2, <1>3, <1>7, <2>3
  <2>4. CASE conversions[j].toLoc # conversions[i].toLoc
    <3>1. j \in done
      BY <1>1, <2>4
    <3>2. disk'[conversions[j].toLoc] = disk[conversions[j].toLoc]
      BY <1>1, <2>1, <2>4 DEF Openssl, OpensslFails, Here
    <3>3. CASE pemExists(conversions[j].toLoc)
      BY <3>2, <3>3 DEF pemExists
    <3>4. CASE \E l \in 1..Len(conversions) \ done :
                 conversions[l].toLoc = conversions[j].toLoc /\ l < i
      <4>1. PICK l \in 1..Len(conversions) \ done :
                   conversions[l].toLoc = conversions[j].toLoc /\ l < i
        BY <3>4
      <4>2. l \notin done' /\ l <= i
        BY <1>1, <1>2, <1>3, <4>1
      <4>3. QED
        BY <4>1, <4>2
    <3>5. QED
      BY <1>1, <3>1, <3>3, <3>4 DEF Inductive, DoneInv
  <2>5. QED
    BY <1>1, <2>2, <2>3, <2>4
<1>11. DoneInv'
  <2>1. ASSUME NEW j \in done'
        PROVE  \/ pemExists(conversions[j].toLoc)'
               \/ \E l \in 1..Len(conversions') \ done' :
                    /\ conversions'[l].toLoc = conversions'[j].toLoc
                    /\ pc' # "report" => l < i'
    <3>1. CASE disk'[conversions[j].toLoc] \notin {"none", "empty"}
      BY <1>1, <3>1 DEF pemExists
    <3>2. CASE \E l \in 1..Len(conversions) \ done' :
                 conversions[l].toLoc = conversions[j].toLoc /\ l <= i
      BY <1>1, <1>2, <1>3, <3>2
    <3>3. QED
      BY <1>10, <3>1, <3>2
  <2>2. QED
    BY <1>1, <1>3, <1>9, <2>1 DEF DoneInv
<1>12. TypeOK'
  BY <1>1, <1>3, <1>4, <1>8 DEF Inductive, TypeOK, run, Contents
<1>13. QED
  BY <1>4, <1>5, <1>6, <1>11, <1>12 DEF Inductive

LEMMA ReportStep == Inductive /\ Report => Inductive'
<1> SUFFICES ASSUME Inductive, Report PROVE Inductive'
  OBVIOUS
<1>1. /\ UNCHANGED <<run, conversions, settings, i, done, failed, disk>>
      /\ pc = "report" /\ pc' = "done" /\ pending' = PendingKeystores
      /\ message' \in {"invalid", "severe", "success"}
  BY DEF Report
<1>2. /\ SourceInv' /\ PemsInv'
      /\ conversions' \in Seq(Conversions(source)')
      /\ {conversions[j] : j \in 1..Len(conversions)}'
           = {Conversion(source, k) : k \in Rewritten(source) \cap Seen}'
  BY <1>1, AutoKeeps
<1>3. ParseInv'
  BY <1>1, <1>2 DEF ParseInv, Inductive
<1>4. DoneInv'
  BY <1>1 DEF DoneInv
<1>5. TypeOK'
  <2>1. pending' \subseteq 1..Len(conversions)
    BY <1>1 DEF PendingKeystores
  <2>2. QED
    BY <1>1, <2>1 DEF Inductive, TypeOK, run
<1>6. QED
  BY <1>2, <1>3, <1>4, <1>5 DEF Inductive

\* After the run the operator changes the disk, and nothing else.
LEMMA OperatorStep == Inductive /\ (ByHand \/ Deliver) => Inductive'
<1> SUFFICES ASSUME Inductive, ByHand \/ Deliver PROVE Inductive'
  OBVIOUS
<1>1. /\ UNCHANGED <<run, conversions, settings, pc, i, done, failed, pending, message>>
      /\ pc = "done"
  BY DEF ByHand, Deliver
<1>2. /\ SourceInv' /\ Conversions(source)' = Conversions(source)
      /\ conversions' \in Seq(Conversions(source)')
      /\ {conversions[j] : j \in 1..Len(conversions)}'
           = {Conversion(source, k) : k \in Rewritten(source) \cap Seen}'
  BY <1>1, AutoKeeps
<1>3. disk' \in [Paths -> Contents] /\ PemsInv'
  <2>1. CASE ByHand
    BY <1>1, <2>1, CommandKeepsPems DEF ByHand, Inductive, run
  <2>2. CASE Deliver
    <3>1. PICK j \in 1..Len(conversions) :
                 disk' = [disk EXCEPT ![conversions[j].fromLoc] = Store(conversions[j].fromLoc)]
      BY <2>2 DEF Deliver
    <3>2. disk \in [Paths -> Contents] /\ conversions[j].fromLoc \in Paths
      BY Listed DEF Inductive, TypeOK, Contents
    <3>3. Store(conversions[j].fromLoc) \in {"jks", "p12"}
      BY DEF Store
    <3>4. disk' \in [Paths -> Contents]
      BY <3>1, <3>2, <3>3 DEF Contents
    <3>5. \A d \in Conversions(source) : d.toLoc \in Paths
      BY Listed, ConversionTyped DEF Inductive
    <3>6. \A d \in Conversions(source) :
            disk'[d.toLoc] \in {"key", "certs"} => disk'[d.toLoc] = disk[d.toLoc]
      BY <3>1, <3>2, <3>3, <3>5
    <3>7. PemsInv'
      BY <1>2, <3>6 DEF Inductive, PemsInv, KindContent
    <3>8. QED
      BY <3>4, <3>7
  <2>3. QED
    BY <2>1, <2>2
<1>4. ParseInv'
  BY <1>1, <1>2 DEF ParseInv, Inductive
<1>5. DoneInv'
  BY <1>1 DEF DoneInv
<1>6. TypeOK'
  BY <1>1, <1>3 DEF Inductive, TypeOK, run, Contents
<1>7. QED
  BY <1>2, <1>3, <1>4, <1>5, <1>6 DEF Inductive

\* A later run starts from the same file, or from the one the last run wrote.
LEMMA RerunStep == Inductive /\ (RerunSame \/ RerunGenerated) => Inductive'
<1> SUFFICES ASSUME Inductive, RerunSame \/ RerunGenerated PROVE Inductive'
  OBVIOUS
<1>1. /\ pc = "done" /\ runs < MaxRuns /\ runs' = runs + 1 /\ auto' \in BOOLEAN
      /\ pc' = "parse" /\ done' = {} /\ failed' = {} /\ pending' = {} /\ message' = "none"
      /\ conversions' = <<>> /\ i' = 1 /\ disk' = disk
  BY DEF RerunSame, RerunGenerated, Rerun
<1>2. LocationsTyped(source)
  BY Listed DEF Inductive
<1>3. \/ source' = source /\ generated' = generated
      \/ source' = Normalized(source) /\ generated' = TRUE
  BY <1>1 DEF RerunSame, RerunGenerated, Rerun, Inductive, SourceInv
<1>4. /\ IF generated' THEN Rewritten(source') = {} ELSE source' \in Files
      /\ LocationsTyped(source')
      /\ \/ Conversions(source') = Conversions(source)
         \/ Conversions(source') = {}
  <2>1. CASE source' = source /\ generated' = generated
    BY <1>2, <2>1 DEF Inductive, SourceInv
  <2>2. CASE source' = Normalized(source) /\ generated' = TRUE
    <3>1. Rewritten(source') = {} /\ LocationsTyped(source')
      BY <1>2, <2>2, RewritingSettles
    <3>2. Conversions(source') = {}
      BY <3>1 DEF Conversions
    <3>3. QED
      BY <2>2, <3>1, <3>2
  <2>3. QED
    BY <1>3, <2>1, <2>2
<1>5. SourceInv'
  BY <1>1, <1>4 DEF SourceInv, LocationsTyped
<1>6. PemsInv'
  <2>1. CASE Conversions(source') = Conversions(source)
    BY <1>1, <2>1 DEF Inductive, PemsInv, KindContent
  <2>2. CASE Conversions(source') = {}
    BY <2>2 DEF PemsInv
  <2>3. QED
    BY <1>4, <2>1, <2>2
<1>7. Len(conversions') = 0
  BY <1>1
<1>8. ParseInv'
  <2>1. conversions' \in Seq(Conversions(source'))
    BY <1>1
  <2>2. Seen' = {}
    BY <1>1 DEF Seen
  <2>3. Len(Order) \in Nat
    BY ConstantsAssumption, LenProperties
  <2>4. {conversions'[j] : j \in 1..Len(conversions')} = {}
    BY <1>7
  <2>5. {Conversion(source', k) : k \in Rewritten(source') \cap Seen'} = {}
    BY <2>2
  <2>6. QED
    BY <1>1, <2>1, <2>3, <2>4, <2>5 DEF ParseInv
<1>9. DoneInv'
  BY <1>1 DEF DoneInv
<1>10. TypeOK'
  <2>1. runs' \in 1..MaxRuns
    BY <1>1, ConstantsAssumption DEF Inductive, TypeOK
  <2>2. generated' \in BOOLEAN
    BY <1>3 DEF Inductive, TypeOK
  <2>3. disk' \in [Paths -> Contents]
    BY <1>1 DEF Inductive, TypeOK, Contents
  <2>4. /\ \A set \in {done', failed', pending'} : set \subseteq 1..Len(conversions')
        /\ \A j \in 1..Len(conversions') :
             /\ {conversions'[j].fromLoc, conversions'[j].p12Loc, conversions'[j].toLoc} \subseteq Paths
             /\ isJavaKeystore(conversions'[j].fromType)
    BY <1>1, <1>7
  <2>5. QED
    BY <1>1, <2>1, <2>2, <2>3, <2>4 DEF TypeOK, Contents
<1>11. QED
  BY <1>5, <1>6, <1>8, <1>9, <1>10 DEF Inductive

-----------------------------------------------------------------------------
(* The results.                                                            *)

LEMMA NextKeeps == Inductive /\ [Next]_vars => Inductive'
<1> SUFFICES ASSUME Inductive, [Next]_vars PROVE Inductive'
  OBVIOUS
<1>1. CASE UNCHANGED vars
  BY <1>1, SMTT(20) DEF vars, run, Inductive, TypeOK, SourceInv, ParseInv, DoneInv, PemsInv, Seen, Conversions,
              Conversion, Rewritten, Setting, Normalized, pemExists, KindContent
<1>2. CASE Next
  BY <1>2, ParseKeyStep, ParsedStep, StatStep, KeytoolStep, OpensslStep, ReportStep, OperatorStep,
     RerunStep DEF Next
<1>3. QED
  BY <1>1, <1>2

\* In every state of every run the list is the source's conversions, what is marked
\* Done has its .pem or shares it with one that failed, and a .pem that is one
\* keystore's alone has what its kind asks for.
THEOREM KeystoresInvariant == Spec => []KeystoresInv
<1>1. Inductive => KeystoresInv
  <2> SUFFICES ASSUME Inductive PROVE KeystoresInv
    OBVIOUS
  <2>1. PemFitsKind
    <3> SUFFICES ASSUME AtEnd, OldPems \subseteq {"none", "empty"}, NEW j \in 1..Len(conversions),
                        \A l \in 1..Len(conversions) :
                          conversions[l].toLoc = conversions[j].toLoc => l = j,
                        disk[conversions[j].toLoc] \in {"key", "certs"}
                 PROVE  disk[conversions[j].toLoc] = KindContent(conversions[j])
      BY DEF PemFitsKind
    <3>1. {conversions[l] : l \in 1..Len(conversions)} = Conversions(source)
      BY WholeList DEF Inductive, TypeOK, AtEnd
    <3>2. conversions[j] \in Conversions(source)
      BY <3>1
    <3>3. ASSUME NEW d \in Conversions(source), d.toLoc = conversions[j].toLoc
          PROVE  d = conversions[j]
      BY <3>1, <3>3
    <3>4. QED
      BY <3>2, <3>3 DEF Inductive, PemsInv
  <2>2. QED
    BY <2>1 DEF Inductive, KeystoresInv
<1>2. QED
  BY <1>1, InitKeystores, NextKeeps, PTL DEF Spec

\* The moment a run reports success every keystore its parse rewrote has a .pem with
\* something in it: of two conversions with one .pem, one that failed after the
\* other succeeded keeps the report from saying so (keystore.go 118-142).
THEOREM SuccessHasPems == Spec => SuccessHasEveryPem
<1>1. ASSUME Inductive, pc = "report" /\ message' = "success", Next
      PROVE  \A j \in 1..Len(conversions) : disk[conversions[j].toLoc] \notin {"none", "empty"}
  <2>1. PendingKeystores = {}
    <3>1. Report
      BY <1>1 DEF Next, ParseKey, Parsed, AutoSkip, AutoStart, AutoKeytool, AutoOpenssl, ByHand,
                  Deliver, RerunSame, RerunGenerated, Rerun
    <3>2. QED
      BY <1>1, <3>1 DEF Report
  <2>2. SUFFICES ASSUME NEW j \in 1..Len(conversions), ~pemExists(conversions[j].toLoc)
                 PROVE  FALSE
    BY DEF pemExists
  <2>3. j \in done
    BY <2>1, <2>2 DEF PendingKeystores
  <2>4. PICK l \in 1..Len(conversions) \ done : conversions[l].toLoc = conversions[j].toLoc
    BY <1>1, <2>2, <2>3 DEF Inductive, DoneInv
  <2>5. l \in PendingKeystores
    BY <2>2, <2>4 DEF PendingKeystores
  <2>6. QED
    BY <2>1, <2>5
<1>2. Inductive /\ [Next]_vars =>
        [pc = "report" /\ message' = "success" =>
           \A j \in 1..Len(conversions) : disk[conversions[j].toLoc] \notin {"none", "empty"}]_vars
  BY <1>1
<1>3. QED
  BY <1>2, InitKeystores, NextKeeps, PTL DEF Spec, SuccessHasEveryPem
=============================================================================
