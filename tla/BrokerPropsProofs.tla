-------------------------- MODULE BrokerPropsProofs --------------------------
(* What holds of one broker's output file, for any keys, files, listeners  *)
(* and number of runs.                                                     *)
EXTENDS BrokerProps, SequenceTheorems, TLAPS

-----------------------------------------------------------------------------
(* The tables.                                                             *)

\* No property that the list refuses is in a table of what is written.
LEMMA ListedApart ==
  ASSUME NEW base, ListedAs(base, Refusing)
  PROVE  base \notin section1Keys \cup section2Keys
<1> DEFINE Apart(section) ==
      \A p, d : <<p, d>> \in section /\ d \in Refusing => p \notin section1Keys \cup section2Keys
<1>1. Apart(ListenerLayout)
  BY DEF ListenerLayout, Says, Refusing, section1Keys, section2Keys
<1>2. Apart(TLS)
  BY DEF TLS, Says, Refusing, section1Keys, section2Keys
<1>3. Apart(SASL)
  BY DEF SASL, Says, Refusing, section1Keys, section2Keys
<1>4. Apart(OAuthBearer)
  BY DEF OAuthBearer, Says, Refusing, section1Keys, section2Keys
<1>5. Apart(Authorization)
  BY DEF Authorization, Says, Refusing, section1Keys, section2Keys
<1>6. Apart(ConnectionLimits)
  BY DEF ConnectionLimits, Says, Refusing, section1Keys, section2Keys
<1>7. Apart(DelegationTokens)
  BY DEF DelegationTokens, Says, Refusing, section1Keys, section2Keys
<1> HIDE DEF Apart
<1>8. Apart(propSections)
  <2>1. PICK d \in Refusing : <<base, d>> \in propSections
    BY DEF ListedAs
  <2>2. QED
    BY <1>1, <1>2, <1>3, <1>4, <1>5, <1>6, <1>7 DEF propSections, Apart
<1>9. QED
  BY <1>8 DEF ListedAs, Apart

\* A key that the tool takes is in its table.
LEMMA SupportedIsListed ==
  ASSUME NEW k, isSupportedBrokerProperty(k)
  PROVE  k[2] \in section1Keys \cup section2Keys
  BY DEF isSupportedBrokerProperty

\* What the server rejects at startup the tool does not take.
LEMMA RejectedIsUnsupported ==
  ASSUME NEW k, runtimeRejects(k)
  PROVE  ~isSupportedBrokerProperty(k)
<1>1. CASE k[2] \in section3Keys
  BY <1>1, SupportedIsListed DEF section1Keys, section2Keys, section3Keys, isSupportedBrokerProperty
<1>2. CASE k[2] \in perListenerReauth /\ k[1] = ""
  BY <1>2 DEF isSupportedBrokerProperty, perListenerReauth, isSecurityDomainKey, section1Keys
<1>3. CASE runtimeIsSecurityDomainKey(k[2]) /\ k[2] \notin runtimeSecurityWhitelist
  <2>1. k[2] \notin section1Keys
    BY <1>3 DEF runtimeSecurityWhitelist, section1Keys
  <2>2. CASE isSecurityDomainKey(k[2])
    BY <2>1, <2>2 DEF isSupportedBrokerProperty
  <2>3. CASE k[2] \in {"connections.max.reauth.ms", "oauth2.scope"}
    BY <1>3, <2>1, <2>3, SupportedIsListed DEF section2Keys, runtimeSecurityWhitelist
  <2>4. QED
    BY <1>3, <2>2, <2>3 DEF runtimeIsSecurityDomainKey
<1>4. QED
  BY <1>1, <1>2, <1>3 DEF runtimeRejects

\* The keys the tool asks about are of different kinds.
LEMMA KindsDiffer ==
  ASSUME NEW k
  PROVE  /\ isAuthorizerKey(k) =>
              ~isKeystoreTypeKey(k) /\ ~isMechanismsKey(k) /\ ~isKeystoreLocationKey(k)
         /\ isKeystoreTypeKey(k) => ~isMechanismsKey(k) /\ ~isKeystoreLocationKey(k)
         /\ isMechanismsKey(k) => ~isKeystoreLocationKey(k)
<1>1. isAuthorizerKey(k) => k[2] = "authorizer.class.name"
  <2>1. <<"", "authorizer.class.name">>[2] = "authorizer.class.name"
    OBVIOUS
  <2>2. QED
    BY <2>1 DEF isAuthorizerKey
<1>2. QED
  BY <1>1 DEF isKeystoreTypeKey, isMechanismsKey, isKeystoreLocationKey, TypeBases, LocationBases

\* Locations are taken, whatever the scope.
LEMMA LocationsSupported ==
  ASSUME NEW k, isKeystoreLocationKey(k)
  PROVE  isSupportedBrokerProperty(k) /\ ~runtimeRejects(k)
<1>1. isSupportedBrokerProperty(k)
  BY DEF isKeystoreLocationKey, LocationBases, isSupportedBrokerProperty, section1Keys,
         section3Keys, isSecurityDomainKey, perListenerReauth
<1>2. QED
  BY <1>1, RejectedIsUnsupported

\* The location key of a type.
LEMMA LocationKeys ==
  ASSUME NEW k, isKeystoreTypeKey(k)
  PROVE  /\ isKeystoreLocationKey(keystoreLocationKey(k))
         /\ isSupportedBrokerProperty(keystoreLocationKey(k))
         /\ keystoreLocationKey(k)[1] = k[1]
<1>1. \A base : <<k[1], base>>[1] = k[1] /\ <<k[1], base>>[2] = base
  OBVIOUS
<1>2. keystoreLocationKey(k)[1] = k[1] /\ keystoreLocationKey(k)[2] \in LocationBases
  BY <1>1 DEF keystoreLocationKey, LocationBases
<1>3. QED
  BY <1>2, LocationsSupported DEF isKeystoreLocationKey

\* A type finds a location exactly when one of the keys names one.
LEMMA LocationNamed ==
  ASSUME NEW f, NEW k
  PROVE  LET base == keystoreLocationKey(k)[2]
         IN keystoreLocation(f, k) # Blank <=>
              \/ Setting(f, keystoreLocationKey(k)) # Blank
              \/ k[1] # "" /\ Setting(f, <<"", base>>) # Blank
              \/ k[1] = "" /\ \E l \in DOMAIN f : l[1] # "" /\ l[2] = base /\ f[l] # Blank
<1> DEFINE base == keystoreLocationKey(k)[2]
           others == IF k[1] # "" THEN {<<"", base>>}
                     ELSE {l \in DOMAIN f : l[1] # "" /\ l[2] = base}
           named == {l \in others : Setting(f, l) # Blank}
<1>1. keystoreLocation(f, k) =
        IF Setting(f, keystoreLocationKey(k)) # Blank THEN Setting(f, keystoreLocationKey(k))
        ELSE IF named # {} THEN f[CHOOSE l \in named : TRUE]
        ELSE Blank
  BY DEF keystoreLocation
<1>2. named # {} => f[CHOOSE l \in named : TRUE] # Blank
  <2>1. \A l \in named : f[l] # Blank
    BY DEF Setting
  <2>2. QED
    BY <2>1
<1>3. keystoreLocation(f, k) # Blank <=> Setting(f, keystoreLocationKey(k)) # Blank \/ named # {}
  <2> HIDE DEF named
  <2>1. QED
    BY <1>1, <1>2
<1>4. CASE k[1] # ""
  BY <1>3, <1>4
<1>5. CASE k[1] = ""
  BY <1>3, <1>5 DEF Setting
<1>6. QED
  BY <1>4, <1>5

\* Being named does not get lost when more locations are named.
LEMMA LocationStaysNamed ==
  ASSUME NEW f, NEW g, NEW k, isKeystoreTypeKey(k), keystoreLocation(f, k) # Blank,
         \A l \in DOMAIN f : isKeystoreLocationKey(l) /\ f[l] # Blank =>
           l \in DOMAIN g /\ g[l] # Blank
  PROVE  keystoreLocation(g, k) # Blank
<1> DEFINE own == keystoreLocationKey(k)
           base == own[2]
<1>1. isKeystoreLocationKey(own) /\ base \in LocationBases
  BY LocationKeys DEF isKeystoreLocationKey
<1>2. \A l : l[2] = base => isKeystoreLocationKey(l)
  BY <1>1 DEF isKeystoreLocationKey
<1>3. \A l : isKeystoreLocationKey(l) /\ Setting(f, l) # Blank => Setting(g, l) # Blank
  BY DEF Setting
<1>4. isKeystoreLocationKey(<<"", base>>)
  <2>1. <<"", base>>[2] = base
    OBVIOUS
  <2>2. QED
    BY <1>2, <2>1
<1> HIDE DEF own, base
<1>5. CASE Setting(f, own) # Blank
  BY <1>1, <1>3, <1>5, LocationNamed DEF own
<1>6. CASE k[1] # "" /\ Setting(f, <<"", base>>) # Blank
  BY <1>3, <1>4, <1>6, LocationNamed DEF own, base
<1>7. CASE k[1] = "" /\ \E l \in DOMAIN f : l[1] # "" /\ l[2] = base /\ f[l] # Blank
  BY <1>2, <1>7, LocationNamed DEF own, base
<1>8. QED
  BY <1>5, <1>6, <1>7, LocationNamed DEF own, base

-----------------------------------------------------------------------------
(* What the parse makes of a file.                                         *)

\* The settings that are rewritten, and those that are not.
LEMMA NormalizedFacts ==
  ASSUME NEW f
  PROVE  /\ DOMAIN Normalized(f) = DOMAIN f
         /\ \A k \in Rewritten(f) : /\ k \in DOMAIN f /\ isKeystoreTypeKey(k)
                                    /\ Normalized(f)[k] = "PEM"
                                    /\ keystoreLocationKey(k) \in DOMAIN f
                                    /\ f[keystoreLocationKey(k)] # Blank
         /\ \A k \in DOMAIN f : k \notin Rewritten(f) /\ ~isKeystoreLocationKey(k)
                                  => Normalized(f)[k] = f[k]
         /\ Rewritten(f) = {} => \A k \in DOMAIN f : Normalized(f)[k] = f[k]
<1>1. \A k \in Rewritten(f) : isKeystoreLocationKey(keystoreLocationKey(k))
  BY LocationKeys DEF Rewritten
<1>2. QED
  BY <1>1 DEF Normalized, Rewritten, Setting

\* A rewritten location is one again.
LEMMA NormalizedLocations ==
  ASSUME NEW f, NEW k \in DOMAIN f, isKeystoreLocationKey(k), f[k] \in Locations \cup {Blank}
  PROVE  Normalized(f)[k] \in Locations \cup {Blank}
<1>1. k \notin Rewritten(f)
  BY KindsDiffer DEF Rewritten
<1>2. CASE \E t \in Rewritten(f) : keystoreLocationKey(t) = k
  <2>1. f[k] \in Locations
    BY <1>2, NormalizedFacts
  <2>2. WithExt(f[k], "pem") \in Locations
    BY <2>1 DEF WithExt, Locations
  <2>3. QED
    BY <1>1, <1>2, <2>2 DEF Normalized
<1>3. CASE ~ \E t \in Rewritten(f) : keystoreLocationKey(t) = k
  BY <1>1, <1>3 DEF Normalized
<1>4. QED
  BY <1>2, <1>3

\* The keys of the conversions.
LEMMA ConvertedKeys ==
  ASSUME NEW f, NEW k
  PROVE  (\E c \in Conversions(f) : k \in {c.typeKey, c.locKey}) <=>
           k \in Rewritten(f) \/ \E t \in Rewritten(f) : keystoreLocationKey(t) = k
<1>1. \A t : /\ Conversion(f, t).typeKey = t
             /\ Conversion(f, t).locKey = keystoreLocationKey(t)
  BY DEF Conversion
<1>2. QED
  BY <1>1 DEF Conversions

\* Java stores are converted or left to the operator: a converted key is refused for
\* no reason of its own.
LEMMA ConvertedNotRefused ==
  ASSUME WritingInv, pc # "parse", NEW k \in DOMAIN settings, Refused(k)
  PROVE  ~ \E c \in conversions : k \in {c.typeKey, c.locKey}
<1>1. settings = Normalized(source) /\ conversions = Conversions(source)
  BY DEF WritingInv
<1>2. ~ \E t \in Rewritten(source) : keystoreLocationKey(t) = k
  BY NormalizedFacts, LocationKeys, KindsDiffer DEF Refused
<1>3. k \notin Rewritten(source)
  <2>1. k \in Rewritten(source) => settings[k] = "PEM" /\ isKeystoreTypeKey(k)
    BY <1>1, NormalizedFacts
  <2>2. QED
    BY <2>1, KindsDiffer DEF Refused, isJavaKeystore
<1>4. QED
  BY <1>1, <1>2, <1>3, ConvertedKeys

-----------------------------------------------------------------------------
(* The three copies of the conditions.                                     *)

\* A block is written for what configStatus refuses.
LEMMA BlockForms ==
  ASSUME WritingInv, pc # "parse", NEW k \in DOMAIN settings
  PROVE  EmittedForm(k) = "block" <=> ~Inert(k) /\ Refused(k)
<1>1. Refused(k) => ~ \E c \in conversions : k \in {c.typeKey, c.locKey}
  BY ConvertedNotRefused
<1>2. QED
  BY <1>1, KindsDiffer DEF EmittedForm, Refused

\* So is what Summarize lists.
LEMMA SummarizedSame == Summarized = {k \in DOMAIN settings : Considered(k) /\ Refused(k)}
<1>1. \A k : (CASE isAuthorizerKey(k) -> ~recognizedAuthorizer(settings[k])
                [] isKeystoreTypeKey(k) -> isJavaKeystore(settings[k])
                [] isMechanismsKey(k) -> mechanismsUnservable(settings[k])
                [] OTHER -> FALSE) <=> Refused(k)
  BY KindsDiffer DEF Refused
<1>2. QED
  BY <1>1 DEF Summarized, Considered

\* What is written active is in use and needs nothing done.
LEMMA ActiveForms ==
  ASSUME WritingInv, pc # "parse", NEW k \in DOMAIN settings, EmittedForm(k) = "active"
  PROVE  ~Inert(k) /\ ~Refused(k)
<1>1. ~Inert(k)
  BY DEF EmittedForm
<1>2. QED
  BY <1>1, BlockForms

-----------------------------------------------------------------------------
(* The lines of the file.                                                  *)

\* A line tells its key, and is the line of that key.
LEMMA WrittenLines ==
  ASSUME WritingInv, NEW j \in 1..Len(written)
  PROVE  written[j].key \in DOMAIN settings /\ written[j] = Line(written[j].key)
<1>1. \A k : Line(k).key = k
  BY DEF Line
<1>2. written[j] \in {Line(k) : k \in DOMAIN settings}
  BY DEF WritingInv
<1>3. QED
  BY <1>1, <1>2

\* Its form and its value.
LEMMA LineFields ==
  ASSUME NEW k
  PROVE  /\ Line(k).form = IF isSupportedBrokerProperty(k) THEN EmittedForm(k) ELSE "unsupported"
         /\ EmittedForm(k) \in {"active", "comment", "block"}
         /\ Line(k).form = "active" => Line(k).value = EmittedValue(k)
<1>1. EmittedForm(k) \in {"active", "comment", "block"}
  BY DEF EmittedForm
<1>2. QED
  BY <1>1 DEF Line

\* At the end there is one line for each setting.
LEMMA EverySettingHasLine ==
  ASSUME WritingInv, pc \in {"report", "done"}, NEW k \in DOMAIN settings
  PROVE  \E j \in 1..Len(written) : written[j].key = k
  BY DEF WritingInv

\* The blocks of the file are what the status and the report speak of.
LEMMA BlocksAtEnd ==
  ASSUME WritingInv, pc \in {"report", "done"}
  PROVE  Blocks = {k \in DOMAIN settings : Considered(k) /\ Refused(k)}
<1>1. ASSUME NEW j \in 1..Len(written), written[j].form = "block"
      PROVE  /\ written[j].key \in DOMAIN settings
             /\ Considered(written[j].key) /\ Refused(written[j].key)
  <2>1. isSupportedBrokerProperty(written[j].key) /\ EmittedForm(written[j].key) = "block"
    BY <1>1, WrittenLines, LineFields
  <2>2. QED
    BY <1>1, <2>1, WrittenLines, BlockForms DEF Considered
<1>2. ASSUME NEW k \in DOMAIN settings, Considered(k), Refused(k)
      PROVE  k \in Blocks
  <2>1. PICK j \in 1..Len(written) : written[j].key = k
    BY EverySettingHasLine
  <2>2. written[j].form = "block"
    BY <1>2, <2>1, WrittenLines, LineFields, BlockForms DEF Considered
  <2>3. QED
    BY <2>1, <2>2 DEF Blocks
<1>3. QED
  BY <1>1, <1>2 DEF Blocks

\* The lines that the next run reads.
LEMMA ActiveAtEnd ==
  ASSUME WritingInv, pc \in {"report", "done"}
  PROVE  /\ DOMAIN Active =
              {k \in DOMAIN settings : isSupportedBrokerProperty(k) /\ EmittedForm(k) = "active"}
         /\ \A k \in DOMAIN Active : Active[k] = EmittedValue(k)
<1> DEFINE lines == {j \in 1..Len(written) : written[j].form = "active"}
<1>1. \A j \in lines : /\ written[j].key \in DOMAIN settings
                       /\ isSupportedBrokerProperty(written[j].key)
                       /\ EmittedForm(written[j].key) = "active"
                       /\ written[j].value = EmittedValue(written[j].key)
  BY WrittenLines, LineFields
<1>2. ASSUME NEW k \in DOMAIN settings, isSupportedBrokerProperty(k), EmittedForm(k) = "active"
      PROVE  \E j \in lines : written[j].key = k
  BY <1>2, EverySettingHasLine, WrittenLines, LineFields
<1>3. /\ DOMAIN Active = {written[j].key : j \in lines}
      /\ \A k \in DOMAIN Active : Active[k] = written[CHOOSE j \in lines : written[j].key = k].value
  BY DEF Active
<1> HIDE DEF lines
<1>4. \A k \in DOMAIN Active : Active[k] = EmittedValue(k)
  <2> SUFFICES ASSUME NEW k \in DOMAIN Active PROVE Active[k] = EmittedValue(k)
    OBVIOUS
  <2>1. \E j \in lines : written[j].key = k
    BY <1>3
  <2>2. QED
    BY <1>1, <1>3, <2>1
<1>5. QED
  BY <1>1, <1>2, <1>3, <1>4

-----------------------------------------------------------------------------
(* A file of the tool's own.                                               *)

\* What is written active is settled.
LEMMA ActiveIsSettled ==
  ASSUME WritingInv, SourceInv, pc \in {"report", "done"}
  PROVE  Settled(Active) /\ Located(Active)
<1>1. \A k \in DOMAIN Active : /\ k \in DOMAIN settings /\ isSupportedBrokerProperty(k)
                               /\ ~Inert(k) /\ ~Refused(k)
                               /\ Active[k] = EmittedValue(k)
  BY ActiveAtEnd, ActiveForms
<1>2. \A k \in DOMAIN Active : ~isAuthorizerKey(k) => Active[k] = settings[k]
  BY <1>1 DEF EmittedValue
<1>3. ASSUME NEW l \in DOMAIN settings, isKeystoreLocationKey(l)
      PROVE  l \in DOMAIN Active /\ Active[l] = settings[l]
  <2>1. EmittedForm(l) = "active"
    BY <1>3, KindsDiffer, LocationsSupported DEF EmittedForm, Inert
  <2>2. QED
    BY <1>2, <1>3, <2>1, ActiveAtEnd, LocationsSupported, KindsDiffer
<1>4. ASSUME NEW k \in DOMAIN Active, isKeystoreTypeKey(k)
      PROVE  ~isJavaKeystore(Active[k]) /\ keystoreLocation(Active, k) # Blank
  <2>1. keystoreLocation(settings, k) # Blank /\ ~isJavaKeystore(settings[k])
    BY <1>1, <1>4 DEF Inert, Refused
  <2>2. keystoreLocation(Active, k) # Blank
    <3>1. \A l \in DOMAIN settings : isKeystoreLocationKey(l) /\ settings[l] # Blank =>
             l \in DOMAIN Active /\ Active[l] # Blank
      BY <1>3
    <3>2. QED
      BY <1>4, <2>1, <3>1, LocationStaysNamed
  <2>3. QED
    BY <1>2, <1>4, <2>1, <2>2, KindsDiffer
<1>5. ASSUME NEW k \in DOMAIN Active, isMechanismsKey(k)
      PROVE  ~mechanismsUnservable(Active[k]) /\ saslInUse(k)
  BY <1>1, <1>2, <1>5, KindsDiffer DEF Inert, Refused
<1>6. \A k \in DOMAIN Active : isAuthorizerKey(k) => Active[k] = "KofAuthorizer"
  BY <1>1 DEF EmittedValue
<1>7. Settled(Active)
  BY <1>1, <1>4, <1>5, <1>6 DEF Settled
<1>8. ASSUME NEW k \in DOMAIN Active, isKeystoreLocationKey(k)
      PROVE  Active[k] \in Locations \cup {Blank}
  <2>1. settings = Normalized(source) /\ k \in DOMAIN source
    BY <1>1, <1>8, NormalizedFacts DEF WritingInv
  <2>2. QED
    BY <1>2, <1>8, <2>1, NormalizedLocations, KindsDiffer DEF SourceInv, Located
<1>9. QED
  BY <1>7, <1>8 DEF Located

\* It stays so under the edits that the blocks ask for.
LEMMA EditedIsSettled ==
  ASSUME NEW f, NEW g, Settled(f), Located(f), Advised(g)
  PROVE  Settled(Override(f, g)) /\ Located(Override(f, g))
<1> DEFINE h == Override(f, g)
<1>1. /\ DOMAIN h = DOMAIN f \cup DOMAIN g
      /\ \A k \in DOMAIN g : h[k] = g[k]
      /\ \A k \in DOMAIN f : k \notin DOMAIN g => h[k] = f[k]
  BY DEF Override
<1> HIDE DEF h
<1>2. \A l \in DOMAIN g : isKeystoreLocationKey(l) => g[l] \in Locations /\ g[l] # Blank
  BY ConstantsAssumption DEF Advised
<1>3. \A l \in DOMAIN f : isKeystoreLocationKey(l) /\ f[l] # Blank => l \in DOMAIN h /\ h[l] # Blank
  BY <1>1, <1>2
<1>4. ASSUME NEW k \in DOMAIN h, isKeystoreTypeKey(k)
      PROVE  ~isJavaKeystore(h[k]) /\ keystoreLocation(h, k) # Blank
  <2>1. CASE k \in DOMAIN g
    <3>1. keystoreLocationKey(k) \in DOMAIN g /\ h[k] = "PEM"
      BY <1>1, <1>4, <2>1 DEF Advised
    <3>2. h[keystoreLocationKey(k)] # Blank
      BY <1>1, <1>2, <1>4, <3>1, LocationKeys
    <3>3. Setting(h, keystoreLocationKey(k)) # Blank
      BY <1>1, <3>1, <3>2 DEF Setting
    <3>4. keystoreLocation(h, k) # Blank
      BY <3>3, LocationNamed
    <3>5. QED
      BY <3>1, <3>4 DEF isJavaKeystore
  <2>2. CASE k \notin DOMAIN g
    <3>1. keystoreLocation(f, k) # Blank /\ ~isJavaKeystore(f[k]) /\ h[k] = f[k]
      BY <1>1, <1>4, <2>2 DEF Settled
    <3>2. keystoreLocation(h, k) # Blank
      BY <1>3, <1>4, <3>1, LocationStaysNamed
    <3>3. QED
      BY <3>1, <3>2
  <2>3. QED
    BY <2>1, <2>2
<1>5. ASSUME NEW k \in DOMAIN h, isMechanismsKey(k)
      PROVE  ~mechanismsUnservable(h[k]) /\ saslInUse(k)
  <2>1. ~mechanismsUnservable({"PLAIN"})
    BY DEF mechanismsUnservable
  <2>2. QED
    BY <1>1, <1>5, <2>1 DEF Settled, Advised
<1>6. \A k \in DOMAIN h : /\ isSupportedBrokerProperty(k)
                          /\ isAuthorizerKey(k) => h[k] = "KofAuthorizer"
                          /\ isKeystoreLocationKey(k) => h[k] \in Locations \cup {Blank}
  BY <1>1 DEF Settled, Advised, Located
<1>7. QED
  BY <1>4, <1>5, <1>6 DEF Settled, Located, h

\* The tool passes a settled file on as it is.
LEMMA SettledPasses ==
  ASSUME WritingInv, Settled(source), pc # "parse"
  PROVE  /\ DOMAIN settings = DOMAIN source
         /\ \A k \in DOMAIN settings :
              /\ settings[k] = source[k] /\ isSupportedBrokerProperty(k)
              /\ ~Inert(k) /\ ~Refused(k)
              /\ EmittedForm(k) = "active" /\ EmittedValue(k) = source[k]
<1>1. Rewritten(source) = {}
  BY DEF Rewritten, Settled
<1>2. /\ DOMAIN settings = DOMAIN source
      /\ \A k \in DOMAIN settings : settings[k] = source[k]
  <2>1. settings = Normalized(source)
    BY DEF WritingInv
  <2>2. QED
    BY <1>1, <2>1, NormalizedFacts
<1>3. ASSUME NEW k, isKeystoreTypeKey(k), keystoreLocation(source, k) # Blank
      PROVE  keystoreLocation(settings, k) # Blank
  <2>1. \A l \in DOMAIN source : isKeystoreLocationKey(l) /\ source[l] # Blank =>
           l \in DOMAIN settings /\ settings[l] # Blank
    BY <1>2
  <2>2. QED
    BY <1>3, <2>1, LocationStaysNamed
<1>4. Blank # "KofAuthorizer"
  BY ConstantsAssumption
<1>5. ASSUME NEW k \in DOMAIN settings
      PROVE  ~Inert(k) /\ ~Refused(k) /\ isSupportedBrokerProperty(k)
  BY <1>2, <1>3, <1>4, <1>5 DEF Settled, Inert, Refused, recognizedAuthorizer
<1>6. ASSUME NEW k \in DOMAIN settings
      PROVE  EmittedForm(k) = "active"
  <2>1. ~runtimeRejects(k)
    BY <1>5, RejectedIsUnsupported
  <2>2. QED
    BY <1>5, <2>1 DEF EmittedForm, Refused
<1>7. \A k \in DOMAIN settings : EmittedValue(k) = source[k]
  BY <1>2 DEF EmittedValue, Settled
<1>8. QED
  BY <1>2, <1>5, <1>6, <1>7

-----------------------------------------------------------------------------
(* The steps.                                                              *)

\* Nothing has been read yet.
LEMMA InitInv == Init => TypeOK /\ WritingInv /\ EditsInv /\ SourceInv
<1> SUFFICES ASSUME Init PROVE TypeOK /\ WritingInv /\ EditsInv /\ SourceInv
  OBVIOUS
<1>1. source \in Files /\ Located(source) /\ DOMAIN source \subseteq Keys
  BY ConstantsAssumption DEF Init
<1>2. DOMAIN settings = {} /\ DOMAIN edits = {}
  BY DEF Init
<1>3. TypeOK
  <2>1. Len(written) = 0 /\ runs \in 1..MaxRuns
    <3>1. MaxRuns \in Nat \ {0}
      BY ConstantsAssumption
    <3>2. written = <<>> /\ runs = 1
      BY DEF Init
    <3>3. QED
      BY <3>1, <3>2
  <2>2. \A j \in 1..Len(written) : FALSE
    BY <2>1
  <2>3. DOMAIN settings \subseteq Keys /\ DOMAIN edits \subseteq Keys
    BY <1>2
  <2>4. protocol \in [Listeners \cup Stripped -> Protocols] /\ pc = "parse" /\ status = "ACCEPTED"
    BY DEF Init
  <2>5. conversions = {} /\ emitted = {} /\ items = {}
    BY DEF Init
  <2>6. QED
    BY <1>1, <2>1, <2>2, <2>3, <2>4, <2>5 DEF TypeOK
<1>4. WritingInv
  BY DEF Init, WritingInv
<1>5. EditsInv
  BY <1>2 DEF Init, EditsInv, Advised
<1>6. SourceInv
  BY <1>1 DEF Init, SourceInv
<1>7. QED
  BY <1>3, <1>4, <1>5, <1>6

\* Lines and conditions are functions of what the parse left.
LEMMA SameLines ==
  ASSUME UNCHANGED <<protocol, settings, conversions>>
  PROVE  /\ \A k : Line(k)' = Line(k)
         /\ configStatus' = configStatus /\ Summarized' = Summarized
  BY DEF Line, EmittedForm, EmittedValue, configStatus, Considered, Refused, Summarized, Inert,
         saslInUse

\* The parse is what WritingInv says it is.
LEMMA ParseKeeps ==
  ASSUME TypeOK, WritingInv, EditsInv, SourceInv, Parse
  PROVE  TypeOK' /\ WritingInv' /\ EditsInv' /\ SourceInv'
<1>1. DOMAIN Normalized(source) = DOMAIN source
  BY NormalizedFacts
<1>2. \A c \in Conversions(source) : c.typeKey \in Keys /\ c.locKey \in Keys
  <2>1. ASSUME NEW t \in Rewritten(source)
        PROVE  Conversion(source, t).typeKey \in Keys /\ Conversion(source, t).locKey \in Keys
    BY NormalizedFacts DEF TypeOK, Conversion
  <2>2. QED
    BY <2>1 DEF Conversions
<1>3. TypeOK'
  BY <1>1, <1>2 DEF Parse, TypeOK, Passes
<1>4. WritingInv'
  <2>1. written' = <<>> /\ emitted' = {} /\ pc' = "stamp"
    BY DEF Parse, WritingInv
  <2>2. QED
    BY <2>1 DEF Parse, WritingInv
<1>5. EditsInv' /\ SourceInv'
  BY DEF Parse, EditsInv, SourceInv, Advised, Settled, saslInUse
<1>6. QED
  BY <1>3, <1>4, <1>5

\* The stamp.
LEMMA StampKeeps ==
  ASSUME TypeOK, WritingInv, EditsInv, SourceInv, StampStatus
  PROVE  TypeOK' /\ WritingInv' /\ EditsInv' /\ SourceInv'
<1>1. TypeOK'
  BY DEF StampStatus, TypeOK, Passes, configStatus
<1>2. WritingInv'
  BY SameLines DEF StampStatus, WritingInv
<1>3. EditsInv' /\ SourceInv'
  BY DEF StampStatus, EditsInv, SourceInv, Advised, Settled, saslInUse
<1>4. QED
  BY <1>1, <1>2, <1>3

\* One more line, of a key that had none.
LEMMA EmitKeeps ==
  ASSUME TypeOK, WritingInv, EditsInv, SourceInv, EmitNext
  PROVE  TypeOK' /\ WritingInv' /\ EditsInv' /\ SourceInv'
<1>1. PICK j \in Pending(pc) : /\ written' = Append(written, Line(KeysOfPass(pc)[j]))
                              /\ emitted' = emitted \cup {KeysOfPass(pc)[j]}
  BY DEF EmitNext
<1>2. /\ UNCHANGED <<protocol, source, settings, conversions, pc, status, items, edits, runs, before>>
      /\ pc \in Passes
  BY DEF EmitNext
<1> DEFINE k == KeysOfPass(pc)[j]
           Lines == {Line(l) : l \in DOMAIN settings}
<1>3. k \in DOMAIN settings /\ k \notin emitted
  BY DEF Pending
<1>4. Line(k) \in Lines /\ written \in Seq(Lines)
  BY <1>3 DEF WritingInv
<1>5. Line(k).key = k /\ Line(k).form \in Forms
  BY LineFields DEF Line, Forms
<1> HIDE DEF k, Lines
<1>6. /\ written' \in Seq(Lines) /\ Len(written') = Len(written) + 1
      /\ Len(written) \in Nat
      /\ \A l \in 1..Len(written) : written'[l] = written[l]
      /\ written'[Len(written) + 1] = Line(k)
  BY <1>1, <1>4 DEF k
<1>7. \A l \in 1..Len(written') : l \in 1..Len(written) \/ l = Len(written) + 1
  BY <1>6
<1>8. emitted = {written[l].key : l \in 1..Len(written)}
  BY DEF WritingInv
<1>9. emitted' = {written'[l].key : l \in 1..Len(written')}
  BY <1>1, <1>5, <1>6, <1>7, <1>8 DEF k
<1>10. \A l, m \in 1..Len(written') : written'[l].key = written'[m].key => l = m
  BY <1>3, <1>5, <1>6, <1>7, <1>8 DEF WritingInv
<1>11. TypeOK'
  <2>1. k \in Keys
    BY <1>3 DEF TypeOK
  <2>2. \A l \in 1..Len(written') : written'[l].key \in Keys /\ written'[l].form \in Forms
    BY <1>5, <1>6, <1>7, <2>1 DEF TypeOK
  <2>3. emitted' \subseteq Keys
    BY <1>1, <2>1 DEF TypeOK, k
  <2>4. QED
    BY <1>2, <2>2, <2>3 DEF TypeOK
<1>12. WritingInv'
  <2>1. {Line(l) : l \in DOMAIN settings}' = Lines
    BY <1>2, SameLines DEF Lines
  <2>2. written' \in Seq({Line(l) : l \in DOMAIN settings}')
    BY <1>6, <2>1
  <2>3. QED
    BY <1>2, <1>9, <1>10, <2>2, SameLines DEF WritingInv, Passes
<1>13. EditsInv' /\ SourceInv'
  BY <1>2 DEF EditsInv, SourceInv, Advised, Settled, saslInUse
<1>14. QED
  BY <1>11, <1>12, <1>13

\* The last pass leaves nothing out.
LEMMA EndPassKeeps ==
  ASSUME TypeOK, WritingInv, EditsInv, SourceInv, EndPass
  PROVE  TypeOK' /\ WritingInv' /\ EditsInv' /\ SourceInv'
<1>1. /\ UNCHANGED <<protocol, source, settings, conversions, status, emitted, written, items, edits, runs, before>>
      /\ pc \in Passes /\ Pending(pc) = {} /\ pc' \in Passes \cup {"report"}
      /\ pc' = "report" => pc = "rest"
      /\ pc' \notin {"parse", "stamp", "done"}
  BY DEF EndPass, Passes
<1>2. TypeOK'
  BY <1>1 DEF TypeOK
<1>3. pc = "rest" => emitted = DOMAIN settings
  <2> SUFFICES ASSUME pc = "rest" PROVE emitted = DOMAIN settings
    OBVIOUS
  <2>1. emitted \subseteq DOMAIN settings
    BY WrittenLines DEF WritingInv
  <2>2. ASSUME NEW k \in DOMAIN settings PROVE k \in emitted
    <3>1. PICK j \in 1..Len(Order) : Order[j] = k
      BY DEF TypeOK, Keys
    <3>2. KeysOfPass("rest") = Order
      BY DEF KeysOfPass
    <3>3. QED
      BY <1>1, <3>1, <3>2 DEF Pending
  <2>3. QED
    BY <2>1, <2>2
<1>4. WritingInv'
  BY <1>1, <1>3, SameLines DEF WritingInv, Passes
<1>5. EditsInv' /\ SourceInv'
  BY <1>1 DEF EditsInv, SourceInv, Advised, Settled, saslInUse, Passes
<1>6. QED
  BY <1>2, <1>4, <1>5

\* The report.
LEMMA ReportKeeps ==
  ASSUME TypeOK, WritingInv, EditsInv, SourceInv, Report
  PROVE  TypeOK' /\ WritingInv' /\ EditsInv' /\ SourceInv'
<1>1. /\ UNCHANGED <<protocol, source, settings, conversions, status, emitted, written, edits, runs, before>>
      /\ pc = "report" /\ pc' = "done"
      /\ items' = IF status = "INVALID" THEN Summarized ELSE {}
  BY DEF Report
<1>2. Summarized \subseteq Keys
  BY SummarizedSame DEF TypeOK
<1>3. TypeOK'
  BY <1>1, <1>2 DEF TypeOK
<1>4. WritingInv'
  BY <1>1, SameLines DEF WritingInv
<1>5. EditsInv' /\ SourceInv'
  BY <1>1 DEF EditsInv, SourceInv, Advised, Settled, saslInUse
<1>6. QED
  BY <1>3, <1>4, <1>5

\* The advice of a block is advised.
LEMMA AdviceOfBlock ==
  ASSUME TypeOK, WritingInv, SourceInv, pc = "done", NEW k \in Blocks
  PROVE  Advised(Advice(k)) /\ DOMAIN Advice(k) \subseteq Keys
<1>1. k \in DOMAIN settings /\ Considered(k) /\ Refused(k)
  BY BlocksAtEnd
<1>2. k \in Keys /\ isSupportedBrokerProperty(k) /\ ~Inert(k)
  BY <1>1 DEF TypeOK, Considered
<1>3. CASE isAuthorizerKey(k)
  <2>1. Advice(k) = [x \in {k} |-> "KofAuthorizer"]
    BY <1>3 DEF Advice
  <2>2. QED
    BY <1>2, <1>3, <2>1, KindsDiffer DEF Advised
<1>4. CASE isMechanismsKey(k)
  <2>1. Advice(k) = [x \in {k} |-> {"PLAIN"}]
    BY <1>4, KindsDiffer DEF Advice
  <2>2. saslInUse(k)
    BY <1>2, <1>4 DEF Inert
  <2>3. QED
    BY <1>2, <1>4, <2>1, <2>2, KindsDiffer DEF Advised
<1>5. CASE isKeystoreTypeKey(k)
  <2> DEFINE loc == keystoreLocationKey(k)
             own == Setting(settings, loc)
             file == IF own = Blank THEN [stem |-> "placeholder", ext |-> "pem"] ELSE WithExt(own, "pem")
  <2>1. Advice(k) = [x \in {k, loc} |-> IF x = k THEN "PEM" ELSE file]
    BY <1>5, KindsDiffer DEF Advice
  <2>2. isKeystoreLocationKey(loc) /\ isSupportedBrokerProperty(loc) /\ loc \in Keys /\ loc # k
    BY <1>2, <1>5, LocationKeys, KindsDiffer, ConstantsAssumption
  <2>3. file \in Locations
    <3>1. own # Blank => loc \in DOMAIN settings /\ settings[loc] = own
      BY DEF Setting
    <3>2. settings = Normalized(source) /\ DOMAIN settings = DOMAIN source
      BY NormalizedFacts DEF WritingInv
    <3>3. own # Blank => own \in Locations
      BY <2>2, <3>1, <3>2, NormalizedLocations DEF SourceInv, Located
    <3>4. own \in Locations => WithExt(own, "pem") \in Locations
      BY DEF WithExt, Locations
    <3>5. [stem |-> "placeholder", ext |-> "pem"] \in Locations
      <4>1. "placeholder" \in Stems
        BY ConstantsAssumption
      <4>2. QED
        BY <4>1 DEF Locations
    <3>6. QED
      BY <3>3, <3>4, <3>5
  <2> HIDE DEF loc, file
  <2>4. QED
    BY <1>2, <1>5, <2>1, <2>2, <2>3, KindsDiffer DEF Advised, loc
<1>6. QED
  BY <1>1, <1>3, <1>4, <1>5 DEF Refused

\* So are the edits of several blocks together.
LEMMA AdvisedTogether ==
  ASSUME NEW f, NEW g, Advised(f), Advised(g)
  PROVE  Advised(Override(f, g))
<1>1. /\ DOMAIN Override(f, g) = DOMAIN f \cup DOMAIN g
      /\ \A k \in DOMAIN g : Override(f, g)[k] = g[k]
      /\ \A k \in DOMAIN f : k \notin DOMAIN g => Override(f, g)[k] = f[k]
  BY DEF Override
<1>2. QED
  BY <1>1 DEF Advised

\* An edit follows a block.
LEMMA ResolveKeeps ==
  ASSUME TypeOK, WritingInv, EditsInv, SourceInv, NEW k \in Keys, Resolve(k)
  PROVE  TypeOK' /\ WritingInv' /\ EditsInv' /\ SourceInv'
<1>1. /\ UNCHANGED <<protocol, source, settings, conversions, pc, status, emitted, written, items, runs, before>>
      /\ pc = "done" /\ k \in Blocks /\ edits' = Override(edits, Advice(k))
  BY DEF Resolve
<1>2. Advised(edits') /\ DOMAIN edits' \subseteq Keys
  BY <1>1, AdviceOfBlock, AdvisedTogether DEF EditsInv, TypeOK, Override
<1>3. TypeOK'
  BY <1>1, <1>2 DEF TypeOK
<1>4. WritingInv'
  BY <1>1, SameLines DEF WritingInv
<1>5. Advised(edits)'
  BY <1>1, <1>2 DEF Advised, saslInUse
<1>6. EditsInv' /\ SourceInv'
  BY <1>1, <1>5 DEF EditsInv, SourceInv, Settled, saslInUse
<1>7. QED
  BY <1>3, <1>4, <1>6

\* The next run is over a settled file.
LEMMA RerunKeeps ==
  ASSUME TypeOK, WritingInv, EditsInv, SourceInv, Rerun
  PROVE  TypeOK' /\ WritingInv' /\ EditsInv' /\ SourceInv'
<1>1. /\ pc = "done" /\ runs < MaxRuns /\ runs' = runs + 1 /\ pc' = "parse"
      /\ source' = Override(Active, edits)
      /\ before'.active = Active /\ before'.edited = DOMAIN edits
      /\ settings' = <<>> /\ conversions' = {} /\ emitted' = {} /\ written' = <<>>
      /\ items' = {} /\ edits' = <<>> /\ protocol' = protocol /\ status' = status
  BY DEF Rerun
<1>2. /\ DOMAIN source' = DOMAIN Active \cup DOMAIN edits
      /\ source' = [k \in DOMAIN source' |-> source'[k]]
      /\ Active = [k \in DOMAIN Active |-> Active[k]]
      /\ DOMAIN edits = {} => source' = Active
  <2>1. Active = [k \in DOMAIN Active |-> Active[k]]
    BY DEF Active
  <2>2. /\ DOMAIN source' = DOMAIN Active \cup DOMAIN edits
        /\ source' = [k \in DOMAIN source' |-> source'[k]]
    BY <1>1 DEF Override
  <2>3. ASSUME DOMAIN edits = {} PROVE source' = Active
    <3>1. /\ DOMAIN source' = DOMAIN Active
          /\ \A k \in DOMAIN Active : source'[k] = Active[k]
      BY <1>1, <2>3 DEF Override
    <3>2. QED
      BY <2>1, <2>2, <3>1, SMTT(20)
  <2>4. QED
    BY <2>1, <2>2, <2>3
<1>3. Settled(source') /\ Located(source')
  BY <1>1, ActiveIsSettled, EditedIsSettled DEF EditsInv
<1>4. DOMAIN Active \subseteq Keys
  BY <1>1, ActiveAtEnd DEF TypeOK
<1>5. DOMAIN settings' = {} /\ DOMAIN edits' = {} /\ \A j \in 1..Len(written') : FALSE
  BY <1>1
<1>6. TypeOK'
  <2>1. runs' \in 1..MaxRuns
    <3>1. MaxRuns \in Nat /\ runs \in 1..MaxRuns
      BY ConstantsAssumption DEF TypeOK
    <3>2. QED
      BY <1>1, <3>1
  <2>2. DOMAIN source' \subseteq Keys /\ DOMAIN settings' \subseteq Keys /\ DOMAIN edits' \subseteq Keys
    BY <1>2, <1>4, <1>5 DEF TypeOK
  <2>3. QED
    BY <1>1, <1>5, <2>1, <2>2 DEF TypeOK
<1>7. WritingInv'
  BY <1>1, <1>5 DEF WritingInv
<1>8. EditsInv'
  BY <1>1, <1>5 DEF EditsInv, Advised
<1>9. SourceInv'
  <2>1. Settled(source)'
    BY <1>1, <1>3 DEF Settled, saslInUse
  <2>2. Located(source)'
    BY <1>3 DEF Located
  <2>3. QED
    BY <1>1, <1>2, <2>1, <2>2 DEF SourceInv
<1>10. QED
  BY <1>6, <1>7, <1>8, <1>9

\* Nothing of it changes when nothing does.
LEMMA StutterKeeps ==
  ASSUME TypeOK, WritingInv, EditsInv, SourceInv, UNCHANGED vars
  PROVE  TypeOK' /\ WritingInv' /\ EditsInv' /\ SourceInv'
<1>1. UNCHANGED <<protocol, source, settings, conversions, pc, status, emitted, written, items,
                  edits, runs, before>>
  BY DEF vars
<1>2. TypeOK'
  BY <1>1 DEF TypeOK
<1>3. WritingInv'
  BY <1>1, SameLines DEF WritingInv
<1>4. EditsInv' /\ SourceInv'
  BY <1>1 DEF EditsInv, SourceInv, Advised, Settled, saslInUse
<1>5. QED
  BY <1>2, <1>3, <1>4

-----------------------------------------------------------------------------
(* The results.                                                            *)

\* The three copies of the conditions agree (props.go 91-118, 216-320, summary.go
\* 42-69): a file is stamped INVALID exactly when it has a block, and the report names
\* the blocks.
LEMMA CopiesAgree == WritingInv => StatusReportAndBlocksAgree
<1> SUFFICES ASSUME WritingInv, pc = "done" PROVE StatusReportAndBlocksAgree
  BY DEF StatusReportAndBlocksAgree
<1>1. Blocks = {k \in DOMAIN settings : Considered(k) /\ Refused(k)}
  BY BlocksAtEnd
<1>2. status = "INVALID" <=> Blocks # {}
  BY <1>1 DEF WritingInv, configStatus
<1>3. items = Blocks
  BY <1>1, <1>2, SummarizedSame DEF WritingInv
<1>4. QED
  BY <1>2, <1>3 DEF StatusReportAndBlocksAgree

\* Every state of every run: what is parsed, written, stamped and reported fits the
\* file that was given, and the file of a later run has nothing left to resolve.
THEOREM BrokerPropsInvariant == Spec => []BrokerPropsInv
<1> DEFINE Inv == TypeOK /\ WritingInv /\ EditsInv /\ SourceInv
<1>1. Init => Inv
  BY InitInv
<1>2. Inv /\ [Next]_vars => Inv'
  BY ParseKeeps, StampKeeps, EmitKeeps, EndPassKeeps, ReportKeeps, ResolveKeeps, RerunKeeps,
     StutterKeeps DEF Next
<1>3. Inv => BrokerPropsInv
  BY CopiesAgree DEF BrokerPropsInv
<1>4. QED
  BY <1>1, <1>2, <1>3, PTL DEF Spec

\* What the server or the tool's own list refuses never gets into the broker file, for
\* any key under any scope (whitelist.go 154-158, support.go 14-17).
THEOREM RefusedAreKeptOut == Spec => []RefusedGoToUnsupported
<1>1. WritingInv => RefusedGoToUnsupported
  <2> SUFFICES ASSUME WritingInv, NEW j \in 1..Len(written),
                      runtimeRejects(written[j].key) \/ ListedAs(written[j].key[2], Refusing)
               PROVE  written[j].form = "unsupported"
    BY DEF RefusedGoToUnsupported
  <2>1. ~isSupportedBrokerProperty(written[j].key)
    BY RejectedIsUnsupported, ListedApart, SupportedIsListed
  <2>2. QED
    BY <2>1, WrittenLines, LineFields
<1>2. QED
  BY <1>1, BrokerPropsInvariant, PTL DEF BrokerPropsInv

\* What is commented out as inert is the type of no file that a listener of the
\* source loads, and the mechanisms of no remaining client listener that speaks SASL
\* (inert.go 32-40).
THEOREM InertTypesLoadNoFile == Spec => []InertLoadsNoFile
<1>1. InertLoadsNoFile
  <2> SUFFICES ASSUME NEW k \in DOMAIN settings, Inert(k), NEW l \in Listeners \cup Stripped
               PROVE  /\ isKeystoreTypeKey(k) /\ EffectiveKey(k[2], l) = k =>
                           Setting(settings, EffectiveKey(keystoreLocationKey(k)[2], l)) = Blank
                      /\ l \in Listeners /\ isMechanismsKey(k) /\ EffectiveKey(k[2], l) = k =>
                           protocol[l] \in {"PLAINTEXT", "SSL"}
    BY DEF InertLoadsNoFile
  <2>1. EffectiveKey(k[2], l) = k => k[1] \in {l, ""}
    <3>1. \A s, b : <<s, b>>[1] = s
      OBVIOUS
    <3>2. QED
      BY <3>1 DEF EffectiveKey
  <2>2. ASSUME isKeystoreTypeKey(k), EffectiveKey(k[2], l) = k
        PROVE  Setting(settings, EffectiveKey(keystoreLocationKey(k)[2], l)) = Blank
    <3> DEFINE base == keystoreLocationKey(k)[2]
    <3>1. keystoreLocation(settings, k) = Blank
      BY <2>2, KindsDiffer DEF Inert
    <3>2. keystoreLocationKey(k) = <<k[1], base>>
      BY DEF keystoreLocationKey
    <3>3. CASE k[1] = l
      <4>1. Setting(settings, <<l, base>>) = Blank /\ Setting(settings, <<"", base>>) = Blank
        BY <3>1, <3>2, <3>3, LocationNamed, ConstantsAssumption
      <4>2. QED
        BY <4>1 DEF EffectiveKey
    <3>4. CASE k[1] = ""
      <4>1. Setting(settings, <<"", base>>) = Blank
        BY <3>1, <3>2, <3>4, LocationNamed
      <4>2. Setting(settings, <<l, base>>) = Blank
        <5>1. <<l, base>>[1] = l /\ <<l, base>>[2] = base /\ l # ""
          BY ConstantsAssumption
        <5>2. QED
          BY <3>1, <3>4, <5>1, LocationNamed DEF Setting
      <4>3. QED
        BY <4>1, <4>2 DEF EffectiveKey
    <3>5. QED
      BY <2>1, <2>2, <3>3, <3>4
  <2>3. ASSUME l \in Listeners, isMechanismsKey(k), EffectiveKey(k[2], l) = k
        PROVE  protocol[l] \in {"PLAINTEXT", "SSL"}
    BY <2>1, <2>3, KindsDiffer DEF Inert, saslInUse
  <2>4. QED
    BY <2>2, <2>3
<1>2. QED
  BY <1>1, PTL

\* A run over an unedited generated file gives the same active lines and no block.
THEOREM RerunsKeepActive == Spec => []RerunKeepsActiveLines
<1>1. TypeOK /\ WritingInv /\ SourceInv => RerunKeepsActiveLines
  <2> SUFFICES ASSUME TypeOK, WritingInv, SourceInv, pc = "done", runs > 1, before.edited = {}
               PROVE  Active = before.active /\ Blocks = {}
    BY DEF RerunKeepsActiveLines
  <2>1. Settled(source) /\ source = [k \in DOMAIN source |-> source[k]] /\ source = before.active
    BY DEF SourceInv
  <2>2. DOMAIN Active = DOMAIN source /\ \A k \in DOMAIN Active : Active[k] = source[k]
    BY <2>1, ActiveAtEnd, SettledPasses
  <2>3. Active = [k \in DOMAIN Active |-> Active[k]]
    BY DEF Active
  <2>4. Active = source
    BY <2>1, <2>2, <2>3
  <2>5. Blocks = {}
    BY <2>1, BlocksAtEnd, SettledPasses
  <2>6. QED
    BY <2>1, <2>4, <2>5
<1>2. QED
  BY <1>1, BrokerPropsInvariant, PTL DEF BrokerPropsInv

\* Following the advice of every block leads to ACCEPTED, with what was resolved active.
THEOREM ResolvedAreAccepted == Spec => []ResolvedIsAccepted
<1>1. TypeOK /\ WritingInv /\ SourceInv => ResolvedIsAccepted
  <2> SUFFICES ASSUME TypeOK, WritingInv, SourceInv, pc = "done", runs > 1
               PROVE  status = "ACCEPTED" /\ before.edited \subseteq DOMAIN Active
    BY DEF ResolvedIsAccepted
  <2>1. Settled(source) /\ before.edited \subseteq DOMAIN source
    BY DEF SourceInv
  <2>2. status = "ACCEPTED"
    BY <2>1, SettledPasses DEF WritingInv, configStatus
  <2>3. DOMAIN source \subseteq DOMAIN Active
    BY <2>1, ActiveAtEnd, SettledPasses
  <2>4. QED
    BY <2>1, <2>2, <2>3
<1>2. QED
  BY <1>1, BrokerPropsInvariant, PTL DEF BrokerPropsInv
=============================================================================
