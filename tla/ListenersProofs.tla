---------------------------- MODULE ListenersProofs ----------------------------
(* What holds of the listeners that survive a conversion, for any list of   *)
(* listeners, any controllers and any inter-broker listener, and of a       *)
(* second conversion of what the first one wrote.                           *)
EXTENDS Listeners, SequenceTheorems, TLAPS

-----------------------------------------------------------------------------
(* Sequences as sets.                                                      *)

\* What a list holds after an append, and how long it is.
LEMMA Appended ==
  ASSUME NEW S, NEW list \in Seq(S), NEW x \in S
  PROVE  /\ Append(list, x) \in Seq(S) /\ Len(list) \in Nat
         /\ Len(Append(list, x)) = Len(list) + 1
         /\ \A k \in 1..Len(list) : Append(list, x)[k] = list[k]
         /\ Append(list, x)[Len(list) + 1] = x
OBVIOUS

\* The elements of a list after an append.
LEMMA AppendedSet ==
  ASSUME NEW S, NEW list \in Seq(S), NEW x \in S
  PROVE  {Append(list, x)[k] : k \in 1..Len(Append(list, x))}
           = {list[k] : k \in 1..Len(list)} \cup {x}
<1> DEFINE longer == Append(list, x)
<1>1. /\ Len(list) \in Nat /\ Len(longer) = Len(list) + 1
      /\ \A k \in 1..Len(list) : longer[k] = list[k]
      /\ longer[Len(list) + 1] = x
  BY Appended
<1> HIDE DEF longer
<1>2. {longer[k] : k \in 1..Len(longer)} \subseteq {list[k] : k \in 1..Len(list)} \cup {x}
  BY <1>1
<1>3. {list[k] : k \in 1..Len(list)} \subseteq {longer[k] : k \in 1..Len(longer)}
  BY <1>1
<1>4. x \in {longer[k] : k \in 1..Len(longer)}
  BY <1>1
<1>5. QED
  BY <1>2, <1>3, <1>4 DEF longer

\* A turn of a loop that is not the last moves the counter, the last one resets it.
LEMMA TurnMoves ==
  ASSUME NEW loop, NEW length, NEW following, Turn(loop, length, following),
         length \in Nat, i \in 1..length
  PROVE  /\ pc = loop
         /\ \/ i < length /\ i' = i + 1 /\ i' \in 1..length /\ pc' = loop
            \/ i = length /\ i' = 1 /\ pc' = following
  BY DEF Turn

\* What a loop has passed after one more turn.
LEMMA PassedMore ==
  ASSUME i \in Nat \ {0}
  PROVE  {listeners[k] : k \in 1..i} = Passed \cup {Here}
<1>1. 1..i = (1..(i - 1)) \cup {i}
  OBVIOUS
<1>2. QED
  BY <1>1 DEF Passed, Here

\* The listener that a loop is at.
LEMMA HereType ==
  ASSUME listeners \in Seq(Names), i \in 1..Len(listeners)
  PROVE  Here \in Names /\ Len(listeners) \in Nat
  BY DEF Here

\* The entry of a listener.
LEMMA EntryType ==
  ASSUME TypeOK, NEW n \in Names
  PROVE  Entry(n) \in ListenerDef
<1>1. AdvHost(n) \in {"host", "wild"}
  BY ConstantsAssumption DEF TypeOK, AdvHost
<1>2. NeedsAuth(n) \in BOOLEAN
  BY DEF NeedsAuth
<1>3. protocolMap[n] \in Protocols \cup {Unset}
  BY DEF TypeOK
<1>4. QED
  BY <1>1, <1>2, <1>3 DEF Entry, ListenerDef

\* Its name and whether it needs authentication.
LEMMA EntryFields ==
  \A n : Entry(n).name = n /\ Entry(n).auth = NeedsAuth(n)
<1>1. ASSUME NEW n PROVE Entry(n).name = n
  BY DEF Entry
<1>2. ASSUME NEW n PROVE Entry(n).auth = NeedsAuth(n)
  BY DEF Entry
<1>3. QED
  BY <1>1, <1>2

-----------------------------------------------------------------------------
(* Types.                                                                  *)

\* A step keeps the types.
LEMMA StepTypes ==
  ASSUME TypeOK, LoopInv, [Next]_vars PROVE TypeOK'
<1> USE DEF raw, result, history
<1>0. /\ listeners \in Seq(Names) /\ Len(listeners) \in Nat
      /\ kept \in Seq(Names) /\ removed \in Seq(RemovedListener) /\ entries \in Seq(ListenerDef)
  BY DEF TypeOK
<1>1. CASE ScanListener
  <2>1. pc = "scan" /\ i \in 1..Len(listeners)
    BY <1>1 DEF ScanListener, LoopInv
  <2>2. Here \in Names
    BY <1>0, <2>1, HereType
  <2>3. i' \in Nat \ {0} /\ pc' \in {"scan", "mark"}
    BY <1>0, <1>1, <2>1, TurnMoves DEF ScanListener
  <2>4. kafkaHost' \in Names \cup {Unset}
    BY <1>1, <2>2 DEF ScanListener, TypeOK
  <2>5. QED
    BY <1>1, <2>3, <2>4 DEF ScanListener, TypeOK
<1>2. CASE MarkInternal
  <2>1. internal' \subseteq Names
    BY <1>2 DEF MarkInternal, TypeOK
  <2>2. QED
    BY <1>2, <2>1 DEF MarkInternal, TypeOK
<1>3. CASE StripEntry
  <2>1. pc = "strip" /\ i \in 1..Len(listeners)
    BY <1>3 DEF StripEntry, Turn, LoopInv
  <2>2. Here \in Names
    BY <1>0, <2>1, HereType
  <2>3. i' \in Nat \ {0} /\ pc' \in {"strip", "drop"}
    BY <1>0, <1>3, <2>1, TurnMoves DEF StripEntry
  <2>4. kept' \in Seq(Names)
    <3>1. kept' = kept \/ kept' = Append(kept, Here)
      BY <1>3 DEF StripEntry
    <3>2. QED
      BY <1>0, <2>2, <3>1, Appended, ZenonT(30)
  <2>5. removed' \in Seq(RemovedListener)
    <3>1. removed' = removed \/ removed' = Append(removed, [name |-> Here, namedBy |-> NamedBy(Here)])
      BY <1>3 DEF StripEntry
    <3>2. [name |-> Here, namedBy |-> NamedBy(Here)] \in RemovedListener
      BY <2>2 DEF NamedBy, RemovedListener
    <3>3. QED
      BY <1>0, <3>1, <3>2, Appended, ZenonT(30)
  <2>6. QED
    BY <1>3, <2>3, <2>4, <2>5 DEF StripEntry, TypeOK
<1>4. CASE DropInternal
  <2>1. /\ Dropped(advertised) \in [Names -> AdvHosts \cup {Unset}]
        /\ Dropped(protocolMap) \in [Names -> Protocols \cup {Unset}]
    BY DEF Dropped, TypeOK
  <2>2. pc' \in {"derive", "build"}
    BY <1>4 DEF DropInternal
  <2>3. QED
    BY <1>4, <2>1, <2>2 DEF DropInternal, TypeOK
<1>5. CASE BuildListener
  <2>1. pc = "build" /\ i \in 1..Len(listeners)
    BY <1>5 DEF BuildListener, Turn, LoopInv
  <2>2. Here \in Names
    BY <1>0, <2>1, HereType
  <2>3. i' \in Nat \ {0} /\ pc' \in {"build", "derive"}
    BY <1>0, <1>5, <2>1, TurnMoves DEF BuildListener
  <2>4. entries' \in Seq(ListenerDef)
    BY <1>0, <1>5, <2>2, EntryType, Appended DEF BuildListener
  <2>5. QED
    BY <1>5, <2>3, <2>4 DEF BuildListener, TypeOK
<1>6. CASE Derive
  <2>1. isSecure' \in BOOLEAN
    BY <1>6 DEF Derive, DerivesSecure
  <2>2. kofHost' \in Names \cup {Unset}
    <3>1. CASE entries = <<>>
      BY <1>6, <3>1 DEF Derive, FirstListener
    <3>2. CASE entries # <<>>
      <4>1. entries[1] \in ListenerDef
        BY <1>0, <3>2
      <4>2. entries[1].name \in Names
        BY <4>1 DEF ListenerDef
      <4>3. QED
        BY <1>6, <3>2, <4>2 DEF Derive, FirstListener
    <3>3. QED
      BY <3>1, <3>2
  <2>3. QED
    BY <1>6, <2>1, <2>2 DEF Derive, TypeOK
<1>7. CASE Reparse
  <2>1. /\ UNCHANGED <<listeners, advertised, protocolMap>>
        /\ controllers' = {} /\ interBroker' = Unset /\ internal' = {} /\ kafkaHost' = Unset
        /\ kofHost' = Unset /\ isSecure' = FALSE /\ pc' = "scan" /\ i' = 1 /\ parses' = 2
    BY <1>7 DEF Reparse
  <2>2. /\ kept' \in Seq(Names) /\ removed' \in Seq(RemovedListener)
        /\ entries' \in Seq(ListenerDef)
    BY <1>7 DEF Reparse
  <2>3. /\ listeners' \in Seq(Names) /\ advertised' \in [Names -> AdvHosts \cup {Unset}]
        /\ protocolMap' \in [Names -> Protocols \cup {Unset}]
    BY <2>1 DEF TypeOK
  <2>4. /\ i' \in Nat \ {0} /\ parses' \in {1, 2}
        /\ controllers' \subseteq Names /\ internal' \subseteq Names
        /\ pc' \in {"scan", "mark", "strip", "drop", "build", "derive", "done"}
        /\ interBroker' \in Names \cup {Unset} /\ kafkaHost' \in Names \cup {Unset}
        /\ kofHost' \in Names \cup {Unset}
    BY <2>1
  <2>5. isSecure' \in BOOLEAN
    BY <2>1
  <2>6. QED
    BY <2>2, <2>3, <2>4, <2>5 DEF TypeOK
<1>8. CASE UNCHANGED vars
  BY <1>8 DEF vars, TypeOK
<1>9. QED
  BY <1>1, <1>2, <1>3, <1>4, <1>5, <1>6, <1>7, <1>8 DEF Next

-----------------------------------------------------------------------------
(* The loops.                                                              *)

\* A turn of the stripping loop sorts one more listener.
LEMMA StripSorts ==
  ASSUME TypeOK, LoopInv, StripEntry
  PROVE  /\ i \in 1..Len(listeners) /\ pc = "strip"
         /\ Kept' = {listeners[k] : k \in 1..i} \ internal
         /\ Removed' = {listeners[k] : k \in 1..i} \cap internal
         /\ \/ i < Len(listeners) /\ i' = i + 1 /\ i' \in 1..Len(listeners) /\ pc' = "strip"
            \/ i = Len(listeners) /\ i' = 1 /\ pc' = "drop"
<1>1. pc = "strip" /\ i \in 1..Len(listeners)
  BY DEF StripEntry, Turn, LoopInv
<1>2. /\ listeners \in Seq(Names) /\ kept \in Seq(Names) /\ removed \in Seq(RemovedListener)
      /\ Len(listeners) \in Nat /\ i \in Nat \ {0}
  BY DEF TypeOK
<1>3. Here \in Names
  BY <1>1, <1>2, HereType
<1>4. Kept = Passed \ internal /\ Removed = Passed \cap internal
  BY <1>1 DEF LoopInv
<1>5. {listeners[k] : k \in 1..i} = Passed \cup {Here}
  BY <1>2, PassedMore
<1>6. CASE Here \in internal
  <2> DEFINE r == [name |-> Here, namedBy |-> NamedBy(Here)]
  <2>1. kept' = kept /\ removed' = Append(removed, r)
    BY <1>6 DEF StripEntry
  <2>2. r \in RemovedListener
    BY <1>3 DEF RemovedListener, NamedBy
  <2>3. Kept' = Kept
    BY <2>1 DEF Kept
  <2>4. Removed' = Removed \cup {Here}
    <3>1. r.name = Here
      OBVIOUS
    <3> HIDE DEF r
    <3>2. {removed'[k] : k \in 1..Len(removed')} = {removed[k] : k \in 1..Len(removed)} \cup {r}
      BY <1>2, <2>1, <2>2, AppendedSet
    <3>3. Removed' = {e.name : e \in {removed'[k] : k \in 1..Len(removed')}}
      BY DEF Removed
    <3>4. Removed = {e.name : e \in {removed[k] : k \in 1..Len(removed)}}
      BY DEF Removed
    <3>5. QED
      BY <3>1, <3>2, <3>3, <3>4
  <2>5. QED
    BY <1>1, <1>2, <1>4, <1>5, <1>6, <2>3, <2>4, TurnMoves DEF StripEntry
<1>7. CASE Here \notin internal
  <2>1. kept' = Append(kept, Here) /\ removed' = removed
    BY <1>7 DEF StripEntry
  <2>2. Kept' = Kept \cup {Here}
    BY <1>2, <1>3, <2>1, AppendedSet DEF Kept
  <2>3. Removed' = Removed
    BY <2>1 DEF Removed
  <2>4. QED
    BY <1>1, <1>2, <1>4, <1>5, <1>7, <2>2, <2>3, TurnMoves DEF StripEntry
<1>8. QED
  BY <1>6, <1>7

\* A step keeps what the loops have left behind.
LEMMA StepLoop ==
  ASSUME TypeOK, LoopInv, [Next]_vars PROVE LoopInv'
<1> USE DEF raw, result, history
<1>0. /\ listeners \in Seq(Names) /\ Len(listeners) \in Nat /\ i \in Nat \ {0}
      /\ kept \in Seq(Names) /\ internal \subseteq Names
  BY DEF TypeOK
<1>1. CASE ScanListener
  <2>1. pc = "scan" /\ i \in 1..Len(listeners)
    BY <1>1 DEF ScanListener, LoopInv
  <2>2. listeners # <<>>
    BY <1>0, <2>1
  <2>3. UNCHANGED <<listeners, kept, removed>> /\ kept = <<>> /\ removed = <<>>
    BY <1>1, <2>1 DEF ScanListener, LoopInv
  <2>4. \/ pc' = "scan" /\ i' \in 1..Len(listeners)
        \/ pc' = "mark" /\ i' = 1
    <3>1. CASE Turn("scan", Len(listeners), "mark")
      BY <1>0, <2>1, <3>1, TurnMoves
    <3>2. CASE ~Turn("scan", Len(listeners), "mark")
      BY <1>1, <3>2 DEF ScanListener
    <3>3. QED
      BY <3>1, <3>2
  <2>5. QED
    BY <2>2, <2>3, <2>4 DEF LoopInv
<1>2. CASE MarkInternal
  <2>1. pc = "mark" /\ i = 1 /\ listeners # <<>> /\ kept = <<>> /\ removed = <<>>
    BY <1>2 DEF MarkInternal, LoopInv
  <2>2. pc' = "strip" /\ UNCHANGED <<listeners, i, kept, removed>>
    BY <1>2 DEF MarkInternal
  <2>3. Kept' = {} /\ Removed' = {} /\ Passed' = {}
    BY <2>1, <2>2 DEF Kept, Removed, Passed
  <2>4. i' \in 1..Len(listeners')
    BY <1>0, <2>1, <2>2
  <2>5. QED
    BY <2>2, <2>3, <2>4 DEF LoopInv
<1>3. CASE StripEntry
  <2>1. /\ i \in 1..Len(listeners) /\ pc = "strip"
        /\ Kept' = {listeners[k] : k \in 1..i} \ internal
        /\ Removed' = {listeners[k] : k \in 1..i} \cap internal
        /\ \/ i < Len(listeners) /\ i' = i + 1 /\ i' \in 1..Len(listeners) /\ pc' = "strip"
           \/ i = Len(listeners) /\ i' = 1 /\ pc' = "drop"
    BY <1>3, StripSorts
  <2>2. UNCHANGED <<listeners, internal>>
    BY <1>3 DEF StripEntry
  <2>3. CASE i' = i + 1 /\ i' \in 1..Len(listeners) /\ pc' = "strip"
    <3>1. i' - 1 = i
      BY <1>0, <2>3
    <3>2. Passed' = {listeners[k] : k \in 1..i}
      BY <2>2, <3>1 DEF Passed
    <3>3. QED
      BY <2>1, <2>2, <2>3, <3>2 DEF LoopInv
  <2>4. CASE i = Len(listeners) /\ i' = 1 /\ pc' = "drop"
    <3>1. Listed' = {listeners[k] : k \in 1..i}
      BY <2>2, <2>4 DEF Listed
    <3>2. listeners # <<>>
      BY <1>0, <2>1
    <3>3. QED
      BY <2>1, <2>2, <2>4, <3>1, <3>2 DEF LoopInv
  <2>5. QED
    BY <2>1, <2>3, <2>4
<1>4. CASE DropInternal
  <2>1. /\ listeners' = kept' /\ kept' = kept /\ internal' = internal /\ i' = 1
        /\ pc' = IF kept = <<>> THEN "derive" ELSE "build"
    BY <1>4 DEF DropInternal, LoopInv
  <2>2. \A n \in internal : advertised'[n] = Unset /\ protocolMap'[n] = Unset
    BY <1>0, <1>4 DEF DropInternal, Dropped
  <2>3. pc' = "build" => i' \in 1..Len(listeners')
    BY <1>0, <2>1
  <2>4. pc' \in {"derive", "build"}
    BY <2>1
  <2>5. QED
    BY <2>1, <2>2, <2>3, <2>4 DEF LoopInv
<1>5. CASE BuildListener
  <2>1. pc = "build" /\ i \in 1..Len(listeners)
    BY <1>5 DEF BuildListener, Turn, LoopInv
  <2>2. UNCHANGED <<listeners, advertised, protocolMap, internal, kept>>
    BY <1>5 DEF BuildListener
  <2>3. \/ pc' = "build" /\ i' \in 1..Len(listeners)
        \/ pc' = "derive"
    BY <1>0, <1>5, <2>1, TurnMoves DEF BuildListener
  <2>4. QED
    BY <2>1, <2>2, <2>3 DEF LoopInv
<1>6. CASE Derive
  BY <1>6 DEF Derive, LoopInv
<1>7. CASE Reparse
  <2>1. /\ pc' = "scan" /\ i' = 1 /\ kept' = <<>> /\ removed' = <<>> /\ listeners' = listeners
        /\ listeners # <<>>
    BY <1>7 DEF Reparse
  <2>2. i' \in 1..Len(listeners')
    BY <1>0, <2>1
  <2>3. QED
    BY <2>1, <2>2 DEF LoopInv
<1>8. CASE UNCHANGED vars
  <2>1. UNCHANGED <<listeners, advertised, protocolMap, pc, i, internal, kept, removed>>
    BY <1>8 DEF vars
  <2>2. Passed' = Passed /\ Kept' = Kept /\ Removed' = Removed /\ Listed' = Listed
    BY <2>1 DEF Passed, Kept, Removed, Listed
  <2>3. QED
    BY <2>1, <2>2 DEF LoopInv
<1>9. QED
  BY <1>1, <1>2, <1>3, <1>4, <1>5, <1>6, <1>7, <1>8 DEF Next

-----------------------------------------------------------------------------
(* What a conversion leaves of its source.                                 *)

\* A step keeps the account of the three properties.
LEMMA StepSource ==
  ASSUME TypeOK, LoopInv, SourceInv, [Next]_vars PROVE SourceInv'
<1> USE DEF raw, result, history
<1>0. /\ parses \in {1, 2} /\ internal \subseteq Names
      /\ source' = source
      /\ Source' = Source /\ SourceInternal' = SourceInternal
  <2>1. source' = source
    BY DEF Next, ScanListener, MarkInternal, StripEntry, DropInternal, BuildListener, Derive,
           Reparse, vars
  <2>2. Source' = Source
    BY <2>1 DEF Source
  <2>3. QED
    BY <2>1, <2>2 DEF SourceInternal, TypeOK
<1>1. CASE ScanListener
  <2>1. pc = "scan" /\ pc' \in {"scan", "mark"}
    BY <1>1 DEF ScanListener, Turn
  <2>2. /\ UNCHANGED <<listeners, protocolMap, controllers, interBroker, parses, removed>>
        /\ Listed' = Listed /\ Removed' = Removed
    BY <1>1 DEF ScanListener, Listed, Removed
  <2>3. Stripped' = Stripped
    BY <2>1, <2>2 DEF Stripped
  <2>4. QED
    BY <1>0, <2>1, <2>2, <2>3 DEF SourceInv
<1>2. CASE MarkInternal
  <2>1. pc = "mark" /\ pc' = "strip"
    BY <1>2 DEF MarkInternal
  <2>2. /\ UNCHANGED <<listeners, protocolMap, controllers, interBroker, parses, removed>>
        /\ Listed' = Listed /\ Removed' = Removed
    BY <1>2 DEF MarkInternal, Listed, Removed
  <2>3. Stripped' <=> Stripped
    BY <2>1, <2>2 DEF Stripped
  <2>4. internal' = IF parses = 1 THEN SourceInternal ELSE {}
    <3>1. CASE parses = 1
      <4>1. listeners = source.listeners /\ controllers = source.controllers
            /\ interBroker = source.interBroker
        BY <2>1, <3>1 DEF SourceInv, Stripped
      <4>2. Listed = Source
        BY <4>1 DEF Listed, Source
      <4>3. QED
        BY <1>2, <3>1, <4>1, <4>2 DEF MarkInternal, HasOtherClientListener, SourceInternal
    <3>2. CASE parses = 2
      BY <1>2, <3>2 DEF MarkInternal, SourceInv
    <3>3. QED
      BY <1>0, <3>1, <3>2
  <2>5. QED
    BY <1>0, <2>1, <2>2, <2>3, <2>4 DEF SourceInv
<1>3. CASE StripEntry
  <2>1. pc = "strip" /\ pc' \in {"strip", "drop"}
    BY <1>3 DEF StripEntry, Turn
  <2>2. /\ UNCHANGED <<listeners, protocolMap, controllers, interBroker, parses, internal>>
        /\ Listed' = Listed
    BY <1>3 DEF StripEntry, Listed
  <2>3. parses = 2 => removed' = removed
    <3>1. parses = 2 => internal = {}
      BY <2>1 DEF SourceInv
    <3>2. QED
      BY <1>3, <3>1 DEF StripEntry
  <2>4. (Stripped' <=> Stripped) /\ (Stripped => parses = 2)
    BY <2>1, <2>2 DEF Stripped
  <2>5. QED
    BY <1>0, <2>1, <2>2, <2>3, <2>4 DEF SourceInv
<1>4. CASE DropInternal
  <2>1. pc = "drop" /\ pc' \in {"build", "derive"} /\ Stripped'
    BY <1>4 DEF DropInternal, Stripped
  <2>2. /\ UNCHANGED <<controllers, interBroker, parses, internal, removed>>
        /\ listeners' = kept /\ protocolMap' = Dropped(protocolMap)
    BY <1>4 DEF DropInternal
  <2>3. Kept = Listed \ internal /\ Removed = Listed \cap internal
    BY <2>1 DEF LoopInv
  <2>4. Listed' = Listed \ internal /\ Removed' = Listed \cap internal
    BY <2>2, <2>3 DEF Listed, Kept, Removed
  <2>5. \A n \in Names \ internal : protocolMap'[n] = protocolMap[n]
    BY <2>2 DEF Dropped
  <2>6. CASE parses = 1
    <3>1. listeners = source.listeners /\ protocolMap = source.protocolMap
          /\ internal = SourceInternal
      BY <2>1, <2>6 DEF SourceInv, Stripped
    <3>2. Listed = Source
      BY <3>1 DEF Listed, Source
    <3>3. QED
      BY <1>0, <2>1, <2>2, <2>4, <2>5, <2>6, <3>1, <3>2 DEF SourceInv
  <2>7. CASE parses = 2
    <3>1. Stripped /\ internal = {}
      BY <2>1, <2>7 DEF SourceInv, Stripped
    <3>2. QED
      BY <1>0, <2>1, <2>2, <2>4, <2>5, <2>7, <3>1 DEF SourceInv
  <2>8. QED
    BY <1>0, <2>6, <2>7
<1>5. CASE BuildListener \/ Derive
  <2>1. pc \in {"build", "derive"} /\ pc' \in {"build", "derive", "done"}
    BY <1>5 DEF BuildListener, Derive, Turn
  <2>2. /\ UNCHANGED <<listeners, protocolMap, controllers, interBroker, parses, removed, internal>>
        /\ Listed' = Listed /\ Removed' = Removed
    BY <1>5 DEF BuildListener, Derive, Listed, Removed
  <2>3. Stripped' /\ Stripped
    BY <2>1 DEF Stripped
  <2>4. QED
    BY <1>0, <2>1, <2>2, <2>3 DEF SourceInv
<1>6. CASE Reparse
  <2>1. pc = "done" /\ pc' = "scan" /\ parses = 1 /\ parses' = 2 /\ Stripped /\ Stripped'
    BY <1>6 DEF Reparse, Stripped
  <2>2. /\ UNCHANGED <<listeners, protocolMap>> /\ Listed' = Listed
        /\ controllers' = {} /\ interBroker' = Unset /\ removed' = <<>>
    BY <1>6 DEF Reparse, Listed
  <2>3. QED
    BY <1>0, <2>1, <2>2 DEF SourceInv
<1>7. CASE UNCHANGED vars
  <2>1. /\ UNCHANGED <<listeners, protocolMap, controllers, interBroker, parses, removed, internal, pc>>
        /\ Listed' = Listed /\ Removed' = Removed
    BY <1>7 DEF vars, Listed, Removed
  <2>2. Stripped' <=> Stripped
    BY <2>1 DEF Stripped
  <2>3. QED
    BY <1>0, <2>1, <2>2 DEF SourceInv
<1>8. QED
  BY <1>1, <1>2, <1>3, <1>4, <1>5, <1>6, <1>7 DEF Next

\* The second parse keeps what it was given.
LEMMA StepReparse ==
  ASSUME TypeOK, LoopInv, SourceInv, ReparseInv, [Next]_vars PROVE ReparseInv'
<1> USE DEF raw, result, history
<1>0. /\ listeners \in Seq(Names) /\ Len(listeners) \in Nat /\ kept \in Seq(Names) /\ i \in Nat
  BY DEF TypeOK
<1>1. CASE MarkInternal
  <2>1. /\ pc' = "strip" /\ i' = 1 /\ kept' = <<>> /\ listeners' = listeners
    BY <1>1 DEF MarkInternal, LoopInv
  <2>2. QED
    BY <2>1 DEF ReparseInv
<1>2. CASE StripEntry
  <2> SUFFICES ASSUME parses' = 2
               PROVE  /\ pc' = "strip" => /\ Len(kept') = i' - 1
                                          /\ \A k \in 1..(i' - 1) : kept'[k] = listeners'[k]
                      /\ pc' = "drop" => kept' = listeners'
    BY DEF ReparseInv
  <2>1. pc = "strip" /\ parses = 2 /\ listeners' = listeners
    BY <1>2 DEF StripEntry, Turn
  <2>2. internal = {} /\ i \in 1..Len(listeners)
    BY <2>1 DEF SourceInv, LoopInv
  <2>3. Here \in Names
    BY <1>0, <2>2, HereType
  <2>4. kept' = Append(kept, Here)
    BY <1>2, <2>2 DEF StripEntry
  <2>5. Len(kept) = i - 1 /\ \A k \in 1..(i - 1) : kept[k] = listeners[k]
    BY <2>1 DEF ReparseInv
  <2>6. /\ kept' \in Seq(Names) /\ Len(kept') = i
        /\ \A k \in 1..(i - 1) : kept'[k] = listeners[k]
        /\ kept'[i] = listeners[i]
    <3>1. /\ kept' \in Seq(Names) /\ Len(kept') = Len(kept) + 1
          /\ \A k \in 1..Len(kept) : kept'[k] = kept[k]
          /\ kept'[Len(kept) + 1] = Here
      BY <1>0, <2>3, <2>4, Appended
    <3>2. Len(kept) + 1 = i
      BY <1>0, <2>5
    <3>3. QED
      BY <2>5, <3>1, <3>2 DEF Here
  <2>7. \A k \in 1..i : kept'[k] = listeners[k]
    <3>1. \A k \in 1..i : k \in 1..(i - 1) \/ k = i
      BY <1>0
    <3>2. QED
      BY <2>6, <3>1
  <2>8. \/ i' = i + 1 /\ pc' = "strip"
        \/ i = Len(listeners) /\ pc' = "drop"
    BY <1>0, <1>2, <2>2, TurnMoves DEF StripEntry
  <2>9. CASE i' = i + 1 /\ pc' = "strip"
    <3>1. i' - 1 = i
      BY <1>0, <2>9
    <3>2. QED
      BY <2>1, <2>6, <2>7, <2>9, <3>1
  <2>10. CASE i = Len(listeners) /\ pc' = "drop"
    <3>1. kept' = listeners
      BY <1>0, <2>6, <2>7, <2>10
    <3>2. QED
      BY <2>1, <2>10, <3>1
  <2>11. QED
    BY <2>8, <2>9, <2>10
<1>3. CASE ScanListener \/ DropInternal \/ BuildListener \/ Derive \/ Reparse
  <2>1. pc' \in {"scan", "mark", "build", "derive", "done"}
    BY <1>3 DEF ScanListener, DropInternal, BuildListener, Derive, Reparse, Turn
  <2>2. QED
    BY <2>1 DEF ReparseInv
<1>4. CASE UNCHANGED vars
  BY <1>4 DEF vars, ReparseInv
<1>5. QED
  BY <1>1, <1>2, <1>3, <1>4 DEF Next

-----------------------------------------------------------------------------
(* The entries.                                                            *)

\* The result depends on the three properties only.
LEMMA SameResult ==
  ASSUME UNCHANGED <<listeners, advertised, protocolMap>>
  PROVE  Built' = Built /\ BuiltResult' = BuiltResult
<1>1. \A n : Entry(n)' = Entry(n) /\ (NeedsAuth(n)' <=> NeedsAuth(n))
  BY DEF Entry, AdvHost, NeedsAuth
<1>2. Built' = Built
  BY <1>1 DEF Built
<1>3. (\E k \in 1..Len(listeners) : NeedsAuth(listeners[k]))'
        = (\E k \in 1..Len(listeners) : NeedsAuth(listeners[k]))
  BY <1>1
<1>4. QED
  BY <1>2, <1>3 DEF BuiltResult

\* A second stripping changes none of them.
LEMMA SecondDrop ==
  ASSUME TypeOK, SourceInv, ReparseInv, DropInternal, parses = 2
  PROVE  UNCHANGED <<listeners, advertised, protocolMap>>
<1>1. internal = {} /\ kept = listeners
  BY DEF DropInternal, SourceInv, ReparseInv
<1>2. Dropped(advertised) = advertised /\ Dropped(protocolMap) = protocolMap
  BY <1>1 DEF Dropped, TypeOK
<1>3. QED
  BY <1>1, <1>2 DEF DropInternal

\* What the built list holds.
LEMMA BuiltType ==
  ASSUME TypeOK
  PROVE  /\ Built \in Seq(ListenerDef) /\ Len(Built) = Len(listeners) /\ Len(listeners) \in Nat
         /\ \A k \in 1..Len(listeners) : Built[k] = Entry(listeners[k])
<1>1. listeners \in Seq(Names) /\ Len(listeners) \in Nat
  BY DEF TypeOK
<1>2. \A k \in 1..Len(listeners) : Entry(listeners[k]) \in ListenerDef
  BY <1>1, EntryType
<1>3. QED
  BY <1>1, <1>2 DEF Built

\* A turn of the last loop builds one more entry.
LEMMA BuildExtends ==
  ASSUME TypeOK, LoopInv, EntriesInv, BuildListener
  PROVE  /\ entries' \in Seq(ListenerDef) /\ Len(entries') = i
         /\ \A k \in 1..i : entries'[k] = Built[k]
<1>1. pc = "build" /\ i \in 1..Len(listeners)
  BY DEF BuildListener, Turn, LoopInv
<1>2. /\ listeners \in Seq(Names) /\ entries \in Seq(ListenerDef) /\ i \in Nat \ {0}
      /\ Len(listeners) \in Nat
  BY DEF TypeOK
<1>3. Here \in Names
  BY <1>1, <1>2, HereType
<1>4. Entry(Here) \in ListenerDef
  BY <1>3, EntryType
<1>5. entries' = Append(entries, Entry(Here))
  BY DEF BuildListener
<1>6. Len(entries) = i - 1 /\ \A k \in 1..(i - 1) : entries[k] = Built[k]
  BY <1>1 DEF EntriesInv
<1>7. Built[i] = Entry(Here)
  BY <1>1, BuiltType DEF Here
<1>8. /\ entries' \in Seq(ListenerDef) /\ Len(entries') = Len(entries) + 1
      /\ \A k \in 1..Len(entries) : entries'[k] = entries[k]
      /\ entries'[Len(entries) + 1] = Entry(Here)
  BY <1>2, <1>4, <1>5, Appended
<1>9. Len(entries) + 1 = i /\ \A k \in 1..i : k \in 1..(i - 1) \/ k = i
  BY <1>2, <1>6
<1>10. QED
  BY <1>6, <1>7, <1>8, <1>9

\* The three values that are derived are those of the list that was built.
LEMMA DerivedResult ==
  ASSUME TypeOK, entries = Built
  PROVE  DerivesSecure = BuiltResult.secure /\ FirstListener = BuiltResult.kof
<1>1. /\ Len(entries) = Len(listeners) /\ Len(listeners) \in Nat
      /\ \A k \in 1..Len(listeners) : entries[k] = Entry(listeners[k])
  BY BuiltType
<1>2. \A k \in 1..Len(listeners) :
        entries[k].auth = NeedsAuth(listeners[k]) /\ entries[k].name = listeners[k]
  BY <1>1, EntryFields
<1>3. DerivesSecure = (\E k \in 1..Len(listeners) : NeedsAuth(listeners[k]))
  BY <1>1, <1>2 DEF DerivesSecure
<1>4. FirstListener = IF listeners = <<>> THEN Unset ELSE listeners[1]
  <2>1. entries \in Seq(ListenerDef) /\ listeners \in Seq(Names)
    BY DEF TypeOK
  <2>2. CASE listeners = <<>>
    BY <1>1, <2>1, <2>2 DEF FirstListener
  <2>3. CASE listeners # <<>>
    <3>1. 1 \in 1..Len(listeners) /\ entries # <<>>
      BY <1>1, <2>1, <2>3
    <3>2. QED
      BY <1>2, <2>3, <3>1 DEF FirstListener
  <2>4. QED
    BY <2>2, <2>3
<1>5. QED
  BY <1>3, <1>4 DEF BuiltResult

\* A step keeps the account of the entries.
LEMMA StepEntries ==
  ASSUME TypeOK, LoopInv, SourceInv, ReparseInv, EntriesInv, [Next]_vars PROVE EntriesInv'
<1> USE DEF raw, result, history
<1>0. parses \in {1, 2}
  BY DEF TypeOK
<1>1. CASE ScanListener \/ MarkInternal \/ StripEntry
  <2>1. UNCHANGED <<listeners, advertised, protocolMap, entries, before, parses>>
    BY <1>1 DEF ScanListener, MarkInternal, StripEntry
  <2>2. /\ pc \in {"scan", "mark", "strip", "drop"} /\ pc' \in {"scan", "mark", "strip", "drop"}
    BY <1>1 DEF ScanListener, MarkInternal, StripEntry, Turn
  <2>3. BuiltResult' = BuiltResult
    BY <2>1, SameResult
  <2>4. entries' = <<>> /\ (parses' = 2 => before' = BuiltResult')
    BY <2>1, <2>2, <2>3 DEF EntriesInv
  <2>5. QED
    BY <2>2, <2>4 DEF EntriesInv
<1>2. CASE DropInternal
  <2>1. /\ UNCHANGED <<entries, before, parses>> /\ i' = 1 /\ entries = <<>>
        /\ listeners' = kept /\ pc' = IF kept = <<>> THEN "derive" ELSE "build"
    BY <1>2 DEF DropInternal, LoopInv, EntriesInv
  <2>2. parses' = 2 => before' = BuiltResult'
    <3>1. parses = 2 => BuiltResult' = BuiltResult
      BY <1>2, SecondDrop, SameResult
    <3>2. QED
      BY <2>1, <3>1 DEF EntriesInv
  <2>3. pc' = "derive" => entries' = Built'
    <3>1. kept = <<>> => Built' = <<>>
      BY <2>1 DEF Built
    <3>2. QED
      BY <2>1, <3>1
  <2>4. pc' = "build" => /\ Len(entries') = i' - 1
                         /\ \A k \in 1..(i' - 1) : entries'[k] = Built'[k]
    BY <2>1
  <2>5. pc' \in {"derive", "build"}
    BY <2>1
  <2>6. QED
    BY <2>2, <2>3, <2>4, <2>5 DEF EntriesInv
<1>3. CASE BuildListener
  <2>1. UNCHANGED <<listeners, advertised, protocolMap, before, parses>>
    BY <1>3 DEF BuildListener
  <2>2. Built' = Built /\ BuiltResult' = BuiltResult
    BY <2>1, SameResult
  <2>3. /\ entries' \in Seq(ListenerDef) /\ Len(entries') = i
        /\ \A k \in 1..i : entries'[k] = Built[k]
    BY <1>3, BuildExtends
  <2>4. pc = "build" /\ i \in 1..Len(listeners) /\ Len(listeners) \in Nat
    BY <1>3 DEF BuildListener, Turn, LoopInv, TypeOK
  <2>5. \/ i' = i + 1 /\ pc' = "build"
        \/ i = Len(listeners) /\ pc' = "derive"
    BY <1>3, <2>4, TurnMoves DEF BuildListener
  <2>6. parses' = 2 => before' = BuiltResult'
    BY <2>1, <2>2 DEF EntriesInv
  <2>7. CASE i' = i + 1 /\ pc' = "build"
    <3>1. i' - 1 = i
      BY <2>4, <2>7
    <3>2. QED
      BY <2>2, <2>3, <2>6, <2>7, <3>1 DEF EntriesInv
  <2>8. CASE i = Len(listeners) /\ pc' = "derive"
    <3>1. Built \in Seq(ListenerDef) /\ Len(Built) = Len(listeners)
      BY BuiltType
    <3>2. entries' = Built
      BY <2>3, <2>4, <2>8, <3>1
    <3>3. QED
      BY <2>2, <2>6, <2>8, <3>2 DEF EntriesInv
  <2>9. QED
    BY <2>5, <2>7, <2>8
<1>4. CASE Derive
  <2>1. /\ UNCHANGED <<listeners, advertised, protocolMap, entries, parses>>
        /\ pc = "derive" /\ pc' = "done"
        /\ isSecure' = DerivesSecure /\ kofHost' = FirstListener
        /\ before' = IF parses = 1 THEN [entries |-> entries, secure |-> isSecure', kof |-> kofHost']
                     ELSE before
    BY <1>4 DEF Derive
  <2>2. Built' = Built /\ BuiltResult' = BuiltResult
    BY <2>1, SameResult
  <2>3. entries = Built
    BY <2>1 DEF EntriesInv
  <2>4. isSecure' = BuiltResult.secure /\ kofHost' = BuiltResult.kof
    BY <2>1, <2>3, DerivedResult
  <2>5. BuiltResult = [entries |-> Built, secure |-> BuiltResult.secure, kof |-> BuiltResult.kof]
    BY DEF BuiltResult
  <2>6. before' = BuiltResult
    <3>1. CASE parses = 1
      BY <2>1, <2>3, <2>4, <2>5, <3>1
    <3>2. CASE parses = 2
      BY <2>1, <3>2 DEF EntriesInv
    <3>3. QED
      BY <1>0, <3>1, <3>2
  <2>7. QED
    BY <2>1, <2>2, <2>3, <2>4, <2>6 DEF EntriesInv
<1>5. CASE Reparse
  <2>1. /\ UNCHANGED <<listeners, advertised, protocolMap, before>>
        /\ pc = "done" /\ pc' = "scan" /\ entries' = <<>>
    BY <1>5 DEF Reparse
  <2>2. before' = BuiltResult'
    BY <2>1, SameResult DEF EntriesInv
  <2>3. QED
    BY <2>1, <2>2 DEF EntriesInv
<1>6. CASE UNCHANGED vars
  <2>1. UNCHANGED <<listeners, advertised, protocolMap, entries, before, parses, pc, i, isSecure, kofHost>>
    BY <1>6 DEF vars
  <2>2. Built' = Built /\ BuiltResult' = BuiltResult
    BY <2>1, SameResult
  <2>3. QED
    BY <2>1, <2>2 DEF EntriesInv
<1>7. QED
  BY <1>1, <1>2, <1>3, <1>4, <1>5, <1>6 DEF Next

-----------------------------------------------------------------------------
(* The theorems.                                                           *)

\* The inductive invariant holds in every run.
THEOREM ListenersInvariant == Spec => []ListenersInv
<1>1. Init => ListenersInv
  <2> SUFFICES ASSUME Init PROVE ListenersInv
    OBVIOUS
  <2>1. listeners \in Seq(Names) /\ listeners # <<>> /\ Listed \subseteq Names
    BY ConstantsAssumption DEF Init, Listed
  <2>2. advertised \in [Names -> AdvHosts \cup {Unset}]
    <3>1. PICK a \in [Listed -> AdvHosts] :
             advertised = [n \in Names |-> IF n \in Listed THEN a[n] ELSE Unset]
      BY DEF Init
    <3>2. QED
      BY <3>1
  <2>3. protocolMap \in [Names -> Protocols \cup {Unset}]
    <3>1. PICK p \in [Listed -> Protocols \cup {Unset}] :
             protocolMap = [n \in Names |-> IF n \in Listed THEN p[n] ELSE Unset]
      BY DEF Init
    <3>2. QED
      BY <3>1
  <2>4. /\ source.listeners = listeners /\ source.protocolMap = protocolMap
        /\ source.controllers = controllers /\ source.interBroker = interBroker
    BY DEF Init
  <2>5. kept \in Seq(Names) /\ removed \in Seq(RemovedListener) /\ entries \in Seq(ListenerDef)
    BY DEF Init
  <2>6. isSecure \in BOOLEAN
    BY DEF Init
  <2>7. TypeOK
    BY <2>1, <2>2, <2>3, <2>5, <2>6 DEF Init, TypeOK
  <2>8. LoopInv
    BY <2>1 DEF Init, LoopInv
  <2>9. SourceInv
    BY <2>1, <2>3, <2>4 DEF Init, SourceInv, Stripped
  <2>10. ReparseInv
    BY DEF Init, ReparseInv
  <2>11. EntriesInv
    BY DEF Init, EntriesInv
  <2>12. QED
    BY <2>7, <2>8, <2>9, <2>10, <2>11 DEF ListenersInv
<1>2. ListenersInv /\ [Next]_vars => ListenersInv'
  BY StepTypes, StepLoop, StepSource, StepReparse, StepEntries DEF ListenersInv
<1>3. QED
  BY <1>1, <1>2, PTL DEF Spec

\* The names of the entries are the listeners that the file keeps.
LEMMA EntriesAreListed ==
  ASSUME ListenersInv, pc = "done"
  PROVE  Entries = Listed /\ Listed = Source \ SourceInternal
<1>1. TypeOK /\ entries = Built /\ Listed = Source \ SourceInternal
  BY DEF ListenersInv, EntriesInv, SourceInv, Stripped
<1>2. Len(entries) = Len(listeners) /\ \A k \in 1..Len(listeners) : entries[k] = Entry(listeners[k])
  BY <1>1, BuiltType
<1>3. \A k \in 1..Len(listeners) : entries[k].name = listeners[k]
  BY <1>2, EntryFields
<1>4. QED
  BY <1>1, <1>2, <1>3 DEF Entries, Listed

\* Clients lose no way in, whatever the source says of its listeners.
THEOREM ClientsServed == Spec => []ClientListenersServed
<1>1. ListenersInv => ClientListenersServed
  <2> SUFFICES ASSUME ListenersInv, pc = "done"
               PROVE  LET clients == Source \ source.controllers
                      IN /\ Entries = IF clients = {source.interBroker} THEN clients
                                      ELSE clients \ {source.interBroker}
                         /\ clients # {} => Entries # {}
    BY DEF ClientListenersServed
  <2> DEFINE clients == Source \ source.controllers
             ib == source.interBroker
  <2>1. Entries = Source \ SourceInternal
    BY EntriesAreListed
  <2>2. Source \subseteq Names /\ Unset \notin Names
    BY ConstantsAssumption DEF ListenersInv, SourceInv, Source
  <2>3. SourceInternal = source.controllers
                           \cup (IF ib # Unset /\ clients \ {ib} # {} THEN {ib} ELSE {})
    <3>1. Source \ (source.controllers \cup {ib}) = clients \ {ib}
      OBVIOUS
    <3>2. QED
      BY <3>1 DEF SourceInternal
  <2> HIDE DEF ib
  <2>4. Entries = clients \ (IF ib # Unset /\ clients \ {ib} # {} THEN {ib} ELSE {})
    BY <2>1, <2>3
  <2>5. clients \subseteq Names
    BY <2>2
  <2> HIDE DEF clients
  <2>6. Entries = IF clients = {ib} THEN clients ELSE clients \ {ib}
    BY <2>2, <2>4, <2>5
  <2>7. clients # {} => Entries # {}
    BY <2>4
  <2>8. QED
    BY <2>6, <2>7 DEF clients, ib
<1>2. QED
  BY <1>1, ListenersInvariant, PTL

\* The written properties, the listeners the conversion works from, the report of
\* what is gone and the security of the cluster agree.
THEOREM StrippingIsConsistent == Spec => []StrippedConsistently
<1>1. ListenersInv => StrippedConsistently
  <2> SUFFICES ASSUME ListenersInv, pc = "done"
               PROVE  /\ Listed = Entries
                      /\ \A n \in internal : advertised[n] = Unset /\ protocolMap[n] = Unset
                      /\ Entries \cap source.controllers = {}
                      /\ parses = 1 => Source = Entries \cup Removed /\ Entries \cap Removed = {}
                      /\ isSecure <=> \E n \in Entries : source.protocolMap[n] \in Secured
    BY DEF StrippedConsistently
  <2>1. Entries = Listed /\ Listed = Source \ SourceInternal
    BY EntriesAreListed
  <2>2. \A n \in internal : advertised[n] = Unset /\ protocolMap[n] = Unset
    BY DEF ListenersInv, LoopInv
  <2>3. Entries \cap source.controllers = {}
    BY <2>1 DEF SourceInternal
  <2>4. parses = 1 => Source = Entries \cup Removed /\ Entries \cap Removed = {}
    <3>1. parses = 1 => Removed = Source \cap SourceInternal
      BY DEF ListenersInv, SourceInv, Stripped
    <3>2. QED
      BY <2>1, <3>1
  <2>5. isSecure <=> \E n \in Entries : source.protocolMap[n] \in Secured
    <3>1. isSecure = (\E k \in 1..Len(listeners) : NeedsAuth(listeners[k]))
      BY DEF ListenersInv, EntriesInv, BuiltResult
    <3>2. isSecure <=> \E k \in 1..Len(listeners) : NeedsAuth(listeners[k])
      BY <3>1
    <3>3. (\E k \in 1..Len(listeners) : NeedsAuth(listeners[k]))
            <=> \E n \in Listed : protocolMap[n] \in Secured
      BY DEF Listed, NeedsAuth
    <3>4. Source \subseteq Names
      BY DEF ListenersInv, SourceInv, Source
    <3>5. \A n \in Listed : protocolMap[n] = source.protocolMap[n]
      BY <2>1, <3>4 DEF ListenersInv, SourceInv, Stripped
    <3>6. QED
      BY <2>1, <3>2, <3>3, <3>5
  <2>6. QED
    BY <2>1, <2>2, <2>3, <2>4, <2>5
<1>2. QED
  BY <1>1, ListenersInvariant, PTL

\* Parsing the generated file gives what parsing the source gave.
THEOREM ReparseIsStable == Spec => []ReparseStable
<1>1. ListenersInv => ReparseStable
  <2> SUFFICES ASSUME ListenersInv, pc = "done", parses = 2
               PROVE  /\ removed = <<>>
                      /\ before = [entries |-> entries, secure |-> isSecure, kof |-> kofHost]
    BY DEF ReparseStable
  <2>1. removed = <<>>
    BY DEF ListenersInv, SourceInv
  <2>2. /\ before = BuiltResult /\ entries = Built
        /\ isSecure = BuiltResult.secure /\ kofHost = BuiltResult.kof
    BY DEF ListenersInv, EntriesInv
  <2>3. BuiltResult = [entries |-> Built, secure |-> BuiltResult.secure, kof |-> BuiltResult.kof]
    BY DEF BuiltResult
  <2>4. QED
    BY <2>1, <2>2, <2>3
<1>2. QED
  BY <1>1, ListenersInvariant, PTL
=============================================================================
