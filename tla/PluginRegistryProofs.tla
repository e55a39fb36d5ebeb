------------------------ MODULE PluginRegistryProofs ------------------------
(***************************************************************************)
(* What is proved of PluginRegistry, for every number of files and every   *)
(* set of manifests.                                                       *)
(***************************************************************************)
EXTENDS PluginRegistry, TLAPS

(* What holds between the registry and the report that a scan builds.      *)
Matches(reg, rep) ==
  /\ IsFirstWins(reg, rep)
  /\ TellsTruth(rep)
  /\ \A p \in Paths :
       IsManifest(rep, p) /\ rep[p].content.valid => reg[rep[p].content.id] # None

(* The paths already read come before those still to be read.              *)
InOrder == \A p \in Paths, q \in todo : entries[p] # None => p < q

Inv ==
  /\ TypeOK
  /\ Matches(registry, report)
  /\ Matches(building, entries)
  /\ InOrder

LEMMA BuiltInIsPlugin ==
  ASSUME NEW id \in BuiltIns
  PROVE  /\ WithBuiltIns[id] = [manifest |-> BuiltIn(id), builtIn |-> TRUE,
                                executable |-> id \in Executable]
         /\ WithBuiltIns[id] \in Plugin /\ WithBuiltIns[id] # None
<1>1. WithBuiltIns[id] = [manifest |-> BuiltIn(id), builtIn |-> TRUE,
                          executable |-> id \in Executable]
  BY RegistryAssumption DEF WithBuiltIns
<1>2. BuiltIn(id) \in Manifests \cup {BuiltIn(i) : i \in BuiltIns}
  OBVIOUS
<1>3. WithBuiltIns[id] \in Plugin
  <2>1. CASE id \in Executable
    <3>1. WithBuiltIns[id] = [manifest |-> BuiltIn(id), builtIn |-> TRUE, executable |-> TRUE]
      BY <1>1, <2>1
    <3>2. QED
      BY <1>2, <3>1 DEF Plugin
  <2>2. CASE id \notin Executable
    <3>0. (id \in Executable) = FALSE
      BY <2>2
    <3>1. WithBuiltIns[id] = [manifest |-> BuiltIn(id), builtIn |-> TRUE, executable |-> FALSE]
      BY <1>1, <3>0, Zenon
    <3>2. QED
      BY <1>2, <3>1 DEF Plugin
  <2>3. QED
    BY <2>1, <2>2
<1>4. QED
  BY <1>1, <1>3, RegistryAssumption

LEMMA BuiltInsTyped == WithBuiltIns \in [Ids -> Plugin \cup {None}]
<1>1. \A id \in Ids : WithBuiltIns[id] \in Plugin \cup {None}
  BY BuiltInIsPlugin DEF WithBuiltIns
<1>2. QED
  BY <1>1 DEF WithBuiltIns

LEMMA BuiltInsMatch == Matches(WithBuiltIns, NoEntries)
<1>1. \A p \in Paths : NoEntries[p] = None
  BY DEF NoEntries
<1>2. \A p \in Paths : ~IsManifest(NoEntries, p) /\ ~Wins(NoEntries, p)
  BY <1>1 DEF IsManifest, Wins
<1>3. \A id \in Ids \ BuiltIns : WithBuiltIns[id] = None
  BY DEF WithBuiltIns
<1>4. QED
  BY <1>1, <1>2, <1>3 DEF Matches, IsFirstWins, TellsTruth

LEMMA InvInit == Init => Inv
<1> SUFFICES ASSUME Init PROVE Inv
  OBVIOUS
<1>1. TypeOK
  BY BuiltInsTyped DEF Init, TypeOK, NoEntries
<1>2. Matches(registry, report) /\ Matches(building, entries)
  BY BuiltInsMatch DEF Init
<1>3. InOrder
  BY DEF Init, InOrder
<1>4. QED
  BY <1>1, <1>2, <1>3 DEF Inv

(* The next path in order adds an entry to the report, and perhaps a       *)
(* plugin to the registry.                                                 *)
LEMMA ReadStep ==
  ASSUME Inv, ReadManifest
  PROVE  TypeOK' /\ Matches(building', entries') /\ InOrder'
<1>1. PICK p \in todo :
        /\ \A q \in todo : p <= q
        /\ todo' = todo \ {p}
        /\ \/ /\ files[p] \in {Malformed, Missing}
              /\ entries' = [entries EXCEPT ![p] = [status |-> "rejected", content |-> Malformed]]
              /\ UNCHANGED building
           \/ /\ files[p] \in Manifests
              /\ RegisterManifest(files[p])
              /\ entries' = [entries EXCEPT ![p] = [status |-> StatusOf(files[p]),
                                                    content |-> files[p]]]
        /\ UNCHANGED <<dirVars, liveVars, scanning>>
  BY DEF ReadManifest
<1>2. /\ TypeOK /\ Matches(building, entries) /\ InOrder /\ p \in Paths /\ todo \subseteq Paths
      /\ entries \in [Paths -> Entry \cup {None}] /\ building \in [Ids -> Plugin \cup {None}]
      /\ Paths \subseteq Int
  BY <1>1, RegistryAssumption DEF Inv, TypeOK, Paths
<1>3. entries[p] = None /\ \A q \in Paths : entries[q] # None => q < p
  BY <1>1, <1>2 DEF InOrder
<1>4. InOrder'
  <2> SUFFICES ASSUME NEW r \in Paths, NEW q \in todo', entries'[r] # None PROVE r < q
    BY DEF InOrder
  <2>1. q \in todo /\ q # p /\ p <= q
    BY <1>1
  <2>2. r = p \/ entries[r] # None
    BY <1>1, <1>2
  <2>3. QED
    BY <1>2, <2>1, <2>2 DEF InOrder
\* Whoever won before still wins, and nobody but p can have won anew.
<1>5. \A r \in Paths \ {p} : entries'[r] = entries[r]
  BY <1>1, <1>2
<1>6. \A r \in Paths \ {p} : Wins(entries', r) <=> Wins(entries, r)
  <2> TAKE r \in Paths \ {p}
  <2>1. CASE entries[r] = None
    BY <1>5, <2>1 DEF Wins, IsManifest
  <2>2. CASE entries[r] # None
    <3>1. \A q \in Paths : q < r => q # p
      BY <1>2, <1>3, <2>2
    <3>2. \A q \in Paths : q < r => entries'[q] = entries[q]
      BY <1>5, <3>1
    <3>3. QED
      BY <1>5, <3>2 DEF Wins, IsManifest
  <2>3. QED
    BY <2>1, <2>2
<1>7. ~Wins(entries, p)
  BY <1>3 DEF Wins, IsManifest
<1>8. CASE files[p] \in {Malformed, Missing} /\ UNCHANGED building
                /\ entries' = [entries EXCEPT ![p] = [status |-> "rejected", content |-> Malformed]]
  <2>1. entries'[p] = [status |-> "rejected", content |-> Malformed]
    BY <1>2, <1>8
  <2>2. ~IsManifest(entries', p) /\ ~Wins(entries', p)
    BY <2>1 DEF IsManifest, Wins
  <2>3. Matches(building', entries')
    <3>1. IsFirstWins(building', entries')
      <4>1. \A r \in Paths : Wins(entries', r) <=> Wins(entries, r)
        BY <1>6, <1>7, <2>2
      <4>2. \A r \in Paths : Wins(entries, r) => entries'[r] = entries[r]
        BY <1>5, <1>7
      <4>3. IsFirstWins(building, entries) /\ building' = building
        BY <1>2, <1>8 DEF Matches
      <4>4. QED
        BY <4>1, <4>2, <4>3 DEF IsFirstWins
    <3>2. TellsTruth(entries')
      BY <1>2, <1>5, <1>6, <2>1, <2>2 DEF Matches, TellsTruth
    <3>3. \A r \in Paths : IsManifest(entries', r) => r # p /\ IsManifest(entries, r)
      BY <1>5, <2>2 DEF IsManifest
    <3>4. QED
      BY <1>2, <1>5, <1>8, <3>1, <3>2, <3>3 DEF Matches
  <2>4. TypeOK'
    BY <1>1, <1>2, <1>8 DEF TypeOK, Entry, Contents, dirVars, liveVars
  <2>5. QED
    BY <1>4, <2>3, <2>4
<1>9. ASSUME NEW m \in Manifests, files[p] = m, RegisterManifest(m),
             entries' = [entries EXCEPT ![p] = [status |-> StatusOf(m), content |-> m]]
      PROVE  TypeOK' /\ Matches(building', entries')
  <2>1. /\ entries'[p] = [status |-> StatusOf(m), content |-> m]
        /\ m \in [id : Ids, padded : BOOLEAN, valid : BOOLEAN, enabled : BOOLEAN]
        /\ m # Malformed /\ UserPlugin(m) \in Plugin /\ UserPlugin(m) # None
        /\ [status |-> StatusOf(m), content |-> m] \in Entry
        /\ None \notin Entry
    <3>1. UserPlugin(m) \in Plugin
      BY DEF UserPlugin, Plugin
    <3>2. m # Malformed /\ m \in Contents
      BY RegistryAssumption DEF Contents
    <3>3. StatusOf(m) \in {"accepted", "disabled", "rejected"}
      BY DEF StatusOf
    <3>4. [status |-> StatusOf(m), content |-> m] \in Entry
      BY <3>2, <3>3 DEF Entry
    <3>5. entries'[p] = [status |-> StatusOf(m), content |-> m]
      BY <1>2, <1>9
    <3>6. QED
      BY <3>1, <3>2, <3>4, <3>5, RegistryAssumption
  <2>2. IsManifest(entries', p) /\ entries'[p].content = m /\ entries'[p].status = StatusOf(m)
    BY <2>1 DEF IsManifest
  <2>3. Wins(entries', p) <=> ~Rejected(m)
    <3>1. \A q \in Paths : q < p => entries'[q] = entries[q]
      BY <1>2, <1>5
    <3>2. Wins(entries', p) <=>
            /\ m.valid /\ m.id \notin BuiltIns
            /\ \A q \in Paths : IsManifest(entries, q) /\ entries[q].content.valid
                                  => entries[q].content.id # m.id
      BY <1>3, <2>2, <3>1 DEF Wins, IsManifest
    <3>3. m.id \in BuiltIns => building[m.id] # None
      <4>1. m.id \in BuiltIns => building[m.id] = WithBuiltIns[m.id]
        BY <1>2 DEF Matches, IsFirstWins
      <4>2. QED
        BY <4>1, BuiltInIsPlugin
    <3>4. building[m.id] # None /\ m.id \notin BuiltIns =>
            \E q \in Paths : Wins(entries, q) /\ entries[q].content.id = m.id
      BY <1>2, <2>1 DEF Matches, IsFirstWins
    <3>5. \A q \in Paths : IsManifest(entries, q) /\ entries[q].content.valid
                             => building[entries[q].content.id] # None
      BY <1>2 DEF Matches
    <3>6. QED
      BY <3>2, <3>3, <3>4, <3>5 DEF Rejected, Wins
  <2>4. TypeOK'
    BY <1>1, <1>2, <1>9, <2>1 DEF TypeOK, RegisterManifest, dirVars, liveVars
  <2>5. CASE Rejected(m)
    <3>1. building' = building /\ StatusOf(m) = "rejected" /\ ~Wins(entries', p)
      BY <1>9, <2>3, <2>5 DEF RegisterManifest, StatusOf
    <3>2. IsFirstWins(building', entries')
      BY <1>2, <1>5, <1>6, <1>7, <3>1 DEF Matches, IsFirstWins
    <3>3. TellsTruth(entries')
      BY <1>2, <1>5, <1>6, <2>2, <3>1 DEF Matches, TellsTruth
    <3>4. m.valid => building[m.id] # None
      BY <2>5 DEF Rejected
    <3>5. QED
      BY <1>2, <1>5, <2>2, <2>4, <3>1, <3>2, <3>3, <3>4 DEF Matches, IsManifest
  <2>6. CASE ~Rejected(m)
    <3>1. /\ building' = [building EXCEPT ![m.id] = UserPlugin(m)]
          /\ building[m.id] = None /\ Wins(entries', p)
          /\ StatusOf(m) = IF m.enabled THEN "accepted" ELSE "disabled"
      BY <1>9, <2>3, <2>6 DEF RegisterManifest, StatusOf, Rejected
    <3>2. building'[m.id] = UserPlugin(m) /\ \A id \in Ids \ {m.id} : building'[id] = building[id]
      BY <1>2, <2>1, <3>1
    <3>3. m.id \notin BuiltIns
      BY <2>2, <3>1 DEF Wins
    <3>4. \A r \in Paths \ {p} : Wins(entries, r) => entries[r].content.id \in Ids \ {m.id}
      <4> SUFFICES ASSUME NEW r \in Paths \ {p}, Wins(entries, r)
                   PROVE  entries[r].content.id \in Ids \ {m.id}
        OBVIOUS
      <4>1. entries[r] \in Entry /\ entries[r].content \in Manifests
        BY <1>2 DEF Wins, IsManifest, Entry, Contents
      <4>2. building[entries[r].content.id] # None
        BY <1>2 DEF Matches, Wins
      <4>3. QED
        BY <3>1, <4>1, <4>2, RegistryAssumption
    <3>5. IsFirstWins(building', entries')
      <4>1. \A id \in BuiltIns : building'[id] = WithBuiltIns[id]
        BY <1>2, <3>2, <3>3, RegistryAssumption DEF Matches, IsFirstWins
      <4>2. ASSUME NEW r \in Paths, Wins(entries', r)
            PROVE  building'[entries'[r].content.id] = UserPlugin(entries'[r].content)
        <5>1. CASE r = p
          BY <2>2, <3>2, <5>1
        <5>2. CASE r # p
          BY <1>2, <1>5, <1>6, <3>2, <3>4, <4>2, <5>2 DEF Matches, IsFirstWins
        <5>3. QED
          BY <5>1, <5>2
      <4>3. ASSUME NEW id \in Ids \ BuiltIns, building'[id] # None
            PROVE  \E r \in Paths : Wins(entries', r) /\ entries'[r].content.id = id
        <5>1. CASE id = m.id
          BY <1>2, <2>2, <3>1, <5>1
        <5>2. CASE id # m.id
          <6>1. PICK r \in Paths : Wins(entries, r) /\ entries[r].content.id = id
            BY <1>2, <3>2, <4>3, <5>2 DEF Matches, IsFirstWins
          <6>2. r # p
            BY <1>7, <6>1
          <6>3. QED
            BY <1>5, <1>6, <6>1, <6>2
        <5>3. QED
          BY <5>1, <5>2
      <4>4. QED
        BY <4>1, <4>2, <4>3 DEF IsFirstWins
    <3>6. TellsTruth(entries')
      BY <1>2, <1>5, <1>6, <2>2, <3>1 DEF Matches, TellsTruth
    <3>7. ASSUME NEW r \in Paths, IsManifest(entries', r), entries'[r].content.valid
          PROVE  building'[entries'[r].content.id] # None
      <4>1. CASE r = p
        BY <2>1, <2>2, <3>2, <4>1
      <4>2. CASE r # p
        <5>1. IsManifest(entries, r) /\ entries[r].content.valid
          BY <1>5, <3>7, <4>2 DEF IsManifest
        <5>2. building[entries[r].content.id] # None
          BY <1>2, <5>1 DEF Matches
        <5>3. entries[r].content.id \in Ids
          BY <1>2, <5>1, RegistryAssumption DEF IsManifest, Entry, Contents
        <5>4. QED
          BY <1>5, <2>1, <3>2, <4>2, <5>2, <5>3
      <4>3. QED
        BY <4>1, <4>2
    <3>8. QED
      BY <2>4, <3>5, <3>6, <3>7 DEF Matches
  <2>7. QED
    BY <2>5, <2>6
<1>10. QED
  BY <1>1, <1>4, <1>8, <1>9

LEMMA InvStep == Inv /\ [Next]_vars => Inv'
<1> SUFFICES ASSUME Inv, [Next]_vars PROVE Inv'
  OBVIOUS
<1>1. CASE StartScan
  <2>1. TypeOK'
    BY <1>1, BuiltInsTyped DEF Inv, TypeOK, StartScan, NoEntries, dirVars, liveVars
  <2>2. Matches(registry', report') /\ Matches(building', entries')
    BY <1>1, BuiltInsMatch DEF Inv, StartScan, liveVars
  <2>3. InOrder'
    BY <1>1 DEF StartScan, InOrder, NoEntries
  <2>4. QED
    BY <2>1, <2>2, <2>3 DEF Inv
<1>2. CASE ReadManifest
  <2>1. UNCHANGED <<registry, report>>
    BY <1>2 DEF ReadManifest, liveVars
  <2>2. QED
    BY <1>2, <2>1, ReadStep DEF Inv
<1>3. CASE FinishScan
  BY <1>3 DEF FinishScan, Inv, TypeOK, InOrder, dirVars
<1>4. CASE SaveFile \/ LockDirectory \/ UNCHANGED vars
  <2>1. UNCHANGED <<liveVars, scanVars>>
    BY <1>4 DEF SaveFile, LockDirectory, vars
  <2>2. TypeOK'
    BY <1>4 DEF SaveFile, LockDirectory, vars, dirVars, liveVars, scanVars, Inv, TypeOK
  <2>3. QED
    BY <2>1, <2>2 DEF Inv, InOrder, liveVars, scanVars
<1>5. QED
  BY <1>1, <1>2, <1>3, <1>4 DEF Next

(* The invariant, from which the results below follow.                     *)
LEMMA Invariance == Spec => []Inv
  BY InvInit, InvStep, PTL DEF Spec

(* Types.                                                                  *)
THEOREM Typing == Spec => []TypeOK
<1>1. Inv => TypeOK
  BY DEF Inv
<1>2. QED
  BY <1>1, Invariance, PTL

(* A scan gives the registry it should give, however files change under it *)
(* and in whatever order it finds duplicates.                              *)
THEOREM ScanIsFirstWins == Spec => []FirstRegistrationWins
<1>1. Inv => FirstRegistrationWins
  BY DEF Inv, Matches, FirstRegistrationWins
<1>2. QED
  BY <1>1, Invariance, PTL

(* The report describes the registry in use.                               *)
THEOREM ReportIsTrue == Spec => []ReportMatchesRegistry
<1>1. Inv => ReportMatchesRegistry
  <2> SUFFICES ASSUME Inv PROVE ReportMatchesRegistry
    OBVIOUS
  <2>1. TellsTruth(report) /\ IsFirstWins(registry, report)
    BY DEF Inv, Matches
  <2>2. \A p \in Paths : report[p] # None /\ report[p].status # "rejected" => Wins(report, p)
    BY <2>1 DEF TellsTruth
  <2>3. QED
    BY <2>1, <2>2 DEF ReportMatchesRegistry, IsFirstWins
<1>2. QED
  BY <1>1, Invariance, PTL

(* Registry and report together are those of the scan.                     *)
THEOREM ScansAreSound == Spec => []ScanIsSound
<1>1. FirstRegistrationWins /\ ReportMatchesRegistry => ScanIsSound
  BY DEF ScanIsSound
<1>2. QED
  BY <1>1, ScanIsFirstWins, ReportIsTrue, PTL

(* Commands run for executable built-in plugins, and for nothing else.     *)
THEOREM UserPluginsNeverRun == Spec => []OnlyBuiltInsRun
<1>1. Inv => OnlyBuiltInsRun
  <2> SUFFICES ASSUME Inv, NEW id \in Ids
               PROVE  Authorize([id |-> id, padded |-> FALSE]) = "allowed" <=> id \in Executable
    BY DEF OnlyBuiltInsRun
  <2>1. IsFirstWins(registry, report)
    BY DEF Inv, Matches
  <2> DEFINE rid == [id |-> id, padded |-> FALSE]
  <2>2. CASE id \in BuiltIns
    <3>1. /\ registry[id] = [manifest |-> BuiltIn(id), builtIn |-> TRUE,
                             executable |-> id \in Executable]
          /\ registry[id] # None
      BY <2>1, <2>2, BuiltInIsPlugin DEF IsFirstWins
    <3>2. registry[id].manifest.enabled /\ registry[id].builtIn
      BY <3>1 DEF BuiltIn
    <3>3. registry[id].executable <=> id \in Executable
      <4>1. \A e \in BOOLEAN :
              [manifest |-> BuiltIn(id), builtIn |-> TRUE, executable |-> e].executable = e
        OBVIOUS
      <4>2. (id \in Executable) \in BOOLEAN
        OBVIOUS
      <4>3. QED
        BY <3>1, <4>1, <4>2, Zenon
    <3>4. Authorize(rid) = "allowed" <=> registry[id].executable
      BY <3>1, <3>2 DEF Authorize
    <3>5. QED
      BY <3>3, <3>4
  <2>3. CASE id \notin BuiltIns
    <3>1. registry[id] = None \/ ~registry[id].builtIn
      <4>1. registry[id] # None =>
              \E p \in Paths : Wins(report, p) /\ report[p].content.id = id
        BY <2>1, <2>3 DEF IsFirstWins
      <4>2. registry[id] # None =>
              \E p \in Paths : registry[id] = UserPlugin(report[p].content)
        BY <2>1, <4>1 DEF IsFirstWins
      <4>3. \A m : ~UserPlugin(m).builtIn
        BY DEF UserPlugin
      <4>4. QED
        BY <4>2, <4>3
    <3>2. Authorize(rid) # "allowed"
      BY <3>1 DEF Authorize
    <3>3. QED
      BY <2>3, <3>2, RegistryAssumption
  <2>4. QED
    BY <2>2, <2>3
<1>2. QED
  BY <1>1, Invariance, PTL
=============================================================================
