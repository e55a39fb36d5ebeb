------------------------- MODULE SettingsFileProofs -------------------------
(***************************************************************************)
(* Proofs about the two files the program keeps.                           *)
(*                                                                         *)
(* SettingsFile: type correctness, that the launcher and the daemon read   *)
(* the same capture settings from a file the launcher has settled, if the  *)
(* daemon's reader takes its text, that a repair is made once, and that it *)
(* keeps the user's other choices.  The first lemmas say what Load         *)
(* returns; the steps then only use those.                                 *)
(*                                                                         *)
(* UsageLog (the instance Log): type correctness, that a log in which      *)
(* nothing went wrong says what the memory does, and that what is lost is  *)
(* bounded by the overlaps and the breaks.                                 *)
(***************************************************************************)
EXTENDS SettingsFile, DaemonUsageLog, TLAPS, FiniteSetTheorems, SequenceTheorems, WellFoundedInduction

AnyFile == Files \cup {Missing, Torn}

-----------------------------------------------------------------------------
(* What Load returns *)

\* Normalizing an object keeps its choices and makes its numbers usable.
LEMMA NormalizedSection ==
  ASSUME NEW section \in Section
  PROVE  /\ Normalized(section) \in Section
         /\ Normalized(section).numbers = "ok"
         /\ Normalized(section).choice = section.choice
         /\ Normalized(Normalized(section)) = Normalized(section)
  BY DEF Normalized, Section, Numbers

\* Whatever was in the file, Load returns settings it can use.
LEMMA LoadedIsUsable ==
  ASSUME NEW f \in AnyFile
  PROVE  Loaded(f) \in Settings /\ Acceptable(Loaded(f))
  <1> USE SettingsAssumption
  <1>1. CASE f \notin Files
    BY <1>1 DEF Loaded, Defaults, DefaultSection, Settings, Hotkeys, Section,
                Numbers, Acceptable
  <1>2. CASE f \in Files
    <2> DEFINE c == f.content
               g == [c EXCEPT !.fastFlowLm = Normalized(c.fastFlowLm),
                              !.capture = Normalized(c.capture)]
    <2>0. c \in Settings
      BY <1>2 DEF Files
    <2>1. c.fastFlowLm \in Section /\ c.capture \in Section /\ c.hotkey \in Hotkeys
      BY <2>0 DEF Settings
    <2>2. /\ g \in Settings
          /\ g.hotkey = c.hotkey
          /\ g.fastFlowLm = Normalized(c.fastFlowLm)
          /\ g.capture = Normalized(c.capture)
      BY <2>0, <2>1, NormalizedSection DEF Settings
    <2>3. Loaded(f) = RepairedHotkey(g)
      BY <1>2 DEF Loaded, NormalizedSettings, Recovered
    <2>4. RepairedHotkey(g) \in Settings /\ Acceptable(RepairedHotkey(g))
      BY <2>1, <2>2, NormalizedSection
      DEF RepairedHotkey, Settings, Hotkeys, Acceptable
    <2> QED
      BY <2>3, <2>4
  <1> QED
    BY <1>1, <1>2

\* Usable settings are read back as they are and need no repair.
LEMMA UsableIsStable ==
  ASSUME NEW s \in Settings, Acceptable(s)
  PROVE  Loaded(SavedAs(s)) = s /\ ~ShouldPersist(SavedAs(s))
  <1>1. /\ s.fastFlowLm \in Section /\ s.capture \in Section
        /\ s.fastFlowLm.numbers = "ok" /\ s.capture.numbers = "ok"
        /\ s.hotkey # BrokenHotkey
    BY SettingsAssumption DEF Settings, Acceptable
  <1>2. Normalized(s.fastFlowLm) = s.fastFlowLm /\ Normalized(s.capture) = s.capture
    BY <1>1 DEF Normalized, Section
  <1>3. Deserializes(s)
    BY <1>1 DEF Deserializes
  <1>4. NormalizedSettings(s) = s
    BY <1>2 DEF NormalizedSettings, Settings
  <1>5. SavedAs(s) \in Files /\ SavedAs(s).content = s
    BY DEF SavedAs, Files, Objects
  <1> QED
    BY <1>1, <1>2, <1>3, <1>4, <1>5 DEF Loaded, RepairedHotkey, ShouldPersist

\* From a file that needs no repair both programs read the same capture
\* object, if the daemon's reader takes the text.
LEMMA UnrepairedIsAlike ==
  ASSUME NEW f, ~ShouldPersist(f)
  PROVE  /\ f \in Files
         /\ "capture" \notin f.refused => DaemonReads(f, "capture") = Loaded(f).capture
  <1> DEFINE c == f.content
  <1>1. /\ f \in Files
        /\ Deserializes(c)
        /\ c.hotkey # BrokenHotkey
        /\ c.capture = Normalized(c.capture)
    BY DEF ShouldPersist
  <1>2. c \in Settings /\ c.capture \in Section
    BY <1>1 DEF Files, Settings
  <1>3. c.capture.numbers = "ok"
    BY <1>1, <1>2, NormalizedSection
  <1>5. /\ NormalizedSettings(c).capture = Normalized(c.capture)
        /\ NormalizedSettings(c).hotkey = c.hotkey
    BY <1>2 DEF NormalizedSettings, Settings
  <1>4. Loaded(f) = NormalizedSettings(c)
    BY <1>1, <1>5 DEF Loaded, RepairedHotkey
  <1>6. ASSUME "capture" \notin f.refused
        PROVE  DaemonReads(f, "capture") = Normalized(c.capture)
    BY <1>1, <1>3, <1>6 DEF DaemonReads, DaemonParses
  <1> QED
    BY <1>1, <1>4, <1>5, <1>6

-----------------------------------------------------------------------------
(* Type correctness *)

LEMMA BoundsNat == MaxEdits \in Nat
  BY SettingsAssumption

LEMMA DaemonReadsSection ==
  ASSUME NEW f \in AnyFile, NEW part \in {"fastFlowLm", "capture"}
  PROVE  DaemonReads(f, part) \in Section
  <1>1. DefaultSection \in Section
    BY DEF DefaultSection, Section, Numbers
  <1>2. ASSUME f \in Files PROVE f.content[part] \in Section
    BY <1>2 DEF Files, Settings
  <1> QED
    BY <1>1, <1>2, NormalizedSection DEF DaemonReads, DaemonParses

LEMMA LoadTyped ==
  ASSUME TypeOK, NEW s \in {Loaded(file), Defaults}, Load(s)
  PROVE  /\ s \in Settings
         /\ file' \in AnyFile
         /\ write' \in [by : {"load", "save"}, settings : Settings] \cup {NoWrite}
         /\ settled' \in BOOLEAN
  <1>1. file \in AnyFile
    BY DEF TypeOK, AnyFile
  <1>2. Loaded(file) \in Settings /\ Loaded(Torn) \in Settings
    BY <1>1, LoadedIsUsable DEF AnyFile
  <1>3. Defaults = Loaded(Torn)
    BY SettingsAssumption DEF Loaded
  <1>5. CASE BeginWrite("load", Loaded(file))
    BY <1>2, <1>3, <1>5 DEF BeginWrite, AnyFile
  <1>6. CASE settled' = ~ShouldPersist(file) /\ UNCHANGED <<file, write>>
    <2>1. settled' = TRUE \/ settled' = FALSE
      BY <1>6
    <2> QED
      BY <1>1, <1>2, <1>3, <1>6, <2>1 DEF TypeOK
  <1>7. CASE UNCHANGED <<file, write, settled>>
    BY <1>1, <1>2, <1>3, <1>7 DEF TypeOK
  <1> QED
    BY <1>5, <1>6, <1>7 DEF Load, Repair

LEMMA TypingStep == TypeOK /\ [Next]_vars => TypeOK'
  <1> SUFFICES ASSUME TypeOK, [Next]_vars
               PROVE  TypeOK'
    OBVIOUS
  <1>1. CASE StartLauncher
    BY <1>1, LoadTyped DEF StartLauncher, TypeOK, AnyFile
  <1>2. CASE OpenSettings
    BY <1>2, LoadTyped DEF OpenSettings, TypeOK, AnyFile
  <1>3. CASE CloseSettings
    BY <1>3 DEF CloseSettings, TypeOK
  <1>4. ASSUME NEW s \in Settings, SaveSettings(s)
        PROVE  TypeOK'
    <2>1. CASE BeginWrite("save", s) /\ UNCHANGED <<running, page>>
      BY <1>4, <2>1 DEF SaveSettings, BeginWrite, TypeOK
    <2>2. CASE Die /\ UNCHANGED file
      BY <1>4, <2>2 DEF SaveSettings, Die, TypeOK
    <2> QED
      BY <1>4, <2>1, <2>2 DEF SaveSettings
  <1>5. CASE FinishWrite
    BY <1>5 DEF FinishWrite, TypeOK, SavedAs, Files, Objects
  <1>6. CASE BreakWrite
    BY <1>6 DEF BreakWrite, Die, TypeOK
  <1>7. CASE StopLauncher
    BY <1>7 DEF StopLauncher, Die, TypeOK
  <1>8. ASSUME NEW f \in Files \cup {Missing, Torn}, EditFile(f)
        PROVE  TypeOK'
    <2>1. edits + 1 \in 0..MaxEdits
      BY <1>8, BoundsNat DEF EditFile, TypeOK
    <2> QED
      BY <1>8, <2>1 DEF EditFile, TypeOK
  <1>9. CASE StartDaemon
    BY <1>9 DEF StartDaemon, TypeOK
  <1>10. CASE ReadFastFlowLm
    <2>1. DaemonReads(file, "fastFlowLm") \in Section
      BY DaemonReadsSection DEF TypeOK, AnyFile
    <2> QED
      BY <1>10, <2>1 DEF ReadFastFlowLm, TypeOK
  <1>11. CASE ReadCapture
    <2>1. DaemonReads(file, "capture") \in Section
      BY DaemonReadsSection DEF TypeOK, AnyFile
    <2> QED
      BY <1>11, <2>1 DEF ReadCapture, TypeOK
  <1>12. CASE StopDaemon
    <2>1. DefaultSection \in Section
      BY DEF DefaultSection, Section, Numbers
    <2> QED
      BY <1>12, <2>1 DEF StopDaemon, TypeOK
  <1>13. CASE UNCHANGED vars
    BY <1>13 DEF vars, TypeOK
  <1> QED
    BY <1>1, <1>2, <1>3, <1>4, <1>5, <1>6, <1>7, <1>8, <1>9, <1>10, <1>11,
       <1>12, <1>13 DEF Next

LEMMA InitTyped == Init => TypeOK
  <1>1. DefaultSection \in Section
    BY DEF DefaultSection, Section, Numbers
  <1>2. 0 \in 0..MaxEdits
    BY BoundsNat
  <1>3. ASSUME Init PROVE daemon \in [phase : {"off", "starting", "reading", "running"},
                                      fastFlowLm : Section, capture : Section]
    BY <1>1, <1>3 DEF Init
  <1> QED
    BY <1>2, <1>3 DEF Init, TypeOK

-----------------------------------------------------------------------------
(* The invariant *)

\* A write always carries usable settings, and while it lasts the launcher
\* runs and the file is not settled.
WritesUsable ==
  write # NoWrite => Acceptable(write.settings) /\ running /\ ~settled

SettingsInv == TypeOK /\ CaptureReadAlike /\ WritesUsable

\* A load leaves a file that is settled only if both programs read it alike.
LEMMA LoadKeepsInv ==
  ASSUME SettingsInv, NEW s, Load(s), write = NoWrite, running' = TRUE
  PROVE  CaptureReadAlike' /\ WritesUsable'
  <1>1. file \in AnyFile
    BY DEF SettingsInv, TypeOK, AnyFile
  <1>2. CASE BeginWrite("load", Loaded(file))
    <2>1. Acceptable(Loaded(file))
      BY <1>1, LoadedIsUsable
    <2> QED
      BY <1>2, <2>1 DEF BeginWrite, CaptureReadAlike, WritesUsable
  <1>3. CASE settled' = ~ShouldPersist(file) /\ UNCHANGED <<file, write>>
    <2>1. settled' => /\ file \in Files
                      /\ "capture" \notin file.refused =>
                           DaemonReads(file, "capture") = Loaded(file).capture
      BY <1>3, UnrepairedIsAlike
    <2> QED
      BY <1>3, <2>1 DEF CaptureReadAlike, WritesUsable
  <1>4. CASE UNCHANGED <<file, write, settled>>
    BY <1>4 DEF SettingsInv, CaptureReadAlike, WritesUsable
  <1> QED
    BY <1>2, <1>3, <1>4 DEF Load, Repair

LEMMA InvStep == SettingsInv /\ [Next]_vars => SettingsInv'
  <1> SUFFICES ASSUME SettingsInv, [Next]_vars
               PROVE  SettingsInv'
    OBVIOUS
  <1>1. TypeOK'
    BY TypingStep DEF SettingsInv
  <1> SUFFICES CaptureReadAlike' /\ WritesUsable'
    BY <1>1 DEF SettingsInv
  <1>2. CASE UNCHANGED <<file, running, write, settled>>
    BY <1>2 DEF SettingsInv, CaptureReadAlike, WritesUsable
  <1>3. ASSUME StartLauncher PROVE CaptureReadAlike' /\ WritesUsable'
    <2>1. write = NoWrite
      BY <1>3 DEF StartLauncher, SettingsInv, WritesUsable
    <2> QED
      BY <1>3, <2>1, LoadKeepsInv DEF StartLauncher
  <1>4. CASE OpenSettings
    BY <1>4, LoadKeepsInv DEF OpenSettings, SettingsInv, TypeOK
  <1>5. ASSUME NEW s \in Settings, SaveSettings(s)
        PROVE  CaptureReadAlike' /\ WritesUsable'
    <2>1. CASE BeginWrite("save", s) /\ UNCHANGED <<running, page>>
      BY <1>5, <2>1 DEF SaveSettings, BeginWrite, CaptureReadAlike, WritesUsable
    <2>2. CASE Die /\ UNCHANGED file
      BY <2>2 DEF Die, SettingsInv, CaptureReadAlike, WritesUsable
    <2> QED
      BY <1>5, <2>1, <2>2 DEF SaveSettings
  <1>6. CASE FinishWrite
    <2>1. write.settings \in Settings /\ Acceptable(write.settings)
      BY <1>6 DEF FinishWrite, SettingsInv, TypeOK, WritesUsable
    <2> DEFINE f == SavedAs(write.settings)
    <2>2. /\ f \in Files
          /\ "capture" \notin f.refused => DaemonReads(f, "capture") = Loaded(f).capture
      BY <2>1, UsableIsStable, UnrepairedIsAlike
    <2> QED
      BY <1>6, <2>1, <2>2 DEF FinishWrite, CaptureReadAlike, WritesUsable
  <1>7. CASE BreakWrite
    <2>1. write' = NoWrite /\ UNCHANGED <<file, settled>>
      BY <1>7 DEF BreakWrite, Die
    <2> QED
      BY <2>1 DEF SettingsInv, CaptureReadAlike, WritesUsable
  <1>8. CASE StopLauncher
    BY <1>8 DEF StopLauncher, Die, SettingsInv, CaptureReadAlike, WritesUsable
  <1>9. ASSUME NEW f \in Files \cup {Missing, Torn}, EditFile(f)
        PROVE  CaptureReadAlike' /\ WritesUsable'
    BY <1>9 DEF EditFile, CaptureReadAlike, WritesUsable
  <1> QED
    BY <1>2, <1>3, <1>4, <1>5, <1>6, <1>7, <1>8, <1>9
    DEF Next, vars, CloseSettings, StartDaemon, ReadFastFlowLm, ReadCapture,
        StopDaemon

LEMMA InitInv == Init => SettingsInv
  BY InitTyped DEF Init, SettingsInv, CaptureReadAlike, WritesUsable

LEMMA SpecInv == Spec => []SettingsInv
  BY InitInv, InvStep, PTL DEF Spec

-----------------------------------------------------------------------------
(* Theorems *)

\* The variables keep their types.
THEOREM Typing == Spec => []TypeOK
  <1>1. SettingsInv => TypeOK
    BY DEF SettingsInv
  <1> QED
    BY <1>1, SpecInv, PTL

\* Once the launcher has loaded or written settings.json, launcher and daemon
\* read the same capture object from it (LauncherSettingsStore.Load against
\* load_settings_from_path of the capture crate), unless the text is one that
\* only the launcher reads.
THEOREM CaptureIsReadAlike == Spec => []CaptureReadAlike
  <1>1. SettingsInv => CaptureReadAlike
    BY DEF SettingsInv
  <1> QED
    BY <1>1, SpecInv, PTL

\* What the launcher writes it reads back unchanged and never repairs again.
THEOREM WritesAreStable == Spec => []WritesReadBack
  <1>1. SettingsInv => WritesReadBack
    BY UsableIsStable DEF SettingsInv, TypeOK, WritesUsable, WritesReadBack
  <1> QED
    BY <1>1, SpecInv, PTL

\* Repairing one bad value keeps the user's other choices.
THEOREM RepairsKeepChoices == Spec => RepairKeepsChoices
  <1>1. ASSUME SettingsInv, [Next]_vars,
               write = NoWrite, write' # NoWrite, write'.by = "load",
               file \in Files
        PROVE  /\ write'.settings.fastFlowLm.choice = file.content.fastFlowLm.choice
               /\ write'.settings.capture.choice = file.content.capture.choice
               /\ file.content.hotkey \in Chords =>
                    write'.settings.hotkey = file.content.hotkey
    <2>1. write' = [by |-> "load", settings |-> Loaded(file)]
      <3>1. ASSUME NEW s, Load(s) PROVE write' = [by |-> "load", settings |-> Loaded(file)]
        BY <1>1, <3>1 DEF Load, Repair, BeginWrite
      <3>2. CASE StartLauncher
        BY <3>1, <3>2 DEF StartLauncher
      <3>3. CASE OpenSettings
        BY <3>1, <3>3 DEF OpenSettings
      <3>4. ASSUME NEW s \in Settings, SaveSettings(s) PROVE FALSE
        <4>1. CASE BeginWrite("save", s)
          BY <1>1, <4>1 DEF BeginWrite
        <4>2. CASE Die
          BY <1>1, <4>2 DEF Die
        <4> QED
          BY <3>4, <4>1, <4>2 DEF SaveSettings
      <3> QED
        BY <1>1, <3>2, <3>3, <3>4
        DEF Next, vars, CloseSettings, FinishWrite, BreakWrite, StopLauncher, Die,
            EditFile, StartDaemon, ReadFastFlowLm, ReadCapture, StopDaemon
    <2> DEFINE c == file.content
    <2>2. c \in Settings /\ c.fastFlowLm \in Section /\ c.capture \in Section
      BY <1>1 DEF Files, Settings
    <2>3. /\ Loaded(file).fastFlowLm = Normalized(c.fastFlowLm)
          /\ Loaded(file).capture = Normalized(c.capture)
          /\ c.hotkey # BrokenHotkey => Loaded(file).hotkey = c.hotkey
      BY <1>1, <2>2
      DEF Loaded, RepairedHotkey, NormalizedSettings, Recovered, Settings
    <2> QED
      BY <2>1, <2>2, <2>3, NormalizedSection, SettingsAssumption
  <1>2. SettingsInv /\ [Next]_vars =>
          [ write = NoWrite /\ write' # NoWrite /\ write'.by = "load"
              /\ file \in Files
            => /\ write'.settings.fastFlowLm.choice = file.content.fastFlowLm.choice
               /\ write'.settings.capture.choice = file.content.capture.choice
               /\ file.content.hotkey \in Chords =>
                    write'.settings.hotkey = file.content.hotkey ]_vars
    BY <1>1
  <1> QED
    BY <1>2, SpecInv, PTL DEF Spec, RepairKeepsChoices

-----------------------------------------------------------------------------
(***************************************************************************)
(* The usage log.  It is a file of its own: what follows is proved of      *)
(* UsageLog alone.                                                         *)
(***************************************************************************)

(* A set of numbers that is not empty has a least one.                     *)
LEMMA NatLeast ==
  ASSUME NEW T, T \subseteq Nat, T # {}
  PROVE  \E x \in T : \A y \in T : x <= y
<1>1. PICK Less : /\ \A x, y \in Nat : <<y, x>> \in Less <=> y < x
                  /\ IsWellFoundedOn(Less, Nat)
  <2>1. \A x, y \in Nat : <<y, x>> \in OpToRel(<, Nat) <=> y < x
    BY DEF OpToRel
  <2>2. QED
    BY <2>1, NatLessThanWellFounded, Zenon
<1>2. PICK x \in T : \A y \in T : ~ (<<y, x>> \in Less)
  BY <1>1, WFMin
<1>3. ASSUME NEW y \in T PROVE x <= y
  <2>1. x \in Nat /\ y \in Nat
    OBVIOUS
  <2>2. ~(y < x)
    BY <1>1, <1>2, <2>1
  <2>3. QED
    BY <2>1, <2>2
<1>4. QED
  BY <1>3

(* So what holds of 0 and goes from each number to the next holds of all.  *)
LEMMA NatAll ==
  ASSUME NEW T, 0 \in T, \A k \in Nat : k \in T => k + 1 \in T
  PROVE  Nat \subseteq T
<1>1. SUFFICES ASSUME Nat \ T # {} PROVE FALSE
  OBVIOUS
<1>2. PICK k \in Nat \ T : \A m \in Nat \ T : k <= m
  BY <1>1, NatLeast
<1>3. k - 1 \in Nat /\ k - 1 \in T
  BY <1>2
<1>4. k - 1 + 1 \in T
  BY <1>3
<1>5. QED
  BY <1>2, <1>4

-----------------------------------------------------------------------------
(* The sum over the items takes them one by one.                           *)
One(s) == CHOOSE x \in s : TRUE
Sums(g, f) == g = [s \in SUBSET Items |-> IF s = {} THEN 0 ELSE f[One(s)] + g[s \ {One(s)}]]

LEMMA OneLess ==
  ASSUME IsFiniteSet(Items), NEW s \in SUBSET Items, s # {}
  PROVE  /\ One(s) \in s /\ s \ {One(s)} \in SUBSET Items
         /\ Cardinality(s) \in Nat /\ Cardinality(s \ {One(s)}) \in Nat
         /\ Cardinality(s \ {One(s)}) = Cardinality(s) - 1
         /\ Cardinality(s) <= Cardinality(Items)
<1>1. One(s) \in s
  BY DEF One
<1>2. IsFiniteSet(s) /\ Cardinality(s) <= Cardinality(Items)
  BY FS_Subset
<1>3. QED
  BY <1>1, <1>2, FS_RemoveElement, FS_CardinalityType

(* What holds of the empty set and goes from a set without one element to  *)
(* the whole holds of all sets of items.                                   *)
LEMMA ItemSets ==
  ASSUME IsFiniteSet(Items), NEW U, {} \in U,
         \A s \in SUBSET Items : s # {} /\ s \ {One(s)} \in U => s \in U
  PROVE  SUBSET Items \subseteq U
<1> DEFINE T == {k \in Nat : \A s \in SUBSET Items : Cardinality(s) < k => s \in U}
<1>0. \A s \in SUBSET Items : Cardinality(s) \in Nat
  BY FS_Subset, FS_CardinalityType
<1>1. 0 \in T
  BY <1>0
<1>2. ASSUME NEW k \in Nat, k \in T PROVE k + 1 \in T
  <2>1. ASSUME NEW s \in SUBSET Items, Cardinality(s) < k + 1 PROVE s \in U
    <3>1. CASE s = {}
      BY <3>1
    <3>2. CASE s # {}
      <4>1. s \ {One(s)} \in SUBSET Items /\ Cardinality(s \ {One(s)}) < k
        BY <2>1, <3>2, OneLess
      <4>2. QED
        BY <1>2, <3>2, <4>1
    <3>3. QED
      BY <3>1, <3>2
  <2>2. QED
    BY <2>1
<1>3. Nat \subseteq T
  <2> HIDE DEF T
  <2> QED  BY <1>1, <1>2, NatAll
<1>4. ASSUME NEW s \in SUBSET Items PROVE s \in U
  <2>1. Cardinality(s) + 1 \in T /\ Cardinality(s) < Cardinality(s) + 1
    BY <1>0, <1>3
  <2>2. QED
    BY <2>1
<1>5. QED
  BY <1>4

LEMMA SumExists ==
  ASSUME IsFiniteSet(Items), NEW f \in [Items -> Nat]
  PROVE  \E g \in [SUBSET Items -> Nat] : Sums(g, f)
<1> DEFINE Up(g, s) == IF s = {} THEN 0 ELSE f[One(s)] + g[s \ {One(s)}]
           Far(g, k) == \A s \in SUBSET Items : Cardinality(s) < k => g[s] = Up(g, s)
           T == {k \in Nat : \E g \in [SUBSET Items -> Nat] : Far(g, k)}
<1>0. Cardinality(Items) \in Nat /\ \A s \in SUBSET Items : Cardinality(s) \in Nat
  BY FS_Subset, FS_CardinalityType
<1>t. ASSUME NEW g \in [SUBSET Items -> Nat], NEW s \in SUBSET Items PROVE Up(g, s) \in Nat
  <2>1. CASE s # {}
    <3>1. One(s) \in Items /\ s \ {One(s)} \in SUBSET Items
      BY <2>1, OneLess
    <3>2. f[One(s)] \in Nat /\ g[s \ {One(s)}] \in Nat
      BY <3>1
    <3>3. QED
      BY <2>1, <3>2
  <2>2. QED
    BY <2>1
<1>1. 0 \in T
  <2>1. [s \in SUBSET Items |-> 0] \in [SUBSET Items -> Nat]
    OBVIOUS
  <2>2. Far([s \in SUBSET Items |-> 0], 0)
    BY <1>0
  <2>3. QED
    <3> HIDE DEF Far
    <3> QED  BY <2>1, <2>2
<1>2. ASSUME NEW k \in Nat, k \in T PROVE k + 1 \in T
  <2>1. PICK g \in [SUBSET Items -> Nat] : Far(g, k)
    BY <1>2
  <2> DEFINE h == [s \in SUBSET Items |-> Up(g, s)]
  <2>2. h \in [SUBSET Items -> Nat]
    BY <1>t
  <2>3. ASSUME NEW s \in SUBSET Items, Cardinality(s) < k + 1 PROVE h[s] = Up(h, s)
    <3>1. h[s] = Up(g, s)
      OBVIOUS
    <3>2. CASE s # {}
      <4>1. s \ {One(s)} \in SUBSET Items /\ Cardinality(s \ {One(s)}) < k
        BY <2>3, <3>2, OneLess
      <4>2. h[s \ {One(s)}] = g[s \ {One(s)}]
        BY <2>1, <4>1
      <4>3. QED
        BY <3>1, <3>2, <4>2
    <3>3. QED
      BY <3>1, <3>2
  <2>4. Far(h, k + 1)
    BY <2>3
  <2>5. QED
    <3> HIDE DEF h, Far
    <3> QED  BY <2>2, <2>4
<1>3. Cardinality(Items) + 1 \in T
  <2> HIDE DEF T
  <2>1. Nat \subseteq T
    BY <1>1, <1>2, NatAll
  <2>2. QED
    BY <1>0, <2>1
<1>4. PICK g \in [SUBSET Items -> Nat] : \A s \in SUBSET Items : g[s] = Up(g, s)
  <2>1. PICK g \in [SUBSET Items -> Nat] : Far(g, Cardinality(Items) + 1)
    BY <1>3
  <2>2. ASSUME NEW s \in SUBSET Items PROVE Cardinality(s) < Cardinality(Items) + 1
    BY <1>0, FS_Subset
  <2>3. QED
    BY <2>1, <2>2
<1>5. QED
  BY <1>4 DEF Sums

LEMMA TotalDef ==
  ASSUME IsFiniteSet(Items), NEW f \in [Items -> Nat]
  PROVE  \E g \in [SUBSET Items -> Nat] : Sums(g, f) /\ Log!Total(f) = g[Items]
<1> DEFINE sum == CHOOSE g : Sums(g, f)
<1>1. Sums(sum, f)
  BY SumExists
<1>2. Log!Total(f) = sum[Items]
  BY DEF Log!Total, Log!MapThenSumSet, Log!MapThenFoldSet, Sums, One
<1> HIDE DEF sum
<1> DEFINE U == {s \in SUBSET Items : sum[s] \in Nat}
<1>3. {} \in U
  BY <1>1 DEF Sums
<1>4. ASSUME NEW s \in SUBSET Items, s # {}, s \ {One(s)} \in U PROVE s \in U
  <2>1. One(s) \in Items
    BY <1>4, OneLess
  <2>2. f[One(s)] \in Nat /\ sum[s \ {One(s)}] \in Nat
    BY <1>4, <2>1
  <2>3. sum[s] = f[One(s)] + sum[s \ {One(s)}]
    BY <1>1, <1>4 DEF Sums
  <2>4. QED
    BY <2>2, <2>3
<1>5. SUBSET Items \subseteq U
  <2> HIDE DEF U
  <2> QED  BY <1>3, <1>4, ItemSets
<1>6. sum \in [SUBSET Items -> Nat]
  BY <1>1, <1>5 DEF Sums
<1>7. QED
  BY <1>1, <1>2, <1>6

(* A count that grows makes the total grow as much.                        *)
LEMMA TotalGrows ==
  ASSUME IsFiniteSet(Items), NEW f \in [Items -> Nat], NEW i \in Items
  PROVE  Log!Total([f EXCEPT ![i] = @ + 1]) = Log!Total(f) + 1 /\ Log!Total(f) \in Nat
<1> DEFINE h == [f EXCEPT ![i] = @ + 1]
<1>1. h \in [Items -> Nat] /\ h[i] = f[i] + 1 /\ \A j \in Items \ {i} : h[j] = f[j]
  OBVIOUS
<1>2. PICK a \in [SUBSET Items -> Nat] : Sums(a, f) /\ Log!Total(f) = a[Items]
  BY TotalDef
<1>3. PICK b \in [SUBSET Items -> Nat] : Sums(b, h) /\ Log!Total(h) = b[Items]
  <2> HIDE DEF h
  <2> QED  BY <1>1, TotalDef
<1> HIDE DEF h
<1> DEFINE U == {s \in SUBSET Items : b[s] = a[s] + IF i \in s THEN 1 ELSE 0}
<1>4. {} \in U
  BY <1>2, <1>3 DEF Sums
<1>5. ASSUME NEW s \in SUBSET Items, s # {}, s \ {One(s)} \in U PROVE s \in U
  <2>1. One(s) \in s /\ One(s) \in Items
    BY <1>5, OneLess
  <2>2. a[s] = f[One(s)] + a[s \ {One(s)}] /\ b[s] = h[One(s)] + b[s \ {One(s)}]
    BY <1>2, <1>3, <1>5 DEF Sums
  <2>3. a[s \ {One(s)}] \in Nat /\ f[One(s)] \in Nat
    BY <2>1
  <2>4. b[s \ {One(s)}] = a[s \ {One(s)}] + IF i \in s \ {One(s)} THEN 1 ELSE 0
    BY <1>5
  <2>5. CASE i = One(s)
    BY <1>1, <2>1, <2>2, <2>3, <2>4, <2>5
  <2>6. CASE i # One(s)
    BY <1>1, <2>1, <2>2, <2>3, <2>4, <2>6
  <2>7. QED
    BY <2>5, <2>6
<1>6. Items \in U
  <2>1. SUBSET Items \subseteq U
    <3> HIDE DEF U
    <3> QED  BY <1>4, <1>5, ItemSets
  <2>2. QED
    BY <2>1
<1>7. QED
  BY <1>2, <1>3, <1>6 DEF h

(* Counts that are no smaller make a total that is no smaller.             *)
LEMMA TotalMonotone ==
  ASSUME IsFiniteSet(Items), NEW f \in [Items -> Nat], NEW h \in [Items -> Nat],
         \A j \in Items : f[j] <= h[j]
  PROVE  Log!Total(f) <= Log!Total(h) /\ Log!Total(f) \in Nat /\ Log!Total(h) \in Nat
<1>2. PICK a \in [SUBSET Items -> Nat] : Sums(a, f) /\ Log!Total(f) = a[Items]
  BY TotalDef
<1>3. PICK b \in [SUBSET Items -> Nat] : Sums(b, h) /\ Log!Total(h) = b[Items]
  BY TotalDef
<1> DEFINE U == {s \in SUBSET Items : a[s] <= b[s]}
<1>4. {} \in U
  BY <1>2, <1>3 DEF Sums
<1>5. ASSUME NEW s \in SUBSET Items, s # {}, s \ {One(s)} \in U PROVE s \in U
  <2>1. One(s) \in Items /\ s \ {One(s)} \in SUBSET Items
    BY <1>5, OneLess
  <2>2. a[s] = f[One(s)] + a[s \ {One(s)}] /\ b[s] = h[One(s)] + b[s \ {One(s)}]
    BY <1>2, <1>3, <1>5 DEF Sums
  <2>3. /\ a[s \ {One(s)}] \in Nat /\ b[s \ {One(s)}] \in Nat
        /\ f[One(s)] \in Nat /\ h[One(s)] \in Nat /\ f[One(s)] <= h[One(s)]
        /\ a[s \ {One(s)}] <= b[s \ {One(s)}]
    BY <1>5, <2>1
  <2>4. QED
    BY <2>2, <2>3
<1>6. Items \in U
  <2>1. SUBSET Items \subseteq U
    <3> HIDE DEF U
    <3> QED  BY <1>4, <1>5, ItemSets
  <2>2. QED
    BY <2>1
<1>7. QED
  BY <1>2, <1>3, <1>6


LEMMA LogFinite == ASSUME Log!LogAssumption PROVE IsFiniteSet(Writers) /\ IsFiniteSet(Items)
  BY DEF Log!LogAssumption, IsFiniteSet, Log!IsFiniteSet

(* The types of the flags, which one prover handles, and of the rest.      *)
Flags ==
  /\ up \in BOOLEAN /\ opened \in BOOLEAN /\ garbled \in BOOLEAN
  /\ shared \in [Writers -> BOOLEAN]
Counts ==
  /\ usage \in [Items -> Nat] /\ logged \in [Items -> Nat]
  /\ started \in 0..MaxEvents /\ acked \in Nat /\ overlaps \in Nat /\ breaks \in Nat
Threads ==
  /\ tail \in Seq(Log!Piece)
  /\ pc \in [Writers -> {"idle", "append", "logged"}]
  /\ item \in [Writers -> Items]
  /\ next \in [Writers -> 1..(Parts + 1)]

LEMMA TypeParts == Log!TypeOK <=> Flags /\ Counts /\ Threads
  BY Zenon DEF Log!TypeOK, Flags, Counts, Threads
LEMMA TypePartsPrime == Log!TypeOK' <=> Flags' /\ Counts' /\ Threads'
  BY Zenon DEF Log!TypeOK, Flags, Counts, Threads

LEMMA LogTypeInit == ASSUME Log!LogAssumption, Log!Init PROVE Log!TypeOK
<1> USE DEF Log!Init, Log!LogAssumption
<1>1. Flags
  BY DEF Flags
<1>2. Counts
  BY DEF Counts
<1>3. Threads
  <2>1. (CHOOSE i \in Items : TRUE) \in Items
    OBVIOUS
  <2>2. tail \in Seq(Log!Piece)
    BY EmptySeq
  <2>3. QED
    BY <2>1, <2>2 DEF Threads
<1>4. QED
  BY <1>1, <1>2, <1>3, TypeParts

(* What a write leaves behind is pieces.                                   *)
LEMMA CutType ==
  ASSUME Log!LogAssumption, Log!TypeOK, NEW t \in Writers, Log!CutShort(t)
  PROVE  /\ tail' \in Seq(Log!Piece)
         /\ tail' = tail \/ (tail' # <<>> /\ \E p \in {0, -1} :
                               tail' = Append(tail, [of |-> item[t], part |-> p]))
<1>1. Threads
  BY TypeParts
<1>2. ASSUME NEW p \in {0, -1}
          PROVE /\ Append(tail, [of |-> item[t], part |-> p]) \in Seq(Log!Piece)
                                     /\ Append(tail, [of |-> item[t], part |-> p]) # <<>>
  <2>1. [of |-> item[t], part |-> p] \in Log!Piece
    BY <1>1 DEF Threads, Log!Piece, Log!LogAssumption
  <2>2. QED
    BY <1>1, <2>1, AppendProperties DEF Threads
<1>3. QED
  BY <1>1, <1>2 DEF Log!CutShort, Threads

LEMMA LogTypeStep == ASSUME Log!LogAssumption, Log!TypeOK, [Log!Next]_(Log!vars) PROVE Log!TypeOK'
<1> USE DEF Log!LogAssumption
<1>0. Flags /\ Counts /\ Threads
  BY TypeParts
<1>1. Flags'
  <2>1. ASSUME NEW t \in Writers, NEW i \in Items, Log!StartAppend(t, i) PROVE Flags'
    <3>1. UNCHANGED <<up, opened, garbled>>
      BY <2>1 DEF Log!StartAppend, Log!fileVars
    <3>2. shared' = [s \in Writers |-> IF s = t THEN Log!Appending # {} ELSE shared[s]
              \/ s \in Log!Appending]
      BY <2>1, Zenon DEF Log!StartAppend
    <3>3. \A s \in Writers :
            (IF s = t THEN Log!Appending # {} ELSE shared[s] \/ s \in Log!Appending) \in BOOLEAN
      BY Zenon
    <3>4. shared' \in [Writers -> BOOLEAN]
      BY <3>2, <3>3, Zenon
    <3>5. QED
      BY <1>0, <3>1, <3>4 DEF Flags
  <2>2. ASSUME NEW t \in Writers, Log!WritePart(t) \/ Log!Acknowledge(t) \/ Log!FailWrite(t)
            PROVE Flags'
    BY <1>0, <2>2 DEF Log!WritePart, Log!Acknowledge, Log!FailWrite, Flags, Log!fileVars
  <2>3. ASSUME NEW t \in Writers, Log!WriteNewline(t) PROVE Flags'
    <3>1. UNCHANGED <<up, opened, shared>> /\ garbled' = Log!Unreadable
      BY <2>3 DEF Log!WriteNewline
    <3>2. Log!Unreadable \in BOOLEAN
      BY Zenon DEF Log!Unreadable
    <3>3. QED
      BY <1>0, <3>1, <3>2 DEF Flags
  <2>4. CASE Log!Kill \/ Log!Restart \/ Log!RestartUnopened \/ Log!RestartFails
            \/ UNCHANGED Log!vars
    BY <1>0, <2>4 DEF Log!Kill, Log!Restart, Log!RestartUnopened, Log!RestartFails, Log!vars,
       Log!threadVars, Log!fileVars, Flags
  <2>5. QED
    BY <2>1, <2>2, <2>3, <2>4 DEF Log!Next
<1>2. Counts'
  <2>1. ASSUME NEW t \in Writers, NEW i \in Items, Log!StartAppend(t, i) PROVE Counts'
    BY <1>0, <2>1 DEF Log!StartAppend, Log!fileVars, Counts
  <2>2. ASSUME NEW t \in Writers, Log!WritePart(t) \/ Log!Acknowledge(t) \/ Log!FailWrite(t)
            PROVE Counts'
    <3>1. CASE Log!WritePart(t)
      BY <1>0, <3>1 DEF Log!WritePart, Counts, Log!tallyVars
    <3>2. CASE Log!Acknowledge(t)
      <4>1. usage' \in [Items -> Nat]
        BY <1>0, <3>2 DEF Log!Acknowledge, Counts, Threads
      <4>2. acked' \in Nat /\ overlaps' \in Nat
        BY <1>0, <3>2 DEF Log!Acknowledge, Counts
      <4>3. UNCHANGED <<logged, started, breaks>>
        BY <3>2 DEF Log!Acknowledge, Log!fileVars
      <4>4. QED
        BY <1>0, <4>1, <4>2, <4>3 DEF Counts
    <3>3. CASE Log!FailWrite(t)
      BY <1>0, <3>3 DEF Log!FailWrite, Log!CountBreak, Counts
    <3>4. QED
      BY <2>2, <3>1, <3>2, <3>3
  <2>3. ASSUME NEW t \in Writers, Log!WriteNewline(t) PROVE Counts'
    BY <1>0, <2>3 DEF Log!WriteNewline, Counts, Log!tallyVars
  <2>4. CASE Log!Kill
    BY <1>0, <2>4 DEF Log!Kill, Log!CountBreak, Counts
  <2>5. CASE Log!Restart \/ Log!RestartUnopened \/ Log!RestartFails \/ UNCHANGED Log!vars
    BY <1>0, <2>5 DEF Log!Restart, Log!RestartUnopened, Log!RestartFails, Log!Loaded, Counts,
       Log!vars, Log!threadVars,
                      Log!fileVars, Log!tallyVars
  <2>6. QED
    BY <2>1, <2>2, <2>3, <2>4, <2>5 DEF Log!Next
<1>3. Threads'
  <2>1. ASSUME NEW t \in Writers, NEW i \in Items, Log!StartAppend(t, i) PROVE Threads'
    BY <1>0, <2>1 DEF Log!StartAppend, Log!fileVars, Threads
  <2>2. ASSUME NEW t \in Writers, Log!WritePart(t) PROVE Threads'
    <3>1. [of |-> item[t], part |-> next[t]] \in Log!Piece
      BY <1>0, <2>2 DEF Threads, Log!Piece, Log!WritePart
    <3>2. tail' \in Seq(Log!Piece)
      BY <1>0, <2>2, <3>1, AppendProperties DEF Threads, Log!WritePart
    <3>3. QED
      BY <1>0, <2>2, <3>2 DEF Threads, Log!WritePart
  <2>3. ASSUME NEW t \in Writers, Log!WriteNewline(t) PROVE Threads'
    BY <1>0, <2>3, EmptySeq DEF Log!WriteNewline, Threads
  <2>4. ASSUME NEW t \in Writers, Log!Acknowledge(t) PROVE Threads'
    BY <1>0, <2>4 DEF Log!Acknowledge, Threads, Log!fileVars
  <2>5. ASSUME NEW t \in Writers, Log!FailWrite(t) PROVE Threads'
    <3>1. tail' \in Seq(Log!Piece)
      BY <2>5, CutType DEF Log!FailWrite
    <3>2. QED
      BY <1>0, <2>5, <3>1 DEF Log!FailWrite, Threads
  <2>6. CASE Log!Kill
    <3>1. tail' \in Seq(Log!Piece)
      BY <1>0, <2>6, CutType DEF Log!Kill, Threads, Log!Appending
    <3>2. QED
      BY <1>0, <2>6, <3>1 DEF Log!Kill, Threads
  <2>7. CASE Log!Restart \/ Log!RestartUnopened \/ Log!RestartFails \/ UNCHANGED Log!vars
    BY <1>0, <2>7 DEF Log!Restart, Log!RestartUnopened, Log!RestartFails, Log!vars, Log!threadVars,
       Log!fileVars, Threads
  <2>8. QED
    BY <2>1, <2>2, <2>3, <2>4, <2>5, <2>6, <2>7 DEF Log!Next
<1>4. QED
  BY <1>1, <1>2, <1>3, TypePartsPrime

-----------------------------------------------------------------------------
(* The launches that are in the log and not yet in memory, of appends that *)
(* no other shared.                                                        *)
Late == {t \in Writers : pc[t] = "logged" /\ ~shared[t]}
LateFor(i) == {t \in Late : item[t] = i}

(* What a thread has written of its event.                                 *)
Written(t) == [n \in 1..next[t] - 1 |-> [of |-> item[t], part |-> n]]

(* An append that shares the file with no other is the only one.  As long  *)
(* as none broke off, there is nothing in the file but whole lines and     *)
(* what is being appended; only a break leaves half a character.           *)
FileInv ==
  /\ ~up => Log!Quiescent
  /\ \A t, u \in Log!Appending : ~shared[t] => t = u
  /\ Log!Unreadable => breaks > 0
  /\ breaks = 0 /\ Log!Appending = {} => tail = <<>>
  /\ breaks = 0 => \A t \in Log!Appending : ~shared[t] => tail = Written(t)

(* Then the log is what is in memory and what is about to be.              *)
Clean ==
  /\ up /\ opened /\ breaks = 0 /\ overlaps = 0
  /\ \A t \in Writers : pc[t] = "logged" => t \in Late
MemoryInv == Clean => \A i \in Items : logged[i] = usage[i] + Cardinality(LateFor(i))

(* A broken line that the next event will be glued to.                     *)
Broken ==
  \/ Log!Appending = {} /\ tail # <<>>
  \/ \E t \in Log!Appending : ~shared[t] /\ tail # Written(t)
LossInv ==
  acked + Cardinality(Late) + (IF Broken THEN 1 ELSE 0) <= Log!Total(logged) + breaks + overlaps

LogInv == Log!TypeOK /\ FileInv /\ MemoryInv /\ LossInv

(* Two appends at a time share the file; the line of one that is alone and  *)
(* has written all of its event is that event.                              *)
LEMMA OneEvent ==
  ASSUME Log!LogAssumption, Log!TypeOK, NEW t \in Log!Appending, next[t] > Parts, tail = Written(t)
  PROVE  \A i \in Items : Log!IsEvent(tail, i) <=> i = item[t]
<1>1. next[t] = Parts + 1 /\ Parts \in Nat \ {0} /\ item[t] \in Items
  BY DEF Log!TypeOK, Log!LogAssumption, Log!Appending
<1>2. Written(t) = [n \in 1..Parts |-> [of |-> item[t], part |-> n]]
  BY <1>1 DEF Written
<1>3. ASSUME NEW i \in Items, Log!IsEvent(tail, i) PROVE i = item[t]
  <2>1. tail[1] = [of |-> i, part |-> 1] /\ tail[1] = [of |-> item[t], part |-> 1]
    BY <1>1, <1>2, <1>3 DEF Log!IsEvent
  <2>2. QED
    BY <2>1
<1>4. QED
  BY <1>2, <1>3 DEF Log!IsEvent

LEMMA LateFinite ==
  ASSUME Log!LogAssumption, NEW S \in SUBSET Writers
  PROVE  IsFiniteSet(S) /\ Cardinality(S) \in Nat
  BY LogFinite, FS_Subset, FS_CardinalityType

LEMMA LogInit == ASSUME Log!LogAssumption, Log!Init PROVE LogInv
<1>1. Log!TypeOK
  BY LogTypeInit
<1>2. FileInv
  BY DEF FileInv, Log!Init, Log!Quiescent, Log!Appending, Log!Unreadable, Log!IsGarbled
<1>3. Late = {} /\ \A i \in Items : LateFor(i) = {}
  BY DEF Late, LateFor, Log!Init
<1>4. MemoryInv
  <2>1. Cardinality({}) = 0
    BY FS_EmptySet
  <2>2. \A i \in Items : logged[i] = 0 /\ usage[i] = 0
    BY DEF Log!Init
  <2>3. QED
    BY <1>3, <2>1, <2>2 DEF MemoryInv
<1>5. ~Broken /\ Log!Total(logged) \in Nat
  BY <1>1, LogFinite, TotalMonotone DEF Log!Init, Broken, Log!Appending, Log!TypeOK
<1>6. LossInv
  BY <1>3, <1>5, FS_EmptySet DEF LossInv, Log!Init
<1>7. QED
  BY <1>1, <1>2, <1>4, <1>6 DEF LogInv

(* What each step does to the threads that append and to those that are    *)
(* late.                                                                   *)
LEMMA StartShape ==
  ASSUME Log!TypeOK, NEW t \in Writers, NEW i \in Items, Log!StartAppend(t, i)
  PROVE  /\ t \notin Log!Appending /\ Log!Appending' = Log!Appending \cup {t}
         /\ \A u \in Log!Appending' : ~shared'[u] => u = t /\ Log!Appending = {}
         /\ Written(t)' = <<>>
         /\ \A s \in Writers : pc'[s] = "logged" <=> pc[s] = "logged"
         /\ Late' = Late /\ \A j \in Items : LateFor(j)' = LateFor(j)
<1>1. /\ pc \in [Writers -> {"idle", "append", "logged"}] /\ pc[t] = "idle"
      /\ pc' = [pc EXCEPT ![t] = "append"]
      /\ item' = [item EXCEPT ![t] = i] /\ item \in [Writers -> Items]
      /\ next' = [next EXCEPT ![t] = 1] /\ next \in [Writers -> 1..(Parts + 1)]
  BY DEF Log!StartAppend, Log!TypeOK
<1>2. \A s \in Writers : shared'[s] = IF s = t THEN Log!Appending # {} ELSE shared[s]
          \/ s \in Log!Appending
  BY Zenon DEF Log!StartAppend
<1>3. t \notin Log!Appending /\ Log!Appending' = Log!Appending \cup {t}
          /\ Log!Appending \subseteq Writers
  BY <1>1 DEF Log!Appending
<1>4. ASSUME NEW u \in Log!Appending', ~shared'[u] PROVE u = t /\ Log!Appending = {}
  <2>1. u \in Writers /\ (u = t \/ u \in Log!Appending)
    BY <1>3, <1>4
  <2>2. QED
    BY <1>2, <1>4, <2>1, Zenon
<1>5. Written(t)' = <<>>
  BY <1>1 DEF Written
<1>a. \A s \in Writers : pc'[s] = "logged" <=> pc[s] = "logged"
  BY <1>1
<1>6. Late' = Late
  <2>1. \A s \in Writers : pc'[s] = "logged" <=> pc[s] = "logged"
    BY <1>a
  <2>2. ASSUME NEW s \in Writers, pc[s] = "logged" PROVE shared'[s] <=> shared[s]
    <3>1. s # t /\ s \notin Log!Appending
      BY <1>1, <2>2 DEF Log!Appending
    <3>2. QED
      BY <1>2, <3>1, Zenon
  <2>3. QED
    BY <2>1, <2>2 DEF Late
<1>7. \A j \in Items : LateFor(j)' = LateFor(j)
  <2>1. \A s \in Late : s \in Writers /\ item'[s] = item[s]
    BY <1>1 DEF Late
  <2>2. QED
    BY <1>6, <2>1 DEF LateFor
<1>8. QED
  BY <1>3, <1>4, <1>5, <1>a, <1>6, <1>7

LEMMA WriteShape ==
  ASSUME Log!LogAssumption, Log!TypeOK, NEW t \in Writers, Log!WritePart(t)
  PROVE  /\ t \in Log!Appending /\ UNCHANGED <<Log!Appending, shared>>
         /\ tail' = Append(tail, [of |-> item[t], part |-> next[t]])
         /\ tail' # <<>> /\ (Log!Unreadable' <=> Log!Unreadable)
         /\ tail' = Written(t)' <=> tail = Written(t)
         /\ Late' = Late /\ \A j \in Items : LateFor(j)' = LateFor(j)
<1> DEFINE piece == [of |-> item[t], part |-> next[t]]
<1>1. /\ t \in Log!Appending /\ next[t] \in 1..Parts /\ Parts \in Nat /\ piece \in Log!Piece
      /\ tail \in Seq(Log!Piece) /\ tail' = Append(tail, piece)
      /\ next' = [next EXCEPT ![t] = @ + 1] /\ next'[t] = next[t] + 1
      /\ UNCHANGED <<garbled, pc, item, shared>>
  BY DEF Log!WritePart, Log!TypeOK, Log!LogAssumption, Log!Piece
<1>2. /\ Len(tail) \in Nat /\ Len(tail') = Len(tail) + 1 /\ tail' # <<>>
      /\ DOMAIN tail = 1..Len(tail) /\ DOMAIN tail' = 1..Len(tail) + 1
      /\ \A n \in 1..Len(tail) : tail'[n] = tail[n]
      /\ tail'[Len(tail) + 1] = piece
      /\ tail' \in Seq(Log!Piece)
  <2> HIDE DEF piece
  <2> QED  BY <1>1, AppendProperties, LenProperties
<1>3. Log!IsGarbled(tail') <=> Log!IsGarbled(tail)
  <2>1. piece.part # -1
    BY <1>1
  <2>2. ASSUME NEW n \in DOMAIN tail', tail'[n].part = -1
            PROVE n \in DOMAIN tail /\ tail[n].part = -1
    <3>1. n # Len(tail) + 1
      BY <1>2, <2>1, <2>2
    <3>2. n \in 1..Len(tail)
      BY <1>2, <3>1
    <3>3. QED
      BY <1>2, <2>2, <3>2
  <2>3. ASSUME NEW n \in DOMAIN tail, tail[n].part = -1
            PROVE n \in DOMAIN tail' /\ tail'[n].part = -1
    BY <1>2, <2>3
  <2>4. QED
    BY <2>2, <2>3 DEF Log!IsGarbled
<1>4. Log!Unreadable' <=> Log!Unreadable
  BY <1>1, <1>3 DEF Log!Unreadable
<1>5. Written(t) \in Seq(Log!Piece) /\ Written(t)' = Append(Written(t), piece)
  <2>1. next[t] - 1 \in Nat /\ item[t] \in Items /\ item'[t] = item[t]
    BY <1>1 DEF Log!TypeOK
  <2>2. Written(t) = [n \in 1..next[t] - 1 |-> [of |-> item[t], part |-> n]]
    BY DEF Written
  <2>3. Written(t)' = [n \in 1..(next[t] - 1) + 1 |-> [of |-> item[t], part |-> n]]
    BY <1>1, <2>1 DEF Written
  <2>4. \A n \in 1..next[t] - 1 : [of |-> item[t], part |-> n] \in Log!Piece
    BY <1>1, <2>1 DEF Log!Piece
  <2>5. Written(t) \in Seq(Log!Piece) /\ Len(Written(t)) = next[t] - 1
    BY <2>1, <2>2, <2>4
  <2>6. QED
    BY <1>1, <2>1, <2>2, <2>3, <2>5
<1>6. tail' = Written(t)' <=> tail = Written(t)
  <2> HIDE DEF piece
  <2> QED  BY <1>1, <1>5, AppendInjective
<1>7. UNCHANGED Log!Appending /\ Late' = Late /\ \A j \in Items : LateFor(j)' = LateFor(j)
  BY <1>1 DEF Log!Appending, Late, LateFor
<1>8. QED
  BY <1>1, <1>2, <1>4, <1>6, <1>7

LEMMA NewlineShape ==
  ASSUME Log!TypeOK, NEW t \in Writers, Log!WriteNewline(t)
  PROVE  /\ t \in Log!Appending /\ next[t] > Parts /\ Log!Appending' = Log!Appending \ {t}
         /\ tail' = <<>> /\ (Log!Unreadable' <=> Log!Unreadable)
         /\ UNCHANGED <<up, opened, usage, shared, acked, overlaps, breaks>>
         /\ logged' = [i \in Items |-> logged[i] + IF Log!IsEvent(tail, i) THEN 1 ELSE 0]
         /\ t \notin Late /\ pc'[t] = "logged" /\ item' = item
         /\ Late' = IF shared[t] THEN Late ELSE Late \cup {t}
         /\ \A s \in Writers : pc'[s] = "logged" <=> pc[s] = "logged" \/ s = t
         /\ \A j \in Items : LateFor(j)' = IF ~shared[t] /\ j = item[t] THEN LateFor(j) \cup {t}
                                           ELSE LateFor(j)
<1>1. /\ pc \in [Writers -> {"idle", "append", "logged"}] /\ pc[t] = "append"
      /\ next[t] > Parts /\ tail' = <<>>
      /\ pc' = [pc EXCEPT ![t] = "logged"] /\ UNCHANGED <<item, shared, up, opened, usage>>
      /\ logged' = [i \in Items |-> logged[i] + IF Log!IsEvent(tail, i) THEN 1 ELSE 0]
      /\ UNCHANGED <<acked, overlaps, breaks>>
  BY DEF Log!WriteNewline, Log!Appending, Log!TypeOK, Log!tallyVars
<1>2. Log!Unreadable' <=> Log!Unreadable
  <2>1. garbled' = Log!Unreadable
    BY DEF Log!WriteNewline
  <2>2. ~Log!IsGarbled(tail')
    BY <1>1 DEF Log!IsGarbled
  <2>3. Log!Unreadable' <=> (garbled' \/ Log!IsGarbled(tail'))
    BY DEF Log!Unreadable
  <2>4. QED
    BY <2>1, <2>2, <2>3, Zenon
<1>3. t \in Log!Appending /\ Log!Appending' = Log!Appending \ {t} /\ t \notin Late
          /\ pc'[t] = "logged"
  BY <1>1 DEF Log!Appending, Late
<1>4. \A s \in Writers : pc'[s] = "logged" <=> pc[s] = "logged" \/ s = t
  BY <1>1
<1>5. Late' = IF shared[t] THEN Late ELSE Late \cup {t}
  BY <1>1, <1>4 DEF Late
<1>6. \A j \in Items : LateFor(j)' = IF ~shared[t] /\ j = item[t] THEN LateFor(j) \cup {t}
                                     ELSE LateFor(j)
  BY <1>1, <1>5 DEF LateFor
<1>7. QED
  BY <1>1, <1>2, <1>3, <1>4, <1>5, <1>6

LEMMA AcknowledgeShape ==
  ASSUME Log!TypeOK, NEW t \in Writers, Log!Acknowledge(t)
  PROVE  /\ pc[t] = "logged" /\ t \notin Log!Appending /\ UNCHANGED <<Log!Appending, shared>>
         /\ UNCHANGED <<up, opened, logged, tail, garbled, item, next, breaks>>
         /\ usage' = [usage EXCEPT ![item[t]] = @ + 1]
         /\ acked' = acked + 1 /\ overlaps' = overlaps + IF shared[t] THEN 1 ELSE 0
         /\ t \in Late <=> ~shared[t]
         /\ \A s \in Writers : pc'[s] = "logged" <=> pc[s] = "logged" /\ s # t
         /\ Late' = Late \ {t} /\ \A j \in Items : LateFor(j)' = LateFor(j) \ {t}
<1>1. /\ pc \in [Writers -> {"idle", "append", "logged"}] /\ pc[t] = "logged"
      /\ pc' = [pc EXCEPT ![t] = "idle"] /\ UNCHANGED <<item, shared, next, up, opened, breaks>>
      /\ UNCHANGED <<logged, tail, garbled>>
      /\ usage' = [usage EXCEPT ![item[t]] = @ + 1]
      /\ acked' = acked + 1 /\ overlaps' = overlaps + IF shared[t] THEN 1 ELSE 0
  BY DEF Log!Acknowledge, Log!TypeOK, Log!fileVars
<1>2. \A s \in Writers : pc'[s] = "logged" <=> pc[s] = "logged" /\ s # t
  BY <1>1
<1>3. t \notin Log!Appending /\ UNCHANGED Log!Appending /\ (t \in Late <=> ~shared[t])
  BY <1>1 DEF Log!Appending, Late
<1>4. Late' = Late \ {t}
  BY <1>1, <1>2 DEF Late
<1>5. \A j \in Items : LateFor(j)' = LateFor(j) \ {t}
  BY <1>1, <1>4 DEF LateFor
<1>6. QED
  BY <1>1, <1>2, <1>3, <1>4, <1>5

(* An append that ends with something behind it is a break.                *)
LEMMA BreakShape ==
  ASSUME Log!TypeOK, Log!CountBreak
  PROVE  /\ tail' # <<>> => breaks' = breaks + 1
         /\ tail' = <<>> => breaks' = breaks
         /\ Log!IsGarbled(tail') => tail' # <<>>
  BY DEF Log!CountBreak, Log!TypeOK, Log!IsGarbled

LEMMA FailShape ==
  ASSUME Log!LogAssumption, Log!TypeOK, NEW t \in Writers, Log!FailWrite(t)
  PROVE  /\ t \in Log!Appending /\ Log!Appending' = Log!Appending \ {t}
         /\ UNCHANGED <<up, usage, opened, logged, garbled, item, next, shared, acked, overlaps>>
         /\ tail' # <<>> => breaks' = breaks + 1
         /\ tail' = <<>> => breaks' = breaks
         /\ Log!IsGarbled(tail') => tail' # <<>>
         /\ \A s \in Writers : pc'[s] = "logged" <=> pc[s] = "logged"
         /\ Late' = Late /\ \A j \in Items : LateFor(j)' = LateFor(j)
<1>1. /\ pc \in [Writers -> {"idle", "append", "logged"}] /\ pc[t] = "append"
      /\ pc' = [pc EXCEPT ![t] = "idle"] /\ Log!CountBreak
      /\ UNCHANGED <<up, usage, opened, logged, garbled, item, next, shared, acked, overlaps>>
  BY DEF Log!FailWrite, Log!TypeOK, Log!Appending
<1>2. t \in Log!Appending /\ Log!Appending' = Log!Appending \ {t}
  BY <1>1 DEF Log!Appending
<1>3. \A s \in Writers : pc'[s] = "logged" <=> pc[s] = "logged"
  BY <1>1
<1>4. Late' = Late
  BY <1>1, <1>3 DEF Late
<1>5. \A j \in Items : LateFor(j)' = LateFor(j)
  BY <1>1, <1>4 DEF LateFor
<1>6. QED
  BY <1>1, <1>2, <1>3, <1>4, <1>5, BreakShape

LEMMA KillShape ==
  ASSUME Log!TypeOK, Log!Kill
  PROVE  /\ ~up' /\ Log!Quiescent' /\ Log!Appending' = {} /\ Late' = {}
         /\ UNCHANGED <<usage, opened, logged, garbled, acked, overlaps>>
         /\ \/ Log!Appending = {} /\ UNCHANGED <<tail, breaks>>
            \/ /\ tail' # <<>> => breaks' = breaks + 1
               /\ tail' = <<>> => breaks' = breaks
               /\ Log!IsGarbled(tail') => tail' # <<>>
<1>1. ~up' /\ \A s \in Writers : pc'[s] = "idle"
  BY DEF Log!Kill
<1>2. Log!Quiescent' /\ Log!Appending' = {} /\ Late' = {}
  BY <1>1 DEF Log!Quiescent, Log!Appending, Late
<1>3. UNCHANGED <<usage, opened, logged, garbled, acked, overlaps>>
  BY DEF Log!Kill
<1>4. \/ Log!Appending = {} /\ UNCHANGED <<tail, breaks>>
      \/ Log!CountBreak
  BY DEF Log!Kill
<1>5. QED
  BY <1>1, <1>2, <1>3, <1>4, BreakShape

-----------------------------------------------------------------------------

LEMMA FileStep ==
  ASSUME Log!LogAssumption, Log!TypeOK, FileInv, [Log!Next]_(Log!vars) PROVE FileInv'
<1> USE DEF FileInv
<1>1. ASSUME NEW t \in Writers, NEW i \in Items, Log!StartAppend(t, i) PROVE FileInv'
  <2>1. up /\ UNCHANGED <<up, garbled, tail, breaks>>
    BY <1>1 DEF Log!StartAppend, Log!fileVars
  <2>2. Log!Unreadable' <=> Log!Unreadable
    BY <2>1 DEF Log!Unreadable
  <2>3. ASSUME NEW u \in Log!Appending', ~shared'[u], breaks = 0 PROVE tail' = Written(u)'
    BY <1>1, <2>1, <2>3, StartShape
  <2>4. QED
    BY <1>1, <2>1, <2>2, <2>3, StartShape
<1>2. ASSUME NEW t \in Writers, Log!WritePart(t) PROVE FileInv'
  <2>1. UNCHANGED <<up, breaks>> /\ pc' = pc
    BY <1>2 DEF Log!WritePart, Log!tallyVars
  <2>2. ASSUME NEW u \in Log!Appending', ~shared'[u], breaks = 0 PROVE tail' = Written(u)'
    BY <1>2, <2>2, WriteShape
  <2>3. Log!Quiescent' <=> Log!Quiescent
    BY <2>1 DEF Log!Quiescent
  <2>4. QED
    BY <1>2, <2>1, <2>2, <2>3, WriteShape
<1>3. ASSUME NEW t \in Writers, Log!WriteNewline(t) PROVE FileInv'
  <2>1. up
    BY <1>3, NewlineShape DEF Log!Quiescent, Log!Appending
  <2>2. \A u \in Log!Appending' : shared'[u]
    BY <1>3, NewlineShape
  <2>3. QED
    BY <1>3, <2>1, <2>2, NewlineShape
<1>4. ASSUME NEW t \in Writers, Log!Acknowledge(t) PROVE FileInv'
  <2>1. up
    BY <1>4, AcknowledgeShape DEF Log!Quiescent
  <2>2. (Log!Unreadable' <=> Log!Unreadable) /\ \A u \in Writers : Written(u)' = Written(u)
    BY <1>4, AcknowledgeShape DEF Log!Unreadable, Written
  <2>3. UNCHANGED <<Log!Appending, shared, tail, breaks, up>> /\ Log!Appending \subseteq Writers
    BY <1>4, AcknowledgeShape DEF Log!Appending
  <2>4. ASSUME NEW u \in Log!Appending', ~shared'[u], breaks' = 0 PROVE tail' = Written(u)'
    BY <2>2, <2>3, <2>4
  <2>5. QED
    BY <2>1, <2>2, <2>3, <2>4
<1>5. ASSUME NEW t \in Writers, Log!FailWrite(t) PROVE FileInv'
  <2>1. up /\ breaks \in Nat
    BY <1>5, FailShape DEF Log!Quiescent, Log!Appending, Log!TypeOK
  <2>2. \A u \in Log!Appending' : shared'[u]
    BY <1>5, FailShape
  <2>a. /\ tail' # <<>> => breaks' = breaks + 1
        /\ tail' = <<>> => breaks' = breaks
        /\ Log!IsGarbled(tail') => tail' # <<>>
    BY <1>5, FailShape
  <2>3. Log!Unreadable' => breaks' > 0
    <3>1. CASE garbled
      <4>1. breaks > 0
        BY <3>1 DEF Log!Unreadable
      <4>2. QED
        BY <2>1, <2>a, <4>1
    <3>2. CASE Log!IsGarbled(tail')
      BY <2>1, <2>a, <3>2
    <3>3. CASE ~garbled /\ ~Log!IsGarbled(tail')
      <4>1. garbled' = garbled
        BY <1>5, FailShape
      <4>2. ~Log!Unreadable'
        BY <3>3, <4>1, Zenon DEF Log!Unreadable
      <4>3. QED
        BY <4>2, Zenon
    <3>4. QED
      BY <3>1, <3>2, <3>3, Zenon
  <2>4. /\ up' /\ Log!Appending' = Log!Appending \ {t}
        /\ tail' # <<>> => breaks' = breaks + 1
    <3>1. up' = up
      BY <1>5, FailShape
    <3>2. up'
      BY <2>1, <3>1, Zenon
    <3>3. QED
      BY <1>5, <3>2, FailShape
  <2>5. breaks' = 0 => tail' = <<>>
    BY <2>1, <2>4
  <2>6. \A v, u \in Log!Appending' : ~shared'[v] => v = u
    BY <2>2
  <2>7. breaks' = 0 => \A u \in Log!Appending' : ~shared'[u] => tail' = Written(u)'
    BY <2>2
  <2>8. QED
    BY <2>3, <2>4, <2>5, <2>6, <2>7
<1>6. CASE Log!Kill
  <2>1. breaks \in Nat
    BY DEF Log!TypeOK
  <2>2. Log!Unreadable' => breaks' > 0
    BY <1>6, <2>1, KillShape DEF Log!Unreadable
  <2>3. QED
    BY <1>6, <2>1, <2>2, KillShape
<1>7. CASE Log!Restart \/ Log!RestartUnopened \/ Log!RestartFails \/ UNCHANGED Log!vars
  <2>1. /\ UNCHANGED <<pc, shared, item, next, garbled, tail, breaks>>
        /\ up' \/ (up' <=> up)
    BY <1>7 DEF Log!Restart, Log!RestartUnopened, Log!RestartFails, Log!vars, Log!threadVars,
       Log!fileVars, Log!tallyVars
  <2>2. /\ UNCHANGED Log!Appending /\ (Log!Unreadable' <=> Log!Unreadable)
             /\ (Log!Quiescent' <=> Log!Quiescent)
        /\ \A u \in Writers : Written(u)' = Written(u)
    BY <2>1 DEF Log!Appending, Log!Unreadable, Log!Quiescent, Written
  <2>3. Log!Appending \subseteq Writers
    BY DEF Log!Appending
  <2>4. QED
    BY <2>1, <2>2, <2>3
<1>8. QED
  BY <1>1, <1>2, <1>3, <1>4, <1>5, <1>6, <1>7 DEF Log!Next

LEMMA MemoryStep ==
  ASSUME Log!LogAssumption, Log!TypeOK, FileInv, MemoryInv, [Log!Next]_(Log!vars) PROVE MemoryInv'
<1>0. /\ usage \in [Items -> Nat] /\ logged \in [Items -> Nat]
      /\ breaks \in Nat /\ overlaps \in Nat /\ item \in [Writers -> Items]
  BY DEF Log!TypeOK
<1>f. \A i \in Items : IsFiniteSet(LateFor(i)) /\ Cardinality(LateFor(i)) \in Nat
  BY LateFinite DEF LateFor, Late
<1>1. ASSUME NEW t \in Writers, NEW i \in Items, Log!StartAppend(t, i) PROVE MemoryInv'
  <2>1. UNCHANGED <<up, opened, breaks, overlaps, usage, logged>>
    BY <1>1 DEF Log!StartAppend, Log!fileVars
  <2>2. /\ \A s \in Writers : pc'[s] = "logged" <=> pc[s] = "logged"
        /\ Late' = Late /\ \A j \in Items : LateFor(j)' = LateFor(j)
    BY <1>1, StartShape
  <2>3. Clean' => Clean
    BY <2>1, <2>2 DEF Clean
  <2>4. QED
    BY <2>1, <2>2, <2>3 DEF MemoryInv
<1>2. ASSUME NEW t \in Writers, Log!WritePart(t) PROVE MemoryInv'
  <2>1. UNCHANGED <<up, opened, breaks, overlaps, usage, logged, pc>>
    BY <1>2 DEF Log!WritePart, Log!tallyVars
  <2>2. Late' = Late /\ \A j \in Items : LateFor(j)' = LateFor(j)
    BY <1>2, WriteShape
  <2>3. Clean' => Clean
    BY <2>1, <2>2 DEF Clean
  <2>4. QED
    BY <2>1, <2>2, <2>3 DEF MemoryInv
<1>3. ASSUME NEW t \in Writers, Log!WriteNewline(t) PROVE MemoryInv'
  <2>1. SUFFICES ASSUME Clean', NEW i \in Items
                 PROVE  logged'[i] = usage'[i] + Cardinality(LateFor(i)')
    BY DEF MemoryInv
  <2>2. /\ t \in Log!Appending /\ next[t] > Parts /\ t \notin Late
        /\ UNCHANGED <<up, opened, usage, breaks, overlaps>>
        /\ Late' = IF shared[t] THEN Late ELSE Late \cup {t}
        /\ \A s \in Writers : pc'[s] = "logged" <=> pc[s] = "logged" \/ s = t
        /\ logged' = [j \in Items |-> logged[j] + IF Log!IsEvent(tail, j) THEN 1 ELSE 0]
        /\ LateFor(i)' = IF ~shared[t] /\ i = item[t] THEN LateFor(i) \cup {t} ELSE LateFor(i)
    BY <1>3, NewlineShape
  <2>3. ~shared[t]
    BY <2>1, <2>2 DEF Clean
  <2>4. pc[t] # "logged"
    BY <2>2 DEF Log!Appending
  <2>5. Clean
    BY <2>1, <2>2, <2>3, <2>4 DEF Clean
  <2>6. tail = Written(t)
    BY <2>2, <2>3, <2>5 DEF FileInv, Clean
  <2>7. Log!IsEvent(tail, i) <=> i = item[t]
    BY <2>2, <2>6, OneEvent
  <2>8. logged[i] = usage[i] + Cardinality(LateFor(i))
    BY <2>5 DEF MemoryInv
  <2>9. CASE i = item[t]
    <3>1. Cardinality(LateFor(i) \cup {t}) = Cardinality(LateFor(i)) + 1
      BY <1>f, <2>2, FS_AddElement DEF LateFor
    <3>2. QED
      BY <1>0, <1>f, <2>2, <2>3, <2>7, <2>8, <2>9, <3>1
  <2>10. CASE i # item[t]
    BY <1>0, <1>f, <2>2, <2>7, <2>8, <2>10
  <2>11. QED
    BY <2>9, <2>10
<1>4. ASSUME NEW t \in Writers, Log!Acknowledge(t) PROVE MemoryInv'
  <2>1. SUFFICES ASSUME Clean', NEW i \in Items
                 PROVE  logged'[i] = usage'[i] + Cardinality(LateFor(i)')
    BY DEF MemoryInv
  <2>2. /\ UNCHANGED <<up, opened, logged, breaks>>
        /\ usage' = [usage EXCEPT ![item[t]] = @ + 1]
        /\ overlaps' = overlaps + IF shared[t] THEN 1 ELSE 0
        /\ t \in Late <=> ~shared[t]
        /\ Late' = Late \ {t}
        /\ \A s \in Writers : pc'[s] = "logged" <=> pc[s] = "logged" /\ s # t
        /\ LateFor(i)' = LateFor(i) \ {t}
    BY <1>4, AcknowledgeShape
  <2>3. ~shared[t] /\ overlaps = 0 /\ t \in Late
    BY <1>0, <2>1, <2>2 DEF Clean
  <2>4. Clean
    BY <2>1, <2>2, <2>3 DEF Clean
  <2>5. logged[i] = usage[i] + Cardinality(LateFor(i))
    BY <2>4 DEF MemoryInv
  <2>6. t \in LateFor(i) <=> i = item[t]
    BY <2>3 DEF LateFor
  <2>7. CASE i = item[t]
    <3>1. Cardinality(LateFor(i) \ {t}) = Cardinality(LateFor(i)) - 1
      BY <1>f, <2>6, <2>7, FS_RemoveElement
    <3>2. QED
      BY <1>0, <1>f, <2>2, <2>5, <2>7, <3>1
  <2>8. CASE i # item[t]
    <3>1. LateFor(i) \ {t} = LateFor(i)
      BY <2>6, <2>8
    <3>2. QED
      BY <1>0, <2>2, <2>5, <2>8, <3>1
  <2>9. QED
    BY <2>7, <2>8
<1>5. ASSUME NEW t \in Writers, Log!FailWrite(t) PROVE MemoryInv'
  <2>1. /\ UNCHANGED <<up, opened, overlaps, usage, logged>> /\ breaks' >= breaks
        /\ \A s \in Writers : pc'[s] = "logged" <=> pc[s] = "logged"
        /\ Late' = Late /\ \A j \in Items : LateFor(j)' = LateFor(j)
    BY <1>0, <1>5, FailShape
  <2>2. Clean' => Clean
    BY <1>0, <2>1 DEF Clean
  <2>3. QED
    BY <2>1, <2>2 DEF MemoryInv
<1>6. CASE Log!Kill
  BY <1>6, KillShape DEF MemoryInv, Clean
<1>7. CASE Log!Restart
  <2>1. SUFFICES ASSUME Clean', NEW i \in Items
                 PROVE  logged'[i] = usage'[i] + Cardinality(LateFor(i)')
    BY DEF MemoryInv
  <2>2. ~up /\ usage' = Log!Loaded /\ UNCHANGED <<logged, pc, shared, item, breaks>>
    BY <1>7 DEF Log!Restart, Log!fileVars, Log!threadVars, Log!tallyVars
  <2>3. \A s \in Writers : pc[s] = "idle"
    BY <2>2 DEF FileInv, Log!Quiescent
  <2>4. tail = <<>>
    BY <2>1, <2>2, <2>3 DEF FileInv, Log!Appending, Clean
  <2>5. ~Log!IsEvent(tail, i)
    <3>1. 1 \in 1..Parts
      BY DEF Log!LogAssumption
    <3>2. DOMAIN [n \in 1..Parts |-> [of |-> i, part |-> n]] # {}
      BY <3>1
    <3>3. QED
      BY <2>4, <3>2 DEF Log!IsEvent
  <2>6. usage'[i] = logged[i]
    BY <1>0, <2>2, <2>5 DEF Log!Loaded
  <2>7. LateFor(i)' = {}
    BY <2>2, <2>3 DEF LateFor, Late
  <2>8. QED
    BY <1>0, <2>2, <2>6, <2>7, FS_EmptySet
<1>8. CASE Log!RestartUnopened
  BY <1>8 DEF Log!RestartUnopened, MemoryInv, Clean
<1>9. CASE Log!RestartFails \/ UNCHANGED Log!vars
  <2>1. UNCHANGED <<up, opened, breaks, overlaps, usage, logged, pc, shared, item>>
    BY <1>9 DEF Log!RestartFails, Log!vars, Log!threadVars, Log!fileVars, Log!tallyVars
  <2>2. Late' = Late /\ \A j \in Items : LateFor(j)' = LateFor(j)
    BY <2>1 DEF Late, LateFor
  <2>3. Clean' => Clean
    BY <2>1, <2>2 DEF Clean
  <2>4. QED
    BY <2>1, <2>2, <2>3 DEF MemoryInv
<1>10. QED
  BY <1>1, <1>2, <1>3, <1>4, <1>5, <1>6, <1>7, <1>8, <1>9 DEF Log!Next

LEMMA LossStep ==
  ASSUME Log!LogAssumption, Log!TypeOK, FileInv, LossInv, [Log!Next]_(Log!vars) PROVE LossInv'
<1>0. /\ usage \in [Items -> Nat] /\ logged \in [Items -> Nat]
      /\ acked \in Nat /\ breaks \in Nat /\ overlaps \in Nat /\ item \in [Writers -> Items]
      /\ IsFiniteSet(Items)
  BY LogFinite DEF Log!TypeOK
<1>f. IsFiniteSet(Late) /\ Cardinality(Late) \in Nat /\ Log!Total(logged) \in Nat
  BY <1>0, LateFinite, TotalMonotone DEF Late
<1>1. ASSUME NEW t \in Writers, NEW i \in Items, Log!StartAppend(t, i) PROVE LossInv'
  <2>1. UNCHANGED <<logged, tail, acked, overlaps, breaks>>
    BY <1>1 DEF Log!StartAppend, Log!fileVars
  <2>2. /\ t \notin Log!Appending /\ Log!Appending' = Log!Appending \cup {t} /\ Late' = Late
        /\ \A u \in Log!Appending' : ~shared'[u] => u = t /\ Log!Appending = {}
        /\ Written(t)' = <<>>
    BY <1>1, StartShape
  <2>3. Broken' => Broken
    <3>1. SUFFICES ASSUME NEW u \in Log!Appending', ~shared'[u], tail' # Written(u)' PROVE Broken
      BY <2>2 DEF Broken
    <3>2. u = t /\ Log!Appending = {} /\ tail # <<>>
      BY <2>1, <2>2, <3>1
    <3>3. QED
      BY <3>2 DEF Broken
  <2>4. QED
    BY <1>0, <1>f, <2>1, <2>2, <2>3 DEF LossInv
<1>2. ASSUME NEW t \in Writers, Log!WritePart(t) PROVE LossInv'
  <2>1. UNCHANGED <<logged, acked, overlaps, breaks>>
    BY <1>2 DEF Log!WritePart, Log!tallyVars
  <2>2. /\ t \in Log!Appending /\ UNCHANGED <<Log!Appending, shared>> /\ Late' = Late
        /\ tail' = Written(t)' <=> tail = Written(t)
    BY <1>2, WriteShape
  <2>3. Broken' => Broken
    <3>1. SUFFICES ASSUME NEW u \in Log!Appending', ~shared'[u], tail' # Written(u)' PROVE Broken
      BY <2>2 DEF Broken
    <3>2. u \in Log!Appending /\ ~shared[u] /\ u = t
      BY <2>2, <3>1 DEF FileInv
    <3>3. QED
      BY <2>2, <3>1, <3>2 DEF Broken
  <2>4. QED
    BY <1>0, <1>f, <2>1, <2>2, <2>3 DEF LossInv
<1>3. ASSUME NEW t \in Writers, Log!WriteNewline(t) PROVE LossInv'
  <2>2. /\ t \in Log!Appending /\ next[t] > Parts /\ t \notin Late
        /\ Log!Appending' = Log!Appending \ {t} /\ tail' = <<>>
        /\ UNCHANGED <<acked, overlaps, breaks, shared>>
        /\ logged' = [j \in Items |-> logged[j] + IF Log!IsEvent(tail, j) THEN 1 ELSE 0]
        /\ Late' = IF shared[t] THEN Late ELSE Late \cup {t}
    BY <1>3, NewlineShape
  <2>3. ~Broken'
    BY <2>2 DEF Broken, FileInv
  <2>4. logged' \in [Items -> Nat] /\ \A j \in Items : logged[j] <= logged'[j]
    BY <1>0, <2>2
  <2>5. Log!Total(logged) <= Log!Total(logged') /\ Log!Total(logged') \in Nat
    BY <1>0, <2>4, TotalMonotone
  <2>6. CASE shared[t]
    BY <1>0, <1>f, <2>2, <2>3, <2>5, <2>6 DEF LossInv
  <2>7. CASE ~shared[t] /\ tail # Written(t)
    <3>1. Broken
      BY <2>2, <2>7 DEF Broken
    <3>2. Cardinality(Late') = Cardinality(Late) + 1
      BY <1>f, <2>2, <2>7, FS_AddElement
    <3>3. QED
      BY <1>0, <1>f, <2>2, <2>3, <2>5, <3>1, <3>2 DEF LossInv
  <2>8. CASE ~shared[t] /\ tail = Written(t)
    <3>1. \A j \in Items : Log!IsEvent(tail, j) <=> j = item[t]
      BY <2>2, <2>8, OneEvent
    <3>2. item[t] \in Items
      BY <1>0
    <3>3. logged' = [logged EXCEPT ![item[t]] = @ + 1]
      <4>1. \A j \in Items : logged[j] \in Nat
        BY <1>0
      <4>2. [logged EXCEPT ![item[t]] = @ + 1] =
              [j \in Items |-> IF j = item[t] THEN logged[j] + 1 ELSE logged[j]]
        BY <1>0, <3>2
      <4>3. \A j \in Items : logged[j] + (IF Log!IsEvent(tail, j) THEN 1 ELSE 0) =
                              IF j = item[t] THEN logged[j] + 1 ELSE logged[j]
        BY <3>1, <4>1
      <4>4. QED
        BY <2>2, <4>2, <4>3
    <3>4. Log!Total(logged') = Log!Total(logged) + 1
      BY <1>0, <3>2, <3>3, TotalGrows
    <3>5. Cardinality(Late') = Cardinality(Late) + 1
      BY <1>f, <2>2, <2>8, FS_AddElement
    <3>6. QED
      BY <1>0, <1>f, <2>2, <2>3, <3>4, <3>5 DEF LossInv
  <2>9. QED
    BY <2>6, <2>7, <2>8
<1>4. ASSUME NEW t \in Writers, Log!Acknowledge(t) PROVE LossInv'
  <2>1. /\ UNCHANGED <<Log!Appending, shared, logged, tail, item, next, breaks>>
        /\ acked' = acked + 1 /\ overlaps' = overlaps + IF shared[t] THEN 1 ELSE 0
        /\ t \in Late <=> ~shared[t]
        /\ Late' = Late \ {t}
    BY <1>4, AcknowledgeShape
  <2>2. Broken' <=> Broken
    <3>1. \A u \in Log!Appending : Written(u)' = Written(u)
      BY <2>1 DEF Written
    <3>2. QED
      BY <2>1, <3>1 DEF Broken
  <2>3. Cardinality(Late') = IF shared[t] THEN Cardinality(Late) ELSE Cardinality(Late) - 1
    BY <1>f, <2>1, FS_RemoveElement
  <2>4. QED
    BY <1>0, <1>f, <2>1, <2>2, <2>3 DEF LossInv
<1>5. ASSUME NEW t \in Writers, Log!FailWrite(t) PROVE LossInv'
  <2>1. /\ t \in Log!Appending /\ Log!Appending' = Log!Appending \ {t}
        /\ UNCHANGED <<logged, shared, acked, overlaps>> /\ Late' = Late
        /\ tail' # <<>> => breaks' = breaks + 1
        /\ tail' = <<>> => breaks' = breaks
    BY <1>5, FailShape
  <2>2. Broken' => tail' # <<>>
    BY <2>1 DEF Broken, FileInv
  <2>3. QED
    BY <1>0, <1>f, <2>1, <2>2 DEF LossInv
<1>6. CASE Log!Kill
  <2>1. /\ Log!Appending' = {} /\ Late' = {} /\ UNCHANGED <<logged, acked, overlaps>>
        /\ \/ Log!Appending = {} /\ UNCHANGED <<tail, breaks>>
           \/ /\ tail' # <<>> => breaks' = breaks + 1
              /\ tail' = <<>> => breaks' = breaks
    BY <1>6, KillShape
  <2>2. Cardinality(Late') = 0
    BY <2>1, FS_EmptySet
  <2>3. Broken' <=> tail' # <<>>
    BY <2>1 DEF Broken
  <2>4. Log!Appending = {} => (Broken <=> tail # <<>>)
    BY DEF Broken
  <2>5. QED
    BY <1>0, <1>f, <2>1, <2>2, <2>3, <2>4 DEF LossInv
<1>7. CASE Log!Restart \/ Log!RestartUnopened \/ Log!RestartFails \/ UNCHANGED Log!vars
  <2>1. UNCHANGED <<pc, shared, item, next, logged, tail, acked, overlaps, breaks>>
    BY <1>7 DEF Log!Restart, Log!RestartUnopened, Log!RestartFails, Log!vars, Log!threadVars,
       Log!fileVars, Log!tallyVars
  <2>2. UNCHANGED Log!Appending /\ Late' = Late /\ \A u \in Writers : Written(u)' = Written(u)
    BY <2>1 DEF Log!Appending, Late, Written
  <2>3. Broken' <=> Broken
    BY <2>1, <2>2 DEF Broken, Log!Appending
  <2>4. QED
    BY <2>1, <2>2, <2>3 DEF LossInv
<1>8. QED
  BY <1>1, <1>2, <1>3, <1>4, <1>5, <1>6, <1>7 DEF Log!Next

LEMMA LogAlways == ASSUME Log!LogAssumption PROVE Log!Spec => []LogInv
<1>1. Log!Init => LogInv
  BY LogInit
<1>2. LogInv /\ [Log!Next]_(Log!vars) => LogInv'
  BY LogTypeStep, FileStep, MemoryStep, LossStep DEF LogInv
<1>3. QED
  BY <1>1, <1>2, PTL DEF Log!Spec

(* Every variable of UsageLog keeps its type.                              *)
THEOREM LogTyping == Log!Spec => []Log!TypeOK
<1>0. Log!Spec => []LogInv
  BY LogAlways, UsageLogAssumption
<1>1. LogInv => Log!TypeOK
  BY DEF LogInv
<1>2. QED
  BY <1>1, <1>0, PTL

(* As long as no append broke off and none overlapped, the log read at rest *)
(* (load_snapshot) is what record_usage has counted in memory.              *)
THEOREM LogIsMemory == Log!Spec => []CleanLogIsMemory
<1>0. Log!Spec => []LogInv
  BY LogAlways, UsageLogAssumption
<1>1. ASSUME LogInv PROVE CleanLogIsMemory
  <2>1. SUFFICES ASSUME up, opened, Log!Quiescent, breaks = 0, overlaps = 0
                 PROVE  ~Log!Unreadable /\ Log!Loaded = usage
    BY DEF CleanLogIsMemory, Log!CleanLogIsMemory
  <2>2. /\ \A t \in Writers : pc[t] = "idle"
        /\ usage \in [Items -> Nat] /\ logged \in [Items -> Nat]
    BY <1>1, <2>1 DEF Log!Quiescent, LogInv, Log!TypeOK
  <2>3. ~Log!Unreadable /\ tail = <<>>
    BY <1>1, <2>1, <2>2 DEF LogInv, FileInv, Log!Appending
  <2>4. ASSUME NEW i \in Items PROVE ~Log!IsEvent(tail, i) /\ logged[i] = usage[i]
    <3>1. DOMAIN [n \in 1..Parts |-> [of |-> i, part |-> n]] # {}
      <4>1. 1 \in 1..Parts
        BY UsageLogAssumption DEF Log!LogAssumption
      <4>2. QED
        BY <4>1
    <3>2. ~Log!IsEvent(tail, i)
      BY <2>3, <3>1 DEF Log!IsEvent
    <3>3. Clean /\ LateFor(i) = {}
      BY <2>1, <2>2 DEF Clean, LateFor, Late
    <3>4. logged[i] = usage[i] + 0
      BY <1>1, <3>3, FS_EmptySet DEF LogInv, MemoryInv
    <3>5. QED
      BY <2>2, <3>2, <3>4
  <2>5. Log!Loaded = usage
    BY <2>2, <2>4 DEF Log!Loaded
  <2>6. QED
    BY <2>3, <2>5
<1>2. QED
  BY <1>1, <1>0, PTL

(* At most one acknowledged launch is lost for each broken line, and those  *)
(* whose appends overlapped; only a broken write makes a log that the       *)
(* daemon does not start with (UsageLog::record, load_snapshot).            *)
THEOREM LossIsBounded == Log!Spec => []LossBounded
<1>0. Log!Spec => []LogInv
  BY LogAlways, UsageLogAssumption
<1>1. ASSUME LogInv PROVE LossBounded
  <2>1. /\ logged \in [Items -> Nat] /\ acked \in Nat /\ breaks \in Nat /\ overlaps \in Nat
        /\ IsFiniteSet(Items)
    BY <1>1, LogFinite, UsageLogAssumption DEF LogInv, Log!TypeOK
  <2>2. CASE Log!Unreadable
    BY <1>1, <2>2 DEF LossBounded, Log!LossBounded, LogInv, FileInv
  <2>3. CASE ~Log!Unreadable
    <3>1. Log!Loaded \in [Items -> Nat] /\ \A j \in Items : logged[j] <= Log!Loaded[j]
      BY <2>1 DEF Log!Loaded
    <3>2. Log!Total(logged) <= Log!Total(Log!Loaded) /\ Log!Total(logged) \in Nat
              /\ Log!Total(Log!Loaded) \in Nat
      BY <2>1, <3>1, TotalMonotone, UsageLogAssumption
    <3>3. Cardinality(Late) \in Nat
      BY LateFinite, UsageLogAssumption DEF Late
    <3>4. acked <= Log!Total(Log!Loaded) + breaks + overlaps
      BY <1>1, <2>1, <3>2, <3>3 DEF LogInv, LossInv
    <3>5. QED
      BY <2>3, <3>4 DEF LossBounded, Log!LossBounded
  <2>4. QED
    BY <2>2, <2>3
<1>2. QED
  BY <1>1, <1>0, PTL

=============================================================================
