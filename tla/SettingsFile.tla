---------------------------- MODULE SettingsFile ----------------------------
(***************************************************************************)
(* settings.json between the launcher and the daemon.                      *)
(*                                                                         *)
(* The launcher owns the file: LauncherSettingsStore loads it at start and *)
(* whenever the settings window opens, repairs what it cannot use, and     *)
(* overwrites it when the user saves.  File.WriteAllText truncates the     *)
(* file before it writes, so a reader or a crash can meet a torn file.     *)
(* The daemon (crates/winspot-daemon, server.rs) reads the same file twice *)
(* when it starts, once for the fastFlowLm object and once for capture,    *)
(* with parsers of its own that are stricter than the launcher's: a byte   *)
(* order mark, another encoding, a byte that is no UTF-8, a member given   *)
(* twice or a negative number is nothing to the launcher and an error to   *)
(* the daemon, which then falls back to the defaults of the whole object.  *)
(*                                                                         *)
(* An object is abstracted to whether its fields hold the user's choices   *)
(* or the defaults and to what its numbers look like.  Motion and theme    *)
(* settings, which the daemon does not read, are left out; the hotkey is   *)
(* kept because repairing it decides whether the file is rewritten.        *)
(***************************************************************************)
EXTENDS Integers

CONSTANTS
  Chords,         \* hotkeys the launcher accepts
  DefaultChord,   \* Ctrl Alt Space
  BrokenHotkey,   \* no key, no modifier, or a chord reserved by Windows
  Missing,        \* there is no file
  Torn,           \* a file that is no JSON object to the launcher either
  NoPage,         \* the settings window is closed
  NoWrite,        \* nothing is being written
  MaxEdits        \* bound on the changes other programs make to the file

Hotkeys == Chords \cup {BrokenHotkey}

\* What the numbers of an object look like.  ok: within limits; odd: zero or
\* beyond a limit that both programs know; negative: an int outside the
\* daemon's unsigned type (-1, or port 70000); text: not an int.
Numbers == {"ok", "odd", "negative", "text"}
Section == [choice : {"default", "user"}, numbers : Numbers]
Settings == [hotkey : Hotkeys, fastFlowLm : Section, capture : Section]

\* A file that is a JSON object to File.ReadAllText and System.Text.Json (the
\* literal null counts as one without members).  refused: the objects whose
\* reader in the daemon (fs::read_to_string and serde_json) does not take the
\* text: both for its encoding, one for a member given twice.
Objects == {"fastFlowLm", "capture"}
Files == [content : Settings, refused : SUBSET Objects]

ASSUME SettingsAssumption ==
  /\ DefaultChord \in Chords
  /\ BrokenHotkey \notin Chords
  /\ Missing \notin Files
  /\ Torn \notin Files
  /\ Missing # Torn
  /\ NoPage \notin Settings
  /\ NoWrite \notin [by : {"load", "save"}, settings : Settings]
  /\ MaxEdits \in Nat

VARIABLES
  file,     \* what is on disk
  running,  \* is the launcher running?
  page,     \* the settings the window shows
  write,    \* the write the UI thread is in
  settled,  \* did the launcher load or write the file last, successfully?
  daemon,   \* where the daemon is in its start, and what it read
  edits     \* changes made by others so far

vars == <<file, running, page, write, settled, daemon, edits>>

TypeOK ==
  /\ file \in Files \cup {Missing, Torn}
  /\ running \in BOOLEAN
  /\ page \in Settings \cup {NoPage}
  /\ write \in [by : {"load", "save"}, settings : Settings] \cup {NoWrite}
  /\ settled \in BOOLEAN
  /\ daemon \in [phase : {"off", "starting", "reading", "running"},
                 fastFlowLm : Section, capture : Section]
  /\ edits \in 0..MaxEdits

-----------------------------------------------------------------------------
(* How the launcher reads the file *)

DefaultSection == [choice |-> "default", numbers |-> "ok"]
Defaults == [hotkey |-> DefaultChord, fastFlowLm |-> DefaultSection,
             capture |-> DefaultSection]

\* Numbers that cannot be used become defaults or are clamped; the other
\* fields stay.
Normalized(section) == [section EXCEPT !.numbers = "ok"]

\* The typed parse of the launcher throws on a field of the wrong JSON type.
Deserializes(s) ==
  s.fastFlowLm.numbers # "text" /\ s.capture.numbers # "text"

\* Faulty: a file the typed parse rejects is replaced, not recovered.
RecoveredDefaults(s) == Defaults

\* Field by field, for a file the typed parse rejects.
Recovered(s) == [s EXCEPT !.fastFlowLm = Normalized(@), !.capture = Normalized(@)]

NormalizedSettings(s) ==
  [s EXCEPT !.fastFlowLm = Normalized(@), !.capture = Normalized(@)]

RepairedHotkey(s) ==
  IF s.hotkey = BrokenHotkey THEN [s EXCEPT !.hotkey = DefaultChord] ELSE s

\* The settings Load returns for a file it could read.
Loaded(f) ==
  IF f \notin Files THEN Defaults
  ELSE RepairedHotkey(IF Deserializes(f.content) THEN NormalizedSettings(f.content)
                                                 ELSE Recovered(f.content))

\* Faulty: the comparison with the normalized capture settings is forgotten.
ShouldPersistUnreadable(f) ==
  IF f \in Files THEN ~Deserializes(f.content) \/ f.content.hotkey = BrokenHotkey ELSE TRUE

\* When Load writes back what it returns.
ShouldPersist(f) ==
  IF f \in Files
    THEN \/ ~Deserializes(f.content)
         \/ f.content.hotkey = BrokenHotkey
         \/ f.content.capture # Normalized(f.content.capture)
    ELSE TRUE

\* What Save leaves on disk: UTF-8 without a mark, each member once.
SavedAs(s) == [content |-> s, refused |-> {}]

(* How the daemon reads it *)

DaemonParses(f, part) ==
  f \in Files /\ part \notin f.refused /\ f.content[part].numbers \in {"ok", "odd"}

DaemonReads(f, part) ==
  IF DaemonParses(f, part) THEN Normalized(f.content[part]) ELSE DefaultSection

-----------------------------------------------------------------------------
Init ==
  /\ file \in {Missing, Torn} \cup Files
  /\ running = FALSE
  /\ page = NoPage
  /\ write = NoWrite
  /\ settled = FALSE
  /\ daemon = [phase |-> "off", fastFlowLm |-> DefaultSection,
               capture |-> DefaultSection]
  /\ edits = 0

\* WriteAllText truncates first.
BeginWrite(by, s) ==
  /\ file' = Torn
  /\ write' = [by |-> by, settings |-> s]
  /\ settled' = FALSE

\* A file that needs no repair is left alone, and so is one that cannot be
\* opened for writing: the repair is best effort.
Repair ==
  \/ /\ ShouldPersist(file)
     /\ BeginWrite("load", Loaded(file))
  \/ /\ settled' = ~ShouldPersist(file)
     /\ UNCHANGED <<file, write>>

\* The result of Load is s, whatever becomes of the repair; a file that cannot
\* be read counts as default settings and is left alone.
Load(s) ==
  \/ /\ s = Loaded(file)
     /\ Repair
  \/ /\ s = Defaults
     /\ UNCHANGED <<file, write, settled>>

StartLauncher ==
  /\ ~running
  /\ \E s \in {Loaded(file), Defaults} : Load(s)
  /\ running' = TRUE
  /\ UNCHANGED <<page, daemon, edits>>

OpenSettings ==
  /\ running /\ write = NoWrite /\ page = NoPage
  /\ \E s \in {Loaded(file), Defaults} : Load(s) /\ page' = s
  /\ UNCHANGED <<running, daemon, edits>>

CloseSettings ==
  /\ running /\ write = NoWrite /\ page # NoPage
  /\ page' = NoPage
  /\ UNCHANGED <<file, running, write, settled, daemon, edits>>

\* Faulty: a chord that Windows reserves is accepted.
AcceptableReserved(s) ==
  s.fastFlowLm.numbers = "ok" /\ s.capture.numbers = "ok"

\* TrySave lets through only settings its validation accepts.
Acceptable(s) ==
  s.hotkey \in Chords /\ s.fastFlowLm.numbers = "ok" /\ s.capture.numbers = "ok"

\* The launcher dies, with the exception or from outside: a write it was in
\* stays undone.
Die ==
  /\ running' = FALSE
  /\ page' = NoPage
  /\ write' = NoWrite
  /\ UNCHANGED settled

\* A save that cannot open the file throws out of the click handler.
SaveSettings(s) ==
  /\ running /\ write = NoWrite /\ page # NoPage
  /\ Acceptable(s)
  /\ \/ BeginWrite("save", s) /\ UNCHANGED <<running, page>>
     \/ Die /\ UNCHANGED file
  /\ UNCHANGED <<daemon, edits>>

FinishWrite ==
  /\ write # NoWrite
  /\ file' = SavedAs(write.settings)
  /\ write' = NoWrite
  /\ settled' = TRUE
  /\ UNCHANGED <<running, page, daemon, edits>>

\* A disk error after the truncation: swallowed in a repair, fatal in a save.
BreakWrite ==
  /\ write # NoWrite
  /\ \/ /\ write.by = "load"
        /\ write' = NoWrite
        /\ UNCHANGED <<running, page, settled>>
     \/ write.by = "save" /\ Die
  /\ UNCHANGED <<file, daemon, edits>>

StopLauncher ==
  /\ running
  /\ Die
  /\ UNCHANGED <<file, daemon, edits>>

\* Somebody edits, spoils or deletes the file.
EditFile(f) ==
  /\ edits < MaxEdits /\ write = NoWrite
  /\ f # file
  /\ file' = f
  /\ edits' = edits + 1
  /\ settled' = FALSE
  /\ UNCHANGED <<running, page, write, daemon>>

-----------------------------------------------------------------------------
(* The daemon, a process of its own *)

StartDaemon ==
  /\ daemon.phase = "off"
  /\ daemon' = [daemon EXCEPT !.phase = "starting"]
  /\ UNCHANGED <<file, running, page, write, settled, edits>>

ReadFastFlowLm ==
  /\ daemon.phase = "starting"
  /\ daemon' = [daemon EXCEPT !.phase = "reading",
                              !.fastFlowLm = DaemonReads(file, "fastFlowLm")]
  /\ UNCHANGED <<file, running, page, write, settled, edits>>

ReadCapture ==
  /\ daemon.phase = "reading"
  /\ daemon' = [daemon EXCEPT !.phase = "running",
                              !.capture = DaemonReads(file, "capture")]
  /\ UNCHANGED <<file, running, page, write, settled, edits>>

StopDaemon ==
  /\ daemon.phase # "off"
  /\ daemon' = [phase |-> "off", fastFlowLm |-> DefaultSection,
                capture |-> DefaultSection]
  /\ UNCHANGED <<file, running, page, write, settled, edits>>

Next ==
  \/ StartLauncher
  \/ OpenSettings
  \/ CloseSettings
  \/ \E s \in Settings : SaveSettings(s)
  \/ FinishWrite
  \/ BreakWrite
  \/ StopLauncher
  \/ \E f \in Files \cup {Missing, Torn} : EditFile(f)
  \/ StartDaemon
  \/ ReadFastFlowLm
  \/ ReadCapture
  \/ StopDaemon

Spec == Init /\ [][Next]_vars

-----------------------------------------------------------------------------
(* Properties *)

\* Once the launcher has loaded or written the file, the daemon reads the same
\* capture settings from it as the launcher, if its reader takes the text at
\* all: Load writes back every capture object whose numbers the two would read
\* differently.
CaptureReadAlike ==
  settled => /\ file \in Files
             /\ "capture" \notin file.refused =>
                  DaemonReads(file, "capture") = Loaded(file).capture

\* Models/LauncherSettings.cs: "The daemon reads this same `capture` object".
\* The code does not have this property: Load leaves a text that only it can
\* read as it is.
SameCaptureRead ==
  settled => DaemonReads(file, "capture") = Loaded(file).capture

\* The same of the fastFlowLm object: "The daemon reads this same `fastFlowLm`
\* object from settings.json" (Models/LauncherSettings.cs).
\* The code does not have this property; README.md says where they part.
FastFlowLmReadAlike ==
  settled => DaemonReads(file, "fastFlowLm") = Loaded(file).fastFlowLm

\* What the launcher writes it reads back unchanged, and it never repairs what
\* it wrote: a repair is made once.
WritesReadBack ==
  write # NoWrite => /\ Loaded(SavedAs(write.settings)) = write.settings
                     /\ ~ShouldPersist(SavedAs(write.settings))

\* A repair that replaces one bad value keeps the user's other choices.
RepairKeepsChoices ==
  [][ write = NoWrite /\ write' # NoWrite /\ write'.by = "load"
        /\ file \in Files
      => /\ write'.settings.fastFlowLm.choice = file.content.fastFlowLm.choice
         /\ write'.settings.capture.choice = file.content.capture.choice
         /\ file.content.hotkey \in Chords =>
              write'.settings.hotkey = file.content.hotkey ]_vars

=============================================================================
