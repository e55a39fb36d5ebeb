----------------------------- MODULE Activation -----------------------------
(***************************************************************************)
(* How the user reaches the launcher: the global hotkey, the tray icon and *)
(* the window they show and hide (MainWindow.axaml.cs, App.axaml.cs,       *)
(* GlobalHotkeyService.cs), and the settings window that changes both      *)
(* while the launcher runs.                                                *)
(*                                                                         *)
(* Windows gives a chord to one program at a time.  The launcher asks for  *)
(* its chord 400 ms after every opening of its window, and again when the  *)
(* user saves another chord: it drops the old registration, asks for the   *)
(* new chord, and, refused, asks for the old one again.  The UI thread     *)
(* runs a save in one go, but other programs take and release chords       *)
(* between any two of its calls.                                           *)
(*                                                                         *)
(* The settings file is whole here (SettingsFile has its writing); the     *)
(* loss of chords by Windows itself and session changes are left out.      *)
(***************************************************************************)
EXTENDS Integers

CONSTANTS
  Chords,      \* hotkeys LauncherSettingsStore loads as they are
  Registrable, \* those TryParse has a key code for; the settings window saves no other
  NoChord,     \* no hotkey, as in "nothing to roll back to"
  MaxPending,  \* bound on the delayed registrations outstanding
  MaxPresses,  \* bound on the hotkey messages not yet handled
  MaxCaptures, \* bound on the captures awaited with the window hidden
  MaxChanges   \* bound on what changes outside: chords taken or released, hooking

ActivationAssumption ==
  /\ NoChord \notin Chords
  /\ Registrable \subseteq Chords
  /\ MaxPending \in Nat
  /\ MaxPresses \in Nat
  /\ MaxCaptures \in Nat
  /\ MaxChanges \in Nat

VARIABLES
  file,      \* the chord and the tray setting saved last
  window,    \* none: the launcher does not run
  hotkey,    \* _hotkey
  service,   \* is _hotkeyService set?
  granted,   \* chords Windows sends to the launcher's window
  hooks,     \* window procedures put in front of the window's own
  hint,      \* the chord shown in the search box
  status,    \* the hotkey status line and the chord it names
  tray,      \* is the tray icon visible?
  page,      \* the settings window: closed, or its status message
  save,      \* the save in progress: its step and what it may roll back to
  pending,   \* delayed registrations
  presses,   \* hotkey messages posted to the UI thread
  captures,  \* captures awaited for which the window was hidden
  taken,     \* chords other programs hold
  hookable,  \* does SetWindowLongPtr succeed?
  changes    \* how often taken or hookable changed

hotkeyVars == <<hotkey, service, granted, hooks, hint, status>>
worldVars  == <<taken, hookable, changes>>
otherVars  == <<captures, worldVars>>
vars == <<file, window, hotkeyVars, tray, page, save, pending, presses, otherVars>>

Pages == {"closed", "open", "unavailable"}
Steps == {"idle", "register", "rollback", "refused", "accepted"}

TypeOK ==
  /\ file \in [chord : Chords, tray : BOOLEAN]
  /\ window \in {"none", "shown", "hidden", "closed"}
  /\ hotkey \in Chords
  /\ service \in BOOLEAN
  /\ granted \subseteq Chords
  /\ hooks \in 0..1
  /\ hint \in Chords
  /\ status \in [text : {"none", "ready", "unavailable"}, chord : Chords]
  /\ tray \in BOOLEAN
  /\ page \in Pages
  /\ save \in [step : Steps, previous : Chords \cup {NoChord}]
  /\ pending \in 0..MaxPending
  /\ presses \in 0..MaxPresses
  /\ captures \in 0..MaxCaptures
  /\ taken \subseteq Chords
  /\ hookable \in BOOLEAN
  /\ changes \in 0..MaxChanges

-----------------------------------------------------------------------------
(* The hotkey service *)

Idle == [step |-> "idle", previous |-> NoChord]
Running == window # "none"
Alive == window \in {"shown", "hidden"}    \* the window has a handle
UiThreadFree == Running /\ save.step = "idle"

Obtainable(c) == hookable /\ c \in Registrable \ (taken \cup granted)

\* Faulty: a refused service leaves its window procedure in.
RegisterHooked(c) ==
  IF Obtainable(c)
    THEN /\ service' = TRUE
         /\ granted' = granted \cup {c}
         /\ hooks' = hooks + 1
    ELSE hooks' = hooks + 1 /\ UNCHANGED <<service, granted>>

\* Register of the service, for the chord c: a chord without a key code, a
\* window procedure that cannot be set and a chord that Windows refuses all
\* end it.  A refused service takes its window procedure out again.
Register(c) ==
  IF Obtainable(c)
    THEN /\ service' = TRUE
         /\ granted' = granted \cup {c}
         /\ hooks' = hooks + 1
    ELSE UNCHANGED <<service, granted, hooks>>

\* RegisterHotkey of the window, asked for the chord c while hint h shows.  A
\* service that is set counts as registered; a window without a handle cannot
\* register.
RegisterHotkey(c, h) ==
  /\ IF service \/ ~Alive THEN UNCHANGED <<service, granted, hooks>>
                          ELSE Register(c)
  /\ status' = [text |-> IF service' THEN "ready" ELSE "unavailable", chord |-> h]

\* Dispose.
Dispose ==
  /\ granted' = {}
  /\ hooks' = 0

-----------------------------------------------------------------------------
Init ==
  /\ file \in [chord : Chords, tray : BOOLEAN]
  /\ window = "none"
  /\ hotkey = file.chord
  /\ service = FALSE
  /\ granted = {}
  /\ hooks = 0
  /\ hint = file.chord
  /\ status = [text |-> "none", chord |-> file.chord]
  /\ tray = FALSE
  /\ page = "closed"
  /\ save = Idle
  /\ pending = 0
  /\ presses = 0
  /\ captures = 0
  /\ taken \in SUBSET Chords
  /\ hookable \in BOOLEAN
  /\ changes = 0

\* Every opening of the window starts a delayed registration.
Opened ==
  /\ window' = "shown"
  /\ pending < MaxPending
  /\ pending' = pending + 1

StartLauncher ==
  /\ window = "none"
  /\ Opened
  /\ hotkey' = file.chord
  /\ hint' = file.chord
  /\ status' = [text |-> "none", chord |-> file.chord]
  /\ tray' = file.tray
  /\ UNCHANGED <<file, service, granted, hooks, page, save, presses, otherVars>>

\* The process ends; Windows takes back its chords.
Exit ==
  /\ window' = "none"
  /\ service' = FALSE
  /\ Dispose
  /\ tray' = FALSE
  /\ page' = "closed"
  /\ save' = Idle
  /\ pending' = 0
  /\ presses' = 0
  /\ captures' = 0
  /\ UNCHANGED <<file, hotkey, hint, status, worldVars>>

Quit == Running /\ Exit

\* Faulty: a launcher hidden in the meantime does not register.
DelayedRegisterShown ==
  /\ UiThreadFree /\ pending > 0 /\ window # "hidden"
  /\ pending' = pending - 1
  /\ RegisterHotkey(hotkey, hint)
  /\ UNCHANGED <<file, window, hotkey, hint, tray, page, save, presses, otherVars>>

DelayedRegister ==
  /\ UiThreadFree /\ pending > 0
  /\ pending' = pending - 1
  /\ RegisterHotkey(hotkey, hint)
  /\ UNCHANGED <<file, window, hotkey, hint, tray, page, save, presses, otherVars>>

-----------------------------------------------------------------------------
(* Showing and hiding *)

PressHotkey ==
  /\ granted # {} /\ presses < MaxPresses
  /\ presses' = presses + 1
  /\ UNCHANGED <<file, window, hotkeyVars, tray, page, save, pending, otherVars>>

\* A closed window cannot be shown again: the call throws on the UI thread.
Show ==
  \/ window = "hidden" /\ Opened
  \/ window = "shown" /\ UNCHANGED <<window, pending>>

HandleHotkey ==
  /\ UiThreadFree /\ presses > 0
  /\ \/ /\ \/ window = "shown" /\ window' = "hidden" /\ UNCHANGED pending
           \/ window = "hidden" /\ Show
        /\ presses' = presses - 1
        /\ UNCHANGED <<file, hotkeyVars, tray, page, save, otherVars>>
     \/ window = "closed" /\ Exit

\* Escape, or the end of an action that succeeded.
Escape ==
  /\ UiThreadFree /\ window = "shown"
  /\ window' = "hidden"
  /\ UNCHANGED <<file, hotkeyVars, tray, page, save, pending, presses, otherVars>>

\* Enter on a capture hides the window before the action is sent.
HideForCapture ==
  /\ UiThreadFree /\ window = "shown" /\ captures < MaxCaptures
  /\ window' = "hidden"
  /\ captures' = captures + 1
  /\ UNCHANGED <<file, hotkeyVars, tray, page, save, pending, presses, worldVars>>

\* Its answer: a failure shows the window again; if it was closed meanwhile,
\* the exception is logged.
CaptureAnswered ==
  /\ UiThreadFree /\ captures > 0
  /\ captures' = captures - 1
  /\ Show \/ UNCHANGED <<window, pending>>
  /\ UNCHANGED <<file, hotkeyVars, tray, page, save, presses, worldVars>>

OpenFromTray ==
  /\ UiThreadFree /\ tray
  /\ \/ Show /\ UNCHANGED <<file, hotkeyVars, tray, page, save, presses, otherVars>>
     \/ window = "closed" /\ Exit

\* Closing the last window ends the program; with the settings window open the
\* program goes on.  The service is disposed, but stays set.
CloseLauncher ==
  /\ UiThreadFree /\ window = "shown"
  /\ \/ page = "closed" /\ Exit
     \/ /\ page # "closed"
        /\ window' = "closed"
        /\ Dispose
        /\ UNCHANGED <<file, hotkey, service, hint, status, tray, page, save,
                       pending, presses, otherVars>>

-----------------------------------------------------------------------------
(* The settings window *)

OpenSettings ==
  /\ UiThreadFree /\ page = "closed" /\ (tray \/ window = "shown")
  /\ page' = "open"
  /\ UNCHANGED <<file, window, hotkeyVars, tray, save, pending, presses, otherVars>>

CloseSettings ==
  /\ UiThreadFree /\ page # "closed"
  /\ \/ window = "closed" /\ Exit
     \/ /\ window # "closed"
        /\ page' = "closed"
        /\ UNCHANGED <<file, window, hotkeyVars, tray, save, pending, presses, otherVars>>

\* Save writes the file before anybody knows whether the chord can be had;
\* ApplyHotkey then drops the old registration.
SaveSettings(s) ==
  /\ UiThreadFree /\ page # "closed"
  /\ file' = s
  /\ hotkey' = s.chord
  /\ hint' = s.chord
  /\ service' = FALSE
  /\ IF service THEN Dispose ELSE UNCHANGED <<granted, hooks>>
  /\ save' = [step |-> "register", previous |-> hotkey]
  /\ page' = "open"
  /\ UNCHANGED <<window, status, tray, pending, presses, otherVars>>

\* Faulty: a refusal goes unnoticed.
RegisterNewUnchecked ==
  /\ save.step = "register"
  /\ RegisterHotkey(hotkey, hint)
  /\ save' = [save EXCEPT !.step = "accepted"]
  /\ UNCHANGED <<file, window, hotkey, hint, tray, page, pending, presses, otherVars>>

RegisterNew ==
  /\ save.step = "register"
  /\ RegisterHotkey(hotkey, hint)
  /\ save' = [save EXCEPT !.step = IF service' THEN "accepted" ELSE "rollback"]
  /\ UNCHANGED <<file, window, hotkey, hint, tray, page, pending, presses, otherVars>>

\* Faulty: the rollback forgets the hint.
RollBackSilently ==
  /\ save.step = "rollback"
  /\ hotkey' = save.previous
  /\ RegisterHotkey(save.previous, hint)
  /\ save' = [save EXCEPT !.step = "refused"]
  /\ UNCHANGED <<file, window, hint, tray, page, pending, presses, otherVars>>

\* The outcome of the second registration is not looked at.
RollBack ==
  /\ save.step = "rollback"
  /\ hotkey' = save.previous
  /\ hint' = save.previous
  /\ RegisterHotkey(save.previous, save.previous)
  /\ save' = [save EXCEPT !.step = "refused"]
  /\ UNCHANGED <<file, window, tray, page, pending, presses, otherVars>>

\* The message, the tray icon, and the end of the click: the settings window
\* stays open on the word "unavailable".
FinishSave ==
  /\ save.step \in {"accepted", "refused"}
  /\ page' = IF save.step = "accepted" THEN "closed" ELSE "unavailable"
  /\ tray' = file.tray
  /\ save' = Idle
  /\ UNCHANGED <<file, window, hotkeyVars, pending, presses, otherVars>>

-----------------------------------------------------------------------------
(* Other programs *)

TakeChord(c) ==
  /\ c \notin taken \cup granted
  /\ changes < MaxChanges
  /\ taken' = taken \cup {c}
  /\ changes' = changes + 1
  /\ UNCHANGED <<file, window, hotkeyVars, tray, page, save, pending, presses, captures,
                 hookable>>

ReleaseChord(c) ==
  /\ c \in taken
  /\ changes < MaxChanges
  /\ taken' = taken \ {c}
  /\ changes' = changes + 1
  /\ UNCHANGED <<file, window, hotkeyVars, tray, page, save, pending, presses, captures,
                 hookable>>

HookingChanges ==
  /\ changes < MaxChanges
  /\ hookable' = ~hookable
  /\ changes' = changes + 1
  /\ UNCHANGED <<file, window, hotkeyVars, tray, page, save, pending, presses, captures,
                 taken>>

Next ==
  \/ StartLauncher
  \/ Quit
  \/ DelayedRegister
  \/ PressHotkey
  \/ HandleHotkey
  \/ Escape
  \/ HideForCapture
  \/ CaptureAnswered
  \/ OpenFromTray
  \/ CloseLauncher
  \/ OpenSettings
  \/ CloseSettings
  \/ \E s \in [chord : Registrable, tray : BOOLEAN] : SaveSettings(s)
  \/ RegisterNew
  \/ RollBack
  \/ FinishSave
  \/ \E c \in Chords : TakeChord(c) \/ ReleaseChord(c)
  \/ HookingChanges

Spec == Init /\ [][Next]_vars

\* The UI thread runs its timers and finishes the click it is in.
Fairness ==
  /\ WF_vars(DelayedRegister)
  /\ WF_vars(RegisterNew)
  /\ WF_vars(RollBack)
  /\ WF_vars(FinishSave)

FairSpec == Spec /\ Fairness

-----------------------------------------------------------------------------
(* Properties *)

\* Through every save, rollback, reopening and closing, Windows sends the
\* window exactly the chord of the service it holds, and the window procedure
\* is hooked exactly once for it: no old chord stays behind, no hook is stacked.
GrantedIsHeld ==
  /\ granted = IF service /\ window # "closed" THEN {hotkey} ELSE {}
  /\ hooks = IF service /\ window # "closed" THEN 1 ELSE 0

\* "Hotkey ready: <chord>" is shown only while that chord summons the launcher
\* and is the one the search box hints at.
ReadyMeansGranted ==
  save.step = "idle" /\ Alive /\ status.text = "ready"
    => granted = {status.chord} /\ hint = status.chord

\* The settings window closes on a save only when the chord in the file is the
\* chord that works.
AcceptedMeansGranted ==
  save.step = "accepted" => granted = {file.chord} /\ hint = file.chord

\* A save that is refused leaves the launcher with the previous chord, or with
\* none and a status line that says so.
RefusedMeansSaid ==
  save.step = "refused" =>
    granted = {save.previous} \/ (granted = {} /\ status.text = "unavailable")

\* The status line of a hidden launcher that neither a chord, nor the tray icon,
\* nor a registration still to come can bring back says that its hotkey is
\* unavailable.  It may have been written after the window was hidden, when
\* nobody saw it.
LostMeansSaid ==
  UiThreadFree /\ window = "hidden" /\ ~tray /\ pending = 0 /\ granted = {}
    => status.text = "unavailable"

\* The four together: through every save, rollback and opening, among programs
\* that take the chord in between, the status line of the launcher says what it
\* was granted.  The message of the settings window after a refused save is
\* left out: see PreviousStillActive.
StatusIsTrue ==
  /\ ReadyMeansGranted
  /\ AcceptedMeansGranted
  /\ RefusedMeansSaid
  /\ LostMeansSaid


\* Opening the launcher is another try: with a chord that has a key code and is
\* free from then on, and a window that can be hooked, the hotkey works in the
\* end.
OpeningRetries ==
  [](pending > 0 /\ [](Alive /\ hookable /\ hotkey \in Registrable \ taken)
       => <>(granted # {}))
=============================================================================
