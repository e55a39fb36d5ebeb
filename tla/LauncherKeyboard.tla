-------------------------- MODULE LauncherKeyboard --------------------------
(* Activation as the instance Keyboard, with what a run checks of it by     *)
(* name, to stand beside modules that have a specification of their own.    *)
CONSTANTS Chords, Registrable, NoChord, MaxPending, MaxPresses, MaxCaptures, MaxChanges
VARIABLES file, window, hotkey, service, granted, hooks, hint, status, tray, page, save, pending,
          presses, captures, taken, hookable, changes

Keyboard == INSTANCE Activation

ASSUME KeyboardAssumption == Keyboard!ActivationAssumption

\* Windows sends the window the chord of the service it holds and no other, hooked
\* once (MainWindow.RegisterHotkey and ApplyHotkey; see Activation).
GrantedIsHeld == Keyboard!GrantedIsHeld

\* What the status line says was granted, and a launcher out of reach has a line
\* that says so (UpdateHotkeyRegistrationStatus; see Activation).
StatusIsTrue == Keyboard!StatusIsTrue
=============================================================================
