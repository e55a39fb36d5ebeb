---------------------------- MODULE MCActivation ----------------------------
(* An instance of Activation for TLC.                                      *)
EXTENDS LauncherKeyboard

CONSTANTS ctrlAltSpace, ctrlShiftK, altDel, noChord

KeyboardSpec == Keyboard!FairSpec

\* Opening the window retries the registration (see Activation).
OpeningRetries == Keyboard!OpeningRetries

=============================================================================
