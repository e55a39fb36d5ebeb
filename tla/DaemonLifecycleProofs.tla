----------------------- MODULE DaemonLifecycleProofs -----------------------
(***************************************************************************)
(* What is proved of the launcher's process: of DaemonLifecycle, for every *)
(* number of launchers, daemons and faults; and of Activation, for every   *)
(* set of chords.                                                          *)
(***************************************************************************)
EXTENDS DaemonLifecycle, LauncherKeyboard, TLAPS

(* A daemon that lives was started by a launcher that, unless it crashed,  *)
(* owns it, and a launcher about to start a daemon owns none that lives:   *)
(* but for daemons that were missed or not killed.                         *)
OwnershipInv ==
  /\ \A d \in Live : startedBy[d] \in Apps
  /\ \A d \in Live \ (missed \cup unkilled) :
       /\ app[startedBy[d]] # "closed"
       /\ Up(startedBy[d]) => owned[startedBy[d]] = d
       /\ pc[startedBy[d]] # "spawn"
  /\ \A a \in Apps : owned[a] \in Live => startedBy[owned[a]] = a
  /\ \A a \in Apps : pc[a] # "idle" => Up(a)

Inv == TypeOK /\ OwnershipInv

LEMMA InvInit == Init => Inv
  BY LifecycleAssumption DEF Init, Inv, TypeOK, OwnershipInv, Live

LEMMA InvStep == Inv /\ [Next]_vars => Inv'
<1> SUFFICES ASSUME Inv, [Next]_vars PROVE Inv'
  OBVIOUS
<1>a. TypeOK /\ OwnershipInv /\ None \notin Apps \cup Daemons /\ MaxFaults \in Nat
  BY LifecycleAssumption DEF Inv
<1> USE DEF Goto, appVars, daemonVars, historyVars
<1>1. ASSUME NEW a \in Apps, Step(a) PROVE Inv'
  <2>1. CASE Request(a) \/ ConnectTimesOut(a) \/ LookForDaemon(a) \/ HangUp(a)
    <3>1. TypeOK'
      BY <1>a, <2>1 DEF Request, ConnectTimesOut, LookForDaemon, HangUp, TypeOK
    <3>2. OwnershipInv'
      BY <1>a, <2>1 DEF Request, ConnectTimesOut, LookForDaemon, HangUp, TypeOK, OwnershipInv,
                        Live, Up
    <3>3. QED
      BY <3>1, <3>2 DEF Inv
  <2>2. CASE StartDaemon(a)
    <3>1. PICK d \in Free :
            /\ phase' = [phase EXCEPT ![d] = "starting"]
            /\ startedBy' = [startedBy EXCEPT ![d] = a]
            /\ owned' = [owned EXCEPT ![a] = d]
            /\ missed' = missed \ {d}
            /\ unkilled' = unkilled \ {d}
      BY <2>2, Zenon DEF StartDaemon
    <3>a. /\ pc[a] = "spawn" /\ pc' = [pc EXCEPT ![a] = "retry"]
          /\ UNCHANGED <<app, handle, client, faults>>
      BY <2>2, Zenon DEF StartDaemon
    <3>2. d \in Daemons \ Live /\ \A b \in Apps : owned[b] # d
      BY DEF Free
    <3>3. TypeOK'
      BY <1>a, <3>a, <3>1, <3>2 DEF TypeOK
    <3>4. Live' = Live \cup {d}
      BY <1>a, <3>1, <3>2 DEF Live, TypeOK
    <3>5. OwnershipInv'
      BY <1>a, <3>a, <3>1, <3>2, <3>4 DEF TypeOK, OwnershipInv, Up
    <3>6. QED
      BY <3>3, <3>5 DEF Inv
  <2>3. QED
    BY <1>1, <2>1, <2>2 DEF Step
<1>2. ASSUME NEW a \in Apps, Connect(a) \/ Cancel(a) \/ StartFails(a) \/ CrashApp(a) PROVE Inv'
  <2>1. TypeOK'
    BY <1>a, <1>2 DEF Connect, Cancel, StartFails, CrashApp, Fault, TypeOK
  <2>2. OwnershipInv'
    BY <1>a, <1>2 DEF Connect, Cancel, StartFails, CrashApp, TypeOK, OwnershipInv, Live, Up
  <2>3. QED
    BY <2>1, <2>2 DEF Inv
<1>7. ASSUME NEW a \in Apps, ListingThrows(a) PROVE Inv'
  <2>1. TypeOK'
    BY <1>a, <1>7 DEF ListingThrows, Fault, TypeOK, Live
  <2>2. OwnershipInv'
    BY <1>a, <1>7 DEF ListingThrows, TypeOK, OwnershipInv, Live, Up
  <2>3. QED
    BY <2>1, <2>2 DEF Inv
<1>3. ASSUME NEW a \in Apps, RequestShutdown(a) \/ Exit(a) PROVE Inv'
  <2>1. TypeOK'
    <3>1. CASE owned[a] \in Live
      <4>1. CASE Fault /\ unkilled' = unkilled \cup {owned[a]} /\ UNCHANGED <<phase, client>>
        BY <1>a, <1>3, <3>1, <4>1 DEF RequestShutdown, Exit, StopOwned, Fault, TypeOK, Live
      <4>2. CASE /\ phase' = [phase EXCEPT ![owned[a]] = "gone"]
                 /\ client' = [client EXCEPT ![owned[a]] = None]
                 /\ UNCHANGED <<unkilled, faults>>
        BY <1>a, <1>3, <3>1, <4>2 DEF RequestShutdown, Exit, StopOwned, TypeOK
      <4>3. QED
        BY <1>3, <3>1, <4>1, <4>2 DEF RequestShutdown, Exit, StopOwned, Kill
    <3>2. CASE owned[a] \notin Live
      BY <1>a, <1>3, <3>2 DEF RequestShutdown, Exit, StopOwned, TypeOK
    <3>3. QED
      BY <3>1, <3>2
  <2>2. \/ Live' = Live \ {owned[a]} /\ unkilled' = unkilled
        \/ Live' = Live /\ unkilled' = unkilled \cup {owned[a]}
    BY <1>a, <1>3 DEF RequestShutdown, Exit, StopOwned, Kill, TypeOK, Live
  <2>3. Up(a)
    BY <1>3 DEF RequestShutdown, Exit, Up
  <2>4. Live' \subseteq Live /\ \A d \in Live' \ (missed \cup unkilled') : startedBy[d] # a
    BY <1>a, <2>2, <2>3 DEF OwnershipInv
  <2>5. OwnershipInv'
    <3>1. /\ startedBy' = startedBy /\ missed' = missed
          /\ \A b \in Apps \ {a} : app'[b] = app[b] /\ pc'[b] = pc[b] /\ owned'[b] = owned[b]
      BY <1>a, <1>3 DEF RequestShutdown, Exit, StopOwned, TypeOK
    <3>2. owned'[a] = None /\ None \notin Live'
      BY <1>a, <1>3, <2>4 DEF RequestShutdown, Exit, StopOwned, TypeOK, Live
    <3>3. pc'[a] # "idle" => app'[a] = "closing"
      BY <1>a, <1>3 DEF RequestShutdown, Exit, TypeOK
    <3>4. \A d \in Live' \ (missed' \cup unkilled') : startedBy'[d] \in Apps \ {a}
      BY <1>a, <2>4, <3>1 DEF OwnershipInv
    <3>5. unkilled \subseteq unkilled'
      BY <2>2
    <3>6. QED
      BY <1>a, <2>4, <3>1, <3>2, <3>3, <3>4, <3>5 DEF OwnershipInv, Up
  <2>6. QED
    BY <2>1, <2>5 DEF Inv
<1>4. ASSUME NEW d \in Daemons, Serve(d) \/ DaemonFails(d) PROVE Inv'
  <2>1. TypeOK'
    BY <1>a, <1>4 DEF Serve, PassGuard, EndConnection, NextInstance, DaemonFails, Fault, TypeOK
  <2>2. Live' \subseteq Live
    BY <1>a, <1>4 DEF Serve, PassGuard, EndConnection, NextInstance, DaemonFails, TypeOK, Live
  <2>3. UNCHANGED <<app, pc, owned, handle, startedBy, missed, unkilled>>
    BY <1>4 DEF Serve, PassGuard, EndConnection, NextInstance, DaemonFails
  <2>4. OwnershipInv'
    BY <1>a, <2>2, <2>3 DEF OwnershipInv, Up
  <2>5. QED
    BY <2>1, <2>4 DEF Inv
<1>5. CASE UNCHANGED vars
  BY <1>a, <1>5 DEF vars, Inv, TypeOK, OwnershipInv, Live, Up
<1>6. QED
  BY <1>1, <1>2, <1>3, <1>4, <1>5, <1>7 DEF Next

LEMMA Invariance == Spec => []Inv
  BY InvInit, InvStep, PTL DEF Spec

(* Every variable of DaemonLifecycle keeps its type.                       *)
THEOREM Typing == Spec => []TypeOK
<1>1. Inv => TypeOK
  BY DEF Inv
<1>2. QED
  BY <1>1, Invariance, PTL

(* However requests, crashes, failing calls and other launchers come in    *)
(* between: a launcher that has closed leaves no daemon behind but one of  *)
(* which its Kill has thrown, or which it did not see when it listed the   *)
(* processes and the listing threw (WinspotBackendProcess).                *)
THEOREM ClosingLeavesNoOrphan == Spec => []NoOrphanedBackend
<1>1. Inv => NoOrphanedBackend
  BY DEF Inv, OwnershipInv, NoOrphanedBackend
<1>2. QED
  BY <1>1, Invariance, PTL

(* A launcher that shuts down stops no daemon of somebody else, whatever   *)
(* has failed before (WinspotBackendProcess.StopIfOwned).                  *)
THEOREM ShutdownStopsOwnOnly == Spec => OthersLeftAlone
<1>1. Inv /\ [Next]_vars =>
        [\A a \in Apps, d \in Live :
           app[a] # app'[a] /\ phase'[d] = "gone" => startedBy[d] = a]_vars
  <2> SUFFICES ASSUME Inv, [Next]_vars, ~UNCHANGED vars, NEW a \in Apps, NEW d \in Live,
                      app[a] # app'[a], phase'[d] = "gone"
               PROVE  startedBy[d] = a
    OBVIOUS
  <2>1. PICK b \in Apps : RequestShutdown(b) \/ Exit(b) \/ CrashApp(b)
    BY DEF Next, Step, Request, ConnectTimesOut, LookForDaemon, StartDaemon, HangUp, Connect, Cancel,
           ListingThrows, StartFails, Serve, PassGuard, EndConnection, NextInstance, DaemonFails,
           appVars, daemonVars
  <2>2. b = a
    BY <2>1 DEF Inv, TypeOK, RequestShutdown, Exit, CrashApp
  <2>3. d = owned[a]
    BY <2>1, <2>2 DEF Inv, TypeOK, RequestShutdown, Exit, CrashApp, StopOwned, Kill, Live, daemonVars
  <2>4. QED
    BY <2>3 DEF Inv, OwnershipInv
<1>2. QED
  BY <1>1, Invariance, PTL DEF Spec, OthersLeftAlone

-----------------------------------------------------------------------------
(***************************************************************************)
(* The hotkey, the window and the tray.  They share no state with the      *)
(* start of the daemon; what follows is proved of Activation alone.        *)
(***************************************************************************)
USE DEF Keyboard!ActivationAssumption

(* The types of the switches, which one prover handles, and of the rest.   *)
Switches == service \in BOOLEAN /\ tray \in BOOLEAN /\ hookable \in BOOLEAN
Keys ==
  /\ hotkey \in Chords /\ hint \in Chords
  /\ granted \subseteq Chords /\ taken \subseteq Chords
  /\ status \in [text : {"none", "ready", "unavailable"}, chord : Chords]
  /\ save \in [step : Keyboard!Steps, previous : Chords \cup {NoChord}]
  /\ hooks \in 0..1 /\ changes \in 0..MaxChanges
Rooms ==
  /\ file \in [chord : Chords, tray : BOOLEAN]
  /\ window \in {"none", "shown", "hidden", "closed"}
  /\ page \in Keyboard!Pages
  /\ pending \in 0..MaxPending /\ presses \in 0..MaxPresses /\ captures \in 0..MaxCaptures

LEMMA TypeParts == Keyboard!TypeOK <=> Switches /\ Keys /\ Rooms
  BY Zenon DEF Keyboard!TypeOK, Switches, Keys, Rooms

LEMMA TypePartsPrime == Keyboard!TypeOK' <=> Switches' /\ Keys' /\ Rooms'
  BY Zenon DEF Keyboard!TypeOK, Switches, Keys, Rooms

LEMMA TypeInit == ASSUME Keyboard!ActivationAssumption, Keyboard!Init PROVE Keyboard!TypeOK
<1> USE DEF Keyboard!Init
<1>1. Switches
  BY DEF Switches
<1>2. Keys
  BY DEF Keys, Keyboard!Idle, Keyboard!Steps
<1>3. Rooms
  BY DEF Rooms, Keyboard!Pages
<1>4. QED
  BY <1>1, <1>2, <1>3, TypeParts

(* What a registration comes to.                                           *)
LEMMA Registers ==
  ASSUME Keyboard!TypeOK, Keyboard!GrantedIsHeld, NEW c \in Chords, NEW h \in Chords,
      Keyboard!RegisterHotkey(c, h)
  PROVE  /\ service' \in BOOLEAN
         /\ \/ UNCHANGED <<service, granted, hooks>>
            \/ ~service /\ Keyboard!Alive /\ service' /\ granted' = {c} /\ hooks' = 1
         /\ service \/ ~Keyboard!Alive => UNCHANGED <<service, granted, hooks>>
         /\ status' = [text |-> IF service' THEN "ready" ELSE "unavailable", chord |-> h]
<1>1. CASE service \/ ~Keyboard!Alive
  BY <1>1, Zenon DEF Keyboard!RegisterHotkey, Keyboard!TypeOK
<1>2. CASE ~(service \/ ~Keyboard!Alive)
  <2>1. granted = {} /\ hooks = 0
    BY <1>2 DEF Keyboard!GrantedIsHeld
  <2>2. Keyboard!Register(c)
    BY <1>2 DEF Keyboard!RegisterHotkey
  <2>3. /\ service' \in BOOLEAN
        /\ \/ UNCHANGED <<service, granted, hooks>>
           \/ service' /\ granted' = granted \cup {c} /\ hooks' = hooks + 1
    BY <2>2, Zenon DEF Keyboard!Register, Keyboard!TypeOK
  <2>4. \/ UNCHANGED <<service, granted, hooks>>
        \/ service' /\ granted' = {c} /\ hooks' = 1
    BY <2>1, <2>3
  <2>5. QED
    BY <1>2, <2>3, <2>4 DEF Keyboard!RegisterHotkey
<1>3. QED
  BY <1>1, <1>2

(* Without a window nothing is registered and nothing is to come.          *)
NothingRuns == window = "none" => ~service /\ save = Keyboard!Idle /\ pending = 0 /\ presses = 0

(* A save has dropped the registration until one of its steps makes a new  *)
(* one; it is accepted with the chord of the file, or refused with the     *)
(* previous chord or with a status line that says it has none.             *)
SaveInv ==
  /\ save.step \in {"register", "rollback"} => ~service
  /\ save.step # "idle" => save.previous \in Chords
  /\ save.step \in {"register", "accepted"} => hotkey = file.chord
  /\ save.step = "accepted" => service /\ Keyboard!Alive
  /\ save.step = "refused" => IF service THEN Keyboard!Alive /\ hotkey = save.previous
                                         ELSE status.text = "unavailable"

(* What the status line says is what came of the last registration; only a *)
(* save that has just begun has not updated it.                            *)
StatusInv ==
  save.step # "register" /\ Keyboard!Alive =>
    /\ status.text = "ready" => service /\ status.chord = hotkey
    /\ pending = 0 /\ ~service => status.text = "unavailable"

KeyInv ==
  /\ Keyboard!TypeOK /\ Keyboard!GrantedIsHeld /\ hint = hotkey
  /\ NothingRuns /\ SaveInv /\ StatusInv

LEMMA KeyInit == ASSUME Keyboard!ActivationAssumption, Keyboard!Init PROVE KeyInv
  BY TypeInit DEF Keyboard!Init, KeyInv, Keyboard!GrantedIsHeld, NothingRuns, SaveInv, StatusInv,
     Keyboard!Idle, Keyboard!Alive

LEMMA ExitKeeps == ASSUME Keyboard!ActivationAssumption, KeyInv, Keyboard!Exit PROVE KeyInv'
<1> USE DEF Keyboard!Exit, Keyboard!Dispose, Keyboard!worldVars, KeyInv
<1>1. Keyboard!TypeOK'
  <2>1. Switches'
    BY TypeParts, Zenon DEF Switches
  <2>2. Keys'
    BY TypeParts DEF Keys, Keyboard!Idle, Keyboard!Steps
  <2>3. Rooms'
    BY TypeParts DEF Rooms, Keyboard!Pages
  <2>4. QED
    BY <2>1, <2>2, <2>3, TypePartsPrime
<1>2. Keyboard!GrantedIsHeld' /\ NothingRuns' /\ SaveInv'
  BY DEF Keyboard!GrantedIsHeld, NothingRuns, SaveInv, Keyboard!Idle
<1>3. StatusInv'
  BY DEF StatusInv, Keyboard!Alive
<1>4. QED
  BY <1>1, <1>2, <1>3

LEMMA ShowKeeps ==
  ASSUME Keyboard!ActivationAssumption, KeyInv, Keyboard!UiThreadFree, Keyboard!Show,
         presses' \in 0..MaxPresses, captures' \in 0..MaxCaptures,
         UNCHANGED <<file, Keyboard!hotkeyVars, tray, page, save, Keyboard!worldVars>>
  PROVE  KeyInv'
<1> USE DEF Keyboard!Show, Keyboard!Opened, Keyboard!hotkeyVars, Keyboard!worldVars, KeyInv
<1>1. Keyboard!TypeOK'
  <2>1. Switches'
    BY TypeParts, Zenon DEF Switches
  <2>2. Keys'
    BY TypeParts DEF Keys
  <2>3. Rooms'
    BY TypeParts DEF Rooms
  <2>4. QED
    BY <2>1, <2>2, <2>3, TypePartsPrime
<1>2. Keyboard!GrantedIsHeld' /\ NothingRuns'
  BY DEF Keyboard!GrantedIsHeld, NothingRuns
<1>3. SaveInv' /\ StatusInv'
  BY DEF SaveInv, StatusInv, Keyboard!Alive, Keyboard!UiThreadFree, Rooms, Keyboard!TypeOK
<1>4. QED
  BY <1>1, <1>2, <1>3

(* A registration of the window's chord, after which the save is not at    *)
(* its beginning.                                                          *)
LEMMA RegisterKeeps ==
  ASSUME Keyboard!ActivationAssumption, KeyInv, Keyboard!Running, NEW c \in Chords,
      Keyboard!RegisterHotkey(c, c), hotkey' = c, hint' = c,
         UNCHANGED <<file, window, tray, page, presses, Keyboard!otherVars>>,
         pending' \in 0..pending,
         save' \in [step : Keyboard!Steps, previous : Chords \cup {NoChord}],
         save'.step = "idle" => c = hotkey,
         save'.step \notin {"register", "rollback"} \/ ~service',
         save'.step # "register", save'.step # "idle" => save'.previous \in Chords,
         save'.step = "accepted" => ~service /\ service' /\ c = file.chord,
         save'.step = "refused" => ~service /\ c = save'.previous,
         c = hotkey \/ ~service
  PROVE  KeyInv'
<1> USE DEF Keyboard!otherVars, Keyboard!worldVars, KeyInv, Keyboard!Running
<1>1. /\ service' \in BOOLEAN
      /\ \/ UNCHANGED <<service, granted, hooks>>
         \/ ~service /\ Keyboard!Alive /\ service' /\ granted' = {c} /\ hooks' = 1
      /\ service \/ ~Keyboard!Alive => UNCHANGED <<service, granted, hooks>>
      /\ status' = [text |-> IF service' THEN "ready" ELSE "unavailable", chord |-> c]
  BY Registers
<1>2. Keyboard!TypeOK'
  <2>1. Switches'
    BY <1>1, TypeParts, Zenon DEF Switches
  <2>2. status' \in [text : {"none", "ready", "unavailable"}, chord : Chords]
    BY <1>1
  <2>3. Keys'
    BY <1>1, <2>2, TypeParts DEF Keys
  <2>4. Rooms'
    BY TypeParts DEF Rooms
  <2>5. QED
    BY <2>1, <2>3, <2>4, TypePartsPrime
<1>3. Keyboard!GrantedIsHeld'
  BY <1>1 DEF Keyboard!GrantedIsHeld, Keyboard!Alive
<1>4. status'.text = (IF service' THEN "ready" ELSE "unavailable") /\ status'.chord = c
  BY <1>1
<1>7. NothingRuns'
  BY <1>1 DEF NothingRuns, Keyboard!Alive
<1>8. SaveInv'
  BY <1>1, <1>4 DEF SaveInv, Keyboard!Alive
<1>5. StatusInv'
  BY <1>4 DEF StatusInv
<1>6. QED
  BY <1>2, <1>3, <1>7, <1>8, <1>5

LEMMA KeyStep == ASSUME Keyboard!ActivationAssumption, KeyInv, [Keyboard!Next]_(Keyboard!vars)
    PROVE KeyInv'
<1>a. /\ hotkey \in Chords /\ hint = hotkey /\ pending \in 0..MaxPending
      /\ save \in [step : Keyboard!Steps, previous : Chords \cup {NoChord}]
  BY DEF KeyInv, Keyboard!TypeOK
<1>3. CASE Keyboard!DelayedRegister
  BY <1>3, <1>a, RegisterKeeps DEF Keyboard!DelayedRegister, Keyboard!UiThreadFree, KeyInv, SaveInv
<1>12. CASE Keyboard!RegisterNew
  <2>1. save' = [save EXCEPT !.step = IF service' THEN "accepted" ELSE "rollback"]
    BY <1>12 DEF Keyboard!RegisterNew
  <2>2. /\ save' \in [step : Keyboard!Steps, previous : Chords \cup {NoChord}]
        /\ save'.step = (IF service' THEN "accepted" ELSE "rollback")
        /\ save'.previous = save.previous
    BY <2>1, <1>a DEF Keyboard!Steps
  <2>3. save.step = "register" /\ ~service /\ hotkey = file.chord /\ save.previous \in Chords
    BY <1>12 DEF Keyboard!RegisterNew, KeyInv, SaveInv
  <2>4. Keyboard!Running /\ pending' \in 0..pending
    BY <2>3, <1>a, <1>12
       DEF KeyInv, NothingRuns, Keyboard!Running, Keyboard!Idle, Keyboard!RegisterNew
  <2>5. save'.step \notin {"register", "idle"}
    BY <2>2
  <2>6. QED
    BY <1>12, <1>a, <2>2, <2>3, <2>4, <2>5, RegisterKeeps DEF Keyboard!RegisterNew
<1>13. CASE Keyboard!RollBack
  <2>1. save.step = "rollback" /\ ~service /\ save.previous \in Chords
    BY <1>13 DEF Keyboard!RollBack, KeyInv, SaveInv
  <2>2. /\ save' \in [step : Keyboard!Steps, previous : Chords \cup {NoChord}]
        /\ save'.step = "refused" /\ save'.previous = save.previous
    BY <1>13, <1>a DEF Keyboard!RollBack, Keyboard!Steps
  <2>3. Keyboard!Running /\ pending' \in 0..pending
    BY <2>1, <1>a, <1>13 DEF KeyInv, NothingRuns, Keyboard!Running, Keyboard!Idle, Keyboard!RollBack
  <2>4. QED
    BY <1>13, <2>1, <2>2, <2>3, RegisterKeeps DEF Keyboard!RollBack
<1>11. ASSUME NEW s \in [chord : Registrable, tray : BOOLEAN], Keyboard!SaveSettings(s)
       PROVE  KeyInv'
  <2>0. s \in [chord : Chords, tray : BOOLEAN]
    OBVIOUS
  <2> USE <1>11, <2>0 DEF Keyboard!SaveSettings, Keyboard!Dispose, Keyboard!otherVars,
          Keyboard!worldVars, KeyInv
  <2>1. Keyboard!TypeOK'
    <3>1. Switches'
      BY TypeParts, Zenon DEF Switches
    <3>2. Keys'
      BY TypeParts DEF Keys, Keyboard!Steps
    <3>3. Rooms'
      BY TypeParts DEF Rooms, Keyboard!Pages
    <3>4. QED
      BY <3>1, <3>2, <3>3, TypePartsPrime
  <2>2. Keyboard!GrantedIsHeld' /\ NothingRuns'
    BY DEF Keyboard!GrantedIsHeld, NothingRuns, Keyboard!UiThreadFree, Keyboard!Running
  <2>3. SaveInv'
    BY <1>a DEF SaveInv
  <2>4. StatusInv'
    BY DEF StatusInv
  <2>5. QED
    BY <2>1, <2>2, <2>3, <2>4
<1>2. CASE Keyboard!Quit
  BY <1>2, ExitKeeps DEF Keyboard!Quit
<1>5. CASE Keyboard!HandleHotkey
  <2>1. CASE Keyboard!Exit
    BY <2>1, ExitKeeps
  <2>2. CASE Keyboard!Show /\ presses' = presses - 1
             /\ UNCHANGED <<file, Keyboard!hotkeyVars, tray, page, save, Keyboard!otherVars>>
    <3>1. presses' \in 0..MaxPresses
      BY <1>5, <2>2 DEF Keyboard!HandleHotkey, KeyInv, Keyboard!TypeOK
    <3>2. QED
      BY <1>5, <2>2, <3>1, ShowKeeps
         DEF Keyboard!HandleHotkey, Keyboard!otherVars, KeyInv, Keyboard!TypeOK
  <2>3. CASE /\ window = "shown" /\ window' = "hidden" /\ presses' = presses - 1
             /\ UNCHANGED <<file, Keyboard!hotkeyVars, tray, page, save, Keyboard!otherVars,
                  pending>>
    BY <1>5, <2>3
    DEF Keyboard!HandleHotkey, KeyInv, Keyboard!TypeOK, Keyboard!GrantedIsHeld, NothingRuns,
    SaveInv, StatusInv, Keyboard!Alive,
        Keyboard!hotkeyVars, Keyboard!otherVars, Keyboard!worldVars
  <2>4. QED
    BY <1>5, <2>1, <2>2, <2>3 DEF Keyboard!HandleHotkey
<1>7. CASE Keyboard!OpenFromTray
  <2>1. CASE Keyboard!Exit
    BY <2>1, ExitKeeps
  <2>2. CASE Keyboard!Show
            /\ UNCHANGED <<file, Keyboard!hotkeyVars, tray, page, save, presses,
                 Keyboard!otherVars>>
    BY <1>7, <2>2, ShowKeeps
       DEF Keyboard!OpenFromTray, Keyboard!otherVars, KeyInv, Keyboard!TypeOK
  <2>3. QED
    BY <1>7, <2>1, <2>2 DEF Keyboard!OpenFromTray
<1>18. CASE Keyboard!CaptureAnswered
  <2>1. CASE Keyboard!Show
    BY <1>18, <2>1, ShowKeeps DEF Keyboard!CaptureAnswered, KeyInv, Keyboard!TypeOK
  <2>2. CASE UNCHANGED <<window, pending>>
    BY <1>18, <2>2
    DEF Keyboard!CaptureAnswered, KeyInv, Keyboard!TypeOK, Keyboard!GrantedIsHeld, NothingRuns,
        SaveInv, StatusInv, Keyboard!Alive, Keyboard!hotkeyVars, Keyboard!worldVars
  <2>3. QED
    BY <1>18, <2>1, <2>2 DEF Keyboard!CaptureAnswered
<1> USE DEF KeyInv, Keyboard!TypeOK, Keyboard!GrantedIsHeld, NothingRuns, SaveInv, StatusInv,
        Keyboard!Idle, Keyboard!Alive, Keyboard!Running,
            Keyboard!UiThreadFree, Keyboard!hotkeyVars, Keyboard!otherVars,
            Keyboard!worldVars, Keyboard!Steps, Keyboard!Pages
<1>1. CASE Keyboard!StartLauncher
  BY <1>1 DEF Keyboard!StartLauncher, Keyboard!Opened
<1>4. CASE Keyboard!PressHotkey
  BY <1>4 DEF Keyboard!PressHotkey
<1>6. CASE Keyboard!Escape
  BY <1>6 DEF Keyboard!Escape
<1>8. CASE Keyboard!CloseLauncher
  BY <1>8, ExitKeeps DEF Keyboard!CloseLauncher, Keyboard!Dispose
<1>9. CASE Keyboard!OpenSettings
  BY <1>9 DEF Keyboard!OpenSettings
<1>10. CASE Keyboard!CloseSettings
  BY <1>10, ExitKeeps DEF Keyboard!CloseSettings
<1>14. CASE Keyboard!FinishSave
  BY <1>14 DEF Keyboard!FinishSave
<1>15. ASSUME NEW c \in Chords, Keyboard!TakeChord(c) \/ Keyboard!ReleaseChord(c) PROVE KeyInv'
  BY <1>15 DEF Keyboard!TakeChord, Keyboard!ReleaseChord
<1>19. CASE Keyboard!HideForCapture
  BY <1>19 DEF Keyboard!HideForCapture
<1>20. CASE Keyboard!HookingChanges
  BY <1>20 DEF Keyboard!HookingChanges
<1>16. CASE UNCHANGED Keyboard!vars
  BY <1>16 DEF Keyboard!vars
<1>17. QED
  BY <1>1, <1>2, <1>3, <1>4, <1>5, <1>6, <1>7, <1>8, <1>9, <1>10, <1>11, <1>12, <1>13, <1>14,
     <1>15, <1>16, <1>18, <1>19, <1>20 DEF Keyboard!Next

-----------------------------------------------------------------------------

LEMMA KeyAlways == ASSUME Keyboard!ActivationAssumption PROVE Keyboard!Spec => []KeyInv
<1>1. Keyboard!Init => KeyInv
  BY KeyInit
<1>2. KeyInv /\ [Keyboard!Next]_(Keyboard!vars) => KeyInv'
  BY KeyStep
<1>3. QED
  BY <1>1, <1>2, PTL DEF Keyboard!Spec

(* Every variable of Activation keeps its type: no more hooks than one, no *)
(* chord that is none.                                                     *)
THEOREM ActivationTyping == Keyboard!Spec => []Keyboard!TypeOK
<1>0. Keyboard!Spec => []KeyInv
  BY KeyAlways, KeyboardAssumption
<1>1. KeyInv => Keyboard!TypeOK
  BY DEF KeyInv
<1>2. QED
  BY <1>1, <1>0, PTL

(* Through every save, rollback, reopening and closing, Windows sends the  *)
(* window the chord of the service it holds and no other, and one window   *)
(* procedure is hooked for it (MainWindow.RegisterHotkey, ApplyHotkey).    *)
THEOREM ChordIsHeld == Keyboard!Spec => []GrantedIsHeld
<1>0. Keyboard!Spec => []KeyInv
  BY KeyAlways, KeyboardAssumption
<1>1. KeyInv => GrantedIsHeld
  BY DEF KeyInv, GrantedIsHeld
<1>2. QED
  BY <1>1, <1>0, PTL

(* Through every save, rollback and opening, among programs that take the  *)
(* chord in between, the status line of the launcher says what Windows has *)
(* granted it (MainWindow.UpdateHotkeyRegistrationStatus).                 *)
THEOREM StatusHolds == Keyboard!Spec => []StatusIsTrue
<1>0. Keyboard!Spec => []KeyInv
  BY KeyAlways, KeyboardAssumption
<1>1. KeyInv => StatusIsTrue
  <2> SUFFICES ASSUME KeyInv PROVE Keyboard!StatusIsTrue
    BY DEF StatusIsTrue
  <2> USE DEF KeyInv, Keyboard!GrantedIsHeld, Keyboard!Alive
  <2>1. Keyboard!ReadyMeansGranted
    BY DEF Keyboard!ReadyMeansGranted, StatusInv
  <2>2. Keyboard!AcceptedMeansGranted
    BY DEF Keyboard!AcceptedMeansGranted, SaveInv
  <2>3. Keyboard!RefusedMeansSaid
    BY DEF Keyboard!RefusedMeansSaid, SaveInv
  <2>4. Keyboard!LostMeansSaid
    BY DEF Keyboard!LostMeansSaid, Keyboard!UiThreadFree, StatusInv
  <2>5. QED
    BY <2>1, <2>2, <2>3, <2>4 DEF Keyboard!StatusIsTrue
<1>2. QED
  BY <1>1, <1>0, PTL

=============================================================================
