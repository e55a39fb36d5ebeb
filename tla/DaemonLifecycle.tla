-------------------------- MODULE DaemonLifecycle --------------------------
(***************************************************************************)
(* Who starts, reaches and stops the daemon.                               *)
(*                                                                         *)
(*  - The launcher (apps/Winspot.App): a request connects to the pipe; if  *)
(*    nobody takes it within 750 ms, WinspotBackendProcess.TryStartAsync   *)
(*    starts a daemon unless a process of that name runs, and the request  *)
(*    connects once more.  Closing the launcher kills the daemon it        *)
(*    started.  Nothing keeps a user from running two launchers.           *)
(*  - The daemon (winspot-daemon/src/server.rs, serve_forever): it builds  *)
(*    its runtime, creates the first pipe instance, which fails if the     *)
(*    name is in use, and then serves one connection after the other, each *)
(*    on a pipe instance of its own.                                       *)
(*                                                                         *)
(* TryStartAsync runs on the launcher's UI thread and does not yield       *)
(* between its look at the process list and its start of a process, so     *)
(* only another launcher, or a daemon, can move in between.                *)
(***************************************************************************)
EXTENDS Integers, FiniteSets

CONSTANTS
  Apps,          \* launcher processes
  Daemons,       \* process ids of daemons
  None,
  MaxFaults      \* bound: daemons that fail, launchers that crash, calls that throw

ASSUME LifecycleAssumption ==
  /\ None \notin Apps \cup Daemons
  /\ MaxFaults \in Nat

VARIABLES
  app,        \* each launcher's life
  pc,         \* where its request is
  owned,      \* _ownedProcess
  handle,     \* the daemon whose pipe its request holds open
  phase,      \* each daemon's place in serve_forever
  client,     \* the launcher connected to the daemon's pipe instance
  startedBy,  \* the launcher that started it
  missed,     \* history: daemons their own launcher missed, its listing having thrown
  unkilled,   \* history: daemons of which the Kill has thrown
  faults      \* faults so far

appVars    == <<app, pc, owned, handle>>
daemonVars == <<phase, client, startedBy>>
historyVars == <<missed, unkilled>>
vars == <<appVars, daemonVars, historyVars, faults>>

TypeOK ==
  /\ app \in [Apps -> {"open", "closing", "closed", "crashed"}]
  /\ pc \in [Apps -> {"idle", "connect", "start", "spawn", "retry", "talk"}]
  /\ owned \in [Apps -> Daemons \cup {None}]
  /\ handle \in [Apps -> Daemons \cup {None}]
  /\ phase \in [Daemons -> {"gone", "starting", "serving", "between"}]
  /\ client \in [Daemons -> Apps \cup {None}]
  /\ startedBy \in [Daemons -> Apps \cup {None}]
  /\ missed \subseteq Daemons
  /\ unkilled \subseteq Daemons
  /\ faults \in 0..MaxFaults

Init ==
  /\ app = [a \in Apps |-> "open"]
  /\ pc = [a \in Apps |-> "idle"]
  /\ owned = [a \in Apps |-> None]
  /\ handle = [a \in Apps |-> None]
  /\ phase = [d \in Daemons |-> "gone"]
  /\ client = [d \in Daemons |-> None]
  /\ startedBy = [d \in Daemons |-> None]
  /\ missed = {} /\ unkilled = {}
  /\ faults = 0

Live == {d \in Daemons : phase[d] # "gone"}
PastGuard == {d \in Daemons : phase[d] \in {"serving", "between"}}
Up(a) == app[a] \in {"open", "closing"}

\* Is the pipe's name in use?  An instance lasts until both ends have let go.
PipeExists ==
  \/ \E d \in Daemons : phase[d] = "serving"
  \/ \E a \in Apps : handle[a] # None

Goto(a, place) == pc' = [pc EXCEPT ![a] = place]

Fault == faults < MaxFaults /\ faults' = faults + 1

-----------------------------------------------------------------------------
(* A request of the launcher: WinspotIpcClient.ConnectAsync                *)

Request(a) ==
  /\ app[a] = "open" /\ pc[a] = "idle"
  /\ Goto(a, "connect")
  /\ UNCHANGED <<app, owned, handle, daemonVars, historyVars, faults>>

Connect(a) ==
  /\ pc[a] \in {"connect", "retry"}
  /\ \E d \in Daemons :
       /\ phase[d] = "serving" /\ client[d] = None
       /\ client' = [client EXCEPT ![d] = a]
       /\ handle' = [handle EXCEPT ![a] = d]
  /\ Goto(a, "talk")
  /\ UNCHANGED <<app, owned, phase, startedBy, historyVars, faults>>

ConnectTimesOut(a) ==
  /\ \/ pc[a] = "connect" /\ Goto(a, "start")
     \/ pc[a] = "retry" /\ Goto(a, "idle")
  /\ UNCHANGED <<app, owned, handle, daemonVars, historyVars, faults>>

\* Faulty: a daemon that already runs is adopted.
AdoptDaemon(a) ==
  /\ pc[a] = "start"
  /\ \/ /\ \E d \in Live : owned' = [owned EXCEPT ![a] = d]
        /\ Goto(a, "retry")
     \/ Live = {} /\ Goto(a, "spawn") /\ UNCHANGED owned
  /\ UNCHANGED <<app, handle, daemonVars, historyVars, faults>>

\* The user types on, or closes the settings page: the request's token is
\* cancelled while it waits for the pipe or for the start-up lock.
Cancel(a) ==
  /\ pc[a] \in {"connect", "start", "retry"}
  /\ Goto(a, "idle")
  /\ UNCHANGED <<app, owned, handle, daemonVars, historyVars, faults>>

\* TryStartAsync: IsDaemonRunning takes any process of the daemon's name for a
\* running daemon.
LookForDaemon(a) ==
  /\ pc[a] = "start"
  /\ Goto(a, IF Live # {} THEN "retry" ELSE "spawn")
  /\ UNCHANGED <<app, owned, handle, daemonVars, historyVars, faults>>

\* A listing that throws is taken for an empty one.
ListingThrows(a) ==
  /\ pc[a] = "start"
  /\ Fault
  /\ missed' = missed \cup {d \in Live : startedBy[d] = a}
  /\ Goto(a, "spawn")
  /\ UNCHANGED <<app, owned, handle, daemonVars, unkilled>>

\* Process ids that a new process may get: one that is held stays reserved.
Free == Daemons \ (Live \cup {owned[a] : a \in Apps})

\* The process that _ownedProcess held before is forgotten.  Which id the new one
\* gets makes no difference.
StartDaemon(a) ==
  /\ pc[a] = "spawn" /\ Free # {}
  /\ LET d == CHOOSE d \in Free : TRUE
     IN  /\ phase' = [phase EXCEPT ![d] = "starting"]
         /\ startedBy' = [startedBy EXCEPT ![d] = a]
         /\ owned' = [owned EXCEPT ![a] = d]
         /\ missed' = missed \ {d}
         /\ unkilled' = unkilled \ {d}
  /\ Goto(a, "retry")
  /\ UNCHANGED <<app, handle, client, faults>>

\* No executable is found, or the process does not start.
StartFails(a) ==
  /\ pc[a] = "spawn"
  /\ Fault
  /\ Goto(a, "idle")
  /\ UNCHANGED <<app, owned, handle, daemonVars, historyVars>>

\* Faulty: the pipe of a request is never disposed of.
HangUpLate(a) ==
  /\ pc[a] = "talk"
  /\ Goto(a, "idle")
  /\ UNCHANGED <<app, owned, handle, daemonVars, historyVars, faults>>

\* The request is over, cancelled, or its pipe broke: the client lets go.
HangUp(a) ==
  /\ pc[a] = "talk"
  /\ handle' = [handle EXCEPT ![a] = None]
  /\ Goto(a, "idle")
  /\ UNCHANGED <<app, owned, daemonVars, historyVars, faults>>

-----------------------------------------------------------------------------
(* The end of a launcher: App.axaml.cs                                     *)

Kill(d) ==
  \/ /\ phase' = [phase EXCEPT ![d] = "gone"]
     /\ client' = [client EXCEPT ![d] = None]
     /\ UNCHANGED <<unkilled, faults>>
  \/ /\ Fault
     /\ unkilled' = unkilled \cup {d}
     /\ UNCHANGED <<phase, client>>

\* StopIfOwned forgets the process, whether its Kill succeeds or throws.
StopOwned(a) ==
  /\ owned' = [owned EXCEPT ![a] = None]
  /\ IF owned[a] \in Live THEN Kill(owned[a]) ELSE UNCHANGED <<phase, client, unkilled, faults>>
  /\ UNCHANGED <<startedBy, missed>>

\* desktop.ShutdownRequested; requests under way go on until the exit.
RequestShutdown(a) ==
  /\ app[a] = "open" /\ pc[a] # "spawn"
  /\ app' = [app EXCEPT ![a] = "closing"]
  /\ StopOwned(a)
  /\ UNCHANGED <<pc, handle>>

\* Faulty: the backend is stopped when shutdown is requested, and not again.
ExitWithoutStop(a) ==
  /\ app[a] = "closing" /\ pc[a] # "spawn"
  /\ app' = [app EXCEPT ![a] = "closed"]
  /\ handle' = [handle EXCEPT ![a] = None]
  /\ Goto(a, "idle")
  /\ UNCHANGED <<owned, daemonVars, historyVars, faults>>

\* desktop.Exit
Exit(a) ==
  /\ app[a] = "closing" /\ pc[a] # "spawn"
  /\ app' = [app EXCEPT ![a] = "closed"]
  /\ StopOwned(a)
  /\ handle' = [handle EXCEPT ![a] = None]
  /\ Goto(a, "idle")

\* An unhandled exception, or the user kills the launcher.
CrashApp(a) ==
  /\ Up(a)
  /\ Fault
  /\ app' = [app EXCEPT ![a] = "crashed"]
  /\ handle' = [handle EXCEPT ![a] = None]
  /\ Goto(a, "idle")
  /\ UNCHANGED <<owned, daemonVars, historyVars>>

-----------------------------------------------------------------------------
(* The daemon: serve_forever                                               *)

\* The runtime is built and the first pipe instance asked for.
PassGuard(d) ==
  /\ phase[d] = "starting"
  /\ phase' = [phase EXCEPT ![d] = IF PipeExists THEN "gone" ELSE "serving"]
  /\ UNCHANGED <<appVars, client, startedBy, historyVars, faults>>

\* serve_connection returns and drops its pipe instance: the request has been
\* answered and closed, or the client has hung up.
EndConnection(d) ==
  /\ phase[d] = "serving" /\ client[d] # None
  /\ phase' = [phase EXCEPT ![d] = "between"]
  /\ client' = [client EXCEPT ![d] = None]
  /\ UNCHANGED <<appVars, startedBy, historyVars, faults>>

NextInstance(d) ==
  /\ phase[d] = "between"
  /\ phase' = [phase EXCEPT ![d] = "serving"]
  /\ UNCHANGED <<appVars, client, startedBy, historyVars, faults>>

\* build_daemon_runtime fails, a pipe instance cannot be created, or a crash.
DaemonFails(d) ==
  /\ d \in Live
  /\ Fault
  /\ phase' = [phase EXCEPT ![d] = "gone"]
  /\ client' = [client EXCEPT ![d] = None]
  /\ UNCHANGED <<appVars, startedBy, historyVars>>

Step(a) ==
  \/ Request(a) \/ ConnectTimesOut(a) \/ LookForDaemon(a) \/ StartDaemon(a) \/ HangUp(a)

Serve(d) == PassGuard(d) \/ EndConnection(d) \/ NextInstance(d)

Next ==
  \/ \E a \in Apps : Step(a) \/ Connect(a) \/ Cancel(a) \/ ListingThrows(a) \/ StartFails(a)
                       \/ RequestShutdown(a) \/ Exit(a) \/ CrashApp(a)
  \/ \E d \in Daemons : Serve(d) \/ DaemonFails(d)

Spec == Init /\ [][Next]_vars

\* The user keeps asking while a launcher is open and does not cancel every
\* request before it is through with a wait, both sides go on with what they
\* have begun, and a pipe instance that is free again and again is reached.
FairSpec ==
  /\ Spec
  /\ \A a \in Apps : /\ WF_vars(Step(a)) /\ SF_vars(ConnectTimesOut(a))
                     /\ SF_vars(LookForDaemon(a)) /\ SF_vars(Connect(a))
  /\ \A d \in Daemons : WF_vars(Serve(d))

-----------------------------------------------------------------------------
(* Properties                                                              *)

\* serve_forever's guard: "if another daemon already owns this pipe name,
\* first_pipe_instance(true) fails and we exit quietly instead of leaving a
\* redundant daemon running".
\* The code does not have this property; README.md says where they part.
SingleDaemon == \A d, e \in PastGuard : d = e

\* StopIfOwned: "closing the launcher doesn't leave an orphaned backend
\* running", however requests, crashes of daemons and other launchers come in
\* between.  Two failures that the code swallows do leave one, and no others: a
\* Kill that throws, and a listing that throws while the launcher's own daemon
\* lives, which is then replaced in _ownedProcess.  (A launcher that crashes
\* leaves its daemon, too.)
NoOrphanedBackend ==
  \A d \in Live : app[startedBy[d]] = "closed" => d \in missed \cup unkilled

\* StopIfOwned, of a Kill that throws: "Best-effort shutdown; the daemon will exit
\* on its own otherwise."
\* The code does not have this property: serve_forever has no end but an error.
UnkilledExits == \A d \in Daemons : d \in unkilled ~> phase[d] = "gone"

\* TryStartAsync: "a daemon that was already running is owned by someone else
\* and left alone": whoever shuts down stops no daemon but its own.
OthersLeftAlone ==
  [][\A a \in Apps, d \in Live :
       app[a] # app'[a] /\ phase'[d] = "gone" => startedBy[d] = a]_vars

\* WinspotIpcClient.ConnectAsync: as long as a launcher is open, requests do not
\* all fail for ever; once daemons stop failing, one gets through.  (It need not
\* be this launcher's: of two, one may find the only instance busy every time.)
BackendIsReached ==
  []<>((\E a \in Apps : pc[a] = "talk") \/ (\A a \in Apps : app[a] # "open"))
=============================================================================
