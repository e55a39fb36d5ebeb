------------------------- MODULE FastFlowLmManager -------------------------
(***************************************************************************)
(* Ownership of the local FastFlowLM server process                        *)
(* (crates/winspot-fastflowlm/src/lib.rs, FastFlowLmManager): a call to    *)
(* ask makes sure that a server answers, starting one if none does, and a  *)
(* background reaper stops the owned server when it has been idle for long *)
(* enough.                                                                 *)
(*                                                                         *)
(* Two mutexes: startup_lock is held through the whole of ensure_server;   *)
(* the process state (child, last use, reaper flag) has another, held only *)
(* for the single steps below.  In the daemon the serve thread is the only *)
(* caller; the manager is written for several.                             *)
(*                                                                         *)
(* Time is kept relative to the last use: idle counts the seconds since    *)
(* then, up to IdleTimeout, and chatTime those of a chat request, which    *)
(* may take any time: HTTP_TIMEOUT bounds each of its reads, not their     *)
(* number.  The clock does not step back here.  The reaper's timed wait is *)
(* always finite and may end early, so the reaper is simply a thread that  *)
(* looks again and again.                                                  *)
(***************************************************************************)
EXTENDS Integers, FiniteSets

CONSTANTS
  Callers,      \* threads that may call ask
  Procs,        \* process ids to draw from
  Reapers,      \* thread ids to draw reapers from
  NoProc,
  IdleTimeout   \* idle_timeout_seconds, in steps of the model's clock

ASSUME ManagerAssumption ==
  /\ NoProc \notin Procs
  /\ IdleTimeout \in Nat \ {0}

VARIABLES
  live, ready,    \* running server processes, and those that answer
  foreign,        \* does a server nobody here started answer on the port?
  child,          \* ProcessStateInner.child
  idle,           \* seconds since last_used_unix_seconds
  reaperRunning,  \* ProcessStateInner.reaper_running
  reapers,        \* the reaper threads that exist
  starter,        \* holder of startup_lock, as a set of at most one caller
  pc,             \* where each caller is
  spawned,        \* the process a caller has spawned and not yet stored
  chatTime        \* how long its chat request has taken, up to IdleTimeout

procVars   == <<live, ready, foreign>>
stateVars  == <<child, idle, reaperRunning, reapers>>
callerVars == <<starter, pc, spawned, chatTime>>
vars == <<procVars, stateVars, callerVars>>

PC == {"out", "lock", "health", "stale", "spawn", "store", "reaper", "poll", "giveUp",
       "touch", "chat", "touchAgain"}
Starting == {"health", "stale", "spawn", "store", "reaper", "poll", "giveUp"}

TypeOK ==
  /\ live \subseteq Procs /\ ready \subseteq live
  /\ foreign \in BOOLEAN
  /\ child \in Procs \cup {NoProc}
  /\ idle \in 0..IdleTimeout
  /\ reaperRunning \in BOOLEAN
  /\ reapers \subseteq Reapers
  /\ starter \subseteq Callers
  /\ pc \in [Callers -> PC]
  /\ spawned \in [Callers -> Procs \cup {NoProc}]
  /\ chatTime \in [Callers -> 0..IdleTimeout]

Init ==
  /\ live = {} /\ ready = {} /\ foreign \in BOOLEAN
  /\ child = NoProc
  /\ idle = 0
  /\ reaperRunning = FALSE /\ reapers = {}
  /\ starter = {}
  /\ pc = [c \in Callers |-> "out"]
  /\ spawned = [c \in Callers |-> NoProc]
  /\ chatTime = [c \in Callers |-> 0]

Goto(c, place) == pc' = [pc EXCEPT ![c] = place]

\* Can health_check succeed?  Something must answer on the port.
Healthy == ready # {} \/ foreign

\* child.take(), kill and wait: the end of the owned process, if there is one.
StopChild ==
  /\ child' = NoProc
  /\ live' = live \ {child}
  /\ ready' = ready \ {child}

-----------------------------------------------------------------------------
(* ask                                                                     *)

\* validate_installed_model passed; had it failed, ask would have returned.
Ask(c) ==
  /\ pc[c] = "out"
  /\ Goto(c, "lock")
  /\ UNCHANGED <<procVars, stateVars, starter, spawned, chatTime>>

\* Faulty: servers are started without the lock.
StartUnlocked(c) ==
  /\ pc[c] = "lock"
  /\ starter' = {c}
  /\ Goto(c, "health")
  /\ UNCHANGED <<procVars, stateVars, spawned, chatTime>>

LockStartup(c) ==
  /\ pc[c] = "lock"
  /\ starter = {}
  /\ starter' = {c}
  /\ Goto(c, "health")
  /\ UNCHANGED <<procVars, stateVars, spawned, chatTime>>

\* A check may fail although a server is up: it is too busy to answer in time,
\* answers with an error, or lists other models.
CheckHealth(c) ==
  /\ pc[c] = "health"
  /\ \/ /\ Healthy
        /\ starter' = {}
        /\ Goto(c, "touch")
     \/ /\ Goto(c, "stale")
        /\ UNCHANGED starter
  /\ UNCHANGED <<procVars, stateVars, spawned, chatTime>>

StopStale(c) ==
  /\ pc[c] = "stale"
  /\ StopChild
  /\ Goto(c, "spawn")
  /\ UNCHANGED <<foreign, idle, reaperRunning, reapers, starter, spawned, chatTime>>

Spawn(c) ==
  /\ pc[c] = "spawn"
  /\ \E p \in Procs \ (live \cup {child}) :
       /\ live' = live \cup {p}
       /\ spawned' = [spawned EXCEPT ![c] = p]
  /\ Goto(c, "store")
  /\ UNCHANGED <<ready, foreign, stateVars, starter, chatTime>>

SpawnFails(c) ==
  /\ pc[c] = "spawn"
  /\ starter' = {}
  /\ Goto(c, "out")
  /\ UNCHANGED <<procVars, stateVars, spawned, chatTime>>

\* Faulty: no reaper is started.
StoreUnwatched(c) ==
  /\ pc[c] = "store"
  /\ child' = spawned[c]
  /\ idle' = 0
  /\ spawned' = [spawned EXCEPT ![c] = NoProc]
  /\ Goto(c, "poll")
  /\ UNCHANGED <<procVars, reaperRunning, reapers, starter, chatTime>>

StoreChild(c) ==
  /\ pc[c] = "store"
  /\ child' = spawned[c]
  /\ idle' = 0
  /\ spawned' = [spawned EXCEPT ![c] = NoProc]
  /\ Goto(c, "reaper")
  /\ UNCHANGED <<procVars, reaperRunning, reapers, starter, chatTime>>

\* Faulty: the flag is set but not looked at.
StartAnotherReaper(c) ==
  /\ pc[c] = "reaper"
  /\ reaperRunning' = TRUE
  /\ \E r \in Reapers \ reapers : reapers' = reapers \cup {r}
  /\ Goto(c, "poll")
  /\ UNCHANGED <<procVars, child, idle, starter, spawned, chatTime>>

StartIdleReaper(c) ==
  /\ pc[c] = "reaper"
  /\ \/ /\ reaperRunning
        /\ UNCHANGED <<reaperRunning, reapers>>
     \/ /\ ~reaperRunning
        /\ reaperRunning' = TRUE
        /\ \E r \in Reapers \ reapers : reapers' = reapers \cup {r}
  /\ Goto(c, "poll")
  /\ UNCHANGED <<procVars, child, idle, starter, spawned, chatTime>>

\* The polling loop ends with an answer, or when SERVER_START_TIMEOUT is over.
PollAnswered(c) ==
  /\ pc[c] = "poll"
  /\ Healthy
  /\ starter' = {}
  /\ Goto(c, "touch")
  /\ UNCHANGED <<procVars, stateVars, spawned, chatTime>>

PollTimesOut(c) ==
  /\ pc[c] = "poll"
  /\ Goto(c, "giveUp")
  /\ UNCHANGED <<procVars, stateVars, starter, spawned, chatTime>>

GiveUp(c) ==
  /\ pc[c] = "giveUp"
  /\ StopChild
  /\ starter' = {}
  /\ Goto(c, "out")
  /\ UNCHANGED <<foreign, idle, reaperRunning, reapers, spawned, chatTime>>

\* Faulty: the request does not count as a use.
ForgetTouch(c) ==
  /\ pc[c] \in {"touch", "touchAgain"}
  /\ Goto(c, IF pc[c] = "touch" THEN "chat" ELSE "out")
  /\ chatTime' = [chatTime EXCEPT ![c] = 0]
  /\ UNCHANGED <<procVars, child, idle, reaperRunning, reapers, starter, spawned>>

TouchUsed(c) ==
  /\ pc[c] \in {"touch", "touchAgain"}
  /\ idle' = 0
  /\ Goto(c, IF pc[c] = "touch" THEN "chat" ELSE "out")
  /\ chatTime' = [chatTime EXCEPT ![c] = 0]
  /\ UNCHANGED <<procVars, child, reaperRunning, reapers, starter, spawned>>

\* request_chat_completion returns an answer, or fails and ask returns at once.
Chat(c) ==
  /\ pc[c] = "chat"
  /\ \/ Healthy /\ Goto(c, "touchAgain")
     \/ Goto(c, "out")
  /\ UNCHANGED <<procVars, stateVars, starter, spawned, chatTime>>

-----------------------------------------------------------------------------
(* The reaper, the processes and the clock                                 *)

\* Faulty: the reaper looks once and is gone.
ReapOnce(r) ==
  /\ r \in reapers
  /\ IF child # NoProc /\ idle >= IdleTimeout THEN StopChild ELSE UNCHANGED <<child, live, ready>>
  /\ reaperRunning' = FALSE
  /\ reapers' = reapers \ {r}
  /\ UNCHANGED <<foreign, idle, callerVars>>

Reap(r) ==
  /\ r \in reapers
  /\ \/ /\ child = NoProc
        /\ UNCHANGED <<child, live, ready>>
     \/ /\ child # NoProc
        /\ idle >= IdleTimeout
        /\ StopChild
  /\ reaperRunning' = FALSE
  /\ reapers' = reapers \ {r}
  /\ UNCHANGED <<foreign, idle, callerVars>>

BecomeReady(p) ==
  /\ p \in live \ ready
  /\ ready' = ready \cup {p}
  /\ UNCHANGED <<live, foreign, stateVars, callerVars>>

Crash(p) ==
  /\ p \in live
  /\ live' = live \ {p}
  /\ ready' = ready \ {p}
  /\ UNCHANGED <<foreign, stateVars, callerVars>>

ForeignServer ==
  /\ foreign' = ~foreign
  /\ UNCHANGED <<live, ready, stateVars, callerVars>>

Chatting == {c \in Callers : pc[c] = "chat"}

Later(time) == IF time < IdleTimeout THEN time + 1 ELSE IdleTimeout

Tick ==
  /\ idle' = Later(idle)
  /\ chatTime' = [c \in Callers |-> IF c \in Chatting THEN Later(chatTime[c]) ELSE chatTime[c]]
  /\ UNCHANGED <<procVars, child, reaperRunning, reapers, starter, pc, spawned>>

EnsureServer(c) ==
  \/ LockStartup(c) \/ CheckHealth(c) \/ StopStale(c) \/ Spawn(c) \/ SpawnFails(c)
  \/ StoreChild(c) \/ StartIdleReaper(c) \/ PollAnswered(c) \/ PollTimesOut(c) \/ GiveUp(c)

Continue(c) == EnsureServer(c) \/ TouchUsed(c) \/ Chat(c)

Next ==
  \/ \E c \in Callers : Ask(c) \/ Continue(c)
  \/ \E r \in Reapers : Reap(r)
  \/ \E p \in Procs : BecomeReady(p) \/ Crash(p)
  \/ ForeignServer
  \/ Tick

Spec == Init /\ [][Next]_vars

\* A call that is under way goes on (its waits are all timed), a reaper thread
\* keeps looking, and the clock runs.  Nobody is obliged to ask again.
FairSpec ==
  /\ Spec
  /\ \A c \in Callers : WF_vars(Continue(c))
  /\ \A r \in Reapers : WF_vars(Reap(r))
  /\ WF_vars(Tick)

-----------------------------------------------------------------------------
(* Properties                                                              *)

\* lib.rs ensure_server and stop_stale_owned_process: a server process that was
\* started here and still runs is the owned child, or is about to be stored as
\* it by the one caller that starts servers.  Otherwise it would never be killed.
NoOrphan ==
  \A p \in live :
    \/ p = child
    \/ \E c \in starter : pc[c] = "store" /\ spawned[c] = p

\* lib.rs start_idle_reaper: an owned child is always watched, or the caller
\* that stored it is just about to start the reaper.
ChildIsWatched ==
  child # NoProc => reaperRunning \/ \E c \in starter : pc[c] = "reaper"

\* "The reaper will be started only once while no other reaper is running": the
\* flag says whether a reaper thread exists, and there is never a second one.
OneReaper ==
  /\ reaperRunning <=> reapers # {}
  /\ \A r, s \in reapers : r = s

\* The two together: an owned child has one reaper, neither none nor several.
WatchedOnce == ChildIsWatched /\ OneReaper

\* Whatever the callers do to one another: every server started here is owned, and
\* the one that is owned is watched by one reaper until it is stopped.
ServerIsKept == NoOrphan /\ WatchedOnce

\* lib.rs touch_used: whoever else asks, the reaper stops the server under a chat
\* request only if that has already taken as long as the idle timeout: every
\* request has at least that time.  (A caller whose health check fails does not
\* look at the requests of the others.)
ServerOutlivesRequest ==
  [][child # NoProc /\ child' = NoProc /\ reapers' # reapers
       => \A c \in Chatting : chatTime[c] >= IdleTimeout]_vars

\* lib.rs start_idle_reaper: once nobody asks any more, the owned server is
\* stopped for good.
IdleServerStopped ==
  <>[](\A c \in Callers : pc[c] = "out") => <>[](child = NoProc /\ live = {})
=============================================================================
