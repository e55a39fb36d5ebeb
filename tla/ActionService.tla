---------------------------- MODULE ActionService ----------------------------
(***************************************************************************)
(* What the daemon does with an action of the launcher: handle_action in   *)
(* crates/winspot-daemon/src/server.rs, the capture service of             *)
(* crates/winspot-capture and the executor of crates/winspot-actions.      *)
(*                                                                         *)
(* The launcher holds the result it shows and sends its id back.  The id   *)
(* may be older than the daemon: a restarted daemon has read other         *)
(* settings.  Most actions run on the serve thread, which answers when     *)
(* they are done; a capture runs on a thread of its own, which parses the  *)
(* id again, waits, captures frame by frame and counts the launch long     *)
(* after "Capture scheduled." was answered.  The daemon may be killed      *)
(* between any two steps.                                                  *)
(*                                                                         *)
(* What a plain action opens, copies or runs is left out, as are the       *)
(* monitor or window captured and the artifact's path; the log's bytes are *)
(* in UsageLog, the FastFlowLM server in FastFlowLmManager.                *)
(***************************************************************************)
EXTENDS Integers, FiniteSets

CONSTANTS
  HardMax,        \* HARD_MAX_RECORD_SECONDS
  DefaultMax,     \* DEFAULT_MAX_RECORD_SECONDS
  DefaultRecord,  \* DEFAULT_RECORD_SECONDS
  MaxWritten,     \* bound on the seconds written in settings and queries
  Threads,        \* bound on the capture threads alive at once
  MaxActions      \* bound on the actions requested

ASSUME ActionAssumption ==
  /\ HardMax \in Nat /\ MaxWritten \in Nat /\ MaxActions \in Nat
  /\ IsFiniteSet(Threads)
  /\ DefaultMax \in 1..HardMax
  /\ DefaultRecord \in 1..HardMax

VARIABLES
  up,        \* is the daemon running?
  settings,  \* the settings it read when it started
  shown,     \* the result the launcher holds
  fresh,     \* was it offered by the daemon now running?
  serve,     \* the serve thread: idle, or at a step of an action
  thread,    \* the capture threads
  actions,   \* actions requested so far
  accepted,  \* per result, the answers that said "succeeded"
  done,      \* per result, the actions that took effect
  used,      \* per result, the launches in the usage log
  memory,    \* per result, the launches the running daemon's engine has counted
  lost       \* per result, the effects whose logging failed or was cut off

tallies == <<accepted, done, used, memory, lost>>
vars == <<up, settings, shown, fresh, serve, thread, actions, tallies>>

Result == [kind : {"plain", "search-only", "ask", "screenshot"}, seconds : {0}]
          \cup [kind : {"record"}, seconds : 0..(MaxWritten + HardMax)]

NoResult == [kind |-> "none", seconds |-> 0]
Plain    == [kind |-> "plain", seconds |-> 0]

IsCapture(r) == r.kind \in {"screenshot", "record"}

CaptureSettings == [enabled : BOOLEAN, max : 1..HardMax, default : 1..HardMax]
ThreadFor(phase, r) == [phase |-> phase, of |-> r, elapsed |-> 0, frame |-> 0]
Ready == ThreadFor("free", Plain)

\* Past HardMax every recording is over time: the clock need not go on.
MaxElapsed == HardMax + 1

Phases == {"free", "started", "waiting", "capturing", "saved", "logged"}

TypeOK ==
  /\ up \in BOOLEAN
  /\ settings \in [capture : CaptureSettings, ask : BOOLEAN]
  /\ shown \in Result \cup {NoResult}
  /\ fresh \in BOOLEAN
  /\ serve \in [step : {"idle", "execute", "log", "count"}, of : Result]
  /\ thread \in [Threads ->
       [phase : Phases, of : Result, elapsed : 0..MaxElapsed, frame : 0..MaxElapsed]]
  /\ actions \in 0..MaxActions
  /\ accepted \in [Result -> Nat]
  /\ done \in [Result -> Nat]
  /\ used \in [Result -> Nat]
  /\ memory \in [Result -> Nat]
  /\ lost \in [Result -> Nat]

-----------------------------------------------------------------------------
(* Settings, offers and ids *)

AtMost(n, limit) == IF n > limit THEN limit ELSE n
Clamp(n, low, high) == IF n < low THEN low ELSE AtMost(n, high)
OrDefault(n, default) == IF n = 0 THEN default ELSE n

Normalized(raw) ==
  LET max == AtMost(OrDefault(raw.max, DefaultMax), HardMax)
  IN  [enabled |-> raw.enabled,
       max     |-> max,
       default |-> Clamp(OrDefault(raw.default, DefaultRecord), 1, max)]

\* parse_capture_query: the seconds offered for "record screen <typed>".
OfferedSeconds(typed, capture) == Clamp(typed, 1, capture.max)

Recording(seconds) == [kind |-> "record", seconds |-> seconds]

\* What a search can put on the screen under these settings.
Offers(s) ==
  {Plain, [kind |-> "search-only", seconds |-> 0]}
  \cup (IF s.ask THEN {[kind |-> "ask", seconds |-> 0]} ELSE {})
  \cup (IF s.capture.enabled
        THEN {[kind |-> "screenshot", seconds |-> 0], Recording(s.capture.default)}
             \cup {Recording(OfferedSeconds(typed, s.capture)) : typed \in 0..MaxWritten}
        ELSE {})

\* Faulty: only an empty recording is refused.
IdAcceptedAnyLength(r, capture) ==
  r.kind = "screenshot" \/ (r.kind = "record" /\ r.seconds # 0)

\* parse_capture_result_id.
IdAccepted(r, capture) ==
  \/ r.kind = "screenshot"
  \/ r.kind = "record" /\ r.seconds # 0 /\ r.seconds <= capture.max

-----------------------------------------------------------------------------
(* The daemon's life and the launcher's screen *)

Stored == [capture : [enabled : BOOLEAN, max : 0..MaxWritten, default : 0..MaxWritten],
           ask : BOOLEAN]

Started(stored) == [capture |-> Normalized(stored.capture), ask |-> stored.ask]

Init ==
  /\ up = TRUE
  /\ settings \in {Started(stored) : stored \in Stored}
  /\ shown = NoResult
  /\ fresh = FALSE
  /\ serve = [step |-> "idle", of |-> Plain]
  /\ thread = [t \in Threads |-> Ready]
  /\ actions = 0
  /\ accepted = [r \in Result |-> 0]
  /\ done = [r \in Result |-> 0]
  /\ used = [r \in Result |-> 0]
  /\ memory = [r \in Result |-> 0]
  /\ lost = [r \in Result |-> 0]

\* How many actions on r stand between two of the steps that count a launch.
At(phase, r) == {t \in Threads : thread[t].phase = phase /\ thread[t].of = r}
Waiting(phase, step, r) ==
  Cardinality(At(phase, r)) + IF serve = [step |-> step, of |-> r] THEN 1 ELSE 0

Unlogged(r)  == Waiting("saved", "log", r)      \* the effect is there, its line is not
Uncounted(r) == Waiting("logged", "count", r)   \* the line is there, the engine lacks it

\* The launcher kills its daemon, or the daemon crashes.
Kill ==
  /\ up
  /\ up' = FALSE
  /\ fresh' = FALSE
  /\ serve' = [step |-> "idle", of |-> Plain]
  /\ thread' = [t \in Threads |-> Ready]
  /\ memory' = [r \in Result |-> 0]
  /\ lost' = [r \in Result |-> lost[r] + Unlogged(r)]
  /\ UNCHANGED <<settings, shown, actions, accepted, done, used>>

\* The engine starts from the log.
StartDaemon(stored) ==
  /\ ~up
  /\ up' = TRUE
  /\ settings' = Started(stored)
  /\ memory' = used
  /\ UNCHANGED <<shown, fresh, serve, thread, actions, accepted, done, used, lost>>

Search(r) ==
  /\ up
  /\ serve.step = "idle"
  /\ r \in Offers(settings)
  /\ shown' = r
  /\ fresh' = TRUE
  /\ UNCHANGED <<up, settings, serve, thread, actions, tallies>>

-----------------------------------------------------------------------------
(* handle_action *)

\* The launcher asks for the action of the result it shows.
Requested ==
  /\ up
  /\ serve.step = "idle"
  /\ shown # NoResult
  /\ actions < MaxActions
  /\ actions' = actions + 1

\* The registry has no executable action, or the service is disabled.
Refuse ==
  /\ Requested
  /\ \/ shown.kind = "search-only"
     \/ shown.kind = "ask" /\ ~settings.ask
     \/ IsCapture(shown) /\ ~settings.capture.enabled
  /\ UNCHANGED <<up, settings, shown, fresh, serve, thread, tallies>>

BeginExecute ==
  /\ Requested
  /\ shown.kind = "plain" \/ (shown.kind = "ask" /\ settings.ask)
  /\ serve' = [step |-> "execute", of |-> shown]
  /\ UNCHANGED <<up, settings, shown, fresh, thread, tallies>>

Execute ==
  /\ serve.step = "execute"
  /\ serve' = [serve EXCEPT !.step = "log"]
  /\ done' = [done EXCEPT ![serve.of] = @ + 1]
  /\ UNCHANGED <<up, settings, shown, fresh, thread, actions, accepted, used, memory, lost>>

FailExecute ==
  /\ serve.step = "execute"
  /\ serve' = [step |-> "idle", of |-> Plain]
  /\ UNCHANGED <<up, settings, shown, fresh, thread, actions, tallies>>

\* record_usage writes the line; the engine is told after it.
LogUsage ==
  /\ serve.step = "log"
  /\ serve' = [serve EXCEPT !.step = "count"]
  /\ used' = [used EXCEPT ![serve.of] = @ + 1]
  /\ UNCHANGED <<up, settings, shown, fresh, thread, actions, accepted, done, memory, lost>>

CountUsage ==
  /\ serve.step = "count"
  /\ serve' = [step |-> "idle", of |-> Plain]
  /\ memory' = [memory EXCEPT ![serve.of] = @ + 1]
  /\ accepted' = [accepted EXCEPT ![serve.of] = @ + 1]
  /\ UNCHANGED <<up, settings, shown, fresh, thread, actions, done, used, lost>>

\* A plain action still succeeded; the answer of FastFlowLM is dropped.
FailLogging ==
  /\ serve.step = "log"
  /\ serve' = [step |-> "idle", of |-> Plain]
  /\ lost' = [lost EXCEPT ![serve.of] = @ + 1]
  /\ accepted' = IF serve.of.kind = "plain"
                 THEN [accepted EXCEPT ![serve.of] = @ + 1]
                 ELSE accepted
  /\ UNCHANGED <<up, settings, shown, fresh, thread, actions, done, used, memory>>

\* handle_capture_action: spawn the thread and answer at once.
ScheduleCapture(t) ==
  /\ Requested
  /\ IsCapture(shown) /\ settings.capture.enabled
  /\ thread[t].phase = "free"
  /\ thread' = [thread EXCEPT ![t] = ThreadFor("started", shown)]
  /\ accepted' = [accepted EXCEPT ![shown] = @ + 1]
  /\ UNCHANGED <<up, settings, shown, fresh, serve, done, used, memory, lost>>

-----------------------------------------------------------------------------
(* A capture thread *)

GoTo(t, phase) == thread' = [thread EXCEPT ![t].phase = phase]
EndThread(t)   == thread' = [thread EXCEPT ![t] = Ready]
others == <<up, settings, shown, fresh, serve, actions, tallies>>

\* execute_result_id parses the id, then the backend sleeps.
ParseId(t) ==
  /\ thread[t].phase = "started"
  /\ IdAccepted(thread[t].of, settings.capture)
  /\ GoTo(t, "waiting")
  /\ UNCHANGED others

RefuseId(t) ==
  /\ thread[t].phase = "started"
  /\ ~IdAccepted(thread[t].of, settings.capture)
  /\ EndThread(t)
  /\ UNCHANGED others

StartCapture(t) ==
  /\ thread[t].phase = "waiting"
  /\ GoTo(t, "capturing")
  /\ UNCHANGED others

\* No directory, no such monitor, no encoder, a frame that cannot be written.
FailCapture(t) ==
  /\ thread[t].phase \in {"started", "waiting", "capturing"}
  /\ EndThread(t)
  /\ UNCHANGED others

\* Faulty: the time is up only in its last second.
TimeIsUpOnce(t) ==
  thread[t].of.kind = "screenshot" \/ thread[t].elapsed = thread[t].of.seconds

\* A screenshot takes one frame; a recording looks at its clock after each.
TimeIsUp(t) ==
  thread[t].of.kind = "screenshot" \/ thread[t].elapsed >= thread[t].of.seconds

\* on_frame_arrived: the frame is recorded, and is the last one if the time is up.
Frame(t) ==
  /\ thread[t].phase = "capturing"
  /\ ~TimeIsUp(t)
  /\ thread' = [thread EXCEPT ![t].frame = thread[t].elapsed]
  /\ UNCHANGED others

LastFrame(t) ==
  /\ thread[t].phase = "capturing"
  /\ TimeIsUp(t)
  /\ GoTo(t, "saved")
  /\ done' = [done EXCEPT ![thread[t].of] = @ + 1]
  /\ UNCHANGED <<up, settings, shown, fresh, serve, actions, accepted, used, memory, lost>>

LogCapture(t) ==
  /\ thread[t].phase = "saved"
  /\ GoTo(t, "logged")
  /\ used' = [used EXCEPT ![thread[t].of] = @ + 1]
  /\ UNCHANGED <<up, settings, shown, fresh, serve, actions, accepted, done, memory, lost>>

CountCapture(t) ==
  /\ thread[t].phase = "logged"
  /\ EndThread(t)
  /\ memory' = [memory EXCEPT ![thread[t].of] = @ + 1]
  /\ UNCHANGED <<up, settings, shown, fresh, serve, actions, accepted, done, used, lost>>

\* Faulty: the engine is told of a launch whose line was not written.
FailLoggingCounted(t) ==
  /\ thread[t].phase = "saved"
  /\ EndThread(t)
  /\ lost' = [lost EXCEPT ![thread[t].of] = @ + 1]
  /\ memory' = [memory EXCEPT ![thread[t].of] = @ + 1]
  /\ UNCHANGED <<up, settings, shown, fresh, serve, actions, accepted, done, used>>

FailLoggingCapture(t) ==
  /\ thread[t].phase = "saved"
  /\ EndThread(t)
  /\ lost' = [lost EXCEPT ![thread[t].of] = @ + 1]
  /\ UNCHANGED <<up, settings, shown, fresh, serve, actions, accepted, done, used, memory>>

\* A second passes for every recording.
Tick ==
  /\ \E t \in Threads : thread[t].phase = "capturing" /\ thread[t].elapsed < MaxElapsed
  /\ thread' = [t \in Threads |->
       IF thread[t].phase = "capturing"
       THEN [thread[t] EXCEPT !.elapsed = AtMost(@ + 1, MaxElapsed)]
       ELSE thread[t]]
  /\ UNCHANGED others

ThreadStep(t) ==
  \/ ParseId(t) \/ RefuseId(t) \/ StartCapture(t) \/ FailCapture(t)
  \/ Frame(t) \/ LastFrame(t) \/ LogCapture(t) \/ CountCapture(t) \/ FailLoggingCapture(t)

Next ==
  \/ Kill
  \/ \E stored \in Stored : StartDaemon(stored)
  \/ \E r \in Result : Search(r)
  \/ Refuse \/ BeginExecute \/ Execute \/ FailExecute \/ LogUsage \/ CountUsage \/ FailLogging
  \/ \E t \in Threads : ScheduleCapture(t) \/ ThreadStep(t)
  \/ Tick

Spec == Init /\ [][Next]_vars

\* Time passes, threads run, and Windows delivers frames to a capture.
FairSpec ==
  /\ Spec
  /\ WF_vars(Tick)
  /\ \A t \in Threads :
       WF_vars(ParseId(t) \/ RefuseId(t) \/ StartCapture(t)
               \/ LastFrame(t) \/ LogCapture(t) \/ CountCapture(t))

-----------------------------------------------------------------------------
(* Properties *)

\* Whatever settings offered a recording and however late its frames come, it
\* does not go on past a frame that arrives when the limit of the daemon that
\* makes it is over, nor while that daemon disables captures: every frame but its
\* last falls within the limit.  How long a recording waits for its last frame
\* is up to Windows; a picture that stands still sends none.
RecordingsBounded ==
  \A t \in Threads :
    thread[t].phase = "capturing" /\ thread[t].of.kind = "record" =>
      settings.capture.enabled /\ thread[t].frame < settings.capture.max

\* The provider and the service agree: a capture that the running daemon put
\* on the screen is one its own service will not refuse.
OffersHold ==
  fresh /\ IsCapture(shown) =>
    settings.capture.enabled /\ IdAccepted(shown, settings.capture)

\* A launch is logged once, when its effect is there, or lost to a failed or
\* interrupted write; nothing that failed is logged.  And the running daemon,
\* which had started from the log, has counted what is in it, but for the lines
\* of which its threads are about to tell the engine.
EffectsCounted ==
  \A r \in Result :
    /\ done[r] = used[r] + lost[r] + Unlogged(r)
    /\ up => used[r] = memory[r] + Uncounted(r)

\* Every capture thread comes to an end, however late a frame arrives.
CapturesEnd ==
  \A t \in Threads : thread[t].phase # "free" ~> thread[t].phase = "free"

\* "Any failure during execution or usage recording is reflected in the
\* returned ActionCompleted": with no capture at work, no action that was
\* answered as a success is without effect.
\* The code does not have this property; README.md says where they part.
FailuresReported ==
  up /\ (\A t \in Threads : thread[t].phase = "free") =>
    \A r \in Result : accepted[r] <= done[r]
=============================================================================
