------------------------ MODULE ActionServiceProofs ------------------------
(***************************************************************************)
(* Proofs about ActionService: type correctness, that no recording goes on *)
(* past a frame after its daemon's limit, that an offered capture is       *)
(* runnable, and that every effect is logged and counted once.             *)
(***************************************************************************)
EXTENDS ActionService, FiniteSetTheorems, TLAPS

USE ActionAssumption

-----------------------------------------------------------------------------
(* Settings and offers *)

\* Whatever the file says, the service runs with bounds it can keep.
LEMMA StartedType ==
  ASSUME NEW stored \in Stored
  PROVE  /\ Started(stored) \in [capture : CaptureSettings, ask : BOOLEAN]
         /\ Started(stored).capture.default <= Started(stored).capture.max
  <1> DEFINE raw == stored.capture
             max == AtMost(OrDefault(raw.max, DefaultMax), HardMax)
  <1>1. /\ raw.enabled \in BOOLEAN /\ raw.max \in Nat /\ raw.default \in Nat
        /\ stored.ask \in BOOLEAN
    BY DEF Stored
  <1>2. max \in 1..HardMax
    BY <1>1 DEF AtMost, OrDefault
  <1>3. Clamp(OrDefault(raw.default, DefaultRecord), 1, max) \in 1..max
    BY <1>1, <1>2 DEF Clamp, AtMost, OrDefault
  <1>4. Normalized(raw) = [enabled |-> raw.enabled, max |-> max,
          default |-> Clamp(OrDefault(raw.default, DefaultRecord), 1, max)]
    BY DEF Normalized
  <1>5. Normalized(raw) \in CaptureSettings /\ Normalized(raw).default <= Normalized(raw).max
    <2> HIDE DEF max
    <2> QED  BY <1>1, <1>2, <1>3, <1>4 DEF CaptureSettings
  <1> QED
    BY <1>1, <1>5 DEF Started

\* What a search offers is a result, and a capture offered is one whose id the
\* service accepts under the same settings.
LEMMA OffersAccepted ==
  ASSUME NEW s \in [capture : CaptureSettings, ask : BOOLEAN],
         s.capture.default <= s.capture.max,
         NEW r \in Offers(s)
  PROVE  /\ r \in Result
         /\ IsCapture(r) => s.capture.enabled /\ IdAccepted(r, s.capture)
  <1>1. /\ s.capture.max \in 1..HardMax
        /\ s.capture.default \in 1..s.capture.max
    BY DEF CaptureSettings
  <1>2. ASSUME NEW typed \in 0..MaxWritten
        PROVE  OfferedSeconds(typed, s.capture) \in 1..s.capture.max
    BY <1>1 DEF OfferedSeconds, Clamp, AtMost
  <1>3. ASSUME NEW n \in 1..s.capture.max
        PROVE  Recording(n) \in Result /\ IdAccepted(Recording(n), s.capture)
    BY <1>1 DEF Recording, Result, IdAccepted
  <1>4. CASE r.kind \in {"plain", "search-only", "ask", "screenshot"}
    <2>1. r \in [kind : {"plain", "search-only", "ask", "screenshot"}, seconds : {0}]
      BY <1>4 DEF Offers, Plain, Recording
    <2>2. r.kind = "screenshot" => s.capture.enabled
      BY <1>4 DEF Offers, Plain, Recording
    <2> QED
      BY <2>1, <2>2, <1>4 DEF Result, IsCapture, IdAccepted
  <1>5. CASE r.kind \notin {"plain", "search-only", "ask", "screenshot"}
    <2>1. /\ s.capture.enabled
          /\ \/ r = Recording(s.capture.default)
             \/ \E typed \in 0..MaxWritten :
                  r = Recording(OfferedSeconds(typed, s.capture))
      BY <1>5 DEF Offers, Plain
    <2>2. PICK n \in 1..s.capture.max : r = Recording(n)
      BY <2>1, <1>1, <1>2
    <2> QED
      BY <2>1, <2>2, <1>3
  <1> QED
    BY <1>4, <1>5

-----------------------------------------------------------------------------
(* Type correctness and the first two properties *)

\* What the settings of a running daemon satisfy beyond their type.
Usable == settings.capture.default <= settings.capture.max

\* A thread past its parse runs an accepted id, on an enabled service, and has
\* recorded no frame when its seconds were over.
ThreadsAccepted ==
  \A t \in Threads :
    /\ thread[t].phase # "free" => settings.capture.enabled /\ IsCapture(thread[t].of)
    /\ thread[t].phase \in {"waiting", "capturing"} =>
         IdAccepted(thread[t].of, settings.capture)
    /\ thread[t].phase # "free" /\ thread[t].of.kind = "record" /\ thread[t].of.seconds # 0 =>
         thread[t].frame < thread[t].of.seconds
    /\ ~up => thread[t].phase = "free"

\* A result is fresh only under the daemon that offered it, and only a running
\* daemon is at work.
FreshIsRunning == fresh => up
ServeRuns == ~up => serve.step = "idle"

IInv == TypeOK /\ Usable /\ ThreadsAccepted /\ FreshIsRunning /\ ServeRuns /\ OffersHold

\* Every initial state satisfies the invariant.
LEMMA InitInv == Init => IInv
  <1> SUFFICES ASSUME Init PROVE IInv  OBVIOUS
  <1>1. Usable /\ settings \in [capture : CaptureSettings, ask : BOOLEAN]
    BY StartedType DEF Init, Usable
  <1>2. Plain \in Result
    BY DEF Plain, Result
  <1>3. TypeOK
    <2>1. /\ up \in BOOLEAN /\ fresh \in BOOLEAN /\ shown \in Result \cup {NoResult}
      BY Zenon DEF Init
    <2>5. actions \in 0..MaxActions
      BY DEF Init
    <2>2. serve \in [step : {"idle", "execute", "log", "count"}, of : Result]
      BY <1>2 DEF Init
    <2>3. thread \in [Threads ->
            [phase : Phases, of : Result, elapsed : 0..MaxElapsed, frame : 0..MaxElapsed]]
      BY <1>2 DEF Init, Ready, ThreadFor, Phases, MaxElapsed
    <2>4. /\ accepted \in [Result -> Nat] /\ done \in [Result -> Nat]
          /\ used \in [Result -> Nat] /\ lost \in [Result -> Nat]
          /\ memory \in [Result -> Nat]
      BY DEF Init
    <2> QED
      BY <1>1, <2>1, <2>2, <2>3, <2>4, <2>5 DEF TypeOK
  <1>4. ThreadsAccepted /\ FreshIsRunning /\ ServeRuns /\ OffersHold
    BY DEF Init, ThreadsAccepted, FreshIsRunning, ServeRuns, OffersHold, Ready, ThreadFor
  <1> QED
    BY <1>1, <1>3, <1>4 DEF IInv

\* A step of a capture thread keeps the invariant.
LEMMA ThreadInv ==
  ASSUME IInv, NEW t \in Threads, ThreadStep(t)
  PROVE  IInv'
  <1> DEFINE Thread == [phase : Phases, of : Result, elapsed : 0..MaxElapsed, frame : 0..MaxElapsed]
  <1>1. TypeOK /\ Ready \in Thread
    BY DEF IInv, Ready, ThreadFor, Phases, Plain, Result, MaxElapsed
  <1>2. /\ thread' \in [Threads -> Thread]
        /\ \A u \in Threads : u # t => thread'[u] = thread[u]
        /\ \/ thread'[t] = Ready
           \/ /\ thread'[t].of = thread[t].of
              /\ thread[t].phase # "free"
              /\ \/ thread'[t].frame = thread[t].frame
                 \/ thread'[t].frame = thread[t].elapsed /\ ~TimeIsUp(t)
              /\ \/ thread'[t].phase \in {"saved", "logged"}
                 \/ IdAccepted(thread[t].of, settings.capture)
                 \/ thread[t].phase \in {"waiting", "capturing"}
    <2>1. CASE CountCapture(t) \/ FailLoggingCapture(t) \/ RefuseId(t) \/ FailCapture(t)
      BY <1>1, <2>1
      DEF TypeOK, CountCapture, FailLoggingCapture, RefuseId, FailCapture, EndThread, Phases
    <2>2. CASE ParseId(t) \/ StartCapture(t) \/ Frame(t) \/ LastFrame(t) \/ LogCapture(t)
      BY <1>1, <2>2
      DEF TypeOK, ParseId, StartCapture, Frame, LastFrame, LogCapture, GoTo, Phases
    <2> QED
      BY <2>1, <2>2 DEF ThreadStep
  <1>3. UNCHANGED <<up, settings, shown, fresh, serve, actions, accepted>>
    BY DEF ThreadStep, ParseId, RefuseId, StartCapture, FailCapture, Frame, LastFrame, LogCapture,
       CountCapture, FailLoggingCapture, others, tallies
  <1>4. /\ done' \in [Result -> Nat] /\ used' \in [Result -> Nat] /\ lost' \in [Result -> Nat]
        /\ memory' \in [Result -> Nat]
    BY <1>1 DEF TypeOK, ThreadStep, ParseId, RefuseId, StartCapture, FailCapture, Frame,
       LastFrame, LogCapture, CountCapture, FailLoggingCapture, others, tallies
  <1>5. TypeOK'
    BY <1>1, <1>2, <1>3, <1>4 DEF TypeOK, MaxElapsed
  <1>6. ThreadsAccepted'
    <2>1. ThreadsAccepted /\ thread[t] \in Thread /\ thread[t].of \in Result
      BY <1>1 DEF IInv, TypeOK
    <2>2. thread[t].of.kind = "record" => thread[t].of.seconds \in Nat
      BY <2>1 DEF Result
    <2>3. ~TimeIsUp(t) /\ thread[t].of.kind = "record" => thread[t].elapsed < thread[t].of.seconds
      BY <2>1, <2>2 DEF TimeIsUp, MaxElapsed
    <2> QED
      BY <1>2, <1>3, <2>1, <2>3 DEF ThreadsAccepted, Ready, ThreadFor, IdAccepted
  <1> QED
    BY <1>3, <1>5, <1>6 DEF IInv, Usable, FreshIsRunning, ServeRuns, OffersHold, IdAccepted

\* Every step keeps the invariant.
LEMMA NextInv == IInv /\ [Next]_vars => IInv'
  <1> SUFFICES ASSUME IInv, [Next]_vars PROVE IInv'  OBVIOUS
  <1> DEFINE Thread == [phase : Phases, of : Result, elapsed : 0..MaxElapsed, frame : 0..MaxElapsed]
  <1>1. /\ TypeOK
        /\ Plain \in Result /\ Ready \in Thread
        /\ [step |-> "idle", of |-> Plain] \in [step : {"idle", "execute", "log", "count"}, of : Result]
    BY DEF IInv, Plain, Ready, ThreadFor, Phases, Result, MaxElapsed
  <1>2. CASE Kill
    <2>1. lost' \in [Result -> Nat]
      <3> SUFFICES ASSUME NEW r \in Result PROVE lost[r] + Unlogged(r) \in Nat
        BY <1>2 DEF Kill
      <3>1. IsFiniteSet(At("saved", r))
        BY FS_Subset DEF At
      <3>2. Cardinality(At("saved", r)) \in Nat /\ lost[r] \in Nat
        BY <1>1, <3>1, FS_CardinalityType DEF TypeOK
      <3> QED
        BY <3>2 DEF Unlogged, Waiting
    <2> QED
      BY <1>1, <1>2, <2>1
      DEF IInv, TypeOK, Kill, Usable, ThreadsAccepted, FreshIsRunning, ServeRuns, OffersHold, Ready, ThreadFor
  <1>3. ASSUME NEW stored \in Stored, StartDaemon(stored) PROVE IInv'
    <2>1. Usable' /\ settings' \in [capture : CaptureSettings, ask : BOOLEAN]
      BY <1>3, StartedType DEF StartDaemon, Usable
    <2> QED
      BY <1>1, <1>3, <2>1 DEF IInv, TypeOK, StartDaemon, tallies, ThreadsAccepted,
         FreshIsRunning, ServeRuns, OffersHold
  <1>4. ASSUME NEW r \in Result, Search(r) PROVE IInv'
    <2>1. IsCapture(r) => settings.capture.enabled /\ IdAccepted(r, settings.capture)
      BY <1>1, <1>4, OffersAccepted DEF Search, IInv, Usable, TypeOK
    <2> QED
      BY <1>1, <1>4, <2>1 DEF IInv, TypeOK, Search, tallies, Usable, ThreadsAccepted,
         FreshIsRunning, ServeRuns, OffersHold, IdAccepted, IsCapture
  <1>5. CASE Refuse \/ BeginExecute \/ Execute \/ FailExecute \/ LogUsage \/ CountUsage \/ FailLogging
    <2>1. UNCHANGED <<up, settings, shown, fresh, thread>>
      BY <1>5 DEF Refuse, BeginExecute, Execute, FailExecute, LogUsage, CountUsage, FailLogging
    <2>2. /\ actions' \in 0..MaxActions
          /\ serve' \in [step : {"idle", "execute", "log", "count"}, of : Result]
          /\ accepted' \in [Result -> Nat] /\ done' \in [Result -> Nat]
          /\ used' \in [Result -> Nat] /\ lost' \in [Result -> Nat]
          /\ memory' \in [Result -> Nat]
      <3>1. CASE Refuse
        BY <1>1, <3>1 DEF TypeOK, Refuse, Requested, tallies
      <3>2. CASE BeginExecute
        BY <1>1, <3>2 DEF TypeOK, BeginExecute, Requested, tallies, NoResult
      <3>3. CASE Execute
        BY <1>1, <3>3 DEF TypeOK, Execute
      <3>4. CASE FailExecute
        BY <1>1, <3>4 DEF TypeOK, FailExecute, tallies
      <3>5. CASE LogUsage
        BY <1>1, <3>5 DEF TypeOK, LogUsage
      <3>6. CASE FailLogging
        BY <1>1, <3>6 DEF TypeOK, FailLogging
      <3>7. CASE CountUsage
        BY <1>1, <3>7 DEF TypeOK, CountUsage
      <3> QED
        BY <1>5, <3>1, <3>2, <3>3, <3>4, <3>5, <3>6, <3>7
    <2>3. ServeRuns'
      BY <1>5, <2>1 DEF IInv, ServeRuns, Refuse, BeginExecute, Execute, FailExecute, LogUsage,
         CountUsage, FailLogging, Requested
    <2> QED
      BY <1>1, <2>1, <2>2, <2>3
      DEF IInv, TypeOK, Usable, ThreadsAccepted, FreshIsRunning, OffersHold
  <1>6. ASSUME NEW t \in Threads, ScheduleCapture(t) PROVE IInv'
    <2>1. /\ shown \in Result /\ IsCapture(shown) /\ settings.capture.enabled /\ up
      BY <1>1, <1>6 DEF TypeOK, ScheduleCapture, Requested
    <2>2. /\ thread' = [thread EXCEPT ![t] = ThreadFor("started", shown)]
          /\ ThreadFor("started", shown) \in Thread
      BY <1>6, <2>1 DEF ScheduleCapture, MaxElapsed, ThreadFor, Phases
    <2>3. TypeOK'
      BY <1>1, <1>6, <2>1, <2>2 DEF TypeOK, ScheduleCapture, Requested
    <2>4. ThreadsAccepted'
      <3>1. shown.kind = "record" => shown.seconds \in Nat
        BY <2>1 DEF Result
      <3> QED
        BY <1>1, <1>6, <2>1, <2>2, <3>1
        DEF IInv, TypeOK, ThreadsAccepted, ScheduleCapture, IdAccepted, ThreadFor
    <2> QED
      BY <1>6, <2>3, <2>4
      DEF IInv, ScheduleCapture, Usable, FreshIsRunning, ServeRuns, OffersHold, IdAccepted
  <1>7. ASSUME NEW t \in Threads, ThreadStep(t) PROVE IInv'
    BY <1>7, ThreadInv
  <1>8. CASE Tick
    <2>1. \A t \in Threads : thread'[t] \in Thread /\ thread'[t].phase = thread[t].phase
                             /\ thread'[t].of = thread[t].of
                             /\ thread'[t].frame = thread[t].frame
      BY <1>1, <1>8 DEF TypeOK, Tick, AtMost, MaxElapsed
    <2>2. thread' \in [Threads -> Thread]
      BY <1>8, <2>1 DEF Tick
    <2> QED
      BY <1>1, <1>8, <2>1, <2>2 DEF IInv, TypeOK, Tick, others, tallies, Usable,
         ThreadsAccepted, FreshIsRunning, ServeRuns, OffersHold, IdAccepted
  <1>9. CASE UNCHANGED vars
    BY <1>9 DEF vars, tallies, IInv, TypeOK, Usable, ThreadsAccepted, FreshIsRunning,
       ServeRuns, OffersHold, IdAccepted
  <1> QED
    BY <1>2, <1>3, <1>4, <1>5, <1>6, <1>7, <1>8, <1>9 DEF Next

\* Type correctness.
THEOREM Typing == Spec => []TypeOK
  <1>1. IInv => TypeOK
    BY DEF IInv
  <1> QED
    BY <1>1, InitInv, NextInv, PTL DEF Spec

\* Whatever settings offered a recording and whenever its frames come: the first
\* frame after the limit of the daemon that makes it is its last, and a daemon
\* that disables captures makes none (RecordingHandler, parse_capture_result_id).
THEOREM RecordingsAreBounded == Spec => []RecordingsBounded
  <1>1. IInv => RecordingsBounded
    <2> SUFFICES ASSUME IInv, NEW t \in Threads,
                        thread[t].phase = "capturing", thread[t].of.kind = "record"
                 PROVE  settings.capture.enabled /\ thread[t].frame < settings.capture.max
      BY DEF RecordingsBounded
    <2>1. /\ thread[t].of \in Result /\ settings.capture.max \in Nat
          /\ thread[t].frame \in Nat
      BY DEF IInv, TypeOK, CaptureSettings, MaxElapsed
    <2>2. /\ settings.capture.enabled /\ IdAccepted(thread[t].of, settings.capture)
          /\ thread[t].of.seconds # 0 => thread[t].frame < thread[t].of.seconds
      BY DEF IInv, ThreadsAccepted
    <2>3. thread[t].of.seconds \in Nat
      BY <2>1 DEF Result
    <2> QED
      BY <2>1, <2>2, <2>3 DEF IdAccepted
  <1> QED
    BY <1>1, InitInv, NextInv, PTL DEF Spec

\* A capture on the screen of the running daemon is one it will not refuse.
THEOREM OffersAreRunnable == Spec => []OffersHold
  <1>1. IInv => OffersHold
    BY DEF IInv
  <1> QED
    BY <1>1, InitInv, NextInv, PTL DEF Spec

-----------------------------------------------------------------------------
(* Every effect is logged and counted once *)

Thread == [phase : Phases, of : Result, elapsed : 0..MaxElapsed, frame : 0..MaxElapsed]
Serve  == [step : {"idle", "execute", "log", "count"}, of : Result]

\* 1 for a serve thread at the step with r, else 0.
ServeAt(step, r) == IF serve.step = step /\ serve.of = r THEN 1 ELSE 0

\* How many wait is a number, of threads and of the serve thread.
LEMMA WaitingIs ==
  ASSUME TypeOK, NEW r \in Result, NEW phase, NEW step
  PROVE  /\ IsFiniteSet(At(phase, r)) /\ Cardinality(At(phase, r)) \in Nat
         /\ ServeAt(step, r) \in Nat
         /\ Waiting(phase, step, r) = Cardinality(At(phase, r)) + ServeAt(step, r)
  <1>1. IsFiniteSet(At(phase, r)) /\ Cardinality(At(phase, r)) \in Nat
    BY FS_Subset, FS_CardinalityType DEF At
  <1>2. serve = [step |-> step, of |-> r] <=> serve.step = step /\ serve.of = r
    BY DEF TypeOK
  <1> QED
    BY <1>1, <1>2 DEF Waiting, ServeAt

\* What becomes of a thread decides who waits after it.
LEMMA AtSteps ==
  ASSUME TypeOK, NEW t \in Threads, NEW phase, NEW r \in Result,
         \A u \in Threads : u # t => thread'[u] = thread[u]
  PROVE  LET was == thread[t].phase = phase /\ thread[t].of = r
             is  == thread'[t].phase = phase /\ thread'[t].of = r
         IN  Cardinality(At(phase, r))' =
               Cardinality(At(phase, r)) + (IF is /\ ~was THEN 1 ELSE 0)
                                         - (IF was /\ ~is THEN 1 ELSE 0)
  <1> DEFINE was == thread[t].phase = phase /\ thread[t].of = r
             is  == thread'[t].phase = phase /\ thread'[t].of = r
  <1>1. IsFiniteSet(At(phase, r)) /\ Cardinality(At(phase, r)) \in Nat
    BY FS_Subset, FS_CardinalityType DEF At
  <1>2. CASE is /\ ~was
    <2>1. At(phase, r)' = At(phase, r) \cup {t} /\ t \notin At(phase, r)
      BY <1>2 DEF At
    <2>2. Cardinality(At(phase, r)') = Cardinality(At(phase, r)) + 1
      BY <1>1, <2>1, FS_AddElement
    <2> QED
      BY <1>1, <1>2, <2>2
  <1>3. CASE was /\ ~is
    <2>1. At(phase, r)' = At(phase, r) \ {t} /\ t \in At(phase, r)
      BY <1>3 DEF At
    <2>2. Cardinality(At(phase, r)') = Cardinality(At(phase, r)) - 1
      BY <1>1, <2>1, FS_RemoveElement
    <2> QED
      BY <1>1, <1>3, <2>2
  <1>4. CASE (is /\ was) \/ (~is /\ ~was)
    <2>1. At(phase, r)' = At(phase, r)
      BY <1>4 DEF At
    <2> QED
      BY <1>1, <1>4, <2>1
  <1> QED
    BY <1>2, <1>3, <1>4

\* The two equations for one result.
Counted(r) ==
  /\ done[r] = used[r] + lost[r] + Unlogged(r)
  /\ up => used[r] = memory[r] + Uncounted(r)

LEMMA EffectsAreAll == EffectsCounted <=> \A r \in Result : Counted(r)
  BY DEF EffectsCounted, Counted

LEMMA TalliesType ==
  ASSUME TypeOK, NEW r \in Result
  PROVE  done[r] \in Nat /\ used[r] \in Nat /\ lost[r] \in Nat /\ memory[r] \in Nat
  BY DEF TypeOK

\* A thread that saves its capture waits for a line, one that has logged it for
\* the engine; the other steps do not change who waits.
LEMMA ThreadCounts ==
  ASSUME TypeOK, NEW r \in Result, Counted(r), NEW t \in Threads, ThreadStep(t)
  PROVE  Counted(r)'
  <1>1. /\ serve' = serve /\ up' = up
        /\ thread \in [Threads -> Thread]
        /\ \A u \in Threads : u # t => thread'[u] = thread[u]
        /\ done \in [Result -> Nat] /\ used \in [Result -> Nat] /\ lost \in [Result -> Nat]
        /\ memory \in [Result -> Nat]
    BY DEF TypeOK, Thread, ThreadStep, ParseId, RefuseId, StartCapture, FailCapture, Frame,
       LastFrame, LogCapture, CountCapture, FailLoggingCapture, others, GoTo, EndThread
  <1>2. /\ Cardinality(At("saved", r)) \in Nat /\ Cardinality(At("logged", r)) \in Nat
        /\ ServeAt("log", r) \in Nat /\ ServeAt("count", r) \in Nat
        /\ Unlogged(r) = Cardinality(At("saved", r)) + ServeAt("log", r)
        /\ Uncounted(r) = Cardinality(At("logged", r)) + ServeAt("count", r)
    BY WaitingIs DEF Unlogged, Uncounted
  <1>3. /\ Unlogged(r)' = Cardinality(At("saved", r))' + ServeAt("log", r)
        /\ Uncounted(r)' = Cardinality(At("logged", r))' + ServeAt("count", r)
    <2>1. \A step : serve = [step |-> step, of |-> r] <=> serve.step = step /\ serve.of = r
      BY DEF TypeOK
    <2> QED
      BY <1>1, <2>1 DEF Unlogged, Uncounted, Waiting, ServeAt
  <1>4. /\ Cardinality(At("saved", r))' = Cardinality(At("saved", r))
             + (IF (thread'[t].phase = "saved" /\ thread'[t].of = r)
                    /\ ~(thread[t].phase = "saved" /\ thread[t].of = r) THEN 1 ELSE 0)
             - (IF (thread[t].phase = "saved" /\ thread[t].of = r)
                    /\ ~(thread'[t].phase = "saved" /\ thread'[t].of = r) THEN 1 ELSE 0)
        /\ Cardinality(At("logged", r))' = Cardinality(At("logged", r))
             + (IF (thread'[t].phase = "logged" /\ thread'[t].of = r)
                    /\ ~(thread[t].phase = "logged" /\ thread[t].of = r) THEN 1 ELSE 0)
             - (IF (thread[t].phase = "logged" /\ thread[t].of = r)
                    /\ ~(thread'[t].phase = "logged" /\ thread'[t].of = r) THEN 1 ELSE 0)
    BY <1>1, AtSteps
  <1>5. /\ done[r] \in Nat /\ used[r] \in Nat /\ lost[r] \in Nat /\ memory[r] \in Nat
    BY <1>1
  <1> USE DEF Counted
  <1>6. CASE LastFrame(t)
    <2>1. /\ thread[t].phase = "capturing" /\ thread'[t].phase = "saved"
          /\ thread'[t].of = thread[t].of
          /\ done'[r] = done[r] + (IF thread[t].of = r THEN 1 ELSE 0)
          /\ used' = used /\ lost' = lost /\ memory' = memory
      BY <1>1, <1>6 DEF LastFrame, GoTo, Thread
    <2> QED
      BY <1>1, <1>2, <1>3, <1>4, <1>5, <2>1
  <1>7. CASE LogCapture(t)
    <2>1. /\ thread[t].phase = "saved" /\ thread'[t].phase = "logged"
          /\ thread'[t].of = thread[t].of
          /\ used'[r] = used[r] + (IF thread[t].of = r THEN 1 ELSE 0)
          /\ done' = done /\ lost' = lost /\ memory' = memory
      BY <1>1, <1>7 DEF LogCapture, GoTo, Thread
    <2> QED
      BY <1>1, <1>2, <1>3, <1>4, <1>5, <2>1
  <1>8. CASE CountCapture(t)
    <2>1. /\ thread[t].phase = "logged" /\ thread'[t].phase = "free"
          /\ memory'[r] = memory[r] + (IF thread[t].of = r THEN 1 ELSE 0)
          /\ done' = done /\ lost' = lost /\ used' = used
      BY <1>1, <1>8 DEF CountCapture, EndThread, Ready, ThreadFor
    <2> QED
      BY <1>1, <1>2, <1>3, <1>4, <1>5, <2>1
  <1>9. CASE FailLoggingCapture(t)
    <2>1. /\ thread[t].phase = "saved" /\ thread'[t].phase = "free"
          /\ lost'[r] = lost[r] + (IF thread[t].of = r THEN 1 ELSE 0)
          /\ done' = done /\ memory' = memory /\ used' = used
      BY <1>1, <1>9 DEF FailLoggingCapture, EndThread, Ready, ThreadFor
    <2> QED
      BY <1>1, <1>2, <1>3, <1>4, <1>5, <2>1
  <1>10. CASE ParseId(t) \/ RefuseId(t) \/ StartCapture(t) \/ FailCapture(t) \/ Frame(t)
    <2>1. /\ thread[t].phase \notin {"saved", "logged"}
          /\ thread'[t].phase \notin {"saved", "logged"}
          /\ done' = done /\ used' = used /\ lost' = lost /\ memory' = memory
      BY <1>1, <1>10 DEF ParseId, RefuseId, StartCapture, FailCapture, Frame, GoTo, EndThread,
         Ready, ThreadFor, Thread, others, tallies
    <2> QED
      BY <1>1, <1>2, <1>3, <1>4, <1>5, <2>1
  <1> QED
    BY <1>6, <1>7, <1>8, <1>9, <1>10 DEF ThreadStep

\* Every step keeps the tallies in step with each other.
LEMMA NextCounts == IInv /\ EffectsCounted /\ [Next]_vars => EffectsCounted'
  <1> SUFFICES ASSUME IInv, TypeOK, EffectsCounted, [Next]_vars, NEW r \in Result
               PROVE  Counted(r)'
    BY EffectsAreAll DEF IInv, EffectsCounted, Counted
  <1>0. Counted(r)
    BY EffectsAreAll
  <1>1. /\ Cardinality(At("saved", r)) \in Nat /\ Cardinality(At("logged", r)) \in Nat
        /\ ServeAt("log", r) \in Nat /\ ServeAt("count", r) \in Nat
        /\ Unlogged(r) = Cardinality(At("saved", r)) + ServeAt("log", r)
        /\ Uncounted(r) = Cardinality(At("logged", r)) + ServeAt("count", r)
        /\ done[r] \in Nat /\ used[r] \in Nat /\ lost[r] \in Nat /\ memory[r] \in Nat
    BY WaitingIs, TalliesType DEF Unlogged, Uncounted
  <1>2. /\ serve \in Serve
        /\ done \in [Result -> Nat] /\ used \in [Result -> Nat] /\ lost \in [Result -> Nat]
        /\ memory \in [Result -> Nat]
    BY DEF TypeOK, Serve
  \* With the threads as they are, the serve thread decides.
  <1>3. ASSUME \A p \in {"saved", "logged"} : At(p, r)' = At(p, r), serve' \in Serve
        PROVE  /\ Unlogged(r)' = Cardinality(At("saved", r)) + ServeAt("log", r)'
               /\ Uncounted(r)' = Cardinality(At("logged", r)) + ServeAt("count", r)'
    <2>1. \A step : serve' = [step |-> step, of |-> r] <=> serve'.step = step /\ serve'.of = r
      BY <1>3 DEF Serve
    <2> QED
      BY <1>3, <2>1 DEF Unlogged, Uncounted, Waiting, ServeAt
  <1>4. CASE Kill
    <2>1. /\ lost'[r] = lost[r] + Unlogged(r) /\ done' = done /\ used' = used /\ ~up'
      BY <1>4 DEF Kill
    <2>2. At("saved", r)' = {} /\ serve'.step # "log"
      BY <1>4 DEF Kill, At, Ready, ThreadFor
    <2>3. Cardinality(At("saved", r)') = 0
      BY <2>2, FS_EmptySet
    <2>4. Unlogged(r)' = 0
      BY <2>2, <2>3 DEF Unlogged, Waiting
    <2> QED
      BY <1>0, <1>1, <2>1, <2>4 DEF Counted
  <1>5. ASSUME NEW stored \in Stored, StartDaemon(stored) PROVE Counted(r)'
    <2>1. /\ thread' = thread /\ serve' = serve /\ done' = done /\ used' = used /\ lost' = lost
          /\ memory' = used /\ ~up
      BY <1>5 DEF StartDaemon
    <2>2. At("saved", r)' = At("saved", r) /\ At("logged", r) = {} /\ serve.step # "count"
      BY <1>5, <2>1 DEF At, IInv, ThreadsAccepted, ServeRuns
    <2>3. Unlogged(r)' = Unlogged(r) /\ Uncounted(r)' = Uncounted(r)
      BY <2>1 DEF Unlogged, Uncounted, Waiting, At
    <2>4. Uncounted(r) = 0
      BY <1>1, <2>2, FS_EmptySet DEF ServeAt
    <2> QED
      BY <1>0, <1>1, <2>1, <2>3, <2>4 DEF Counted
  <1>6. CASE (\E q \in Result : Search(q)) \/ Refuse \/ BeginExecute \/ FailExecute
    <2>1. /\ thread' = thread /\ done' = done /\ used' = used /\ lost' = lost
          /\ memory' = memory /\ up' = up
      BY <1>6 DEF Search, Refuse, BeginExecute, FailExecute, tallies
    <2>2. \/ serve' = serve
          \/ /\ serve' \in Serve /\ serve.step \notin {"log", "count"}
             /\ serve'.step \notin {"log", "count"}
      BY <1>6, <1>2 DEF Search, Refuse, BeginExecute, FailExecute, Requested, Serve, Plain, Result, TypeOK, NoResult
    <2>3. \A p \in {"saved", "logged"} : At(p, r)' = At(p, r)
      BY <2>1 DEF At
    <2>4. serve' \in Serve
      BY <1>2, <2>2
    <2>5. ServeAt("log", r)' = ServeAt("log", r) /\ ServeAt("count", r)' = ServeAt("count", r)
      BY <2>2 DEF ServeAt
    <2> QED
      BY <1>0, <1>1, <1>3, <2>1, <2>3, <2>4, <2>5 DEF Counted
  <1>7. CASE Execute \/ LogUsage \/ CountUsage \/ FailLogging
    <2>1. \A p \in {"saved", "logged"} : At(p, r)' = At(p, r)
      BY <1>7 DEF Execute, LogUsage, CountUsage, FailLogging, At
    <2>2. serve' \in Serve /\ up' = up
      BY <1>7, <1>2 DEF Execute, LogUsage, CountUsage, FailLogging, Serve, Plain, Result
    <2>3. /\ Unlogged(r)' = Cardinality(At("saved", r)) + ServeAt("log", r)'
          /\ Uncounted(r)' = Cardinality(At("logged", r)) + ServeAt("count", r)'
      BY <1>3, <2>1, <2>2
    <2>4. CASE Execute
      <3>1. /\ serve.step = "execute" /\ serve'.step = "log" /\ serve'.of = serve.of
            /\ done'[r] = done[r] + (IF serve.of = r THEN 1 ELSE 0)
            /\ used' = used /\ lost' = lost /\ memory' = memory
        BY <1>2, <2>4 DEF Execute, Serve
      <3> QED
        BY <1>0, <1>1, <2>2, <2>3, <3>1 DEF Counted, ServeAt
    <2>5. CASE LogUsage
      <3>1. /\ serve.step = "log" /\ serve'.step = "count" /\ serve'.of = serve.of
            /\ used'[r] = used[r] + (IF serve.of = r THEN 1 ELSE 0)
            /\ done' = done /\ lost' = lost /\ memory' = memory
        BY <1>2, <2>5 DEF LogUsage, Serve
      <3> QED
        BY <1>0, <1>1, <2>2, <2>3, <3>1 DEF Counted, ServeAt
    <2>6. CASE CountUsage
      <3>1. /\ serve.step = "count" /\ serve'.step = "idle"
            /\ memory'[r] = memory[r] + (IF serve.of = r THEN 1 ELSE 0)
            /\ done' = done /\ lost' = lost /\ used' = used
        BY <1>2, <2>6 DEF CountUsage, Serve
      <3> QED
        BY <1>0, <1>1, <2>2, <2>3, <3>1 DEF Counted, ServeAt
    <2>7. CASE FailLogging
      <3>1. /\ serve.step = "log" /\ serve'.step = "idle"
            /\ lost'[r] = lost[r] + (IF serve.of = r THEN 1 ELSE 0)
            /\ done' = done /\ memory' = memory /\ used' = used
        BY <1>2, <2>7 DEF FailLogging, Serve
      <3> QED
        BY <1>0, <1>1, <2>2, <2>3, <3>1 DEF Counted, ServeAt
    <2> QED
      BY <1>7, <2>4, <2>5, <2>6, <2>7
  <1>8. CASE (\E t \in Threads : ScheduleCapture(t)) \/ Tick
    <2>1. /\ serve' = serve /\ done' = done /\ used' = used /\ lost' = lost /\ memory' = memory
          /\ up' = up
      BY <1>8 DEF ScheduleCapture, Tick, others, tallies
    <2>2. \A u \in Threads, p \in {"saved", "logged"} :
            /\ thread'[u].phase = p <=> thread[u].phase = p
            /\ thread[u].phase = p => thread'[u].of = thread[u].of
      BY <1>8 DEF ScheduleCapture, Tick, TypeOK, ThreadFor
    <2>3. \A p \in {"saved", "logged"} : At(p, r)' = At(p, r)
      BY <2>2 DEF At
    <2>4. ServeAt("log", r)' = ServeAt("log", r) /\ ServeAt("count", r)' = ServeAt("count", r)
      BY <2>1 DEF ServeAt
    <2> QED
      BY <1>0, <1>1, <1>2, <1>3, <2>1, <2>3, <2>4 DEF Counted
  <1>9. ASSUME NEW t \in Threads, ThreadStep(t) PROVE Counted(r)'
    BY <1>0, <1>9, ThreadCounts
  <1>10. CASE UNCHANGED vars
    BY <1>0, <1>10 DEF vars, tallies, Counted, Unlogged, Uncounted, Waiting, At
  <1> QED
    BY <1>4, <1>5, <1>6, <1>7, <1>8, <1>9, <1>10 DEF Next

\* Every effect is in the log once, or lost to a failed or interrupted write; and
\* the running daemon has counted every line but those its threads are about to.
THEOREM EffectsAreCounted == Spec => []EffectsCounted
  <1>1. Init => EffectsCounted
    <2> SUFFICES ASSUME Init, NEW r \in Result PROVE Counted(r)
      BY EffectsAreAll
    <2>1. At("saved", r) = {} /\ At("logged", r) = {} /\ serve.step = "idle"
      BY DEF Init, At, Ready, ThreadFor
    <2>2. Unlogged(r) = 0 /\ Uncounted(r) = 0
      BY <2>1, FS_EmptySet DEF Unlogged, Uncounted, Waiting
    <2> QED
      BY <2>2 DEF Init, Counted
  <1>2. IInv /\ EffectsCounted /\ [Next]_vars => EffectsCounted'
    BY NextCounts
  <1> QED
    BY <1>1, <1>2, InitInv, NextInv, PTL DEF Spec
=============================================================================
