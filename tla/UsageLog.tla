------------------------------ MODULE UsageLog ------------------------------
(***************************************************************************)
(* The usage log (crates/winspot-search/src/usage.rs) as the daemon writes *)
(* it: one JSON line per launch, appended by the serve thread and by every *)
(* capture thread, read back when the daemon starts.                       *)
(*                                                                         *)
(* record opens the file in append mode for each event and hands the bare  *)
(* file to the JSON writer, so an event reaches the file in several writes *)
(* and its newline in one more.  Each write lands whole at the end of the  *)
(* file, but writes of two threads may alternate, a write may fail half    *)
(* done, and the daemon may be killed between two of them (the launcher    *)
(* kills the daemon it owns when it exits).                                *)
(*                                                                         *)
(* Of the file three things matter to load_snapshot: how many closed lines *)
(* are events, what stands after the last newline, and whether a line is   *)
(* not UTF-8, since that ends the loading, and the start of the daemon,    *)
(* with an error.  Timestamps are left out; so is a log path that is not   *)
(* configured.                                                             *)
(***************************************************************************)
EXTENDS Integers, Sequences, FiniteSetsExt

CONSTANTS
  Writers,    \* the serve thread and the capture threads
  Items,      \* result ids
  Parts,      \* writes that one event takes before its newline
  MaxEvents,  \* bound on the appends started
  MaxBreaks   \* bound on the failures and kills that leave a broken line

LogAssumption ==
  /\ IsFiniteSet(Writers) /\ IsFiniteSet(Items) /\ Items # {}
  /\ Parts \in Nat \ {0}
  /\ MaxEvents \in Nat
  /\ MaxBreaks \in Nat

VARIABLES
  up,       \* is the daemon running?
  usage,    \* in-memory launch counts
  opened,   \* could it open the log when it started?
  logged,   \* per item, the closed lines that parse as an event of it
  garbled,  \* is a closed line no UTF-8?
  tail,     \* the pieces after the last newline
  pc, item, next,  \* per thread: where it is, what it records, its next write
  shared,   \* did another thread append during this thread's append?
  started,  \* appends started so far
  acked,    \* launches recorded in the log and in memory, over all runs
  overlaps, \* how many of them shared their append with another thread
  breaks    \* how often an append ended with an unfinished line behind it

threadVars == <<pc, item, next, shared>>
fileVars   == <<logged, garbled, tail>>
tallyVars  == <<started, acked, overlaps, breaks>>
vars == <<up, usage, opened, threadVars, fileVars, tallyVars>>

\* Part 0 is a write cut short, part -1 one cut short within a character.
Piece == [of : Items, part : -1..Parts]

TypeOK ==
  /\ up \in BOOLEAN /\ opened \in BOOLEAN /\ garbled \in BOOLEAN
  /\ usage \in [Items -> Nat]
  /\ logged \in [Items -> Nat]
  /\ tail \in Seq(Piece)
  /\ pc \in [Writers -> {"idle", "append", "logged"}]
  /\ item \in [Writers -> Items]
  /\ next \in [Writers -> 1..(Parts + 1)]
  /\ shared \in [Writers -> BOOLEAN]
  /\ started \in 0..MaxEvents
  /\ acked \in Nat /\ overlaps \in Nat /\ breaks \in Nat

Init ==
  /\ up = TRUE /\ opened = TRUE
  /\ usage = [i \in Items |-> 0]
  /\ logged = [i \in Items |-> 0]
  /\ garbled = FALSE
  /\ tail = <<>>
  /\ pc = [t \in Writers |-> "idle"]
  /\ item \in [Writers -> {CHOOSE i \in Items : TRUE}]
  /\ next = [t \in Writers |-> 1]
  /\ shared = [t \in Writers |-> FALSE]
  /\ started = 0 /\ acked = 0 /\ overlaps = 0 /\ breaks = 0

\* Does the line parse as an event?  Only when it is one event, whole.
IsEvent(line, i) == line = [n \in 1..Parts |-> [of |-> i, part |-> n]]

IsGarbled(line) == \E n \in DOMAIN line : line[n].part = -1
Unreadable == garbled \/ IsGarbled(tail)

\* load_snapshot of a readable log: every line that parses, the unterminated last one included.
Loaded == [i \in Items |-> logged[i] + IF IsEvent(tail, i) THEN 1 ELSE 0]

Appending == {t \in Writers : pc[t] = "append"}

\* Faulty: the file is opened to be rewritten.
StartRewrite(t, i) ==
  /\ up
  /\ pc[t] = "idle"
  /\ started < MaxEvents
  /\ started' = started + 1
  /\ pc' = [pc EXCEPT ![t] = "append"]
  /\ item' = [item EXCEPT ![t] = i]
  /\ next' = [next EXCEPT ![t] = 1]
  /\ shared' = [s \in Writers |->
                  IF s = t THEN Appending # {} ELSE shared[s] \/ s \in Appending]
  /\ logged' = [j \in Items |-> 0]
  /\ garbled' = FALSE
  /\ tail' = <<>>
  /\ UNCHANGED <<up, usage, opened, acked, overlaps, breaks>>

StartAppend(t, i) ==
  /\ up
  /\ pc[t] = "idle"
  /\ started < MaxEvents
  /\ started' = started + 1
  /\ pc' = [pc EXCEPT ![t] = "append"]
  /\ item' = [item EXCEPT ![t] = i]
  /\ next' = [next EXCEPT ![t] = 1]
  /\ shared' = [s \in Writers |->
                  IF s = t THEN Appending # {} ELSE shared[s] \/ s \in Appending]
  /\ UNCHANGED <<up, usage, opened, fileVars, acked, overlaps, breaks>>

WritePart(t) ==
  /\ t \in Appending
  /\ next[t] <= Parts
  /\ tail' = Append(tail, [of |-> item[t], part |-> next[t]])
  /\ next' = [next EXCEPT ![t] = @ + 1]
  /\ UNCHANGED <<up, usage, opened, logged, garbled, pc, item, shared, tallyVars>>

WriteNewline(t) ==
  /\ t \in Appending
  /\ next[t] > Parts
  /\ logged' = [i \in Items |-> logged[i] + IF IsEvent(tail, i) THEN 1 ELSE 0]
  /\ garbled' = Unreadable
  /\ tail' = <<>>
  /\ pc' = [pc EXCEPT ![t] = "logged"]
  /\ UNCHANGED <<up, usage, opened, item, next, shared, tallyVars>>

\* engine.record_usage, called only when the append returned Ok.
Acknowledge(t) ==
  /\ pc[t] = "logged"
  /\ usage' = [usage EXCEPT ![item[t]] = @ + 1]
  /\ acked' = acked + 1
  /\ overlaps' = overlaps + IF shared[t] THEN 1 ELSE 0
  /\ pc' = [pc EXCEPT ![t] = "idle"]
  /\ UNCHANGED <<up, opened, fileVars, item, next, shared, started, breaks>>

\* What the write under way leaves behind when it does not complete.
CutShort(t) ==
  \/ UNCHANGED tail
  \/ /\ next[t] <= Parts
     /\ \E p \in {0, -1} : tail' = Append(tail, [of |-> item[t], part |-> p])

CountBreak ==
  /\ breaks' = breaks + IF tail' # <<>> THEN 1 ELSE 0
  /\ breaks' <= MaxBreaks

\* Faulty: the engine is told although the write failed.
FailWriteUnnoticed(t) ==
  /\ t \in Appending
  /\ CutShort(t)
  /\ CountBreak
  /\ usage' = [usage EXCEPT ![item[t]] = @ + 1]
  /\ pc' = [pc EXCEPT ![t] = "idle"]
  /\ UNCHANGED <<up, opened, logged, garbled, item, next, shared, started, acked, overlaps>>

\* A write fails: record returns Err and the engine is not told.
FailWrite(t) ==
  /\ t \in Appending
  /\ CutShort(t)
  /\ CountBreak
  /\ pc' = [pc EXCEPT ![t] = "idle"]
  /\ UNCHANGED <<up, usage, opened, logged, garbled, item, next, shared, started, acked,
                 overlaps>>

\* The daemon is killed, in the middle of whatever its threads do.
Kill ==
  /\ up
  /\ up' = FALSE
  /\ \/ /\ Appending = {}
        /\ UNCHANGED <<tail, breaks>>
     \/ /\ \E t \in Appending : CutShort(t)
        /\ CountBreak
  /\ pc' = [t \in Writers |-> "idle"]
  /\ UNCHANGED <<usage, opened, logged, garbled, item, next, shared, started, acked,
                 overlaps>>

Restart ==
  /\ ~up /\ ~Unreadable
  /\ up' = TRUE
  /\ opened' = TRUE
  /\ usage' = Loaded
  /\ UNCHANGED <<threadVars, fileVars, tallyVars>>

\* A log that cannot be opened counts as empty.
RestartUnopened ==
  /\ ~up
  /\ up' = TRUE
  /\ opened' = FALSE
  /\ usage' = [i \in Items |-> 0]
  /\ UNCHANGED <<threadVars, fileVars, tallyVars>>

\* A line that is not UTF-8 is an error, and the daemon does not start.
RestartFails ==
  /\ ~up /\ Unreadable
  /\ UNCHANGED vars

Next ==
  \/ \E t \in Writers :
       \/ \E i \in Items : StartAppend(t, i)
       \/ WritePart(t)
       \/ WriteNewline(t)
       \/ Acknowledge(t)
       \/ FailWrite(t)
  \/ Kill
  \/ Restart
  \/ RestartUnopened
  \/ RestartFails

Spec == Init /\ [][Next]_vars

-----------------------------------------------------------------------------
(* Properties                                                              *)

Quiescent == \A t \in Writers : pc[t] = "idle"

Total(counts) == MapThenSumSet(LAMBDA i : counts[i], Items)

\* usage.rs record and load_snapshot: as long as no append broke off and no two
\* appends overlapped, a restart at rest would load exactly the counts in memory,
\* unless the log could not be opened when the daemon started.
CleanLogIsMemory ==
  up /\ opened /\ Quiescent /\ breaks = 0 /\ overlaps = 0
    => ~Unreadable /\ Loaded = usage

\* usage.rs load_snapshot skips a malformed line, and the next event after a
\* broken line is glued to it and skipped as well.  That is all that can be
\* lost: one acknowledged launch for each broken line, and those launches whose
\* appends overlapped.  Only a write that broke off can make the log one that
\* the daemon does not start with.
LossBounded ==
  Quiescent => IF Unreadable THEN breaks > 0
               ELSE acked <= Total(Loaded) + breaks + overlaps
=============================================================================
