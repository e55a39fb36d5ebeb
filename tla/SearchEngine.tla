---------------------------- MODULE SearchEngine ----------------------------
(***************************************************************************)
(* The daemon's search engine (crates/winspot-search/src/engine.rs): a     *)
(* candidate snapshot re-collected after a time to live, the in-memory     *)
(* usage signals that rank it, and a bounded FIFO cache of ranked batches. *)
(* Each of the three sits behind a mutex of its own and no operation holds *)
(* two of them, so every critical section is one step here and anything    *)
(* may happen between two sections.                                        *)
(*                                                                         *)
(* The engine is a handle that is cloned.  In the daemon the serve loop is *)
(* the only thread that searches; it records usage too, and so does each   *)
(* detached capture thread it spawns.                                      *)
(*                                                                         *)
(* A batch is abstracted to what its ranking depends on: the version of    *)
(* the collected candidates, the usage signals, and the time (which stands *)
(* for the answers of the dynamic providers as well: they are asked at     *)
(* that time).  The hit and miss counters are left out.                    *)
(***************************************************************************)
EXTENDS Integers, Sequences, FiniteSets

CONSTANTS
  Searchers,       \* threads that call search, and record between searches
  Recorders,       \* threads that only call record_usage
  Queries,         \* normalized cache keys (trimmed, lower-cased query, limit)
  Items,           \* result ids that carry a usage signal
  CacheLimit,      \* DEFAULT_CACHE_LIMIT
  Ttl,             \* ttl_seconds of the refreshable source
  MaxCount,        \* u32::MAX, where launch_count saturates
  ClockStepsBack,  \* may the wall clock be set back?
  MaxTime,         \* bound on the clock
  MaxWorld,        \* bound on the changes of what the providers would collect
  NoBatch,         \* absence of a batch
  NoArg            \* absence of a query or an item

Threads == Searchers \cup Recorders

\* usage.rs UsageSignal
Signal == [count : 0..MaxCount, last : Nat]
Batch  == [cand : Nat, usage : [Items -> Signal], at : Nat]

ASSUME EngineAssumption ==
  /\ CacheLimit \in Nat
  /\ Ttl \in Nat
  /\ MaxCount \in Nat \ {0}
  /\ MaxTime \in Nat
  /\ MaxWorld \in Nat
  /\ ClockStepsBack \in BOOLEAN
  /\ NoBatch \notin Batch
  /\ NoArg \notin Queries \cup Items
  /\ Queries \cap Items = {}
  /\ IsFiniteSet(Queries)

VARIABLES
  clock,     \* current_unix_seconds
  world,     \* version of what the providers would collect now
  snapshot,  \* RefreshState: [cand, at, collected]
  usage,     \* UsageSnapshot: Items -> Signal
  entries,   \* QueryCache.entries: Queries -> Batch, or NoBatch
  order,     \* QueryCache.order, oldest key first
  pc,        \* where each thread is
  arg,       \* the query it searches or the item it records
  now,       \* the time it read when the call began
  cand,      \* the candidates that resolve returned to it
  batch      \* the batch it ranked or was given

cacheVars  == <<entries, order>>
sourceVars == <<clock, world, snapshot>>
vars == <<clock, world, snapshot, usage, entries, order, pc, arg, now, cand, batch>>

Searching == {"resolve", "clear", "lookup", "rank", "insert"}
Recording == {"record", "invalidate"}
PC == {"idle", "done"} \cup Searching \cup Recording

TypeOK ==
  /\ clock \in Nat
  /\ world \in Nat
  /\ snapshot \in [cand : Nat, at : Nat, collected : BOOLEAN]
  /\ usage \in [Items -> Signal]
  /\ entries \in [Queries -> Batch \cup {NoBatch}]
  /\ order \in Seq(Queries)
  /\ pc \in [Threads -> PC]
  /\ arg \in [Threads -> Queries \cup Items \cup {NoArg}]
  /\ now \in [Threads -> Nat]
  /\ cand \in [Threads -> Nat]
  /\ batch \in [Threads -> Batch \cup {NoBatch}]
  /\ \A t \in Threads : pc[t] \in Searching => t \in Searchers /\ arg[t] \in Queries
  /\ \A t \in Threads : pc[t] \in Recording => arg[t] \in Items
  /\ \A t \in Threads : pc[t] \in {"insert", "done"} => batch[t] \in Batch

Init ==
  /\ clock = 0
  /\ world = 0
  /\ snapshot = [cand |-> 0, at |-> 0, collected |-> FALSE]
  /\ usage = [i \in Items |-> [count |-> 0, last |-> 0]]
  /\ entries = [q \in Queries |-> NoBatch]
  /\ order = <<>>
  /\ pc = [t \in Threads |-> "idle"]
  /\ arg = [t \in Threads |-> NoArg]
  /\ now = [t \in Threads |-> 0]
  /\ cand = [t \in Threads |-> 0]
  /\ batch = [t \in Threads |-> NoBatch]

-----------------------------------------------------------------------------
(* The query cache.                                                        *)

Cached == {q \in Queries : entries[q] # NoBatch}

\* Faulty: the keys stay queued for eviction.
ClearCacheKeepingOrder ==
  /\ entries' = [q \in Queries |-> NoBatch]
  /\ UNCHANGED order

ClearCache ==
  /\ entries' = [q \in Queries |-> NoBatch]
  /\ order' = <<>>

\* How often insert's loop pops: until no more than CacheLimit of the keys stay.
Evictions(keys, queue) ==
  LET Left(n) == Cardinality(keys \ {queue[i] : i \in 1..n})
  IN CHOOSE n \in 0..Len(queue) :
       /\ Left(n) <= CacheLimit
       /\ \A m \in 0..(n - 1) : Left(m) > CacheLimit

InsertBatch(q, b) ==
  LET queue == IF q \in Cached THEN order ELSE Append(order, q)
      n     == Evictions(Cached \cup {q}, queue)
      gone  == {queue[i] : i \in 1..n}
  IN IF CacheLimit = 0
     THEN UNCHANGED cacheVars
     ELSE /\ order' = SubSeq(queue, n + 1, Len(queue))
          /\ entries' = [k \in Queries |->
                           IF k \in gone THEN NoBatch
                           ELSE IF k = q THEN b ELSE entries[k]]

-----------------------------------------------------------------------------
(* search                                                                  *)

Free(t) == pc[t] \in {"idle", "done"}

StartSearch(t, q) ==
  /\ Free(t)
  /\ pc' = [pc EXCEPT ![t] = "resolve"]
  /\ arg' = [arg EXCEPT ![t] = q]
  /\ now' = [now EXCEPT ![t] = clock]
  /\ batch' = [batch EXCEPT ![t] = NoBatch]
  /\ UNCHANGED <<sourceVars, usage, cacheVars, cand>>

\* now.saturating_sub(collected_at): zero when the clock was set back.
Age(t) == IF now[t] > snapshot.at THEN now[t] - snapshot.at ELSE 0
\* Faulty: a snapshot is kept one second too long.
IsStalePastTtl(t) == ~snapshot.collected \/ Age(t) > Ttl

IsStale(t) == ~snapshot.collected \/ Age(t) >= Ttl

\* The providers are asked under the candidate lock: a refresh is one step.
Resolve(t) ==
  /\ pc[t] = "resolve"
  /\ \/ /\ IsStale(t)
        /\ snapshot' = [cand |-> world, at |-> now[t], collected |-> TRUE]
        /\ pc' = [pc EXCEPT ![t] = "clear"]
     \/ /\ ~IsStale(t)
        /\ pc' = [pc EXCEPT ![t] = "lookup"]
        /\ UNCHANGED snapshot
  /\ cand' = [cand EXCEPT ![t] = snapshot'.cand]
  /\ UNCHANGED <<clock, world, usage, cacheVars, arg, now, batch>>

\* Faulty: a refresh leaves the cached batches alone.
KeepStaleBatches(t) ==
  /\ pc[t] = "clear"
  /\ pc' = [pc EXCEPT ![t] = "lookup"]
  /\ UNCHANGED <<sourceVars, usage, cacheVars, arg, now, cand, batch>>

DropStaleBatches(t) ==
  /\ pc[t] = "clear"
  /\ ClearCache
  /\ pc' = [pc EXCEPT ![t] = "lookup"]
  /\ UNCHANGED <<sourceVars, usage, arg, now, cand, batch>>

Lookup(t) ==
  /\ pc[t] = "lookup"
  /\ \/ /\ arg[t] \in Cached
        /\ batch' = [batch EXCEPT ![t] = entries[arg[t]]]
        /\ pc' = [pc EXCEPT ![t] = "done"]
     \/ /\ arg[t] \notin Cached
        /\ pc' = [pc EXCEPT ![t] = "rank"]
        /\ UNCHANGED batch
  /\ UNCHANGED <<sourceVars, usage, cacheVars, arg, now, cand>>

Rank(t) ==
  /\ pc[t] = "rank"
  /\ batch' = [batch EXCEPT ![t] = [cand |-> cand[t], usage |-> usage, at |-> now[t]]]
  /\ pc' = [pc EXCEPT ![t] = "insert"]
  /\ UNCHANGED <<sourceVars, usage, cacheVars, arg, now, cand>>

Insert(t) ==
  /\ pc[t] = "insert"
  /\ InsertBatch(arg[t], batch[t])
  /\ pc' = [pc EXCEPT ![t] = "done"]
  /\ UNCHANGED <<sourceVars, usage, arg, now, cand, batch>>

-----------------------------------------------------------------------------
(* record_usage                                                            *)

\* handle_action reads the clock before the action runs.  It runs on the serve
\* thread, which records itself or hands the time to a capture thread.
StartRecord(t, i) ==
  /\ Free(t)
  /\ \E s \in Searchers : Free(s)
  /\ pc' = [pc EXCEPT ![t] = "record"]
  /\ arg' = [arg EXCEPT ![t] = i]
  /\ now' = [now EXCEPT ![t] = clock]
  /\ batch' = [batch EXCEPT ![t] = NoBatch]
  /\ UNCHANGED <<sourceVars, usage, cacheVars, cand>>

Launched(signal, time) ==
  [count |-> IF signal.count < MaxCount THEN signal.count + 1 ELSE MaxCount,
   last  |-> IF time > signal.last THEN time ELSE signal.last]

ApplySignal(t) ==
  /\ pc[t] = "record"
  /\ usage' = [usage EXCEPT ![arg[t]] = Launched(usage[arg[t]], now[t])]
  /\ pc' = [pc EXCEPT ![t] = "invalidate"]
  /\ UNCHANGED <<sourceVars, cacheVars, arg, now, cand, batch>>

\* Faulty: the batches stay until the candidates are collected again.
LeaveBatches(t) ==
  /\ pc[t] = "invalidate"
  /\ pc' = [pc EXCEPT ![t] = "idle"]
  /\ UNCHANGED <<sourceVars, usage, cacheVars, arg, now, cand, batch>>

InvalidateBatches(t) ==
  /\ pc[t] = "invalidate"
  /\ ClearCache
  /\ pc' = [pc EXCEPT ![t] = "idle"]
  /\ UNCHANGED <<sourceVars, usage, arg, now, cand, batch>>

-----------------------------------------------------------------------------
(* The environment: the wall clock, and what the providers would find.     *)

SetClock ==
  /\ \E time \in 0..MaxTime :
       /\ time # clock
       /\ time > clock \/ ClockStepsBack
       /\ clock' = time
  /\ UNCHANGED <<world, snapshot, usage, cacheVars, pc, arg, now, cand, batch>>

ChangeWorld ==
  /\ world < MaxWorld
  /\ world' = world + 1
  /\ UNCHANGED <<clock, snapshot, usage, cacheVars, pc, arg, now, cand, batch>>

Search(t) ==
  \/ \E q \in Queries : StartSearch(t, q)
  \/ Resolve(t)
  \/ DropStaleBatches(t)
  \/ Lookup(t)
  \/ Rank(t)
  \/ Insert(t)

Record(t) ==
  \/ \E i \in Items : StartRecord(t, i)
  \/ ApplySignal(t)
  \/ InvalidateBatches(t)

Next ==
  \/ \E t \in Searchers : Search(t)
  \/ \E t \in Threads : Record(t)
  \/ SetClock
  \/ ChangeWorld

Spec == Init /\ [][Next]_vars

-----------------------------------------------------------------------------
(* Properties                                                              *)

\* The eviction queue and the map of QueryCache stay in step: every cached key
\* is queued exactly once, nothing else is queued, and no more than CacheLimit
\* batches are kept.  Were a key lost from the queue, insert's loop would spin
\* on an empty queue with the cache lock held.
CacheWellFormed ==
  /\ Cached = {order[i] : i \in 1..Len(order)}
  /\ \A i, j \in 1..Len(order) : order[i] = order[j] => i = j
  /\ Len(order) <= CacheLimit

SoleSearcher == \A s, t \in Searchers : s = t

\* engine.rs:60-63, "callers never see results ranked over stale candidates":
\* with one searching thread, as in the daemon, every cached batch and every
\* batch about to be inserted is ranked over the snapshot now held, except
\* between a refresh and the clearing that follows it.
CandidatesFresh ==
  /\ (\A t \in Searchers : pc[t] # "clear") =>
       \A q \in Cached : entries[q].cand = snapshot.cand
  /\ \A t \in Searchers :
       /\ pc[t] \in {"clear", "lookup", "rank"} => cand[t] = snapshot.cand
       /\ pc[t] = "insert" => batch[t].cand = snapshot.cand

\* engine.rs:175-187 bounds the age of what a search returns by the time to
\* live.  With one searching thread, what a search returns is ranked over the
\* candidates held when it began or collected by it, and these had then been
\* held for less than Ttl by the wall clock; if the clock never steps back, the
\* batch was ranked after they were collected and not after the search began.
AnswerWithinTtl ==
  \A t \in Searchers :
    pc[t] = "done" =>
      /\ batch[t].cand = snapshot.cand
      /\ now[t] = snapshot.at \/ now[t] - snapshot.at < Ttl
      /\ ~ClockStepsBack => snapshot.at <= batch[t].at /\ batch[t].at <= now[t]

Reflects(q) ==
  q \in Cached /\ entries[q].usage # usage => \E t \in Threads : pc[t] = "invalidate"

PutsOvertaken(t, q) ==
  pc[t] = "insert" /\ pc'[t] = "done" /\ arg[t] = q /\ batch[t].usage # usage

\* How far engine.rs:235-237 holds with capture threads: a cached batch ranked
\* without the usage now held is on its way out, unless it was put there by a
\* search that a record overtook between its ranking and its insertion.  No
\* other order of the sections of two threads brings a stale batch about.
StaleOnlyWhenOvertaken ==
  [][\A q \in Queries :
       Reflects(q) => Reflects(q)' \/ \E t \in Searchers : PutsOvertaken(t, q)]_vars

\* engine.rs:235-237, record_usage "invalidates cached query batches so
\* subsequent searches reflect the new signal": whenever no call is in
\* progress, each cached batch was ranked with the usage signals now held.
CacheReflectsUsage ==
  (\A t \in Threads : Free(t)) => \A q \in Cached : entries[q].usage = usage
=============================================================================
