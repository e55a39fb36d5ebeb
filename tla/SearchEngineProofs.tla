------------------------- MODULE SearchEngineProofs -------------------------
(***************************************************************************)
(* What is proved of SearchEngine, for every set of threads, every cache   *)
(* limit, time to live and bound; of IndexStore, for every tree of folders *)
(* and every number of requests and changes; of FileSystemWalk, for every  *)
(* tree and every limit; and of Calculator, for every text and whatever    *)
(* its operators round to.                                                 *)
(***************************************************************************)
EXTENDS SearchEngine, DaemonIndex, DaemonWalk, DaemonCalculator, TLAPS, FiniteSetTheorems,
        SequenceTheorems, WellFoundedInduction

(* The cached keys are the queued keys, each queued once.                  *)
Queued(keys, queue) ==
  /\ keys = {queue[i] : i \in 1..Len(queue)}
  /\ \A i, j \in 1..Len(queue) : queue[i] = queue[j] => i = j

(* A queue without repetitions has as many keys as places.                 *)
LEMMA QueuedCount ==
  ASSUME NEW queue \in Seq(Queries), NEW keys, Queued(keys, queue)
  PROVE  IsFiniteSet(keys) /\ Cardinality(keys) = Len(queue)
<1> DEFINE places == 1..Len(queue)
<1>1. Len(queue) \in Nat /\ queue \in [places -> Queries]
  BY LenProperties
<1>2. IsFiniteSet(places) /\ Cardinality(places) = Len(queue)
  BY <1>1, FS_Interval
<1>3. queue \in Bijection(places, keys)
  BY <1>1 DEF Queued, Bijection, Injection, Surjection, IsInjective
<1>4. ExistsBijection(places, keys)
  BY <1>3 DEF ExistsBijection
<1>5. QED
  BY <1>2, <1>4, FS_Bijection

(* insert's loop pops once when a key was added to a full cache, and not   *)
(* at all otherwise.                                                       *)
LEMMA EvictionCount ==
  ASSUME NEW queue \in Seq(Queries), NEW keys, Queued(keys, queue),
         Len(queue) <= CacheLimit + 1
  PROVE  Evictions(keys, queue) = IF Len(queue) > CacheLimit THEN 1 ELSE 0
<1> DEFINE Left(n) == Cardinality(keys \ {queue[i] : i \in 1..n})
           Stops(n) == Left(n) <= CacheLimit /\ \A m \in 0..(n - 1) : Left(m) > CacheLimit
           count == IF Len(queue) > CacheLimit THEN 1 ELSE 0
<1>1. Len(queue) \in Nat /\ CacheLimit \in Nat
  BY LenProperties, EngineAssumption
<1>2. IsFiniteSet(keys) /\ Cardinality(keys) = Len(queue)
  BY QueuedCount
<1>3. Left(0) = Len(queue)
  <2>1. {queue[i] : i \in 1..0} = {}
    OBVIOUS
  <2>2. keys \ {queue[i] : i \in 1..0} = keys
    BY <2>1
  <2>3. QED
    BY <2>2, <1>2
<1>4. CASE Len(queue) > CacheLimit
  <2>1. queue[1] \in keys
    BY <1>1, <1>4 DEF Queued
  <2>2. {queue[i] : i \in 1..1} = {queue[1]}
    OBVIOUS
  <2>3. Left(1) = Len(queue) - 1
    BY <2>1, <2>2, <1>2, FS_RemoveElement
  <2> HIDE DEF Left
  <2>4. Stops(1)
    BY <2>3, <1>3, <1>1, <1>4
  <2>5. \A n \in 0..Len(queue) : Stops(n) => n = 1
    BY <2>3, <1>3, <1>1, <1>4
  <2>6. 1 \in 0..Len(queue)
    BY <1>1, <1>4
  <2>7. (CHOOSE n \in 0..Len(queue) : Stops(n)) = 1
    BY <2>4, <2>5, <2>6
  <2>8. QED
    BY <2>7, <1>4 DEF Evictions, Left
<1>5. CASE ~(Len(queue) > CacheLimit)
  <2> HIDE DEF Left
  <2>1. Stops(0)
    BY <1>3, <1>1, <1>5
  <2>2. \A n \in 0..Len(queue) : Stops(n) => n = 0
    BY <1>3, <1>1, <1>5
  <2>3. (CHOOSE n \in 0..Len(queue) : Stops(n)) = 0
    BY <2>1, <2>2, <1>1
  <2>4. QED
    BY <2>3, <1>5 DEF Evictions, Left
<1>6. QED
  BY <1>4, <1>5

(* What inserting a batch does to a well-formed cache.                     *)
LEMMA InsertKeepsCache ==
  ASSUME TypeOK, CacheWellFormed, NEW q \in Queries, NEW b \in Batch, InsertBatch(q, b)
  PROVE  /\ entries' \in [Queries -> Batch \cup {NoBatch}]
         /\ order' \in Seq(Queries)
         /\ CacheWellFormed'
         /\ \A k \in Queries : entries'[k] \in {NoBatch, entries[k], b}
<1>a. entries \in [Queries -> Batch \cup {NoBatch}] /\ order \in Seq(Queries)
  BY DEF TypeOK
<1>1. CASE CacheLimit = 0
  BY <1>a, <1>1 DEF InsertBatch, cacheVars, CacheWellFormed, Cached
<1>2. CASE CacheLimit # 0
  <2> DEFINE queue == IF q \in Cached THEN order ELSE Append(order, q)
             keys  == Cached \cup {q}
             n     == Evictions(keys, queue)
             gone  == {queue[i] : i \in 1..n}
             rest  == SubSeq(queue, n + 1, Len(queue))
  <2>1. CacheLimit \in Nat /\ CacheLimit > 0 /\ NoBatch \notin Batch
    BY <1>2, EngineAssumption
  <2>2. /\ queue \in Seq(Queries)
        /\ Queued(keys, queue)
        /\ Len(queue) <= CacheLimit + 1
    <3>1. CASE q \in Cached
      BY <3>1, <2>1, <1>a DEF Queued, CacheWellFormed
    <3>2. CASE q \notin Cached
      <4>1. /\ Append(order, q) \in Seq(Queries)
            /\ Len(Append(order, q)) = Len(order) + 1
            /\ \A i \in 1..Len(order) : Append(order, q)[i] = order[i]
            /\ Append(order, q)[Len(order) + 1] = q
            /\ Len(order) \in Nat
        BY <1>a
      <4>2. \A i \in 1..Len(order) : order[i] # q
        BY <3>2 DEF CacheWellFormed
      <4>3. QED
        BY <3>2, <4>1, <4>2, <2>1 DEF Queued, CacheWellFormed
    <3>3. QED
      BY <3>1, <3>2
  <2>3. n = IF Len(queue) > CacheLimit THEN 1 ELSE 0
    BY <2>2, EvictionCount
  <2>4. /\ order' = rest
        /\ entries' = [k \in Queries |-> IF k \in gone THEN NoBatch
                                         ELSE IF k = q THEN b ELSE entries[k]]
    BY <1>2 DEF InsertBatch
  <2>5. Len(queue) \in Nat /\ \A i \in 1..Len(queue) : queue[i] \in Queries
    BY <2>2
  <2> HIDE DEF queue, keys, n, rest
  <2>6. /\ rest \in Seq(Queries)
        /\ Len(rest) = Len(queue) - n
        /\ \A i \in 1..Len(rest) : rest[i] = queue[i + n]
    <3>1. n \in Int /\ \A i \in (n + 1)..Len(queue) : queue[i] \in Queries
      BY <2>3, <2>5
    <3>2. /\ rest \in Seq(Queries)
          /\ Len(rest) = IF n + 1 <= Len(queue) THEN Len(queue) - (n + 1) + 1 ELSE 0
          /\ \A i \in 1..(Len(queue) - (n + 1) + 1) : rest[i] = queue[(n + 1) + i - 1]
      BY <3>1, <2>5, SubSeqProperties DEF rest
    <3>3. n <= Len(queue)
      BY <2>1, <2>3, <2>5
    <3>4. QED
      BY <3>1, <3>2, <3>3, <2>5
  <2>7. entries' \in [Queries -> Batch \cup {NoBatch}]
    BY <2>4, <1>a
  <2>8. \A k \in Queries : entries'[k] \in {NoBatch, entries[k], b}
    BY <2>4, <1>a
  <2>9. Cached' = keys \ gone
    BY <2>4, <2>1 DEF Cached, keys
  <2>10. keys \ gone = {rest[i] : i \in 1..Len(rest)}
    <3>1. ASSUME NEW k \in keys \ gone PROVE \E i \in 1..Len(rest) : rest[i] = k
      <4>1. PICK j \in 1..Len(queue) : queue[j] = k
        BY <2>2 DEF Queued
      <4>2. j \notin 1..n
        BY <4>1
      <4>3. j - n \in 1..Len(rest) /\ rest[j - n] = k
        BY <4>1, <4>2, <2>3, <2>5, <2>6
      <4>4. QED
        BY <4>3
    <3>2. ASSUME NEW i \in 1..Len(rest) PROVE rest[i] \in keys \ gone
      <4>1. rest[i] = queue[i + n] /\ i + n \in 1..Len(queue) /\ i + n \notin 1..n
        BY <2>3, <2>5, <2>6
      <4>2. queue[i + n] \in keys
        BY <4>1, <2>2 DEF Queued
      <4>3. \A j \in 1..n : j \in 1..Len(queue)
        BY <2>3, <2>5, <2>1
      <4>4. queue[i + n] \notin gone
        BY <4>1, <4>3, <2>2 DEF Queued
      <4>5. QED
        BY <4>1, <4>2, <4>4
    <3>3. QED
      BY <3>1, <3>2
  <2>11. \A i, j \in 1..Len(rest) : rest[i] = rest[j] => i = j
    <3>1. \A i \in 1..Len(rest) : i + n \in 1..Len(queue)
      BY <2>3, <2>5, <2>6
    <3>2. ASSUME NEW i \in 1..Len(rest), NEW j \in 1..Len(rest), rest[i] = rest[j]
          PROVE  i = j
      <4>1. i + n = j + n
        BY <3>1, <3>2, <2>2, <2>6 DEF Queued
      <4>2. QED
        BY <4>1, <2>3, <2>6
    <3>3. QED
      BY <3>2
  <2>12. Len(rest) <= CacheLimit
    BY <2>1, <2>2, <2>3, <2>5, <2>6
  <2>13. QED
    <3>1. order' = rest
      BY <2>4
    <3>2. Cached' = {rest[i] : i \in 1..Len(rest)}
      BY <2>9, <2>10
    <3>3. CacheWellFormed'
      BY <3>1, <3>2, <2>11, <2>12 DEF CacheWellFormed
    <3>4. QED
      BY <3>1, <3>3, <2>6, <2>7, <2>8
<1>3. QED
  BY <1>1, <1>2

-----------------------------------------------------------------------------
LEMMA EmptyCache ==
  ASSUME ClearCache
  PROVE  /\ entries' = [q \in Queries |-> NoBatch]
         /\ order' = <<>>
         /\ order' \in Seq(Queries)
         /\ CacheWellFormed'
         /\ Cached' = {}
<1>1. Cached' = {}
  BY DEF ClearCache, Cached
<1>2. CacheLimit >= 0
  BY EngineAssumption
<1>3. QED
  BY <1>1, <1>2 DEF ClearCache, CacheWellFormed

CacheInv == TypeOK /\ CacheWellFormed

LEMMA CacheInvInit == Init => CacheInv
<1> SUFFICES ASSUME Init PROVE CacheInv
  OBVIOUS
<1>1. CacheLimit \in Nat /\ MaxCount \in Nat
  BY EngineAssumption
<1>2. TypeOK
  BY <1>1 DEF Init, TypeOK, Signal, PC, Searching, Recording
<1>3. Cached = {}
  BY DEF Init, Cached
<1>4. QED
  BY <1>1, <1>2, <1>3 DEF Init, CacheInv, CacheWellFormed

(* Every step keeps the types and the cache in order.                      *)
LEMMA CacheInvStep == CacheInv /\ [Next]_vars => CacheInv'
<1> SUFFICES ASSUME CacheInv, [Next]_vars PROVE CacheInv'
  OBVIOUS
<1> USE DEF CacheInv
<1>a. UNCHANGED cacheVars => CacheWellFormed'
  BY DEF cacheVars, CacheWellFormed, Cached
<1>b. MaxCount \in Nat \ {0} /\ MaxTime \in Nat /\ MaxWorld \in Nat
  BY EngineAssumption
<1>1. ASSUME NEW t \in Searchers, NEW q \in Queries, StartSearch(t, q)
      PROVE  CacheInv'
  BY <1>1, <1>a DEF StartSearch, TypeOK, PC, Searching, Recording, Threads,
                    sourceVars, cacheVars
<1>2. ASSUME NEW t \in Searchers, Resolve(t)
      PROVE  CacheInv'
  <2>1. snapshot' \in [cand : Nat, at : Nat, collected : BOOLEAN]
    <3>1. /\ world \in Nat /\ now[t] \in Nat
          /\ snapshot \in [cand : Nat, at : Nat, collected : BOOLEAN]
      BY DEF TypeOK, Threads
    <3>2. \/ snapshot' = [cand |-> world, at |-> now[t], collected |-> TRUE]
          \/ snapshot' = snapshot
      BY <1>2 DEF Resolve
    <3>3. CASE snapshot' = [cand |-> world, at |-> now[t], collected |-> TRUE]
      BY <3>1, <3>3
    <3>4. CASE snapshot' = snapshot
      BY <3>1, <3>4
    <3>5. QED
      BY <3>2, <3>3, <3>4
  <2>2. cand' \in [Threads -> Nat]
    BY <1>2, <2>1 DEF Resolve, TypeOK
  <2>3. pc' \in [Threads -> PC] /\ t \in Threads /\ pc[t] \in Searching
    <3>1. pc[t] = "resolve" /\ t \in Threads
      BY <1>2 DEF Resolve, Threads
    <3>2. \/ pc' = [pc EXCEPT ![t] = "clear"]
          \/ pc' = [pc EXCEPT ![t] = "lookup"]
      BY <1>2 DEF Resolve
    <3>3. QED
      BY <3>1, <3>2 DEF TypeOK, PC, Searching
  <2>4. \A s \in Threads : pc'[s] = pc[s] \/ (s = t /\ pc'[s] \in {"clear", "lookup"})
    BY <1>2 DEF Resolve, TypeOK
  <2>5. QED
    BY <1>2, <1>a, <2>1, <2>2, <2>3, <2>4
       DEF Resolve, TypeOK, Searching, Recording, cacheVars
<1>3. ASSUME NEW t \in Searchers, DropStaleBatches(t)
      PROVE  CacheInv'
  BY <1>3, EmptyCache DEF DropStaleBatches, TypeOK, PC, Searching, Recording, Threads,
                          sourceVars
<1>4. ASSUME NEW t \in Searchers, Lookup(t)
      PROVE  CacheInv'
  <2>1. CASE arg[t] \in Cached
    <3>1. entries[arg[t]] \in Batch
      BY <2>1 DEF Cached, TypeOK
    <3>2. /\ pc' = [pc EXCEPT ![t] = "done"]
          /\ batch' = [batch EXCEPT ![t] = entries[arg[t]]]
          /\ UNCHANGED <<sourceVars, usage, cacheVars, arg, now, cand>>
      BY <1>4, <2>1 DEF Lookup
    <3>3. QED
      BY <1>a, <3>1, <3>2 DEF TypeOK, PC, Searching, Recording, Threads, sourceVars,
                              cacheVars
  <2>2. CASE arg[t] \notin Cached
    BY <1>4, <1>a, <2>2 DEF Lookup, TypeOK, PC, Searching, Recording, Threads,
                            sourceVars, cacheVars
  <2>3. QED
    BY <2>1, <2>2
<1>5. ASSUME NEW t \in Searchers, Rank(t)
      PROVE  CacheInv'
  BY <1>5, <1>a DEF Rank, TypeOK, PC, Searching, Recording, Threads, sourceVars,
                    cacheVars, Batch
<1>6. ASSUME NEW t \in Searchers, Insert(t)
      PROVE  CacheInv'
  <2>1. arg[t] \in Queries /\ batch[t] \in Batch
    BY <1>6 DEF Insert, TypeOK, Searching, Threads
  <2>2. InsertBatch(arg[t], batch[t])
    BY <1>6 DEF Insert
  <2>3. /\ entries' \in [Queries -> Batch \cup {NoBatch}]
        /\ order' \in Seq(Queries)
        /\ CacheWellFormed'
    BY <2>1, <2>2, InsertKeepsCache
  <2>4. TypeOK'
    BY <1>6, <2>1, <2>3 DEF Insert, TypeOK, PC, Searching, Recording, Threads, sourceVars
  <2>5. QED
    BY <2>3, <2>4
<1>7. ASSUME NEW t \in Threads, NEW i \in Items, StartRecord(t, i)
      PROVE  CacheInv'
  BY <1>7, <1>a DEF StartRecord, TypeOK, PC, Searching, Recording, sourceVars, cacheVars
<1>8. ASSUME NEW t \in Threads, ApplySignal(t)
      PROVE  CacheInv'
  <2>1. arg[t] \in Items /\ now[t] \in Nat
    BY <1>8 DEF ApplySignal, TypeOK, Recording
  <2>2. \A signal \in Signal : Launched(signal, now[t]) \in Signal
    BY <2>1, <1>b DEF Launched, Signal
  <2>3. usage' \in [Items -> Signal]
    BY <1>8, <2>1, <2>2 DEF ApplySignal, TypeOK
  <2>4. QED
    BY <1>8, <1>a, <2>3 DEF ApplySignal, TypeOK, PC, Searching, Recording, sourceVars,
                            cacheVars
<1>9. ASSUME NEW t \in Threads, InvalidateBatches(t)
      PROVE  CacheInv'
  BY <1>9, EmptyCache DEF InvalidateBatches, TypeOK, PC, Searching, Recording, sourceVars
<1>10. CASE SetClock
  BY <1>10, <1>a, <1>b DEF SetClock, TypeOK, cacheVars
<1>11. CASE ChangeWorld
  BY <1>11, <1>a, <1>b DEF ChangeWorld, TypeOK, cacheVars
<1>12. CASE UNCHANGED vars
  BY <1>12, <1>a DEF vars, TypeOK, cacheVars
<1>13. QED
  BY <1>1, <1>2, <1>3, <1>4, <1>5, <1>6, <1>7, <1>8, <1>9, <1>10, <1>11, <1>12
     DEF Next, Search, Record

(* The types hold, and the query cache's queue and map never disagree nor  *)
(* outgrow the limit, however many threads search and record: insert's     *)
(* eviction loop always ends.                                              *)
THEOREM CacheSafe == Spec => [](TypeOK /\ CacheWellFormed)
<1>1. QED
  BY CacheInvInit, CacheInvStep, PTL DEF Spec, CacheInv

-----------------------------------------------------------------------------
(* One searching thread: no batch in the cache was ranked over candidates  *)
(* that have since been replaced, except while the refresh that replaced   *)
(* them has not yet cleared the cache.  Capture threads do not matter.     *)
THEOREM FreshCandidates ==
  ASSUME SoleSearcher
  PROVE  Spec => []CandidatesFresh
<1>1. Init => CandidatesFresh
  BY DEF Init, CandidatesFresh, Cached, Threads
<1>2. CandidatesFresh /\ CacheInv /\ [Next]_vars => CandidatesFresh'
  <2> SUFFICES ASSUME CandidatesFresh, CacheInv, [Next]_vars PROVE CandidatesFresh'
    OBVIOUS
  <2>0. /\ pc \in [Threads -> PC] /\ cand \in [Threads -> Nat]
        /\ batch \in [Threads -> Batch \cup {NoBatch}]
    BY DEF CacheInv, TypeOK
  <2>1. ASSUME NEW t \in Searchers, NEW q \in Queries, StartSearch(t, q)
        PROVE  CandidatesFresh'
    <3>1. pc' = [pc EXCEPT ![t] = "resolve"] /\ pc[t] # "clear"
      BY <2>1 DEF StartSearch, Free
    <3>2. UNCHANGED <<snapshot, entries, cand>> /\ batch' = [batch EXCEPT ![t] = NoBatch]
      BY <2>1 DEF StartSearch, sourceVars, cacheVars
    <3>3. QED
      BY <2>0, <3>1, <3>2 DEF CandidatesFresh, Cached, Threads
  <2>2. ASSUME NEW t \in Searchers, Resolve(t)
        PROVE  CandidatesFresh'
    <3>1. cand'[t] = snapshot'.cand /\ pc'[t] \in {"clear", "lookup"} /\ t \in Threads
      BY <2>0, <2>2 DEF Resolve, Threads
    <3>2. pc'[t] # "clear" => pc[t] # "clear" /\ UNCHANGED <<snapshot, entries>>
      BY <2>0, <2>2 DEF Resolve, cacheVars, Threads
    <3>3. QED
      BY <3>1, <3>2 DEF CandidatesFresh, SoleSearcher, Cached
  <2>3. ASSUME NEW t \in Searchers, DropStaleBatches(t)
        PROVE  CandidatesFresh'
    BY <2>0, <2>3, EmptyCache DEF DropStaleBatches, CandidatesFresh, Threads, sourceVars
  <2>4. ASSUME NEW t \in Searchers, Lookup(t)
        PROVE  CandidatesFresh'
    BY <2>0, <2>4 DEF Lookup, CandidatesFresh, Cached, Threads, sourceVars, cacheVars
  <2>5. ASSUME NEW t \in Searchers, Rank(t)
        PROVE  CandidatesFresh'
    <3>1. batch'[t].cand = snapshot'.cand
      BY <2>0, <2>5 DEF Rank, CandidatesFresh, Threads, sourceVars
    <3>2. pc' = [pc EXCEPT ![t] = "insert"] /\ \A s \in Searchers : s = t
      BY <2>5 DEF Rank, SoleSearcher
    <3>3. QED
      BY <2>0, <2>5, <3>1, <3>2
         DEF Rank, CandidatesFresh, Cached, Threads, sourceVars, cacheVars
  <2>6. ASSUME NEW t \in Searchers, Insert(t)
        PROVE  CandidatesFresh'
    <3>1. arg[t] \in Queries /\ batch[t] \in Batch
      BY <2>6 DEF Insert, CacheInv, TypeOK, Searching, Threads
    <3>2. \A q \in Queries : entries'[q] \in {NoBatch, entries[q], batch[t]}
      BY <2>6, <3>1, InsertKeepsCache DEF Insert, CacheInv
    <3>3. \A s \in Searchers : pc[s] # "clear"
      BY <2>6 DEF Insert, SoleSearcher
    <3>4. batch[t].cand = snapshot.cand /\ UNCHANGED snapshot
      BY <2>6 DEF Insert, CandidatesFresh, sourceVars
    <3>5. \A q \in Cached' : entries'[q].cand = snapshot'.cand
      BY <3>2, <3>3, <3>4 DEF CandidatesFresh, Cached
    <3>6. pc'[t] = "done" /\ \A s \in Searchers : s = t
      BY <2>0, <2>6 DEF Insert, Threads, SoleSearcher
    <3>7. QED
      BY <3>5, <3>6 DEF CandidatesFresh
  <2>7. ASSUME NEW t \in Threads, NEW i \in Items, StartRecord(t, i)
        PROVE  CandidatesFresh'
    BY <2>0, <2>7 DEF StartRecord, Free, CandidatesFresh, Cached, Threads, sourceVars,
                      cacheVars
  <2>8. ASSUME NEW t \in Threads, ApplySignal(t)
        PROVE  CandidatesFresh'
    BY <2>0, <2>8 DEF ApplySignal, CandidatesFresh, Cached, Threads, sourceVars, cacheVars
  <2>9. ASSUME NEW t \in Threads, InvalidateBatches(t)
        PROVE  CandidatesFresh'
    BY <2>0, <2>9, EmptyCache DEF InvalidateBatches, CandidatesFresh, Threads, sourceVars
  <2>10. CASE SetClock
    BY <2>10 DEF SetClock, CandidatesFresh, Cached, cacheVars
  <2>11. CASE ChangeWorld
    BY <2>11 DEF ChangeWorld, CandidatesFresh, Cached, cacheVars
  <2>12. CASE UNCHANGED vars
    BY <2>12 DEF vars, CandidatesFresh, Cached
  <2>13. QED
    BY <2>1, <2>2, <2>3, <2>4, <2>5, <2>6, <2>7, <2>8, <2>9, <2>10, <2>11, <2>12
       DEF Next, Search, Record
<1>3. QED
  BY <1>1, <1>2, CacheSafe, PTL DEF Spec, CacheInv

-----------------------------------------------------------------------------
(* The cache is emptied by every record before its thread goes on, and a   *)
(* batch enters it only by Insert: a cached batch that misses a signal is  *)
(* about to be dropped, or was put there by a search that was overtaken.   *)
THEOREM StaleBatchesWereOvertaken == Spec => StaleOnlyWhenOvertaken
<1> DEFINE Kept == \A q \in Queries :
                     Reflects(q) => Reflects(q)' \/ \E t \in Searchers : PutsOvertaken(t, q)
<1>1. CacheInv /\ [Next]_vars => [Kept]_vars
  <2> SUFFICES ASSUME CacheInv, Next, NEW q \in Queries, Reflects(q)
               PROVE  Reflects(q)' \/ \E t \in Searchers : PutsOvertaken(t, q)
    OBVIOUS
  <2>0. /\ pc \in [Threads -> PC]
        /\ Searchers \subseteq Threads
    BY DEF CacheInv, TypeOK, Threads
  <2>a. ASSUME UNCHANGED <<usage, entries>>,
               \A s \in Threads : pc[s] = "invalidate" => pc'[s] = "invalidate"
        PROVE  Reflects(q)'
    BY <2>a DEF Reflects, Cached
  <2>1. ASSUME NEW t \in Searchers, NEW k \in Queries, StartSearch(t, k)
        PROVE  Reflects(q)'
    <3>1. pc' = [pc EXCEPT ![t] = "resolve"] /\ pc[t] # "invalidate"
      BY <2>1 DEF StartSearch, Free
    <3>2. UNCHANGED <<usage, entries>>
      BY <2>1 DEF StartSearch, cacheVars
    <3>3. QED
      BY <2>0, <2>a, <3>1, <3>2
  <2>2. ASSUME NEW t \in Searchers, Resolve(t) \/ Lookup(t) \/ Rank(t)
        PROVE  Reflects(q)'
    <3>1. \E place \in PC : pc' = [pc EXCEPT ![t] = place]
      BY <2>2 DEF Resolve, Lookup, Rank, PC, Searching
    <3>2. UNCHANGED <<usage, entries>> /\ pc[t] # "invalidate"
      BY <2>2 DEF Resolve, Lookup, Rank, cacheVars
    <3>3. QED
      BY <2>0, <2>a, <3>1, <3>2
  <2>3. ASSUME NEW t \in Threads, DropStaleBatches(t) \/ InvalidateBatches(t)
        PROVE  Reflects(q)'
    BY <2>3, EmptyCache DEF DropStaleBatches, InvalidateBatches, Reflects
  <2>4. ASSUME NEW t \in Searchers, Insert(t)
        PROVE  Reflects(q)' \/ PutsOvertaken(t, q)
    <3>1. arg[t] \in Queries /\ batch[t] \in Batch
      BY <2>0, <2>4 DEF Insert, CacheInv, TypeOK, Searching
    <3>2. entries'[q] \in {NoBatch, entries[q]} \/ (q = arg[t] /\ entries'[q] = batch[t])
      <4>1. entries'[q] \in {NoBatch, entries[q], batch[t]}
        BY <2>4, <3>1, InsertKeepsCache DEF Insert, CacheInv
      <4>2. q # arg[t] => entries'[q] \in {NoBatch, entries[q]}
        BY <2>4 DEF Insert, InsertBatch, cacheVars
      <4>3. QED
        BY <4>1, <4>2
    <3>3. /\ pc[t] = "insert" /\ pc' = [pc EXCEPT ![t] = "done"]
          /\ UNCHANGED usage
      BY <2>4 DEF Insert
    <3>4. \A s \in Threads : pc[s] = "invalidate" => pc'[s] = "invalidate"
      BY <2>0, <3>3
    <3>5. CASE entries'[q] \in {NoBatch, entries[q]}
      BY <3>3, <3>4, <3>5 DEF Reflects, Cached
    <3>6. CASE q = arg[t] /\ entries'[q] = batch[t]
      BY <2>0, <3>3, <3>6 DEF Reflects, PutsOvertaken, Cached
    <3>7. QED
      BY <3>2, <3>5, <3>6
  <2>5. ASSUME NEW t \in Threads, NEW i \in Items, StartRecord(t, i)
        PROVE  Reflects(q)'
    <3>1. pc' = [pc EXCEPT ![t] = "record"] /\ pc[t] # "invalidate"
      BY <2>5 DEF StartRecord, Free
    <3>2. UNCHANGED <<usage, entries>>
      BY <2>5 DEF StartRecord, cacheVars
    <3>3. QED
      BY <2>0, <2>a, <3>1, <3>2
  <2>6. ASSUME NEW t \in Threads, ApplySignal(t)
        PROVE  Reflects(q)'
    <3>1. pc'[t] = "invalidate"
      BY <2>0, <2>6 DEF ApplySignal
    <3>2. QED
      BY <3>1 DEF Reflects
  <2>7. CASE SetClock \/ ChangeWorld
    <3>1. UNCHANGED <<usage, entries, pc>>
      BY <2>7 DEF SetClock, ChangeWorld, cacheVars
    <3>2. QED
      BY <2>a, <3>1
  <2>8. QED
    BY <2>0, <2>1, <2>2, <2>3, <2>4, <2>5, <2>6, <2>7 DEF Next, Search, Record
<1>2. QED
  BY <1>1, CacheSafe, PTL DEF Spec, CacheInv, StaleOnlyWhenOvertaken, Kept

-----------------------------------------------------------------------------
(* Where the times of one searching thread lie when the clock never steps  *)
(* back: snapshot, then the cached batches, then the search, then now.     *)
AnswersInOrder ==
  \A t \in Searchers :
    pc[t] = "done" => snapshot.at <= batch[t].at /\ batch[t].at <= now[t]

TtlInv ==
  /\ snapshot.at <= clock
  /\ \A t \in Threads : now[t] <= clock
  /\ (\A t \in Searchers : pc[t] # "clear") =>
       \A q \in Cached : snapshot.at <= entries[q].at /\ entries[q].at <= clock
  /\ \A t \in Searchers :
       /\ pc[t] \in Searching => snapshot.at <= now[t]
       /\ pc[t] \in {"resolve", "lookup"} => \A q \in Cached : entries[q].at <= now[t]
       /\ pc[t] = "clear" => now[t] = snapshot.at
       /\ pc[t] = "insert" => batch[t].at = now[t]
  /\ AnswersInOrder

LEMMA TimesInOrder ==
  ASSUME SoleSearcher, ~ClockStepsBack
  PROVE  Spec => []AnswersInOrder
<1>1. Init => TtlInv
  BY DEF Init, TtlInv, Cached, Threads, Searching, AnswersInOrder
<1>2. TtlInv /\ CacheInv /\ [Next]_vars => TtlInv'
  <2> SUFFICES ASSUME TtlInv, CacheInv, [Next]_vars PROVE TtlInv'
    OBVIOUS
  <2>0. /\ pc \in [Threads -> PC] /\ now \in [Threads -> Nat]
        /\ batch \in [Threads -> Batch \cup {NoBatch}]
        /\ entries \in [Queries -> Batch \cup {NoBatch}]
        /\ clock \in Nat /\ snapshot.at \in Nat /\ Ttl \in Nat /\ MaxTime \in Nat
        /\ \A b \in Batch : b.at \in Nat
    BY EngineAssumption DEF CacheInv, TypeOK, Batch
  <2>1. ASSUME NEW t \in Searchers, NEW q \in Queries, StartSearch(t, q)
        PROVE  TtlInv'
    <3>1. /\ pc' = [pc EXCEPT ![t] = "resolve"] /\ pc[t] \in {"idle", "done"}
          /\ now' = [now EXCEPT ![t] = clock]
          /\ batch' = [batch EXCEPT ![t] = NoBatch]
          /\ UNCHANGED <<clock, snapshot, entries>>
      BY <2>1 DEF StartSearch, Free, sourceVars, cacheVars
    <3>2. QED
      BY <2>0, <3>1 DEF TtlInv, Cached, Threads, Searching, SoleSearcher, AnswersInOrder
  <2>2. ASSUME NEW t \in Searchers, Resolve(t)
        PROVE  TtlInv'
    <3>0. t \in Threads /\ pc[t] = "resolve"
          /\ UNCHANGED <<clock, entries, now, batch>> /\ \A s \in Searchers : s = t
      BY <2>2 DEF Resolve, cacheVars, Threads, SoleSearcher
    <3>1. CASE IsStale(t)
      <4>1. pc' = [pc EXCEPT ![t] = "clear"] /\ snapshot'.at = now[t]
        BY <2>2, <3>1 DEF Resolve
      <4>2. QED
        BY <2>0, <3>0, <4>1 DEF TtlInv, Searching, AnswersInOrder
    <3>2. CASE ~IsStale(t)
      <4>1. pc' = [pc EXCEPT ![t] = "lookup"] /\ snapshot' = snapshot
        BY <2>2, <3>2 DEF Resolve
      <4>2. now[t] = snapshot.at \/ now[t] - snapshot.at < Ttl
        BY <2>0, <3>0, <3>2 DEF TtlInv, IsStale, Age, Searching
      <4>3. QED
        BY <2>0, <3>0, <4>1, <4>2 DEF TtlInv, Cached, Searching, AnswersInOrder
    <3>3. QED
      BY <3>1, <3>2
  <2>3. ASSUME NEW t \in Searchers, DropStaleBatches(t)
        PROVE  TtlInv'
    <3>1. /\ pc' = [pc EXCEPT ![t] = "lookup"] /\ pc[t] = "clear"
          /\ UNCHANGED <<clock, snapshot, now, batch>> /\ Cached' = {}
          /\ \A s \in Searchers : s = t
      BY <2>3, EmptyCache DEF DropStaleBatches, sourceVars, SoleSearcher
    <3>2. QED
      BY <2>0, <3>1 DEF TtlInv, Searching, AnswersInOrder, Threads
  <2>4. ASSUME NEW t \in Searchers, Lookup(t)
        PROVE  TtlInv'
    <3>1. /\ pc[t] = "lookup" /\ t \in Threads
          /\ UNCHANGED <<clock, snapshot, now, entries>>
          /\ \A s \in Searchers : s = t
      BY <2>4 DEF Lookup, sourceVars, cacheVars, SoleSearcher, Threads
    <3>2. CASE arg[t] \in Cached
      <4>1. pc' = [pc EXCEPT ![t] = "done"] /\ batch' = [batch EXCEPT ![t] = entries[arg[t]]]
        BY <2>4, <3>2 DEF Lookup
      <4>2. entries[arg[t]].at \in Nat
        BY <2>0, <3>2 DEF Cached
      <4>3. /\ snapshot.at <= entries[arg[t]].at
            /\ entries[arg[t]].at <= now[t]
        BY <3>1, <3>2 DEF TtlInv
      <4>4. AnswersInOrder'
        BY <2>0, <3>1, <4>1, <4>2, <4>3 DEF AnswersInOrder
      <4>5. QED
        BY <2>0, <3>1, <4>1, <4>4 DEF TtlInv, Searching, Cached
    <3>3. CASE arg[t] \notin Cached
      <4>1. pc' = [pc EXCEPT ![t] = "rank"] /\ batch' = batch
        BY <2>4, <3>3 DEF Lookup
      <4>2. QED
        BY <2>0, <3>1, <4>1 DEF TtlInv, Searching, Cached, AnswersInOrder
    <3>4. QED
      BY <3>2, <3>3
  <2>5. ASSUME NEW t \in Searchers, Rank(t)
        PROVE  TtlInv'
    <3>1. /\ pc[t] = "rank" /\ pc' = [pc EXCEPT ![t] = "insert"]
          /\ UNCHANGED <<clock, snapshot, now, entries>> /\ batch'[t].at = now[t]
          /\ \A s \in Searchers : s = t
      BY <2>0, <2>5 DEF Rank, sourceVars, cacheVars, SoleSearcher, Threads
    <3>2. QED
      BY <2>0, <3>1 DEF TtlInv, Searching, Cached, Threads, AnswersInOrder
  <2>6. ASSUME NEW t \in Searchers, Insert(t)
        PROVE  TtlInv'
    <3>1. arg[t] \in Queries /\ batch[t] \in Batch
      BY <2>6 DEF Insert, CacheInv, TypeOK, Searching, Threads
    <3>2. \A q \in Queries : entries'[q] \in {NoBatch, entries[q], batch[t]}
      BY <2>6, <3>1, InsertKeepsCache DEF Insert, CacheInv
    <3>3. /\ pc[t] = "insert" /\ pc' = [pc EXCEPT ![t] = "done"]
          /\ UNCHANGED <<clock, snapshot, now, batch>>
          /\ \A s \in Searchers : s = t
      BY <2>6 DEF Insert, sourceVars, SoleSearcher
    <3>4. batch[t].at = now[t] /\ snapshot.at <= now[t] /\ now[t] <= clock
      BY <3>3 DEF TtlInv, Searching, Threads
    <3>5. \A q \in Cached' : snapshot.at <= entries'[q].at /\ entries'[q].at <= clock
      BY <3>2, <3>3, <3>4 DEF TtlInv, Cached
    <3>6. QED
      BY <2>0, <3>3, <3>4, <3>5 DEF TtlInv, Searching, Threads, AnswersInOrder
  <2>7. ASSUME NEW t \in Threads, NEW i \in Items, StartRecord(t, i)
        PROVE  TtlInv'
    <3>1. /\ pc' = [pc EXCEPT ![t] = "record"] /\ pc[t] \in {"idle", "done"}
          /\ now' = [now EXCEPT ![t] = clock]
          /\ batch' = [batch EXCEPT ![t] = NoBatch]
          /\ UNCHANGED <<clock, snapshot, entries>>
      BY <2>7 DEF StartRecord, Free, sourceVars, cacheVars
    <3>2. QED
      BY <2>0, <3>1 DEF TtlInv, Cached, Threads, Searching, AnswersInOrder
  <2>8. ASSUME NEW t \in Threads, ApplySignal(t)
        PROVE  TtlInv'
    <3>1. /\ pc' = [pc EXCEPT ![t] = "invalidate"] /\ pc[t] = "record"
          /\ UNCHANGED <<clock, snapshot, entries, now, batch>>
      BY <2>8 DEF ApplySignal, sourceVars, cacheVars
    <3>2. QED
      BY <2>0, <3>1 DEF TtlInv, Cached, Threads, Searching, AnswersInOrder
  <2>9. ASSUME NEW t \in Threads, InvalidateBatches(t)
        PROVE  TtlInv'
    <3>1. /\ pc' = [pc EXCEPT ![t] = "idle"] /\ pc[t] = "invalidate"
          /\ UNCHANGED <<clock, snapshot, now, batch>> /\ Cached' = {}
      BY <2>9, EmptyCache DEF InvalidateBatches, sourceVars
    <3>2. QED
      BY <2>0, <3>1 DEF TtlInv, Threads, Searching, AnswersInOrder
  <2>10. CASE SetClock
    <3>1. /\ clock' \in Nat /\ clock < clock'
          /\ UNCHANGED <<snapshot, entries, pc, now, batch>>
      BY <2>0, <2>10 DEF SetClock, cacheVars
    <3>2. QED
      BY <2>0, <3>1 DEF TtlInv, Cached, AnswersInOrder
  <2>11. CASE ChangeWorld
    BY <2>11 DEF ChangeWorld, TtlInv, Cached, AnswersInOrder, cacheVars
  <2>12. CASE UNCHANGED vars
    BY <2>12 DEF vars, TtlInv, Cached, AnswersInOrder
  <2>13. QED
    BY <2>1, <2>2, <2>3, <2>4, <2>5, <2>6, <2>7, <2>8, <2>9, <2>10, <2>11, <2>12
       DEF Next, Search, Record
<1>3. TtlInv => AnswersInOrder
  BY DEF TtlInv
<1>4. QED
  BY <1>1, <1>2, <1>3, CacheSafe, PTL DEF Spec, CacheInv

-----------------------------------------------------------------------------
(* However the clock moves, the thread goes on from Resolve with           *)
(* candidates that are not stale at the time it read.                      *)
AgeInv ==
  \A t \in Searchers :
    /\ pc[t] = "clear" => now[t] = snapshot.at
    /\ pc[t] \in {"lookup", "rank", "insert", "done"} =>
         now[t] = snapshot.at \/ now[t] - snapshot.at < Ttl
    /\ pc[t] = "done" => batch[t].cand = snapshot.cand

(* One searching thread: what a search returns is ranked over candidates   *)
(* held for less than Ttl when it began, or collected by it, also when the *)
(* clock is set back under it; while it is not, the batch was ranked after *)
(* they were collected.                                                    *)
THEOREM AnswersAreRecent ==
  ASSUME SoleSearcher
  PROVE  Spec => []AnswerWithinTtl
<1>1. Init => AgeInv
  BY DEF Init, AgeInv, Threads
<1>2. AgeInv /\ CandidatesFresh /\ CacheInv /\ [Next]_vars => AgeInv'
  <2> SUFFICES ASSUME AgeInv, CandidatesFresh, CacheInv, [Next]_vars PROVE AgeInv'
    OBVIOUS
  <2>0. /\ pc \in [Threads -> PC] /\ now \in [Threads -> Nat]
        /\ batch \in [Threads -> Batch \cup {NoBatch}]
        /\ snapshot.at \in Nat /\ Ttl \in Nat
        /\ Searchers \subseteq Threads
    BY EngineAssumption DEF CacheInv, TypeOK, Threads
  <2>1. ASSUME NEW t \in Searchers, NEW q \in Queries, StartSearch(t, q)
        PROVE  AgeInv'
    <3>1. pc' = [pc EXCEPT ![t] = "resolve"] /\ UNCHANGED snapshot
      BY <2>1 DEF StartSearch, sourceVars
    <3>2. \A s \in Searchers : s = t
      BY DEF SoleSearcher
    <3>3. QED
      BY <2>0, <3>1, <3>2 DEF AgeInv
  <2>2. ASSUME NEW t \in Searchers, Resolve(t)
        PROVE  AgeInv'
    <3>0. /\ UNCHANGED now
          /\ \A s \in Searchers : s = t
      BY <2>2 DEF Resolve, SoleSearcher
    <3>1. CASE IsStale(t)
      <4>1. pc' = [pc EXCEPT ![t] = "clear"] /\ snapshot'.at = now[t]
        BY <2>2, <3>1 DEF Resolve
      <4>2. QED
        BY <2>0, <3>0, <4>1 DEF AgeInv
    <3>2. CASE ~IsStale(t)
      <4>1. pc' = [pc EXCEPT ![t] = "lookup"] /\ UNCHANGED snapshot
        BY <2>2, <3>2 DEF Resolve
      <4>2. now[t] = snapshot.at \/ now[t] - snapshot.at < Ttl
        BY <2>0, <3>2 DEF IsStale, Age
      <4>3. QED
        BY <2>0, <3>0, <4>1, <4>2 DEF AgeInv
    <3>3. QED
      BY <3>1, <3>2
  <2>3. ASSUME NEW t \in Searchers, DropStaleBatches(t) \/ Rank(t)
        PROVE  AgeInv'
    <3>1. /\ UNCHANGED <<now, snapshot>>
          /\ \A s \in Searchers : s = t
      BY <2>3 DEF DropStaleBatches, Rank, sourceVars, SoleSearcher
    <3>2. CASE DropStaleBatches(t)
      BY <2>0, <3>1, <3>2 DEF AgeInv, DropStaleBatches
    <3>3. CASE Rank(t)
      BY <2>0, <3>1, <3>3 DEF AgeInv, Rank
    <3>4. QED
      BY <2>3, <3>2, <3>3
  <2>4. ASSUME NEW t \in Searchers, Lookup(t)
        PROVE  AgeInv'
    <3>1. /\ pc[t] = "lookup"
          /\ UNCHANGED <<now, snapshot>>
          /\ \A s \in Searchers : s = t
      BY <2>4 DEF Lookup, sourceVars, SoleSearcher
    <3>2. CASE arg[t] \in Cached
      <4>1. pc' = [pc EXCEPT ![t] = "done"] /\ batch' = [batch EXCEPT ![t] = entries[arg[t]]]
        BY <2>4, <3>2 DEF Lookup
      <4>2. entries[arg[t]].cand = snapshot.cand
        BY <3>1, <3>2 DEF CandidatesFresh
      <4>3. QED
        BY <2>0, <3>1, <4>1, <4>2 DEF AgeInv
    <3>3. CASE arg[t] \notin Cached
      BY <2>0, <2>4, <3>1, <3>3 DEF AgeInv, Lookup
    <3>4. QED
      BY <3>2, <3>3
  <2>5. ASSUME NEW t \in Searchers, Insert(t)
        PROVE  AgeInv'
    <3>1. /\ pc[t] = "insert" /\ pc' = [pc EXCEPT ![t] = "done"]
          /\ UNCHANGED <<now, snapshot, batch>>
          /\ \A s \in Searchers : s = t
      BY <2>5 DEF Insert, sourceVars, SoleSearcher
    <3>2. batch[t].cand = snapshot.cand
      BY <3>1 DEF CandidatesFresh
    <3>3. QED
      BY <2>0, <3>1, <3>2 DEF AgeInv
  <2>6. ASSUME NEW t \in Threads, NEW i \in Items, StartRecord(t, i)
        PROVE  AgeInv'
    <3>1. /\ pc' = [pc EXCEPT ![t] = "record"] /\ UNCHANGED snapshot
          /\ \A s \in Threads : s # t => now'[s] = now[s] /\ batch'[s] = batch[s]
      BY <2>0, <2>6 DEF StartRecord, sourceVars
    <3>2. QED
      BY <2>0, <3>1 DEF AgeInv
  <2>7. ASSUME NEW t \in Threads, ApplySignal(t) \/ InvalidateBatches(t)
        PROVE  AgeInv'
    <3>1. UNCHANGED <<now, snapshot, batch>>
      BY <2>7 DEF ApplySignal, InvalidateBatches, sourceVars
    <3>2. pc' \in {[pc EXCEPT ![t] = "invalidate"], [pc EXCEPT ![t] = "idle"]}
      BY <2>7 DEF ApplySignal, InvalidateBatches
    <3>3. QED
      BY <2>0, <3>1, <3>2 DEF AgeInv
  <2>8. CASE SetClock \/ ChangeWorld \/ UNCHANGED vars
    BY <2>8 DEF SetClock, ChangeWorld, vars, AgeInv
  <2>9. QED
    BY <2>1, <2>2, <2>3, <2>4, <2>5, <2>6, <2>7, <2>8 DEF Next, Search, Record
<1>3. Spec => []AgeInv
  BY <1>1, <1>2, CacheSafe, FreshCandidates, PTL DEF Spec, CacheInv
<1>4. CASE ClockStepsBack
  <2>1. AgeInv => AnswerWithinTtl
    BY <1>4 DEF AgeInv, AnswerWithinTtl
  <2>2. QED
    BY <1>3, <2>1, PTL
<1>5. CASE ~ClockStepsBack
  <2>1. AgeInv /\ AnswersInOrder => AnswerWithinTtl
    BY DEF AgeInv, AnswersInOrder, AnswerWithinTtl
  <2>2. QED
    BY <1>3, <1>5, <2>1, TimesInOrder, PTL
<1>6. QED
  BY <1>4, <1>5

-----------------------------------------------------------------------------
(***************************************************************************)
(* The file index.  The search engine and the index do not interact; what  *)
(* is proved here is proved of IndexStore alone.                           *)
(***************************************************************************)

Requests == [op : {"refresh", "upsert", "delete"}, items : [Nodes -> Index!Rows]]
Snapshots == [rows : [Nodes -> Index!Rows], stamp : 0..MaxRequests]

(* A request is under way in just the places of its kind, and is answered  *)
(* in the end and not before.                                              *)
Refreshing == at \in {"beginning", "writing", "touching", "committing"}
RequestInv ==
  /\ at \in {"idle", "walking"} <=> request = Idle
  /\ request # Idle => request \in Requests
  /\ Refreshing => request.op = "refresh"
  /\ at = "upserting" => request.op = "upsert"
  /\ at \in {"deleting", "stamping"} => request.op = "delete"
  /\ at = "returning" => answer # "none"
  /\ at \notin {"idle", "walking", "returning"} => answer = "none"
  /\ at = "walking" => asked < MaxRequests

(* The transaction of a refresh holds the items written so far over what   *)
(* is stored; a deletion that is stored has removed its row.               *)
TxnInv ==
  /\ at \in {"writing", "touching", "committing"} =>
       /\ txn # NoTxn
       /\ left \subseteq Index!Asked
       /\ txn.rows = [n \in Nodes |->
                    IF n \in Index!Asked \ left THEN request.items[n] ELSE rows[n]]
  /\ at \in {"touching", "committing"} => left = {}
  /\ at = "committing" => txn.stamp = asked
  /\ at = "stamping" /\ txn = NoTxn => \A n \in Index!Asked : rows[n] = NoRow

StoreInv == Index!TypeOK /\ RequestInv /\ TxnInv

-----------------------------------------------------------------------------

(* The types, in parts.                                                    *)
Database ==
  /\ rows \in [Nodes -> Index!Rows] /\ stamp \in 0..MaxRequests
  /\ txn \in Snapshots \cup {NoTxn}
Whereabouts ==
  /\ at \in {"idle", "walking", "beginning", "writing", "touching", "committing", "upserting",
             "deleting", "stamping", "returning"}
  /\ left \subseteq Nodes
  /\ answer \in {"none", "ok", "error"} /\ asked \in 0..MaxRequests
Disk ==
  /\ disk \in [Nodes -> Index!Rows] /\ changes \in 0..MaxChanges
  /\ found \in [Nodes -> Index!Rows] /\ visited \subseteq Nodes
Since == there \subseteq Nodes /\ same \subseteq Nodes

LEMMA TypeParts == Index!TypeOK <=> Database /\ Whereabouts /\ Disk /\ Since
  BY Zenon DEF Index!TypeOK, Database, Whereabouts, Disk, Since, Snapshots
LEMMA TypePartsPrime == Index!TypeOK' <=> Database' /\ Whereabouts' /\ Disk' /\ Since'
  BY Zenon DEF Index!TypeOK, Database, Whereabouts, Disk, Since, Snapshots

LEMMA StoreInit == ASSUME Index!StoreAssumption, Index!Init PROVE StoreInv
<1> USE DEF Index!Init, Index!StoreAssumption, Index!None, Index!Rows
<1>1. Database
  BY DEF Database
<1>2. Whereabouts /\ Disk
  BY DEF Whereabouts, Disk
<1>3. Since
  BY DEF Since
<1>4. Index!TypeOK
  BY <1>1, <1>2, <1>3, TypeParts
<1>5. RequestInv /\ TxnInv
  BY DEF RequestInv, TxnInv, Refreshing
<1>6. QED
  BY <1>4, <1>5 DEF StoreInv

(* The walk and the disk leave the store alone.                            *)
LEMMA WalkType ==
  ASSUME Index!StoreAssumption, StoreInv,
         Index!StartRefresh \/ Index!VisitEntry \/ Index!LeaveFolder \/ Index!PassOver
         \/ Index!DiskChanges
  PROVE  /\ Disk' /\ Since'
         /\ UNCHANGED <<rows, stamp, txn, left, request, answer, asked>>
         /\ \/ UNCHANGED at
            \/ at = "idle" /\ at' = "walking" /\ asked < MaxRequests
<1> USE DEF Index!StoreAssumption, StoreInv
<1>0. Disk /\ Since
  BY TypeParts
<1>1. CASE Index!StartRefresh
  BY <1>0, <1>1 DEF Index!StartRefresh, Disk, Since, Index!None, Index!Rows, Index!diskVars
<1>2. CASE Index!VisitEntry
  <2>0. PICK n \in Index!Entries(Index!Innermost) : \E modified \in {disk[n], 0} :
          /\ visited' = visited \cup {n}
          /\ found' = [found EXCEPT ![n] = modified]
          /\ same' = IF modified = disk[n] THEN same ELSE same \ {n}
    BY <1>2, Zenon DEF Index!VisitEntry
  <2>1. PICK modified \in {disk[n], 0} :
          /\ visited' = visited \cup {n}
          /\ found' = [found EXCEPT ![n] = modified]
          /\ same' = IF modified = disk[n] THEN same ELSE same \ {n}
    BY <2>0
  <2>2. n \in Nodes /\ modified \in Index!Rows
    BY <1>0, <2>1 DEF Index!Entries, Disk, Index!Rows
  <2>3. Since'
    BY <1>0, <1>2, <2>1 DEF Index!VisitEntry, Since
  <2>4. UNCHANGED <<Index!diskVars, rows, stamp, txn, at, left, request, answer, asked>>
    BY <1>2 DEF Index!VisitEntry, Index!WalkStep
  <2>5. Disk'
    BY <1>0, <2>1, <2>2, <2>4 DEF Disk, Index!diskVars
  <2>6. QED
    BY <2>3, <2>4, <2>5
<1>3. CASE Index!LeaveFolder
  BY <1>0, <1>3 DEF Index!LeaveFolder, Index!WalkStep, Disk, Since, Index!diskVars,
     Index!sinceVars
<1>4. CASE Index!PassOver
  BY <1>0, <1>4 DEF Index!PassOver, Index!WalkStep, Disk, Since, Index!diskVars, Index!Entries
<1>5. CASE Index!DiskChanges
  <2>1. disk' \in [Nodes -> Index!Rows]
    BY <1>0, <1>5 DEF Index!DiskChanges, Disk, Index!Rows
  <2>2. changes' \in 0..MaxChanges
    BY <1>0, <1>5 DEF Index!DiskChanges, Disk
  <2>3. Since'
    BY <1>0, <1>5 DEF Index!DiskChanges, Since
  <2>4. UNCHANGED <<rows, stamp, txn, at, Index!walkVars, left, request, answer, asked>>
    BY <1>5 DEF Index!DiskChanges
  <2>5. QED
    BY <1>0, <2>1, <2>2, <2>3, <2>4 DEF Disk, Index!walkVars
<1>6. QED
  BY <1>1, <1>2, <1>3, <1>4, <1>5

LEMMA WalkKeeps ==
  ASSUME Index!StoreAssumption, StoreInv,
         Index!StartRefresh \/ Index!VisitEntry \/ Index!LeaveFolder \/ Index!PassOver
         \/ Index!DiskChanges
  PROVE  StoreInv'
<1> USE DEF Index!StoreAssumption, StoreInv
<1>1. /\ Disk' /\ Since'
      /\ UNCHANGED <<rows, stamp, txn, left, request, answer, asked>>
      /\ \/ UNCHANGED at
         \/ at = "idle" /\ at' = "walking" /\ asked < MaxRequests
  BY WalkType
<1>2. Database' /\ Whereabouts'
  BY <1>1, TypeParts DEF Database, Whereabouts
<1>3. Index!TypeOK'
  BY <1>1, <1>2, TypePartsPrime
<1>4. RequestInv' /\ TxnInv'
  BY <1>1 DEF RequestInv, Refreshing, TxnInv, Index!Asked
<1>5. QED
  BY <1>3, <1>4

LEMMA AskKeeps ==
  ASSUME Index!StoreAssumption, StoreInv, Index!HandOver \/ Index!CallUpsert \/ Index!CallDelete
  PROVE  StoreInv' /\ request = Idle /\ request' # Idle /\ answer' = "none"
         /\ asked' = asked + 1 /\ UNCHANGED <<rows, stamp, txn>>
         /\ at \in {"idle", "walking"}
         /\ at' \in {"beginning", "upserting", "deleting"}
<1> USE DEF StoreInv
<1>0. Database /\ Whereabouts /\ Disk /\ Since
  BY TypeParts
<1>1. PICK op \in {"refresh", "upsert", "delete"}, items \in [Nodes -> Index!Rows] :
        /\ Index!Ask(op, items, CASE op = "refresh" -> "beginning"
                            [] op = "upsert" -> "upserting"
                            [] op = "delete" -> "deleting")
        /\ request = Idle /\ asked < MaxRequests
        /\ at \in {"idle", "walking"}
  <2>1. CASE Index!HandOver
    BY <1>0, <2>1 DEF Index!HandOver, RequestInv, Disk
  <2>2. CASE Index!CallUpsert
    <3>1. PICK n \in Nodes : Index!Exists(n)
              /\ Index!Ask("upsert", [Index!None EXCEPT ![n] = disk[n]], "upserting")
      BY <2>2 DEF Index!CallUpsert
    <3>2. [Index!None EXCEPT ![n] = disk[n]] \in [Nodes -> Index!Rows]
      BY <1>0 DEF Index!None, Disk, Index!Rows
    <3>3. QED
      BY <2>2, <3>1, <3>2 DEF Index!CallUpsert, RequestInv
  <2>3. CASE Index!CallDelete
    <3>1. PICK n \in Nodes : Index!Ask("delete", [Index!None EXCEPT ![n] = MaxVersion], "deleting")
      BY <2>3 DEF Index!CallDelete
    <3>2. [Index!None EXCEPT ![n] = MaxVersion] \in [Nodes -> Index!Rows]
      BY DEF Index!None, Index!Rows, Index!StoreAssumption
    <3>3. QED
      BY <2>3, <3>1, <3>2 DEF Index!CallDelete, RequestInv
  <2>4. QED
    BY <2>1, <2>2, <2>3
<1>2. request' = [op |-> op, items |-> items] /\ request' \in Requests /\ request' # Idle
  BY <1>1 DEF Index!Ask, Requests, Index!StoreAssumption
<1>3. /\ answer' = "none" /\ asked' = asked + 1
      /\ UNCHANGED <<Index!diskVars, rows, stamp, txn, Index!walkVars, Index!sinceVars, left>>
      /\ at' = CASE op = "refresh" -> "beginning"
                [] op = "upsert" -> "upserting"
                [] op = "delete" -> "deleting"
  BY <1>1 DEF Index!Ask
<1>4. at' \in {"beginning", "upserting", "deleting"}
  BY <1>3
<1>5. Database' /\ Disk' /\ Since'
  BY <1>0, <1>3 DEF Database, Disk, Since, Index!diskVars, Index!walkVars, Index!sinceVars
<1>6. Whereabouts'
  BY <1>0, <1>1, <1>3, <1>4 DEF Whereabouts, Index!StoreAssumption
<1>7. Index!TypeOK'
  BY <1>5, <1>6, TypePartsPrime
<1>8. RequestInv'
  <2>1. request'.op = op
    BY <1>2
  <2>2. /\ at' = "beginning" => op = "refresh"
        /\ at' = "upserting" => op = "upsert"
        /\ at' = "deleting" => op = "delete"
    BY <1>3
  <2>3. QED
    BY <1>2, <1>3, <1>4, <2>1, <2>2 DEF RequestInv, Refreshing
<1>9. TxnInv'
  BY <1>4 DEF TxnInv
<1>10. QED
  BY <1>1, <1>2, <1>3, <1>4, <1>7, <1>8, <1>9

(* What a statement sees, and leaves, is a snapshot.                       *)
LEMMA SeenType == ASSUME Index!StoreAssumption, Index!TypeOK PROVE Index!Seen \in Snapshots
<1>1. Database
  BY TypeParts
<1>2. QED
  BY <1>1 DEF Database, Index!Seen, Snapshots

LEMMA PutType ==
  ASSUME Index!StoreAssumption, Index!TypeOK, NEW newRows \in [Nodes -> Index!Rows],
      NEW newStamp \in 0..MaxRequests,
         Index!Put(newRows, newStamp)
  PROVE  /\ Database'
         /\ txn = NoTxn => rows' = newRows /\ stamp' = newStamp /\ txn' = NoTxn
         /\ txn # NoTxn => /\ UNCHANGED <<rows, stamp>>
                           /\ txn' = [rows |-> newRows, stamp |-> newStamp] /\ txn' # NoTxn
<1>1. Database
  BY TypeParts
<1>2. [rows |-> newRows, stamp |-> newStamp] \in Snapshots
  BY DEF Snapshots
<1>3. [rows |-> newRows, stamp |-> newStamp] # NoTxn
  BY <1>2 DEF Index!StoreAssumption, Snapshots
<1>4. QED
  BY <1>1, <1>2, <1>3 DEF Index!Put, Database

(* A statement touches neither the disk nor the walk nor the request.      *)
LEMMA StatementTypes ==
  ASSUME StoreInv, NEW place, Index!Statement(place)
  PROVE  at = place /\ Disk' /\ Since' /\ UNCHANGED <<request, asked>>
      /\ Index!Asked' = Index!Asked
  BY TypeParts DEF StoreInv, Index!Statement, Disk, Since, Index!diskVars, Index!walkVars,
     Index!sinceVars, Index!Asked

LEMMA StatementKeeps ==
  ASSUME Index!StoreAssumption, StoreInv,
         \/ Index!Begin \/ Index!BeginFails \/ Index!WriteItem \/ Index!ItemsWritten
         \/ Index!Touch \/ Index!RollBack \/ Index!Commit \/ Index!CommitFails \/ Index!Upsert
         \/ Index!Delete \/ Index!TouchAfterDelete \/ Index!StatementFails
  PROVE  StoreInv'
<1> USE DEF StoreInv, Index!Answer
<1>0. Database /\ Whereabouts /\ Disk /\ Since /\ Index!Seen \in Snapshots
  BY TypeParts, SeenType
<1>1. PICK place : Index!Statement(place) /\ place \notin {"idle", "walking", "returning"}
  BY DEF Index!Begin, Index!BeginFails, Index!WriteItem, Index!ItemsWritten, Index!Touch,
         Index!RollBack, Index!Commit, Index!CommitFails, Index!Upsert, Index!Delete,
         Index!TouchAfterDelete, Index!StatementFails
<1>2. at = place /\ Disk' /\ Since' /\ UNCHANGED <<request, asked>>
          /\ Index!Asked' = Index!Asked
  BY <1>1, StatementTypes
<1>3. request \in Requests /\ request # Idle /\ answer = "none" /\ asked \in 0..MaxRequests
  BY <1>0, <1>1, <1>2 DEF RequestInv, Whereabouts
<1>4. /\ request.items \in [Nodes -> Index!Rows] /\ Index!Asked \subseteq Nodes
  BY <1>3 DEF Requests, Index!Asked
<1>5. SUFFICES Database' /\ Whereabouts' /\ RequestInv' /\ TxnInv'
  BY <1>2, TypePartsPrime
<1>6. CASE Index!Begin
  <2>1. /\ at = "beginning" /\ txn = NoTxn /\ txn' = Index!Seen /\ left' = Index!Asked
             /\ at' = "writing"
        /\ UNCHANGED <<rows, stamp, answer>>
    BY <1>6 DEF Index!Begin, Index!Statement
  <2>2. txn' = [rows |-> rows, stamp |-> stamp] /\ txn' # NoTxn
    BY <1>0, <2>1 DEF Index!Seen, Index!StoreAssumption, Snapshots
  <2>3. Database' /\ Whereabouts'
    BY <1>0, <1>2, <1>4, <2>1 DEF Database, Whereabouts
  <2>4. RequestInv'
    BY <1>2, <1>3, <2>1 DEF RequestInv, Refreshing
  <2>5. txn'.rows = [n \in Nodes |-> rows[n]]
    BY <1>0, <2>2 DEF Database
  <2>6. TxnInv'
    BY <1>2, <2>1, <2>2, <2>5 DEF TxnInv
  <2>7. QED
    BY <2>3, <2>4, <2>6
<1>7. CASE Index!BeginFails
  BY <1>0, <1>2, <1>3, <1>7
     DEF Index!BeginFails, Index!Statement, Database, Whereabouts, RequestInv, Refreshing, TxnInv
<1>8. CASE Index!WriteItem
  <2>1. at = "writing" /\ UNCHANGED <<at, answer>>
    BY <1>8 DEF Index!WriteItem, Index!Statement
  <2>2. PICK n \in left :
            /\ Index!Put([Index!Seen.rows EXCEPT ![n] = request.items[n]], Index!Seen.stamp)
                         /\ left' = left \ {n}
    BY <1>8 DEF Index!WriteItem
  <2>3. /\ txn # NoTxn /\ left \subseteq Index!Asked /\ Index!Seen = txn
        /\ txn.rows = [m \in Nodes |-> IF m \in Index!Asked \ left THEN request.items[m]
             ELSE rows[m]]
    BY <2>1 DEF TxnInv, Index!Seen
  <2>4. n \in Index!Asked /\ n \in Nodes
    BY <1>4, <2>2, <2>3
  <2>5. [Index!Seen.rows EXCEPT ![n] = request.items[n]] \in [Nodes -> Index!Rows]
            /\ Index!Seen.stamp \in 0..MaxRequests
    BY <1>0, <1>4, <2>4 DEF Snapshots
  <2>6. /\ Database' /\ UNCHANGED <<rows, stamp>> /\ txn' # NoTxn
        /\ txn' = [rows |-> [Index!Seen.rows EXCEPT ![n] = request.items[n]],
             stamp |-> Index!Seen.stamp]
    BY <2>2, <2>3, <2>5, PutType
  <2>7. txn'.rows =
            [m \in Nodes |-> IF m \in Index!Asked \ left' THEN request.items[m] ELSE rows[m]]
    BY <2>2, <2>3, <2>4, <2>6
  <2>8. Whereabouts' /\ RequestInv'
    BY <1>0, <1>2, <1>3, <2>1, <2>2 DEF Whereabouts, RequestInv, Refreshing
  <2>9. TxnInv'
    BY <1>2, <2>1, <2>2, <2>3, <2>6, <2>7 DEF TxnInv
  <2>10. QED
    BY <2>6, <2>8, <2>9
<1>9. CASE Index!ItemsWritten
  BY <1>0, <1>2, <1>3, <1>9
  DEF Index!ItemsWritten, Index!Statement, Database, Whereabouts, RequestInv, Refreshing, TxnInv
<1>10. CASE Index!Touch
  <2>1. at = "touching" /\ at' = "committing" /\ UNCHANGED <<left, answer>>
            /\ Index!Put(Index!Seen.rows, asked)
    BY <1>10 DEF Index!Touch, Index!Statement
  <2>2. txn # NoTxn /\ left = {} /\ Index!Seen = txn
    BY <2>1 DEF TxnInv, Index!Seen
  <2>3. Index!Seen.rows \in [Nodes -> Index!Rows]
    BY <1>0 DEF Snapshots
  <2>4. /\ Database' /\ UNCHANGED <<rows, stamp>> /\ txn' # NoTxn
        /\ txn' = [rows |-> Index!Seen.rows, stamp |-> asked]
    BY <1>3, <2>1, <2>2, <2>3, PutType
  <2>5. Whereabouts' /\ RequestInv'
    BY <1>0, <1>2, <1>3, <2>1 DEF Whereabouts, RequestInv, Refreshing
  <2>6. TxnInv'
    BY <1>2, <2>1, <2>2, <2>4 DEF TxnInv
  <2>7. QED
    BY <2>4, <2>5, <2>6
<1>11. CASE Index!RollBack
  <2>1. /\ txn' = NoTxn /\ left' = {} /\ answer' = "error" /\ at' = "returning"
        /\ UNCHANGED <<rows, stamp>>
    BY <1>11 DEF Index!RollBack
  <2>2. QED
    BY <1>0, <1>2, <1>3, <2>1 DEF Database, Whereabouts, RequestInv, Refreshing, TxnInv
<1>12. CASE Index!Commit
  <2>1. /\ at = "committing" /\ txn' = NoTxn /\ answer' = "ok" /\ at' = "returning"
        /\ rows' = Index!Seen.rows /\ stamp' = Index!Seen.stamp /\ UNCHANGED left
    BY <1>12 DEF Index!Commit, Index!Statement
  <2>2. Database'
    BY <1>0, <2>1 DEF Database, Snapshots
  <2>3. QED
    BY <1>0, <1>2, <1>3, <2>1, <2>2 DEF Whereabouts, RequestInv, Refreshing, TxnInv
<1>13. CASE Index!CommitFails
  BY <1>0, <1>2, <1>3, <1>13
  DEF Index!CommitFails, Index!Statement, Database, Whereabouts, RequestInv, Refreshing, TxnInv
<1>14. CASE Index!Upsert
  <2>1. /\ at = "upserting" /\ answer' = "ok" /\ at' = "returning" /\ UNCHANGED left
        /\ Index!Put([n \in Nodes |-> IF n \in Index!Asked THEN request.items[n]
             ELSE Index!Seen.rows[n]], Index!Seen.stamp)
    BY <1>14 DEF Index!Upsert, Index!Statement
  <2>2. /\ [n \in Nodes |-> IF n \in Index!Asked THEN request.items[n] ELSE Index!Seen.rows[n]]
             \in [Nodes -> Index!Rows]
        /\ Index!Seen.stamp \in 0..MaxRequests
    BY <1>0, <1>4 DEF Snapshots
  <2>3. Database'
    BY <2>1, <2>2, PutType
  <2>4. QED
    BY <1>0, <1>2, <1>3, <2>1, <2>3 DEF Whereabouts, RequestInv, Refreshing, TxnInv
<1>15. CASE Index!Delete
  <2>1. /\ at = "deleting" /\ at' = "stamping" /\ UNCHANGED <<left, answer>>
        /\ Index!Put([n \in Nodes |-> IF n \in Index!Asked THEN NoRow ELSE Index!Seen.rows[n]],
             Index!Seen.stamp)
    BY <1>15 DEF Index!Delete, Index!Statement
  <2>2. /\ [n \in Nodes |-> IF n \in Index!Asked THEN NoRow ELSE Index!Seen.rows[n]]
             \in [Nodes -> Index!Rows]
        /\ Index!Seen.stamp \in 0..MaxRequests
    BY <1>0 DEF Snapshots, Index!Rows
  <2>3. /\ Database'
        /\ txn' = NoTxn
             => rows' = [n \in Nodes |-> IF n \in Index!Asked THEN NoRow ELSE Index!Seen.rows[n]]
    BY <2>1, <2>2, PutType
  <2>4. TxnInv'
    BY <1>2, <1>4, <2>1, <2>3 DEF TxnInv
  <2>5. QED
    BY <1>0, <1>2, <1>3, <2>1, <2>3, <2>4 DEF Whereabouts, RequestInv, Refreshing
<1>16. CASE Index!TouchAfterDelete
  <2>1. /\ at = "stamping" /\ answer' = "ok" /\ at' = "returning" /\ UNCHANGED left
        /\ Index!Put(Index!Seen.rows, asked)
    BY <1>16 DEF Index!TouchAfterDelete, Index!Statement
  <2>2. Database'
    BY <1>0, <1>3, <2>1, PutType DEF Snapshots
  <2>3. QED
    BY <1>0, <1>2, <1>3, <2>1, <2>2 DEF Whereabouts, RequestInv, Refreshing, TxnInv
<1>17. CASE Index!StatementFails
  BY <1>0, <1>2, <1>3, <1>17
  DEF Index!StatementFails, Index!Statement, Database, Whereabouts, RequestInv, Refreshing, TxnInv
<1>18. QED
  BY <1>6, <1>7, <1>8, <1>9, <1>10, <1>11, <1>12, <1>13, <1>14, <1>15, <1>16, <1>17

LEMMA StoreStep == ASSUME Index!StoreAssumption, StoreInv, [Index!Next]_(Index!vars) PROVE StoreInv'
<1>0. Database /\ Whereabouts /\ Disk /\ Since
  BY TypeParts DEF StoreInv
<1>1. CASE Index!Return
  <2>1. Database' /\ Whereabouts' /\ Disk' /\ Since'
    BY <1>0, <1>1 DEF Index!Return, Database, Whereabouts, Disk, Since, Index!diskVars,
       Index!walkVars, Index!sinceVars
  <2>2. RequestInv' /\ TxnInv'
    BY <1>1 DEF Index!Return, RequestInv, Refreshing, TxnInv
  <2>3. QED
    BY <2>1, <2>2, TypePartsPrime DEF StoreInv
<1>2. CASE Index!Reopen
  <2>1. Database' /\ Whereabouts' /\ Disk' /\ Since'
    BY <1>0, <1>2 DEF Index!Reopen, Database, Whereabouts, Disk, Since, Index!diskVars, Index!None,
       Index!Rows
  <2>2. RequestInv' /\ TxnInv'
    BY <1>2 DEF Index!Reopen, RequestInv, Refreshing, TxnInv
  <2>3. QED
    BY <2>1, <2>2, TypePartsPrime DEF StoreInv
<1>3. CASE UNCHANGED Index!vars
  <2>1. Database' /\ Whereabouts' /\ Disk' /\ Since'
    BY <1>0, <1>3 DEF Index!vars, Database, Whereabouts, Disk, Since, Index!diskVars,
       Index!walkVars, Index!sinceVars
  <2>2. RequestInv' /\ TxnInv'
    BY <1>3 DEF Index!vars, StoreInv, RequestInv, Refreshing, TxnInv, Index!Asked
  <2>3. QED
    BY <2>1, <2>2, TypePartsPrime DEF StoreInv
<1>4. QED
  BY <1>1, <1>2, <1>3, WalkKeeps, AskKeeps, StatementKeeps DEF Index!Next, Index!Walk, Index!Store

-----------------------------------------------------------------------------
(* The refinement of IndexContract.                                        *)

LEMMA ContractInit == Index!Init => Index!Contract!Init
  BY DEF Index!Init, Index!Contract!Init, Index!LeftOpen, Index!None

(* What a step of the store is above: nothing, or the carrying out.        *)
ContractStep == Index!Contract!Next \/ UNCHANGED Index!Contract!vars

LEMMA StatementRefines ==
  ASSUME Index!StoreAssumption, StoreInv,
         \/ Index!Begin \/ Index!BeginFails \/ Index!WriteItem \/ Index!ItemsWritten
         \/ Index!Touch \/ Index!RollBack \/ Index!Commit \/ Index!CommitFails \/ Index!Upsert
         \/ Index!Delete \/ Index!TouchAfterDelete \/ Index!StatementFails
  PROVE  ContractStep
<1> USE DEF StoreInv, Index!Answer
<1>0. Database /\ Whereabouts /\ Index!Seen \in Snapshots
  BY TypeParts, SeenType
<1>1. PICK place : Index!Statement(place) /\ place \notin {"idle", "walking", "returning"}
  BY DEF Index!Begin, Index!BeginFails, Index!WriteItem, Index!ItemsWritten, Index!Touch,
         Index!RollBack, Index!Commit, Index!CommitFails, Index!Upsert, Index!Delete,
         Index!TouchAfterDelete, Index!StatementFails
<1>2. at = place /\ UNCHANGED <<request, asked>> /\ Index!Asked' = Index!Asked
  BY <1>1, StatementTypes
<1>3. request \in Requests /\ request # Idle /\ answer = "none" /\ asked \in 0..MaxRequests
  BY <1>0, <1>1, <1>2 DEF RequestInv, Whereabouts
<1>4. /\ request.items \in [Nodes -> Index!Rows] /\ Index!Asked \subseteq Nodes
      /\ \A n \in Nodes : Index!Contract!Changed(n) <=> n \in Index!Asked
  BY <1>3 DEF Requests, Index!Asked, Index!Contract!Changed
<1>5. ASSUME \/ Index!Contract!Store \/ Index!Contract!RemoveRow \/ Index!Contract!StampRemoval
             \/ Index!Contract!Refuse \/ Index!Contract!AcceptInVain
      PROVE  ContractStep
  BY <1>2, <1>3, <1>5 DEF Index!Contract!CarryOut, Index!Contract!Next, ContractStep
<1>6. CASE Index!Begin \/ Index!ItemsWritten
  BY <1>2, <1>6 DEF Index!Begin, Index!ItemsWritten, Index!Statement, TxnInv, Index!LeftOpen,
     ContractStep, Index!Contract!vars
<1>7. CASE Index!BeginFails
  <2>1. Index!Contract!Refuse
    BY <1>7 DEF Index!BeginFails, Index!Statement, Index!Contract!Refuse, Index!LeftOpen
  <2>2. QED
    BY <1>5, <2>1
<1>8. CASE Index!WriteItem \/ Index!Touch
  <2>1. txn # NoTxn /\ at \in {"writing", "touching"}
            /\ at' \in {"writing", "touching", "committing"}
    BY <1>8 DEF Index!WriteItem, Index!Touch, Index!Statement, TxnInv
  <2>2. UNCHANGED <<rows, stamp, answer>>
    BY <1>8, <2>1 DEF Index!WriteItem, Index!Touch, Index!Put
  <2>3. UNCHANGED Index!LeftOpen
    BY <2>1 DEF Index!LeftOpen
  <2>4. QED
    BY <1>2, <2>2, <2>3 DEF ContractStep, Index!Contract!vars
<1>9. CASE Index!RollBack
  <2>1. Index!Contract!Refuse
    BY <1>9 DEF Index!RollBack, Index!Statement, Index!Contract!Refuse, Index!LeftOpen
  <2>2. QED
    BY <1>5, <2>1
<1>10. CASE Index!Commit
  <2>1. /\ at = "committing" /\ txn' = NoTxn /\ answer' = "ok"
        /\ rows' = txn.rows /\ stamp' = txn.stamp /\ request.op = "refresh"
        /\ txn.rows = [n \in Nodes |-> IF n \in Index!Asked THEN request.items[n] ELSE rows[n]]
        /\ txn.stamp = asked
    BY <1>10 DEF Index!Commit, Index!Statement, Index!Seen, TxnInv, RequestInv, Refreshing
  <2>2. ~Index!LeftOpen /\ UNCHANGED Index!LeftOpen
    BY <2>1 DEF Index!LeftOpen
  <2>3. rows' = [n \in Nodes |-> IF Index!Contract!Changed(n) THEN request.items[n] ELSE rows[n]]
    BY <1>4, <2>1
  <2>4. Index!Contract!Store
    BY <2>1, <2>2, <2>3 DEF Index!Contract!Store
  <2>5. QED
    BY <1>5, <2>4
<1>11. CASE Index!CommitFails
  <2>1. Index!LeftOpen' \in BOOLEAN
    BY DEF Index!LeftOpen
  <2>2. Index!Contract!Refuse
    BY <1>11, <2>1
       DEF Index!CommitFails, Index!Statement, Index!Contract!Refuse, RequestInv, Refreshing
  <2>3. QED
    BY <1>5, <2>2
<1>12. CASE Index!Upsert
  <2>1. /\ at = "upserting" /\ answer' = "ok" /\ at' = "returning" /\ request.op = "upsert"
        /\ Index!Put([n \in Nodes |-> IF n \in Index!Asked THEN request.items[n]
             ELSE Index!Seen.rows[n]], Index!Seen.stamp)
    BY <1>12 DEF Index!Upsert, Index!Statement, RequestInv
  <2>2. /\ [n \in Nodes |-> IF n \in Index!Asked THEN request.items[n] ELSE Index!Seen.rows[n]]
             \in [Nodes -> Index!Rows]
        /\ Index!Seen.stamp \in 0..MaxRequests
    BY <1>0, <1>4 DEF Snapshots
  <2>3. CASE txn = NoTxn
    <3>1. /\ rows' = [n \in Nodes |-> IF n \in Index!Asked THEN request.items[n] ELSE rows[n]]
          /\ stamp' = stamp /\ txn' = NoTxn
      BY <2>1, <2>2, <2>3, PutType DEF Index!Seen
    <3>2. Index!Contract!Store
      BY <1>4, <2>1, <2>3, <3>1 DEF Index!Contract!Store, Index!LeftOpen
    <3>3. QED
      BY <1>5, <3>2
  <2>4. CASE txn # NoTxn
    <3>1. UNCHANGED <<rows, stamp>> /\ txn' # NoTxn
      BY <2>1, <2>2, <2>4, PutType
    <3>2. Index!Contract!AcceptInVain
      BY <2>1, <2>4, <3>1 DEF Index!Contract!AcceptInVain, Index!LeftOpen
    <3>3. QED
      BY <1>5, <3>2
  <2>5. QED
    BY <2>3, <2>4
<1>13. CASE Index!Delete
  <2>1. /\ at = "deleting" /\ at' = "stamping" /\ UNCHANGED answer /\ request.op = "delete"
        /\ Index!Put([n \in Nodes |-> IF n \in Index!Asked THEN NoRow ELSE Index!Seen.rows[n]],
             Index!Seen.stamp)
    BY <1>13 DEF Index!Delete, Index!Statement, RequestInv
  <2>2. /\ [n \in Nodes |-> IF n \in Index!Asked THEN NoRow ELSE Index!Seen.rows[n]]
             \in [Nodes -> Index!Rows]
        /\ Index!Seen.stamp \in 0..MaxRequests
    BY <1>0 DEF Snapshots, Index!Rows
  <2>3. CASE txn = NoTxn
    <3>1. /\ rows' = [n \in Nodes |-> IF n \in Index!Asked THEN NoRow ELSE rows[n]]
          /\ stamp' = stamp /\ txn' = NoTxn
      BY <2>1, <2>2, <2>3, PutType DEF Index!Seen
    <3>2. Index!Contract!RemoveRow
      BY <1>4, <2>1, <2>3, <3>1 DEF Index!Contract!RemoveRow, Index!LeftOpen
    <3>3. QED
      BY <1>5, <3>2
  <2>4. CASE txn # NoTxn
    <3>1. UNCHANGED <<rows, stamp>> /\ txn' # NoTxn
      BY <2>1, <2>2, <2>4, PutType
    <3>2. Index!LeftOpen /\ Index!LeftOpen'
      BY <2>1, <2>4, <3>1 DEF Index!LeftOpen
    <3>3. QED
      BY <1>2, <2>1, <3>1, <3>2 DEF ContractStep, Index!Contract!vars
  <2>5. QED
    BY <2>3, <2>4
<1>14. CASE Index!TouchAfterDelete
  <2>1. /\ at = "stamping" /\ answer' = "ok" /\ at' = "returning" /\ request.op = "delete"
        /\ Index!Put(Index!Seen.rows, asked)
    BY <1>14 DEF Index!TouchAfterDelete, Index!Statement, RequestInv
  <2>2. Index!Seen.rows \in [Nodes -> Index!Rows]
    BY <1>0 DEF Snapshots
  <2>3. CASE txn = NoTxn
    <3>1. rows' = rows /\ stamp' = asked /\ txn' = NoTxn
      BY <1>3, <2>1, <2>2, <2>3, PutType DEF Index!Seen
    <3>2. \A n \in Nodes : Index!Contract!Changed(n) => rows[n] = NoRow
      BY <1>4, <2>1, <2>3 DEF TxnInv
    <3>3. Index!Contract!StampRemoval
      BY <2>1, <2>3, <3>1, <3>2 DEF Index!Contract!StampRemoval, Index!LeftOpen
    <3>4. QED
      BY <1>5, <3>3
  <2>4. CASE txn # NoTxn
    <3>1. UNCHANGED <<rows, stamp>> /\ txn' # NoTxn
      BY <1>3, <2>1, <2>2, <2>4, PutType
    <3>2. Index!Contract!AcceptInVain
      BY <2>1, <2>4, <3>1 DEF Index!Contract!AcceptInVain, Index!LeftOpen
    <3>3. QED
      BY <1>5, <3>2
  <2>5. QED
    BY <2>3, <2>4
<1>15. CASE Index!StatementFails
  <2>1. /\ at \in {"upserting", "deleting", "stamping"} /\ at' = "returning" /\ answer' = "error"
        /\ txn' \in {txn, NoTxn} /\ UNCHANGED <<rows, stamp>>
    BY <1>15 DEF Index!StatementFails, Index!Statement
  <2>2. Index!LeftOpen' \in BOOLEAN /\ (Index!LeftOpen' => Index!LeftOpen)
    BY <2>1 DEF Index!LeftOpen
  <2>3. Index!Contract!Refuse
    BY <2>1, <2>2 DEF Index!Contract!Refuse
  <2>4. QED
    BY <1>5, <2>3
<1>16. QED
  BY <1>6, <1>7, <1>8, <1>9, <1>10, <1>11, <1>12, <1>13, <1>14, <1>15

LEMMA StepRefines == ASSUME Index!StoreAssumption, StoreInv, [Index!Next]_(Index!vars)
    PROVE ContractStep
<1> USE DEF StoreInv
<1>1. CASE Index!StartRefresh \/ Index!VisitEntry \/ Index!LeaveFolder \/ Index!PassOver
          \/ Index!DiskChanges
  <2>1. /\ UNCHANGED <<rows, stamp, txn, request, answer, asked>>
        /\ UNCHANGED at \/ (at = "idle" /\ at' = "walking")
    BY <1>1, WalkType
  <2>2. UNCHANGED Index!LeftOpen
    BY <2>1 DEF Index!LeftOpen
  <2>3. QED
    BY <2>1, <2>2 DEF ContractStep, Index!Contract!vars
<1>2. CASE Index!HandOver \/ Index!CallUpsert \/ Index!CallDelete
  <2>1. /\ request = Idle /\ request' # Idle /\ answer' = "none" /\ asked' = asked + 1
        /\ UNCHANGED <<rows, stamp, txn>>
        /\ at \in {"idle", "walking"} /\ at' \in {"beginning", "upserting", "deleting"}
    BY <1>2, AskKeeps
  <2>2. UNCHANGED Index!LeftOpen
    BY <2>1 DEF Index!LeftOpen
  <2>3. QED
    BY <2>1, <2>2 DEF Index!Contract!Ask, Index!Contract!Next, ContractStep
<1>3. CASE Index!Return
  <2>1. /\ at = "returning" /\ at' = "idle" /\ request' = Idle /\ answer # "none"
        /\ UNCHANGED <<rows, stamp, txn, answer, asked>>
    BY <1>3 DEF Index!Return, RequestInv
  <2>2. UNCHANGED Index!LeftOpen
    BY <2>1 DEF Index!LeftOpen
  <2>3. QED
    BY <2>1, <2>2 DEF Index!Contract!Return, Index!Contract!Next, ContractStep
<1>4. CASE Index!Reopen
  BY <1>4 DEF Index!Reopen, Index!LeftOpen, Index!Contract!Reopen, Index!Contract!Next, ContractStep
<1>5. CASE UNCHANGED Index!vars
  BY <1>5 DEF Index!vars, Index!LeftOpen, Index!Contract!vars, ContractStep
<1>6. QED
  BY <1>1, <1>2, <1>3, <1>4, <1>5, StatementRefines DEF Index!Next, Index!Walk, Index!Store

LEMMA StoreAlways == ASSUME Index!StoreAssumption PROVE Index!Spec => []StoreInv
<1>1. Index!Init => StoreInv
  BY StoreInit
<1>2. StoreInv /\ [Index!Next]_(Index!vars) => StoreInv'
  BY StoreStep
<1>3. QED
  BY <1>1, <1>2, PTL DEF Index!Spec

(* Every variable of IndexStore keeps its type, whatever fails.            *)
THEOREM StoreTyping == Index!Spec => []Index!TypeOK
<1>0. Index!Spec => []StoreInv
  BY StoreAlways, IndexAssumption
<1>1. StoreInv => Index!TypeOK
  BY DEF StoreInv
<1>2. QED
  BY <1>1, <1>0, PTL

(* refresh_items and delete implement IndexContract, statement by statement: *)
(* a refresh is stored as a whole or not at all, what is acknowledged is     *)
(* stored, unless a failed commit has left its transaction open.             *)
THEOREM IndexKeepsContract == Index!Spec => StoreKeepsContract
<1>0. Index!Spec => []StoreInv
  BY StoreAlways, IndexAssumption
<1>1. Index!Init => Index!Contract!Init
  BY ContractInit
<1>2. StoreInv /\ [Index!Next]_(Index!vars) => [Index!Contract!Next]_(Index!Contract!vars)
  BY StepRefines, IndexAssumption DEF ContractStep
<1>3. QED
  BY <1>1, <1>2, <1>0, PTL
  DEF Index!Spec, StoreKeepsContract, Index!StoreKeepsContract, Index!Contract!Spec

(* A set of numbers that is not empty has a least one.                     *)
LEMMA NatLeast ==
  ASSUME NEW T, T \subseteq Nat, T # {}
  PROVE  \E x \in T : \A y \in T : x <= y
<1>1. PICK Less : /\ \A x, y \in Nat : <<y, x>> \in Less <=> y < x
                  /\ IsWellFoundedOn(Less, Nat)
  <2>1. \A x, y \in Nat : <<y, x>> \in OpToRel(<, Nat) <=> y < x
    BY DEF OpToRel
  <2>2. QED
    BY <2>1, NatLessThanWellFounded, Zenon
<1>2. PICK x \in T : \A y \in T : ~ (<<y, x>> \in Less)
  BY <1>1, WFMin
<1>3. ASSUME NEW y \in T PROVE x <= y
  <2>1. x \in Nat /\ y \in Nat
    OBVIOUS
  <2>2. ~(y < x)
    BY <1>1, <1>2, <2>1
  <2>3. QED
    BY <2>1, <2>2
<1>4. QED
  BY <1>3

(* So what holds of 0 and goes from each number to the next holds of all.  *)
LEMMA NatAll ==
  ASSUME NEW T, 0 \in T, \A k \in Nat : k \in T => k + 1 \in T
  PROVE  Nat \subseteq T
<1>1. SUFFICES ASSUME Nat \ T # {} PROVE FALSE
  OBVIOUS
<1>2. PICK k \in Nat \ T : \A m \in Nat \ T : k <= m
  BY <1>1, NatLeast
<1>3. k - 1 \in Nat /\ k - 1 \in T
  BY <1>2
<1>4. k - 1 + 1 \in T
  BY <1>3
<1>5. QED
  BY <1>2, <1>4

(* A tree of finitely many nodes is so many levels high.                    *)
LEMMA TreeHeight ==
  ASSUME Index!TreeAssumption
  PROVE  \E height \in Nat : \E rank \in [Nodes -> 0..height] :
           \A n \in Nodes : Parent[n] \in Nodes => rank[Parent[n]] < rank[n]
<1>1. IsFiniteSet(Nodes)
  BY DEF Index!TreeAssumption, IsFiniteSet, Index!IsFiniteSet
<1>2. Cardinality(Nodes) \in Nat
  BY <1>1, FS_CardinalityType
<1>3. Cardinality(Nodes) = Index!Cardinality(Nodes)
  BY DEF Cardinality, Index!Cardinality
<1>4. QED
  BY <1>2, <1>3 DEF Index!TreeAssumption

(* Two functions agree on a tree if they agree at each node whose parent    *)
(* they agree on.                                                           *)
LEMMA TreeAgree ==
  ASSUME Index!TreeAssumption, NEW f, NEW g,
         \A n \in Nodes : (Parent[n] \in Nodes => f[Parent[n]] = g[Parent[n]]) => f[n] = g[n]
  PROVE  \A n \in Nodes : f[n] = g[n]
<1>1. PICK height \in Nat : \E rank \in [Nodes -> 0..height] :
        \A n \in Nodes : Parent[n] \in Nodes => rank[Parent[n]] < rank[n]
  BY TreeHeight
<1>2. PICK rank \in [Nodes -> 0..height] :
        \A n \in Nodes : Parent[n] \in Nodes => rank[Parent[n]] < rank[n]
  BY <1>1
<1>3. \A n \in Nodes : rank[n] \in Nat /\ rank[n] < height + 1
  BY <1>2
<1> DEFINE U == {k \in Nat : \A n \in Nodes : rank[n] < k => f[n] = g[n]}
<1>4. 0 \in U
  BY <1>3
<1>5. ASSUME NEW k \in Nat, k \in U PROVE k + 1 \in U
  <2>1. ASSUME NEW n \in Nodes, rank[n] < k + 1 PROVE f[n] = g[n]
    <3>1. Parent[n] \in Nodes => rank[Parent[n]] < k
      BY <1>2, <1>3, <2>1
    <3>2. Parent[n] \in Nodes => f[Parent[n]] = g[Parent[n]]
      BY <1>5, <3>1
    <3>3. QED
      BY <3>2
  <2>2. QED
    BY <2>1
<1>6. height + 1 \in U
  <2> HIDE DEF U
  <2>1. Nat \subseteq U
    BY <1>4, <1>5, NatAll
  <2>2. QED
    BY <1>1, <2>1
<1>7. QED
  BY <1>3, <1>6

(* What is defined by recursion up the tree, from a base at the roots with  *)
(* a step at every other node, is defined.                                  *)
Grows(g, base, step) ==
  g = [n \in Nodes |-> IF Parent[n] \in Nodes THEN step[<<n, g[Parent[n]]>>] ELSE base]

LEMMA UpTheTree ==
  ASSUME Index!TreeAssumption, NEW V, NEW base \in V, NEW step \in [Nodes \X V -> V]
  PROVE  \E g \in [Nodes -> V] : Grows(g, base, step)
<1> DEFINE Up(g, n) == IF Parent[n] \in Nodes THEN step[<<n, g[Parent[n]]>>] ELSE base
<1>1. PICK height \in Nat : \E rank \in [Nodes -> 0..height] :
        \A n \in Nodes : Parent[n] \in Nodes => rank[Parent[n]] < rank[n]
  BY TreeHeight
<1>2. PICK rank \in [Nodes -> 0..height] :
        \A n \in Nodes : Parent[n] \in Nodes => rank[Parent[n]] < rank[n]
  BY <1>1
<1>3. \A n \in Nodes : rank[n] \in Nat /\ rank[n] < height + 1
  BY <1>2
<1>t. \A g \in [Nodes -> V] : \A n \in Nodes : Up(g, n) \in V
  OBVIOUS
<1> DEFINE Far(g, k) == \A n \in Nodes : rank[n] < k => g[n] = Up(g, n)
<1> DEFINE T == {k \in Nat : \E g \in [Nodes -> V] : Far(g, k)}
<1>4. 0 \in T
  <2>1. [n \in Nodes |-> base] \in [Nodes -> V]
    OBVIOUS
  <2>2. Far([n \in Nodes |-> base], 0)
    BY <1>3
  <2>3. QED
    <3> HIDE DEF Far
    <3> QED  BY <2>1, <2>2
<1>5. ASSUME NEW k \in Nat, k \in T PROVE k + 1 \in T
  <2>1. PICK g \in [Nodes -> V] : Far(g, k)
    BY <1>5
  <2> DEFINE h == [n \in Nodes |-> Up(g, n)]
  <2>2. h \in [Nodes -> V]
    BY <1>t
  <2>3. ASSUME NEW n \in Nodes, rank[n] < k + 1 PROVE h[n] = Up(h, n)
    <3>1. h[n] = Up(g, n)
      OBVIOUS
    <3>2. CASE Parent[n] \in Nodes
      <4>1. rank[Parent[n]] < k
        BY <1>2, <1>3, <2>3, <3>2
      <4>2. h[Parent[n]] = g[Parent[n]]
        BY <2>1, <3>2, <4>1
      <4>3. QED
        BY <3>1, <3>2, <4>2
    <3>3. QED
      BY <3>1, <3>2
  <2>4. Far(h, k + 1)
    BY <2>3
  <2>5. QED
    <3> HIDE DEF h, Far
    <3> QED  BY <2>2, <2>4
<1>6. height + 1 \in T
  <2> HIDE DEF T
  <2>1. Nat \subseteq T
    BY <1>4, <1>5, NatAll
  <2>2. QED
    BY <1>1, <2>1
<1>7. PICK g \in [Nodes -> V] : \A n \in Nodes : g[n] = Up(g, n)
  BY <1>3, <1>6
<1>8. QED
  BY <1>7 DEF Grows

(* Level and Above are defined by recursion up the tree.                    *)
LEMMA LevelDef ==
  ASSUME Index!TreeAssumption
  PROVE  /\ Index!Level \in [Nodes -> Nat]
         /\ \A n \in Nodes : Index!Level[n] = IF Parent[n] \in Nodes
              THEN Index!Level[Parent[n]] + 1 ELSE 1
<1> DEFINE step == [x \in Nodes \X Nat |-> x[2] + 1]
<1>1. step \in [Nodes \X Nat -> Nat]
  OBVIOUS
<1>2. PICK g \in [Nodes -> Nat] : Grows(g, 1, step)
  <2> HIDE DEF step
  <2>1. 1 \in Nat
    OBVIOUS
  <2> QED  BY <1>1, <2>1, UpTheTree, Zenon
<1>3. g = [n \in Nodes |-> IF Parent[n] \in Nodes THEN g[Parent[n]] + 1 ELSE 1]
  BY <1>2 DEF Grows
<1>4. Index!Level = [n \in Nodes |-> IF Parent[n] \in Nodes THEN Index!Level[Parent[n]] + 1 ELSE 1]
  BY <1>3 DEF Index!Level
<1>5. \A n \in Nodes : Index!Level[n] = g[n]
  <2>1. \A n \in Nodes : (Parent[n] \in Nodes => Index!Level[Parent[n]] = g[Parent[n]])
            => Index!Level[n] = g[n]
    BY <1>3, <1>4
  <2>2. QED
    BY <2>1, TreeAgree
<1>6. Index!Level = g
  BY <1>3, <1>4, <1>5
<1>7. QED
  BY <1>3, <1>6

LEMMA AboveDef ==
  ASSUME Index!TreeAssumption
  PROVE  \A n \in Nodes :
           Index!Above[n] = IF Parent[n] \in Nodes THEN {Parent[n]} \cup Index!Above[Parent[n]]
             ELSE {}
<1> DEFINE step == [x \in Nodes \X SUBSET Nodes |->
                      IF Parent[x[1]] \in Nodes THEN {Parent[x[1]]} \cup x[2] ELSE {}]
<1>1. step \in [Nodes \X SUBSET Nodes -> SUBSET Nodes]
  OBVIOUS
<1>2. PICK g \in [Nodes -> SUBSET Nodes] : Grows(g, {}, step)
  <2> HIDE DEF step
  <2>1. {} \in SUBSET Nodes
    OBVIOUS
  <2> QED  BY <1>1, <2>1, UpTheTree, Zenon
<1>3. g = [n \in Nodes |-> IF Parent[n] \in Nodes THEN {Parent[n]} \cup g[Parent[n]] ELSE {}]
  BY <1>2 DEF Grows
<1>4. Index!Above =
          [n \in Nodes |-> IF Parent[n] \in Nodes THEN {Parent[n]} \cup Index!Above[Parent[n]]
            ELSE {}]
  BY <1>3, Zenon DEF Index!Above
<1>5. QED
  BY <1>4

(* What is on the disk is in a folder that is.                             *)
DiskInv == \A n \in Nodes : Index!Exists(n) /\ Parent[n] \in Nodes => Index!Exists(Parent[n])

(* The folders being read know how deep they are.                          *)
AheadInv ==
  /\ ahead \in Seq([folder : Folders \cup Index!Range(Roots), depth : Nat])
  /\ \A i \in 1..Len(ahead) :
       ahead[i].depth = IF ahead[i].folder \in Nodes THEN Index!Level[ahead[i].folder] ELSE 0

(* What was there all along is, in a folder that was.                      *)
ThereInv ==
  /\ there \subseteq Nodes
  /\ \A n \in there : Index!Exists(n) /\ (Parent[n] \in Nodes => Parent[n] \in there)

Wanted(n) == n \in there /\ Index!Level[n] <= MaxDepth + 1

(* It is in the list as it is on the disk, unless modified under the walk. *)
ListedIn(list, n) == list[n] # NoRow /\ (n \in same => list[n] = disk[n])

(* Of what was there all along, what was met is listed, and what the walk  *)
(* has yet to meet is in a folder being read or in one it has yet to meet. *)
MeetInv ==
  /\ \A n \in visited \cap there : ListedIn(found, n)
  /\ \A n \in Nodes \ visited : Wanted(n) =>
       \/ Parent[n] \in Nodes \ visited
       \/ \E i \in 1..Len(ahead) : ahead[i].folder = Parent[n]

(* What a refresh was handed is complete, and what is stored of it.        *)
HandedInv ==
  request # Idle /\ request.op = "refresh" =>
    \A n \in Nodes : Wanted(n) => ListedIn(request.items, n)

WalkInv ==
  /\ StoreInv
  /\ DiskInv /\ AheadInv /\ ThereInv
  /\ at = "walking" => MeetInv
  /\ HandedInv
  /\ Index!RefreshIsComplete

LEMMA WalkInit == ASSUME Index!StoreAssumption, Index!TreeAssumption, Index!Init PROVE WalkInv
<1>1. DiskInv
  BY DEF DiskInv, Index!Init, Index!Exists, Index!None, Index!StoreAssumption
<1>2. AheadInv
  BY DEF AheadInv, Index!Init
<1>3. QED
  BY <1>1, <1>2, StoreInit DEF WalkInv, Index!Init, ThereInv, HandedInv, Index!RefreshIsComplete

(* A folder is below nothing but folders, and what is in it one deeper.    *)
LEMMA Deeper ==
  ASSUME Index!TreeAssumption, NEW n \in Nodes
  PROVE  /\ Index!Level[n] \in Nat
         /\ Parent[n] \in Folders \cup Index!Range(Roots)
         /\ Parent[n] \in Nodes
              => Index!Level[n] = Index!Level[Parent[n]] + 1 /\ Index!Level[Parent[n]] \in Nat
         /\ Parent[n] \notin Nodes => Index!Level[n] = 1
  BY LevelDef DEF Index!TreeAssumption

(* What is below something is below all that it is below.                  *)
LEMMA BelowUp ==
  ASSUME Index!TreeAssumption, NEW f, NEW m \in Nodes, Parent[m] \in Nodes
  PROVE  /\ Parent[m] \in Index!Below(f) => m \in Index!Below(f)
         /\ Parent[m] \in Index!Subtree(f) => m \in Index!Subtree(f)
<1>1. Index!Above[m] = {Parent[m]} \cup Index!Above[Parent[m]]
  BY AboveDef
<1>2. Parent[m] \in Index!Below(f) => m \in Index!Below(f)
  BY <1>1 DEF Index!Below
<1>3. QED
  BY <1>2 DEF Index!Subtree, Index!Below

LEMMA DiskKeeps ==
  ASSUME Index!StoreAssumption, Index!TreeAssumption, Index!TypeOK, DiskInv, Index!DiskChanges
  PROVE  DiskInv'
<1>0. disk \in [Nodes -> Index!Rows]
  BY DEF Index!TypeOK
<1>1. SUFFICES ASSUME NEW m \in Nodes, Index!Exists(m)', Parent[m] \in Nodes
          PROVE Index!Exists(Parent[m])'
  BY DEF DiskInv
<1>2. Index!Above[m] = {Parent[m]} \cup Index!Above[Parent[m]]
  BY <1>1, AboveDef
<1>3. ASSUME NEW n \in Nodes, NEW version \in 1..MaxVersion,
             \A f \in Index!Above[n] : Index!Exists(f),
             disk' = [disk EXCEPT ![n] = version]
      PROVE  Index!Exists(Parent[m])'
  <2>1. version # NoRow
    BY DEF Index!StoreAssumption
  <2>2. \A k \in Nodes : Index!Exists(k)' <=> k = n \/ Index!Exists(k)
    BY <1>0, <1>3, <2>1 DEF Index!Exists
  <2>3. Index!Exists(Parent[m])
    BY <1>1, <1>2, <1>3, <2>2 DEF DiskInv
  <2>4. QED
    BY <1>1, <2>2, <2>3
<1>4. ASSUME NEW n \in Nodes,
             disk' = [k \in Nodes |-> IF k \in Index!Subtree(n) THEN NoRow ELSE disk[k]]
      PROVE  Index!Exists(Parent[m])'
  <2>1. \A k \in Nodes : Index!Exists(k)' <=> k \notin Index!Subtree(n) /\ Index!Exists(k)
    BY <1>4 DEF Index!Exists
  <2>2. QED
    BY <1>1, <2>1, BelowUp DEF DiskInv
<1>5. QED
  BY <1>3, <1>4 DEF Index!DiskChanges

(* The walk begins with every root ahead.                                  *)
LEMMA AheadStart ==
  ASSUME Index!TreeAssumption, Index!StartRefresh
  PROVE  AheadInv' /\ \A f \in Index!Range(Roots) : \E i \in 1..Len(ahead') : ahead'[i].folder = f
<1> DEFINE pushed == [i \in DOMAIN Roots |-> [folder |-> Roots[i], depth |-> 0]]
<1>1. /\ Roots \in Seq(Index!Range(Roots)) /\ Len(Roots) \in Nat /\ DOMAIN Roots = 1..Len(Roots)
      /\ \A i \in 1..Len(Roots) : Roots[i] \in Index!Range(Roots) /\ Roots[i] \notin Nodes
  BY LenProperties DEF Index!TreeAssumption, Index!Range
<1>2. pushed \in Seq([folder : Folders \cup Index!Range(Roots), depth : Nat])
          /\ Len(pushed) = Len(Roots)
  BY <1>1
<1>3. ahead' = Index!Reverse(pushed)
  BY DEF Index!StartRefresh
<1>4. ahead' = [i \in 1..Len(Roots) |-> pushed[(Len(Roots) - i) + 1]]
  BY <1>2, <1>3 DEF Index!Reverse
<1>5. \A i \in 1..Len(Roots) : (Len(Roots) - i) + 1 \in 1..Len(Roots)
  BY <1>1
<1>6. \A i \in 1..Len(Roots) : ahead'[i] = [folder |-> Roots[(Len(Roots) - i) + 1], depth |-> 0]
  BY <1>1, <1>4, <1>5
<1>7. ahead' \in Seq([folder : Folders \cup Index!Range(Roots), depth : Nat])
          /\ Len(ahead') = Len(Roots)
  <2>1. \A i \in 1..Len(Roots) :
          pushed[(Len(Roots) - i) + 1] \in [folder : Folders \cup Index!Range(Roots), depth : Nat]
    BY <1>1, <1>5
  <2>2. QED
    <3> HIDE DEF pushed
    <3> QED  BY <1>1, <1>4, <2>1
<1>8. AheadInv'
  <2>1. \A i \in 1..Len(Roots) :
          ahead'[i].depth = 0 /\ ahead'[i].folder = Roots[(Len(Roots) - i) + 1]
    <3> HIDE DEF pushed
    <3>1. TAKE i \in 1..Len(Roots)
    <3>2. ahead'[i] = [folder |-> Roots[(Len(Roots) - i) + 1], depth |-> 0]
      BY <1>6
    <3>3. QED
      BY <3>2
  <2>2. \A i \in 1..Len(Roots) : ahead'[i].folder \notin Nodes
    BY <1>1, <1>5, <2>1
  <2>3. QED
    BY <1>7, <2>1, <2>2 DEF AheadInv
<1>9. ASSUME NEW f \in Index!Range(Roots) PROVE \E i \in 1..Len(ahead') : ahead'[i].folder = f
  <2>1. PICK j \in 1..Len(Roots) : Roots[j] = f
    BY <1>1, <1>9 DEF Index!Range
  <2>2. PICK i \in 1..Len(Roots) : (Len(Roots) - i) + 1 = j
    <3>1. /\ (Len(Roots) - j) + 1 \in 1..Len(Roots)
          /\ (Len(Roots) - ((Len(Roots) - j) + 1)) + 1 = j
      BY <1>1, <1>5
    <3>2. QED
      BY <3>1
  <2>3. ahead'[i].folder = f
    <3>1. ahead'[i] = [folder |-> Roots[j], depth |-> 0]
      BY <1>6, <2>2
    <3>2. QED
      BY <2>1, <3>1
  <2>4. QED
    BY <1>7, <2>3
<1>10. QED
  BY <1>8, <1>9

(* What is left of a sequence when its last element goes.                  *)
LEMMA FrontAndLast ==
  ASSUME NEW S, NEW s \in Seq(S), s # <<>>
  PROVE  /\ Len(s) \in Nat \ {0} /\ Index!Last(s) = s[Len(s)] /\ Index!Last(s) \in S
         /\ Index!Front(s) \in Seq(S) /\ Len(Index!Front(s)) = Len(s) - 1
         /\ \A i \in 1..Len(s) - 1 : Index!Front(s)[i] = s[i]
<1>1. Len(s) \in Nat /\ s \in [1..Len(s) -> S]
  BY LenProperties
<1>2. Len(s) # 0
  BY EmptySeq
<1>3. Index!Last(s) = s[Len(s)] /\ Index!Last(s) \in S
  BY <1>1, <1>2 DEF Index!Last
<1>4. Index!Front(s) = SubSeq(s, 1, Len(s) - 1)
  BY DEF Index!Front
<1>5. /\ Index!Front(s) \in Seq(S) /\ Len(Index!Front(s)) = Len(s) - 1
      /\ \A i \in 1..Len(s) - 1 : Index!Front(s)[i] = s[i]
  BY <1>1, <1>2, <1>4, SubSeqProperties
<1>6. QED
  BY <1>1, <1>2, <1>3, <1>5

LEMMA AheadKeeps ==
  ASSUME Index!TreeAssumption, AheadInv, Index!VisitEntry \/ Index!LeaveFolder \/ Index!PassOver
  PROVE  AheadInv'
<1> DEFINE Frames == [folder : Folders \cup Index!Range(Roots), depth : Nat]
<1>0. /\ ahead # <<>> /\ ahead \in Seq(Frames) /\ Len(ahead) \in Nat \ {0}
      /\ Index!Innermost = ahead[Len(ahead)] /\ Index!Innermost \in Frames
  <2>1. ahead # <<>>
    BY DEF Index!VisitEntry, Index!LeaveFolder, Index!PassOver, Index!WalkStep
  <2>2. ahead \in Seq(Frames)
    BY DEF AheadInv
  <2> HIDE DEF Frames
  <2> QED  BY <2>1, <2>2, FrontAndLast DEF Index!Innermost
<1>1. CASE ahead' = ahead
  BY <1>1 DEF AheadInv
<1>2. CASE ahead' = Index!Front(ahead)
  <2>1. /\ ahead' \in Seq(Frames) /\ Len(ahead') = Len(ahead) - 1
        /\ \A i \in 1..Len(ahead') : ahead'[i] = ahead[i]
    <3> HIDE DEF Frames
    <3> QED  BY <1>0, <1>2, FrontAndLast
  <2>2. \A i \in 1..Len(ahead') : i \in 1..Len(ahead) /\ ahead'[i] = ahead[i]
    BY <1>0, <2>1
  <2>3. QED
    BY <2>1, <2>2 DEF AheadInv
<1>3. ASSUME NEW n \in Index!Entries(Index!Innermost), n \in Folders,
             ahead' = Append(ahead, [folder |-> n, depth |-> Index!Innermost.depth + 1])
      PROVE  AheadInv'
  <2>1. n \in Nodes /\ Parent[n] = Index!Innermost.folder
    BY DEF Index!Entries
  <2>2. Index!Innermost.depth + 1 = Index!Level[n]
    BY <1>0, <2>1, Deeper DEF AheadInv
  <2>3. [folder |-> n, depth |-> Index!Innermost.depth + 1] \in Frames
    BY <1>0, <1>3
  <2>4. /\ ahead' \in Seq(Frames) /\ Len(ahead') = Len(ahead) + 1
        /\ \A i \in 1..Len(ahead) : ahead'[i] = ahead[i]
        /\ ahead'[Len(ahead) + 1] = [folder |-> n, depth |-> Index!Innermost.depth + 1]
    BY <1>0, <1>3, <2>3, AppendProperties
  <2>5. ASSUME NEW i \in 1..Len(ahead')
        PROVE  ahead'[i].depth = IF ahead'[i].folder \in Nodes THEN Index!Level[ahead'[i].folder]
            ELSE 0
    <3>1. CASE i \in 1..Len(ahead)
      BY <2>4, <3>1 DEF AheadInv
    <3>2. CASE i = Len(ahead) + 1
      <4>1. ahead'[i].folder = n /\ ahead'[i].depth = Index!Innermost.depth + 1
        BY <2>4, <3>2
      <4>2. QED
        BY <2>1, <2>2, <4>1
    <3>3. QED
      BY <1>0, <2>4, <3>1, <3>2
  <2>6. QED
    BY <2>4, <2>5 DEF AheadInv
<1>4. QED
  BY <1>1, <1>2, <1>3 DEF Index!VisitEntry, Index!LeaveFolder, Index!PassOver

(* The disk changes: what was there all along is less.                     *)
LEMMA ThereShrinks ==
  ASSUME Index!StoreAssumption, Index!TreeAssumption, Index!TypeOK, ThereInv, Index!DiskChanges
  PROVE  /\ ThereInv' /\ there' \subseteq there /\ same' \subseteq same
         /\ \A n \in there' \cap same' : disk'[n] = disk[n]
<1>0. disk \in [Nodes -> Index!Rows]
  BY DEF Index!TypeOK
<1>1. ASSUME NEW n \in Nodes, NEW version \in 1..MaxVersion,
             disk' = [disk EXCEPT ![n] = version], there' = there, same' = same \ {n}
      PROVE  /\ ThereInv' /\ there' \subseteq there /\ same' \subseteq same
             /\ \A k \in there' \cap same' : disk'[k] = disk[k]
  <2>1. version # NoRow
    BY DEF Index!StoreAssumption
  <2>2. \A k \in Nodes : Index!Exists(k) => Index!Exists(k)'
    BY <1>0, <1>1, <2>1 DEF Index!Exists
  <2>3. QED
    BY <1>0, <1>1, <2>2 DEF ThereInv
<1>2. ASSUME NEW n \in Nodes,
             disk' = [k \in Nodes |-> IF k \in Index!Subtree(n) THEN NoRow ELSE disk[k]],
             there' = there \ Index!Subtree(n), same' = same
      PROVE  /\ ThereInv' /\ there' \subseteq there /\ same' \subseteq same
             /\ \A k \in there' \cap same' : disk'[k] = disk[k]
  <2>1. \A k \in there' : k \in Nodes /\ disk'[k] = disk[k]
    BY <1>2 DEF ThereInv
  <2>2. \A k \in there' : Parent[k] \in Nodes => Parent[k] \in there'
    BY <1>2, BelowUp DEF ThereInv
  <2>3. QED
    BY <1>2, <2>1, <2>2 DEF ThereInv, Index!Exists
<1>3. QED
  BY <1>1, <1>2 DEF Index!DiskChanges

(* What cannot be read was not there all along, nor what is below it.      *)
LEMMA ThereKeeps ==
  ASSUME Index!TreeAssumption, ThereInv,
         Index!VisitEntry \/ Index!LeaveFolder \/ Index!PassOver
  PROVE  ThereInv' /\ there' \subseteq there /\ same' \subseteq same /\ disk' = disk
<1>1. disk' = disk
  BY DEF Index!VisitEntry, Index!LeaveFolder, Index!PassOver, Index!WalkStep, Index!diskVars
<1>2. CASE Index!VisitEntry
  <2>1. there' = there
    BY <1>2 DEF Index!VisitEntry
  <2>2. same' \subseteq same
    BY <1>2 DEF Index!VisitEntry
  <2>3. QED
    BY <1>1, <2>1, <2>2 DEF ThereInv, Index!Exists
<1>3. CASE Index!LeaveFolder
  BY <1>1, <1>3 DEF Index!LeaveFolder, Index!sinceVars, ThereInv, Index!Exists
<1>4. CASE Index!PassOver
  <2>1. same' = same
    BY <1>4 DEF Index!PassOver
  <2>2. CASE \E n \in Nodes : there' = there \ Index!Subtree(n)
    <3>1. PICK n \in Nodes : there' = there \ Index!Subtree(n)
      BY <2>2
    <3>2. ASSUME NEW k \in there', Parent[k] \in Nodes PROVE Parent[k] \in there'
      BY <3>1, <3>2, BelowUp DEF ThereInv
    <3>3. QED
      BY <1>1, <2>1, <3>1, <3>2 DEF ThereInv, Index!Exists
  <2>3. CASE there' = there \ Index!Below(Index!Innermost.folder)
    <3>1. ASSUME NEW k \in there', Parent[k] \in Nodes PROVE Parent[k] \in there'
      BY <2>3, <3>1, BelowUp DEF ThereInv
    <3>2. QED
      BY <1>1, <2>1, <2>3, <3>1 DEF ThereInv, Index!Exists
  <2>4. QED
    BY <1>4, <2>2, <2>3 DEF Index!PassOver, Index!Entries
<1>5. QED
  BY <1>1, <1>2, <1>3, <1>4

(* A folder is left when all that is wanted in it is met.                  *)
LEMMA MeetKeeps ==
  ASSUME Index!StoreAssumption, Index!TreeAssumption, Index!TypeOK, ThereInv, AheadInv, MeetInv,
         Index!VisitEntry \/ Index!LeaveFolder \/ Index!PassOver
  PROVE  MeetInv'
<1> DEFINE Frames == [folder : Folders \cup Index!Range(Roots), depth : Nat]
<1>0. /\ ahead # <<>> /\ ahead \in Seq(Frames) /\ Len(ahead) \in Nat \ {0}
      /\ Index!Innermost = ahead[Len(ahead)] /\ Index!Innermost \in Frames
      /\ found \in [Nodes -> Index!Rows] /\ visited \subseteq Nodes
  <2>1. ahead # <<>>
    BY DEF Index!VisitEntry, Index!LeaveFolder, Index!PassOver, Index!WalkStep
  <2>2. ahead \in Seq(Frames) /\ found \in [Nodes -> Index!Rows] /\ visited \subseteq Nodes
    BY DEF AheadInv, Index!TypeOK
  <2> HIDE DEF Frames
  <2> QED  BY <2>1, <2>2, FrontAndLast DEF Index!Innermost
<1>1. /\ disk' = disk /\ there' \subseteq there /\ same' \subseteq same
      /\ \A n : Wanted(n)' => Wanted(n)
      /\ \A n \in there : n \in Nodes /\ Index!Exists(n)
  BY ThereKeeps DEF Wanted, ThereInv
<1>2. CASE Index!VisitEntry
  <2> DEFINE Visits(n, modified) ==
        /\ visited' = visited \cup {n}
        /\ found' = [found EXCEPT ![n] = modified]
        /\ same' = IF modified = disk[n] THEN same ELSE same \ {n}
        /\ ahead' = IF n \in Folders
                    THEN Append(ahead, [folder |-> n, depth |-> Index!Innermost.depth + 1])
                    ELSE ahead
  <2>a. PICK n \in Index!Entries(Index!Innermost) :
          \E modified \in {disk[n], 0} : Visits(n, modified)
    BY <1>2 DEF Index!VisitEntry
  <2>1. PICK modified \in {disk[n], 0} : Visits(n, modified)
    BY <2>a
  <2>2. n \in Nodes \ visited /\ disk[n] # NoRow /\ modified # NoRow
    BY DEF Index!Entries, Index!Exists, Index!StoreAssumption
  <2>3. ASSUME NEW m \in visited' \cap there' PROVE ListedIn(found, m)'
    <3>1. CASE m = n
      BY <1>0, <1>1, <2>1, <2>2, <3>1 DEF ListedIn
    <3>2. CASE m # n
      <4>1. m \in visited \cap there /\ found'[m] = found[m] /\ m \in Nodes
        BY <1>0, <1>1, <2>1, <2>3, <3>2
      <4>2. QED
        BY <1>1, <4>1 DEF MeetInv, ListedIn
    <3>3. QED
      BY <3>1, <3>2
  <2>4. /\ \A f : (\E i \in 1..Len(ahead) : ahead[i].folder = f)
                    => \E i \in 1..Len(ahead') : ahead'[i].folder = f
        /\ n \in Folders => \E i \in 1..Len(ahead') : ahead'[i].folder = n
    <3>1. CASE n \in Folders
      <4>1. [folder |-> n, depth |-> Index!Innermost.depth + 1] \in Frames
        BY <1>0, <3>1
      <4>2. /\ Len(ahead') = Len(ahead) + 1
            /\ \A i \in 1..Len(ahead) : ahead'[i] = ahead[i]
            /\ ahead'[Len(ahead) + 1] = [folder |-> n, depth |-> Index!Innermost.depth + 1]
        BY <1>0, <2>1, <3>1, <4>1, AppendProperties
      <4>3. ahead'[Len(ahead) + 1].folder = n /\ Len(ahead) + 1 \in 1..Len(ahead')
        BY <1>0, <4>2
      <4>4. \A i \in 1..Len(ahead) : i \in 1..Len(ahead')
        BY <1>0, <4>2
      <4>5. QED
        BY <4>2, <4>3, <4>4
    <3>2. CASE n \notin Folders
      BY <2>1, <3>2
    <3>3. QED
      BY <3>1, <3>2
  <2>5. ASSUME NEW m \in Nodes \ visited', Wanted(m)
        PROVE  \/ Parent[m] \in Nodes \ visited'
               \/ \E i \in 1..Len(ahead') : ahead'[i].folder = Parent[m]
    <3>1. m \in Nodes \ visited
      BY <2>1
    <3>2. CASE Parent[m] = n
      <4>1. n \in Folders
        BY <2>2, <3>1, <3>2, Deeper DEF Index!TreeAssumption
      <4>2. QED
        BY <2>4, <3>2, <4>1
    <3>3. CASE Parent[m] # n
      BY <2>1, <2>4, <2>5, <3>1, <3>3 DEF MeetInv
    <3>4. QED
      BY <3>2, <3>3
  <2>6. QED
    BY <1>1, <2>3, <2>5 DEF MeetInv
<1>3. ASSUME visited' = visited, found' = found, ahead' = Index!Front(ahead),
             \A m \in Nodes \ visited : Wanted(m)' => Parent[m] # Index!Innermost.folder
      PROVE  MeetInv'
  <2>1. /\ Len(ahead') = Len(ahead) - 1
        /\ \A i \in 1..Len(ahead') : ahead'[i] = ahead[i]
    <3> HIDE DEF Frames
    <3> QED  BY <1>0, <1>3, FrontAndLast
  <2>2. ASSUME NEW m \in Nodes \ visited, Wanted(m)'
        PROVE  \/ Parent[m] \in Nodes \ visited
               \/ \E i \in 1..Len(ahead') : ahead'[i].folder = Parent[m]
    <3>1. CASE Parent[m] \in Nodes \ visited
      BY <3>1
    <3>2. ASSUME NEW i \in 1..Len(ahead), ahead[i].folder = Parent[m]
          PROVE  \E k \in 1..Len(ahead') : ahead'[k].folder = Parent[m]
      <4>1. i # Len(ahead)
        BY <1>0, <1>3, <2>2, <3>2
      <4>2. i \in 1..Len(ahead')
        BY <1>0, <2>1, <4>1
      <4>3. QED
        BY <2>1, <3>2, <4>2
    <3>3. QED
      BY <1>1, <2>2, <3>1, <3>2 DEF MeetInv
  <2>3. \A m \in visited' \cap there' : ListedIn(found, m)'
    BY <1>1, <1>3 DEF MeetInv, ListedIn
  <2>4. QED
    BY <1>3, <2>2, <2>3 DEF MeetInv
<1>4. CASE Index!LeaveFolder
  <2>1. UNCHANGED <<visited, found>> /\ Index!Entries(Index!Innermost) = {}
            /\ ahead' = Index!Front(ahead)
    BY <1>4 DEF Index!LeaveFolder
  <2>2. ASSUME NEW m \in Nodes \ visited, Wanted(m), Parent[m] = Index!Innermost.folder PROVE FALSE
    <3>1. Index!Innermost.depth <= MaxDepth
      <4>1. Index!Innermost.depth = IF Parent[m] \in Nodes THEN Index!Level[Parent[m]] ELSE 0
        BY <1>0, <2>2 DEF AheadInv
      <4>2. Index!Level[m] <= MaxDepth + 1 /\ MaxDepth \in Nat
        BY <2>2 DEF Wanted, Index!TreeAssumption
      <4>3. QED
        BY <4>1, <4>2, Deeper
    <3>2. m \in Index!Entries(Index!Innermost)
      BY <1>1, <2>2, <3>1 DEF Index!Entries, Index!Reads, Wanted
    <3>3. QED
      BY <2>1, <3>2
  <2>3. QED
    BY <1>1, <1>3, <2>1, <2>2
<1>5. CASE Index!PassOver
  <2>1. ASSUME NEW n \in Index!Entries(Index!Innermost), visited' = visited \cup {n},
               there' = there \ Index!Subtree(n), ahead' = ahead, found' = found
        PROVE  MeetInv'
    <3>1. ASSUME NEW m \in Nodes \ visited', Wanted(m)'
          PROVE  \/ Parent[m] \in Nodes \ visited'
                 \/ \E i \in 1..Len(ahead') : ahead'[i].folder = Parent[m]
      <4>1. Parent[m] # n
        BY <2>1, <3>1 DEF Wanted, Index!Subtree, Index!Below
      <4>2. QED
        BY <1>1, <2>1, <3>1, <4>1 DEF MeetInv
    <3>2. ASSUME NEW m \in visited' \cap there' PROVE ListedIn(found, m)'
      <4>1. m \in visited \cap there
        BY <2>1, <3>2 DEF Index!Subtree
      <4>2. QED
        BY <1>1, <2>1, <4>1 DEF MeetInv, ListedIn
    <3>3. QED
      BY <3>1, <3>2 DEF MeetInv
  <2>2. ASSUME visited' = visited, found' = found, ahead' = Index!Front(ahead),
               there' = there \ Index!Below(Index!Innermost.folder)
        PROVE  MeetInv'
    <3>1. \A m \in Nodes : Wanted(m)' => Parent[m] # Index!Innermost.folder
      BY <2>2 DEF Wanted, Index!Below
    <3>2. QED
      BY <1>3, <2>2, <3>1
  <2>3. QED
    BY <1>5, <2>1, <2>2 DEF Index!PassOver
<1>6. QED
  BY <1>2, <1>4, <1>5

(* When no folder is left to read, nothing is left to meet: of what is left *)
(* the one least deep would be in a folder that is.                         *)
LEMMA WalkIsComplete ==
  ASSUME Index!TreeAssumption, ThereInv, MeetInv, ahead = <<>>
  PROVE  \A n \in Nodes : Wanted(n) => ListedIn(found, n)
<1> DEFINE missed == {n \in Nodes \ visited : Wanted(n)}
<1>1. ASSUME missed # {} PROVE FALSE
  <2> DEFINE levels == {Index!Level[n] : n \in missed}
  <2>1. levels \subseteq Nat /\ levels # {}
    BY <1>1, Deeper
  <2>2. PICK x \in levels : \A y \in levels : x <= y
    <3> HIDE DEF levels
    <3> QED  BY <2>1, NatLeast
  <2>3. PICK n \in missed : \A m \in missed : Index!Level[n] <= Index!Level[m]
    BY <2>2
  <2>4. Parent[n] \in Nodes \ visited
    BY DEF MeetInv
  <2>5. Index!Level[n] = Index!Level[Parent[n]] + 1 /\ Index!Level[Parent[n]] \in Nat
    BY <2>4, Deeper
  <2>6. Wanted(Parent[n])
    BY <2>4, <2>5 DEF Wanted, ThereInv, Index!TreeAssumption
  <2>7. Index!Level[n] <= Index!Level[Parent[n]]
    BY <2>3, <2>4, <2>6
  <2>8. QED
    BY <2>5, <2>7
<1>2. QED
  BY <1>1 DEF MeetInv, Wanted

LEMMA WalkNext ==
  ASSUME Index!StoreAssumption, Index!TreeAssumption, WalkInv, [Index!Next]_(Index!vars)
      PROVE WalkInv'
<1> USE DEF WalkInv
<1>1. StoreInv'
  BY StoreStep
<1>2. /\ RequestInv /\ Index!TypeOK /\ disk \in [Nodes -> Index!Rows]
  BY DEF StoreInv, Index!TypeOK
<1>a. ASSUME UNCHANGED <<disk, there, same>>
      PROVE  DiskInv' /\ ThereInv'
             /\ \A n : /\ Wanted(n)' <=> Wanted(n)
                       /\ n \in same' <=> n \in same
  BY <1>a DEF DiskInv, ThereInv, Index!Exists, Wanted
<1>b. ASSUME there' \subseteq there, same' \subseteq same,
             \A n \in there' \cap same' : disk'[n] = disk[n],
             UNCHANGED <<request, rows, at, answer>>
      PROVE  HandedInv' /\ Index!RefreshIsComplete'
  BY <1>b DEF HandedInv, Index!RefreshIsComplete, Wanted, ListedIn
<1>3. CASE Index!StartRefresh
  <2>1. UNCHANGED <<disk, request>> /\ at' = "walking" /\ request = Idle
    BY <1>2, <1>3 DEF Index!StartRefresh, Index!diskVars, RequestInv
  <2>2. AheadInv' /\ \A f \in Index!Range(Roots) : \E i \in 1..Len(ahead') : ahead'[i].folder = f
    BY <1>3, AheadStart
  <2>3. visited' = {} /\ there' = {n \in Nodes : Index!Exists(n)}
    BY <1>3 DEF Index!StartRefresh
  <2>4. \A n \in Nodes : Parent[n] \in Nodes \/ Parent[n] \in Index!Range(Roots)
    BY Deeper DEF Index!TreeAssumption
  <2>5. MeetInv'
    BY <2>2, <2>3, <2>4 DEF MeetInv
  <2>6. HandedInv' /\ Index!RefreshIsComplete'
    BY <2>1 DEF HandedInv, Index!RefreshIsComplete
  <2>7. DiskInv' /\ ThereInv'
    BY <2>1, <2>3 DEF DiskInv, ThereInv, Index!Exists
  <2>8. QED
    BY <1>1, <2>2, <2>5, <2>6, <2>7
<1>4. CASE Index!VisitEntry \/ Index!LeaveFolder \/ Index!PassOver
  <2>1. /\ UNCHANGED <<disk, request, rows, answer>>
        /\ at = "walking" /\ UNCHANGED at
    BY <1>4 DEF Index!VisitEntry, Index!LeaveFolder, Index!PassOver, Index!WalkStep,
       Index!diskVars
  <2>2. AheadInv' /\ DiskInv'
    BY <1>4, <2>1, AheadKeeps DEF DiskInv, Index!Exists
  <2>3. MeetInv' /\ ThereInv' /\ there' \subseteq there /\ same' \subseteq same
    BY <1>2, <1>4, <2>1, MeetKeeps, ThereKeeps
  <2>4. HandedInv' /\ Index!RefreshIsComplete'
    BY <1>b, <2>1, <2>3
  <2>5. QED
    BY <1>1, <2>2, <2>3, <2>4
<1>5. CASE Index!HandOver
  <2>1. /\ at = "walking" /\ ahead = <<>> /\ at' = "beginning"
        /\ request' = [op |-> "refresh", items |-> found]
        /\ UNCHANGED <<disk, ahead, there, same>>
    BY <1>5 DEF Index!HandOver, Index!Ask, Index!diskVars, Index!walkVars, Index!sinceVars
  <2>2. \A n \in Nodes : Wanted(n) => ListedIn(found, n)
    BY <2>1, WalkIsComplete
  <2>3. HandedInv' /\ Index!RefreshIsComplete' /\ AheadInv'
    BY <1>a, <2>1, <2>2 DEF HandedInv, Index!RefreshIsComplete, AheadInv, ListedIn
  <2>4. QED
    BY <1>1, <1>a, <2>1, <2>3
<1>6. CASE Index!CallUpsert \/ Index!CallDelete
  <2>1. /\ request'.op \in {"upsert", "delete"} /\ at' \in {"upserting", "deleting"}
        /\ UNCHANGED <<disk, ahead, there, same>>
    BY <1>6 DEF Index!CallUpsert, Index!CallDelete, Index!Ask, Index!diskVars, Index!walkVars,
       Index!sinceVars
  <2>2. QED
    BY <1>1, <1>a, <2>1 DEF HandedInv, Index!RefreshIsComplete, AheadInv
<1>7. CASE Index!Commit
  <2>1. /\ at = "committing" /\ request.op = "refresh" /\ request \in Requests
        /\ rows' = txn.rows
        /\ txn.rows = [n \in Nodes |-> IF n \in Index!Asked THEN request.items[n] ELSE rows[n]]
        /\ UNCHANGED <<disk, ahead, there, same, request>> /\ at' = "returning"
    BY <1>7 DEF Index!Commit, Index!Statement, Index!Answer, StoreInv, TxnInv, RequestInv,
       Refreshing, Index!Seen, Index!diskVars,
                Index!walkVars, Index!sinceVars
  <2>2. ASSUME NEW n \in Nodes, Wanted(n), request # Idle PROVE ListedIn(rows', n)
    <3>1. ListedIn(request.items, n) /\ request.items[n] # NoRow
      BY <2>1, <2>2 DEF HandedInv, ListedIn
    <3>2. n \in Index!Asked
      BY <3>1 DEF Index!Asked
    <3>3. rows'[n] = request.items[n]
      BY <2>1, <3>2
    <3>4. QED
      BY <3>1, <3>3 DEF ListedIn
  <2>3. Index!RefreshIsComplete'
    BY <1>2, <2>1, <2>2 DEF Index!RefreshIsComplete, RequestInv, Wanted, ListedIn, ThereInv
  <2>4. QED
    BY <1>1, <1>a, <2>1, <2>3 DEF HandedInv, AheadInv, ListedIn
<1>8. CASE \/ Index!Begin \/ Index!BeginFails \/ Index!WriteItem \/ Index!ItemsWritten
           \/ Index!Touch \/ Index!RollBack \/ Index!CommitFails
           \/ Index!Upsert \/ Index!Delete \/ Index!TouchAfterDelete \/ Index!StatementFails
  <2>1. UNCHANGED <<disk, ahead, there, same, request>> /\ at # "walking" /\ at' # "walking"
    BY <1>8 DEF Index!Begin, Index!BeginFails, Index!WriteItem, Index!ItemsWritten, Index!Touch,
       Index!RollBack, Index!CommitFails, Index!Upsert, Index!Delete,
         Index!TouchAfterDelete, Index!StatementFails, Index!Statement, Index!Answer,
         Index!diskVars, Index!walkVars, Index!sinceVars
  <2>2. at' = "returning" /\ answer' = "ok" => request.op # "refresh"
    BY <1>2, <1>8 DEF Index!Begin, Index!BeginFails, Index!WriteItem, Index!ItemsWritten,
       Index!Touch, Index!RollBack, Index!CommitFails, Index!Upsert,
         Index!Delete, Index!TouchAfterDelete, Index!StatementFails, Index!Statement, Index!Answer,
         RequestInv
  <2>3. QED
    BY <1>1, <1>a, <2>1, <2>2 DEF HandedInv, AheadInv, ListedIn, Index!RefreshIsComplete
<1>9. CASE Index!Return
  <2>1. UNCHANGED <<disk, ahead, there, same>> /\ at' = "idle" /\ request' = Idle
    BY <1>9 DEF Index!Return, Index!diskVars, Index!walkVars, Index!sinceVars
  <2>2. QED
    BY <1>1, <1>a, <2>1 DEF HandedInv, AheadInv, Index!RefreshIsComplete
<1>10. CASE Index!Reopen
  <2>1. UNCHANGED disk /\ ahead' = <<>> /\ there' = {} /\ at' = "idle" /\ request' = Idle
    BY <1>10 DEF Index!Reopen, Index!diskVars
  <2>2. DiskInv' /\ ThereInv'
    BY <2>1 DEF DiskInv, ThereInv, Index!Exists
  <2>3. QED
    BY <1>1, <2>1, <2>2 DEF HandedInv, AheadInv, Index!RefreshIsComplete
<1>11. CASE Index!DiskChanges
  <2>1. UNCHANGED <<at, ahead, visited, found, request, rows, answer>>
    BY <1>11 DEF Index!DiskChanges, Index!walkVars
  <2>2. DiskInv' /\ AheadInv'
    BY <1>2, <1>11, <2>1, DiskKeeps DEF AheadInv
  <2>3. /\ ThereInv' /\ there' \subseteq there /\ same' \subseteq same
        /\ \A n \in there' \cap same' : disk'[n] = disk[n]
    BY <1>2, <1>11, ThereShrinks
  <2>4. at' = "walking" => MeetInv'
    BY <2>1, <2>3 DEF MeetInv, Wanted, ListedIn
  <2>5. QED
    BY <1>1, <1>b, <2>1, <2>2, <2>3, <2>4
<1>12. CASE UNCHANGED Index!vars
  <2>1. UNCHANGED <<disk, ahead, at, there, same, visited, found, request, answer, rows>>
    BY <1>12 DEF Index!vars, Index!diskVars, Index!walkVars, Index!sinceVars
  <2>2. AheadInv' /\ (MeetInv' <=> MeetInv)
    BY <2>1 DEF AheadInv, MeetInv, Wanted, ListedIn
  <2>3. HandedInv' /\ Index!RefreshIsComplete'
    BY <1>b, <2>1
  <2>4. QED
    BY <1>1, <1>a, <2>1, <2>2, <2>3
<1>13. QED
  BY <1>3, <1>4, <1>5, <1>6, <1>7, <1>8, <1>9, <1>10, <1>11, <1>12
     DEF Index!Next, Index!Walk, Index!Store

(* An acknowledged refresh has every file and folder down to the depth      *)
(* asked for that was on the disk, and could be read, ever since it began,  *)
(* whatever else changed (Indexer.collect_root, IndexStore.refresh_items),  *)
(* for every tree.                                                          *)
THEOREM NothingIsMissed ==
  ASSUME Index!TreeAssumption PROVE Index!Spec => []RefreshIsComplete
<1>1. Index!Init => WalkInv
  BY WalkInit, IndexAssumption
<1>2. WalkInv /\ [Index!Next]_(Index!vars) => WalkInv'
  BY WalkNext, IndexAssumption
<1>3. WalkInv => RefreshIsComplete
  BY DEF WalkInv, RefreshIsComplete
<1>4. QED
  BY <1>1, <1>2, <1>3, PTL DEF Index!Spec

-----------------------------------------------------------------------------
(***************************************************************************)
(* The walk below the folders of the user, of FileSystemWalk alone.        *)
(***************************************************************************)

(* What goes from each number to the next by a rule has a value at each.   *)
Rules(N, V) == [1..N -> [V -> V]]
Followed(N, V, v, rule) ==
  \E g \in [0..N -> V] : g[0] = v /\ \A n \in 1..N : g[n] = rule[n][g[n - 1]]

LEMMA Recursion ==
  ASSUME NEW N \in Nat, NEW V, NEW v \in V, NEW rule \in Rules(N, V)
  PROVE  Followed(N, V, v, rule)
<1> DEFINE Goes(g, k) == g[0] = v /\ \A n \in 1..k : g[n] = rule[n][g[n - 1]]
           T == {k \in Nat : k <= N => \E g \in [0..k -> V] : Goes(g, k)}
<1> USE DEF Rules
<1>1. 0 \in T
  <2>1. [n \in 0..0 |-> v] \in [0..0 -> V] /\ Goes([n \in 0..0 |-> v], 0)
    OBVIOUS
  <2>2. QED
    <3> HIDE DEF Goes
    <3> QED  BY <2>1
<1>2. ASSUME NEW k \in Nat, k \in T PROVE k + 1 \in T
  <2>1. SUFFICES ASSUME k + 1 <= N PROVE \E h \in [0..k + 1 -> V] : Goes(h, k + 1)
    OBVIOUS
  <2>2. PICK g \in [0..k -> V] : Goes(g, k)
    BY <1>2, <2>1
  <2> DEFINE h == [n \in 0..k + 1 |-> IF n = k + 1 THEN rule[k + 1][g[k]] ELSE g[n]]
  <2>3. h \in [0..k + 1 -> V]
    <3>1. k + 1 \in 1..N /\ k \in 0..k
      BY <2>1
    <3>2. rule[k + 1] \in [V -> V] /\ g[k] \in V
      BY <3>1
    <3>3. rule[k + 1][g[k]] \in V
      BY <3>2
    <3>4. ASSUME NEW n \in 0..k + 1 PROVE n = k + 1 \/ n \in 0..k
      OBVIOUS
    <3>5. QED
      BY <3>3, <3>4
  <2>4. h[0] = v
    BY <2>2
  <2>5. ASSUME NEW n \in 1..k + 1 PROVE h[n] = rule[n][h[n - 1]]
    <3>1. CASE n = k + 1
      BY <3>1
    <3>2. CASE n # k + 1
      <4>1. n \in 1..k /\ n - 1 \in 0..k + 1 /\ n - 1 # k + 1 /\ n \in 0..k + 1
        BY <3>2
      <4>2. g[n] = rule[n][g[n - 1]]
        BY <2>2, <4>1
      <4>3. h[n] = g[n] /\ h[n - 1] = g[n - 1]
        BY <3>2, <4>1
      <4>4. QED
        BY <4>2, <4>3
    <3>3. QED
      BY <3>1, <3>2
  <2>6. Goes(h, k + 1)
    BY <2>4, <2>5
  <2>7. QED
    <3> HIDE DEF h, Goes
    <3> QED  BY <2>3, <2>6
<1>3. N \in T
  <2> HIDE DEF T
  <2> QED  BY <1>1, <1>2, NatAll
<1>4. QED
  BY <1>3 DEF Followed
Dirs == Subfolders \cup Walk!Range(Places)
Lists == Seq(Listed)
Walks == [Dirs -> [Lists -> Lists]]

(* What goes from each number to the one before it by a rule has a value   *)
(* at each.                                                                *)
RulesBack(N, V) == [0..N -> [V -> V]]
FollowedBack(N, V, v, rule) ==
  \E g \in [0..N -> V] : g[N] = v /\ \A n \in 0..N : n < N => g[n] = rule[n][g[n + 1]]

LEMMA BackwardRecursion ==
  ASSUME NEW N \in Nat, NEW V, NEW v \in V, NEW rule \in RulesBack(N, V)
  PROVE  FollowedBack(N, V, v, rule)
<1> USE DEF RulesBack
<1> DEFINE back == [n \in 1..N |-> rule[N - n]]
<1>1. back \in Rules(N, V)
  BY DEF Rules
<1>2. PICK h \in [0..N -> V] : h[0] = v /\ \A n \in 1..N : h[n] = back[n][h[n - 1]]
  <2> HIDE DEF back
  <2>1. Followed(N, V, v, back)
    BY <1>1, Recursion
  <2>2. QED
    BY <2>1 DEF Followed
<1> DEFINE g == [n \in 0..N |-> h[N - n]]
<1>3. g \in [0..N -> V] /\ g[N] = v
  BY <1>2
<1>4. ASSUME NEW n \in 0..N, n < N PROVE g[n] = rule[n][g[n + 1]]
  <2>1. N - n \in 1..N /\ N - n - 1 \in 0..N /\ n + 1 \in 0..N /\ N - (n + 1) = N - n - 1
        /\ N - (N - n) = n
    BY <1>4
  <2>2. g[n] = h[N - n] /\ g[n + 1] = h[N - n - 1]
    BY <2>1
  <2>3. h[N - n] = back[N - n][h[N - n - 1]]
    BY <1>2, <2>1
  <2>4. back[N - n] = rule[n]
    BY <2>1
  <2>5. QED
    BY <2>2, <2>3, <2>4
<1>5. QED
  <2> HIDE DEF g
  <2> QED  BY <1>3, <1>4 DEF FollowedBack

(* What holds of a number and goes from each to the one before it holds of *)
(* all below.                                                              *)
LEMMA NatBelow ==
  ASSUME NEW T, NEW N \in Nat, N \in T, \A n \in Nat : n < N /\ n + 1 \in T => n \in T
  PROVE  0..N \subseteq T
<1> DEFINE U == {k \in Nat : k <= N => N - k \in T}
<1>1. 0 \in U
  OBVIOUS
<1>2. ASSUME NEW k \in Nat, k \in U PROVE k + 1 \in U
  <2>1. SUFFICES ASSUME k + 1 <= N PROVE N - (k + 1) \in T
    OBVIOUS
  <2>2. N - (k + 1) \in Nat /\ N - (k + 1) < N /\ N - (k + 1) + 1 = N - k /\ N - k \in T
    BY <1>2, <2>1
  <2>3. QED
    BY <2>2
<1>3. Nat \subseteq U
  <2> HIDE DEF U
  <2> QED  BY <1>1, <1>2, NatAll
<1>4. ASSUME NEW n \in 0..N PROVE n \in T
  <2>1. N - n \in U /\ N - n <= N /\ N - (N - n) = n
    BY <1>3
  <2>2. QED
    BY <2>1
<1>5. QED
  BY <1>4

-----------------------------------------------------------------------------
(* A list with at most as many entries as the walk may collect, none twice. *)
Fits(s) == s \in Lists /\ Walk!IsInjective(s) /\ Len(s) <= MaxEntries

(* What the walk of a set of entries makes of a list: entries of the set   *)
(* are added, all of them if the list does not fill up.                    *)
Grown(s, r, more) ==
  /\ Fits(r) /\ Len(s) <= Len(r)
  /\ Walk!Range(s) \subseteq Walk!Range(r)
  /\ Walk!Range(r) \subseteq Walk!Range(s) \cup more
  /\ Len(r) < MaxEntries => more \subseteq Walk!Range(r)

LEMMA GrownSame ==
  ASSUME NEW s, Fits(s), NEW more, Walk!Full(s) \/ more = {}
  PROVE  Grown(s, s, more)
<1>1. Len(s) \in Nat /\ MaxEntries \in Nat
  BY WalkAssumption DEF Walk!WalkAssumption, Fits, Lists
<1>2. QED
  BY <1>1 DEF Grown, Fits, Walk!Full

LEMMA GrownTwice ==
  ASSUME NEW s, NEW r, NEW t, NEW a, NEW b, Fits(s), Grown(s, r, a), Grown(r, t, b)
  PROVE  Grown(s, t, a \cup b)
<1>1. Len(s) \in Nat /\ Len(r) \in Nat /\ Len(t) \in Nat /\ MaxEntries \in Nat
  BY WalkAssumption DEF Walk!WalkAssumption, Grown, Fits, Lists
<1>2. QED
  BY <1>1 DEF Grown

LEMMA GrownByOne ==
  ASSUME NEW s, Fits(s), ~Walk!Full(s), NEW n \in Listed, n \notin Walk!Range(s)
  PROVE  Grown(s, Append(s, n), {n})
<1> DEFINE r == Append(s, n)
<1>1. /\ s \in Seq(Listed) /\ Len(s) \in Nat /\ MaxEntries \in Nat /\ DOMAIN s = 1..Len(s)
      /\ r \in Seq(Listed) /\ Len(r) = Len(s) + 1 /\ DOMAIN r = 1..Len(s) + 1
      /\ r[Len(s) + 1] = n /\ \A i \in 1..Len(s) : r[i] = s[i]
  BY WalkAssumption DEF Walk!WalkAssumption, Fits, Lists
<1> HIDE DEF r
<1>2. Len(r) <= MaxEntries
  BY <1>1 DEF Walk!Full
<1>3. Walk!Range(r) = Walk!Range(s) \cup {n}
  <2>1. ASSUME NEW x \in Walk!Range(r) PROVE x \in Walk!Range(s) \cup {n}
    <3>1. PICK i \in 1..Len(s) + 1 : r[i] = x
      BY <1>1 DEF Walk!Range
    <3>2. i = Len(s) + 1 \/ i \in 1..Len(s)
      BY <1>1
    <3>3. QED
      BY <1>1, <3>1, <3>2 DEF Walk!Range
  <2>2. ASSUME NEW x \in Walk!Range(s) PROVE x \in Walk!Range(r)
    <3>1. PICK i \in 1..Len(s) : s[i] = x
      BY <1>1 DEF Walk!Range
    <3>2. i \in 1..Len(s) + 1 /\ r[i] = x
      BY <1>1, <3>1
    <3>3. QED
      BY <1>1, <3>2 DEF Walk!Range
  <2>3. n \in Walk!Range(r)
    BY <1>1 DEF Walk!Range
  <2>4. QED
    BY <2>1, <2>2, <2>3
<1>4. ASSUME NEW i \in DOMAIN r, NEW j \in DOMAIN r, r[i] = r[j] PROVE i = j
  <2>1. /\ i \in 1..Len(s) \/ i = Len(s) + 1
        /\ j \in 1..Len(s) \/ j = Len(s) + 1
    BY <1>1
  <2>2. \A k \in 1..Len(s) : s[k] # n
    BY <1>1 DEF Walk!Range
  <2>3. \A k, l \in 1..Len(s) : s[k] = s[l] => k = l
    BY <1>1 DEF Fits, Walk!IsInjective
  <2>4. QED
    BY <1>1, <1>4, <2>1, <2>2, <2>3
<1>5. Walk!IsInjective(r)
  BY <1>4 DEF Walk!IsInjective
<1>6. QED
  BY <1>1, <1>2, <1>3, <1>5 DEF Grown, Fits, Lists, r

(* The two loops of the walk: each step deals with a set of its own.       *)
Parts(N, part) == UNION {part[k] : k \in 1..N}
LoopOver(N, s, part, g) ==
  /\ Fits(s) /\ g[0] = s
  /\ \A k \in 1..N : Fits(g[k - 1]) /\ Walk!Range(g[k - 1]) \cap part[k] = {}
                      => Grown(g[k - 1], g[k], part[k])
  /\ \A k \in 1..N : Walk!Range(s) \cap part[k] = {}
  /\ \A k, l \in 1..N : k # l => part[k] \cap part[l] = {}

LEMMA LoopGrows ==
  ASSUME NEW N \in Nat, NEW s, NEW part, NEW g, LoopOver(N, s, part, g)
  PROVE  Grown(s, g[N], Parts(N, part))
<1> USE DEF LoopOver, Parts
<1> DEFINE upto(n) == UNION {part[k] : k \in 1..n}
           T == {n \in Nat : n <= N => Grown(s, g[n], upto(n))}
<1>1. 0 \in T
  <2>1. upto(0) = {}
    OBVIOUS
  <2>2. QED
    BY <2>1, GrownSame
<1>2. ASSUME NEW n \in Nat, n \in T PROVE n + 1 \in T
  <2>1. SUFFICES ASSUME n + 1 <= N PROVE Grown(s, g[n + 1], upto(n + 1))
    OBVIOUS
  <2>2. n + 1 \in 1..N /\ n + 1 - 1 = n /\ n <= N
    BY <2>1
  <2>3. Grown(s, g[n], upto(n))
    BY <1>2, <2>2
  <2>4. ASSUME NEW x \in part[n + 1], x \in Walk!Range(g[n]) PROVE FALSE
    <3>1. x \in Walk!Range(s) \cup upto(n)
      BY <2>3, <2>4 DEF Grown
    <3>2. x \notin Walk!Range(s)
      BY <2>2, <2>4
    <3>3. PICK k \in 1..n : x \in part[k]
      BY <3>1, <3>2
    <3>4. k \in 1..N /\ k # n + 1
      BY <2>1
    <3>5. QED
      BY <2>2, <2>4, <3>3, <3>4
  <2>5. Fits(g[n])
    BY <2>3 DEF Grown
  <2>6. Grown(g[n], g[n + 1], part[n + 1])
    BY <2>2, <2>4, <2>5
  <2>7. Grown(s, g[n + 1], upto(n) \cup part[n + 1])
    BY <2>3, <2>6, GrownTwice
  <2>8. upto(n) \cup part[n + 1] = upto(n + 1)
    <3>1. 1..n + 1 = 1..n \cup {n + 1}
      BY <1>2
    <3>2. QED
      BY <3>1
  <2>9. QED
    BY <2>7, <2>8
<1>3. N \in T
  <2> HIDE DEF T
  <2> QED  BY <1>1, <1>2, NatAll
<1>4. QED
  BY <1>3

-----------------------------------------------------------------------------
(* The loop over a list of entries goes through one list after the other.  *)
Visited(list, s, deeper) ==
  \E g \in [0..Len(list) -> Lists] :
    /\ g[0] = s /\ \A k \in 1..Len(list) : g[k] = Walk!Visit(list[k], g[k - 1], deeper)
    /\ Walk!VisitAll(list, s, deeper) = g[Len(list)]

LEMMA VisitAllIs ==
  ASSUME NEW list \in Lists, NEW s \in Lists, NEW deeper \in Walks
  PROVE  Visited(list, s, deeper)
<1> DEFINE N == Len(list)
           Does(g) == g = [k \in 0..N |-> IF k = 0 THEN s ELSE Walk!Visit(list[k], g[k - 1], deeper)]
           rule == [k \in 1..N |-> [r \in Lists |-> Walk!Visit(list[k], r, deeper)]]
           after == CHOOSE g : Does(g)
<1>1. N \in Nat /\ \A k \in 1..N : list[k] \in Listed
  BY DEF Lists
<1>2. ASSUME NEW n \in Listed, NEW r \in Lists PROVE Walk!Visit(n, r, deeper) \in Lists
  <2>1. Append(r, n) \in Lists
    BY DEF Lists
  <2>2. n \in Subfolders => deeper[n][Append(r, n)] \in Lists
    BY <2>1 DEF Walks, Dirs
  <2>3. QED
    BY <2>1, <2>2 DEF Walk!Visit
<1>3. rule \in Rules(N, Lists)
  BY <1>1, <1>2 DEF Rules
<1>4. PICK g \in [0..N -> Lists] : g[0] = s /\ \A k \in 1..N : g[k] = rule[k][g[k - 1]]
  <2> HIDE DEF rule, N
  <2>1. Followed(N, Lists, s, rule)
    BY <1>1, <1>3, Recursion
  <2>2. QED
    BY <2>1 DEF Followed
<1>5. ASSUME NEW k \in 1..N PROVE g[k] = Walk!Visit(list[k], g[k - 1], deeper)
  <2>1. k - 1 \in 0..N
    BY <1>1
  <2>2. g[k - 1] \in Lists
    BY <2>1
  <2>3. QED
    BY <1>4, <2>2
<1> HIDE DEF rule
<1>6. ASSUME NEW k \in 0..N
      PROVE  g[k] = IF k = 0 THEN s ELSE Walk!Visit(list[k], g[k - 1], deeper)
  <2>1. k # 0 => k \in 1..N
    BY <1>1
  <2>2. QED
    BY <1>4, <1>5, <2>1
<1>7. Does(g)
  BY <1>6
<1>8. Does(after)
  <2> HIDE DEF Does
  <2> QED  BY <1>7
<1>9. Walk!VisitAll(list, s, deeper) = after[N]
  BY DEF Walk!VisitAll
<1>10. after \in [0..N -> Lists] /\ after[0] = s
       /\ \A k \in 1..N : after[k] = Walk!Visit(list[k], after[k - 1], deeper)
  <2> HIDE DEF after
  <2>1. ASSUME NEW k \in 1..N
        PROVE  k \in 0..N /\ k # 0 /\ k - 1 \in 0..N
    BY <1>1
  <2>2. DOMAIN after = 0..N /\ after[0] = s
    BY <1>1, <1>8
  <2>3. ASSUME NEW k \in 1..N PROVE after[k] = Walk!Visit(list[k], after[k - 1], deeper)
    BY <1>8, <2>1
  <2> DEFINE T == {k \in Nat : k <= N => after[k] \in Lists}
  <2>4. 0 \in T
    BY <2>2
  <2>5. ASSUME NEW k \in Nat, k \in T PROVE k + 1 \in T
    <3>1. SUFFICES ASSUME k + 1 <= N PROVE after[k + 1] \in Lists
      OBVIOUS
    <3>2. k + 1 \in 1..N /\ k + 1 - 1 = k /\ after[k] \in Lists
      BY <1>1, <2>5, <3>1
    <3> QED
      BY <1>1, <1>2, <2>3, <3>2
  <2>6. Nat \subseteq T
    <3> HIDE DEF T
    <3> QED  BY <2>4, <2>5, NatAll
  <2>7. \A k \in 0..N : after[k] \in Lists
    BY <1>1, <2>6
  <2>8. after = [k \in 0..N |-> after[k]]
    <3> HIDE DEF N
    <3> QED  BY <1>8
  <2>9. QED
    BY <2>2, <2>3, <2>7, <2>8
<1>11. QED
  <2> HIDE DEF after
  <2> QED  BY <1>9, <1>10 DEF Visited

(* What collect_file_system_entries does at each depth.                    *)
Collect == Walk!CollectFileSystemEntries

LEMMA CollectIs ==
  /\ Collect \in [0..Deepest -> Walks]
  /\ \A depth \in 0..Deepest, f \in Dirs, s \in Lists :
       Collect[depth][f][s] = IF depth = Deepest \/ Walk!Full(s) THEN s
                              ELSE Walk!VisitAll(Contents[f], s, Collect[depth + 1])
<1> DEFINE D == Deepest
           Body(d, deeper) ==
             [root \in Dirs |-> [results \in Lists |->
                IF d >= D \/ Walk!Full(results) THEN results
                ELSE Walk!VisitAll(Contents[root], results, deeper)]]
           Does(g) == g = [d \in 0..D |-> Body(d, g[d + 1])]
           rule == [d \in 0..D |-> [deeper \in Walks |-> Body(d, deeper)]]
           last == [root \in Dirs |-> [results \in Lists |-> results]]
<1>1. D \in Nat /\ \A f \in Dirs : Contents[f] \in Lists
  BY WalkAssumption DEF Walk!WalkAssumption, Dirs, Lists
<1>2. ASSUME NEW d \in 0..D, NEW deeper \in Walks PROVE Body(d, deeper) \in Walks
  <2>1. ASSUME NEW root \in Dirs, NEW results \in Lists
        PROVE  Walk!VisitAll(Contents[root], results, deeper) \in Lists
    <3>1. Contents[root] \in Lists
      BY <1>1
    <3>2. Len(Contents[root]) \in 0..Len(Contents[root])
      BY <3>1 DEF Lists
    <3>3. Visited(Contents[root], results, deeper)
      BY <3>1, VisitAllIs
    <3>4. QED
      BY <3>2, <3>3 DEF Visited
  <2>2. QED
    BY <2>1 DEF Walks
<1>3. rule \in RulesBack(D, Walks) /\ last \in Walks
  <2>1. last \in Walks
    BY DEF Walks
  <2>2. QED
    <3> HIDE DEF Body
    <3> QED  BY <1>2, <2>1 DEF RulesBack
<1>4. PICK g \in [0..D -> Walks] : g[D] = last /\ \A d \in 0..D : d < D => g[d] = rule[d][g[d + 1]]
  <2> HIDE DEF rule, last, D, Body
  <2>1. FollowedBack(D, Walks, last, rule)
    BY <1>1, <1>3, BackwardRecursion
  <2>2. QED
    BY <2>1 DEF FollowedBack
<1>5. ASSUME NEW d \in 0..D PROVE g[d] = Body(d, g[d + 1])
  <2>1. CASE d = D
    <3>1. Body(d, g[d + 1]) = last
      BY <1>1, <2>1
    <3>2. QED
      BY <1>4, <2>1, <3>1
  <2>2. CASE d # D
    <3>1. d < D /\ d + 1 \in 0..D
      BY <1>1, <2>2
    <3>2. g[d + 1] \in Walks
      BY <3>1
    <3>3. g[d] = rule[d][g[d + 1]]
      BY <1>4, <3>1
    <3>4. QED
      <4> HIDE DEF Body
      <4> QED  BY <3>2, <3>3
  <2>3. QED
    BY <2>1, <2>2
<1>6. Does(g)
  <2> HIDE DEF Body
  <2> QED  BY <1>5
<1>7. Collect = CHOOSE h : Does(h)
  BY DEF Collect, Walk!CollectFileSystemEntries, Dirs, Lists
<1>8. Does(Collect)
  <2> HIDE DEF Does
  <2> QED  BY <1>6, <1>7
<1>9. \A d \in 0..D : Collect[d] = Body(d, Collect[d + 1])
  <2> HIDE DEF Body
  <2> QED  BY <1>8
<1>10. DOMAIN Collect = 0..D /\ Collect = [d \in 0..D |-> Collect[d]]
  <2> HIDE DEF Body
  <2> QED  BY <1>8
<1> DEFINE T == {d \in Nat : d <= D => Collect[d] \in Walks}
<1>11. D \in T
  <2>1. Collect[D] = Body(D, Collect[D + 1])
    BY <1>1, <1>9
  <2>2. Body(D, Collect[D + 1]) = last
    BY <1>1
  <2> HIDE DEF Body, last
  <2>3. QED
    BY <1>1, <1>3, <2>1, <2>2
<1>12. ASSUME NEW d \in Nat, d < D, d + 1 \in T PROVE d \in T
  <2>1. d \in 0..D /\ Collect[d + 1] \in Walks
    BY <1>1, <1>12
  <2> HIDE DEF Body
  <2>2. QED
    BY <1>2, <1>9, <2>1
<1>13. Collect \in [0..D -> Walks]
  <2>1. 0..D \subseteq T
    <3> HIDE DEF T, Body
    <3> QED  BY <1>1, <1>11, <1>12, NatBelow
  <2>2. QED
    BY <1>1, <1>10, <2>1
<1>14. ASSUME NEW depth \in 0..Deepest, NEW f \in Dirs, NEW s \in Lists
       PROVE  Collect[depth][f][s] = IF depth = Deepest \/ Walk!Full(s) THEN s
                                     ELSE Walk!VisitAll(Contents[f], s, Collect[depth + 1])
  <2>1. Collect[depth][f][s] = Body(depth, Collect[depth + 1])[f][s]
    BY <1>9
  <2>2. Body(depth, Collect[depth + 1])[f][s]
          = IF depth >= D \/ Walk!Full(s) THEN s
            ELSE Walk!VisitAll(Contents[f], s, Collect[depth + 1])
    OBVIOUS
  <2>3. depth >= D <=> depth = Deepest
    BY <1>1
  <2>4. QED
    BY <2>1, <2>2, <2>3
<1>15. QED
  BY <1>13, <1>14

-----------------------------------------------------------------------------
(* The entries that are there of a folder, and what is there below a       *)
(* folder whose entries are looked at with so many levels behind them.     *)
Kids(f) == Walk!Holds(f) \cap present
Below[depth \in 0..Deepest] ==
  [f \in Dirs |-> IF depth = Deepest THEN {}
                  ELSE Kids(f) \cup UNION {Below[depth + 1][k] : k \in Kids(f) \cap Subfolders}]

LEMMA TreeFacts ==
  /\ Deepest \in Nat /\ Subfolders \subseteq Listed /\ Walk!Range(Places) \cap Listed = {}
  /\ DOMAIN Contents = Dirs
  /\ \A f \in Dirs : Kids(f) \subseteq Listed
  /\ \A f, g \in Dirs : f # g => Kids(f) \cap Kids(g) = {}
<1>1. DOMAIN Contents = Dirs /\ \A f \in Dirs : Contents[f] \in Seq(Listed)
  BY WalkAssumption DEF Walk!WalkAssumption, Dirs
<1>2. ASSUME NEW f \in Dirs PROVE Walk!Holds(f) \subseteq Listed
  BY <1>1 DEF Walk!Holds, Walk!Range
<1>3. \A f, g \in Dirs : f # g => Walk!Holds(f) \cap Walk!Holds(g) = {}
  BY <1>1, WalkAssumption DEF Walk!WalkAssumption, Walk!Holds
<1>4. QED
  BY <1>1, <1>2, <1>3, WalkAssumption DEF Walk!WalkAssumption, Kids

LEMMA BelowIs ==
  ASSUME NEW d \in 0..Deepest, NEW f \in Dirs
  PROVE  Below[d][f] = IF d = Deepest THEN {}
                       ELSE Kids(f) \cup UNION {Below[d + 1][k] : k \in Kids(f) \cap Subfolders}
<1> DEFINE D == Deepest
           V == [Dirs -> SUBSET Listed]
           Body(n, next) == [r \in Dirs |-> IF n = D THEN {}
                               ELSE Kids(r) \cup UNION {next[k] : k \in Kids(r) \cap Subfolders}]
           Does(g) == g = [n \in 0..D |-> Body(n, g[n + 1])]
           rule == [n \in 0..D |-> [next \in V |-> Body(n, next)]]
           none == [r \in Dirs |-> {}]
<1>1. D \in Nat
  BY TreeFacts
<1>2. ASSUME NEW n \in 0..D, NEW next \in V PROVE Body(n, next) \in V
  <2>1. ASSUME NEW r \in Dirs
        PROVE  Kids(r) \cup UNION {next[k] : k \in Kids(r) \cap Subfolders} \subseteq Listed
    <3>1. Kids(r) \subseteq Listed
      BY TreeFacts
    <3>2. ASSUME NEW k \in Kids(r) \cap Subfolders PROVE next[k] \subseteq Listed
      BY DEF Dirs
    <3>3. QED
      BY <3>1, <3>2
  <2>2. QED
    BY <2>1
<1>3. none \in V
  OBVIOUS
<1>4. rule \in RulesBack(D, V)
  <2> HIDE DEF Body, V
  <2> QED  BY <1>2 DEF RulesBack
<1>5. PICK g \in [0..D -> V] : g[D] = none /\ \A n \in 0..D : n < D => g[n] = rule[n][g[n + 1]]
  <2> HIDE DEF rule, none, D, Body, V
  <2>1. FollowedBack(D, V, none, rule)
    BY <1>1, <1>3, <1>4, BackwardRecursion
  <2>2. QED
    BY <2>1 DEF FollowedBack
<1>6. ASSUME NEW n \in 0..D PROVE g[n] = Body(n, g[n + 1])
  <2>1. CASE n = D
    <3>1. Body(n, g[n + 1]) = none
      BY <2>1
    <3>2. QED
      BY <1>5, <2>1, <3>1
  <2>2. CASE n # D
    <3>1. n < D /\ n + 1 \in 0..D
      BY <1>1, <2>2
    <3> HIDE DEF V, Body
    <3>2. g[n + 1] \in V
      BY <3>1
    <3>3. g[n] = rule[n][g[n + 1]]
      BY <1>5, <3>1
    <3>4. QED
      BY <3>2, <3>3
  <2>3. QED
    BY <2>1, <2>2
<1>7. Does(g)
  <2> HIDE DEF Body, V
  <2> QED  BY <1>6
<1>8. Below = CHOOSE h : Does(h)
  BY DEF Below
<1>9. Does(Below)
  <2> HIDE DEF Does
  <2> QED  BY <1>7, <1>8
<1>10. Below[d] = Body(d, Below[d + 1])
  <2> HIDE DEF Body
  <2> QED  BY <1>9
<1>11. QED
  BY <1>10

LEMMA LevelIs ==
  /\ Walk!Level[0] = Walk!Range(Places)
  /\ \A d \in 0..Deepest : d < Deepest =>
       \A n : n \in Walk!Level[d + 1] <=> \E f \in Walk!Level[d] \cap Dirs : n \in Kids(f)
<1> DEFINE D == Deepest
           V == SUBSET (Walk!Range(Places) \cup present)
           Up(s) == {n \in present : \E f \in s \cap DOMAIN Contents : n \in Walk!Holds(f)}
           Does(g) == g = [d \in 0..D |-> IF d = 0 THEN Walk!Range(Places) ELSE Up(g[d - 1])]
           rule == [d \in 1..D |-> [s \in V |-> Up(s)]]
<1>1. D \in Nat /\ Walk!Range(Places) \in V
  BY TreeFacts
<1>2. rule \in Rules(D, V)
  BY DEF Rules
<1>3. PICK g \in [0..D -> V] : g[0] = Walk!Range(Places) /\ \A d \in 1..D : g[d] = rule[d][g[d - 1]]
  <2> HIDE DEF rule, D, V
  <2>1. Followed(D, V, Walk!Range(Places), rule)
    BY <1>1, <1>2, Recursion
  <2>2. QED
    BY <2>1 DEF Followed
<1>4. ASSUME NEW d \in 1..D PROVE g[d] = Up(g[d - 1])
  <2>1. d - 1 \in 0..D
    BY <1>1
  <2> HIDE DEF V, Up
  <2>2. g[d - 1] \in V
    BY <2>1
  <2>3. QED
    BY <1>3, <2>2
<1>5. Does(g)
  <2> HIDE DEF V, Up, rule
  <2>1. ASSUME NEW d \in 0..D PROVE g[d] = IF d = 0 THEN Walk!Range(Places) ELSE Up(g[d - 1])
    <3>1. d # 0 => d \in 1..D
      BY <1>1
    <3>2. QED
      BY <1>3, <1>4, <3>1
  <2>2. QED
    BY <2>1
<1>6. Walk!Level = CHOOSE h : Does(h)
  BY DEF Walk!Level
<1>7. Does(Walk!Level)
  <2> HIDE DEF Does
  <2> QED  BY <1>5, <1>6
<1>8. Walk!Level[0] = Walk!Range(Places)
  <2> HIDE DEF Up
  <2> QED  BY <1>1, <1>7
<1>9. ASSUME NEW d \in 0..Deepest, d < Deepest, NEW n
      PROVE  n \in Walk!Level[d + 1] <=> \E f \in Walk!Level[d] \cap Dirs : n \in Kids(f)
  <2>1. d + 1 \in 0..D /\ d + 1 # 0 /\ d + 1 - 1 = d
    BY <1>1, <1>9
  <2>2. Walk!Level[d + 1] = Up(Walk!Level[d])
    <3> HIDE DEF Up
    <3> QED  BY <1>7, <2>1
  <2>3. QED
    BY <2>2, TreeFacts DEF Kids
<1>10. QED
  BY <1>8, <1>9

(* No entry is on two levels.                                              *)
LEMMA LevelsApart ==
  \A d, e \in 0..Deepest : d < e => Walk!Level[d] \cap Walk!Level[e] = {}
<1> DEFINE T == {d \in Nat : \A e \in 0..Deepest : d < e => Walk!Level[d] \cap Walk!Level[e] = {}}
<1>1. Deepest \in Nat
  BY TreeFacts
<1>2. ASSUME NEW d \in 0..Deepest, d < Deepest, NEW n \in Walk!Level[d + 1] PROVE n \in Listed
  BY <1>2, LevelIs, TreeFacts
<1>3. 0 \in T
  <2>1. SUFFICES ASSUME NEW e \in 0..Deepest, 0 < e, NEW n \in Walk!Level[e]
                 PROVE  n \notin Walk!Level[0]
    OBVIOUS
  <2>2. e - 1 \in 0..Deepest /\ e - 1 < Deepest /\ e - 1 + 1 = e
    BY <1>1, <2>1
  <2>3. n \in Listed
    BY <1>2, <2>1, <2>2
  <2>4. QED
    BY <2>3, LevelIs, TreeFacts
<1>4. ASSUME NEW d \in Nat, d \in T PROVE d + 1 \in T
  <2>1. SUFFICES ASSUME NEW e \in 0..Deepest, d + 1 < e,
                        NEW n \in Walk!Level[e], n \in Walk!Level[d + 1]
                 PROVE  FALSE
    OBVIOUS
  <2>2. /\ e - 1 \in 0..Deepest /\ e - 1 < Deepest /\ e - 1 + 1 = e /\ d < e - 1
        /\ d \in 0..Deepest /\ d < Deepest
    BY <1>1, <2>1
  <2>3. PICK f \in Walk!Level[d] \cap Dirs : n \in Kids(f)
    BY <2>1, <2>2, LevelIs
  <2>4. PICK g \in Walk!Level[e - 1] \cap Dirs : n \in Kids(g)
    <3> DEFINE c == e - 1
    <3>1. n \in Walk!Level[c + 1] /\ c \in 0..Deepest /\ c < Deepest
      BY <2>1, <2>2
    <3> HIDE DEF c
    <3>2. \E g \in Walk!Level[c] \cap Dirs : n \in Kids(g)
      BY <3>1, LevelIs
    <3>3. QED
      BY <3>2 DEF c
  <2>5. f = g
    BY <2>3, <2>4, TreeFacts
  <2>6. QED
    BY <1>4, <2>2, <2>3, <2>4, <2>5
<1>5. Nat \subseteq T
  <2> HIDE DEF T
  <2> QED  BY <1>3, <1>4, NatAll
<1>6. QED
  BY <1>1, <1>5

(* What is below the folders of a level is what is on the levels after it. *)
After(d) == UNION {Walk!Level[e] : e \in d + 1..Deepest}

LEMMA BelowLevel ==
  \A d \in 0..Deepest : UNION {Below[d][f] : f \in Walk!Level[d] \cap Dirs} = After(d)
<1> DEFINE All(d) == UNION {Below[d][f] : f \in Walk!Level[d] \cap Dirs}
           T == {d \in Nat : d <= Deepest => All(d) = After(d)}
<1>1. Deepest \in Nat
  BY TreeFacts
<1>2. Deepest \in T
  <2>1. \A f \in Dirs : Below[Deepest][f] = {}
    <3>1. Deepest \in 0..Deepest
      BY <1>1
    <3>2. QED
      BY <3>1, BelowIs
  <2>2. After(Deepest) = {}
    BY <1>1 DEF After
  <2>3. QED
    BY <1>1, <2>1, <2>2
<1>3. ASSUME NEW d \in Nat, d < Deepest, d + 1 \in T PROVE d \in T
  <2>1. /\ d \in 0..Deepest /\ d # Deepest /\ d + 1 \in 0..Deepest
        /\ All(d + 1) = After(d + 1)
    BY <1>1, <1>3
  <2>2. \A f \in Dirs : Below[d][f] = Kids(f) \cup UNION {Below[d + 1][k] : k \in Kids(f) \cap Subfolders}
    BY <2>1, BelowIs
  <2>3. \A n : n \in Walk!Level[d + 1] <=> \E f \in Walk!Level[d] \cap Dirs : n \in Kids(f)
    BY <1>3, <2>1, LevelIs
  <2>4. After(d) = Walk!Level[d + 1] \cup After(d + 1)
    <3>1. d + 1..Deepest = {d + 1} \cup (d + 1 + 1..Deepest)
      BY <1>1, <2>1
    <3>2. QED
      BY <3>1 DEF After
  <2>5. ASSUME NEW x \in All(d) PROVE x \in After(d)
    <3>1. PICK f \in Walk!Level[d] \cap Dirs : x \in Below[d][f]
      BY <2>5
    <3>2. CASE x \in Kids(f)
      BY <2>3, <2>4, <3>2
    <3>3. CASE \E k \in Kids(f) \cap Subfolders : x \in Below[d + 1][k]
      <4>1. PICK k \in Kids(f) \cap Subfolders : x \in Below[d + 1][k]
        BY <3>3
      <4>2. k \in Walk!Level[d + 1] \cap Dirs
        BY <2>3, <4>1 DEF Dirs
      <4>3. x \in All(d + 1)
        BY <4>1, <4>2
      <4>4. QED
        BY <2>1, <2>4, <4>3
    <3>4. QED
      BY <2>2, <3>1, <3>2, <3>3
  <2>6. ASSUME NEW x \in After(d) PROVE x \in All(d)
    <3>1. CASE x \in Walk!Level[d + 1]
      <4>1. PICK f \in Walk!Level[d] \cap Dirs : x \in Kids(f)
        BY <2>3, <3>1
      <4>2. x \in Below[d][f]
        BY <2>2, <4>1
      <4>3. QED
        BY <4>2
    <3>2. CASE x \in All(d + 1)
      <4>1. PICK k \in Walk!Level[d + 1] \cap Dirs : x \in Below[d + 1][k]
        BY <3>2
      <4>2. PICK f \in Walk!Level[d] \cap Dirs : k \in Kids(f)
        BY <2>3, <4>1
      <4>3. k \in Subfolders
        BY <4>1, <4>2, TreeFacts DEF Dirs
      <4>4. x \in Below[d][f]
        BY <2>2, <4>1, <4>2, <4>3
      <4>5. QED
        BY <4>4
    <3>3. QED
      BY <2>1, <2>4, <2>6, <3>1, <3>2
  <2>7. QED
    BY <2>5, <2>6
<1>4. 0..Deepest \subseteq T
  <2> HIDE DEF T
  <2> QED  BY <1>1, <1>2, <1>3, NatBelow
<1>5. QED
  BY <1>4

(* So an entry is below one folder of each level only, and not below       *)
(* itself.                                                                 *)
LEMMA BelowApart ==
  /\ \A d \in 0..Deepest : \A f, g \in Walk!Level[d] \cap Dirs :
       f # g => Below[d][f] \cap Below[d][g] = {}
  /\ \A d \in 0..Deepest : \A n \in Walk!Level[d], f \in Walk!Level[d] \cap Dirs : n \notin Below[d][f]
<1> DEFINE Apart(d) == \A f, g \in Walk!Level[d] \cap Dirs : f # g => Below[d][f] \cap Below[d][g] = {}
           T == {d \in Nat : d <= Deepest => Apart(d)}
<1>1. Deepest \in Nat
  BY TreeFacts
<1>2. ASSUME NEW d \in 0..Deepest, NEW n \in Walk!Level[d], NEW f \in Walk!Level[d] \cap Dirs,
             n \in Below[d][f]
      PROVE  FALSE
  <2>1. n \in After(d)
    BY <1>2, BelowLevel
  <2>2. PICK e \in d + 1..Deepest : n \in Walk!Level[e]
    BY <2>1 DEF After
  <2>3. e \in 0..Deepest /\ d < e
    BY <1>1, <2>2
  <2>4. QED
    BY <1>2, <2>2, <2>3, LevelsApart
<1>3. Deepest \in T
  <2>1. \A f \in Dirs : Below[Deepest][f] = {}
    <3>1. Deepest \in 0..Deepest
      BY <1>1
    <3>2. QED
      BY <3>1, BelowIs
  <2>2. QED
    BY <1>1, <2>1
<1>4. ASSUME NEW d \in Nat, d < Deepest, d + 1 \in T PROVE d \in T
  <2>1. SUFFICES ASSUME NEW f \in Walk!Level[d] \cap Dirs, NEW g \in Walk!Level[d] \cap Dirs, f # g,
                        NEW x \in Below[d][f], x \in Below[d][g]
                 PROVE  FALSE
    OBVIOUS
  <2>2. d \in 0..Deepest /\ d # Deepest /\ d + 1 \in 0..Deepest /\ Apart(d + 1)
    BY <1>1, <1>4
  <2>3. ASSUME NEW r \in Walk!Level[d] \cap Dirs, x \in Below[d][r]
        PROVE  x \in Kids(r) \/ \E k \in Kids(r) \cap Subfolders : x \in Below[d + 1][k]
    <3>1. Below[d][r] = Kids(r) \cup UNION {Below[d + 1][k] : k \in Kids(r) \cap Subfolders}
      BY <2>2, BelowIs
    <3>2. QED
      BY <2>3, <3>1
  <2>4. ASSUME NEW r \in Walk!Level[d] \cap Dirs, NEW k \in Kids(r)
        PROVE  k \in Walk!Level[d + 1] /\ (k \in Subfolders => k \in Dirs)
    BY <1>4, <2>2, LevelIs DEF Dirs
  <2>5. Kids(f) \cap Kids(g) = {}
    BY <2>1, TreeFacts
  <2>6. ASSUME NEW r \in Walk!Level[d] \cap Dirs, x \in Kids(r),
               NEW q \in Walk!Level[d] \cap Dirs, NEW k \in Kids(q) \cap Subfolders,
               x \in Below[d + 1][k]
        PROVE  FALSE
    BY <1>2, <2>2, <2>4, <2>6
  <2>7. CASE x \in Kids(f) /\ x \in Kids(g)
    BY <2>5, <2>7
  <2>8. CASE x \notin Kids(f) /\ x \notin Kids(g)
    <3>1. PICK k \in Kids(f) \cap Subfolders : x \in Below[d + 1][k]
      BY <2>3, <2>8
    <3>2. PICK l \in Kids(g) \cap Subfolders : x \in Below[d + 1][l]
      BY <2>1, <2>3, <2>8
    <3>3. k # l /\ k \in Walk!Level[d + 1] \cap Dirs /\ l \in Walk!Level[d + 1] \cap Dirs
      BY <2>4, <2>5
    <3>4. QED
      BY <2>2, <3>1, <3>2, <3>3
  <2>9. QED
    BY <2>1, <2>3, <2>6, <2>7, <2>8
<1>5. 0..Deepest \subseteq T
  <2> HIDE DEF T
  <2> QED  BY <1>1, <1>3, <1>4, NatBelow
<1>6. QED
  BY <1>2, <1>5

-----------------------------------------------------------------------------
(* An entry of a folder with what is below it, if it is there.             *)
Tree(n, depth) ==
  IF n \notin present THEN {}
  ELSE IF n \in Subfolders THEN {n} \cup Below[depth][n] ELSE {n}

(* The walk of a folder adds what is below it.                             *)
CollectGrows(depth) ==
  \A f \in Walk!Level[depth] \cap Dirs : \A s \in Lists :
    Fits(s) /\ Walk!Range(s) \cap Below[depth][f] = {}
      => Grown(s, Collect[depth][f][s], Below[depth][f])

LEMMA VisitGrows ==
  ASSUME NEW d \in 0..Deepest, d < Deepest, CollectGrows(d + 1),
         NEW f \in Walk!Level[d] \cap Dirs, NEW n \in Walk!Holds(f),
         NEW s, Fits(s), Walk!Range(s) \cap Tree(n, d + 1) = {}
  PROVE  Grown(s, Walk!Visit(n, s, Collect[d + 1]), Tree(n, d + 1))
<1>1. n \in Listed
  BY WalkAssumption DEF Walk!WalkAssumption, Walk!Holds, Walk!Range, Dirs
<1>2. CASE Walk!Full(s) \/ n \notin present
  <2>1. Walk!Visit(n, s, Collect[d + 1]) = s
    BY <1>2 DEF Walk!Visit
  <2>2. Walk!Full(s) \/ Tree(n, d + 1) = {}
    BY <1>2 DEF Tree
  <2>3. QED
    BY <2>1, <2>2, GrownSame
<1>3. CASE ~Walk!Full(s) /\ n \in present
  <2> DEFINE r == Append(s, n)
  <2>1. n \in Tree(n, d + 1)
    BY <1>3 DEF Tree
  <2>2. Grown(s, r, {n})
    BY <1>1, <1>3, <2>1, GrownByOne
  <2> HIDE DEF r
  <2>3. CASE n \notin Subfolders
    <3>1. Walk!Visit(n, s, Collect[d + 1]) = r /\ Tree(n, d + 1) = {n}
      BY <1>3, <2>3 DEF Walk!Visit, Tree, r
    <3>2. QED
      BY <2>2, <3>1
  <2>4. CASE n \in Subfolders
    <3>1. Walk!Visit(n, s, Collect[d + 1]) = Collect[d + 1][n][r]
          /\ Tree(n, d + 1) = {n} \cup Below[d + 1][n]
      BY <1>3, <2>4 DEF Walk!Visit, Tree, r
    <3>2. n \in Walk!Level[d + 1] \cap Dirs
      <4>1. n \in Kids(f)
        BY <1>3 DEF Kids
      <4>2. QED
        BY <2>4, <4>1, LevelIs DEF Dirs
    <3>3. n \notin Below[d + 1][n]
      <4>1. d + 1 \in 0..Deepest
        BY TreeFacts
      <4>2. QED
        BY <3>2, <4>1, BelowApart
    <3>4. Fits(r) /\ r \in Lists /\ Walk!Range(r) \cap Below[d + 1][n] = {}
      BY <2>2, <3>1, <3>3 DEF Grown, Fits
    <3>5. Grown(r, Collect[d + 1][n][r], Below[d + 1][n])
      BY <3>2, <3>4 DEF CollectGrows
    <3>6. Grown(s, Collect[d + 1][n][r], {n} \cup Below[d + 1][n])
      BY <2>2, <3>5, GrownTwice
    <3>7. QED
      BY <3>1, <3>6
  <2>5. QED
    BY <2>3, <2>4
<1>4. QED
  BY <1>2, <1>3

LEMMA FolderGrows ==
  ASSUME NEW d \in 0..Deepest, d < Deepest, CollectGrows(d + 1),
         NEW f \in Walk!Level[d] \cap Dirs,
         NEW s \in Lists, Fits(s), Walk!Range(s) \cap Below[d][f] = {}
  PROVE  Grown(s, Walk!VisitAll(Contents[f], s, Collect[d + 1]), Below[d][f])
<1> DEFINE list == Contents[f]
           N == Len(list)
           part == [k \in 1..N |-> Tree(list[k], d + 1)]
<1>1. /\ list \in Lists /\ N \in Nat /\ DOMAIN list = 1..N
      /\ \A k, l \in 1..N : list[k] = list[l] => k = l
      /\ Walk!Holds(f) = {list[k] : k \in 1..N}
  <2>1. list \in Seq(Listed) /\ Walk!IsInjective(list)
    BY WalkAssumption DEF Walk!WalkAssumption, Dirs
  <2>2. DOMAIN list = 1..N /\ N \in Nat
    BY <2>1
  <2>3. QED
    BY <2>1, <2>2 DEF Walk!IsInjective, Lists, Walk!Holds, Walk!Range
<1>2. d + 1 \in 0..Deepest /\ d # Deepest /\ Collect[d + 1] \in Walks
  <2>1. d + 1 \in 0..Deepest /\ d # Deepest
    BY TreeFacts
  <2>2. QED
    BY <2>1, CollectIs
<1>3. PICK g \in [0..N -> Lists] :
        /\ g[0] = s /\ \A k \in 1..N : g[k] = Walk!Visit(list[k], g[k - 1], Collect[d + 1])
        /\ Walk!VisitAll(list, s, Collect[d + 1]) = g[N]
  <2> DEFINE deeper == Collect[d + 1]
  <2>1. list \in Lists /\ deeper \in Walks
    BY <1>1, <1>2
  <2> HIDE DEF list, deeper
  <2>2. Visited(list, s, deeper)
    BY <2>1, VisitAllIs
  <2>3. QED
    BY <2>2 DEF Visited, deeper
<1>4. Below[d][f] = UNION {part[k] : k \in 1..N}
  <2>1. Below[d][f] = Kids(f) \cup UNION {Below[d + 1][k] : k \in Kids(f) \cap Subfolders}
    BY <1>2, BelowIs
  <2>2. UNION {part[k] : k \in 1..N} = UNION {Tree(n, d + 1) : n \in Walk!Holds(f)}
    <3>1. \A k \in 1..N : part[k] = Tree(list[k], d + 1)
      OBVIOUS
    <3> HIDE DEF part, list, N
    <3>2. QED
      BY <1>1, <3>1
  <2>3. UNION {Tree(n, d + 1) : n \in Walk!Holds(f)}
          = Kids(f) \cup UNION {Below[d + 1][k] : k \in Kids(f) \cap Subfolders}
    BY DEF Tree, Kids
  <2>4. QED
    BY <2>1, <2>2, <2>3
<1>5. ASSUME NEW k \in 1..N, NEW l \in 1..N, k # l PROVE part[k] \cap part[l] = {}
  <2>1. ASSUME NEW m \in 1..N, list[m] \in present
        PROVE  list[m] \in Walk!Level[d + 1] /\ (list[m] \in Subfolders => list[m] \in Dirs)
    <3>1. list[m] \in Kids(f)
      BY <1>1, <2>1 DEF Kids
    <3>2. QED
      BY <3>1, LevelIs DEF Dirs
  <2>2. list[k] # list[l]
    BY <1>1, <1>5
  <2> DEFINE a == list[k]
             b == list[l]
  <2>3. part[k] = Tree(a, d + 1) /\ part[l] = Tree(b, d + 1)
    OBVIOUS
  <2>4. /\ a # b
        /\ a \in present => a \in Walk!Level[d + 1] /\ (a \in Subfolders => a \in Dirs)
        /\ b \in present => b \in Walk!Level[d + 1] /\ (b \in Subfolders => b \in Dirs)
    BY <2>1, <2>2
  <2> HIDE DEF a, b, part
  <2>5. Tree(a, d + 1) \cap Tree(b, d + 1) = {}
    BY <1>2, <2>4, BelowApart DEF Tree
  <2>6. QED
    BY <2>3, <2>5
<1>6. ASSUME NEW k \in 1..N, Fits(g[k - 1]), Walk!Range(g[k - 1]) \cap part[k] = {}
      PROVE  Grown(g[k - 1], g[k], part[k])
  <2>1. list[k] \in Walk!Holds(f)
    BY <1>1
  <2>2. part[k] = Tree(list[k], d + 1)
    OBVIOUS
  <2>3. g[k] = Walk!Visit(list[k], g[k - 1], Collect[d + 1])
    BY <1>3
  <2> HIDE DEF part, list, N
  <2>4. QED
    BY <1>6, <2>1, <2>2, <2>3, VisitGrows
<1>7. \A k \in 1..N : Walk!Range(s) \cap part[k] = {}
  <2> HIDE DEF part
  <2> QED  BY <1>4
<1>8. Grown(s, g[N], Parts(N, part))
  <2> HIDE DEF part, list, N
  <2>1. \A k, l \in 1..N : k # l => part[k] \cap part[l] = {}
    BY <1>5
  <2>2. \A k \in 1..N : Fits(g[k - 1]) /\ Walk!Range(g[k - 1]) \cap part[k] = {}
                        => Grown(g[k - 1], g[k], part[k])
    BY <1>6
  <2>3. N \in Nat /\ g[0] = s
    BY <1>1, <1>3
  <2>4. LoopOver(N, s, part, g)
    BY <1>7, <2>1, <2>2, <2>3 DEF LoopOver
  <2>5. N \in Nat
    BY <1>1
  <2>6. QED
    BY <2>4, <2>5, LoopGrows
<1>9. QED
  BY <1>3, <1>4, <1>8 DEF Parts

LEMMA WalkGrows ==
  \A d \in 0..Deepest : CollectGrows(d)
<1> DEFINE T == {d \in Nat : d <= Deepest => CollectGrows(d)}
<1>1. Deepest \in Nat
  BY TreeFacts
<1>2. ASSUME NEW d \in 0..Deepest, d = Deepest \/ CollectGrows(d + 1)
      PROVE  CollectGrows(d)
  <2>1. SUFFICES ASSUME NEW f \in Walk!Level[d] \cap Dirs, NEW s \in Lists, Fits(s),
                        Walk!Range(s) \cap Below[d][f] = {}
                 PROVE  Grown(s, Collect[d][f][s], Below[d][f])
    BY DEF CollectGrows
  <2>2. CASE d = Deepest \/ Walk!Full(s)
    <3>1. Collect[d][f][s] = s
      BY <2>2, CollectIs
    <3>2. d = Deepest => Below[d][f] = {}
      BY BelowIs
    <3>3. QED
      BY <2>1, <2>2, <3>1, <3>2, GrownSame
  <2>3. CASE d # Deepest /\ ~Walk!Full(s)
    <3>1. Collect[d][f][s] = Walk!VisitAll(Contents[f], s, Collect[d + 1])
      BY <2>3, CollectIs
    <3>2. d < Deepest /\ CollectGrows(d + 1)
      BY <1>1, <1>2, <2>3
    <3>3. QED
      BY <2>1, <3>1, <3>2, FolderGrows
  <2>4. QED
    BY <2>2, <2>3
<1>3. Deepest \in T
  BY <1>1, <1>2
<1>4. ASSUME NEW d \in Nat, d < Deepest, d + 1 \in T PROVE d \in T
  BY <1>1, <1>2, <1>4
<1>5. 0..Deepest \subseteq T
  <2> HIDE DEF T
  <2> QED  BY <1>1, <1>3, <1>4, NatBelow
<1>6. QED
  BY <1>1, <1>5

(* The loop over the roots.                                                *)
LEMMA CollectResultsGrows ==
  Grown(<<>>, Walk!CollectResults, UNION {Below[0][r] : r \in Walk!Range(Places)})
<1> DEFINE N == Len(Places)
           Onward(r, s) == IF Walk!Full(s) THEN s ELSE Collect[0][r][s]
           Does(g) == g = [k \in 0..N |-> IF k = 0 THEN <<>>
                             ELSE IF Walk!Full(g[k - 1]) THEN g[k - 1]
                             ELSE Collect[0][Places[k]][g[k - 1]]]
           rule == [k \in 1..N |-> [s \in Lists |-> Onward(Places[k], s)]]
           after == CHOOSE g : Does(g)
           part == [k \in 1..N |-> Below[0][Places[k]]]
<1>1. /\ N \in Nat /\ DOMAIN Places = 1..N /\ \A k \in 1..N : Places[k] \in Walk!Range(Places)
      /\ \A k, l \in 1..N : Places[k] = Places[l] => k = l
      /\ Walk!Range(Places) = {Places[k] : k \in 1..N} /\ Walk!Range(Places) \subseteq Dirs
  BY WalkAssumption DEF Walk!WalkAssumption, Walk!IsInjective, Walk!Range, Dirs
<1>2. 0 \in 0..Deepest /\ Walk!Level[0] = Walk!Range(Places)
  BY TreeFacts, LevelIs
<1>3. rule \in Rules(N, Lists) /\ <<>> \in Lists
  <2>1. Collect[0] \in Walks
    BY <1>2, CollectIs
  <2>2. ASSUME NEW k \in 1..N, NEW s \in Lists PROVE Onward(Places[k], s) \in Lists
    BY <1>1, <2>1 DEF Walks
  <2>3. QED
    <3> HIDE DEF Onward
    <3> QED  BY <2>2 DEF Rules, Lists
<1>4. PICK g \in [0..N -> Lists] : g[0] = <<>> /\ \A k \in 1..N : g[k] = rule[k][g[k - 1]]
  <2> HIDE DEF rule, N
  <2>1. Followed(N, Lists, <<>>, rule)
    BY <1>1, <1>3, Recursion
  <2>2. QED
    BY <2>1 DEF Followed
<1>5. Does(g)
  <2>1. ASSUME NEW k \in 1..N PROVE g[k] = Onward(Places[k], g[k - 1])
    <3>1. k - 1 \in 0..N
      BY <1>1
    <3>2. g[k - 1] \in Lists
      BY <3>1
    <3> HIDE DEF Onward
    <3>3. QED
      BY <1>4, <3>2
  <2>2. ASSUME NEW k \in 0..N PROVE k # 0 => k \in 1..N
    BY <1>1
  <2>3. QED
    BY <1>4, <2>1, <2>2
<1>6. Does(after)
  <2> HIDE DEF Does
  <2> QED  BY <1>5
<1>7. Walk!CollectResults = after[N]
  BY DEF Walk!CollectResults, Collect
<1>8. after[0] = <<>> /\ \A k \in 1..N : after[k] = Onward(Places[k], after[k - 1])
  <2> HIDE DEF after
  <2>1. \A k \in 1..N : k \in 0..N /\ k # 0
    BY <1>1
  <2>2. QED
    BY <1>1, <1>6, <2>1
<1> HIDE DEF after
<1>9. Fits(<<>>) /\ Walk!Range(<<>>) = {}
  BY WalkAssumption DEF Walk!WalkAssumption, Fits, Lists, Walk!IsInjective, Walk!Range
<1>10. ASSUME NEW k \in 1..N, Fits(after[k - 1]), Walk!Range(after[k - 1]) \cap part[k] = {}
       PROVE  Grown(after[k - 1], after[k], part[k])
  <2> DEFINE s == after[k - 1]
             r == Places[k]
  <2>1. after[k] = Onward(r, s) /\ part[k] = Below[0][r] /\ r \in Walk!Level[0] \cap Dirs
    BY <1>1, <1>2, <1>8
  <2>2. Fits(s) /\ s \in Lists /\ Walk!Range(s) \cap Below[0][r] = {}
    BY <1>10, <2>1 DEF Fits
  <2> HIDE DEF s, r, part
  <2>3. CASE Walk!Full(s)
    BY <2>1, <2>2, <2>3, GrownSame DEF s
  <2>4. CASE ~Walk!Full(s)
    <3>1. Grown(s, Collect[0][r][s], Below[0][r])
      BY <1>2, <2>1, <2>2, WalkGrows DEF CollectGrows
    <3>2. QED
      BY <2>1, <2>4, <3>1 DEF s
  <2>5. QED
    BY <2>3, <2>4
<1>11. \A k, l \in 1..N : k # l => part[k] \cap part[l] = {}
  BY <1>1, <1>2, BelowApart
<1>12. Grown(<<>>, after[N], Parts(N, part))
  <2> HIDE DEF part, N
  <2>1. \A k \in 1..N : Walk!Range(<<>>) \cap part[k] = {}
    BY <1>9
  <2>2. \A k \in 1..N : Fits(after[k - 1]) /\ Walk!Range(after[k - 1]) \cap part[k] = {}
                        => Grown(after[k - 1], after[k], part[k])
    BY <1>10
  <2>3. N \in Nat /\ after[0] = <<>> /\ Fits(<<>>)
    BY <1>1, <1>8, <1>9
  <2>4. LoopOver(N, <<>>, part, after)
    BY <1>11, <2>1, <2>2, <2>3 DEF LoopOver
  <2>5. QED
    BY <2>3, <2>4, LoopGrows
<1>13. UNION {part[k] : k \in 1..N} = UNION {Below[0][r] : r \in Walk!Range(Places)}
  <2>1. \A k \in 1..N : part[k] = Below[0][Places[k]]
    OBVIOUS
  <2>2. Walk!Range(Places) = {Places[k] : k \in 1..N}
    BY <1>1
  <2> HIDE DEF part, N
  <2>3. {part[k] : k \in 1..N} = {Below[0][r] : r \in Walk!Range(Places)}
    BY <2>1, <2>2
  <2>4. QED
    BY <2>3
<1>14. QED
  BY <1>7, <1>12, <1>13 DEF Parts

(* Whatever is there: the walk lists each entry once, none deeper than     *)
(* max_depth, never more than max_entries over all the roots, and all that *)
(* there are when they are fewer.                                          *)
LEMMA WalkIsExact ==
  WalkFillsItsLimit
<1>1. Walk!Range(Places) = Walk!Level[0] \cap Dirs
  BY LevelIs DEF Dirs
<1>2. UNION {Below[0][r] : r \in Walk!Range(Places)} = Walk!Reachable
  <2>1. 0 \in 0..Deepest /\ 0 + 1 = 1
    BY TreeFacts
  <2>2. UNION {Below[0][r] : r \in Walk!Range(Places)} = After(0)
    BY <1>1, <2>1, BelowLevel
  <2>3. QED
    BY <2>1, <2>2 DEF After, Walk!Reachable
<1>3. Grown(<<>>, Walk!CollectResults, Walk!Reachable)
  BY <1>2, CollectResultsGrows
<1>4. Walk!Range(<<>>) = {}
  BY DEF Walk!Range
<1>5. QED
  BY <1>3, <1>4 DEF Grown, Fits, WalkFillsItsLimit, Walk!WalkFillsItsLimit

(* In every state of the file system.                                      *)
THEOREM WalkFillsTheLimit == Walk!Spec => []WalkFillsItsLimit
  BY WalkIsExact, PTL

(* What holds of a number whenever it holds of those below it holds of all. *)
LEMMA NatStrong ==
  ASSUME NEW T, \A k \in Nat : (\A m \in Nat : m < k => m \in T) => k \in T
  PROVE  Nat \subseteq T
<1>1. SUFFICES ASSUME Nat \ T # {} PROVE FALSE
  OBVIOUS
<1>2. PICK k \in Nat \ T : \A m \in Nat \ T : k <= m
  BY <1>1, NatLeast
<1>3. ASSUME NEW m \in Nat, m < k PROVE m \in T
  <2>1. ~(k <= m)
    BY <1>3
  <2>2. QED
    BY <1>2, <2>1
<1>4. QED
  BY <1>2, <1>3

-----------------------------------------------------------------------------
(***************************************************************************)
(* The calculator, of Calculator alone.                                    *)
(***************************************************************************)
Texts == Seq(UNION {a.characters : a \in Alphabets})
Offsets(s) == 1..(Len(s) + 1)
Results(s) == [ok : {TRUE}, value : Floats, at : Offsets(s)] \cup {Calc!NotRead}

(* The only character that the SMT solver does not take.                   *)
Space == " "

(* What is read of a text at an offset.                                    *)
LEMMA TextFacts ==
  ASSUME NEW s \in Texts
  PROVE  /\ Len(s) \in Nat /\ DOMAIN s = 1..Len(s)
         /\ \A i \in 1..Len(s) : Calc!Peek(s, i) = s[i]
         /\ Calc!Peek(s, Len(s) + 1) = "end"
<1>1. Len(s) \in Nat /\ DOMAIN s = 1..Len(s)
  BY DEF Texts
<1>2. QED
  BY <1>1 DEF Calc!Peek

(* A number that is the last, or the first, of some.                       *)
LEMMA MaxIs ==
  ASSUME NEW a \in Int, NEW b \in Int, NEW S, S \subseteq a..b, S # {}
  PROVE  Calc!Max(S) \in S /\ \A x \in S : x <= Calc!Max(S)
<1> DEFINE T == {b - x : x \in S}
<1>1. T \subseteq Nat /\ T # {}
  <2>1. ASSUME NEW x \in S PROVE b - x \in Nat
    <3>1. x \in a..b
      OBVIOUS
    <3>2. QED
      BY <3>1
  <2>2. PICK x \in S : TRUE
    OBVIOUS
  <2>3. QED
    BY <2>1, <2>2
<1>2. PICK t \in T : \A u \in T : t <= u
  <2> HIDE DEF T
  <2> QED  BY <1>1, NatLeast
<1>3. PICK m \in S : t = b - m
  BY <1>2
<1>4. ASSUME NEW x \in S PROVE m >= x
  <2>1. b - m <= b - x
    BY <1>2, <1>3
  <2>2. x \in Int /\ m \in Int
    OBVIOUS
  <2>3. QED
    BY <2>1, <2>2
<1>5. Calc!Max(S) \in S /\ \A x \in S : Calc!Max(S) >= x
  BY <1>4 DEF Calc!Max
<1>6. QED
  BY <1>5

(* And the first of some.                                                  *)
LEMMA MinIs ==
  ASSUME NEW a \in Int, NEW b \in Int, NEW S, S \subseteq a..b, S # {}
  PROVE  Calc!Min(S) \in S /\ \A x \in S : Calc!Min(S) <= x
<1> DEFINE T == {x - a : x \in S}
<1>1. T \subseteq Nat /\ T # {}
  <2>1. ASSUME NEW x \in S PROVE x - a \in Nat
    <3>1. x \in a..b
      OBVIOUS
    <3>2. QED
      BY <3>1
  <2>2. PICK x \in S : TRUE
    OBVIOUS
  <2>3. QED
    BY <2>1, <2>2
<1>2. PICK t \in T : \A u \in T : t <= u
  <2> HIDE DEF T
  <2> QED  BY <1>1, NatLeast
<1>3. PICK m \in S : t = m - a
  BY <1>2
<1>4. ASSUME NEW x \in S PROVE m <= x
  <2>1. m - a <= x - a
    BY <1>2, <1>3
  <2>2. x \in Int /\ m \in Int
    OBVIOUS
  <2>3. QED
    BY <2>1, <2>2
<1>5. QED
  BY <1>4 DEF Calc!Min

(* What is passed over ends at the first character that is another.        *)
LEMMA PassOverIs ==
  ASSUME NEW s \in Texts, NEW i \in Offsets(s), NEW C, "end" \notin C
  PROVE  /\ Calc!PassOver(s, i, C) \in i..(Len(s) + 1)
         /\ Calc!Peek(s, Calc!PassOver(s, i, C)) \notin C
         /\ \A k \in i..(Calc!PassOver(s, i, C) - 1) : s[k] \in C
<1> DEFINE T == {j \in i..(Len(s) + 1) : Calc!Peek(s, j) \notin C}
<1>1. Len(s) \in Nat /\ i \in 1..Len(s) + 1 /\ \A k \in 1..Len(s) : Calc!Peek(s, k) = s[k]
  BY TextFacts DEF Offsets
<1>2. Len(s) + 1 \in T
  BY <1>1, TextFacts
<1>3. PICK j \in T : \A k \in T : j <= k
  <2>1. T \subseteq Nat /\ T # {}
    BY <1>1, <1>2
  <2>2. QED
    <3> HIDE DEF T
    <3> QED  BY <2>1, NatLeast
<1>4. ASSUME NEW k \in i..(j - 1) PROVE s[k] \in C
  <2>1. k \in 1..Len(s) /\ k \in i..(Len(s) + 1) /\ k < j
    BY <1>1, <1>3
  <2>2. k \notin T
    BY <1>3, <2>1
  <2>3. QED
    BY <1>1, <2>1, <2>2
<1>5. QED
  BY <1>3, <1>4 DEF Calc!PassOver

(* Where passing over ends, from where it does.                            *)
LEMMA PassOverOnce ==
  ASSUME NEW s \in Texts, NEW i \in Offsets(s), NEW C, "end" \notin C,
         NEW j \in i..(Len(s) + 1), Calc!Peek(s, j) \notin C, \A k \in i..(j - 1) : s[k] \in C
  PROVE  Calc!PassOver(s, i, C) = j
<1> DEFINE p == Calc!PassOver(s, i, C)
<1>1. p \in i..(Len(s) + 1) /\ Calc!Peek(s, p) \notin C /\ \A k \in i..(p - 1) : s[k] \in C
  BY PassOverIs
<1> HIDE DEF p
<1>2. Len(s) \in Nat /\ i \in 1..Len(s) + 1 /\ \A k \in 1..Len(s) : Calc!Peek(s, k) = s[k]
  BY TextFacts DEF Offsets
<1>3. ~(p < j)
  <2>1. SUFFICES ASSUME p < j PROVE FALSE
    OBVIOUS
  <2>2. p \in i..(j - 1) /\ p \in 1..Len(s)
    BY <1>1, <1>2, <2>1
  <2>3. QED
    BY <1>1, <1>2, <2>2
<1>4. ~(j < p)
  <2>1. SUFFICES ASSUME j < p PROVE FALSE
    OBVIOUS
  <2>2. j \in i..(p - 1) /\ j \in 1..Len(s)
    BY <1>1, <1>2, <2>1
  <2>3. QED
    BY <1>1, <1>2, <2>2
<1>5. QED
  BY <1>1, <1>2, <1>3, <1>4 DEF p

(* There are only spaces between two places.                               *)
Blank(s, i, j) == \A k \in i..j : s[k] = Space

LEMMA SpaceIs ==
  /\ Space # "end" /\ Space # "(" /\ Space # ")"
  /\ \A s, i : Calc!SkipSpaces(s, i) = Calc!PassOver(s, i, {Space})
  /\ \A s, i, j : Calc!Kept(s, i, j) = {k \in i..j : s[k] # Space}
  BY DEF Space, Calc!SkipSpaces, Calc!Kept

(* skip_spaces stops at the end or at what is not a space.                 *)
LEMMA SkipIs ==
  ASSUME NEW s \in Texts, NEW i \in Offsets(s)
  PROVE  /\ Calc!SkipSpaces(s, i) \in i..(Len(s) + 1)
         /\ Calc!SkipSpaces(s, i) \in Offsets(s)
         /\ Calc!Peek(s, Calc!SkipSpaces(s, i)) # Space
         /\ Blank(s, i, Calc!SkipSpaces(s, i) - 1)
<1>1. "end" \notin {Space}
  BY SpaceIs
<1>2. /\ Calc!SkipSpaces(s, i) \in i..(Len(s) + 1)
      /\ Calc!Peek(s, Calc!SkipSpaces(s, i)) \notin {Space}
      /\ \A k \in i..(Calc!SkipSpaces(s, i) - 1) : s[k] \in {Space}
  BY <1>1, PassOverIs, SpaceIs
<1>3. Calc!SkipSpaces(s, i) \in Offsets(s)
  <2>1. i \in 1..(Len(s) + 1) /\ Calc!SkipSpaces(s, i) \in i..(Len(s) + 1)
    BY <1>2 DEF Offsets
  <2>2. QED
    BY <2>1 DEF Offsets
<1>4. QED
  BY <1>2, <1>3 DEF Blank

(* It stops where what is not a space comes first.                         *)
LEMMA SkipOnce ==
  ASSUME NEW s \in Texts, NEW i \in Offsets(s), NEW j \in i..(Len(s) + 1),
         Calc!Peek(s, j) # Space, Blank(s, i, j - 1)
  PROVE  Calc!SkipSpaces(s, i) = j
<1>1. "end" \notin {Space} /\ Calc!Peek(s, j) \notin {Space} /\ \A k \in i..(j - 1) : s[k] \in {Space}
  BY SpaceIs DEF Blank
<1>2. QED
  BY <1>1, PassOverOnce, SpaceIs

(* Spaces may be skipped in two goes.                                      *)
LEMMA SkipFurther ==
  ASSUME NEW s \in Texts, NEW i \in Offsets(s), NEW j \in i..(Len(s) + 1), Blank(s, i, j - 1)
  PROVE  Calc!SkipSpaces(s, i) = Calc!SkipSpaces(s, j)
<1> DEFINE k == Calc!SkipSpaces(s, j)
<1>1. j \in Offsets(s) /\ Len(s) \in Nat /\ i \in Nat
  BY TextFacts DEF Offsets
<1>2. k \in j..(Len(s) + 1) /\ Calc!Peek(s, k) # Space /\ Blank(s, j, k - 1)
  BY <1>1, SkipIs
<1> HIDE DEF k
<1>3. k \in i..(Len(s) + 1) /\ j \in Int /\ k \in Int
  <2>1. j \in i..(Len(s) + 1) /\ k \in j..(Len(s) + 1)
    BY <1>2
  <2>2. QED
    BY <1>1, <2>1
<1>4. Blank(s, i, k - 1)
  <2>1. ASSUME NEW x \in i..(k - 1) PROVE x \in i..(j - 1) \/ x \in j..(k - 1)
    BY <1>1, <1>3
  <2>2. QED
    BY <1>2, <2>1 DEF Blank
<1>5. Calc!SkipSpaces(s, i) = k
  BY <1>2, <1>3, <1>4, SkipOnce
<1>6. QED
  BY <1>5 DEF k

-----------------------------------------------------------------------------
(* Digits and points are no spaces, operators or parentheses.              *)
LEMMA DigitIs ==
  /\ "end" \notin Calc!Numerals /\ Space \notin Calc!Numerals /\ Space \notin Calc!Operators
  /\ "-" \notin Calc!Numerals /\ "(" \notin Calc!Numerals /\ ")" \notin Calc!Numerals
  /\ Calc!Operators \cap Calc!Numerals = {}
<1>1. Calc!Numerals = {"0", "1", "2", "3", "4", "5", "6", "7", "8", "9", "."}
  BY DEF Calc!Numerals, Calc!Digits
<1>2. Space \notin Calc!Numerals /\ Space \notin Calc!Operators
  BY <1>1 DEF Space, Calc!Operators
<1>3. QED
  BY <1>1, <1>2 DEF Calc!Operators

(* What parse_factor reads where there is no parenthesis.                  *)
LEMMA LiteralIs ==
  ASSUME NEW s \in Texts, NEW i \in Offsets(s)
  PROVE  /\ Calc!Literal(s, i) \in Results(s)
         /\ Calc!Literal(s, i).ok =>
              /\ Calc!Literal(s, i).at \in (i + 1)..(Len(s) + 1)
              /\ Calc!IsNumber(s, i, Calc!Literal(s, i).at - 1)
              /\ Calc!Literal(s, i).value = Calc!Number(s, i, Calc!Literal(s, i).at - 1)
<1> DEFINE first == IF Calc!Peek(s, i) = "-" THEN i + 1 ELSE i
           end == Calc!PassOver(s, first, Calc!Numerals)
<1>1. Len(s) \in Nat /\ i \in 1..(Len(s) + 1)
  BY TextFacts DEF Offsets
<1>2. Calc!Peek(s, i) = "-" => i \in 1..Len(s)
  BY <1>1, TextFacts
<1>3. first \in 1..(Len(s) + 1) /\ i <= first
  BY <1>1, <1>2
<1>4. end \in first..(Len(s) + 1) /\ \A k \in first..(end - 1) : s[k] \in Calc!Numerals
  <2> HIDE DEF first
  <2> QED  BY <1>3, DigitIs, PassOverIs DEF Offsets
<1>5. Calc!Literal(s, i) = IF end = first \/ Calc!Number(s, i, end - 1) \notin Floats THEN Calc!NotRead
                          ELSE Calc!Read(Calc!Number(s, i, end - 1), end)
  BY DEF Calc!Literal
<1>6. CASE end = first \/ Calc!Number(s, i, end - 1) \notin Floats
  <2>1. Calc!Literal(s, i) = Calc!NotRead
    <3> HIDE DEF first, end
    <3> QED  BY <1>5, <1>6
  <2>2. QED
    BY <2>1 DEF Results, Calc!NotRead
<1>7. CASE end # first /\ Calc!Number(s, i, end - 1) \in Floats
  <2> HIDE DEF end
  <2>1. first <= end - 1 /\ end - 1 \in 1..Len(s) /\ i \in 1..Len(s) /\ end \in (i + 1)..(Len(s) + 1)
    <3> HIDE DEF first
    <3> QED  BY <1>1, <1>3, <1>4, <1>7
  <2>2. first = IF s[i] = "-" THEN i + 1 ELSE i
    BY <2>1, TextFacts
  <2>3. Calc!IsNumber(s, i, end - 1)
    <3> HIDE DEF first
    <3> QED  BY <1>4, <1>7, <2>1, <2>2 DEF Calc!IsNumber
  <2>4. Calc!Number(s, i, end - 1) \in Floats
    BY <1>7
  <2>5. Calc!Literal(s, i) = Calc!Read(Calc!Number(s, i, end - 1), end)
    <3> HIDE DEF first
    <3> QED  BY <1>5, <1>7
  <2>6. end \in Offsets(s)
    BY <1>1, <2>1 DEF Offsets
  <2>7. QED
    BY <2>1, <2>3, <2>4, <2>5, <2>6 DEF Results, Calc!Read
<1>8. QED
  BY <1>6, <1>7

(* It reads a number that is not followed by another digit.                *)
LEMMA LiteralReads ==
  ASSUME NEW s \in Texts, NEW i \in 1..Len(s), NEW j \in 1..Len(s), Calc!IsNumber(s, i, j),
         Calc!Peek(s, j + 1) \notin Calc!Numerals
  PROVE  Calc!Literal(s, i) = Calc!Read(Calc!Number(s, i, j), j + 1)
<1> DEFINE first == IF s[i] = "-" THEN i + 1 ELSE i
<1>1. Len(s) \in Nat /\ Calc!Peek(s, i) = s[i]
  BY TextFacts
<1>2. first <= j /\ first \in 1..(Len(s) + 1) /\ \A k \in first..j : s[k] \in Calc!Numerals
  BY DEF Calc!IsNumber
<1>3. first = IF Calc!Peek(s, i) = "-" THEN i + 1 ELSE i
  BY <1>1
<1> HIDE DEF first
<1>4. first \in Offsets(s) /\ j + 1 \in first..(Len(s) + 1) /\ j + 1 - 1 = j /\ j + 1 # first
  BY <1>1, <1>2 DEF Offsets
<1>5. Calc!PassOver(s, first, Calc!Numerals) = j + 1
  <2>1. \A k \in first..(j + 1 - 1) : s[k] \in Calc!Numerals
    BY <1>2, <1>4
  <2>2. "end" \notin Calc!Numerals
    BY DigitIs
  <2>3. QED
    BY <1>4, <2>1, <2>2, PassOverOnce
<1>6. Calc!Number(s, i, j) \in Floats
  BY DEF Calc!IsNumber
<1>7. QED
  BY <1>3, <1>4, <1>5, <1>6 DEF Calc!Literal

-----------------------------------------------------------------------------
(* The parts of the parser return results.                                 *)
Readings(s) == [Offsets(s) -> Results(s)]

(* What is read has a value and an offset.                                 *)
LEMMA ResultIs ==
  ASSUME NEW s \in Texts, NEW r \in Results(s)
  PROVE  /\ r.ok \in BOOLEAN
         /\ r.ok => r.value \in Floats /\ r.at \in Offsets(s)
         /\ ~r.ok => r = Calc!NotRead
<1>1. CASE r \in [ok : {TRUE}, value : Floats, at : Offsets(s)]
  BY <1>1
<1>2. CASE r = Calc!NotRead
  BY <1>2 DEF Calc!NotRead
<1>3. QED
  BY <1>1, <1>2 DEF Results

(* An operator makes a value of two.                                       *)
LEMMA RoundedType ==
  ASSUME NEW op \in Calc!Operators, NEW p \in Floats, NEW q \in Floats
  PROVE  Rounded(op, p, q) \in Floats
  BY ArithmeticAssumption DEF Calc!ArithmeticAssumption, Calc!Operators

(* Where an operator is met, something can follow.                         *)
LEMMA OperatorAt ==
  ASSUME NEW s \in Texts, NEW e \in Offsets(s), Calc!Peek(s, Calc!SkipSpaces(s, e)) # "end"
  PROVE  /\ Calc!SkipSpaces(s, e) \in e..Len(s) /\ Calc!SkipSpaces(s, e) \in 1..Len(s)
         /\ Calc!SkipSpaces(s, e) + 1 \in Offsets(s)
         /\ Calc!Peek(s, Calc!SkipSpaces(s, e)) = s[Calc!SkipSpaces(s, e)]
<1> DEFINE k == Calc!SkipSpaces(s, e)
<1>1. k \in e..(Len(s) + 1) /\ k \in 1..(Len(s) + 1) /\ Len(s) \in Nat /\ e \in Nat
  <2>1. k \in e..(Len(s) + 1) /\ k \in Offsets(s)
    BY SkipIs
  <2>2. Len(s) \in Nat
    BY TextFacts
  <2>3. QED
    BY <2>1, <2>2 DEF Offsets
<1>2. k # Len(s) + 1
  BY TextFacts
<1> HIDE DEF k
<1>3. k \in e..Len(s) /\ k \in 1..Len(s) /\ k + 1 \in 1..(Len(s) + 1)
  BY <1>1, <1>2
<1>4. QED
  BY <1>3, TextFacts DEF k, Offsets

(* What an operator makes of two results is a result.                      *)
LEMMA CombinedType ==
  ASSUME NEW s \in Texts, NEW so \in Results(s), so.ok, NEW op \in Calc!Operators,
         NEW next \in Results(s)
  PROVE  Calc!Combined(so, op, next) \in Results(s)
<1>1. CASE ~next.ok \/ (op = "/" /\ next.value \in Zeros)
  BY <1>1 DEF Calc!Combined, Results
<1>2. CASE ~(~next.ok \/ (op = "/" /\ next.value \in Zeros))
  <2>1. next.value \in Floats /\ next.at \in Offsets(s) /\ so.value \in Floats
    BY <1>2, ResultIs
  <2>2. Rounded(op, so.value, next.value) \in Floats
    BY <2>1, RoundedType
  <2>3. Calc!Combined(so, op, next) = Calc!Read(Rounded(op, so.value, next.value), next.at)
    BY <1>2 DEF Calc!Combined
  <2>4. QED
    BY <2>1, <2>2, <2>3 DEF Results, Calc!Read
<1>3. QED
  BY <1>1, <1>2

(* Once through the loop of parse_expression or of parse_term.             *)
LEMMA MoreType ==
  ASSUME NEW s \in Texts, NEW so \in Results(s), NEW ops \in SUBSET Calc!Operators,
         NEW part \in Readings(s)
  PROVE  Calc!More(s, so, ops, part) \in Results(s)
<1> DEFINE i == Calc!SkipSpaces(s, so.at)
<1>1. CASE ~so.ok \/ Calc!Peek(s, i) \notin ops
  BY <1>1 DEF Calc!More
<1>2. CASE ~(~so.ok \/ Calc!Peek(s, i) \notin ops)
  <2>1. so.at \in Offsets(s) /\ Calc!Peek(s, i) \in Calc!Operators
    BY <1>2, ResultIs
  <2>2. Calc!Peek(s, i) # "end"
    BY <2>1 DEF Calc!Operators
  <2>3. i + 1 \in Offsets(s)
    BY <2>1, <2>2, OperatorAt
  <2>4. part[i + 1] \in Results(s)
    BY <2>3 DEF Readings
  <2>5. Calc!More(s, so, ops, part) = Calc!Combined(so, Calc!Peek(s, i), part[i + 1])
    BY <1>2 DEF Calc!More
  <2>6. QED
    <3> HIDE DEF i
    <3> QED  BY <1>2, <2>1, <2>4, <2>5, CombinedType
<1>3. QED
  BY <1>1, <1>2

(* A loop of the parser goes from one result to the next.                  *)
Looped(s, first, ops, part, after) ==
  /\ after \in [0..Len(s) -> Results(s)] /\ after[0] = first
  /\ \A n \in 1..Len(s) : after[n] = Calc!More(s, after[n - 1], ops, part)
  /\ Calc!Loop(s, first, ops, part) = after[Len(s)]

(* A loop is its steps, one after the other.                               *)
LEMMA LoopIs ==
  ASSUME NEW s \in Texts, NEW first \in Results(s), NEW ops \in SUBSET Calc!Operators,
         NEW part \in Readings(s)
  PROVE  \E after : Looped(s, first, ops, part, after)
<1> DEFINE N == Len(s)
           V == Results(s)
           Up(x) == Calc!More(s, x, ops, part)
           Does(g) == g = [n \in 0..N |-> IF n = 0 THEN first ELSE Calc!More(s, g[n - 1], ops, part)]
           rule == [n \in 1..N |-> [x \in V |-> Up(x)]]
           after == CHOOSE g : Does(g)
<1>1. N \in Nat /\ \A x \in V : Up(x) \in V
  BY TextFacts, MoreType
<1> HIDE DEF N, V
<1>2. rule \in Rules(N, V)
  <2> HIDE DEF Up
  <2> QED  BY <1>1 DEF Rules
<1>3. PICK g \in [0..N -> V] : g[0] = first /\ \A n \in 1..N : g[n] = rule[n][g[n - 1]]
  <2> HIDE DEF rule
  <2>1. Followed(N, V, first, rule)
    BY <1>1, <1>2, Recursion DEF V
  <2>2. QED
    BY <2>1 DEF Followed
<1>4. ASSUME NEW n \in 1..N PROVE g[n] = Up(g[n - 1])
  <2>1. n - 1 \in 0..N
    BY <1>1
  <2>2. g[n - 1] \in V
    BY <2>1
  <2>3. QED
    <3> HIDE DEF Up
    <3> QED  BY <1>3, <2>2
<1>5. Does(g)
  <2>1. ASSUME NEW n \in 0..N
        PROVE  g[n] = IF n = 0 THEN first ELSE Calc!More(s, g[n - 1], ops, part)
    <3>1. n # 0 => n \in 1..N
      BY <1>1
    <3>2. QED
      BY <1>3, <1>4, <3>1
  <2>2. QED
    BY <2>1
<1>6. Does(after)
  <2> HIDE DEF Does
  <2> QED  BY <1>5
<1>7. after[0] = first /\ DOMAIN after = 0..N /\ \A n \in 1..N : after[n] = Up(after[n - 1])
  <2> HIDE DEF after
  <2>1. \A n \in 1..N : n \in 0..N /\ n # 0
    BY <1>1
  <2>2. 0 \in 0..N
    BY <1>1
  <2>3. QED
    BY <1>6, <2>1, <2>2
<1>8. Calc!Loop(s, first, ops, part) = after[N]
  BY DEF Calc!Loop, N
<1>9. after = [n \in 0..N |-> after[n]]
  <2> HIDE DEF after
  <2> QED  BY <1>6
<1> HIDE DEF after
<1> DEFINE T == {n \in Nat : n <= N => after[n] \in V}
<1>10. Nat \subseteq T
  <2> HIDE DEF Up
  <2>1. 0 \in T
    BY <1>7 DEF V
  <2>2. ASSUME NEW n \in Nat, n \in T PROVE n + 1 \in T
    <3>1. SUFFICES ASSUME n + 1 <= N PROVE after[n + 1] \in V
      OBVIOUS
    <3>2. n + 1 \in 1..N /\ n + 1 - 1 = n /\ after[n] \in V
      BY <1>1, <2>2, <3>1
    <3>3. after[n + 1] = Up(after[n])
      BY <1>7, <3>2
    <3>4. QED
      BY <1>1, <3>2, <3>3
  <2>3. QED
    <3> HIDE DEF T
    <3> QED  BY <2>1, <2>2, NatAll
<1>11. \A n \in 0..N : after[n] \in V
  BY <1>1, <1>10
<1>12. after \in [0..N -> V]
  BY <1>9, <1>11
<1>13. Looped(s, first, ops, part, after)
  BY <1>7, <1>8, <1>12 DEF Looped, N, V
<1>14. QED
  BY <1>13

(* parse_term returns a result wherever it starts.                         *)
LEMMA TermsType ==
  ASSUME NEW s \in Texts, NEW factor \in Readings(s)
  PROVE  /\ Calc!Terms(s, factor) \in Readings(s)
         /\ \A i \in Offsets(s) : Calc!Terms(s, factor)[i] = Calc!Loop(s, factor[i], {"*", "/"}, factor)
<1>1. ASSUME NEW i \in Offsets(s) PROVE Calc!Loop(s, factor[i], {"*", "/"}, factor) \in Results(s)
  <2>1. factor[i] \in Results(s) /\ {"*", "/"} \in SUBSET Calc!Operators
    BY DEF Readings, Calc!Operators
  <2>2. PICK after : Looped(s, factor[i], {"*", "/"}, factor, after)
    BY <2>1, LoopIs
  <2>3. Len(s) \in 0..Len(s)
    BY TextFacts
  <2>4. QED
    BY <2>2, <2>3 DEF Looped
<1>2. QED
  BY <1>1 DEF Calc!Terms, Readings, Offsets

(* parse_expression does.                                                  *)
LEMMA ExpressionType ==
  ASSUME NEW s \in Texts, NEW factor \in Readings(s), NEW i \in Offsets(s)
  PROVE  Calc!Expression(s, i, factor) \in Results(s)
<1> DEFINE term == Calc!Terms(s, factor)
<1>1. term \in Readings(s) /\ term[i] \in Results(s) /\ {"+", "-"} \in SUBSET Calc!Operators
  BY TermsType DEF Readings, Calc!Operators
<1>2. PICK after : Looped(s, term[i], {"+", "-"}, term, after)
  <2> HIDE DEF term
  <2> QED  BY <1>1, LoopIs
<1>3. Len(s) \in 0..Len(s)
  BY TextFacts
<1>4. QED
  BY <1>2, <1>3 DEF Looped, Calc!Expression

(* A part in parentheses does.                                             *)
LEMMA ClosedType ==
  ASSUME NEW s \in Texts, NEW inner \in Results(s)
  PROVE  Calc!Closed(s, inner) \in Results(s)
<1> DEFINE i == Calc!SkipSpaces(s, inner.at)
<1>1. CASE ~(inner.ok /\ Calc!Peek(s, i) = ")")
  BY <1>1 DEF Calc!Closed, Results
<1>2. CASE inner.ok /\ Calc!Peek(s, i) = ")"
  <2>1. inner.value \in Floats /\ inner.at \in Offsets(s)
    BY <1>2, ResultIs
  <2>2. i + 1 \in Offsets(s)
    BY <1>2, <2>1, OperatorAt
  <2>3. QED
    BY <1>2, <2>1, <2>2 DEF Calc!Closed, Calc!Read, Results
<1>3. QED
  BY <1>1, <1>2

-----------------------------------------------------------------------------
(* How deep in parentheses a place is.                                     *)
Count(s, c, i, j) == Cardinality({k \in i..j : s[k] = c})

(* The depth is the parentheses opened less the parentheses closed.        *)
LEMMA DepthIs ==
  ASSUME NEW s, NEW i, NEW j
  PROVE  Calc!Depth(s, i, j) = Count(s, "(", i, j) - Count(s, ")", i, j)
<1>1. \A S : Calc!Cardinality(S) = Cardinality(S)
  BY DEF Calc!Cardinality, Cardinality
<1>2. QED
  BY <1>1 DEF Calc!Depth, Count

(* A character occurs so many times in a part.                             *)
LEMMA CountType ==
  ASSUME NEW s, NEW c, NEW i \in Int, NEW j \in Int
  PROVE  Count(s, c, i, j) \in Nat /\ IsFiniteSet({k \in i..j : s[k] = c})
<1>1. IsFiniteSet(i..j)
  BY FS_Interval
<1>2. {k \in i..j : s[k] = c} \subseteq i..j
  OBVIOUS
<1>3. IsFiniteSet({k \in i..j : s[k] = c})
  BY <1>1, <1>2, FS_Subset
<1>4. QED
  BY <1>3, FS_CardinalityType DEF Count

(* Not at all.                                                             *)
LEMMA CountNone ==
  ASSUME NEW s, NEW c, NEW i \in Int, NEW j \in Int, \A k \in i..j : s[k] # c
  PROVE  Count(s, c, i, j) = 0
<1>1. {k \in i..j : s[k] = c} = {}
  OBVIOUS
<1>2. QED
  BY <1>1, FS_EmptySet DEF Count

(* Once, in a part of one character.                                       *)
LEMMA CountOne ==
  ASSUME NEW s, NEW c, NEW i \in Int
  PROVE  Count(s, c, i, i) = IF s[i] = c THEN 1 ELSE 0
<1>1. i..i = {i}
  OBVIOUS
<1>2. CASE s[i] = c
  <2>1. {k \in i..i : s[k] = c} = {i}
    BY <1>1, <1>2
  <2>2. QED
    BY <1>2, <2>1, FS_Singleton DEF Count
<1>3. CASE s[i] # c
  <2>1. \A k \in i..i : s[k] # c
    BY <1>1, <1>3
  <2>2. QED
    BY <1>3, <2>1, CountNone
<1>4. QED
  BY <1>2, <1>3

(* In two parts, as often as in both.                                      *)
LEMMA CountParts ==
  ASSUME NEW s, NEW c, NEW i \in Int, NEW j \in Int, NEW k \in Int, i <= k + 1, k <= j
  PROVE  Count(s, c, i, j) = Count(s, c, i, k) + Count(s, c, k + 1, j)
<1> DEFINE A == {m \in i..k : s[m] = c}
           B == {m \in (k + 1)..j : s[m] = c}
<1>1. IsFiniteSet(A) /\ IsFiniteSet(B) /\ Cardinality(A) \in Nat /\ Cardinality(B) \in Nat
  <2>1. k + 1 \in Int
    OBVIOUS
  <2>2. Count(s, c, i, k) \in Nat /\ IsFiniteSet(A)
    BY CountType
  <2>3. Count(s, c, k + 1, j) \in Nat /\ IsFiniteSet(B)
    BY <2>1, CountType
  <2>4. QED
    BY <2>2, <2>3 DEF Count
<1>2. A \cap B = {}
  OBVIOUS
<1>3. {m \in i..j : s[m] = c} = A \cup B
  <2>1. \A m \in i..j : m \in i..k \/ m \in (k + 1)..j
    OBVIOUS
  <2>2. \A m \in i..k : m \in i..j
    OBVIOUS
  <2>3. \A m \in (k + 1)..j : m \in i..j
    OBVIOUS
  <2>4. QED
    BY <2>1, <2>2, <2>3
<1>4. Cardinality(A \cup B) = Cardinality(A) + Cardinality(B)
  <2> HIDE DEF A, B
  <2>1. Cardinality(A \cup B) = Cardinality(A) + Cardinality(B) - Cardinality(A \cap B)
    BY <1>1, FS_Union
  <2>2. Cardinality(A \cap B) = 0
    BY <1>2, FS_EmptySet
  <2>3. QED
    BY <1>1, <2>1, <2>2
<1>5. QED
  BY <1>3, <1>4 DEF Count

(* The depth is a number, below zero too.                                  *)
LEMMA DepthType ==
  ASSUME NEW s, NEW i \in Int, NEW j \in Int
  PROVE  Calc!Depth(s, i, j) \in Int
<1>1. Calc!Depth(s, i, j) = Count(s, "(", i, j) - Count(s, ")", i, j)
  BY DepthIs
<1>2. Count(s, "(", i, j) \in Nat /\ Count(s, ")", i, j) \in Nat
  BY CountType
<1>3. QED
  BY <1>1, <1>2

(* Depths of two parts add up.                                             *)
LEMMA DepthParts ==
  ASSUME NEW s, NEW i \in Int, NEW j \in Int, NEW k \in Int, i <= k + 1, k <= j
  PROVE  Calc!Depth(s, i, j) = Calc!Depth(s, i, k) + Calc!Depth(s, k + 1, j)
<1>1. /\ Count(s, "(", i, j) = Count(s, "(", i, k) + Count(s, "(", k + 1, j)
      /\ Count(s, ")", i, j) = Count(s, ")", i, k) + Count(s, ")", k + 1, j)
  BY CountParts
<1>2. /\ Count(s, "(", i, k) \in Nat /\ Count(s, "(", k + 1, j) \in Nat
      /\ Count(s, ")", i, k) \in Nat /\ Count(s, ")", k + 1, j) \in Nat
  <2>1. k + 1 \in Int
    OBVIOUS
  <2>2. QED
    BY <2>1, CountType
<1>3. /\ Calc!Depth(s, i, j) = Count(s, "(", i, j) - Count(s, ")", i, j)
      /\ Calc!Depth(s, i, k) = Count(s, "(", i, k) - Count(s, ")", i, k)
      /\ Calc!Depth(s, k + 1, j) = Count(s, "(", k + 1, j) - Count(s, ")", k + 1, j)
  BY DepthIs
<1>4. QED
  BY <1>1, <1>2, <1>3

(* Without parentheses it is zero.                                         *)
LEMMA DepthNone ==
  ASSUME NEW s, NEW i \in Int, NEW j \in Int, \A k \in i..j : s[k] \notin {"(", ")"}
  PROVE  Calc!Depth(s, i, j) = 0
<1>1. Calc!Depth(s, i, j) = Count(s, "(", i, j) - Count(s, ")", i, j)
  BY DepthIs
<1>2. Count(s, "(", i, j) = 0 /\ Count(s, ")", i, j) = 0
  BY CountNone
<1>3. QED
  BY <1>1, <1>2

(* A parenthesis changes it by one.                                        *)
LEMMA DepthOne ==
  ASSUME NEW s, NEW i \in Int
  PROVE  /\ s[i] = "(" => Calc!Depth(s, i, i) = 1
         /\ s[i] = ")" => Calc!Depth(s, i, i) = -1
<1>1. Calc!Depth(s, i, i) = Count(s, "(", i, i) - Count(s, ")", i, i)
  BY DepthIs
<1>2. QED
  BY <1>1, CountOne

-----------------------------------------------------------------------------
(* The first and the last character of a part of the text.                 *)
LEMMA KeptIs ==
  ASSUME NEW s \in Texts, NEW i \in Int, NEW j \in Int, Calc!Kept(s, i, j) # {}
  PROVE  /\ Calc!Min(Calc!Kept(s, i, j)) \in i..j /\ s[Calc!Min(Calc!Kept(s, i, j))] # Space
         /\ Blank(s, i, Calc!Min(Calc!Kept(s, i, j)) - 1)
         /\ Calc!Max(Calc!Kept(s, i, j)) \in i..j /\ s[Calc!Max(Calc!Kept(s, i, j))] # Space
         /\ Blank(s, Calc!Max(Calc!Kept(s, i, j)) + 1, j)
         /\ Calc!Min(Calc!Kept(s, i, j)) <= Calc!Max(Calc!Kept(s, i, j))
<1> DEFINE kept == Calc!Kept(s, i, j)
           a == Calc!Min(kept)
           z == Calc!Max(kept)
<1>1. kept \subseteq i..j /\ \A k \in kept : s[k] # Space
  BY SpaceIs
<1>2. \A k \in i..j : k \notin kept => s[k] = Space
  BY SpaceIs
<1> HIDE DEF kept
<1>3. kept # {}
  BY DEF kept
<1>4. a \in kept /\ \A x \in kept : a <= x
  BY <1>1, <1>3, MinIs
<1>5. z \in kept /\ \A x \in kept : x <= z
  BY <1>1, <1>3, MaxIs
<1> HIDE DEF a, z
<1>6. s[a] # Space /\ s[z] # Space /\ a <= z
  BY <1>1, <1>4, <1>5
<1>7. a \in i..j /\ z \in i..j
  BY <1>1, <1>4, <1>5
<1>8. ASSUME NEW k \in i..(a - 1) PROVE s[k] = Space
  <2>1. k \in i..j /\ ~(a <= k)
    BY <1>7
  <2>2. QED
    BY <1>2, <1>4, <2>1
<1>9. ASSUME NEW k \in (z + 1)..j PROVE s[k] = Space
  <2>1. k \in i..j /\ ~(k <= z)
    BY <1>7
  <2>2. QED
    BY <1>2, <1>5, <2>1
<1>10. QED
  BY <1>6, <1>7, <1>8, <1>9 DEF Blank, a, z, kept

(* The first and the last of what is kept.                                 *)
LEMMA KeptFrom ==
  ASSUME NEW s \in Texts, NEW i \in Int, NEW j \in Int, NEW m \in i..j, s[m] # Space
  PROVE  /\ Calc!Kept(s, i, j) # {}
         /\ Blank(s, i, m - 1) => Calc!Min(Calc!Kept(s, i, j)) = m
         /\ Blank(s, m + 1, j) => Calc!Max(Calc!Kept(s, i, j)) = m
<1> DEFINE a == Calc!Min(Calc!Kept(s, i, j))
           z == Calc!Max(Calc!Kept(s, i, j))
<1>1. m \in Calc!Kept(s, i, j)
  BY SpaceIs
<1>2. /\ a \in i..j /\ s[a] # Space /\ Blank(s, i, a - 1)
      /\ z \in i..j /\ s[z] # Space /\ Blank(s, z + 1, j)
  BY <1>1, KeptIs
<1> HIDE DEF a, z
<1>3. a \in i..j /\ z \in i..j /\ a \in Int /\ z \in Int /\ m \in Int
  <2>1. a \in i..j /\ z \in i..j
    BY <1>2
  <2>2. QED
    BY <2>1
<1>4. ASSUME Blank(s, i, m - 1) PROVE a = m
  <2>1. a < m => a \in i..(m - 1)
    BY <1>3
  <2>2. m < a => m \in i..(a - 1)
    BY <1>3
  <2>3. ~(a < m) /\ ~(m < a)
    BY <1>2, <1>4, <2>1, <2>2 DEF Blank
  <2>4. QED
    BY <1>3, <2>3
<1>5. ASSUME Blank(s, m + 1, j) PROVE z = m
  <2>1. z < m => m \in (z + 1)..j
    BY <1>3
  <2>2. m < z => z \in (m + 1)..j
    BY <1>3
  <2>3. ~(z < m) /\ ~(m < z)
    BY <1>2, <1>5, <2>1, <2>2 DEF Blank
  <2>4. QED
    BY <1>3, <2>3
<1>6. QED
  BY <1>1, <1>4, <1>5 DEF a, z

(* An operator follows an operand.                                         *)
OperandEnd == Calc!Numerals \cup {")"}
Ends(s, i, k) == \E m \in i..(k - 1) : s[m] \in OperandEnd /\ Blank(s, m + 1, k - 1)

(* What splits a part, without what is kept of it.                         *)
LEMMA SplitsAre ==
  ASSUME NEW s \in Texts, NEW i \in Int, NEW j \in Int, NEW kind
  PROVE  Calc!Splits(s, i, j, kind) =
           {k \in i..j : s[k] \in kind /\ Calc!Depth(s, i, k) = 0 /\ Ends(s, i, k)}
<1>1. ASSUME NEW k \in i..j
      PROVE  Ends(s, i, k) <=> /\ Calc!Kept(s, i, k - 1) # {}
                               /\ s[Calc!Max(Calc!Kept(s, i, k - 1))] \in OperandEnd
  <2> DEFINE z == Calc!Max(Calc!Kept(s, i, k - 1))
  <2>1. k - 1 \in Int
    OBVIOUS
  <2>0. Space \notin OperandEnd
    BY DigitIs, SpaceIs DEF OperandEnd
  <2>2. ASSUME Calc!Kept(s, i, k - 1) # {}, s[z] \in OperandEnd PROVE Ends(s, i, k)
    <3>1. z \in i..(k - 1) /\ Blank(s, z + 1, k - 1)
      BY <2>1, <2>2, KeptIs
    <3>2. QED
      BY <2>2, <3>1 DEF Ends
  <2>3. ASSUME Ends(s, i, k) PROVE Calc!Kept(s, i, k - 1) # {} /\ s[z] \in OperandEnd
    <3>1. PICK m \in i..(k - 1) : s[m] \in OperandEnd /\ Blank(s, m + 1, k - 1)
      BY <2>3 DEF Ends
    <3>2. s[m] # Space
      BY <2>0, <3>1
    <3>3. Calc!Kept(s, i, k - 1) # {} /\ z = m
      BY <2>1, <3>1, <3>2, KeptFrom
    <3>4. QED
      BY <3>1, <3>3
  <2>4. QED
    BY <2>2, <2>3
<1>2. QED
  BY <1>1 DEF Calc!Splits, OperandEnd

-----------------------------------------------------------------------------
(* The operators that may split a part, and those of what is left of it.   *)
LEMMA SplitIs ==
  ASSUME NEW s \in Texts, NEW i \in Int, NEW j \in Int, NEW kind, NEW k
  PROVE  k \in Calc!Splits(s, i, j, kind) <=>
           k \in i..j /\ s[k] \in kind /\ Calc!Depth(s, i, k) = 0 /\ Ends(s, i, k)
  BY SplitsAre

(* The operand is before its operator.                                     *)
LEMMA EndsWithin ==
  ASSUME NEW s \in Texts, NEW i \in Int, NEW k \in Int, Ends(s, i, k)
  PROVE  i < k
<1>1. PICK m \in i..(k - 1) : TRUE
  BY DEF Ends
<1>2. QED
  BY <1>1

(* Past an operator outside parentheses, a part is split as a part of its  *)
(* own.                                                                    *)
LEMMA SplitsBeyond ==
  ASSUME NEW s \in Texts, NEW i \in Int, NEW j \in Int, NEW k \in i..j,
         s[k] \in Calc!Operators, Calc!Depth(s, i, k) = 0, NEW kind, NEW m \in (k + 1)..j
  PROVE  m \in Calc!Splits(s, i, j, kind) <=> m \in Calc!Splits(s, k + 1, j, kind)
<1>1. k \in Int /\ m \in Int /\ k + 1 \in Int /\ i <= k /\ k + 1 <= m /\ m \in i..j
  OBVIOUS
<1>2. Calc!Depth(s, i, m) = Calc!Depth(s, k + 1, m)
  <2>1. Calc!Depth(s, i, m) = Calc!Depth(s, i, k) + Calc!Depth(s, k + 1, m)
    BY <1>1, DepthParts
  <2>2. Calc!Depth(s, k + 1, m) \in Int
    BY <1>1, DepthType
  <2>3. QED
    BY <2>1, <2>2
<1>3. Ends(s, i, m) <=> Ends(s, k + 1, m)
  <2>1. s[k] \notin OperandEnd /\ s[k] # Space
    BY DigitIs DEF OperandEnd, Calc!Operators
  <2>2. ASSUME Ends(s, i, m) PROVE Ends(s, k + 1, m)
    <3>1. PICK n \in i..(m - 1) : s[n] \in OperandEnd /\ Blank(s, n + 1, m - 1)
      BY <2>2 DEF Ends
    <3>2. n # k
      BY <2>1, <3>1
    <3>3. n < k => k \in (n + 1)..(m - 1)
      BY <1>1
    <3>4. ~(n < k)
      BY <2>1, <3>1, <3>3 DEF Blank
    <3>5. n \in (k + 1)..(m - 1)
      BY <1>1, <3>2, <3>4
    <3>6. QED
      BY <3>1, <3>5 DEF Ends
  <2>3. ASSUME Ends(s, k + 1, m) PROVE Ends(s, i, m)
    <3>1. PICK n \in (k + 1)..(m - 1) : s[n] \in OperandEnd /\ Blank(s, n + 1, m - 1)
      BY <2>3 DEF Ends
    <3>2. n \in i..(m - 1)
      BY <1>1
    <3>3. QED
      BY <3>1, <3>2 DEF Ends
  <2>4. QED
    BY <2>2, <2>3
<1>4. /\ m \in Calc!Splits(s, i, j, kind) <=> /\ m \in i..j /\ s[m] \in kind
                                               /\ Calc!Depth(s, i, m) = 0 /\ Ends(s, i, m)
      /\ m \in Calc!Splits(s, k + 1, j, kind) <=> /\ m \in (k + 1)..j /\ s[m] \in kind
                                                   /\ Calc!Depth(s, k + 1, m) = 0 /\ Ends(s, k + 1, m)
  BY <1>1, SplitIs
<1>5. QED
  BY <1>1, <1>2, <1>3, <1>4

(* What splits a part, last or first: the operators of the lowest rank.    *)
Low == {"+", "-"}
High == {"*", "/"}
Lowest(s, i, j) ==
  IF Calc!Splits(s, i, j, Low) # {} THEN Calc!Splits(s, i, j, Low) ELSE Calc!Splits(s, i, j, High)
Where(s, i, j) == Calc!Max(Lowest(s, i, j))
First(s, i, j) == Calc!Min(Calc!Kept(s, i, j))
Last(s, i, j) == Calc!Max(Calc!Kept(s, i, j))

(* A part is split at its last operator of the lowest rank.                *)
LEMMA WhereIs ==
  ASSUME NEW s \in Texts, NEW i \in Int, NEW j \in Int, Lowest(s, i, j) # {}
  PROVE  /\ Where(s, i, j) \in Lowest(s, i, j) /\ Where(s, i, j) \in (i + 1)..j
         /\ s[Where(s, i, j)] \in Calc!Operators
         /\ Calc!Depth(s, i, Where(s, i, j)) = 0
         /\ \A m \in Lowest(s, i, j) : m <= Where(s, i, j)
<1>1. ASSUME NEW k \in Lowest(s, i, j)
      PROVE  k \in (i + 1)..j /\ s[k] \in Calc!Operators /\ Calc!Depth(s, i, k) = 0
  <2>1. k \in Calc!Splits(s, i, j, Low) \/ k \in Calc!Splits(s, i, j, High)
    BY <1>1 DEF Lowest
  <2>2. /\ k \in i..j /\ (s[k] \in Low \/ s[k] \in High)
        /\ Calc!Depth(s, i, k) = 0 /\ Ends(s, i, k)
    BY <2>1, SplitIs
  <2>3. k \in Int
    BY <2>2
  <2>4. i < k
    BY <2>2, <2>3, EndsWithin
  <2>5. k \in (i + 1)..j
    BY <2>2, <2>4
  <2>6. s[k] \in Calc!Operators
    BY <2>2 DEF Low, High, Calc!Operators
  <2>7. QED
    BY <2>2, <2>5, <2>6
<1>2. Lowest(s, i, j) \subseteq (i + 1)..j /\ i + 1 \in Int
  BY <1>1
<1>3. Where(s, i, j) \in Lowest(s, i, j) /\ \A m \in Lowest(s, i, j) : m <= Where(s, i, j)
  BY <1>2, MaxIs DEF Where
<1>4. QED
  BY <1>1, <1>3

(* The rules by which a part means something.                              *)
LEMMA MeaningCases ==
  ASSUME NEW s, NEW i, NEW j, NEW means
  PROVE  Calc!MeaningOf(s, i, j, means) =
           IF Calc!Kept(s, i, j) = {} THEN Calc!NotRead
           ELSE IF Lowest(s, i, j) # {}
                THEN Calc!Value(means[i][Where(s, i, j) - 1], s[Where(s, i, j)],
                                means[Where(s, i, j) + 1][j])
           ELSE IF s[First(s, i, j)] = "(" /\ s[Last(s, i, j)] = ")"
                THEN means[First(s, i, j) + 1][Last(s, i, j) - 1]
           ELSE IF Calc!IsNumber(s, First(s, i, j), Last(s, i, j))
                THEN Calc!Read(Calc!Number(s, First(s, i, j), Last(s, i, j)), 0)
           ELSE Calc!NotRead
<1>1. (Calc!Splits(s, i, j, Low) \cup Calc!Splits(s, i, j, High) # {}) <=> Lowest(s, i, j) # {}
  BY DEF Lowest
<1>2. QED
  BY <1>1 DEF Calc!MeaningOf, Lowest, Where, First, Last, Low, High

(* A part means what it meant by other tables that agree on smaller parts, *)
(* whatever spaces follow it.                                              *)
Agree(i, j, l, means, meant) ==
  /\ \A k \in (i + 1)..j : means[i][k - 1] = meant[i][k - 1] /\ means[k + 1][j] = meant[k + 1][l]
  /\ \A a, z \in i..j : a < z => means[a + 1][z - 1] = meant[a + 1][z - 1]

LEMMA SameMeaning ==
  ASSUME NEW s \in Texts, NEW i \in Int, NEW j \in Int, NEW l \in Int, j <= l,
         Blank(s, j + 1, l), NEW means, NEW meant, Agree(i, j, l, means, meant)
  PROVE  Calc!MeaningOf(s, i, j, means) = Calc!MeaningOf(s, i, l, meant)
<1>1. ASSUME NEW k \in i..l, s[k] # Space PROVE k \in i..j
  <2>1. ~(k \in (j + 1)..l)
    BY <1>1 DEF Blank
  <2>2. QED
    BY <2>1
<1>2. \A k \in i..j : k \in i..l
  OBVIOUS
<1>3. Calc!Kept(s, i, l) = Calc!Kept(s, i, j)
  BY <1>1, <1>2, SpaceIs
<1>4. ASSUME NEW kind, Space \notin kind PROVE Calc!Splits(s, i, l, kind) = Calc!Splits(s, i, j, kind)
  <2>1. \A k \in i..l : s[k] \in kind => k \in i..j
    BY <1>1, <1>4
  <2>2. /\ Calc!Splits(s, i, l, kind) =
             {k \in i..l : s[k] \in kind /\ Calc!Depth(s, i, k) = 0 /\ Ends(s, i, k)}
        /\ Calc!Splits(s, i, j, kind) =
             {k \in i..j : s[k] \in kind /\ Calc!Depth(s, i, k) = 0 /\ Ends(s, i, k)}
    BY SplitsAre
  <2>3. QED
    BY <1>2, <2>1, <2>2
<1>5. Space \notin Low /\ Space \notin High
  BY DigitIs DEF Low, High, Calc!Operators
<1>6. Lowest(s, i, l) = Lowest(s, i, j) /\ Where(s, i, l) = Where(s, i, j)
  BY <1>4, <1>5 DEF Lowest, Where
<1>7. First(s, i, l) = First(s, i, j) /\ Last(s, i, l) = Last(s, i, j)
  BY <1>3 DEF First, Last
<1>8. CASE Calc!Kept(s, i, j) = {}
  BY <1>3, <1>8, MeaningCases
<1>9. CASE Calc!Kept(s, i, j) # {} /\ Lowest(s, i, j) # {}
  <2>1. Where(s, i, j) \in (i + 1)..j
    BY <1>9, WhereIs
  <2>2. /\ means[i][Where(s, i, j) - 1] = meant[i][Where(s, i, j) - 1]
        /\ means[Where(s, i, j) + 1][j] = meant[Where(s, i, j) + 1][l]
    BY <2>1 DEF Agree
  <2>3. QED
    BY <1>3, <1>6, <1>9, <2>2, MeaningCases
<1>10. CASE Calc!Kept(s, i, j) # {} /\ Lowest(s, i, j) = {}
  <2>1. First(s, i, j) \in i..j /\ Last(s, i, j) \in i..j /\ First(s, i, j) <= Last(s, i, j)
    BY <1>10, KeptIs DEF First, Last
  <2>2. ASSUME s[First(s, i, j)] = "(" /\ s[Last(s, i, j)] = ")"
        PROVE  means[First(s, i, j) + 1][Last(s, i, j) - 1] = meant[First(s, i, j) + 1][Last(s, i, j) - 1]
    <3>1. First(s, i, j) # Last(s, i, j)
      BY <2>2
    <3>2. First(s, i, j) < Last(s, i, j)
      BY <2>1, <3>1
    <3>3. QED
      BY <2>1, <3>2 DEF Agree
  <2>3. QED
    BY <1>3, <1>6, <1>7, <1>10, <2>2, MeaningCases
<1>11. QED
  BY <1>8, <1>9, <1>10

-----------------------------------------------------------------------------
(* What a text means is a table that is its own rule.                      *)
Outcomes == [ok : {TRUE}, value : Floats, at : {0}] \cup {Calc!NotRead}
Tables(s) == [Offsets(s) -> [0..Len(s) -> Outcomes]]
Means(s, M) ==
  M \in Tables(s) /\ \A i \in Offsets(s), j \in 0..Len(s) : M[i][j] = Calc!MeaningOf(s, i, j, M)

(* What a part means is a value or nothing.                                *)
LEMMA OutcomeIs ==
  ASSUME NEW r \in Outcomes
  PROVE  /\ r.ok \in BOOLEAN
         /\ r.ok => r.value \in Floats /\ r = Calc!Read(r.value, 0)
         /\ ~r.ok => r = Calc!NotRead
<1>1. CASE r \in [ok : {TRUE}, value : Floats, at : {0}]
  BY <1>1 DEF Calc!Read
<1>2. CASE r = Calc!NotRead
  BY <1>2 DEF Calc!NotRead
<1>3. QED
  BY <1>1, <1>2 DEF Outcomes

(* What an operator makes of two parts is a value or nothing.              *)
LEMMA ValueType ==
  ASSUME NEW former \in Outcomes, NEW op \in Calc!Operators, NEW latter \in Outcomes
  PROVE  Calc!Value(former, op, latter) \in Outcomes
<1>1. CASE ~former.ok \/ ~latter.ok \/ (op = "/" /\ latter.value \in Zeros)
  BY <1>1 DEF Calc!Value, Outcomes
<1>2. CASE ~(~former.ok \/ ~latter.ok \/ (op = "/" /\ latter.value \in Zeros))
  <2>1. former.value \in Floats /\ latter.value \in Floats
    BY <1>2, OutcomeIs
  <2>2. Rounded(op, former.value, latter.value) \in Floats
    BY <2>1, RoundedType
  <2>3. Calc!Value(former, op, latter) = Calc!Read(Rounded(op, former.value, latter.value), 0)
    BY <1>2 DEF Calc!Value
  <2>4. QED
    BY <2>2, <2>3 DEF Outcomes, Calc!Read
<1>3. QED
  BY <1>1, <1>2

(* So what a part means is.                                                *)
LEMMA MeaningType ==
  ASSUME NEW s \in Texts, NEW i \in Offsets(s), NEW j \in 0..Len(s), NEW means \in Tables(s)
  PROVE  Calc!MeaningOf(s, i, j, means) \in Outcomes
<1>1. Len(s) \in Nat /\ i \in 1..(Len(s) + 1) /\ i \in Int /\ j \in Int
  BY TextFacts DEF Offsets
<1>2. \A a \in Offsets(s), z \in 0..Len(s) : means[a][z] \in Outcomes
  BY DEF Tables
<1>3. Calc!NotRead \in Outcomes
  BY DEF Outcomes
<1>4. CASE Calc!Kept(s, i, j) = {}
  BY <1>3, <1>4, MeaningCases
<1>5. CASE Calc!Kept(s, i, j) # {} /\ Lowest(s, i, j) # {}
  <2> DEFINE k == Where(s, i, j)
  <2>1. k \in (i + 1)..j /\ s[k] \in Calc!Operators
    BY <1>1, <1>5, WhereIs
  <2> HIDE DEF k
  <2>2. k + 1 \in Offsets(s) /\ k - 1 \in 0..Len(s)
    BY <1>1, <2>1 DEF Offsets
  <2>3. Calc!Value(means[i][k - 1], s[k], means[k + 1][j]) \in Outcomes
    BY <1>2, <2>1, <2>2, ValueType
  <2>4. QED
    BY <1>5, <2>3, MeaningCases DEF k
<1>6. CASE Calc!Kept(s, i, j) # {} /\ Lowest(s, i, j) = {}
  <2> DEFINE a == First(s, i, j)
             z == Last(s, i, j)
  <2>1. a \in i..j /\ z \in i..j
    BY <1>1, <1>6, KeptIs DEF First, Last
  <2> HIDE DEF a, z
  <2>2. a + 1 \in Offsets(s) /\ z - 1 \in 0..Len(s) /\ a \in 1..Len(s) /\ z \in 1..Len(s)
    BY <1>1, <2>1 DEF Offsets
  <2>3. means[a + 1][z - 1] \in Outcomes
    BY <1>2, <2>2
  <2>4. Calc!IsNumber(s, a, z) => Calc!Read(Calc!Number(s, a, z), 0) \in Outcomes
    BY <2>2 DEF Outcomes, Calc!Read, Calc!IsNumber
  <2>5. QED
    BY <1>3, <1>6, <2>3, <2>4, MeaningCases DEF a, z
<1>7. QED
  BY <1>4, <1>5, <1>6

(* The tables by which the meaning of a text is found.                     *)
Tabled(s, t) ==
  /\ t \in [0..Len(s) -> Tables(s)]
  /\ \A i \in Offsets(s), j \in 0..Len(s) : t[0][i][j] = Calc!NotRead
  /\ \A n \in 1..Len(s) : \A i \in Offsets(s), j \in 0..Len(s) :
       t[n][i][j] = Calc!MeaningOf(s, i, j, t[n - 1])
  /\ Calc!Meaning(s) = t[Len(s)][1][Len(s)]

(* The tables of the meanings, from the shortest parts to the longest.     *)
LEMMA TablesExist ==
  ASSUME NEW s \in Texts
  PROVE  \E t : Tabled(s, t)
<1> DEFINE N == Len(s)
           V == Tables(s)
           none == [i \in Offsets(s) |-> [j \in 0..Len(s) |-> Calc!NotRead]]
           Up(x) == [i \in Offsets(s) |-> [j \in 0..Len(s) |-> Calc!MeaningOf(s, i, j, x)]]
           Does(g) == g = [n \in 0..N |->
                             [i \in Offsets(s) |->
                                [j \in 0..Len(s) |->
                                   IF n = 0 THEN Calc!NotRead ELSE Calc!MeaningOf(s, i, j, g[n - 1])]]]
           rule == [n \in 1..N |-> [x \in V |-> Up(x)]]
           t == CHOOSE g : Does(g)
<1>1. N \in Nat
  BY TextFacts
<1>2. none \in V
  BY DEF Tables, Outcomes
<1>3. ASSUME NEW x \in V PROVE Up(x) \in V
  BY MeaningType DEF Tables
<1> HIDE DEF N, V
<1>4. rule \in Rules(N, V)
  <2> HIDE DEF Up
  <2> QED  BY <1>3 DEF Rules
<1>5. PICK g \in [0..N -> V] : g[0] = none /\ \A n \in 1..N : g[n] = rule[n][g[n - 1]]
  <2> HIDE DEF rule, none
  <2>1. Followed(N, V, none, rule)
    BY <1>1, <1>2, <1>4, Recursion
  <2>2. QED
    BY <2>1 DEF Followed
<1>6. ASSUME NEW n \in 1..N PROVE g[n] = Up(g[n - 1]) /\ g[n] \in V
  <2>1. n - 1 \in 0..N /\ n \in 0..N
    BY <1>1
  <2>2. g[n - 1] \in V /\ g[n] \in V
    BY <2>1
  <2>3. QED
    <3> HIDE DEF Up
    <3> QED  BY <1>5, <2>2
<1>7. Does(g)
  <2>1. ASSUME NEW n \in 0..N
        PROVE  g[n] = [i \in Offsets(s) |->
                         [j \in 0..Len(s) |->
                            IF n = 0 THEN Calc!NotRead ELSE Calc!MeaningOf(s, i, j, g[n - 1])]]
    <3>1. CASE n = 0
      BY <1>5, <3>1
    <3>2. CASE n # 0
      <4>1. n \in 1..N
        BY <1>1, <3>2
      <4>2. QED
        BY <1>6, <3>2, <4>1
    <3>3. QED
      BY <3>1, <3>2
  <2>2. QED
    <3> DEFINE Row(n) == [i \in Offsets(s) |->
                            [j \in 0..Len(s) |->
                               IF n = 0 THEN Calc!NotRead ELSE Calc!MeaningOf(s, i, j, g[n - 1])]]
    <3>1. \A n \in 0..N : g[n] = Row(n)
      BY <2>1
    <3>2. g = [n \in 0..N |-> Row(n)]
      <4> HIDE DEF Row
      <4> QED  BY <3>1
    <3>3. QED
      BY <3>2
<1>8. Does(t)
  <2> HIDE DEF Does
  <2> QED  BY <1>7
<1>9. ASSUME NEW n \in 0..N, NEW i \in Offsets(s), NEW j \in 0..Len(s)
      PROVE  t[n][i][j] = IF n = 0 THEN Calc!NotRead ELSE Calc!MeaningOf(s, i, j, t[n - 1])
  <2> HIDE DEF t
  <2>1. t[n] = [a \in Offsets(s) |->
                  [z \in 0..Len(s) |->
                     IF n = 0 THEN Calc!NotRead ELSE Calc!MeaningOf(s, a, z, t[n - 1])]]
    BY <1>8
  <2>2. t[n][i] = [z \in 0..Len(s) |->
                     IF n = 0 THEN Calc!NotRead ELSE Calc!MeaningOf(s, i, z, t[n - 1])]
    BY <2>1
  <2>3. QED
    BY <2>2
<1>10. DOMAIN t = 0..N /\ t = [n \in 0..N |-> t[n]]
  <2> HIDE DEF t
  <2> QED  BY <1>8
<1>11. \A n \in 1..N : t[n] = Up(t[n - 1])
  <2> HIDE DEF t
  <2>1. \A n \in 1..N : n \in 0..N /\ n # 0
    BY <1>1
  <2>2. QED
    BY <1>8, <2>1
<1>12. t[0] = none
  <2> HIDE DEF t
  <2>1. 0 \in 0..N
    BY <1>1
  <2>2. QED
    BY <1>8, <2>1
<1>13. Calc!Meaning(s) = t[N][1][N]
  BY DEF Calc!Meaning, N, Offsets
<1> HIDE DEF t
<1> DEFINE T == {n \in Nat : n <= N => t[n] \in V}
<1>14. Nat \subseteq T
  <2> HIDE DEF Up, none
  <2>1. 0 \in T
    BY <1>2, <1>12
  <2>2. ASSUME NEW n \in Nat, n \in T PROVE n + 1 \in T
    <3>1. SUFFICES ASSUME n + 1 <= N PROVE t[n + 1] \in V
      OBVIOUS
    <3>2. n + 1 \in 1..N /\ n + 1 - 1 = n /\ t[n] \in V
      BY <1>1, <2>2, <3>1
    <3>3. t[n + 1] = Up(t[n])
      BY <1>11, <3>2
    <3>4. QED
      BY <1>3, <3>2, <3>3
  <2>3. QED
    <3> HIDE DEF T
    <3> QED  BY <2>1, <2>2, NatAll
<1>15. t \in [0..N -> V]
  <2>1. \A n \in 0..N : t[n] \in V
    BY <1>1, <1>14
  <2>2. QED
    BY <1>10, <2>1
<1>16. 0 \in 0..N /\ \A n \in 1..N : n \in 0..N /\ n # 0
  BY <1>1
<1>17. \A i \in Offsets(s), j \in 0..Len(s) : t[0][i][j] = Calc!NotRead
  BY <1>9, <1>16
<1>18. \A n \in 1..N : \A i \in Offsets(s), j \in 0..Len(s) :
         t[n][i][j] = Calc!MeaningOf(s, i, j, t[n - 1])
  BY <1>9, <1>16
<1>19. Tabled(s, t)
  BY <1>13, <1>15, <1>17, <1>18 DEF Tabled, N, V
<1>20. QED
  BY <1>19

(* A part with fewer characters than a table allows for means the same in  *)
(* every later table.                                                      *)
LEMMA TablesSettle ==
  ASSUME NEW s \in Texts, NEW t, Tabled(s, t)
  PROVE  \A n \in 0..Len(s) : \A m \in n..Len(s) : \A i \in Offsets(s), j \in 0..Len(s) :
           j + 1 - i <= n => t[m][i][j] = t[n][i][j]
<1> DEFINE Settled(n) == \A m \in n..Len(s) : \A i \in Offsets(s), j \in 0..Len(s) :
                           j + 1 - i <= n => t[m][i][j] = t[n][i][j]
           T == {n \in Nat : n <= Len(s) => Settled(n)}
<1>1. Len(s) \in Nat
  BY TextFacts
<1>2. /\ \A i \in Offsets(s), j \in 0..Len(s) : t[0][i][j] = Calc!NotRead
      /\ \A n \in 1..Len(s) : \A i \in Offsets(s), j \in 0..Len(s) :
           t[n][i][j] = Calc!MeaningOf(s, i, j, t[n - 1])
  BY DEF Tabled
<1>3. Settled(0)
  <2>1. SUFFICES ASSUME NEW m \in 0..Len(s), NEW i \in Offsets(s), NEW j \in 0..Len(s), j + 1 - i <= 0
                 PROVE  t[m][i][j] = Calc!NotRead
    BY <1>2
  <2>2. i \in Int /\ j \in Int /\ m \in Int
    BY <1>1 DEF Offsets
  <2>3. Calc!Kept(s, i, j) = {}
    <3>1. \A k \in i..j : FALSE
      BY <2>1, <2>2
    <3>2. QED
      BY <3>1, SpaceIs
  <2>4. m # 0 => m \in 1..Len(s)
    BY <1>1
  <2>5. QED
    BY <1>2, <2>3, <2>4, MeaningCases
<1>4. ASSUME NEW n \in Nat, n + 1 <= Len(s), Settled(n) PROVE Settled(n + 1)
  <2>1. SUFFICES ASSUME NEW m \in (n + 1)..Len(s), NEW i \in Offsets(s), NEW j \in 0..Len(s),
                        j + 1 - i <= n + 1
                 PROVE  t[m][i][j] = t[n + 1][i][j]
    OBVIOUS
  <2>2. /\ m \in 1..Len(s) /\ n + 1 \in 1..Len(s) /\ n + 1 - 1 = n /\ m - 1 \in n..Len(s)
        /\ n \in n..Len(s)
    BY <1>1, <1>4, <2>1
  <2>3. /\ t[m][i][j] = Calc!MeaningOf(s, i, j, t[m - 1])
        /\ t[n + 1][i][j] = Calc!MeaningOf(s, i, j, t[n])
    BY <1>2, <2>2
  <2>4. i \in 1..(Len(s) + 1) /\ j \in 0..Len(s) /\ i \in Int /\ j \in Int
    BY <1>1 DEF Offsets
  <2>5. ASSUME NEW a \in Offsets(s), NEW z \in 0..Len(s), z + 1 - a <= n
        PROVE  t[m - 1][a][z] = t[n][a][z]
    BY <1>4, <2>2, <2>5
  <2>6. ASSUME NEW k \in (i + 1)..j
        PROVE  t[m - 1][i][k - 1] = t[n][i][k - 1] /\ t[m - 1][k + 1][j] = t[n][k + 1][j]
    <3>1. k - 1 \in 0..Len(s) /\ k + 1 \in 1..(Len(s) + 1) /\ k - 1 + 1 - i <= n /\ j + 1 - (k + 1) <= n
      BY <1>1, <2>1, <2>4
    <3>2. QED
      BY <2>5, <3>1 DEF Offsets
  <2>7. ASSUME NEW a \in i..j, NEW z \in i..j, a < z
        PROVE  t[m - 1][a + 1][z - 1] = t[n][a + 1][z - 1]
    <3>1. z - 1 \in 0..Len(s) /\ a + 1 \in 1..(Len(s) + 1) /\ z - 1 + 1 - (a + 1) <= n
      BY <1>1, <2>1, <2>4
    <3>2. QED
      BY <2>5, <3>1 DEF Offsets
  <2>8. j <= j /\ Blank(s, j + 1, j)
    BY <2>4 DEF Blank
  <2>9. Agree(i, j, j, t[m - 1], t[n])
    BY <2>6, <2>7 DEF Agree
  <2>10. Calc!MeaningOf(s, i, j, t[m - 1]) = Calc!MeaningOf(s, i, j, t[n])
    BY <2>4, <2>8, <2>9, SameMeaning
  <2>11. QED
    BY <2>3, <2>10
<1>5. Nat \subseteq T
  <2> HIDE DEF Settled
  <2>1. 0 \in T
    BY <1>3
  <2>2. ASSUME NEW n \in Nat, n \in T PROVE n + 1 \in T
    BY <1>1, <1>4, <2>2
  <2>3. QED
    <3> HIDE DEF T
    <3> QED  BY <2>1, <2>2, NatAll
<1>6. \A n \in 0..Len(s) : Settled(n)
  <2> HIDE DEF Settled
  <2> QED  BY <1>1, <1>5
<1>7. QED
  BY <1>6

(* There is one table in which every part means what the rules say.        *)
LEMMA MeaningIs ==
  ASSUME NEW s \in Texts
  PROVE  \E M : Means(s, M) /\ Calc!Meaning(s) = M[1][Len(s)]
<1>1. PICK t : Tabled(s, t)
  BY TablesExist
<1> DEFINE L == Len(s)
           M == t[L]
<1>2. L \in Nat /\ L \in 0..L
  BY TextFacts
<1>3. M \in Tables(s) /\ Calc!Meaning(s) = M[1][L]
  BY <1>1, <1>2 DEF Tabled
<1>4. ASSUME NEW i \in Offsets(s), NEW j \in 0..L
      PROVE  M[i][j] = Calc!MeaningOf(s, i, j, M)
  <2>1. i \in 1..(L + 1) /\ i \in Int /\ j \in Int
    BY <1>2 DEF Offsets
  <2>2. CASE L = 0
    <3>1. M[i][j] = Calc!NotRead
      BY <1>1, <2>2 DEF Tabled
    <3>2. Calc!Kept(s, i, j) = {}
      <4>1. \A k \in i..j : FALSE
        BY <2>1, <2>2
      <4>2. QED
        BY <4>1, SpaceIs
    <3>3. QED
      BY <3>1, <3>2, MeaningCases
  <2>3. CASE L # 0
    <3> HIDE DEF L, M
    <3>1. L \in 1..L /\ L - 1 \in 0..L /\ L \in (L - 1)..L
      BY <1>2, <2>3
    <3>2. M[i][j] = Calc!MeaningOf(s, i, j, t[L - 1])
      BY <1>1, <3>1 DEF Tabled, L, M
    <3>3. ASSUME NEW a \in Offsets(s), NEW z \in 0..L, z + 1 - a <= L - 1
          PROVE  t[L - 1][a][z] = M[a][z]
      BY <1>1, <3>1, <3>3, TablesSettle DEF L, M
    <3>4. ASSUME NEW k \in (i + 1)..j
          PROVE  t[L - 1][i][k - 1] = M[i][k - 1] /\ t[L - 1][k + 1][j] = M[k + 1][j]
      <4>1. /\ k - 1 \in 0..L /\ k + 1 \in 1..(L + 1) /\ k - 1 + 1 - i <= L - 1
            /\ j + 1 - (k + 1) <= L - 1
        BY <1>2, <2>1
      <4>2. QED
        BY <3>3, <4>1 DEF Offsets, L
    <3>5. ASSUME NEW a \in i..j, NEW z \in i..j, a < z
          PROVE  t[L - 1][a + 1][z - 1] = M[a + 1][z - 1]
      <4>1. z - 1 \in 0..L /\ a + 1 \in 1..(L + 1) /\ z - 1 + 1 - (a + 1) <= L - 1
        BY <1>2, <2>1, <3>5
      <4>2. QED
        BY <3>3, <4>1 DEF Offsets, L
    <3>6. j <= j /\ Blank(s, j + 1, j)
      BY <2>1 DEF Blank
    <3>7. Agree(i, j, j, t[L - 1], M)
      BY <3>4, <3>5 DEF Agree
    <3>8. Calc!MeaningOf(s, i, j, t[L - 1]) = Calc!MeaningOf(s, i, j, M)
      BY <2>1, <3>6, <3>7, SameMeaning
    <3>9. QED
      BY <3>2, <3>8
  <2>4. QED
    BY <2>2, <2>3
<1>5. Means(s, M)
  BY <1>3, <1>4 DEF Means
<1>6. QED
  BY <1>3, <1>5

(* Spaces that follow a part do not change what it means.                  *)
LEMMA TrailingSpaces ==
  ASSUME NEW s \in Texts, NEW M, Means(s, M)
  PROVE  \A i \in Offsets(s) : \A j \in 0..Len(s), l \in 0..Len(s) :
           j <= l /\ Blank(s, j + 1, l) => M[i][j] = M[i][l]
<1> DEFINE L == Len(s)
           T == {n \in Nat : \A i \in Offsets(s) : \A j \in 0..L, l \in 0..L :
                   L + 1 - i <= n /\ j <= l /\ Blank(s, j + 1, l) => M[i][j] = M[i][l]}
<1>1. L \in Nat
  BY TextFacts
<1>2. \A i \in Offsets(s), j \in 0..L : M[i][j] = Calc!MeaningOf(s, i, j, M)
  BY DEF Means
<1> HIDE DEF L
<1>3. ASSUME NEW n \in Nat, \A m \in Nat : m < n => m \in T PROVE n \in T
  <2>1. SUFFICES ASSUME NEW i \in Offsets(s), NEW j \in 0..L, NEW l \in 0..L,
                        L + 1 - i <= n, j <= l, Blank(s, j + 1, l)
                 PROVE  M[i][j] = M[i][l]
    OBVIOUS
  <2>2. i \in 1..(L + 1) /\ i \in Int /\ j \in Int /\ l \in Int
    BY <1>1 DEF Offsets, L
  <2>3. ASSUME NEW k \in (i + 1)..j PROVE M[k + 1][j] = M[k + 1][l]
    <3>1. k + 1 \in 1..(L + 1) /\ L + 1 - (k + 1) \in Nat /\ L + 1 - (k + 1) < n
      BY <1>1, <2>1, <2>2
    <3>2. L + 1 - (k + 1) \in T
      BY <1>3, <3>1
    <3>3. k + 1 \in Offsets(s) /\ L + 1 - (k + 1) <= L + 1 - (k + 1)
      BY <3>1 DEF Offsets, L
    <3>4. QED
      BY <2>1, <3>2, <3>3
  <2>4. Calc!MeaningOf(s, i, j, M) = Calc!MeaningOf(s, i, l, M)
    <3>1. Agree(i, j, l, M, M)
      BY <2>3 DEF Agree
    <3>2. QED
      BY <2>1, <2>2, <3>1, SameMeaning
  <2>5. QED
    BY <1>2, <2>4
<1>4. Nat \subseteq T
  <2> HIDE DEF T
  <2> QED  BY <1>3, NatStrong
<1>5. ASSUME NEW i \in Offsets(s) PROVE L + 1 - i \in T
  <2>1. i \in 1..(L + 1)
    BY <1>5 DEF Offsets, L
  <2>2. L + 1 - i \in Nat
    BY <1>1, <2>1
  <2>3. QED
    <3> HIDE DEF T
    <3> QED  BY <1>4, <2>2
<1>6. ASSUME NEW i \in Offsets(s), NEW j \in 0..L, NEW l \in 0..L, j <= l, Blank(s, j + 1, l)
      PROVE  M[i][j] = M[i][l]
  <2>1. L + 1 - i <= L + 1 - i
    <3>1. i \in Int /\ L \in Int
      BY <1>1 DEF Offsets
    <3>2. QED
      BY <3>1
  <2>2. QED
    BY <1>5, <1>6, <2>1
<1>7. QED
  BY <1>6 DEF L

-----------------------------------------------------------------------------
(* parse_factor, by how deep it may go.                                    *)
Within(s, w) ==
  /\ w \in [0..Len(s) -> Readings(s)]
  /\ \A d \in 0..Len(s), from \in Offsets(s) :
       w[d][from] = IF Calc!Peek(s, Calc!SkipSpaces(s, from)) # "("
                    THEN Calc!Literal(s, Calc!SkipSpaces(s, from))
                    ELSE IF d = 0 THEN Calc!NotRead
                    ELSE Calc!Closed(s, Calc!Expression(s, Calc!SkipSpaces(s, from) + 1, w[d - 1]))
  /\ Calc!Factors(s) = w[Len(s)]

FactorAt(s, from, inner) ==
  IF Calc!Peek(s, Calc!SkipSpaces(s, from)) # "(" THEN Calc!Literal(s, Calc!SkipSpaces(s, from))
  ELSE Calc!Closed(s, Calc!Expression(s, Calc!SkipSpaces(s, from) + 1, inner))

(* parse_factor returns a result, if what it reads within parentheses is   *)
(* one.                                                                    *)
LEMMA FactorType ==
  ASSUME NEW s \in Texts, NEW from \in Offsets(s), NEW inner \in Readings(s)
  PROVE  /\ FactorAt(s, from, inner) \in Results(s)
         /\ Calc!Literal(s, Calc!SkipSpaces(s, from)) \in Results(s)
<1>1. Calc!SkipSpaces(s, from) \in Offsets(s)
  BY SkipIs
<1>2. Calc!Literal(s, Calc!SkipSpaces(s, from)) \in Results(s)
  BY <1>1, LiteralIs
<1>3. ASSUME Calc!Peek(s, Calc!SkipSpaces(s, from)) = "("
      PROVE  Calc!Closed(s, Calc!Expression(s, Calc!SkipSpaces(s, from) + 1, inner)) \in Results(s)
  <2>1. Calc!SkipSpaces(s, from) + 1 \in Offsets(s)
    BY <1>3, OperatorAt
  <2>2. QED
    BY <2>1, ExpressionType, ClosedType
<1>4. QED
  BY <1>2, <1>3 DEF FactorAt

(* parse_factor for every depth.                                           *)
LEMMA FactorsExist ==
  ASSUME NEW s \in Texts
  PROVE  \E w : Within(s, w)
<1> DEFINE N == Len(s)
           V == Readings(s)
           Level0(from) == IF Calc!Peek(s, Calc!SkipSpaces(s, from)) # "("
                           THEN Calc!Literal(s, Calc!SkipSpaces(s, from)) ELSE Calc!NotRead
           none == [from \in Offsets(s) |-> Level0(from)]
           Up(x) == [from \in Offsets(s) |-> FactorAt(s, from, x)]
           Does(g) == g = [d \in 0..N |->
                             [from \in Offsets(s) |->
                                IF d = 0 THEN Level0(from) ELSE FactorAt(s, from, g[d - 1])]]
           rule == [n \in 1..N |-> [x \in V |-> Up(x)]]
           w == CHOOSE g : Does(g)
<1>1. N \in Nat
  BY TextFacts
<1>3. ASSUME NEW x \in V PROVE Up(x) \in V
  BY FactorType DEF Readings
<1>2. none \in V
  <2>1. [from \in Offsets(s) |-> Calc!NotRead] \in Readings(s)
    BY DEF Readings, Results
  <2>2. \A from \in Offsets(s) : Calc!Literal(s, Calc!SkipSpaces(s, from)) \in Results(s)
    BY <2>1, FactorType
  <2>3. QED
    BY <2>2 DEF Readings, Results
<1> HIDE DEF N, V
<1>4. rule \in Rules(N, V)
  <2> HIDE DEF Up
  <2> QED  BY <1>3 DEF Rules
<1>5. PICK g \in [0..N -> V] : g[0] = none /\ \A n \in 1..N : g[n] = rule[n][g[n - 1]]
  <2> HIDE DEF rule, none
  <2>1. Followed(N, V, none, rule)
    BY <1>1, <1>2, <1>4, Recursion
  <2>2. QED
    BY <2>1 DEF Followed
<1>6. ASSUME NEW n \in 1..N PROVE g[n] = Up(g[n - 1])
  <2>1. n - 1 \in 0..N
    BY <1>1
  <2>2. g[n - 1] \in V
    BY <2>1
  <2>3. QED
    <3> HIDE DEF Up
    <3> QED  BY <1>5, <2>2
<1> HIDE DEF Level0
<1>7. Does(g)
  <2> DEFINE Row(n) == [from \in Offsets(s) |->
                          IF n = 0 THEN Level0(from) ELSE FactorAt(s, from, g[n - 1])]
  <2>1. ASSUME NEW n \in 0..N PROVE g[n] = Row(n)
    <3>1. CASE n = 0
      BY <1>5, <3>1
    <3>2. CASE n # 0
      <4>1. n \in 1..N
        BY <1>1, <3>2
      <4>2. QED
        BY <1>6, <3>2, <4>1
    <3>3. QED
      BY <3>1, <3>2
  <2>2. g = [n \in 0..N |-> Row(n)]
    <3> HIDE DEF Row
    <3> QED  BY <2>1
  <2>3. QED
    BY <2>2
<1>8. Does(w)
  <2> HIDE DEF Does
  <2> QED  BY <1>7
<1>9. ASSUME NEW n \in 0..N
      PROVE  w[n] = [from \in Offsets(s) |-> IF n = 0 THEN Level0(from) ELSE FactorAt(s, from, w[n - 1])]
  <2> HIDE DEF w
  <2> QED  BY <1>8
<1>10. w = [n \in 0..N |-> w[n]]
  <2> HIDE DEF w
  <2> QED  BY <1>8
<1>11. Calc!Factors(s) = w[N]
  BY DEF Calc!Factors, N, Offsets, Level0, FactorAt
<1> HIDE DEF w
<1>12. 0 \in 0..N /\ \A n \in 1..N : n \in 0..N /\ n # 0
  BY <1>1
<1>13. w[0] = none /\ \A n \in 1..N : w[n] = Up(w[n - 1])
  BY <1>9, <1>12
<1> DEFINE T == {n \in Nat : n <= N => w[n] \in V}
<1>14. Nat \subseteq T
  <2> HIDE DEF Up, none
  <2>1. 0 \in T
    BY <1>2, <1>13
  <2>2. ASSUME NEW n \in Nat, n \in T PROVE n + 1 \in T
    <3>1. SUFFICES ASSUME n + 1 <= N PROVE w[n + 1] \in V
      OBVIOUS
    <3>2. n + 1 \in 1..N /\ n + 1 - 1 = n /\ w[n] \in V
      BY <1>1, <2>2, <3>1
    <3>3. w[n + 1] = Up(w[n])
      BY <1>13, <3>2
    <3>4. QED
      BY <1>3, <3>2, <3>3
  <2>3. QED
    <3> HIDE DEF T
    <3> QED  BY <2>1, <2>2, NatAll
<1>15. w \in [0..N -> V]
  <2>1. \A n \in 0..N : w[n] \in V
    BY <1>1, <1>14
  <2>2. QED
    BY <1>10, <2>1
<1>16. ASSUME NEW d \in 0..N, NEW from \in Offsets(s)
       PROVE  w[d][from] = IF d = 0 THEN Level0(from) ELSE FactorAt(s, from, w[d - 1])
  BY <1>9
<1>17. Within(s, w)
  BY <1>11, <1>15, <1>16 DEF Within, N, V, Level0, FactorAt
<1>18. QED
  BY <1>17

-----------------------------------------------------------------------------
(* What the parser reads is a part of the text with parentheses in pairs,  *)
(* and the part means what the parser says.                                *)
Balanced(s, i, j) == Calc!Depth(s, i, j) = 0 /\ \A k \in i..j : Calc!Depth(s, i, k) >= 0
Sound(s, M, i, e, v) ==
  /\ e \in (i + 1)..(Len(s) + 1) /\ s[e - 1] \in OperandEnd
  /\ Balanced(s, i, e - 1) /\ M[i][e - 1] = Calc!Read(v, 0)

\* A part that no operator of some kind splits.
PartSound(s, M, i, r, kind) ==
  r.ok => Sound(s, M, i, r.at, r.value) /\ Calc!Splits(s, i, r.at - 1, kind) = {}

(* What no operator splits, no operator of some kind does.                 *)
LEMMA SplitsOfKind ==
  ASSUME NEW s \in Texts, NEW i \in Int, NEW j \in Int, NEW kind, NEW more, kind \subseteq more,
         Calc!Splits(s, i, j, more) = {}
  PROVE  Calc!Splits(s, i, j, kind) = {}
<1>1. \A k : k \in Calc!Splits(s, i, j, kind) => k \in Calc!Splits(s, i, j, more)
  BY SplitIs
<1>2. QED
  BY <1>1

(* Two parts with an operator in between.                                  *)
Between(s, i, e, k, l) ==
  /\ i \in Offsets(s) /\ e \in (i + 1)..k /\ k \in 1..Len(s) /\ l \in (k + 2)..(Len(s) + 1)
  /\ s[k] \in Calc!Operators /\ Blank(s, e, k - 1)
  /\ s[e - 1] \in OperandEnd /\ Balanced(s, i, e - 1)

(* The parts being in pairs, the operator is at depth zero.                *)
LEMMA DepthAcross ==
  ASSUME NEW s \in Texts, NEW i, NEW e, NEW k, NEW l, Between(s, i, e, k, l)
  PROVE  /\ i \in 1..(Len(s) + 1) /\ i \in Int /\ e \in Int /\ k \in Int /\ l \in Int /\ Len(s) \in Nat
         /\ Calc!Depth(s, i, k) = 0 /\ Ends(s, i, k)
         /\ \A m \in e..k : Calc!Depth(s, i, m) = 0
<1>1. i \in 1..(Len(s) + 1) /\ Len(s) \in Nat
  BY TextFacts DEF Between, Offsets
<1>2. i \in Int /\ e \in (i + 1)..k /\ k \in 1..Len(s) /\ l \in (k + 2)..(Len(s) + 1)
  BY <1>1 DEF Between
<1>3. e \in Int /\ k \in Int /\ l \in Int /\ i + 1 <= e /\ e <= k
  BY <1>1, <1>2
<1>4. ASSUME NEW m \in e..k PROVE Calc!Depth(s, i, m) = 0
  <2>1. m \in Int /\ e - 1 \in Int /\ i <= e - 1 + 1 /\ e - 1 <= m /\ e - 1 + 1 = e
    BY <1>2, <1>3
  <2>2. Calc!Depth(s, i, m) = Calc!Depth(s, i, e - 1) + Calc!Depth(s, e, m)
    BY <1>2, <2>1, DepthParts
  <2>3. ASSUME NEW n \in e..m PROVE s[n] \notin {"(", ")"}
    <3>1. n = k \/ n \in e..(k - 1)
      BY <1>3, <2>1
    <3>2. s[k] \notin {"(", ")"} /\ Space \notin {"(", ")"}
      BY SpaceIs DEF Between, Calc!Operators
    <3>3. QED
      BY <3>1, <3>2 DEF Between, Blank
  <2>4. Calc!Depth(s, e, m) = 0
    BY <1>3, <2>1, <2>3, DepthNone
  <2>5. Calc!Depth(s, i, e - 1) = 0
    BY DEF Between, Balanced
  <2>6. QED
    BY <2>2, <2>4, <2>5
<1>5. Ends(s, i, k)
  <2>1. e - 1 \in i..(k - 1) /\ e - 1 + 1 = e
    BY <1>2, <1>3
  <2>2. QED
    BY <2>1 DEF Ends, Between
<1>6. k \in e..k
  BY <1>3
<1>7. QED
  BY <1>1, <1>2, <1>3, <1>4, <1>5, <1>6

(* The whole is split where its parts are and at the operator.             *)
LEMMA SplitsAcross ==
  ASSUME NEW s \in Texts, NEW i, NEW e, NEW k, NEW l, Between(s, i, e, k, l), NEW kind, Space \notin kind
  PROVE  /\ \A m : m \in Calc!Splits(s, i, l - 1, kind) =>
              \/ m \in Calc!Splits(s, i, e - 1, kind)
              \/ m = k /\ s[k] \in kind
              \/ m \in Calc!Splits(s, k + 1, l - 1, kind)
         /\ s[k] \in kind => k \in Calc!Splits(s, i, l - 1, kind)
<1>1. /\ i \in Int /\ e \in Int /\ k \in Int /\ l \in Int /\ Len(s) \in Nat
      /\ Calc!Depth(s, i, k) = 0 /\ Ends(s, i, k)
  BY DepthAcross
<1>2. e \in (i + 1)..k /\ l \in (k + 2)..(Len(s) + 1) /\ k \in i..(l - 1) /\ l - 1 \in Int /\ e - 1 \in Int
      /\ k + 1 \in Int
  <2>1. e \in (i + 1)..k /\ l \in (k + 2)..(Len(s) + 1)
    BY DEF Between
  <2>2. QED
    BY <1>1, <2>1
<1>3. ASSUME NEW m, m \in Calc!Splits(s, i, l - 1, kind)
      PROVE  \/ m \in Calc!Splits(s, i, e - 1, kind)
             \/ m = k /\ s[k] \in kind
             \/ m \in Calc!Splits(s, k + 1, l - 1, kind)
  <2>1. m \in i..(l - 1) /\ s[m] \in kind /\ Calc!Depth(s, i, m) = 0 /\ Ends(s, i, m)
    BY <1>1, <1>2, <1>3, SplitIs
  <2>2. ~(m \in e..(k - 1))
    BY <2>1 DEF Between, Blank
  <2>3. m \in i..(e - 1) \/ m = k \/ m \in (k + 1)..(l - 1)
    BY <1>1, <1>2, <2>1, <2>2
  <2>4. CASE m \in i..(e - 1)
    BY <1>1, <1>2, <2>1, <2>4, SplitIs
  <2>5. CASE m \in (k + 1)..(l - 1)
    <3>1. s[k] \in Calc!Operators
      BY DEF Between
    <3>2. QED
      BY <1>1, <1>2, <1>3, <2>5, <3>1, SplitsBeyond
  <2>6. QED
    BY <2>1, <2>3, <2>4, <2>5
<1>4. s[k] \in kind => k \in Calc!Splits(s, i, l - 1, kind)
  BY <1>1, <1>2, SplitIs
<1>5. QED
  BY <1>3, <1>4

(* The whole has its parentheses in pairs when its parts have.             *)
LEMMA BalancedAcross ==
  ASSUME NEW s \in Texts, NEW i, NEW e, NEW k, NEW l, Between(s, i, e, k, l), Balanced(s, k + 1, l - 1)
  PROVE  Balanced(s, i, l - 1)
<1>1. /\ i \in Int /\ e \in Int /\ k \in Int /\ l \in Int /\ Len(s) \in Nat
      /\ Calc!Depth(s, i, k) = 0 /\ \A m \in e..k : Calc!Depth(s, i, m) = 0
  BY DepthAcross
<1>2. e \in (i + 1)..k /\ l \in (k + 2)..(Len(s) + 1)
  BY DEF Between
<1>3. ASSUME NEW m \in (k + 1)..(l - 1) PROVE Calc!Depth(s, i, m) = Calc!Depth(s, k + 1, m)
  <2>1. m \in Int /\ i <= k + 1 /\ k <= m /\ k + 1 \in Int
    BY <1>1, <1>2
  <2>2. Calc!Depth(s, i, m) = Calc!Depth(s, i, k) + Calc!Depth(s, k + 1, m)
    BY <1>1, <2>1, DepthParts
  <2>3. Calc!Depth(s, k + 1, m) \in Int
    BY <2>1, DepthType
  <2>4. QED
    BY <1>1, <2>2, <2>3
<1>4. ASSUME NEW m \in i..(l - 1) PROVE Calc!Depth(s, i, m) >= 0
  <2>1. m \in i..(e - 1) \/ m \in e..k \/ m \in (k + 1)..(l - 1)
    BY <1>1, <1>2
  <2>2. CASE m \in i..(e - 1)
    BY <2>2 DEF Between, Balanced
  <2>3. CASE m \in e..k
    BY <1>1, <2>3
  <2>4. CASE m \in (k + 1)..(l - 1)
    BY <1>3, <2>4 DEF Balanced
  <2>5. QED
    BY <2>1, <2>2, <2>3, <2>4
<1>5. l - 1 \in (k + 1)..(l - 1)
  BY <1>1, <1>2
<1>6. QED
  BY <1>3, <1>4, <1>5 DEF Balanced

(* Once through a loop: the operator that was read is the last of the      *)
(* lowest rank so far.                                                     *)
Ranked(s, i, e, k, l) ==
  \/ /\ s[k] \in High /\ Calc!Splits(s, i, e - 1, Low) = {}
     /\ Calc!Splits(s, k + 1, l - 1, Calc!Operators) = {}
  \/ s[k] \in Low /\ Calc!Splits(s, k + 1, l - 1, Low) = {}

(* So the rules split the whole where the parser did.                      *)
LEMMA WhereAcross ==
  ASSUME NEW s \in Texts, NEW i, NEW e, NEW k, NEW l, Between(s, i, e, k, l), Ranked(s, i, e, k, l)
  PROVE  /\ Lowest(s, i, l - 1) # {} /\ Where(s, i, l - 1) = k
         /\ s[k] \in High => Calc!Splits(s, i, l - 1, Low) = {}
<1>1. /\ i \in Int /\ e \in Int /\ k \in Int /\ l \in Int /\ l - 1 \in Int /\ k + 1 \in Int
      /\ e \in (i + 1)..k
  <2>1. i \in Int /\ e \in Int /\ k \in Int /\ l \in Int
    BY DepthAcross
  <2>2. QED
    BY <2>1 DEF Between
<1>2. Space \notin Low /\ Space \notin High /\ Low \cap High = {}
      /\ Low \subseteq Calc!Operators /\ High \subseteq Calc!Operators
  BY DigitIs DEF Low, High, Calc!Operators
<1>3. ASSUME s[k] \in High PROVE Calc!Splits(s, i, l - 1, Low) = {}
  <2>1. Calc!Splits(s, k + 1, l - 1, Low) = {}
    BY <1>1, <1>2, <1>3, SplitsOfKind DEF Ranked
  <2>2. Calc!Splits(s, i, e - 1, Low) = {} /\ s[k] \notin Low
    BY <1>2, <1>3 DEF Ranked
  <2>3. QED
    BY <1>2, <2>1, <2>2, SplitsAcross
<1>4. k \in Lowest(s, i, l - 1)
  <2>1. CASE s[k] \in High
    BY <1>2, <1>3, <2>1, SplitsAcross DEF Lowest
  <2>2. CASE s[k] \in Low
    BY <1>2, <2>2, SplitsAcross DEF Lowest
  <2>3. QED
    BY <2>1, <2>2 DEF Ranked
<1>5. ASSUME NEW m \in Lowest(s, i, l - 1) PROVE m \in Int /\ m <= k
  <2> DEFINE kind == IF s[k] \in High THEN High ELSE Low
  <2>1. m \in Calc!Splits(s, i, l - 1, kind) /\ Space \notin kind
    <3>1. CASE s[k] \in High
      BY <1>2, <1>3, <1>5, <3>1 DEF Lowest
    <3>2. CASE s[k] \notin High
      <4>1. s[k] \in Low
        BY <3>2 DEF Ranked
      <4>2. k \in Calc!Splits(s, i, l - 1, Low)
        BY <1>2, <4>1, SplitsAcross
      <4>3. QED
        BY <1>2, <1>5, <3>2, <4>2 DEF Lowest
    <3>3. QED
      BY <3>1, <3>2
  <2>2. Calc!Splits(s, k + 1, l - 1, kind) = {}
    <3>1. CASE s[k] \in High
      <4>1. Calc!Splits(s, k + 1, l - 1, Calc!Operators) = {}
        BY <1>2, <3>1 DEF Ranked
      <4>2. Calc!Splits(s, k + 1, l - 1, High) = {}
        BY <1>1, <1>2, <4>1, SplitsOfKind
      <4>3. QED
        BY <3>1, <4>2
    <3>2. CASE s[k] \notin High
      BY <3>2 DEF Ranked
    <3>3. QED
      BY <3>1, <3>2
  <2> HIDE DEF kind
  <2>3. m \in Calc!Splits(s, i, e - 1, kind) \/ m = k
    BY <2>1, <2>2, SplitsAcross
  <2>4. CASE m \in Calc!Splits(s, i, e - 1, kind)
    <3>1. e - 1 \in Int
      BY <1>1
    <3>2. m \in i..(e - 1)
      BY <1>1, <2>4, <3>1, SplitIs
    <3>3. QED
      BY <1>1, <3>2
  <2>5. QED
    BY <1>1, <2>3, <2>4
<1>6. Lowest(s, i, l - 1) # {}
  BY <1>4
<1>7. Where(s, i, l - 1) \in Lowest(s, i, l - 1) /\ k <= Where(s, i, l - 1)
  BY <1>1, <1>4, <1>6, WhereIs
<1>8. Where(s, i, l - 1) = k
  BY <1>1, <1>5, <1>7
<1>9. QED
  BY <1>3, <1>6, <1>8

(* The whole means what the operator makes of its parts.                   *)
LEMMA StepMeans ==
  ASSUME NEW s \in Texts, NEW M, Means(s, M), NEW i, NEW e, NEW k, NEW l,
         Between(s, i, e, k, l), Ranked(s, i, e, k, l),
         NEW v, NEW w, M[i][e - 1] = Calc!Read(v, 0), M[k + 1][l - 1] = Calc!Read(w, 0),
         ~(s[k] = "/" /\ w \in Zeros)
  PROVE  M[i][l - 1] = Calc!Read(Rounded(s[k], v, w), 0)
<1>1. /\ i \in Offsets(s) /\ i \in Int /\ e \in Int /\ k \in Int /\ l \in Int /\ Len(s) \in Nat
      /\ i \in 1..(Len(s) + 1)
  BY DepthAcross DEF Between
<1>2. e \in (i + 1)..k /\ k \in 1..Len(s) /\ l \in (k + 2)..(Len(s) + 1)
  BY DEF Between
<1>3. e - 1 \in 0..Len(s) /\ k - 1 \in 0..Len(s) /\ l - 1 \in 0..Len(s) /\ e - 1 <= k - 1 /\ e - 1 + 1 = e
      /\ k \in i..(l - 1) /\ l - 1 \in Int
  BY <1>1, <1>2
<1>4. Lowest(s, i, l - 1) # {} /\ Where(s, i, l - 1) = k
  BY WhereAcross
<1>5. Calc!Kept(s, i, l - 1) # {}
  <2>1. s[k] # Space
    BY DigitIs DEF Between
  <2>2. QED
    BY <1>1, <1>3, <2>1, KeptFrom
<1>6. M[i][l - 1] = Calc!Value(M[i][k - 1], s[k], M[k + 1][l - 1])
  <2>1. M[i][l - 1] = Calc!MeaningOf(s, i, l - 1, M)
    BY <1>1, <1>3 DEF Means
  <2>2. QED
    BY <1>4, <1>5, <2>1, MeaningCases
<1>7. M[i][k - 1] = M[i][e - 1]
  <2>1. Blank(s, e - 1 + 1, k - 1)
    BY <1>3 DEF Between
  <2>2. QED
    BY <1>1, <1>3, <2>1, TrailingSpaces
<1>8. M[i][l - 1] = Calc!Value(Calc!Read(v, 0), s[k], Calc!Read(w, 0))
  BY <1>6, <1>7
<1>9. QED
  BY <1>8 DEF Calc!Value, Calc!Read

(* The loop of a rank: what it starts from is split by nothing lower, what *)
(* it goes on with by nothing as low.                                      *)
OfRank(ops, kind, partKind) ==
  \/ ops = High /\ kind = Low /\ partKind = Calc!Operators
  \/ ops = Low /\ kind = {} /\ partKind = Low

(* Once through the loop, what is read means what the parser says.         *)
LEMMA StepSound ==
  ASSUME NEW s \in Texts, NEW M, Means(s, M), NEW ops, NEW kind, NEW partKind,
         OfRank(ops, kind, partKind), NEW part \in Readings(s),
         \A x \in Offsets(s) : PartSound(s, M, x, part[x], partKind),
         NEW i \in Offsets(s), NEW so \in Results(s), PartSound(s, M, i, so, kind)
  PROVE  PartSound(s, M, i, Calc!More(s, so, ops, part), kind)
<1> DEFINE e == so.at
           k == Calc!SkipSpaces(s, e)
           next == part[k + 1]
           l == next.at
           then == Calc!More(s, so, ops, part)
<1>1. SUFFICES ASSUME then.ok, so.ok, Calc!Peek(s, k) \in ops
               PROVE  Sound(s, M, i, then.at, then.value) /\ Calc!Splits(s, i, then.at - 1, kind) = {}
  BY DEF PartSound, Calc!More
<1>2. ops \subseteq Calc!Operators /\ "end" \notin Calc!Operators
  BY DEF OfRank, Low, High, Calc!Operators
<1>3. e \in Offsets(s) /\ so.value \in Floats
  BY <1>1, ResultIs
<1>4. /\ k \in e..Len(s) /\ k \in 1..Len(s) /\ k + 1 \in Offsets(s)
      /\ Calc!Peek(s, k) = s[k] /\ Blank(s, e, k - 1)
  <2>1. Calc!Peek(s, k) # "end"
    BY <1>1, <1>2
  <2>2. QED
    BY <1>3, <2>1, OperatorAt, SkipIs
<1>5. then = Calc!Combined(so, s[k], next)
  BY <1>1, <1>4 DEF Calc!More
<1>6. next.ok /\ ~(s[k] = "/" /\ next.value \in Zeros)
      /\ then = Calc!Read(Rounded(s[k], so.value, next.value), l)
  BY <1>1, <1>5 DEF Calc!Combined, Calc!NotRead
<1>7. then.at = l /\ then.value = Rounded(s[k], so.value, next.value)
  BY <1>6 DEF Calc!Read
<1>8. Sound(s, M, i, e, so.value) /\ Calc!Splits(s, i, e - 1, kind) = {}
  BY <1>1 DEF PartSound
<1>9. Sound(s, M, k + 1, l, next.value) /\ Calc!Splits(s, k + 1, l - 1, partKind) = {}
  BY <1>4, <1>6 DEF PartSound
<1>10. s[k] \in ops
  BY <1>1, <1>4
<1> HIDE DEF then, next, e, k, l
<1>11. i \in Int /\ i \in 1..(Len(s) + 1) /\ Len(s) \in Nat
  BY TextFacts DEF Offsets
<1>12. e \in (i + 1)..(Len(s) + 1) /\ l \in (k + 1 + 1)..(Len(s) + 1)
  BY <1>8, <1>9 DEF Sound
<1>13. /\ e \in (i + 1)..k /\ l \in (k + 2)..(Len(s) + 1) /\ l \in (i + 1)..(Len(s) + 1)
  BY <1>4, <1>11, <1>12
<1>14. Between(s, i, e, k, l)
  BY <1>2, <1>4, <1>8, <1>10, <1>13 DEF Between, Sound
<1>15. Ranked(s, i, e, k, l)
  BY <1>8, <1>9, <1>10 DEF Ranked, OfRank
<1>16. M[i][l - 1] = Calc!Read(Rounded(s[k], so.value, next.value), 0)
  BY <1>6, <1>8, <1>9, <1>14, <1>15, StepMeans DEF Sound
<1>17. Balanced(s, i, l - 1)
  BY <1>9, <1>14, BalancedAcross DEF Sound
<1>18. s[l - 1] \in OperandEnd
  BY <1>9 DEF Sound
<1>19. Calc!Splits(s, i, l - 1, kind) = {}
  <2>1. CASE kind = Low /\ s[k] \in High
    BY <1>14, <1>15, <2>1, WhereAcross
  <2>2. CASE kind = {}
    <3>1. l - 1 \in Int
      BY <1>13
    <3>2. \A m : m \notin Calc!Splits(s, i, l - 1, {})
      BY <1>11, <3>1, SplitIs
    <3>3. QED
      BY <2>2, <3>2
  <2>3. QED
    BY <1>10, <2>1, <2>2 DEF OfRank
<1>20. QED
  BY <1>7, <1>13, <1>16, <1>17, <1>18, <1>19 DEF Sound

(* Any number of times.                                                    *)
LEMMA LoopSound ==
  ASSUME NEW s \in Texts, NEW M, Means(s, M), NEW ops, NEW kind, NEW partKind,
         OfRank(ops, kind, partKind), NEW part \in Readings(s),
         \A x \in Offsets(s) : PartSound(s, M, x, part[x], partKind),
         NEW i \in Offsets(s), NEW first \in Results(s), PartSound(s, M, i, first, kind)
  PROVE  PartSound(s, M, i, Calc!Loop(s, first, ops, part), kind)
<1>1. ops \in SUBSET Calc!Operators
  BY DEF OfRank, Low, High, Calc!Operators
<1>2. PICK after : Looped(s, first, ops, part, after)
  BY <1>1, LoopIs
<1>3. /\ after \in [0..Len(s) -> Results(s)] /\ after[0] = first
      /\ \A n \in 1..Len(s) : after[n] = Calc!More(s, after[n - 1], ops, part)
      /\ Calc!Loop(s, first, ops, part) = after[Len(s)]
  BY <1>2 DEF Looped
<1>4. Len(s) \in Nat
  BY TextFacts
<1> DEFINE T == {n \in Nat : n <= Len(s) => PartSound(s, M, i, after[n], kind)}
<1>5. 0 \in T
  BY <1>3
<1>6. ASSUME NEW n \in Nat, n \in T PROVE n + 1 \in T
  <2>1. SUFFICES ASSUME n + 1 <= Len(s) PROVE PartSound(s, M, i, after[n + 1], kind)
    OBVIOUS
  <2>2. n + 1 \in 1..Len(s) /\ n + 1 - 1 = n /\ n \in 0..Len(s) /\ n <= Len(s)
    BY <1>4, <2>1
  <2>3. after[n + 1] = Calc!More(s, after[n], ops, part) /\ after[n] \in Results(s)
    BY <1>3, <2>2
  <2>4. PartSound(s, M, i, after[n], kind)
    BY <1>6, <2>2
  <2>5. QED
    BY <2>3, <2>4, StepSound
<1>7. Len(s) \in T
  <2> HIDE DEF T
  <2> QED  BY <1>4, <1>5, <1>6, NatAll
<1>8. QED
  BY <1>3, <1>4, <1>7

(* What parse_term reads means what it says.                               *)
LEMMA TermSound ==
  ASSUME NEW s \in Texts, NEW M, Means(s, M), NEW factor \in Readings(s),
         \A x \in Offsets(s) : PartSound(s, M, x, factor[x], Calc!Operators),
         NEW i \in Offsets(s)
  PROVE  PartSound(s, M, i, Calc!Terms(s, factor)[i], Low)
<1>1. Calc!Terms(s, factor)[i] = Calc!Loop(s, factor[i], High, factor)
  BY TermsType DEF High
<1>2. factor[i] \in Results(s)
  BY DEF Readings
<1>3. PartSound(s, M, i, factor[i], Low)
  <2>1. SUFFICES ASSUME factor[i].ok
                 PROVE  Sound(s, M, i, factor[i].at, factor[i].value)
                        /\ Calc!Splits(s, i, factor[i].at - 1, Low) = {}
    BY DEF PartSound
  <2>2. Sound(s, M, i, factor[i].at, factor[i].value)
        /\ Calc!Splits(s, i, factor[i].at - 1, Calc!Operators) = {}
    BY <2>1 DEF PartSound
  <2>3. factor[i].at \in Offsets(s)
    BY <1>2, <2>1, ResultIs
  <2>4. i \in Int /\ factor[i].at - 1 \in Int
    BY <2>3 DEF Offsets
  <2>5. Low \subseteq Calc!Operators
    BY DEF Low, Calc!Operators
  <2>6. QED
    BY <2>2, <2>4, <2>5, SplitsOfKind
<1>4. OfRank(High, Low, Calc!Operators)
  BY DEF OfRank
<1>5. QED
  BY <1>1, <1>2, <1>3, <1>4, LoopSound

(* What parse_expression reads does.                                       *)
LEMMA ExpressionSound ==
  ASSUME NEW s \in Texts, NEW M, Means(s, M), NEW factor \in Readings(s),
         \A x \in Offsets(s) : PartSound(s, M, x, factor[x], Calc!Operators),
         NEW i \in Offsets(s)
  PROVE  PartSound(s, M, i, Calc!Expression(s, i, factor), {})
<1> DEFINE term == Calc!Terms(s, factor)
<1>1. Calc!Expression(s, i, factor) = Calc!Loop(s, term[i], Low, term)
  BY DEF Calc!Expression, Low
<1>2. term \in Readings(s) /\ \A x \in Offsets(s) : PartSound(s, M, x, term[x], Low)
  BY TermSound, TermsType
<1> HIDE DEF term
<1>3. term[i] \in Results(s)
  BY <1>2 DEF Readings
<1>4. PartSound(s, M, i, term[i], {})
  <2>1. SUFFICES ASSUME term[i].ok
                 PROVE  Sound(s, M, i, term[i].at, term[i].value)
                        /\ Calc!Splits(s, i, term[i].at - 1, {}) = {}
    BY DEF PartSound
  <2>2. Sound(s, M, i, term[i].at, term[i].value) /\ Calc!Splits(s, i, term[i].at - 1, Low) = {}
    BY <1>2, <2>1 DEF PartSound
  <2>3. term[i].at \in Offsets(s)
    BY <1>3, <2>1, ResultIs
  <2>4. i \in Int /\ term[i].at - 1 \in Int
    BY <2>3 DEF Offsets
  <2>5. QED
    BY <2>2, <2>4, SplitsOfKind
<1>5. OfRank(Low, {}, Low)
  BY DEF OfRank
<1>6. QED
  BY <1>1, <1>2, <1>3, <1>4, <1>5, LoopSound

(* A number, with the spaces before it.                                    *)
LEMMA NumberMeans ==
  ASSUME NEW s \in Texts, NEW M, Means(s, M), NEW from \in Offsets(s), NEW i \in from..Len(s),
         NEW j \in i..Len(s), Blank(s, from, i - 1), Calc!IsNumber(s, i, j)
  PROVE  /\ s[i] # Space /\ s[j] \in Calc!Numerals /\ \A k \in from..j : s[k] \notin {"(", ")"}
         /\ Calc!Splits(s, from, j, Calc!Operators) = {} /\ Lowest(s, from, j) = {}
         /\ First(s, from, j) = i /\ Last(s, from, j) = j
         /\ M[from][j] = Calc!Read(Calc!Number(s, i, j), 0)
<1>1. Len(s) \in Nat /\ from \in 1..(Len(s) + 1)
  BY TextFacts DEF Offsets
<1>2. from \in Int /\ i \in Int /\ j \in Int /\ from <= i /\ i <= j /\ j \in 0..Len(s) /\ i \in from..j
  BY <1>1
<1>3. \A k \in (i + 1)..j : s[k] \in Calc!Numerals
  BY <1>2 DEF Calc!IsNumber
<1>4. s[i] = "-" \/ s[i] \in Calc!Numerals
  BY <1>2 DEF Calc!IsNumber
<1>5. s[j] \in Calc!Numerals
  BY <1>2 DEF Calc!IsNumber
<1>6. s[i] # Space /\ s[j] # Space
  BY <1>4, <1>5, DigitIs DEF Calc!Operators
<1>7. ASSUME NEW k \in from..j PROVE s[k] = Space \/ k = i \/ s[k] \in Calc!Numerals
  <2>1. k \in from..(i - 1) \/ k = i \/ k \in (i + 1)..j
    BY <1>2
  <2>2. QED
    BY <1>3, <2>1 DEF Blank
<1>8. \A k \in from..j : s[k] \notin {"(", ")"}
  <2>1. s[i] \notin {"(", ")"}
    BY <1>4, DigitIs
  <2>2. QED
    BY <1>7, <2>1, DigitIs, SpaceIs
<1>9. ~Ends(s, from, i)
  <2>1. Space \notin OperandEnd
    BY DigitIs, SpaceIs DEF OperandEnd
  <2>2. QED
    BY <2>1 DEF Ends, Blank
<1>10. ASSUME NEW k, k \in Calc!Splits(s, from, j, Calc!Operators) PROVE FALSE
  <2>1. k \in from..j /\ s[k] \in Calc!Operators /\ Ends(s, from, k)
    BY <1>2, <1>10, SplitIs
  <2>2. k = i
    BY <1>7, <2>1, DigitIs
  <2>3. QED
    BY <1>9, <2>1, <2>2
<1>11. Calc!Splits(s, from, j, Calc!Operators) = {}
  BY <1>10
<1>12. Lowest(s, from, j) = {}
  <2>1. Low \subseteq Calc!Operators /\ High \subseteq Calc!Operators
    BY DEF Low, High, Calc!Operators
  <2>2. QED
    BY <1>2, <1>11, <2>1, SplitsOfKind DEF Lowest
<1>13. Calc!Kept(s, from, j) # {} /\ First(s, from, j) = i
  BY <1>2, <1>6, KeptFrom DEF First
<1>14. Last(s, from, j) = j
  <2>1. Blank(s, j + 1, j) /\ j \in from..j
    BY <1>2 DEF Blank
  <2>2. QED
    BY <1>2, <1>6, <2>1, KeptFrom DEF Last
<1>15. M[from][j] = Calc!Read(Calc!Number(s, i, j), 0)
  <2>1. M[from][j] = Calc!MeaningOf(s, from, j, M)
    BY <1>2 DEF Means
  <2>2. s[i] # "("
    BY <1>2, <1>8
  <2>3. QED
    BY <1>12, <1>13, <1>14, <2>1, <2>2, MeaningCases
<1>16. QED
  BY <1>5, <1>6, <1>8, <1>11, <1>12, <1>13, <1>14, <1>15

(* What a number is read as does.                                          *)
LEMMA LiteralSound ==
  ASSUME NEW s \in Texts, NEW M, Means(s, M), NEW from \in Offsets(s)
  PROVE  PartSound(s, M, from, Calc!Literal(s, Calc!SkipSpaces(s, from)), Calc!Operators)
<1> DEFINE i == Calc!SkipSpaces(s, from)
           r == Calc!Literal(s, i)
           j == r.at - 1
<1>1. i \in from..(Len(s) + 1) /\ i \in Offsets(s) /\ Blank(s, from, i - 1)
  BY SkipIs
<1> HIDE DEF i
<1>2. SUFFICES ASSUME r.ok
               PROVE  Sound(s, M, from, r.at, r.value) /\ Calc!Splits(s, from, j, Calc!Operators) = {}
  BY DEF PartSound, i
<1>3. r.at \in (i + 1)..(Len(s) + 1) /\ Calc!IsNumber(s, i, j) /\ r.value = Calc!Number(s, i, j)
  BY <1>1, <1>2, LiteralIs
<1> HIDE DEF r
<1>4. Len(s) \in Nat /\ from \in 1..(Len(s) + 1) /\ from \in Int
  BY TextFacts DEF Offsets
<1>5. r.at \in (i + 1)..(Len(s) + 1) /\ i \in from..(Len(s) + 1)
  BY <1>1, <1>3
<1>6. i \in from..Len(s) /\ j \in i..Len(s) /\ r.at \in (from + 1)..(Len(s) + 1) /\ j \in Int
  BY <1>4, <1>5
<1> HIDE DEF j
<1>7. /\ s[j] \in Calc!Numerals /\ \A k \in from..j : s[k] \notin {"(", ")"}
      /\ Calc!Splits(s, from, j, Calc!Operators) = {}
      /\ M[from][j] = Calc!Read(Calc!Number(s, i, j), 0)
  <2>1. Blank(s, from, i - 1) /\ Calc!IsNumber(s, i, j)
    BY <1>1, <1>3
  <2>2. i \in from..Len(s) /\ j \in i..Len(s)
    BY <1>6
  <2>3. QED
    BY <2>1, <2>2, NumberMeans
<1>8. Balanced(s, from, j)
  <2>1. ASSUME NEW k \in from..j PROVE Calc!Depth(s, from, k) = 0
    <3>1. k \in Int /\ \A m \in from..k : m \in from..j
      BY <1>4, <1>6
    <3>2. QED
      BY <1>4, <1>7, <3>1, DepthNone
  <2>2. j \in from..j
    BY <1>4, <1>6
  <2>3. QED
    BY <2>1, <2>2 DEF Balanced
<1>9. QED
  BY <1>3, <1>6, <1>7, <1>8 DEF Sound, OperandEnd, j

(* What stands in parentheses, with the spaces before them.                *)
LEMMA ParensMeans ==
  ASSUME NEW s \in Texts, NEW M, Means(s, M), NEW from \in Offsets(s), NEW i \in from..Len(s),
         NEW j \in (i + 1)..Len(s), Blank(s, from, i - 1), s[i] = "(", s[j] = ")",
         \A m \in (i + 1)..(j - 1) : Calc!Depth(s, i + 1, m) >= 0, Calc!Depth(s, i + 1, j - 1) = 0
  PROVE  /\ Calc!Splits(s, from, j, Calc!Operators) = {}
         /\ Balanced(s, from, j)
         /\ M[from][j] = M[i + 1][j - 1]
<1>1. Len(s) \in Nat /\ from \in 1..(Len(s) + 1)
  BY TextFacts DEF Offsets
<1>2. from \in Int /\ i \in Int /\ j \in Int /\ from <= i /\ i < j /\ j \in 0..Len(s) /\ i \in from..j
      /\ i - 1 \in Int /\ i + 1 \in Int /\ j - 1 \in Int /\ i - 1 + 1 = i /\ j - 1 + 1 = j
  BY <1>1
<1>3. Space # "(" /\ Space # ")"
  BY SpaceIs
<1>4. ASSUME NEW m \in from..(i - 1) PROVE Calc!Depth(s, from, m) = 0
  <2>1. m \in Int /\ \A k \in from..m : k \in from..(i - 1)
    BY <1>2
  <2>2. \A k \in from..m : s[k] \notin {"(", ")"}
    BY <1>3, <2>1 DEF Blank
  <2>3. QED
    BY <1>2, <2>1, <2>2, DepthNone
<1>5. Calc!Depth(s, from, i) = 1
  <2>1. \A k \in from..(i - 1) : s[k] \notin {"(", ")"}
    BY <1>3 DEF Blank
  <2>2. Calc!Depth(s, from, i - 1) = 0
    BY <1>2, <2>1, DepthNone
  <2>3. Calc!Depth(s, i, i) = 1
    BY <1>2, DepthOne
  <2>4. Calc!Depth(s, from, i) = Calc!Depth(s, from, i - 1) + Calc!Depth(s, i - 1 + 1, i)
    <3>1. from <= i - 1 + 1 /\ i - 1 <= i
      BY <1>2
    <3>2. QED
      BY <1>2, <3>1, DepthParts
  <2>5. QED
    BY <1>2, <2>2, <2>3, <2>4
<1>6. ASSUME NEW m \in (i + 1)..j
      PROVE  Calc!Depth(s, from, m) = 1 + Calc!Depth(s, i + 1, m) /\ Calc!Depth(s, i + 1, m) \in Int
  <2>1. m \in Int /\ from <= i + 1 /\ i <= m
    BY <1>2
  <2>2. Calc!Depth(s, from, m) = Calc!Depth(s, from, i) + Calc!Depth(s, i + 1, m)
    BY <1>2, <2>1, DepthParts
  <2>3. Calc!Depth(s, i + 1, m) \in Int
    BY <1>2, <2>1, DepthType
  <2>4. QED
    BY <1>5, <2>2, <2>3
<1>7. ASSUME NEW m \in (i + 1)..(j - 1) PROVE Calc!Depth(s, from, m) >= 1
  <2>1. m \in (i + 1)..j
    BY <1>2
  <2>2. QED
    BY <1>6, <2>1
<1>8. Calc!Depth(s, from, j) = 0
  <2>1. Calc!Depth(s, i + 1, j) = Calc!Depth(s, i + 1, j - 1) + Calc!Depth(s, j - 1 + 1, j)
    <3>1. i + 1 <= j - 1 + 1 /\ j - 1 <= j
      BY <1>2
    <3>2. QED
      BY <1>2, <3>1, DepthParts
  <2>2. Calc!Depth(s, j, j) = -1
    BY <1>2, DepthOne
  <2>3. Calc!Depth(s, i + 1, j) = -1
    BY <1>2, <2>1, <2>2
  <2>4. j \in (i + 1)..j
    BY <1>2
  <2>5. QED
    BY <1>6, <2>3, <2>4
<1>9. ASSUME NEW m \in from..j PROVE m \in from..(i - 1) \/ m = i \/ m \in (i + 1)..(j - 1) \/ m = j
  BY <1>2
<1>10. Balanced(s, from, j)
  <2>1. ASSUME NEW m \in from..j PROVE Calc!Depth(s, from, m) >= 0
    <3>1. CASE m \in from..(i - 1)
      BY <1>4, <3>1
    <3>2. CASE m = i
      BY <1>5, <3>2
    <3>3. CASE m \in (i + 1)..(j - 1)
      <4>1. m \in (i + 1)..j
        BY <1>2, <3>3
      <4>2. Calc!Depth(s, i + 1, m) >= 0
        BY <3>3
      <4>3. QED
        BY <1>6, <4>1, <4>2
    <3>4. CASE m = j
      BY <1>8, <3>4
    <3>5. QED
      BY <1>9, <3>1, <3>2, <3>3, <3>4
  <2>2. QED
    BY <1>8, <2>1 DEF Balanced
<1>11. Calc!Splits(s, from, j, Calc!Operators) = {}
  <2>1. ASSUME NEW m, m \in Calc!Splits(s, from, j, Calc!Operators) PROVE FALSE
    <3>1. m \in from..j /\ s[m] \in Calc!Operators /\ Calc!Depth(s, from, m) = 0
      BY <1>2, <2>1, SplitIs
    <3>2. s[m] # Space /\ s[m] # ")"
      BY <3>1, DigitIs DEF Calc!Operators
    <3>3. ~(m \in from..(i - 1)) /\ m # j
      BY <3>2 DEF Blank
    <3>4. m = i \/ m \in (i + 1)..(j - 1)
      BY <1>9, <3>1, <3>3
    <3>5. m \in Int /\ Calc!Depth(s, from, m) >= 1
      BY <1>5, <1>7, <3>1, <3>4
    <3>6. QED
      BY <3>1, <3>5
  <2>2. QED
    BY <2>1
<1>12. Lowest(s, from, j) = {}
  <2>1. Low \subseteq Calc!Operators /\ High \subseteq Calc!Operators
    BY DEF Low, High, Calc!Operators
  <2>2. QED
    BY <1>2, <1>11, <2>1, SplitsOfKind DEF Lowest
<1>13. Calc!Kept(s, from, j) # {} /\ First(s, from, j) = i
  <2>1. s[i] # Space
    BY <1>3
  <2>2. QED
    BY <1>2, <2>1, KeptFrom DEF First
<1>14. Last(s, from, j) = j
  <2>1. Blank(s, j + 1, j) /\ j \in from..j /\ s[j] # Space
    BY <1>2, <1>3 DEF Blank
  <2>2. QED
    BY <1>2, <2>1, KeptFrom DEF Last
<1>15. M[from][j] = M[i + 1][j - 1]
  <2>1. M[from][j] = Calc!MeaningOf(s, from, j, M)
    BY <1>2 DEF Means
  <2>2. QED
    BY <1>12, <1>13, <1>14, <2>1, MeaningCases
<1>16. QED
  BY <1>10, <1>11, <1>15

(* What is read in parentheses does.                                       *)
LEMMA ClosedSound ==
  ASSUME NEW s \in Texts, NEW M, Means(s, M), NEW inner \in Readings(s),
         \A x \in Offsets(s) : PartSound(s, M, x, inner[x], Calc!Operators),
         NEW from \in Offsets(s), Calc!Peek(s, Calc!SkipSpaces(s, from)) = "("
  PROVE  PartSound(s, M, from, FactorAt(s, from, inner), Calc!Operators)
<1> DEFINE i == Calc!SkipSpaces(s, from)
           q == Calc!Expression(s, i + 1, inner)
           e == q.at
           k == Calc!SkipSpaces(s, e)
           r == Calc!Closed(s, q)
<1>1. i \in from..Len(s) /\ i \in 1..Len(s) /\ i + 1 \in Offsets(s) /\ s[i] = "(" /\ Blank(s, from, i - 1)
  BY OperatorAt, SkipIs
<1>2. FactorAt(s, from, inner) = r
  BY DEF FactorAt
<1> HIDE DEF i
<1>3. q \in Results(s) /\ PartSound(s, M, i + 1, q, {})
  BY <1>1, ExpressionType, ExpressionSound
<1> HIDE DEF q
<1>4. SUFFICES ASSUME r.ok
               PROVE  Sound(s, M, from, r.at, r.value)
                      /\ Calc!Splits(s, from, r.at - 1, Calc!Operators) = {}
  BY <1>2 DEF PartSound
<1>5. q.ok /\ Calc!Peek(s, k) = ")" /\ r = Calc!Read(q.value, k + 1)
  BY <1>4 DEF Calc!Closed, Calc!NotRead
<1>6. r.at = k + 1 /\ r.value = q.value
  BY <1>5 DEF Calc!Read
<1>7. e \in Offsets(s)
  BY <1>3, <1>5, ResultIs
<1>8. k \in e..Len(s) /\ k \in 1..Len(s) /\ s[k] = ")" /\ Blank(s, e, k - 1)
  BY <1>5, <1>7, OperatorAt, SkipIs
<1>9. Sound(s, M, i + 1, e, q.value)
  BY <1>3, <1>5 DEF PartSound
<1> HIDE DEF r, e, k
<1>10. Len(s) \in Nat /\ from \in 1..(Len(s) + 1) /\ from \in Int /\ i \in Int /\ k \in Int
  BY <1>1, <1>8, TextFacts DEF Offsets
<1>11. e \in (i + 1 + 1)..(Len(s) + 1)
  BY <1>9 DEF Sound
<1>12. /\ k \in (i + 1)..Len(s) /\ k + 1 \in (from + 1)..(Len(s) + 1) /\ k + 1 - 1 = k
       /\ k - 1 \in 0..Len(s) /\ e - 1 \in 0..Len(s) /\ e - 1 <= k - 1 /\ e - 1 + 1 = e /\ e \in Int
  BY <1>1, <1>8, <1>10, <1>11
<1>13. ASSUME NEW m \in e..(k - 1) PROVE Calc!Depth(s, i + 1, m) = 0
  <2>1. m \in Int /\ e - 1 \in Int /\ i + 1 \in Int /\ i + 1 <= e - 1 + 1 /\ e - 1 <= m
    BY <1>10, <1>11, <1>12
  <2>2. Calc!Depth(s, i + 1, m) = Calc!Depth(s, i + 1, e - 1) + Calc!Depth(s, e - 1 + 1, m)
    BY <2>1, DepthParts
  <2>3. \A n \in e..m : n \in e..(k - 1)
    BY <1>12, <2>1
  <2>4. \A n \in e..m : s[n] \notin {"(", ")"}
    BY <1>8, <2>3, SpaceIs DEF Blank
  <2>5. Calc!Depth(s, e, m) = 0
    BY <1>12, <2>1, <2>4, DepthNone
  <2>6. Calc!Depth(s, i + 1, e - 1) = 0
    BY <1>9 DEF Sound, Balanced
  <2>7. QED
    BY <1>12, <2>2, <2>5, <2>6
<1>14. ASSUME NEW m \in (i + 1)..(k - 1) PROVE Calc!Depth(s, i + 1, m) >= 0
  <2>1. m \in (i + 1)..(e - 1) \/ m \in e..(k - 1)
    BY <1>10, <1>12
  <2>2. CASE m \in (i + 1)..(e - 1)
    BY <1>9, <2>2 DEF Sound, Balanced
  <2>3. CASE m \in e..(k - 1)
    BY <1>13, <2>3
  <2>4. QED
    BY <2>1, <2>2, <2>3
<1>15. Calc!Depth(s, i + 1, k - 1) = 0
  <2>1. k - 1 = e - 1 \/ k - 1 \in e..(k - 1)
    BY <1>10, <1>12
  <2>2. QED
    BY <1>9, <1>13, <2>1 DEF Sound, Balanced
<1>16. /\ Calc!Splits(s, from, k, Calc!Operators) = {} /\ Balanced(s, from, k)
       /\ M[from][k] = M[i + 1][k - 1]
  <2>1. i \in from..Len(s) /\ Blank(s, from, i - 1) /\ s[i] = "("
    BY <1>1
  <2>2. k \in (i + 1)..Len(s) /\ s[k] = ")"
    BY <1>8, <1>12
  <2>3. QED
    BY <1>14, <1>15, <2>1, <2>2, ParensMeans
<1>17. M[i + 1][k - 1] = M[i + 1][e - 1]
  <2>1. Blank(s, e - 1 + 1, k - 1)
    BY <1>8, <1>12
  <2>2. QED
    BY <1>1, <1>12, <2>1, TrailingSpaces
<1>18. M[from][k] = Calc!Read(q.value, 0)
  BY <1>9, <1>16, <1>17 DEF Sound
<1>19. QED
  BY <1>6, <1>8, <1>12, <1>16, <1>18 DEF Sound, OperandEnd

(* What parse_factor reads does, at any depth.                             *)
LEMMA FactorsSound ==
  ASSUME NEW s \in Texts, NEW M, Means(s, M), NEW w, Within(s, w)
  PROVE  \A d \in 0..Len(s) : \A x \in Offsets(s) : PartSound(s, M, x, w[d][x], Calc!Operators)
<1> DEFINE AllSound(row) == \A x \in Offsets(s) : PartSound(s, M, x, row[x], Calc!Operators)
           T == {d \in Nat : d <= Len(s) => AllSound(w[d])}
<1>1. Len(s) \in Nat
  BY TextFacts
<1>2. /\ w \in [0..Len(s) -> Readings(s)]
      /\ \A d \in 0..Len(s), from \in Offsets(s) :
           w[d][from] = IF Calc!Peek(s, Calc!SkipSpaces(s, from)) # "("
                        THEN Calc!Literal(s, Calc!SkipSpaces(s, from))
                        ELSE IF d = 0 THEN Calc!NotRead
                        ELSE Calc!Closed(s, Calc!Expression(s, Calc!SkipSpaces(s, from) + 1, w[d - 1]))
  BY DEF Within
<1>3. ASSUME NEW d \in 0..Len(s), NEW x \in Offsets(s), Calc!Peek(s, Calc!SkipSpaces(s, x)) # "("
      PROVE  PartSound(s, M, x, w[d][x], Calc!Operators)
  <2>1. w[d][x] = Calc!Literal(s, Calc!SkipSpaces(s, x))
    BY <1>2, <1>3
  <2>2. QED
    BY <2>1, LiteralSound
<1>4. 0 \in T
  <2>1. 0 \in 0..Len(s)
    BY <1>1
  <2>2. ASSUME NEW x \in Offsets(s) PROVE PartSound(s, M, x, w[0][x], Calc!Operators)
    <3>1. CASE Calc!Peek(s, Calc!SkipSpaces(s, x)) = "("
      <4>1. w[0][x] = Calc!NotRead
        BY <1>2, <2>1, <3>1
      <4>2. QED
        BY <4>1 DEF PartSound, Calc!NotRead
    <3>2. QED
      BY <1>3, <2>1, <3>1
  <2>3. QED
    BY <2>2
<1>5. ASSUME NEW d \in Nat, d \in T PROVE d + 1 \in T
  <2>1. SUFFICES ASSUME d + 1 <= Len(s), NEW x \in Offsets(s)
                 PROVE  PartSound(s, M, x, w[d + 1][x], Calc!Operators)
    OBVIOUS
  <2>2. d + 1 \in 0..Len(s) /\ d + 1 # 0 /\ d + 1 - 1 = d /\ d \in 0..Len(s) /\ d <= Len(s)
    BY <1>1, <2>1
  <2>3. AllSound(w[d]) /\ w[d] \in Readings(s)
    BY <1>2, <1>5, <2>2
  <2>4. CASE Calc!Peek(s, Calc!SkipSpaces(s, x)) = "("
    <3>1. w[d + 1][x] = FactorAt(s, x, w[d])
      BY <1>2, <2>2, <2>4 DEF FactorAt
    <3>2. QED
      BY <2>3, <2>4, <3>1, ClosedSound
  <2>5. QED
    BY <1>3, <2>2, <2>4
<1>6. Nat \subseteq T
  <2> HIDE DEF T
  <2> QED  BY <1>4, <1>5, NatAll
<1>7. QED
  BY <1>1, <1>6

-----------------------------------------------------------------------------
(* The parser reads every part that means something, up to the spaces that *)
(* follow it.                                                              *)
Reads(s, M, i, j, r) ==
  r.ok /\ r.value = M[i][j].value /\ Calc!SkipSpaces(s, r.at) = Calc!SkipSpaces(s, j + 1)

(* A part that means something is not empty.                               *)
LEMMA MeansSomething ==
  ASSUME NEW s \in Texts, NEW M, Means(s, M), NEW i \in Offsets(s), NEW j \in 0..Len(s), M[i][j].ok
  PROVE  Calc!Kept(s, i, j) # {} /\ i <= j /\ M[i][j].value \in Floats
<1>1. M[i][j] = Calc!MeaningOf(s, i, j, M) /\ M[i][j] \in Outcomes
  BY DEF Means, Tables
<1>2. Calc!Kept(s, i, j) # {}
  <2>1. SUFFICES ASSUME Calc!Kept(s, i, j) = {} PROVE FALSE
    OBVIOUS
  <2>2. M[i][j] = Calc!NotRead
    BY <1>1, <2>1, MeaningCases
  <2>3. QED
    BY <2>2 DEF Calc!NotRead
<1>3. PICK k \in i..j : TRUE
  BY <1>2, SpaceIs
<1>4. i \in Int /\ j \in Int
  BY TextFacts DEF Offsets
<1>5. QED
  BY <1>1, <1>2, <1>3, <1>4, OutcomeIs

(* Where a part is split, what is left of it is not split again.           *)
SplitAt(s, M, i, j, ops, k) ==
  /\ s[k] \in ops /\ s[k] \in Calc!Operators /\ Calc!Splits(s, k + 1, j, ops) = {}
  /\ M[i][j] = Calc!Value(M[i][k - 1], s[k], M[k + 1][j])
  /\ Calc!Splits(s, i, j, Low) = {} =>
       Calc!Splits(s, i, k - 1, Low) = {} /\ Calc!Splits(s, k + 1, j, Low) = {}

(* There is such a place in every part that is split.                      *)
LEMMA LastSplit ==
  ASSUME NEW s \in Texts, NEW M, Means(s, M), NEW i \in Offsets(s), NEW j \in 0..Len(s), M[i][j].ok,
         NEW ops, ops = Low \/ (ops = High /\ Calc!Splits(s, i, j, Low) = {}),
         Calc!Splits(s, i, j, ops) # {}
  PROVE  \E k \in (i + 1)..j : SplitAt(s, M, i, j, ops, k)
<1> DEFINE k == Where(s, i, j)
<1>1. i \in Int /\ j \in Int
  BY TextFacts DEF Offsets
<1>2. Lowest(s, i, j) = Calc!Splits(s, i, j, ops)
  BY DEF Lowest
<1>3. /\ k \in Calc!Splits(s, i, j, ops) /\ k \in (i + 1)..j /\ s[k] \in Calc!Operators
      /\ Calc!Depth(s, i, k) = 0 /\ \A m \in Calc!Splits(s, i, j, ops) : m <= k
  BY <1>1, <1>2, WhereIs
<1>4. M[i][j] = Calc!Value(M[i][k - 1], s[k], M[k + 1][j])
  <2>1. M[i][j] = Calc!MeaningOf(s, i, j, M)
    BY DEF Means
  <2>2. Calc!Kept(s, i, j) # {}
    BY MeansSomething
  <2>3. QED
    BY <1>2, <2>1, <2>2, MeaningCases
<1> HIDE DEF k
<1>5. k \in Int /\ k \in i..j /\ k + 1 \in Int /\ k - 1 \in Int
  BY <1>1, <1>3
<1>6. s[k] \in ops
  BY <1>1, <1>3, SplitIs
<1>7. ASSUME NEW kind, NEW m, m \in Calc!Splits(s, k + 1, j, kind)
      PROVE  m \in Calc!Splits(s, i, j, kind) /\ m \in (k + 1)..j
  <2>1. m \in (k + 1)..j
    BY <1>1, <1>5, <1>7, SplitIs
  <2>2. QED
    BY <1>1, <1>3, <1>5, <1>7, <2>1, SplitsBeyond
<1>8. Calc!Splits(s, k + 1, j, ops) = {}
  <2>1. ASSUME NEW m, m \in Calc!Splits(s, k + 1, j, ops) PROVE FALSE
    <3>1. m <= k /\ m \in (k + 1)..j
      BY <1>3, <1>7, <2>1
    <3>2. QED
      BY <1>1, <1>5, <3>1
  <2>2. QED
    BY <2>1
<1>9. ASSUME Calc!Splits(s, i, j, Low) = {}
      PROVE  Calc!Splits(s, i, k - 1, Low) = {} /\ Calc!Splits(s, k + 1, j, Low) = {}
  <2>1. ASSUME NEW m, m \in Calc!Splits(s, i, k - 1, Low) PROVE FALSE
    <3>1. m \in i..(k - 1) /\ s[m] \in Low /\ Calc!Depth(s, i, m) = 0 /\ Ends(s, i, m)
      BY <1>1, <1>5, <2>1, SplitIs
    <3>2. m \in i..j
      BY <1>1, <1>5, <3>1
    <3>3. m \in Calc!Splits(s, i, j, Low)
      BY <1>1, <3>1, <3>2, SplitIs
    <3>4. QED
      BY <1>9, <3>3
  <2>2. ASSUME NEW m, m \in Calc!Splits(s, k + 1, j, Low) PROVE FALSE
    BY <1>7, <1>9, <2>2
  <2>3. QED
    BY <2>1, <2>2
<1>10. SplitAt(s, M, i, j, ops, k)
  BY <1>3, <1>4, <1>6, <1>8, <1>9 DEF SplitAt
<1>11. QED
  BY <1>3, <1>10

(* A loop of the parser gets through the parts it can read one by one.     *)
LoopRule(s, M, ops, part, G) ==
  /\ ops \in SUBSET Calc!Operators /\ part \in Readings(s) /\ G \in [Offsets(s) -> SUBSET (0..Len(s))]
  /\ \A i \in Offsets(s) : \A j \in G[i] :
       M[i][j].ok /\ Calc!Splits(s, i, j, ops) = {} => Reads(s, M, i, j, part[i])
  /\ \A i \in Offsets(s) : \A j \in G[i] :
       M[i][j].ok /\ Calc!Splits(s, i, j, ops) # {} =>
         \E k \in (i + 1)..j :
           /\ s[k] \in ops /\ Calc!Splits(s, k + 1, j, ops) = {}
           /\ k - 1 \in G[i] /\ j \in G[k + 1]
           /\ M[i][j] = Calc!Value(M[i][k - 1], s[k], M[k + 1][j])

(* When the whole means something its parts do.                            *)
LEMMA ValueParts ==
  ASSUME NEW former \in Outcomes, NEW op, NEW latter \in Outcomes, Calc!Value(former, op, latter).ok
  PROVE  /\ former.ok /\ latter.ok /\ ~(op = "/" /\ latter.value \in Zeros)
         /\ Calc!Value(former, op, latter).value = Rounded(op, former.value, latter.value)
<1>1. former.ok /\ latter.ok /\ ~(op = "/" /\ latter.value \in Zeros)
  BY DEF Calc!Value, Calc!NotRead
<1>2. QED
  BY <1>1 DEF Calc!Value, Calc!Read

(* Once through the loop, from one part to the next.                       *)
LEMMA StepReads ==
  ASSUME NEW s \in Texts, NEW M, Means(s, M), NEW i \in Offsets(s), NEW j \in 0..Len(s), M[i][j].ok,
         NEW k \in (i + 1)..j, NEW ops \in SUBSET Calc!Operators, s[k] \in ops, NEW part \in Readings(s),
         M[i][j] = Calc!Value(M[i][k - 1], s[k], M[k + 1][j]),
         NEW so \in Results(s), Reads(s, M, i, k - 1, so), Reads(s, M, k + 1, j, part[k + 1])
  PROVE  Reads(s, M, i, j, Calc!More(s, so, ops, part))
<1>1. Len(s) \in Nat /\ i \in 1..(Len(s) + 1) /\ i \in Int /\ j \in Int /\ k \in Int
  BY TextFacts DEF Offsets
<1>2. /\ k \in 1..Len(s) /\ k - 1 \in 0..Len(s) /\ k + 1 \in 1..(Len(s) + 1) /\ k - 1 + 1 = k
      /\ k \in 1..(Len(s) + 1) /\ k \in k..(Len(s) + 1)
  BY <1>1
<1>3. M[i][k - 1] \in Outcomes /\ M[k + 1][j] \in Outcomes
  BY <1>2 DEF Means, Tables, Offsets
<1>4. /\ ~(s[k] = "/" /\ M[k + 1][j].value \in Zeros)
      /\ M[i][j].value = Rounded(s[k], M[i][k - 1].value, M[k + 1][j].value)
  BY <1>3, ValueParts
<1>5. Calc!Peek(s, k) = s[k] /\ Calc!SkipSpaces(s, k) = k
  <2>1. Calc!Peek(s, k) = s[k]
    BY <1>2, TextFacts
  <2>2. Calc!Peek(s, k) # Space
    BY <2>1, DigitIs
  <2>3. Blank(s, k, k - 1)
    BY <1>1 DEF Blank
  <2>4. QED
    BY <1>2, <2>1, <2>2, <2>3, SkipOnce DEF Offsets
<1>6. so.ok /\ so.value = M[i][k - 1].value /\ Calc!SkipSpaces(s, so.at) = k
  BY <1>2, <1>5 DEF Reads
<1> DEFINE next == part[k + 1]
<1>7. next.ok /\ next.value = M[k + 1][j].value /\ Calc!SkipSpaces(s, next.at) = Calc!SkipSpaces(s, j + 1)
  BY DEF Reads
<1>8. Calc!More(s, so, ops, part) = Calc!Combined(so, s[k], next)
  BY <1>5, <1>6 DEF Calc!More
<1> HIDE DEF next
<1>9. Calc!More(s, so, ops, part) = Calc!Read(Rounded(s[k], so.value, next.value), next.at)
  BY <1>4, <1>7, <1>8 DEF Calc!Combined
<1>10. QED
  BY <1>4, <1>6, <1>7, <1>9 DEF Reads, Calc!Read

(* The loop gets to the end of any part, in no more steps than it has      *)
(* characters.                                                             *)
LEMMA LoopReads ==
  ASSUME NEW s \in Texts, NEW M, Means(s, M), NEW ops, NEW part, NEW G, LoopRule(s, M, ops, part, G),
         NEW i \in Offsets(s), NEW after, Looped(s, part[i], ops, part, after)
  PROVE  \A j \in G[i] : M[i][j].ok => \E n \in 0..Len(s) : n <= j + 1 - i /\ Reads(s, M, i, j, after[n])
<1>1. Len(s) \in Nat /\ i \in 1..(Len(s) + 1) /\ i \in Int
  BY TextFacts DEF Offsets
<1>2. /\ after \in [0..Len(s) -> Results(s)] /\ after[0] = part[i]
      /\ \A n \in 1..Len(s) : after[n] = Calc!More(s, after[n - 1], ops, part)
  BY DEF Looped
<1>3. /\ ops \in SUBSET Calc!Operators /\ part \in Readings(s)
      /\ \A x \in Offsets(s) : G[x] \subseteq 0..Len(s)
  BY DEF LoopRule
<1> DEFINE Got(j) == \E n \in 0..Len(s) : n <= j + 1 - i /\ Reads(s, M, i, j, after[n])
           T == {j \in Nat : j \in G[i] /\ M[i][j].ok => Got(j)}
<1>4. ASSUME NEW j \in Nat, \A m \in Nat : m < j => m \in T PROVE j \in T
  <2>1. SUFFICES ASSUME j \in G[i], M[i][j].ok PROVE Got(j)
    OBVIOUS
  <2>2. j \in 0..Len(s)
    BY <1>3, <2>1
  <2>3. i <= j
    BY <2>1, <2>2, MeansSomething
  <2>4. CASE Calc!Splits(s, i, j, ops) = {}
    <3>1. Reads(s, M, i, j, part[i])
      BY <2>1, <2>4 DEF LoopRule
    <3>2. 0 \in 0..Len(s) /\ 0 <= j + 1 - i
      BY <1>1, <2>2, <2>3
    <3>3. QED
      BY <1>2, <3>1, <3>2
  <2>5. CASE Calc!Splits(s, i, j, ops) # {}
    <3>1. PICK k \in (i + 1)..j :
            /\ s[k] \in ops /\ Calc!Splits(s, k + 1, j, ops) = {}
            /\ k - 1 \in G[i] /\ j \in G[k + 1]
            /\ M[i][j] = Calc!Value(M[i][k - 1], s[k], M[k + 1][j])
      BY <2>1, <2>5 DEF LoopRule
    <3>2. /\ k \in Int /\ k - 1 \in Nat /\ k - 1 < j /\ k - 1 \in 0..Len(s) /\ k + 1 \in 1..(Len(s) + 1)
          /\ k - 1 + 1 = k
      BY <1>1, <2>2
    <3>3. k + 1 \in Offsets(s)
      BY <3>2 DEF Offsets
    <3>4. M[i][k - 1].ok /\ M[k + 1][j].ok
      <4>1. M[i][k - 1] \in Outcomes /\ M[k + 1][j] \in Outcomes
        BY <2>2, <3>2, <3>3 DEF Means, Tables
      <4>2. QED
        BY <2>1, <3>1, <4>1, ValueParts
    <3>5. Got(k - 1)
      BY <1>4, <3>1, <3>2, <3>4
    <3>6. PICK n \in 0..Len(s) : n <= k - 1 + 1 - i /\ Reads(s, M, i, k - 1, after[n])
      BY <3>5
    <3>7. Reads(s, M, k + 1, j, part[k + 1])
      BY <3>1, <3>3, <3>4 DEF LoopRule
    <3>8. n + 1 \in 1..Len(s) /\ n + 1 <= j + 1 - i /\ n + 1 - 1 = n /\ n + 1 \in 0..Len(s)
      BY <1>1, <2>2, <3>2, <3>6
    <3>9. after[n + 1] = Calc!More(s, after[n], ops, part) /\ after[n] \in Results(s)
      BY <1>2, <3>8
    <3>10. Reads(s, M, i, j, after[n + 1])
      BY <1>3, <2>1, <2>2, <3>1, <3>6, <3>7, <3>9, StepReads
    <3>11. QED
      BY <3>8, <3>10
  <2>6. QED
    BY <2>4, <2>5
<1>5. Nat \subseteq T
  <2> HIDE DEF T
  <2> QED  BY <1>4, NatStrong
<1>6. ASSUME NEW j \in G[i], M[i][j].ok PROVE Got(j)
  <2>1. j \in Nat
    BY <1>3
  <2>2. j \in T
    BY <1>5, <2>1
  <2>3. QED
    BY <1>6, <2>2
<1>7. QED
  BY <1>6

(* It ends where no operator of the loop follows.                          *)
LEMMA LoopEnds ==
  ASSUME NEW s \in Texts, NEW first, NEW ops, NEW part, NEW after, Looped(s, first, ops, part, after),
         NEW n \in 0..Len(s), Calc!Peek(s, Calc!SkipSpaces(s, after[n].at)) \notin ops
  PROVE  Calc!Loop(s, first, ops, part) = after[n]
<1>1. Len(s) \in Nat
  BY TextFacts
<1>2. /\ \A m \in 1..Len(s) : after[m] = Calc!More(s, after[m - 1], ops, part)
      /\ Calc!Loop(s, first, ops, part) = after[Len(s)]
  BY DEF Looped
<1> DEFINE T == {m \in Nat : n + m <= Len(s) => after[n + m] = after[n]}
<1>3. 0 \in T
  BY <1>1
<1>4. ASSUME NEW m \in Nat, m \in T PROVE m + 1 \in T
  <2>1. SUFFICES ASSUME n + (m + 1) <= Len(s) PROVE after[n + (m + 1)] = after[n]
    OBVIOUS
  <2>2. n + (m + 1) \in 1..Len(s) /\ n + (m + 1) - 1 = n + m /\ n + m <= Len(s)
    BY <1>1, <2>1
  <2>3. after[n + (m + 1)] = Calc!More(s, after[n], ops, part)
    BY <1>2, <1>4, <2>2
  <2>4. QED
    BY <2>3 DEF Calc!More
<1>5. Nat \subseteq T
  <2> HIDE DEF T
  <2> QED  BY <1>3, <1>4, NatAll
<1>6. Len(s) - n \in Nat /\ n + (Len(s) - n) = Len(s) /\ Len(s) <= Len(s)
  BY <1>1
<1>7. after[Len(s)] = after[n]
  BY <1>5, <1>6
<1>8. QED
  BY <1>2, <1>7

(* What may follow a part: no further digit, and for an operand of the     *)
(* lower rank no operator of the higher.                                   *)
Follow(s, j) == Calc!Peek(s, j + 1)
Beyond(s, j) == Calc!Peek(s, Calc!SkipSpaces(s, j + 1))
(* parse_factor reads every operand of some size.                          *)
FactorReads(s, M, d, factor) ==
  \A i \in Offsets(s), j \in 0..Len(s) :
    j + 1 - i <= d /\ M[i][j].ok /\ Calc!Splits(s, i, j, Calc!Operators) = {}
    /\ Follow(s, j) \notin Calc!Numerals => Reads(s, M, i, j, factor[i])

(* Nothing is skipped before what is not a space.                          *)
LEMMA AtOperator ==
  ASSUME NEW s \in Texts, NEW k \in 1..Len(s), s[k] # Space
  PROVE  Calc!SkipSpaces(s, k) = k /\ Calc!Peek(s, k) = s[k]
         /\ Follow(s, k - 1) = s[k] /\ Beyond(s, k - 1) = s[k]
<1>1. Len(s) \in Nat
  BY TextFacts
<1>2. k \in Int /\ k \in 1..(Len(s) + 1) /\ k \in k..(Len(s) + 1) /\ k - 1 + 1 = k
  BY <1>1
<1>3. Calc!Peek(s, k) = s[k]
  BY TextFacts
<1>4. Blank(s, k, k - 1)
  BY <1>2 DEF Blank
<1>5. Calc!SkipSpaces(s, k) = k
  BY <1>2, <1>3, <1>4, SkipOnce DEF Offsets
<1>6. QED
  BY <1>2, <1>3, <1>5 DEF Follow, Beyond

(* parse_term reads what is not a sum.                                     *)
LEMMA TermReads ==
  ASSUME NEW s \in Texts, NEW M, Means(s, M), NEW d \in Nat, NEW factor \in Readings(s),
         FactorReads(s, M, d, factor),
         NEW i \in Offsets(s), NEW j \in 0..Len(s), j + 1 - i <= d, M[i][j].ok,
         Calc!Splits(s, i, j, Low) = {}, Follow(s, j) \notin Calc!Numerals, Beyond(s, j) \notin High
  PROVE  Reads(s, M, i, j, Calc!Terms(s, factor)[i])
<1> DEFINE G == [x \in Offsets(s) |->
                   {y \in 0..Len(s) : /\ y + 1 - x <= d /\ Calc!Splits(s, x, y, Low) = {}
                                      /\ Follow(s, y) \notin Calc!Numerals}]
<1>1. Len(s) \in Nat /\ \A x \in Offsets(s) : x \in 1..(Len(s) + 1)
  BY TextFacts DEF Offsets
<1>2. ASSUME NEW x \in Offsets(s), NEW y \in G[x], M[x][y].ok, Calc!Splits(s, x, y, High) = {}
      PROVE  Reads(s, M, x, y, factor[x])
  <2>1. /\ y \in 0..Len(s) /\ y + 1 - x <= d /\ Calc!Splits(s, x, y, Low) = {}
        /\ Follow(s, y) \notin Calc!Numerals
    BY <1>2
  <2>2. x \in Int /\ y \in Int
    BY <1>1, <2>1
  <2>3. ASSUME NEW m, m \in Calc!Splits(s, x, y, Calc!Operators)
        PROVE  m \in Calc!Splits(s, x, y, Low) \/ m \in Calc!Splits(s, x, y, High)
    <3>1. m \in x..y /\ s[m] \in Calc!Operators /\ Calc!Depth(s, x, m) = 0 /\ Ends(s, x, m)
      BY <2>2, <2>3, SplitIs
    <3>2. s[m] \in Low \/ s[m] \in High
      BY <3>1 DEF Low, High, Calc!Operators
    <3>3. QED
      BY <2>2, <3>1, <3>2, SplitIs
  <2>4. Calc!Splits(s, x, y, Calc!Operators) = {}
    BY <1>2, <2>1, <2>3
  <2>5. QED
    BY <1>2, <2>1, <2>4 DEF FactorReads
<1>3. ASSUME NEW x \in Offsets(s), NEW y \in G[x], M[x][y].ok, Calc!Splits(s, x, y, High) # {}
      PROVE  \E k \in (x + 1)..y :
               /\ s[k] \in High /\ Calc!Splits(s, k + 1, y, High) = {}
               /\ k - 1 \in G[x] /\ y \in G[k + 1]
               /\ M[x][y] = Calc!Value(M[x][k - 1], s[k], M[k + 1][y])
  <2>1. /\ y \in 0..Len(s) /\ y + 1 - x <= d /\ Calc!Splits(s, x, y, Low) = {}
        /\ Follow(s, y) \notin Calc!Numerals
    BY <1>3
  <2>2. PICK k \in (x + 1)..y : SplitAt(s, M, x, y, High, k)
    BY <1>3, <2>1, LastSplit
  <2>3. x \in 1..(Len(s) + 1) /\ y \in 0..Len(s) /\ y + 1 - x <= d /\ k \in (x + 1)..y
    BY <1>1, <2>1
  <2>4. /\ k \in 1..Len(s) /\ k - 1 \in 0..Len(s) /\ k + 1 \in 1..(Len(s) + 1)
        /\ k - 1 + 1 - x <= d /\ y + 1 - (k + 1) <= d
    BY <1>1, <2>3
  <2>5. s[k] \in High /\ s[k] \in Calc!Operators
    BY <2>2 DEF SplitAt
  <2>6. Follow(s, k - 1) \notin Calc!Numerals
    BY <2>4, <2>5, AtOperator, DigitIs
  <2>7. k - 1 \in G[x]
    BY <2>1, <2>2, <2>4, <2>6 DEF SplitAt
  <2>8. k + 1 \in Offsets(s)
    BY <2>4 DEF Offsets
  <2>9. y \in G[k + 1]
    BY <2>1, <2>2, <2>4, <2>8 DEF SplitAt
  <2>10. QED
    BY <2>2, <2>5, <2>7, <2>9 DEF SplitAt
<1>4. j \in G[i]
  OBVIOUS
<1>5. G \in [Offsets(s) -> SUBSET (0..Len(s))]
  OBVIOUS
<1> HIDE DEF G
<1>6. High \in SUBSET Calc!Operators
  BY DEF High, Calc!Operators
<1>7. LoopRule(s, M, High, factor, G)
  BY <1>2, <1>3, <1>5, <1>6 DEF LoopRule
<1>8. factor[i] \in Results(s)
  BY DEF Readings
<1>9. PICK after : Looped(s, factor[i], High, factor, after)
  BY <1>6, <1>8, LoopIs
<1>10. PICK n \in 0..Len(s) : Reads(s, M, i, j, after[n])
  BY <1>4, <1>7, <1>9, LoopReads
<1>11. Calc!Peek(s, Calc!SkipSpaces(s, after[n].at)) \notin High
  BY <1>10 DEF Reads, Beyond
<1>12. Calc!Loop(s, factor[i], High, factor) = after[n]
  BY <1>9, <1>11, LoopEnds
<1>13. Calc!Terms(s, factor)[i] = Calc!Loop(s, factor[i], High, factor)
  BY TermsType DEF High
<1>14. QED
  BY <1>10, <1>12, <1>13

(* parse_expression reads anything.                                        *)
LEMMA ExpressionReads ==
  ASSUME NEW s \in Texts, NEW M, Means(s, M), NEW d \in Nat, NEW factor \in Readings(s),
         FactorReads(s, M, d, factor),
         NEW i \in Offsets(s), NEW j \in 0..Len(s), j + 1 - i <= d, M[i][j].ok,
         Follow(s, j) \notin Calc!Numerals, Beyond(s, j) \notin Calc!Operators
  PROVE  Reads(s, M, i, j, Calc!Expression(s, i, factor))
<1> DEFINE G == [x \in Offsets(s) |->
                   {y \in 0..Len(s) : /\ y + 1 - x <= d /\ Follow(s, y) \notin Calc!Numerals
                                      /\ Beyond(s, y) \notin High}]
           term == Calc!Terms(s, factor)
<1>1. Len(s) \in Nat /\ \A x \in Offsets(s) : x \in 1..(Len(s) + 1)
  BY TextFacts DEF Offsets
<1>2. /\ Low \in SUBSET Calc!Operators /\ High \subseteq Calc!Operators /\ Low \cap High = {}
  BY DEF Low, High, Calc!Operators
<1>3. ASSUME NEW x \in Offsets(s), NEW y \in G[x], M[x][y].ok, Calc!Splits(s, x, y, Low) = {}
      PROVE  Reads(s, M, x, y, term[x])
  <2>1. y \in 0..Len(s) /\ y + 1 - x <= d /\ Follow(s, y) \notin Calc!Numerals /\ Beyond(s, y) \notin High
    BY <1>3
  <2>2. QED
    BY <1>3, <2>1, TermReads
<1>4. ASSUME NEW x \in Offsets(s), NEW y \in G[x], M[x][y].ok, Calc!Splits(s, x, y, Low) # {}
      PROVE  \E k \in (x + 1)..y :
               /\ s[k] \in Low /\ Calc!Splits(s, k + 1, y, Low) = {}
               /\ k - 1 \in G[x] /\ y \in G[k + 1]
               /\ M[x][y] = Calc!Value(M[x][k - 1], s[k], M[k + 1][y])
  <2>1. y \in 0..Len(s) /\ y + 1 - x <= d /\ Follow(s, y) \notin Calc!Numerals /\ Beyond(s, y) \notin High
    BY <1>4
  <2>2. PICK k \in (x + 1)..y : SplitAt(s, M, x, y, Low, k)
    BY <1>4, <2>1, LastSplit
  <2>3. x \in 1..(Len(s) + 1) /\ y \in 0..Len(s) /\ y + 1 - x <= d /\ k \in (x + 1)..y
    BY <1>1, <2>1
  <2>4. /\ k \in 1..Len(s) /\ k - 1 \in 0..Len(s) /\ k + 1 \in 1..(Len(s) + 1)
        /\ k - 1 + 1 - x <= d /\ y + 1 - (k + 1) <= d
    BY <1>1, <2>3
  <2>5. s[k] \in Low /\ s[k] \in Calc!Operators
    BY <2>2 DEF SplitAt
  <2>6. Follow(s, k - 1) \notin Calc!Numerals /\ Beyond(s, k - 1) \notin High
    BY <1>2, <2>4, <2>5, AtOperator, DigitIs
  <2>7. k - 1 \in G[x]
    BY <2>4, <2>6
  <2>8. k + 1 \in Offsets(s)
    BY <2>4 DEF Offsets
  <2>9. y \in G[k + 1]
    BY <2>1, <2>4, <2>8
  <2>10. QED
    BY <2>2, <2>5, <2>7, <2>9 DEF SplitAt
<1>5. j \in G[i]
  BY <1>2
<1>6. G \in [Offsets(s) -> SUBSET (0..Len(s))]
  OBVIOUS
<1>7. term \in Readings(s) /\ term[i] \in Results(s)
  BY TermsType DEF Readings
<1> HIDE DEF G, term
<1>8. LoopRule(s, M, Low, term, G)
  BY <1>2, <1>3, <1>4, <1>6, <1>7 DEF LoopRule
<1>9. PICK after : Looped(s, term[i], Low, term, after)
  BY <1>2, <1>7, LoopIs
<1>10. PICK n \in 0..Len(s) : Reads(s, M, i, j, after[n])
  BY <1>5, <1>8, <1>9, LoopReads
<1>11. Calc!Peek(s, Calc!SkipSpaces(s, after[n].at)) \notin Low
  BY <1>2, <1>10 DEF Reads, Beyond
<1>12. Calc!Loop(s, term[i], Low, term) = after[n]
  BY <1>9, <1>11, LoopEnds
<1>13. Calc!Expression(s, i, factor) = Calc!Loop(s, term[i], Low, term)
  BY DEF Calc!Expression, Low, term
<1>14. QED
  BY <1>10, <1>12, <1>13

(* A factor reads what it can at the depth its size allows for.            *)
LEMMA NumberReads ==
  ASSUME NEW s \in Texts, NEW M, Means(s, M), NEW i \in Offsets(s), NEW j \in 0..Len(s), M[i][j].ok,
         Lowest(s, i, j) = {}, ~(s[First(s, i, j)] = "(" /\ s[Last(s, i, j)] = ")"),
         Follow(s, j) \notin Calc!Numerals
  PROVE  /\ Calc!Peek(s, Calc!SkipSpaces(s, i)) # "("
         /\ Reads(s, M, i, j, Calc!Literal(s, Calc!SkipSpaces(s, i)))
<1> DEFINE a == First(s, i, j)
           z == Last(s, i, j)
<1>1. Len(s) \in Nat /\ i \in 1..(Len(s) + 1) /\ i \in Int /\ j \in Int
  BY TextFacts DEF Offsets
<1>2. Calc!Kept(s, i, j) # {}
  BY MeansSomething
<1>3. /\ a \in i..j /\ s[a] # Space /\ Blank(s, i, a - 1)
      /\ z \in i..j /\ s[z] # Space /\ Blank(s, z + 1, j) /\ a <= z
  BY <1>1, <1>2, KeptIs DEF First, Last
<1>4. Calc!IsNumber(s, a, z) /\ M[i][j] = Calc!Read(Calc!Number(s, a, z), 0)
  <2>1. M[i][j] = Calc!MeaningOf(s, i, j, M)
    BY DEF Means
  <2>2. M[i][j] = IF Calc!IsNumber(s, a, z) THEN Calc!Read(Calc!Number(s, a, z), 0) ELSE Calc!NotRead
    BY <1>2, <2>1, MeaningCases
  <2>3. QED
    BY <2>2 DEF Calc!NotRead
<1> HIDE DEF a, z
<1>5. a \in i..j /\ z \in i..j /\ a <= z
  BY <1>3
<1>6. /\ a \in 1..Len(s) /\ z \in 1..Len(s) /\ a \in i..(Len(s) + 1) /\ a \in Int /\ z \in Int
      /\ z + 1 \in 1..(Len(s) + 1) /\ j + 1 \in (z + 1)..(Len(s) + 1) /\ j + 1 - 1 = j
  BY <1>1, <1>5
<1>7. Calc!Peek(s, a) = s[a] /\ Calc!SkipSpaces(s, i) = a
  <2>1. Calc!Peek(s, a) = s[a]
    BY <1>6, TextFacts
  <2>2. QED
    BY <1>3, <1>6, <2>1, SkipOnce
<1>8. s[a] # "("
  <2>1. s[a] = "-" \/ s[a] \in Calc!Numerals
    BY <1>4, <1>5, <1>6 DEF Calc!IsNumber
  <2>2. QED
    BY <2>1, DigitIs
<1>9. Calc!Peek(s, z + 1) \notin Calc!Numerals
  <2>1. CASE z = j
    BY <2>1 DEF Follow
  <2>2. CASE z # j
    <3>1. z + 1 \in (z + 1)..j /\ z + 1 \in 1..Len(s)
      BY <1>1, <1>5, <1>6, <2>2
    <3>2. Calc!Peek(s, z + 1) = Space
      BY <1>3, <3>1, TextFacts DEF Blank
    <3>3. QED
      BY <3>2, DigitIs
  <2>3. QED
    BY <2>1, <2>2
<1>10. Calc!Literal(s, a) = Calc!Read(Calc!Number(s, a, z), z + 1)
  BY <1>4, <1>6, <1>9, LiteralReads
<1>11. Calc!SkipSpaces(s, z + 1) = Calc!SkipSpaces(s, j + 1)
  BY <1>3, <1>6, SkipFurther DEF Offsets
<1>12. QED
  BY <1>4, <1>7, <1>8, <1>10, <1>11 DEF Reads, Calc!Read

(* One step up and one down.                                               *)
LEMMA UpAndDown == ASSUME NEW n \in Int PROVE n + 1 - 1 = n
  OBVIOUS

(* parse_factor reads what is in parentheses, by what it reads one deeper. *)
LEMMA ClosedReads ==
  ASSUME NEW s \in Texts, NEW M, Means(s, M), NEW d \in Nat, NEW inner \in Readings(s),
         FactorReads(s, M, d, inner), NEW i \in Offsets(s), NEW j \in 0..Len(s), M[i][j].ok,
         j + 1 - i <= d + 1, Lowest(s, i, j) = {}, s[First(s, i, j)] = "(", s[Last(s, i, j)] = ")"
  PROVE  /\ Calc!Peek(s, Calc!SkipSpaces(s, i)) = "("
         /\ Reads(s, M, i, j, FactorAt(s, i, inner))
<1> DEFINE a == First(s, i, j)
           z == Last(s, i, j)
           q == Calc!Expression(s, a + 1, inner)
<1>1. Len(s) \in Nat /\ i \in 1..(Len(s) + 1) /\ i \in Int /\ j \in Int
  BY TextFacts DEF Offsets
<1>2. Calc!Kept(s, i, j) # {}
  BY MeansSomething
<1>3. /\ a \in i..j /\ s[a] # Space /\ Blank(s, i, a - 1)
      /\ z \in i..j /\ s[z] # Space /\ Blank(s, z + 1, j) /\ a <= z
  BY <1>1, <1>2, KeptIs DEF First, Last
<1>4. M[i][j] = M[a + 1][z - 1]
  <2>1. M[i][j] = Calc!MeaningOf(s, i, j, M)
    BY DEF Means
  <2>2. QED
    BY <1>2, <2>1, MeaningCases
<1>5. s[a] = "(" /\ s[z] = ")"
  OBVIOUS
<1> HIDE DEF a, z
<1>6. a \in i..j /\ z \in i..j /\ a < z
  <2>1. a # z
    BY <1>5
  <2>2. a \in i..j /\ z \in i..j /\ a <= z
    BY <1>3
  <2>3. QED
    BY <1>1, <2>1, <2>2
<1>7. /\ a \in 1..Len(s) /\ z \in 1..Len(s) /\ a \in i..(Len(s) + 1) /\ a \in Int /\ z \in Int
      /\ z + 1 \in 1..(Len(s) + 1) /\ j + 1 \in (z + 1)..(Len(s) + 1) /\ j + 1 - 1 = j
      /\ a + 1 \in 1..(Len(s) + 1) /\ z - 1 \in 0..Len(s) /\ z - 1 + 1 - (a + 1) <= d /\ z - 1 + 1 = z
  <2>1. /\ a \in Int /\ z \in Int /\ i <= a /\ a < z /\ z <= j /\ 1 <= i /\ j <= Len(s)
    BY <1>1, <1>6
  <2>2. j + 1 - i <= d + 1 /\ d \in Int
    OBVIOUS
  <2>3. z - 1 + 1 - (a + 1) <= d
    BY <1>1, <2>1, <2>2
  <2>4. /\ a \in 1..Len(s) /\ z \in 1..Len(s) /\ a \in i..(Len(s) + 1) /\ a \in Int /\ z \in Int
        /\ z + 1 \in 1..(Len(s) + 1) /\ j + 1 \in (z + 1)..(Len(s) + 1)
    BY <1>1, <2>1
  <2>5. j + 1 - 1 = j /\ z - 1 + 1 = z
    BY <1>1, <2>1
  <2>6. a + 1 \in 1..(Len(s) + 1) /\ z - 1 \in 0..Len(s)
    BY <1>1, <2>1
  <2>7. QED
    BY <2>3, <2>4, <2>5, <2>6
<1>8. Calc!Peek(s, a) = s[a] /\ Calc!SkipSpaces(s, i) = a
  <2>1. Calc!Peek(s, a) = s[a]
    BY <1>7, TextFacts
  <2>2. QED
    BY <1>3, <1>7, <2>1, SkipOnce
<1>9. Follow(s, z - 1) \notin Calc!Numerals /\ Beyond(s, z - 1) \notin Calc!Operators
      /\ Calc!Peek(s, z) = ")" /\ Calc!SkipSpaces(s, z) = z
  <2>1. Follow(s, z - 1) = ")" /\ Beyond(s, z - 1) = ")" /\ Calc!Peek(s, z) = ")" /\ Calc!SkipSpaces(s, z) = z
    BY <1>3, <1>5, <1>7, AtOperator
  <2>2. ")" \notin Calc!Numerals /\ ")" \notin Calc!Operators
    BY DigitIs DEF Calc!Operators
  <2>3. QED
    BY <2>1, <2>2
<1>10. Reads(s, M, a + 1, z - 1, q)
  <2>1. M[a + 1][z - 1].ok /\ a + 1 \in Offsets(s)
    BY <1>4, <1>7 DEF Offsets
  <2>2. QED
    BY <1>7, <1>9, <2>1, ExpressionReads
<1> HIDE DEF q
<1>11. q.ok /\ q.value = M[a + 1][z - 1].value /\ Calc!SkipSpaces(s, q.at) = z
  BY <1>7, <1>9, <1>10 DEF Reads
<1>12. FactorAt(s, i, inner) = Calc!Read(q.value, z + 1)
  <2>1. FactorAt(s, i, inner) = Calc!Closed(s, q)
    BY <1>5, <1>8 DEF FactorAt, q
  <2>2. QED
    BY <1>9, <1>11, <2>1 DEF Calc!Closed
<1>13. Calc!SkipSpaces(s, z + 1) = Calc!SkipSpaces(s, j + 1)
  <2> DEFINE b == z + 1
             c == j + 1
  <2>1. b \in Offsets(s) /\ c \in b..(Len(s) + 1)
    BY <1>7 DEF Offsets
  <2>2. Blank(s, b, c - 1)
    <3>1. Blank(s, b, j)
      BY <1>3
    <3>2. c - 1 = j
      BY <1>1, UpAndDown
    <3> HIDE DEF b, c
    <3>3. QED
      BY <3>1, <3>2
  <2> HIDE DEF b, c
  <2>3. Calc!SkipSpaces(s, b) = Calc!SkipSpaces(s, c)
    BY <2>1, <2>2, SkipFurther
  <2>4. QED
    BY <2>3 DEF b, c
<1>14. QED
  BY <1>4, <1>5, <1>8, <1>11, <1>12, <1>13 DEF Reads, Calc!Read

(* So it reads every operand, at the depth its size allows for.            *)
LEMMA FactorsRead ==
  ASSUME NEW s \in Texts, NEW M, Means(s, M), NEW w, Within(s, w)
  PROVE  \A d \in 0..Len(s) : FactorReads(s, M, d, w[d])
<1> DEFINE T == {d \in Nat : d <= Len(s) => FactorReads(s, M, d, w[d])}
<1>1. Len(s) \in Nat
  BY TextFacts
<1>2. /\ w \in [0..Len(s) -> Readings(s)]
      /\ \A d \in 0..Len(s), from \in Offsets(s) :
           w[d][from] = IF Calc!Peek(s, Calc!SkipSpaces(s, from)) # "("
                        THEN Calc!Literal(s, Calc!SkipSpaces(s, from))
                        ELSE IF d = 0 THEN Calc!NotRead
                        ELSE Calc!Closed(s, Calc!Expression(s, Calc!SkipSpaces(s, from) + 1, w[d - 1]))
  BY DEF Within
<1>3. 0 \in T
  <2>1. SUFFICES ASSUME NEW i \in Offsets(s), NEW j \in 0..Len(s), j + 1 - i <= 0, M[i][j].ok
                 PROVE  FALSE
    BY DEF FactorReads
  <2>2. i <= j
    BY <2>1, MeansSomething
  <2>3. i \in Int /\ j \in Int
    BY <1>1 DEF Offsets
  <2>4. QED
    BY <2>1, <2>2, <2>3
<1>4. ASSUME NEW d \in Nat, d \in T PROVE d + 1 \in T
  <2>1. SUFFICES ASSUME d + 1 <= Len(s), NEW i \in Offsets(s), NEW j \in 0..Len(s), j + 1 - i <= d + 1,
                        M[i][j].ok, Calc!Splits(s, i, j, Calc!Operators) = {},
                        Follow(s, j) \notin Calc!Numerals
                 PROVE  Reads(s, M, i, j, w[d + 1][i])
    BY DEF FactorReads
  <2>2. d + 1 \in 0..Len(s) /\ d + 1 # 0 /\ d + 1 - 1 = d /\ d \in 0..Len(s) /\ d <= Len(s)
    BY <1>1, <2>1
  <2>3. FactorReads(s, M, d, w[d]) /\ w[d] \in Readings(s)
    BY <1>2, <1>4, <2>2
  <2>4. Lowest(s, i, j) = {}
    <3>1. Low \subseteq Calc!Operators /\ High \subseteq Calc!Operators
      BY DEF Low, High, Calc!Operators
    <3>2. i \in Int /\ j \in Int
      BY <1>1 DEF Offsets
    <3>3. QED
      BY <2>1, <3>1, <3>2, SplitsOfKind DEF Lowest
  <2>5. CASE s[First(s, i, j)] = "(" /\ s[Last(s, i, j)] = ")"
    <3>1. Calc!Peek(s, Calc!SkipSpaces(s, i)) = "(" /\ Reads(s, M, i, j, FactorAt(s, i, w[d]))
      BY <2>1, <2>3, <2>4, <2>5, ClosedReads
    <3>2. w[d + 1][i] = FactorAt(s, i, w[d])
      BY <1>2, <2>2, <3>1 DEF FactorAt
    <3>3. QED
      BY <3>1, <3>2
  <2>6. CASE ~(s[First(s, i, j)] = "(" /\ s[Last(s, i, j)] = ")")
    <3>1. /\ Calc!Peek(s, Calc!SkipSpaces(s, i)) # "("
          /\ Reads(s, M, i, j, Calc!Literal(s, Calc!SkipSpaces(s, i)))
      BY <2>1, <2>4, <2>6, NumberReads
    <3>2. w[d + 1][i] = Calc!Literal(s, Calc!SkipSpaces(s, i))
      BY <1>2, <2>2, <3>1
    <3>3. QED
      BY <3>1, <3>2
  <2>7. QED
    BY <2>5, <2>6
<1>5. Nat \subseteq T
  <2> HIDE DEF T
  <2> QED  BY <1>3, <1>4, NatAll
<1>6. QED
  BY <1>1, <1>5

-----------------------------------------------------------------------------
(* So both agree on every text.                                            *)
LEMMA Agreed ==
  ASSUME NEW s \in Texts
  PROVE  /\ Calc!Evaluate(s).ok <=> Calc!LooksLikeMath(s) /\ Calc!Meaning(s).ok
                               /\ Calc!Meaning(s).value \in Finite
         /\ Calc!Evaluate(s).ok => Calc!Evaluate(s).value = Calc!Meaning(s).value
<1> DEFINE L == Len(s)
<1>1. PICK M : Means(s, M) /\ Calc!Meaning(s) = M[1][L]
  BY MeaningIs
<1>2. PICK w : Within(s, w)
  BY FactorsExist
<1> DEFINE factor == Calc!Factors(s)
           q == Calc!Expression(s, 1, factor)
<1>3. L \in Nat /\ L \in 0..L /\ 1 \in 1..(L + 1) /\ L + 1 \in 1..(L + 1)
  BY TextFacts
<1>4. factor = w[L] /\ factor \in Readings(s)
  BY <1>2, <1>3 DEF Within
<1>5. /\ \A x \in Offsets(s) : PartSound(s, M, x, factor[x], Calc!Operators)
      /\ FactorReads(s, M, L, factor)
  BY <1>1, <1>2, <1>3, <1>4, FactorsSound, FactorsRead
<1> HIDE DEF factor
<1>6. 1 \in Offsets(s) /\ L + 1 \in Offsets(s)
  BY <1>3 DEF Offsets
<1>7. PartSound(s, M, 1, q, {}) /\ q \in Results(s)
  BY <1>1, <1>4, <1>5, <1>6, ExpressionSound, ExpressionType
<1>8. Calc!Peek(s, L + 1) = "end" /\ Calc!SkipSpaces(s, L + 1) = L + 1
  <2>1. Calc!Peek(s, L + 1) = "end"
    BY TextFacts
  <2>2. Blank(s, L + 1, L + 1 - 1) /\ L + 1 \in (L + 1)..(L + 1)
    BY <1>3 DEF Blank
  <2>3. Calc!Peek(s, L + 1) # Space
    BY <2>1, SpaceIs
  <2>4. QED
    BY <1>6, <2>1, <2>2, <2>3, SkipOnce
<1>9. ASSUME M[1][L].ok
      PROVE  q.ok /\ Calc!SkipSpaces(s, q.at) = L + 1 /\ q.value = M[1][L].value
  <2>1. "end" \notin Calc!Numerals /\ "end" \notin Calc!Operators
    BY DigitIs DEF Calc!Operators
  <2>2. L + 1 - 1 <= L
    BY <1>3
  <2>3. Follow(s, L) \notin Calc!Numerals /\ Beyond(s, L) \notin Calc!Operators
    BY <1>8, <2>1 DEF Follow, Beyond
  <2>4. Reads(s, M, 1, L, q)
    BY <1>1, <1>3, <1>4, <1>5, <1>6, <1>9, <2>2, <2>3, ExpressionReads
  <2>5. QED
    BY <1>8, <2>4 DEF Reads
<1>10. ASSUME q.ok, Calc!SkipSpaces(s, q.at) = L + 1
       PROVE  M[1][L] = Calc!Read(q.value, 0)
  <2>1. Sound(s, M, 1, q.at, q.value) /\ q.at \in Offsets(s)
    BY <1>7, <1>10, ResultIs DEF PartSound
  <2>2. q.at \in 2..(L + 1) /\ M[1][q.at - 1] = Calc!Read(q.value, 0)
    BY <2>1 DEF Sound
  <2>3. Blank(s, q.at, L + 1 - 1)
    BY <1>10, <2>1, SkipIs
  <2>4. /\ q.at - 1 \in 0..L /\ q.at - 1 <= L /\ q.at - 1 + 1 = q.at /\ L + 1 - 1 = L
    <3>1. q.at \in 2..(L + 1)
      BY <2>2
    <3>2. QED
      BY <1>3, <3>1
  <2>5. M[1][q.at - 1] = M[1][L]
    <3>1. Blank(s, q.at - 1 + 1, L)
      BY <2>3, <2>4
    <3>2. QED
      BY <1>1, <1>3, <1>6, <2>4, <3>1, TrailingSpaces
  <2>6. QED
    BY <2>2, <2>5
<1>11. Calc!Evaluate(s) = IF /\ Calc!LooksLikeMath(s) /\ q.ok /\ Calc!SkipSpaces(s, q.at) = L + 1
                              /\ q.value \in Finite
                          THEN q ELSE Calc!NotRead
  BY DEF Calc!Evaluate, factor
<1> HIDE DEF q
<1>12. Calc!Meaning(s).ok <=> q.ok /\ Calc!SkipSpaces(s, q.at) = L + 1
  BY <1>1, <1>9, <1>10 DEF Calc!Read
<1>13. q.ok /\ Calc!SkipSpaces(s, q.at) = L + 1 => q.value = Calc!Meaning(s).value
  BY <1>1, <1>10 DEF Calc!Read
<1>14. ~Calc!NotRead.ok
  BY DEF Calc!NotRead
<1>15. QED
  BY <1>11, <1>12, <1>13, <1>14

(* The calculator answers every text with the value it has by the rules of *)
(* arithmetic, each operation rounded, or not at all (CalculatorProvider), *)
(* whatever the characters that are typed and however many, and however    *)
(* the operations round.                                                   *)
THEOREM CalculatorKeepsRules == Calc!Spec => []ArithmeticKeepsRules
<1> DEFINE Inv == alphabet \in Alphabets /\ query \in Seq(alphabet.characters)
<1>1. Calc!Init => Inv
  BY DEF Calc!Init
<1>2. Inv /\ [Calc!Type]_Calc!vars => Inv'
  <2>1. SUFFICES ASSUME Inv, [Calc!Type]_Calc!vars PROVE Inv'
    OBVIOUS
  <2>2. CASE UNCHANGED Calc!vars
    BY <2>1, <2>2 DEF Calc!vars
  <2>3. CASE Calc!Type
    <3>1. PICK c \in alphabet.characters : query' = Append(query, c)
      BY <2>3 DEF Calc!Type
    <3>2. Append(query, c) \in Seq(alphabet.characters)
      BY <2>1
    <3>3. QED
      BY <2>1, <2>3, <3>1, <3>2 DEF Calc!Type
  <2>4. QED
    BY <2>1, <2>2, <2>3
<1>3. Inv => ArithmeticKeepsRules
  <2>1. SUFFICES ASSUME Inv PROVE ArithmeticKeepsRules
    OBVIOUS
  <2>2. query \in Texts
    <3>1. alphabet.characters \subseteq UNION {a.characters : a \in Alphabets}
      BY <2>1
    <3>2. query \in Seq(alphabet.characters)
      BY <2>1
    <3>3. QED
      BY <3>1, <3>2 DEF Texts
  <2>3. /\ Calc!Evaluate(query).ok <=> Calc!LooksLikeMath(query) /\ Calc!Meaning(query).ok
                                   /\ Calc!Meaning(query).value \in Finite
        /\ Calc!Evaluate(query).ok => Calc!Evaluate(query).value = Calc!Meaning(query).value
    BY <2>2, Agreed
  <2>4. QED
    BY <2>3 DEF ArithmeticKeepsRules, Calc!ArithmeticKeepsRules
<1>4. QED
  BY <1>1, <1>2, <1>3, PTL DEF Calc!Spec
=============================================================================
