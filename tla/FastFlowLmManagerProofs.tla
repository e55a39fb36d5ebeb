---------------------- MODULE FastFlowLmManagerProofs ----------------------
(***************************************************************************)
(* What is proved of FastFlowLmManager, for every set of callers and       *)
(* processes and every timeout, and of FastFlowLmAsk (the instance         *)
(* Question), for every index, every limit and files of any length.        *)
(***************************************************************************)
EXTENDS FastFlowLmManager, FastFlowLmQuestion, TLAPS, SequenceTheorems, WellFoundedInduction

(* startup_lock has at most one holder, the caller inside ensure_server,   *)
(* and there is no child between the stop of the stale one and the store   *)
(* of the new one.                                                         *)
StartupInv ==
  /\ \A c, d \in starter : c = d
  /\ \A c \in Callers : pc[c] \in Starting <=> c \in starter
  /\ \A c \in Callers : pc[c] \in {"spawn", "store"} => child = NoProc
  /\ \A c \in Callers : pc[c] = "store" => spawned[c] # NoProc

Inv == TypeOK /\ StartupInv /\ NoOrphan /\ ChildIsWatched /\ OneReaper

LEMMA InvInit == Init => Inv
<1> SUFFICES ASSUME Init PROVE Inv
  OBVIOUS
<1>1. IdleTimeout \in Nat
  BY ManagerAssumption
<1>2. /\ live \subseteq Procs /\ ready \subseteq live /\ foreign \in BOOLEAN
      /\ child \in Procs \cup {NoProc} /\ reaperRunning \in BOOLEAN
      /\ reapers \subseteq Reapers /\ starter \subseteq Callers
  BY DEF Init
<1>3. idle \in 0..IdleTimeout
  BY <1>1 DEF Init
<1>4. pc \in [Callers -> PC] /\ spawned \in [Callers -> Procs \cup {NoProc}]
  BY DEF Init, PC
<1>5. chatTime \in [Callers -> 0..IdleTimeout]
  BY <1>1 DEF Init
<1>6. StartupInv /\ NoOrphan /\ ChildIsWatched /\ OneReaper
  BY DEF Init, StartupInv, NoOrphan, ChildIsWatched, OneReaper, Starting
<1>7. QED
  BY <1>2, <1>3, <1>4, <1>5, <1>6 DEF Inv, TypeOK

LEMMA InvStep == Inv /\ [Next]_vars => Inv'
<1> SUFFICES ASSUME Inv, [Next]_vars PROVE Inv'
  OBVIOUS
<1>a. /\ TypeOK /\ StartupInv /\ NoOrphan /\ ChildIsWatched /\ OneReaper
      /\ pc \in [Callers -> PC] /\ spawned \in [Callers -> Procs \cup {NoProc}]
      /\ chatTime \in [Callers -> 0..IdleTimeout] /\ NoProc \notin Procs
      /\ IdleTimeout \in Nat \ {0}
  BY ManagerAssumption DEF Inv, TypeOK
<1> USE DEF TypeOK, Goto, procVars, stateVars, callerVars
<1>1. ASSUME NEW c \in Callers, Ask(c) PROVE Inv'
  <2>1. TypeOK'
    BY <1>a, <1>1 DEF Ask, PC
  <2>2. StartupInv' /\ NoOrphan' /\ ChildIsWatched' /\ OneReaper'
    BY <1>a, <1>1 DEF Ask, StartupInv, NoOrphan, ChildIsWatched, OneReaper, Starting
  <2>3. QED
    BY <2>1, <2>2 DEF Inv
<1>2. ASSUME NEW c \in Callers, LockStartup(c) PROVE Inv'
  <2>1. TypeOK'
    BY <1>a, <1>2 DEF LockStartup, PC
  <2>2. StartupInv' /\ NoOrphan' /\ ChildIsWatched' /\ OneReaper'
    BY <1>a, <1>2 DEF LockStartup, StartupInv, NoOrphan, ChildIsWatched, OneReaper, Starting
  <2>3. QED
    BY <2>1, <2>2 DEF Inv
<1>3. ASSUME NEW c \in Callers, CheckHealth(c) PROVE Inv'
  <2>1. TypeOK'
    BY <1>a, <1>3 DEF CheckHealth, PC
  <2>2. StartupInv' /\ NoOrphan' /\ ChildIsWatched' /\ OneReaper'
    BY <1>a, <1>3 DEF CheckHealth, StartupInv, NoOrphan, ChildIsWatched, OneReaper, Starting
  <2>3. QED
    BY <2>1, <2>2 DEF Inv
<1>4. ASSUME NEW c \in Callers, StopStale(c) PROVE Inv'
  <2>1. TypeOK'
    BY <1>a, <1>4 DEF StopStale, StopChild, PC
  <2>2. StartupInv' /\ NoOrphan' /\ ChildIsWatched' /\ OneReaper'
    BY <1>a, <1>4 DEF StopStale, StopChild, StartupInv, NoOrphan, ChildIsWatched, OneReaper,
                      Starting
  <2>3. QED
    BY <2>1, <2>2 DEF Inv
<1>5. ASSUME NEW c \in Callers, Spawn(c) PROVE Inv'
  <2>1. TypeOK'
    BY <1>a, <1>5 DEF Spawn, PC
  <2>2. StartupInv' /\ NoOrphan' /\ ChildIsWatched' /\ OneReaper'
    BY <1>a, <1>5 DEF Spawn, StartupInv, NoOrphan, ChildIsWatched, OneReaper, Starting
  <2>3. QED
    BY <2>1, <2>2 DEF Inv
<1>6. ASSUME NEW c \in Callers, SpawnFails(c) PROVE Inv'
  <2>1. TypeOK'
    BY <1>a, <1>6 DEF SpawnFails, PC
  <2>2. StartupInv' /\ NoOrphan' /\ ChildIsWatched' /\ OneReaper'
    BY <1>a, <1>6 DEF SpawnFails, StartupInv, NoOrphan, ChildIsWatched, OneReaper, Starting
  <2>3. QED
    BY <2>1, <2>2 DEF Inv
<1>7. ASSUME NEW c \in Callers, StoreChild(c) PROVE Inv'
  <2>1. TypeOK'
    BY <1>a, <1>7 DEF StoreChild, PC
  <2>2. StartupInv' /\ NoOrphan' /\ ChildIsWatched' /\ OneReaper'
    BY <1>a, <1>7 DEF StoreChild, StartupInv, NoOrphan, ChildIsWatched, OneReaper, Starting
  <2>3. QED
    BY <2>1, <2>2 DEF Inv
<1>8. ASSUME NEW c \in Callers, StartIdleReaper(c) PROVE Inv'
  <2>1. TypeOK'
    BY <1>a, <1>8 DEF StartIdleReaper, PC
  <2>2. StartupInv' /\ NoOrphan' /\ ChildIsWatched' /\ OneReaper'
    BY <1>a, <1>8 DEF StartIdleReaper, StartupInv, NoOrphan, ChildIsWatched, OneReaper,
                      Starting
  <2>3. QED
    BY <2>1, <2>2 DEF Inv
<1>9. ASSUME NEW c \in Callers, PollAnswered(c) \/ PollTimesOut(c) PROVE Inv'
  <2>1. TypeOK'
    BY <1>a, <1>9 DEF PollAnswered, PollTimesOut, PC
  <2>2. StartupInv' /\ NoOrphan' /\ ChildIsWatched' /\ OneReaper'
    BY <1>a, <1>9 DEF PollAnswered, PollTimesOut, StartupInv, NoOrphan, ChildIsWatched,
                      OneReaper, Starting
  <2>3. QED
    BY <2>1, <2>2 DEF Inv
<1>10. ASSUME NEW c \in Callers, GiveUp(c) PROVE Inv'
  <2>1. TypeOK'
    BY <1>a, <1>10 DEF GiveUp, StopChild, PC
  <2>2. StartupInv' /\ NoOrphan' /\ ChildIsWatched' /\ OneReaper'
    BY <1>a, <1>10 DEF GiveUp, StopChild, StartupInv, NoOrphan, ChildIsWatched, OneReaper,
                       Starting
  <2>3. QED
    BY <2>1, <2>2 DEF Inv
<1>11. ASSUME NEW c \in Callers, TouchUsed(c) \/ Chat(c) PROVE Inv'
  <2>1. TypeOK'
    BY <1>a, <1>11 DEF TouchUsed, Chat, PC
  <2>2. StartupInv' /\ NoOrphan' /\ ChildIsWatched' /\ OneReaper'
    BY <1>a, <1>11 DEF TouchUsed, Chat, StartupInv, NoOrphan, ChildIsWatched, OneReaper,
                       Starting
  <2>3. QED
    BY <2>1, <2>2 DEF Inv
<1>12. ASSUME NEW r \in Reapers, Reap(r) PROVE Inv'
  <2>1. TypeOK'
    BY <1>a, <1>12 DEF Reap, StopChild
  <2>2. StartupInv' /\ NoOrphan' /\ ChildIsWatched' /\ OneReaper'
    BY <1>a, <1>12 DEF Reap, StopChild, StartupInv, NoOrphan, ChildIsWatched, OneReaper,
                       Starting
  <2>3. QED
    BY <2>1, <2>2 DEF Inv
<1>13. ASSUME NEW p \in Procs, BecomeReady(p) \/ Crash(p) PROVE Inv'
  <2>1. TypeOK'
    BY <1>a, <1>13 DEF BecomeReady, Crash
  <2>2. StartupInv' /\ NoOrphan' /\ ChildIsWatched' /\ OneReaper'
    BY <1>a, <1>13 DEF BecomeReady, Crash, StartupInv, NoOrphan, ChildIsWatched, OneReaper
  <2>3. QED
    BY <2>1, <2>2 DEF Inv
<1>14. CASE ForeignServer \/ Tick
  <2>1. CASE ForeignServer
    BY <1>a, <2>1 DEF ForeignServer, Inv, StartupInv, NoOrphan, ChildIsWatched, OneReaper
  <2>2. CASE Tick
    <3>1. idle' \in 0..IdleTimeout
      BY <1>a, <2>2 DEF Tick, Later
    <3>2. chatTime' \in [Callers -> 0..IdleTimeout]
      BY <1>a, <2>2 DEF Tick, Later, Chatting
    <3>3. TypeOK'
      BY <1>a, <2>2, <3>1, <3>2 DEF Tick
    <3>4. StartupInv' /\ NoOrphan' /\ ChildIsWatched' /\ OneReaper'
      BY <1>a, <2>2 DEF Tick, StartupInv, NoOrphan, ChildIsWatched, OneReaper
    <3>5. QED
      BY <3>3, <3>4 DEF Inv
  <2>3. QED
    BY <1>14, <2>1, <2>2
<1>15. CASE UNCHANGED vars
  BY <1>a, <1>15 DEF vars, Inv, StartupInv, NoOrphan, ChildIsWatched, OneReaper
<1>16. QED
  BY <1>1, <1>2, <1>3, <1>4, <1>5, <1>6, <1>7, <1>8, <1>9, <1>10, <1>11, <1>12, <1>13, <1>14,
     <1>15 DEF Next, Continue, EnsureServer

(* The invariant, from which the results below follow.                     *)
LEMMA Invariance == Spec => []Inv
  BY InvInit, InvStep, PTL DEF Spec

(* Types.                                                                  *)
THEOREM Typing == Spec => []TypeOK
<1>1. Inv => TypeOK
  BY DEF Inv
<1>2. QED
  BY <1>1, Invariance, PTL

(* However many callers race, however often a server crashes or a start    *)
(* times out: no server process started here is ever left without owner.   *)
THEOREM NoServerIsOrphaned == Spec => []NoOrphan
<1>1. Inv => NoOrphan
  BY DEF Inv
<1>2. QED
  BY <1>1, Invariance, PTL

(* An owned server is always watched, and by one reaper only.              *)
THEOREM ServerIsWatchedOnce == Spec => []WatchedOnce
<1>1. Inv => WatchedOnce
  BY DEF Inv, WatchedOnce
<1>2. QED
  BY <1>1, Invariance, PTL

(* So no server process of the manager escapes its idle timeout.           *)
THEOREM EveryServerIsKept == Spec => []ServerIsKept
<1>1. NoOrphan /\ WatchedOnce => ServerIsKept
  BY DEF ServerIsKept
<1>2. QED
  BY <1>1, NoServerIsOrphaned, ServerIsWatchedOnce, PTL

-----------------------------------------------------------------------------
(* The clock of the last use never runs ahead of a request.                *)
ChatInv == \A c \in Chatting : idle <= chatTime[c]

LEMMA ChatStep ==
  ASSUME Inv, ChatInv, [Next]_vars
  PROVE  ChatInv'
<1>a. /\ IdleTimeout \in Nat
      /\ pc \in [Callers -> PC] /\ idle \in 0..IdleTimeout
      /\ chatTime \in [Callers -> 0..IdleTimeout]
  BY ManagerAssumption DEF Inv, TypeOK
<1>1. ASSUME NEW c \in Callers, TouchUsed(c)
      PROVE  ChatInv'
  BY <1>a, <1>1 DEF TouchUsed, Goto, ChatInv, Chatting
<1>2. ASSUME NEW c \in Callers, StoreChild(c)
      PROVE  ChatInv'
  BY <1>a, <1>2 DEF StoreChild, Goto, ChatInv, Chatting
<1>3. CASE Tick
  BY <1>a, <1>3 DEF Tick, Later, ChatInv, Chatting
(* No other step brings a caller to "chat" or touches the two clocks.      *)
<1>4. ASSUME NEW c \in Callers,
             \/ Ask(c) \/ LockStartup(c) \/ CheckHealth(c) \/ StopStale(c) \/ Spawn(c)
             \/ SpawnFails(c) \/ StartIdleReaper(c) \/ PollAnswered(c) \/ PollTimesOut(c)
             \/ GiveUp(c) \/ Chat(c)
      PROVE  ChatInv'
  <2>1. UNCHANGED <<idle, chatTime>>
    BY <1>4 DEF Ask, LockStartup, CheckHealth, StopStale, Spawn, SpawnFails, StartIdleReaper,
       PollAnswered, PollTimesOut, GiveUp, Chat, stateVars, callerVars
  <2>2. \A d \in Callers : pc'[d] = "chat" => pc[d] = "chat"
    BY <1>a, <1>4 DEF Ask, LockStartup, CheckHealth, StopStale, Spawn, SpawnFails,
       StartIdleReaper, PollAnswered, PollTimesOut, GiveUp, Chat, Goto
  <2>3. QED
    BY <2>1, <2>2 DEF ChatInv, Chatting
<1>5. ASSUME NEW r \in Reapers, Reap(r)
      PROVE  ChatInv'
  BY <1>5 DEF Reap, callerVars, ChatInv, Chatting
<1>6. ASSUME NEW p \in Procs, BecomeReady(p) \/ Crash(p)
      PROVE  ChatInv'
  BY <1>6 DEF BecomeReady, Crash, stateVars, callerVars, ChatInv, Chatting
<1>7. CASE ForeignServer \/ UNCHANGED vars
  BY <1>7 DEF ForeignServer, vars, stateVars, callerVars, ChatInv, Chatting
<1>8. QED
  BY <1>1, <1>2, <1>3, <1>4, <1>5, <1>6, <1>7 DEF Next, Continue, EnsureServer

(* Whoever else asks, crashes or starts a server: the reaper stops the     *)
(* server under a chat request only if that request has already taken as   *)
(* long as the idle timeout (lib.rs touch_used).                           *)
THEOREM RequestsKeepTheServer == Spec => ServerOutlivesRequest
<1>1. Init => ChatInv
  BY DEF Init, ChatInv, Chatting
<1>2. Inv /\ ChatInv /\ [Next]_vars
        => [child # NoProc /\ child' = NoProc /\ reapers' # reapers
              => \A c \in Chatting : chatTime[c] >= IdleTimeout]_vars
  <2> SUFFICES ASSUME Inv, ChatInv, Next, child # NoProc, child' = NoProc, reapers' # reapers,
                      NEW c \in Chatting
               PROVE  chatTime[c] >= IdleTimeout
    OBVIOUS
  <2>1. PICK r \in Reapers : Reap(r)
    BY DEF Next, Continue, EnsureServer, Ask, LockStartup, CheckHealth, StopStale, Spawn,
       SpawnFails, StoreChild, StartIdleReaper, PollAnswered, PollTimesOut, GiveUp, TouchUsed,
       Chat, BecomeReady, Crash, ForeignServer, Tick, stateVars
  <2>2. idle >= IdleTimeout
    BY <2>1 DEF Reap
  <2>3. idle <= chatTime[c] /\ chatTime[c] \in 0..IdleTimeout /\ idle \in 0..IdleTimeout
    BY DEF ChatInv, Chatting, Inv, TypeOK
  <2>4. QED
    BY <2>2, <2>3, ManagerAssumption
<1>3. QED
  BY <1>1, <1>2, ChatStep, Invariance, PTL DEF Spec, ServerOutlivesRequest

-----------------------------------------------------------------------------
(***************************************************************************)
(* What comes before the server is asked.  The manager and the first part  *)
(* of a question do not interact; what follows is proved of FastFlowLmAsk  *)
(* alone, whose pc and child are called step and process here.             *)
(***************************************************************************)

(* A set of numbers that is not empty has a least one.                     *)
LEMMA NatLeast ==
  ASSUME NEW T, T \subseteq Nat, T # {}
  PROVE  \E x \in T : \A y \in T : x <= y
<1>1. PICK Less : /\ \A x, y \in Nat : <<y, x>> \in Less <=> y < x
                  /\ IsWellFoundedOn(Less, Nat)
  <2>1. \A x, y \in Nat : <<y, x>> \in OpToRel(<, Nat) <=> y < x
    BY DEF OpToRel
  <2>2. QED
    BY <2>1, NatLessThanWellFounded, Zenon
<1>2. PICK x \in T : \A y \in T : ~ (<<y, x>> \in Less)
  BY <1>1, WFMin
<1>3. ASSUME NEW y \in T PROVE x <= y
  <2>1. x \in Nat /\ y \in Nat
    OBVIOUS
  <2>2. ~(y < x)
    BY <1>1, <1>2, <2>1
  <2>3. QED
    BY <2>1, <2>2
<1>4. QED
  BY <1>3

(* So what holds of 0 and goes from each number to the next holds of all.  *)
LEMMA NatAll ==
  ASSUME NEW T, 0 \in T, \A k \in Nat : k \in T => k + 1 \in T
  PROVE  Nat \subseteq T
<1>1. SUFFICES ASSUME Nat \ T # {} PROVE FALSE
  OBVIOUS
<1>2. PICK k \in Nat \ T : \A m \in Nat \ T : k <= m
  BY <1>1, NatLeast
<1>3. k - 1 \in Nat /\ k - 1 \in T
  BY <1>2
<1>4. k - 1 + 1 \in T
  BY <1>3
<1>5. QED
  BY <1>2, <1>4


(* What goes from each number to the next by a rule has a value at each.   *)
Rules(N, V) == [1..N -> [V -> V]]
Followed(N, V, v, rule) ==
  \E g \in [0..N -> V] : g[0] = v /\ \A n \in 1..N : g[n] = rule[n][g[n - 1]]

LEMMA Recursion ==
  ASSUME NEW N \in Nat, NEW V, NEW v \in V, NEW rule \in Rules(N, V)
  PROVE  Followed(N, V, v, rule)
<1> DEFINE Goes(g, k) == g[0] = v /\ \A n \in 1..k : g[n] = rule[n][g[n - 1]]
           T == {k \in Nat : k <= N => \E g \in [0..k -> V] : Goes(g, k)}
<1> USE DEF Rules
<1>1. 0 \in T
  <2>1. [n \in 0..0 |-> v] \in [0..0 -> V] /\ Goes([n \in 0..0 |-> v], 0)
    OBVIOUS
  <2>2. QED
    <3> HIDE DEF Goes
    <3> QED  BY <2>1
<1>2. ASSUME NEW k \in Nat, k \in T PROVE k + 1 \in T
  <2>1. SUFFICES ASSUME k + 1 <= N PROVE \E h \in [0..k + 1 -> V] : Goes(h, k + 1)
    OBVIOUS
  <2>2. PICK g \in [0..k -> V] : Goes(g, k)
    BY <1>2, <2>1
  <2> DEFINE h == [n \in 0..k + 1 |-> IF n = k + 1 THEN rule[k + 1][g[k]] ELSE g[n]]
  <2>3. h \in [0..k + 1 -> V]
    <3>1. k + 1 \in 1..N /\ k \in 0..k
      BY <2>1
    <3>2. rule[k + 1] \in [V -> V] /\ g[k] \in V
      BY <3>1
    <3>3. rule[k + 1][g[k]] \in V
      BY <3>2
    <3>4. ASSUME NEW n \in 0..k + 1 PROVE n = k + 1 \/ n \in 0..k
      OBVIOUS
    <3>5. QED
      BY <3>3, <3>4
  <2>4. h[0] = v
    BY <2>2
  <2>5. ASSUME NEW n \in 1..k + 1 PROVE h[n] = rule[n][h[n - 1]]
    <3>1. CASE n = k + 1
      BY <3>1
    <3>2. CASE n # k + 1
      <4>1. n \in 1..k /\ n - 1 \in 0..k + 1 /\ n - 1 # k + 1 /\ n \in 0..k + 1
        BY <3>2
      <4>2. g[n] = rule[n][g[n - 1]]
        BY <2>2, <4>1
      <4>3. h[n] = g[n] /\ h[n - 1] = g[n - 1]
        BY <3>2, <4>1
      <4>4. QED
        BY <4>2, <4>3
    <3>3. QED
      BY <3>1, <3>2
  <2>6. Goes(h, k + 1)
    BY <2>4, <2>5
  <2>7. QED
    <3> HIDE DEF h, Goes
    <3> QED  BY <2>3, <2>6
<1>3. N \in T
  <2> HIDE DEF T
  <2> QED  BY <1>1, <1>2, NatAll
<1>4. QED
  BY <1>3 DEF Followed

-----------------------------------------------------------------------------
(* What Gather returns: the results found and those added, each once.      *)
LEMMA GatherIs ==
  ASSUME NEW found \in Seq(Items), Question!IsInjective(found), NEW list \in Seq(Items),
      NEW limit \in Nat
  PROVE  Question!Gather(found, list, limit) \in Seq(Items)
      /\ Question!IsInjective(Question!Gather(found, list, limit))
<1> DEFINE N == Len(list)
           Up(s, item) == IF item \in Question!Range(s) \/ Len(s) >= limit THEN s
             ELSE Append(s, item)
           V == Seq(Items)
           Does(g) == g = [n \in 0..N |-> IF n = 0 THEN found ELSE Up(g[n - 1], list[n])]
           rule == [n \in 1..N |-> [s \in V |-> Up(s, list[n])]]
           more == CHOOSE g : Does(g)
<1>1. N \in Nat /\ \A n \in 1..N : list[n] \in Items
  OBVIOUS
<1>2. ASSUME NEW s \in V, NEW item \in Items PROVE Up(s, item) \in V
  OBVIOUS
<1>3. rule \in Rules(N, V)
  BY <1>1, <1>2 DEF Rules
<1>4. \E g : Does(g)
  <2> HIDE DEF rule, Up, V
  <2>1. found \in V
    BY DEF V
  <2>2. PICK g \in [0..N -> V] : g[0] = found /\ \A n \in 1..N : g[n] = rule[n][g[n - 1]]
    <3> HIDE DEF N
    <3>1. N \in Nat
      BY <1>1
    <3>2. Followed(N, V, found, rule)
      BY <1>3, <2>1, <3>1, Recursion
    <3>3. QED
      BY <3>2 DEF Followed
  <2>3. ASSUME NEW n \in 1..N PROVE g[n] = Up(g[n - 1], list[n])
    <3>1. n - 1 \in 0..N
      BY <1>1
    <3>2. g[n - 1] \in V
      BY <3>1
    <3>3. rule[n][g[n - 1]] = Up(g[n - 1], list[n])
      BY <3>2 DEF rule
    <3>4. QED
      BY <2>2, <3>3
  <2>4. ASSUME NEW n \in 0..N PROVE g[n] = IF n = 0 THEN found ELSE Up(g[n - 1], list[n])
    <3>1. CASE n = 0
      BY <2>2, <3>1
    <3>2. CASE n # 0
      <4>1. n \in 1..N
        BY <1>1, <3>2
      <4>2. QED
        BY <2>3, <3>2, <4>1
    <3>3. QED
      BY <3>1, <3>2
  <2>5. Does(g)
    BY <2>4
  <2>6. QED
    <3> HIDE DEF Does
    <3> QED  BY <2>5
<1>5. Does(more)
  <2> HIDE DEF Does
  <2> QED  BY <1>4
<1>6. Question!Gather(found, list, limit) = more[N]
  BY DEF Question!Gather
<1> HIDE DEF more
<1> DEFINE T == {k \in Nat : k <= N => more[k] \in V /\ Question!IsInjective(more[k])}
<1>7. 0 \in T
  BY <1>1, <1>5
<1>8. ASSUME NEW k \in Nat, k \in T PROVE k + 1 \in T
  <2>1. SUFFICES ASSUME k + 1 <= N PROVE more[k + 1] \in V /\ Question!IsInjective(more[k + 1])
    OBVIOUS
  <2>2. k + 1 \in 1..N /\ k + 1 \in 0..N /\ k + 1 # 0 /\ k + 1 - 1 = k
    BY <1>1, <2>1
  <2>3. more[k] \in V /\ Question!IsInjective(more[k])
    BY <1>1, <1>8, <2>1
  <2>4. more[k + 1] = Up(more[k], list[k + 1])
    <3> HIDE DEF Up, V
    <3> QED  BY <1>5, <2>2
  <2> DEFINE s == more[k]
             item == list[k + 1]
  <2> HIDE DEF s, item, N
  <2>5. s \in Seq(Items) /\ Question!IsInjective(s) /\ item \in Items
    BY <1>1, <2>2, <2>3 DEF s, item
  <2>6. CASE item \in Question!Range(s) \/ Len(s) >= limit
    BY <2>3, <2>4, <2>6 DEF s, item
  <2>7. CASE ~(item \in Question!Range(s) \/ Len(s) >= limit)
    <3>1. more[k + 1] = Append(s, item)
      BY <2>4, <2>7 DEF s, item
    <3>2. Append(s, item) \in Seq(Items)
      BY <2>5
    <3>3. ASSUME NEW m \in DOMAIN Append(s, item), NEW n \in DOMAIN Append(s, item),
                 Append(s, item)[m] = Append(s, item)[n]
          PROVE  m = n
      <4>1. /\ DOMAIN s = 1..Len(s) /\ Len(s) \in Nat
            /\ DOMAIN Append(s, item) = 1..Len(s) + 1
            /\ Append(s, item)[Len(s) + 1] = item
            /\ \A i \in 1..Len(s) : Append(s, item)[i] = s[i]
        BY <2>5
      <4>2. \A i \in 1..Len(s) : s[i] # item
        BY <2>7, <4>1 DEF Question!Range
      <4>3. \A i, j \in 1..Len(s) : s[i] = s[j] => i = j
        BY <2>5, <4>1 DEF Question!IsInjective
      <4>4. /\ m \in 1..Len(s) \/ m = Len(s) + 1
            /\ n \in 1..Len(s) \/ n = Len(s) + 1
        BY <4>1
      <4>5. QED
        BY <3>3, <4>1, <4>2, <4>3, <4>4
    <3>4. Question!IsInjective(Append(s, item))
      BY <3>3 DEF Question!IsInjective
    <3>5. QED
      BY <3>1, <3>2, <3>4
  <2>8. QED
    BY <2>6, <2>7
<1>9. N \in T
  <2> HIDE DEF T, N
  <2> QED  BY <1>1, <1>7, <1>8, NatAll
<1>10. QED
  BY <1>1, <1>6, <1>9

-----------------------------------------------------------------------------
(* The sum of the bytes takes the entries one by one.                      *)
Entry == [item : Items, content : [bytes : -1..MaxSize, whole : BOOLEAN]]
Sums(s) ==
  CHOOSE g : g = [n \in 0..Len(s) |->
                    IF n = 0 THEN 0 ELSE g[n - 1] + Question!ContentBytes(s[n].content)]

LEMMA SumsIs ==
  ASSUME Question!AskAssumption, NEW s \in Seq(Entry)
  PROVE  /\ Sums(s)[0] = 0
         /\ \A n \in 1..Len(s) : Sums(s)[n] = Sums(s)[n - 1] + Question!ContentBytes(s[n].content)
         /\ \A n \in 0..Len(s) : Sums(s)[n] \in Int
<1> DEFINE N == Len(s)
           add(n) == Question!ContentBytes(s[n].content)
           Does(g) == g = [n \in 0..N |-> IF n = 0 THEN 0 ELSE g[n - 1] + add(n)]
           rule == [n \in 1..N |-> [k \in Int |-> k + add(n)]]
           sum == CHOOSE g : Does(g)
<1>1. N \in Nat
  OBVIOUS
<1>2. ASSUME NEW n \in 1..N PROVE add(n) \in Int
  <2>1. s[n] \in Entry
    OBVIOUS
  <2>2. s[n].content.bytes \in Int
    BY <2>1 DEF Entry, Question!AskAssumption
  <2>3. QED
    BY <2>2 DEF Question!ContentBytes
<1> HIDE DEF add
<1>3. rule \in Rules(N, Int)
  BY <1>2 DEF Rules
<1>4. \E g : Does(g)
  <2> HIDE DEF N
  <2>1. Followed(N, Int, 0, rule)
    <3> HIDE DEF rule
    <3>1. 0 \in Int
      OBVIOUS
    <3>2. QED
      BY <1>1, <1>3, <3>1, Recursion
  <2>2. PICK g \in [0..N -> Int] : g[0] = 0 /\ \A n \in 1..N : g[n] = rule[n][g[n - 1]]
    BY <2>1 DEF Followed
  <2>3. ASSUME NEW n \in 0..N PROVE g[n] = IF n = 0 THEN 0 ELSE g[n - 1] + add(n)
    <3>1. CASE n = 0
      BY <2>2, <3>1
    <3>2. CASE n # 0
      <4>1. n \in 1..N /\ n - 1 \in 0..N
        BY <1>1, <3>2
      <4>2. g[n - 1] \in Int
        BY <4>1
      <4>3. QED
        BY <2>2, <3>2, <4>1, <4>2
    <3>3. QED
      BY <3>1, <3>2
  <2>4. Does(g)
    BY <2>3
  <2>5. QED
    <3> HIDE DEF Does
    <3> QED  BY <2>4
<1>5. Does(sum)
  <2> HIDE DEF Does
  <2> QED  BY <1>4
<1>6. Sums(s) = sum
  BY DEF Sums, add
<1> HIDE DEF sum
<1>7. sum[0] = 0 /\ \A n \in 1..N : sum[n] = sum[n - 1] + add(n)
  BY <1>1, <1>5
<1> DEFINE T == {k \in Nat : k <= N => sum[k] \in Int}
<1>8. 0 \in T
  BY <1>7
<1>9. ASSUME NEW k \in Nat, k \in T PROVE k + 1 \in T
  <2>1. SUFFICES ASSUME k + 1 <= N PROVE sum[k + 1] \in Int
    OBVIOUS
  <2>2. k + 1 \in 1..N /\ k <= N /\ k + 1 - 1 = k
    BY <1>1, <2>1
  <2>3. sum[k] \in Int /\ add(k + 1) \in Int
    BY <1>2, <1>9, <2>2
  <2>4. sum[k + 1] = sum[k] + add(k + 1)
    BY <1>7, <2>2
  <2>5. QED
    BY <2>3, <2>4
<1>10. Nat \subseteq T
  <2> HIDE DEF T
  <2> QED  BY <1>8, <1>9, NatAll
<1>11. \A n \in 0..N : sum[n] \in Int
  BY <1>1, <1>10
<1>12. QED
  BY <1>6, <1>7, <1>11 DEF add

LEMMA SumsGrow ==
  ASSUME Question!AskAssumption, NEW s \in Seq(Entry), NEW e \in Entry
  PROVE  /\ Append(s, e) \in Seq(Entry) /\ Len(Append(s, e)) = Len(s) + 1
         /\ Sums(Append(s, e))[Len(s) + 1] = Sums(s)[Len(s)] + Question!ContentBytes(e.content)
<1> DEFINE N == Len(s)
           t == Append(s, e)
           a == Sums(s)
           b == Sums(t)
           add(f) == Question!ContentBytes(f.content)
<1>1. /\ N \in Nat /\ t \in Seq(Entry) /\ Len(t) = N + 1 /\ t[N + 1] = e
      /\ \A n \in 1..N : t[n] = s[n]
  OBVIOUS
<1> HIDE DEF N, t, a, b, add
<1>2. /\ a[0] = 0
      /\ \A n \in 1..N : a[n] = a[n - 1] + add(s[n])
  BY SumsIs DEF N, a, add
<1>3. /\ b[0] = 0
      /\ \A n \in 1..N + 1 : b[n] = b[n - 1] + add(t[n])
  BY <1>1, SumsIs DEF b, add
<1> DEFINE T == {k \in Nat : k <= N => b[k] = a[k]}
<1>4. 0 \in T
  BY <1>2, <1>3
<1>5. ASSUME NEW k \in Nat, k \in T PROVE k + 1 \in T
  <2>1. SUFFICES ASSUME k + 1 <= N PROVE b[k + 1] = a[k + 1]
    OBVIOUS
  <2>2. k + 1 \in 1..N /\ k + 1 \in 1..N + 1 /\ k <= N /\ k + 1 - 1 = k
    BY <1>1, <2>1
  <2>3. b[k] = a[k] /\ t[k + 1] = s[k + 1]
    BY <1>1, <1>5, <2>2
  <2>4. /\ a[k + 1] = a[k] + add(s[k + 1])
        /\ b[k + 1] = b[k] + add(t[k + 1])
    BY <1>2, <1>3, <2>2
  <2>5. QED
    BY <2>3, <2>4
<1>6. N \in T
  <2> HIDE DEF T
  <2> QED  BY <1>1, <1>4, <1>5, NatAll
<1>7. N + 1 \in 1..N + 1 /\ N + 1 - 1 = N
  BY <1>1
<1>8. b[N + 1] = b[N] + add(t[N + 1])
  BY <1>1, <1>3, <1>7
<1>9. QED
  BY <1>1, <1>6, <1>8 DEF N, t, a, b, add

-----------------------------------------------------------------------------
(* The context *)

FileTypeOK ==
  /\ limits \in [files : Nat, file : Nat, context : Nat]
  /\ size \in 0..MaxSize
  /\ matches \in Seq(Items)
  /\ kept \in Seq(Entry)
  /\ Len(kept) <= Len(matches)
  /\ total \in Nat /\ got \in 0..MaxSize

(* The entries are those of the first results, what they hold is whole and  *)
(* within the limits, and so is what is being read.                         *)
Whole(content) == content # Question!NoContent => content.bytes <= limits.file /\ content.whole

SearchInv ==
  /\ step \in {"search", "words"} => kept = <<>> /\ total = 0
  /\ step = "search" => matches = <<>>
  /\ Question!IsInjective(matches)

LimitInv ==
  /\ step \in {"words", "entry", "read"} => limits.context <= HardContext
  /\ step # "search" => total <= limits.context
  /\ total <= HardContext
  /\ total = Sums(kept)[Len(kept)]

ReadInv ==
  /\ step = "entry" => got = 0
  /\ step \in {"search", "words"} => got = 0
  /\ step = "read" => Len(kept) < Len(matches) /\ got <= Question!Allowed

EntryInv ==
  \A n \in 1..Len(kept) : kept[n].item = matches[n] /\ Whole(kept[n].content)

ContextInv == FileTypeOK /\ SearchInv /\ LimitInv /\ ReadInv /\ EntryInv

After == {"list", "wait", "look", "stdout", "stderr", "check", "listed", "refused"}

LEMMA ContextInit == ASSUME Question!AskAssumption, Question!Init PROVE ContextInv
<1>1. FileTypeOK /\ SearchInv /\ ReadInv /\ EntryInv
  BY DEF Question!AskAssumption, Question!Init, FileTypeOK, SearchInv, ReadInv, EntryInv,
     Question!IsInjective
<1>2. Sums(<<>>)[0] = 0
  <2>1. <<>> \in Seq(Entry)
    OBVIOUS
  <2>2. QED
    BY <2>1, SumsIs
<1>3. LimitInv
  BY <1>2 DEF Question!Init, LimitInv, Question!AskAssumption
<1>4. QED
  BY <1>1, <1>3 DEF ContextInv

(* What goes on without the files leaves the context alone.                *)
LEMMA FilesKept ==
  ASSUME ContextInv, UNCHANGED Question!fileVars,
         step' = step \/ step' \in After \/ (step = "words" /\ step' = "entry")
  PROVE  ContextInv'
<1>1. /\ FileTypeOK /\ SearchInv /\ LimitInv /\ ReadInv /\ EntryInv
      /\ UNCHANGED <<limits, size, matches, kept, total, got>>
  BY DEF ContextInv, Question!fileVars
<1>2. FileTypeOK' /\ SearchInv' /\ EntryInv'
  BY <1>1 DEF FileTypeOK, SearchInv, EntryInv, Whole, After
<1>3. LimitInv' /\ ReadInv'
  BY <1>1 DEF FileTypeOK, SearchInv, LimitInv, ReadInv, Question!Allowed, Question!Remaining, After
<1>4. QED
  BY <1>2, <1>3 DEF ContextInv

LEMMA ClampedIs ==
  ASSUME NEW n \in Nat, NEW high \in Nat \ {0}
  PROVE  Question!Clamped(n, high) \in Nat /\ Question!Clamped(n, high) <= high
  BY DEF Question!Clamped, Question!Smaller

LEMMA QuestionStep == ASSUME Question!AskAssumption, ContextInv, Question!SearchQuestion
    PROVE ContextInv'
<1>1. /\ FileTypeOK /\ SearchInv /\ LimitInv /\ ReadInv /\ step = "search" /\ step' = "words"
      /\ UNCHANGED <<size, kept, total, got>>
      /\ kept = <<>> /\ total = 0 /\ matches = <<>> /\ got = 0
  BY DEF ContextInv, SearchInv, ReadInv, Question!SearchQuestion
<1>2. /\ limits' \in [files : Nat, file : Nat, context : Nat]
      /\ limits'.context <= HardContext
  <2>1. /\ Question!Clamped(limits.file, HardFile) \in Nat
        /\ Question!Clamped(limits.context, HardContext) \in Nat
        /\ Question!Clamped(limits.context, HardContext) <= HardContext
    BY <1>1, ClampedIs DEF FileTypeOK, Question!AskAssumption
  <2>2. QED
    BY <1>1, <2>1 DEF Question!SearchQuestion, FileTypeOK
<1>3. matches' \in Seq(Items) /\ Question!IsInjective(matches')
  <2>1. PICK list \in Hits : matches' = Question!Gather(<<>>, list, limits'.files)
    BY DEF Question!SearchQuestion
  <2>2. /\ <<>> \in Seq(Items) /\ Question!IsInjective(<<>>)
        /\ list \in Seq(Items) /\ limits'.files \in Nat
    BY <1>2 DEF Question!IsInjective, Question!AskAssumption
  <2>3. QED
    BY <2>1, <2>2, GatherIs
<1>4. FileTypeOK' /\ SearchInv' /\ ReadInv' /\ EntryInv'
  BY <1>1, <1>2, <1>3 DEF FileTypeOK, SearchInv, ReadInv, EntryInv
<1>5. LimitInv'
  BY <1>1, <1>2 DEF LimitInv
<1>6. QED
  BY <1>4, <1>5 DEF ContextInv

LEMMA WordStep == ASSUME Question!AskAssumption, ContextInv, Question!SearchWord PROVE ContextInv'
<1>1. /\ FileTypeOK /\ SearchInv /\ LimitInv /\ ReadInv /\ step = "words"
      /\ UNCHANGED <<step, limits, size, kept, total, got>>
      /\ kept = <<>> /\ got = 0
  BY DEF ContextInv, SearchInv, ReadInv, Question!SearchWord
<1>2. matches' \in Seq(Items) /\ Question!IsInjective(matches')
  <2>1. PICK list \in Hits : matches' = Question!Gather(matches, list, limits.files)
    BY DEF Question!SearchWord
  <2>2. /\ matches \in Seq(Items) /\ Question!IsInjective(matches)
        /\ list \in Seq(Items) /\ limits.files \in Nat
    BY <1>1 DEF FileTypeOK, SearchInv, Question!AskAssumption
  <2>3. QED
    BY <2>1, <2>2, GatherIs
<1>3. FileTypeOK' /\ SearchInv' /\ ReadInv' /\ EntryInv'
  BY <1>1, <1>2 DEF FileTypeOK, SearchInv, ReadInv, EntryInv
<1>4. LimitInv'
  BY <1>1 DEF LimitInv
<1>5. QED
  BY <1>3, <1>4 DEF ContextInv

LEMMA AddStep ==
  ASSUME Question!AskAssumption, ContextInv, NEW content \in [bytes : -1..MaxSize, whole : BOOLEAN],
         Whole(content), Len(kept) < Len(matches), Question!Add(content),
         UNCHANGED <<limits, matches>>,
         total' = total + Question!ContentBytes(content), total' \in Nat, total' <= limits.context,
         step \in {"entry", "read"}, step' = "entry", got' = 0, size' \in 0..MaxSize
  PROVE  ContextInv'
<1>1. /\ FileTypeOK /\ SearchInv /\ LimitInv /\ EntryInv
      /\ matches \in Seq(Items) /\ kept \in Seq(Entry) /\ Len(kept) \in Nat
      /\ Len(matches) \in Nat
  <2>1. FileTypeOK /\ SearchInv /\ LimitInv /\ EntryInv
    BY DEF ContextInv
  <2>2. matches \in Seq(Items) /\ kept \in Seq(Entry)
    BY <2>1 DEF FileTypeOK
  <2>3. QED
    BY <2>1, <2>2
<1> DEFINE e == [item |-> Question!Item, content |-> content]
<1>2. /\ Len(kept) + 1 \in 1..Len(matches) /\ Question!Item = matches[Len(kept) + 1]
      /\ e \in Entry /\ kept' = Append(kept, e)
      /\ e.item = matches[Len(kept) + 1] /\ e.content = content
  BY <1>1 DEF Question!Item, Entry, Question!Add
<1> HIDE DEF e
<1>3. /\ kept' \in Seq(Entry) /\ Len(kept') = Len(kept) + 1
      /\ Sums(kept')[Len(kept) + 1] =
           Sums(kept)[Len(kept)] + Question!ContentBytes(content)
  BY <1>1, <1>2, SumsGrow
<1>4. FileTypeOK'
  <2>1. 0 \in 0..MaxSize /\ Len(kept') <= Len(matches)
    BY <1>1, <1>2, <1>3 DEF Question!AskAssumption
  <2>2. QED
    BY <1>1, <1>3, <2>1 DEF FileTypeOK
<1>5. SearchInv' /\ ReadInv'
  BY <1>1 DEF SearchInv, ReadInv
<1>6. LimitInv'
  <2>1. limits.context <= HardContext /\ limits.context \in Nat /\ HardContext \in Nat
    BY <1>1 DEF LimitInv, FileTypeOK, Question!AskAssumption
  <2>2. total' <= HardContext
    BY <2>1
  <2>3. total' = Sums(kept')[Len(kept')]
    BY <1>1, <1>3 DEF LimitInv
  <2>4. QED
    BY <2>1, <2>2, <2>3 DEF LimitInv
<1>7. EntryInv'
  <2>1. ASSUME NEW n \in 1..Len(kept')
        PROVE  kept'[n].item = matches[n] /\ Whole(kept'[n].content)
    <3>1. CASE n = Len(kept) + 1
      <4>1. kept'[n] = e
        BY <1>1, <1>2, <3>1
      <4>2. QED
        BY <1>2, <3>1, <4>1
    <3>2. CASE n # Len(kept) + 1
      <4>1. n \in 1..Len(kept)
        BY <1>1, <1>3, <3>2
      <4>2. kept'[n] = kept[n]
        BY <1>1, <1>2, <4>1
      <4>3. QED
        BY <1>1, <4>1, <4>2 DEF EntryInv
    <3>3. QED
      BY <3>1, <3>2
  <2>2. QED
    BY <2>1 DEF EntryInv, Whole
<1>8. QED
  BY <1>4, <1>5, <1>6, <1>7 DEF ContextInv

(* An entry that says nothing of the content can always be added.          *)
LEMMA AddNothing ==
  ASSUME Question!AskAssumption, ContextInv, Len(kept) < Len(matches),
      Question!Add(Question!NoContent),
         UNCHANGED <<limits, matches, total>>,
         step \in {"entry", "read"}, step' = "entry", got' = 0, size' \in 0..MaxSize
  PROVE  ContextInv'
<1>1. Question!NoContent \in [bytes : -1..MaxSize, whole : BOOLEAN] /\ Whole(Question!NoContent)
  BY DEF Question!NoContent, Whole, Question!AskAssumption
<1>2. Question!ContentBytes(Question!NoContent) = 0
  BY DEF Question!ContentBytes
<1>3. total' = total + Question!ContentBytes(Question!NoContent) /\ total' \in Nat
          /\ total' <= limits.context
  BY <1>2 DEF ContextInv, FileTypeOK, LimitInv
<1>4. QED
  BY <1>1, <1>3, AddStep

LEMMA OpenStep == ASSUME Question!AskAssumption, ContextInv, Question!OpenFile PROVE ContextInv'
<1>1. /\ FileTypeOK /\ SearchInv /\ LimitInv /\ ReadInv /\ EntryInv
      /\ step = "entry" /\ Len(kept) < Len(matches) /\ got = 0
      /\ UNCHANGED <<limits, matches, total, got>>
  BY DEF ContextInv, ReadInv, Question!OpenFile
<1>2. PICK n \in 0..MaxSize :
        IF n <= limits.file /\ n <= Question!Remaining
        THEN step' = "read" /\ size' = n /\ UNCHANGED kept
        ELSE Question!Add(Question!NoContent) /\ UNCHANGED <<step, size>>
  BY DEF Question!OpenFile
<1>3. CASE n <= limits.file /\ n <= Question!Remaining
  <2>1. step' = "read" /\ size' = n /\ UNCHANGED kept
    BY <1>2, <1>3
  <2>2. FileTypeOK' /\ SearchInv' /\ EntryInv' /\ LimitInv'
    BY <1>1, <2>1 DEF FileTypeOK, SearchInv, EntryInv, LimitInv, Whole
  <2>3. 0 <= limits.file /\ 0 <= limits.context - total
    BY <1>1 DEF FileTypeOK, LimitInv
  <2>4. got' <= Question!Allowed'
    BY <1>1, <2>3 DEF Question!Allowed, Question!Remaining, Question!Smaller
  <2>5. ReadInv'
    BY <1>1, <2>1, <2>4 DEF ReadInv
  <2>6. QED
    BY <2>2, <2>5 DEF ContextInv
<1>4. CASE ~(n <= limits.file /\ n <= Question!Remaining)
  <2>1. Question!Add(Question!NoContent) /\ UNCHANGED <<step, size>>
    BY <1>2, <1>4
  <2>2. size' \in 0..MaxSize
    BY <1>1, <2>1 DEF FileTypeOK
  <2>3. QED
    BY <1>1, <2>1, <2>2, AddNothing
<1>5. QED
  BY <1>3, <1>4

(* What a read may get: nothing only where there is nothing more.          *)
LEMMA ReadsIs ==
  ASSUME NEW available \in Int, NEW ended, NEW have \in Nat, NEW cap \in Nat, have <= cap,
         Chunk \in Nat \ {0}, NEW n \in Question!Reads(available, ended, have, cap)
  PROVE  /\ n \in Nat
         /\ n = 0 => available <= 0 /\ ended
         /\ n # 0 => n <= available
<1>1. Question!Wanted(have, cap) \in Nat /\ Question!Wanted(have, cap) # 0
  BY DEF Question!Wanted, Question!Smaller
<1>2. CASE available > 0
  <2>1. n \in 1..(Question!Smaller(Question!Wanted(have, cap), available))
    BY <1>1, <1>2 DEF Question!Reads
  <2>2. QED
    BY <1>1, <1>2, <2>1 DEF Question!Smaller
<1>3. CASE ~(available > 0)
  <2>1. n \in IF ended THEN {0} ELSE {}
    BY <1>1, <1>3 DEF Question!Reads
  <2>2. QED
    BY <1>3, <2>1
<1>4. QED
  BY <1>2, <1>3

LEMMA Reading ==
  ASSUME Question!AskAssumption, ContextInv, step = "read"
  PROVE  /\ got \in Nat /\ Question!Allowed \in Nat /\ got <= Question!Allowed /\ size - got \in Int
         /\ Chunk \in Nat \ {0} /\ Len(kept) < Len(matches)
         /\ Question!Allowed <= limits.file /\ total + Question!Allowed <= limits.context
<1>1. /\ limits.file \in Nat /\ limits.context \in Nat /\ total \in Nat /\ total <= limits.context
      /\ got \in Nat /\ size \in Nat /\ got <= Question!Allowed /\ Len(kept) < Len(matches)
  BY DEF ContextInv, FileTypeOK, LimitInv, ReadInv, Question!AskAssumption
<1>2. Question!Allowed \in Nat /\ Question!Allowed <= limits.file
          /\ total + Question!Allowed <= limits.context
  BY <1>1 DEF Question!Allowed, Question!Remaining, Question!Smaller
<1>3. QED
  BY <1>1, <1>2 DEF Question!AskAssumption

LEMMA ReadOnStep == ASSUME Question!AskAssumption, ContextInv, Question!ReadOn PROVE ContextInv'
<1>1. /\ FileTypeOK /\ SearchInv /\ LimitInv /\ ReadInv /\ EntryInv /\ step = "read"
      /\ UNCHANGED <<step, limits, size, matches, kept, total>>
  BY DEF ContextInv, Question!ReadOn
<1>2. PICK n \in Question!FileReads : n # 0 /\ got + n <= Question!Allowed /\ got' = got + n
  BY DEF Question!ReadOn
<1>3. n \in Nat /\ n <= size - got /\ got \in Nat
  BY <1>1, <1>2, Reading, ReadsIs DEF Question!FileReads
<1>4. got' \in 0..MaxSize /\ got' <= Question!Allowed'
  <2>1. Question!Allowed' = Question!Allowed
    BY <1>1 DEF Question!Allowed, Question!Remaining
  <2>2. size \in 0..MaxSize /\ MaxSize \in Nat
    BY <1>1 DEF FileTypeOK, Question!AskAssumption
  <2>3. got' = got + n /\ got + n \in 0..MaxSize
    BY <1>2, <1>3, <2>2
  <2>4. QED
    BY <1>2, <2>1, <2>3
<1>5. QED
  BY <1>1, <1>4 DEF ContextInv, FileTypeOK, SearchInv, LimitInv, ReadInv, EntryInv, Whole

LEMMA ReadEndStep == ASSUME Question!AskAssumption, ContextInv, Question!ReadToEnd PROVE ContextInv'
<1>1. /\ step = "read" /\ step' = "entry" /\ got' = 0 /\ size' = 0 /\ 0 \in Question!FileReads
      /\ UNCHANGED <<limits, matches>> /\ size' \in 0..MaxSize
  BY DEF Question!ReadToEnd, Question!AskAssumption
<1>2. Len(kept) < Len(matches)
  BY <1>1, Reading
<1>3. CASE Question!Add(Question!NoContent) /\ UNCHANGED total
  BY <1>1, <1>2, <1>3, AddNothing
<1>4. CASE Question!Add([bytes |-> got, whole |-> got >= size]) /\ total' = total + got
  <2> DEFINE content == [bytes |-> got, whole |-> got >= size]
  <2>1. size - got <= 0
    BY <1>1, Reading, ReadsIs DEF Question!FileReads
  <2>2. /\ got \in 0..MaxSize /\ size \in Nat /\ MaxSize \in Nat /\ total \in Nat
        /\ limits.context \in Nat
    BY DEF ContextInv, FileTypeOK, Question!AskAssumption
  <2>3. got >= size
    BY <2>1, <2>2
  <2>4. content = [bytes |-> got, whole |-> TRUE]
    BY <2>3
  <2> HIDE DEF content
  <2>5. content \in [bytes : -1..MaxSize, whole : BOOLEAN]
    BY <2>2, <2>4
  <2>6. /\ content # Question!NoContent /\ content.bytes = got /\ content.whole
    BY <2>2, <2>4 DEF Question!NoContent
  <2>7. Whole(content) /\ Question!ContentBytes(content) = got
    <3>1. got <= limits.file
      <4>1. got <= Question!Allowed /\ Question!Allowed <= limits.file /\ Question!Allowed \in Nat
        BY <1>1, Reading
      <4>2. limits.file \in Nat
        BY DEF ContextInv, FileTypeOK
      <4>3. QED
        BY <2>2, <4>1, <4>2
    <3>2. QED
      BY <2>6, <3>1 DEF Whole, Question!ContentBytes
  <2>8. /\ Question!Add(content) /\ total' = total + Question!ContentBytes(content)
        /\ total' \in Nat /\ total' <= limits.context
    BY <1>1, <1>4, <2>2, <2>7, Reading DEF content
  <2>9. QED
    BY <1>1, <1>2, <2>5, <2>7, <2>8, AddStep
<1>5. QED
  BY <1>3, <1>4 DEF Question!ReadToEnd

LEMMA ContextStep == ASSUME Question!AskAssumption, ContextInv, [Question!Next]_(Question!vars)
    PROVE ContextInv'
<1>1. CASE UNCHANGED Question!vars
  BY <1>1, FilesKept DEF Question!vars
<1>2. ASSUME Question!SearchDone \/ Question!SearchFails \/ Question!ContextDone PROVE ContextInv'
  BY <1>2, FilesKept DEF Question!SearchDone, Question!SearchFails, Question!ContextDone, After
<1>3. CASE Question!AddUnread
  <2>1. /\ step = "entry" /\ got = 0 /\ Len(kept) < Len(matches)
             /\ Question!Add(Question!NoContent)
        /\ UNCHANGED <<step, limits, size, matches, total, got>> /\ size \in 0..MaxSize
    BY <1>3 DEF Question!AddUnread, ContextInv, ReadInv, FileTypeOK
  <2>2. QED
    BY <2>1, AddNothing
<1>4. CASE Question!ReadNoFurther
  <2>1. /\ step = "read" /\ step' = "entry" /\ got' = 0 /\ size' \in 0..MaxSize
             /\ Question!Add(Question!NoContent)
        /\ UNCHANGED <<limits, matches, total>> /\ Len(kept) < Len(matches)
    BY <1>4, Reading DEF Question!ReadNoFurther, Question!AskAssumption
  <2>2. QED
    BY <2>1, AddNothing
<1>5. CASE Question!FileChanges
  BY <1>5 DEF Question!FileChanges, ContextInv, FileTypeOK, SearchInv, LimitInv, ReadInv, EntryInv,
     Whole,
     Question!Allowed, Question!Remaining
<1>6. ASSUME Question!RunListing PROVE ContextInv'
  <2>1. UNCHANGED Question!fileVars /\ (step' = step \/ step' \in After)
    BY <1>6 DEF Question!RunListing, Question!SpawnListing, Question!SpawnListingFails,
       Question!TryWait, Question!TryWaitFails, Question!Sleep, Question!TimeOut,
       Question!Join, Question!CheckListing, Question!Streams, After
  <2>2. QED
    BY <2>1, FilesKept
<1>7. ASSUME NEW s \in Question!Streams, Question!ReadPipe(s) \/ Question!ReadPipeFails(s)
          \/ Question!Write(s) PROVE ContextInv'
  BY <1>7, FilesKept DEF Question!ReadPipe, Question!ReadPipeFails, Question!Write
<1>8. ASSUME Question!ListingEnds \/ Question!HelperStarts \/ Question!HelperEnds PROVE ContextInv'
  BY <1>8, FilesKept DEF Question!ListingEnds, Question!HelperStarts, Question!HelperEnds
<1>9. QED
  BY <1>1, <1>2, <1>3, <1>4, <1>5, <1>6, <1>7, <1>8, QuestionStep, WordStep, OpenStep, ReadOnStep,
     ReadEndStep DEF Question!Next, Question!BuildContext, Question!Outside

LEMMA ContextAlways == ASSUME Question!AskAssumption PROVE Question!Spec => []ContextInv
  BY ContextInit, ContextStep, PTL DEF Question!Spec

(* However files grow and shrink while they are read, neither limit is      *)
(* exceeded and what goes into the context is never cut off                 *)
(* (build_index_context, read_context_file).                                *)
THEOREM ContextIsKept == Question!Spec => []ContextKept
<1>0. Question!Spec => []ContextInv
  BY ContextAlways, QuestionAssumption
<1>1. ASSUME ContextInv PROVE ContextKept
  <2>1. /\ FileTypeOK /\ SearchInv /\ LimitInv /\ EntryInv /\ kept \in Seq(Entry)
        /\ DOMAIN kept = 1..Len(kept)
    BY <1>1 DEF ContextInv, FileTypeOK
  <2>2. total = Question!BytesUpTo[Len(kept)]
    BY <2>1 DEF LimitInv, Question!BytesUpTo, Sums
  <2>3. total <= HardContext /\ (step # "search" => total <= limits.context)
    BY <2>1 DEF LimitInv
  <2>4. ASSUME NEW m \in DOMAIN kept, NEW n \in DOMAIN kept, m # n
        PROVE  kept[m].item # kept[n].item
    <3>1. m \in DOMAIN matches /\ n \in DOMAIN matches
      BY <2>1, <2>4 DEF FileTypeOK
    <3>2. matches[m] # matches[n]
      BY <2>1, <2>4, <3>1 DEF SearchInv, Question!IsInjective
    <3>3. QED
      BY <2>1, <2>4, <3>2 DEF EntryInv
  <2>5. QED
    BY <2>1, <2>2, <2>3, <2>4 DEF ContextKept, Question!ContextKept, EntryInv, Whole
<1>2. QED
  BY <1>1, <1>0, PTL

-----------------------------------------------------------------------------
(* The listing *)

ListTypeOK ==
  /\ process \in {"none", "running", "succeeded", "failed", "killed"}
  /\ wrote \in [Question!Streams -> 0..MaxSize]
  /\ taken \in [Question!Streams -> 0..OutputLimit]
  /\ \A s \in Question!Streams : wrote[s] - taken[s] \in 0..PipeSize \/ reader[s] = "error"
  /\ reader \in [Question!Streams -> {"none", "reading", "end", "error"}]
  /\ polls \in 0..Polls

PcOK == step \in {"search", "words", "entry", "read"} \cup After

Before == {"search", "words", "entry", "read", "list"}
Listing == {"wait", "look", "stdout", "stderr", "check", "listed"}

(* A reader that has met the end has read all, and nothing is written any   *)
(* more; ask goes on from it only then.                                     *)
ListInv ==
  /\ step \in Before => process = "none" /\ \A s \in Question!Streams : reader[s] = "none"
  /\ process = "none" => ~helper
  /\ step \in Listing => \A s \in Question!Streams : reader[s] # "none"
  /\ \A s \in Question!Streams :
       reader[s] = "end" => process # "running" /\ ~helper /\ taken[s] = wrote[s]
  /\ step = "stderr" => reader["stdout"] = "end"
  /\ step \in {"check", "listed"} => \A s \in Question!Streams : reader[s] = "end"

ListingInv == PcOK /\ ListTypeOK /\ ListInv

LEMMA ListingInit == ASSUME Question!AskAssumption, Question!Init PROVE ListingInv
<1>1. PcOK /\ ListInv
  BY DEF Question!Init, PcOK, ListInv, Before, Listing, Question!Streams
<1>2. ListTypeOK
  BY DEF Question!Init, ListTypeOK, Question!Streams, Question!AskAssumption
<1>3. QED
  BY <1>1, <1>2 DEF ListingInv

LEMMA ListsKept ==
  ASSUME ListingInv, UNCHANGED Question!listVars, PcOK',
         step' = step \/ (step \in Before /\ step' \in Before \cup {"refused"}) \/ step' = "refused"
  PROVE  ListingInv'
  BY DEF ListingInv, Question!listVars, ListTypeOK, ListInv, Before, Listing

LEMMA ListingContext == ASSUME ListingInv, Question!BuildContext PROVE ListingInv'
<1>1. UNCHANGED Question!listVars /\ step \in Before /\ step' \in Before \cup {"refused"} /\ PcOK'
  BY DEF Question!BuildContext, Question!SearchQuestion, Question!SearchWord, Question!SearchDone,
     Question!SearchFails, Question!AddUnread, Question!OpenFile,
     Question!ReadOn, Question!ReadToEnd, Question!ReadNoFurther, Question!ContextDone, Before,
     PcOK, After
<1>2. QED
  BY <1>1, ListsKept

LEMMA ListingRun == ASSUME Question!AskAssumption, ListingInv, Question!RunListing PROVE ListingInv'
<1>1. PcOK /\ ListTypeOK /\ ListInv
  BY DEF ListingInv
<1>2. CASE Question!SpawnListing
  <2>1. PcOK' /\ ListTypeOK'
    BY <1>1, <1>2 DEF Question!SpawnListing, PcOK, After, ListTypeOK, ListInv, Before,
       Question!Streams
  <2>2. ListInv'
    BY <1>1, <1>2 DEF Question!SpawnListing, ListInv, Before, Listing, Question!Streams
  <2>3. QED
    BY <2>1, <2>2 DEF ListingInv
<1>3. CASE Question!SpawnListingFails \/ Question!TryWaitFails
  BY <1>1, <1>3, ListsKept DEF Question!SpawnListingFails, Question!TryWaitFails, PcOK, After
<1>4. CASE Question!TryWait
  BY <1>1, <1>4 DEF Question!TryWait, Question!listVars, ListingInv, PcOK, After, ListTypeOK,
     ListInv, Before, Listing
<1>5. CASE Question!Sleep
  <2>1. polls' \in 0..Polls
    BY <1>1, <1>5 DEF Question!Sleep, ListTypeOK, Question!AskAssumption
  <2>2. QED
    BY <1>1, <1>5, <2>1
       DEF Question!Sleep, ListingInv, PcOK, After, ListTypeOK, ListInv, Before, Listing
<1>6. CASE Question!TimeOut
  BY <1>1, <1>6 DEF Question!TimeOut, Question!Killed, ListingInv, PcOK, After, ListTypeOK, ListInv,
     Before, Listing
<1>7. ASSUME NEW s \in Question!Streams, Question!Join(s) PROVE ListingInv'
  <2>1. /\ reader[s] # "reading" /\ step = s /\ UNCHANGED Question!listVars
        /\ step' = IF reader[s] = "error" THEN "refused"
                 ELSE IF s = "stdout" THEN "stderr" ELSE "check"
    BY <1>7 DEF Question!Join
  <2>2. step \in Listing /\ reader[s] \in {"end", "error"}
    BY <1>1, <2>1 DEF Listing, Question!Streams, ListInv, ListTypeOK
  <2>3. PcOK'
    BY <2>1 DEF PcOK, After
  <2>4. CASE reader[s] = "error"
    BY <1>1, <2>1, <2>3, <2>4, ListsKept
  <2>5. CASE reader[s] = "end"
    BY <1>1, <2>1, <2>2, <2>3, <2>5
       DEF ListingInv, ListTypeOK, ListInv, Before, Listing, Question!listVars, Question!Streams
  <2>6. QED
    BY <2>2, <2>4, <2>5
<1>8. CASE Question!CheckListing
  BY <1>1, <1>8 DEF Question!CheckListing, Question!listVars, ListingInv, PcOK, After, ListTypeOK,
     ListInv, Before,
     Listing
<1>9. QED
  BY <1>2, <1>3, <1>4, <1>5, <1>6, <1>7, <1>8 DEF Question!RunListing

LEMMA ListingPipes ==
  ASSUME Question!AskAssumption, ListingInv, NEW s \in Question!Streams, Question!ReadPipe(s)
      \/ Question!ReadPipeFails(s)
  PROVE  ListingInv'
<1>1. PcOK /\ ListTypeOK /\ ListInv
  BY DEF ListingInv
<1>2. CASE Question!ReadPipeFails(s)
  BY <1>1, <1>2 DEF Question!ReadPipeFails, ListingInv, PcOK, ListTypeOK, ListInv, Before, Listing,
     Question!Streams
<1>3. CASE Question!ReadPipe(s)
  <2>1. PICK n \in Question!PipeReads(s) :
          IF n = 0 THEN reader' = [reader EXCEPT ![s] = "end"] /\ UNCHANGED taken
          ELSE IF taken[s] + n > OutputLimit
               THEN reader' = [reader EXCEPT ![s] = "error"] /\ UNCHANGED taken
          ELSE taken' = [taken EXCEPT ![s] = @ + n] /\ UNCHANGED reader
    BY <1>3 DEF Question!ReadPipe
  <2>2. reader[s] = "reading" /\ UNCHANGED <<step, process, helper, wrote, polls>>
    BY <1>3 DEF Question!ReadPipe
  <2>3. /\ taken[s] \in Nat /\ wrote[s] \in Nat /\ taken[s] <= OutputLimit
        /\ OutputLimit \in Nat /\ PipeSize \in Nat /\ Chunk \in Nat \ {0}
        /\ wrote[s] - taken[s] \in 0..PipeSize
    BY <1>1, <2>2 DEF ListTypeOK, Question!AskAssumption
  <2>4. /\ n \in Nat
        /\ n = 0 => wrote[s] - taken[s] <= 0 /\ Question!Ended
        /\ n # 0 => n <= wrote[s] - taken[s]
    <3>1. wrote[s] - taken[s] \in Int
      BY <2>3
    <3>2. n \in Question!Reads(wrote[s] - taken[s], Question!Ended, taken[s], OutputLimit)
      BY DEF Question!PipeReads
    <3>3. QED
      BY <2>3, <3>1, <3>2, ReadsIs
  <2>5. CASE n = 0
    <3>1. taken[s] = wrote[s] /\ process # "running" /\ ~helper
      BY <2>3, <2>4, <2>5 DEF Question!Ended
    <3>2. reader' = [reader EXCEPT ![s] = "end"] /\ taken' = taken
      BY <2>1, <2>5
    <3>3. PcOK' /\ ListTypeOK'
      BY <1>1, <2>2, <3>2 DEF PcOK, ListTypeOK
    <3>4. ListInv'
      BY <1>1, <2>2, <3>1, <3>2 DEF ListInv, ListTypeOK, Before, Listing, Question!Streams
    <3>5. QED
      BY <3>3, <3>4 DEF ListingInv
  <2>6. CASE n # 0 /\ taken[s] + n > OutputLimit
    <3>1. reader' = [reader EXCEPT ![s] = "error"] /\ taken' = taken
      BY <2>1, <2>6
    <3>2. PcOK' /\ ListTypeOK'
      BY <1>1, <2>2, <3>1 DEF PcOK, ListTypeOK
    <3>3. ListInv'
      BY <1>1, <2>2, <3>1 DEF ListInv, ListTypeOK, Before, Listing, Question!Streams
    <3>4. QED
      BY <3>2, <3>3 DEF ListingInv
  <2>7. CASE n # 0 /\ ~(taken[s] + n > OutputLimit)
    <3>1. taken' = [taken EXCEPT ![s] = @ + n] /\ reader' = reader
      BY <2>1, <2>7
    <3>2. taken[s] + n \in 0..OutputLimit /\ wrote[s] - (taken[s] + n) \in 0..PipeSize
      <4> DEFINE a == taken[s]
                 w == wrote[s]
      <4>1. /\ a \in Nat /\ w \in Nat /\ OutputLimit \in Nat /\ PipeSize \in Nat /\ n \in Nat
            /\ w - a <= PipeSize /\ n <= w - a /\ a + n <= OutputLimit
        BY <2>3, <2>4, <2>7
      <4> HIDE DEF a, w
      <4>2. a + n \in 0..OutputLimit /\ w - (a + n) \in 0..PipeSize
        BY <4>1
      <4>3. QED
        BY <4>2 DEF a, w
    <3>3. PcOK' /\ ListTypeOK'
      BY <1>1, <2>2, <3>1, <3>2 DEF PcOK, ListTypeOK
    <3>4. ListInv'
      BY <1>1, <2>2, <3>1 DEF ListInv, ListTypeOK, Before, Listing, Question!Streams
    <3>5. QED
      BY <3>3, <3>4 DEF ListingInv
  <2>8. QED
    BY <2>5, <2>6, <2>7
<1>4. QED
  BY <1>2, <1>3

LEMMA ListingOutside == ASSUME Question!AskAssumption, ListingInv, Question!Outside
    PROVE ListingInv'
<1>1. PcOK /\ ListTypeOK /\ ListInv
  BY DEF ListingInv
<1>2. CASE Question!FileChanges
  BY <1>1, <1>2, ListsKept DEF Question!FileChanges, PcOK
<1>3. ASSUME NEW s \in Question!Streams, Question!Write(s) PROVE ListingInv'
  <2>1. /\ process = "running" \/ helper
        /\ reader[s] = "reading" /\ wrote[s] < MaxSize /\ wrote[s] - taken[s] < PipeSize
        /\ wrote' = [wrote EXCEPT ![s] = @ + 1]
        /\ UNCHANGED <<step, process, helper, taken, reader, polls>>
    BY <1>3 DEF Question!Write
  <2>2. /\ wrote[s] + 1 \in 0..MaxSize /\ (wrote[s] + 1) - taken[s] \in 0..PipeSize
    <3> DEFINE a == taken[s]
               w == wrote[s]
    <3>1. /\ a \in Int /\ w \in 0..MaxSize /\ MaxSize \in Nat /\ PipeSize \in Nat
          /\ w < MaxSize /\ w - a \in 0..PipeSize /\ w - a < PipeSize
      BY <1>1, <2>1 DEF ListTypeOK, Question!AskAssumption
    <3> HIDE DEF a, w
    <3>2. w + 1 \in 0..MaxSize /\ (w + 1) - a \in 0..PipeSize
      BY <3>1
    <3>3. QED
      BY <3>2 DEF a, w
  <2>3. PcOK' /\ ListTypeOK'
    BY <1>1, <2>1, <2>2 DEF PcOK, ListTypeOK
  <2>4. ListInv'
    BY <1>1, <2>1 DEF ListInv, ListTypeOK, Before, Listing
  <2>5. QED
    BY <2>3, <2>4 DEF ListingInv
<1>4. CASE Question!ListingEnds
  BY <1>1, <1>4 DEF Question!ListingEnds, ListingInv, PcOK, ListTypeOK, ListInv, Before, Listing
<1>5. CASE Question!HelperStarts \/ Question!HelperEnds
  BY <1>1, <1>5 DEF Question!HelperStarts, Question!HelperEnds, ListingInv, PcOK, ListTypeOK,
     ListInv, Before, Listing
<1>6. QED
  BY <1>2, <1>3, <1>4, <1>5 DEF Question!Outside

LEMMA ListingAlways == ASSUME Question!AskAssumption PROVE Question!Spec => []ListingInv
<1>1. Question!Init => ListingInv
  BY ListingInit
<1>2. ListingInv /\ [Question!Next]_(Question!vars) => ListingInv'
  <2>1. ASSUME ListingInv, UNCHANGED Question!vars PROVE ListingInv'
    BY <2>1, ListsKept DEF Question!vars, ListingInv, PcOK
  <2>2. QED
    BY <2>1, ListingContext, ListingRun, ListingPipes, ListingOutside DEF Question!Next
<1>3. QED
  BY <1>1, <1>2, PTL DEF Question!Spec

(* No more is kept of a pipe than the limit, and a model is found in the    *)
(* listing only if all of it was read (read_to_vec_with_cap, join_reader).  *)
THEOREM ListingIsWhole == Question!Spec => []WholeListing
<1>0. Question!Spec => []ListingInv
  BY ListingAlways, QuestionAssumption
<1>1. ASSUME ListingInv PROVE WholeListing
  <2>1. \A s \in Question!Streams : taken[s] <= OutputLimit
    BY <1>1, QuestionAssumption DEF ListingInv, ListTypeOK, Question!AskAssumption
  <2>2. QED
    BY <1>1, <2>1 DEF ListingInv, ListInv, WholeListing, Question!WholeListing
<1>2. QED
  BY <1>1, <1>0, PTL

(* Whether there is a helper no other part of the invariant says.          *)
LEMMA HelperAlways == Question!Spec => [](helper \in BOOLEAN)
<1>1. Question!Init => helper \in BOOLEAN
  BY DEF Question!Init
<1>2. helper \in BOOLEAN /\ [Question!Next]_(Question!vars) => (helper \in BOOLEAN)'
  <2>1. ASSUME [Question!Next]_(Question!vars)
            PROVE helper' = helper \/ helper' = TRUE \/ helper' = FALSE
    BY <2>1 DEF Question!Next, Question!vars, Question!listVars, Question!BuildContext,
       Question!SearchQuestion, Question!SearchWord, Question!SearchDone,
       Question!SearchFails, Question!AddUnread, Question!OpenFile, Question!ReadOn,
       Question!ReadToEnd, Question!ReadNoFurther, Question!ContextDone, Question!RunListing,
       Question!SpawnListing, Question!SpawnListingFails, Question!TryWait, Question!TryWaitFails,
       Question!Sleep, Question!TimeOut, Question!Join, Question!CheckListing,
       Question!ReadPipe, Question!ReadPipeFails, Question!Outside, Question!FileChanges,
       Question!Write, Question!ListingEnds, Question!HelperStarts, Question!HelperEnds
  <2>2. QED
    BY <2>1, Zenon
<1>3. QED
  BY <1>1, <1>2, PTL DEF Question!Spec

(* Every variable of FastFlowLmAsk keeps its type.                         *)
THEOREM AskTyping == Question!Spec => []Question!TypeOK
<1>0. Question!Spec => []ContextInv /\ []ListingInv
  BY ContextAlways, ListingAlways, QuestionAssumption
<1>1. ContextInv /\ ListingInv /\ helper \in BOOLEAN => Question!TypeOK
  <2>1. ASSUME ContextInv, ListingInv, helper \in BOOLEAN PROVE Question!TypeOK
    BY <2>1 DEF ContextInv, ListingInv, FileTypeOK, Entry, PcOK, After, ListTypeOK, Question!TypeOK
  <2>2. QED
    BY <2>1
<1>2. QED
  BY <1>1, <1>0, HelperAlways, PTL

=============================================================================
