-------------------------- MODULE IpcSessionProofs --------------------------
(***************************************************************************)
(* What is proved of IpcSession: it implements RequestContract, for every  *)
(* number of requests and of other programs, whatever these write, and for *)
(* every number of deaths of the daemon.  And of the line reader below it  *)
(* (LineReader, the instance Reader): its lines are those of the stream.   *)
(***************************************************************************)
EXTENDS IpcSession, DaemonLineReader, TLAPS, FiniteSetTheorems, SequenceTheorems

(* The daemon has nothing to write when it serves nobody.                  *)
ServingInv ==
  /\ phase = "serving" <=> conn # None
  /\ conn = None => pending = <<>>

(* A response is true: one that ends a request well says what the daemon   *)
(* has done.                                                               *)
Truthful(r, x, res) ==
  /\ Meaning(Kind[r], x) = "answered" => res = "done"
  /\ Meaning(Kind[r], x) = "refused" => res = "refused"

(* A request's line is the last of its connection, it is sent after the    *)
(* daemon has accepted, and the daemon has it until it carries it out.     *)
SentInv(r) ==
  /\ \A i \in 1..Len(up[r]) : up[r][i] \in {"hello", Kind[r]}
  /\ \A i \in 1..Len(up[r]) : i < Len(up[r]) => up[r][i] = "hello"
  /\ pc[r] \in {"connect", "hello", "accept"} =>
       runs[r] = 0 /\ \A i \in 1..Len(up[r]) : up[r][i] = "hello"
  /\ runs[r] = 0 => result[r] = "none"
  /\ runs[r] # 0 => runs[r] = 1 /\ up[r] = <<>>

TruthInv(r) ==
  /\ \A i \in 1..Len(down[r]) : Truthful(r, down[r][i], result[r])
  /\ conn = r => \A i \in 1..Len(pending) : Truthful(r, pending[i], result[r])

RequestInv(r) ==
  /\ pc[r] # "over" <=> outcome[r] = "pending"
  /\ SentInv(r)
  /\ TruthInv(r)

Inv == TypeOK /\ ServingInv /\ \A r \in Requests : RequestInv(r)

-----------------------------------------------------------------------------

LEMMA Nothing == \A S : <<>> \in Seq(S)
  OBVIOUS

LEMMA InvInit == Init => Inv
<1> SUFFICES ASSUME Init PROVE Inv
  OBVIOUS
<1>1. TypeOK
  <2>1. /\ pc \in [Clients -> {"connect", "hello", "accept", "answer", "talk", "over"}]
        /\ outcome \in [Requests -> {"pending", "answered", "refused", "short", "failed", "cancelled"}]
        /\ said \in [Others -> Nat]
        /\ runs \in [Requests -> Nat] /\ result \in [Requests -> {"none", "done", "refused"}]
        /\ last \in [Clients -> Lines \cup {None}]
    BY DEF Init
  <2>2. up \in [Clients -> Seq(Lines)] /\ down \in [Clients -> Seq(Responses)]
    BY Nothing DEF Init
  <2>3. QED
    BY <2>1, <2>2, Nothing, SessionAssumption, 0 \in 0..MaxDeaths DEF Init, TypeOK
<1>2. ServingInv
  BY DEF Init, ServingInv
<1>3. ASSUME NEW r \in Requests PROVE RequestInv(r)
  BY <1>3 DEF Init, RequestInv, SentInv, TruthInv, Clients
<1>4. QED
  BY <1>1, <1>2, <1>3 DEF Inv

(* Sequences of lines and of responses stay such.                          *)
LEMMA ReplyType == \A line \in Lines, res \in {"done", "refused"} : Reply(line, res) \in Seq(Responses)
<1> SUFFICES ASSUME NEW line \in Lines, NEW res \in {"done", "refused"}
             PROVE  Reply(line, res) \in Seq(Responses)
  OBVIOUS
<1>1. CASE line = "hello"
  BY <1>1 DEF Reply, Responses
<1>2. CASE line = "search"
  BY <1>2 DEF Reply, Responses
<1>3. CASE line = "action"
  BY <1>3 DEF Reply, Responses
<1>4. CASE line = "preview"
  BY <1>4 DEF Reply, Responses
<1>5. CASE line = "diagnostics"
  BY <1>5 DEF Reply, Responses
<1>6. CASE line = "cancel"
  BY <1>6 DEF Reply, Responses
<1>7. CASE line \in {"newer hello", "odd", "broken", "oversized"}
  <2>1. Reply(line, res) = <<"error">>
    BY <1>7 DEF Reply
  <2>2. QED
    BY <2>1 DEF Responses
<1>8. QED
  BY <1>1, <1>2, <1>3, <1>4, <1>5, <1>6, <1>7 DEF Lines, Kinds

(* Where a request ends, nothing but its own state changes.                *)
Ended ==
  /\ pc' \in [Clients -> {"connect", "hello", "accept", "answer", "talk", "over"}]
  /\ outcome' \in [Requests -> {"pending", "answered", "refused", "short", "failed", "cancelled"}]
  /\ down' \in [Clients -> Seq(Responses)] /\ left' \subseteq Clients

LEMMA FinishType ==
  ASSUME TypeOK, NEW r \in Requests,
         NEW how \in {"answered", "refused", "short", "failed", "cancelled"}, Finish(r, how)
  PROVE  Ended
<1>1. down' \in [Clients -> Seq(Responses)]
  BY Nothing DEF Finish, TypeOK
<1>2. QED
  BY <1>1 DEF Finish, Goto, Ended, TypeOK, Clients

LEMMA TypeStep == TypeOK /\ ServingInv /\ [Next]_vars => TypeOK'
<1> SUFFICES ASSUME TypeOK, ServingInv, [Next]_vars PROVE TypeOK'
  OBVIOUS
<1> USE SessionAssumption DEF Goto, clientVars, pipeVars, daemonVars
<1>1. ASSUME NEW c \in Clients, Connect(c) PROVE TypeOK'
  BY <1>1 DEF Connect, TypeOK
<1>2. ASSUME NEW r \in Requests, SayHello(r) \/ ReadAccept(r) PROVE TypeOK'
  <2>1. ASSUME NEW how \in {"failed"}, Finish(r, how), UNCHANGED <<up, said, dropped, daemonVars>>
        PROVE  TypeOK'
    BY <2>1, FinishType DEF Ended, TypeOK
  <2>2. CASE SayHello(r) /\ r \notin dropped
    <3>1. up' \in [Clients -> Seq(Lines)]
      <4>1. Append(up[r], "hello") \in Seq(Lines)
        <5>1. r \in Clients /\ up[r] \in Seq(Lines) /\ "hello" \in Lines
          BY DEF TypeOK, Lines, Clients
        <5>2. QED
          BY <5>1
      <4>2. up' = [up EXCEPT ![r] = Append(@, "hello")]
        BY <2>2 DEF SayHello, Say
      <4>3. QED
        BY <4>1, <4>2 DEF TypeOK
    <3>2. pc' \in [Clients -> {"connect", "hello", "accept", "answer", "talk", "over"}]
      BY <2>2 DEF SayHello, Say, TypeOK
    <3>3. UNCHANGED <<outcome, left, down, said, dropped, daemonVars>>
      BY <2>2 DEF SayHello, Say
    <3>4. QED
      BY <3>1, <3>2, <3>3 DEF TypeOK
  <2>3. CASE ReadAccept(r) /\ r \notin dropped /\ down[r] # <<>> /\ Head(down[r]) = "accepted"
    <3>1. /\ up' = [up EXCEPT ![r] = Append(@, Kind[r])] /\ down' = [down EXCEPT ![r] = Tail(@)]
          /\ pc' = [pc EXCEPT ![r] = "answer"]
          /\ UNCHANGED <<outcome, left, said, dropped, daemonVars>>
      BY <2>3 DEF ReadAccept, Say, AtEnd, Finish
    <3>2. up' \in [Clients -> Seq(Lines)] /\ down' \in [Clients -> Seq(Responses)]
      <4>1. r \in Clients /\ up[r] \in Seq(Lines) /\ down[r] \in Seq(Responses)
        BY DEF TypeOK, Clients
      <4>2. Kind[r] \in Lines
        BY DEF Lines
      <4>3. Append(up[r], Kind[r]) \in Seq(Lines) /\ Tail(down[r]) \in Seq(Responses)
        BY <2>3, <4>1, <4>2
      <4>4. QED
        BY <3>1, <4>3 DEF TypeOK
    <3>3. QED
      BY <3>1, <3>2 DEF TypeOK
  <2>4. QED
    BY <1>2, <2>1, <2>2, <2>3 DEF SayHello, ReadAccept, Say
<1>3. ASSUME NEW r \in Requests, ReadAnswer(r) PROVE TypeOK'
  <2>1. ASSUME NEW how \in {"answered", "refused", "short", "failed"}, Finish(r, how)
        PROVE  TypeOK'
    BY <1>3, <2>1, FinishType DEF ReadAnswer, Ended, TypeOK
  <2>2. Meaning(Kind[r], Head(down[r])) \in {"more", "answered", "refused", "failed"}
    BY DEF Meaning, Kinds
  <2>3. CASE /\ down' = [down EXCEPT ![r] = Tail(@)] /\ down[r] # <<>>
             /\ UNCHANGED <<pc, outcome, left>>
    BY <1>3, <2>3 DEF ReadAnswer, TypeOK, Clients
  <2>4. QED
    BY <1>3, <2>1, <2>2, <2>3 DEF ReadAnswer
<1>4. ASSUME NEW r \in Requests, ConnectFails(r) \/ Cancel(r) PROVE TypeOK'
  <2>1. ASSUME NEW how \in {"failed", "cancelled"}, Finish(r, how) PROVE TypeOK'
    BY <1>4, <2>1, FinishType DEF ConnectFails, Cancel, Ended, TypeOK
  <2>2. QED
    BY <1>4, <2>1 DEF ConnectFails, Cancel
<1>5. ASSUME NEW c \in Others, WriteNext(c) PROVE TypeOK'
  <2>1. Script[c][said[c] + 1] \in Lines
    BY <1>5 DEF WriteNext, TypeOK
  <2>2. up' \in [Clients -> Seq(Lines)]
    BY <1>5, <2>1 DEF WriteNext, TypeOK, Clients
  <2>3. said' \in [Others -> Nat]
    BY <1>5 DEF WriteNext, TypeOK
  <2>4. QED
    BY <1>5, <2>2, <2>3 DEF WriteNext, TypeOK, daemonVars
<1>6. ASSUME NEW c \in Others, HangUp(c) PROVE TypeOK'
  <2>1. up \in [Clients -> Seq(Lines)] /\ c \in Clients
    BY DEF TypeOK, Clients
  <2> DEFINE torn == Append(up[c], "broken")
  <2>2. torn \in Seq(Lines)
    <3>1. "broken" \in Lines /\ up[c] \in Seq(Lines)
      BY <2>1 DEF Lines
    <3>2. QED
      BY <3>1
  <2>3. [up EXCEPT ![c] = torn] \in [Clients -> Seq(Lines)]
    <3> HIDE DEF torn
    <3>1. QED
      BY <2>1, <2>2
  <2>4. up' \in {up, [up EXCEPT ![c] = torn]}
    BY <1>6 DEF HangUp
  <2>5. up' \in [Clients -> Seq(Lines)]
    BY <2>1, <2>3, <2>4
  <2>6. pc' \in [Clients -> {"connect", "hello", "accept", "answer", "talk", "over"}]
    BY <1>6 DEF HangUp, Goto, TypeOK, Clients
  <2>7. left' \subseteq Clients
    BY <1>6 DEF HangUp, TypeOK, Clients
  <2>8. QED
    BY <1>6, <2>5, <2>6, <2>7 DEF HangUp, TypeOK, daemonVars
<1>7. CASE ReadLine
  <2>1. conn \in Clients /\ Head(up[conn]) \in Lines /\ Tail(up[conn]) \in Seq(Lines)
    BY <1>7 DEF ReadLine, TypeOK, ServingInv
  <2>2. \A res \in {"done", "refused"} : Reply(Head(up[conn]), res) \in Seq(Responses)
    BY <2>1, ReplyType
  <2>3. pending' \in Seq(Responses) /\ closing' \in BOOLEAN
    BY <1>7, <2>2 DEF ReadLine, HangsUpAfter
  <2>4. /\ last' \in [Clients -> Lines \cup {None}]
        /\ runs' \in [Requests -> Nat] /\ result' \in [Requests -> {"none", "done", "refused"}]
    <3>1. PICK res \in {"done", "refused"} : Handle(conn, Head(up[conn]), res)
      BY <1>7 DEF ReadLine
    <3>2. last' \in [Clients -> Lines \cup {None}]
      BY <2>1, <3>1 DEF Handle, TypeOK
    <3>3. runs' \in [Requests -> Nat] /\ result' \in [Requests -> {"none", "done", "refused"}]
      <4>1. CASE UNCHANGED <<runs, result>>
        BY <4>1 DEF TypeOK
      <4>2. CASE /\ conn \in Requests
                 /\ runs' = [runs EXCEPT ![conn] = @ + 1]
                 /\ result' = [result EXCEPT ![conn] = res]
        <5>1. runs[conn] + 1 \in Nat
          BY <4>2 DEF TypeOK
        <5>2. QED
          BY <4>2, <5>1 DEF TypeOK
      <4>3. QED
        BY <3>1, <4>1, <4>2 DEF Handle
    <3>4. QED
      BY <3>2, <3>3
  <2>5. up' \in [Clients -> Seq(Lines)]
    BY <1>7, <2>1 DEF ReadLine, TypeOK
  <2>6. QED
    BY <1>7, <2>3, <2>4, <2>5 DEF ReadLine, TypeOK
<1>8. CASE WriteResponse
  BY <1>8 DEF WriteResponse, TypeOK, ServingInv
<1>9. CASE EndConnection \/ NextInstance \/ Restart \/ Die
  <2>1. CASE LetGo /\ conn \in Clients /\ phase' \in {"between", "down"} /\ deaths' \in 0..MaxDeaths
    BY <2>1, Nothing DEF LetGo, TypeOK
  <2>2. CASE EndConnection
    BY <2>1, <2>2 DEF EndConnection, TypeOK, ServingInv
  <2>3. CASE Die
    <3>1. deaths' \in 0..MaxDeaths
      BY <2>3 DEF Die, TypeOK
    <3>2. CASE conn = None
      BY <2>3, <3>1, <3>2 DEF Die, TypeOK
    <3>3. CASE conn # None
      BY <2>1, <2>3, <3>1, <3>3 DEF Die, TypeOK
    <3>4. QED
      BY <3>2, <3>3
  <2>4. QED
    BY <1>9, <2>2, <2>3 DEF NextInstance, Restart, TypeOK
<1>10. CASE UNCHANGED vars
  BY <1>10 DEF vars, TypeOK
<1>11. QED
  BY <1>1, <1>2, <1>3, <1>4, <1>5, <1>6, <1>7, <1>8, <1>9, <1>10 DEF Next, Step, Serve

LEMMA ServingStep == TypeOK /\ ServingInv /\ [Next]_vars => ServingInv'
<1> SUFFICES ASSUME TypeOK, ServingInv, [Next]_vars PROVE ServingInv'
  OBVIOUS
<1> USE SessionAssumption DEF clientVars, pipeVars, daemonVars, ServingInv
<1>1. ASSUME NEW c \in Clients, Connect(c) PROVE ServingInv'
  BY <1>1 DEF Connect, Clients
<1>2. ASSUME NEW r \in Requests, Step(r) \/ ConnectFails(r) \/ Cancel(r) PROVE ServingInv'
  BY <1>2 DEF Step, SayHello, ReadAccept, ReadAnswer, ConnectFails, Cancel
<1>3. ASSUME NEW c \in Others, WriteNext(c) \/ HangUp(c) PROVE ServingInv'
  BY <1>3 DEF WriteNext, HangUp
<1>4. CASE ReadLine \/ WriteResponse
  BY <1>4 DEF ReadLine, WriteResponse
<1>5. CASE EndConnection \/ NextInstance \/ Restart \/ Die
  BY <1>5 DEF EndConnection, NextInstance, Restart, Die, LetGo
<1>6. CASE UNCHANGED vars
  BY <1>6 DEF vars
<1>7. QED
  BY <1>1, <1>2, <1>3, <1>4, <1>5, <1>6 DEF Next, Serve

-----------------------------------------------------------------------------

(* What is nobody else's business stays as it is.                          *)
LEMMA Frame ==
  ASSUME NEW r \in Requests, RequestInv(r),
         pc'[r] = pc[r], outcome'[r] = outcome[r], up'[r] = up[r], down'[r] = down[r],
         runs'[r] = runs[r], result'[r] = result[r],
         conn' = r => (conn = r /\ pending' = pending) \/ pending' = <<>>
  PROVE  RequestInv(r)'
<1>1. SentInv(r)'
  BY DEF RequestInv, SentInv
<1>2. TruthInv(r)'
  BY DEF RequestInv, TruthInv, Truthful
<1>3. QED
  BY <1>1, <1>2 DEF RequestInv

(* A request that is over.                                                 *)
LEMMA Finished ==
  ASSUME TypeOK, NEW r \in Requests, RequestInv(r), NEW how,
         how # "pending", Finish(r, how), up'[r] = up[r],
         runs' = runs, result' = result, conn' = conn, pending' = pending
  PROVE  RequestInv(r)'
<1>1. pc'[r] = "over" /\ outcome'[r] # "pending" /\ down'[r] = <<>>
  BY DEF Finish, Goto, TypeOK, Clients
<1>2. SentInv(r)'
  BY <1>1 DEF RequestInv, SentInv
<1>3. TruthInv(r)'
  BY <1>1 DEF RequestInv, TruthInv, Truthful
<1>4. QED
  BY <1>1, <1>2, <1>3 DEF RequestInv

LEMMA Elsewhere ==
  ASSUME TypeOK, NEW r \in Requests, NEW q \in Clients, q # r, RequestInv(r),
         \/ q \in Requests /\ (Step(q) \/ ConnectFails(q) \/ Cancel(q))
         \/ q \in Others /\ (WriteNext(q) \/ HangUp(q))
  PROVE  RequestInv(r)'
<1> USE DEF clientVars, pipeVars, daemonVars
<1>1. /\ pc'[r] = pc[r] /\ outcome'[r] = outcome[r] /\ up'[r] = up[r] /\ down'[r] = down[r]
      /\ runs' = runs /\ result' = result /\ conn' = conn /\ pending' = pending
  BY SessionAssumption
     DEF Step, SayHello, ReadAccept, ReadAnswer, ConnectFails, Cancel, WriteNext, HangUp,
         Say, Finish, Goto, TypeOK, Clients
<1>2. QED
  BY <1>1, Frame

(* The request's own steps.                                                *)
LEMMA OwnStep ==
  ASSUME TypeOK, NEW r \in Requests, RequestInv(r), Step(r) \/ ConnectFails(r) \/ Cancel(r)
  PROVE  RequestInv(r)'
<1> USE DEF daemonVars
<1>a. r \in Clients /\ up[r] \in Seq(Lines) /\ down[r] \in Seq(Responses)
  BY DEF TypeOK, Clients
<1>b. \A i \in 1..Len(up[r]) : up[r][i] \in {"hello", Kind[r]}
  BY DEF RequestInv, SentInv
<1>1. CASE ConnectFails(r) \/ Cancel(r)
  <2>1. PICK how \in {"failed", "cancelled"} : Finish(r, how)
    BY <1>1 DEF ConnectFails, Cancel
  <2>2. QED
    BY <1>1, <2>1, Finished DEF ConnectFails, Cancel
<1>2. ASSUME Finish(r, "failed"), UNCHANGED <<up, daemonVars>> PROVE RequestInv(r)'
  BY <1>2, Finished
<1>3. CASE SayHello(r) /\ r \notin dropped
  <2>1. /\ up'[r] = Append(up[r], "hello") /\ pc[r] = "hello" /\ pc'[r] = "accept"
        /\ UNCHANGED <<outcome, down, daemonVars>>
    BY <1>a, <1>3 DEF SayHello, Say, Goto, TypeOK
  <2>2. runs[r] = 0 /\ \A i \in 1..Len(up[r]) : up[r][i] = "hello"
    BY <2>1 DEF RequestInv, SentInv
  <2>3. \A i \in 1..Len(up'[r]) : up'[r][i] = "hello"
    BY <1>a, <2>1, <2>2
  <2>4. SentInv(r)'
    BY <2>1, <2>2, <2>3 DEF RequestInv, SentInv
  <2>5. TruthInv(r)'
    BY <2>1 DEF RequestInv, TruthInv, Truthful
  <2>6. QED
    BY <2>1, <2>4, <2>5 DEF RequestInv
<1>4. CASE ReadAccept(r) /\ r \notin dropped /\ down[r] # <<>> /\ Head(down[r]) = "accepted"
  <2>1. /\ up'[r] = Append(up[r], Kind[r]) /\ down'[r] = Tail(down[r])
        /\ pc[r] = "accept" /\ pc'[r] = "answer"
        /\ UNCHANGED <<outcome, daemonVars>>
    BY <1>a, <1>4 DEF ReadAccept, AtEnd, Say, Goto, TypeOK
  <2>2. runs[r] = 0 /\ \A i \in 1..Len(up[r]) : up[r][i] = "hello"
    BY <2>1 DEF RequestInv, SentInv
  <2>3. /\ \A i \in 1..Len(up'[r]) : up'[r][i] \in {"hello", Kind[r]}
        /\ \A i \in 1..Len(up'[r]) : i < Len(up'[r]) => up'[r][i] = "hello"
    BY <1>a, <2>1, <2>2
  <2>4. SentInv(r)'
    BY <2>1, <2>2, <2>3 DEF RequestInv, SentInv
  <2>5. \A i \in 1..Len(down'[r]) : Truthful(r, down'[r][i], result[r])
    BY <1>a, <1>4, <2>1 DEF RequestInv, TruthInv
  <2>6. TruthInv(r)'
    BY <2>1, <2>5 DEF RequestInv, TruthInv, Truthful
  <2>7. QED
    BY <2>1, <2>4, <2>6 DEF RequestInv
<1>5. CASE ReadAnswer(r)
  <2>1. CASE /\ down[r] # <<>> /\ down' = [down EXCEPT ![r] = Tail(@)]
             /\ UNCHANGED <<pc, outcome, up, daemonVars>>
    <3>1. down'[r] = Tail(down[r])
      BY <1>a, <2>1 DEF TypeOK
    <3>2. \A i \in 1..Len(down'[r]) : Truthful(r, down'[r][i], result[r])
      BY <1>a, <2>1, <3>1 DEF RequestInv, TruthInv
    <3>3. SentInv(r)' /\ TruthInv(r)'
      BY <2>1, <3>2 DEF RequestInv, SentInv, TruthInv, Truthful
    <3>4. QED
      BY <2>1, <3>3 DEF RequestInv
  <2>2. ASSUME NEW how, how # "pending", Finish(r, how) PROVE RequestInv(r)'
    BY <1>5, <2>2, Finished DEF ReadAnswer
  <2>3. Meaning(Kind[r], Head(down[r])) # "pending"
    BY SessionAssumption DEF Meaning, Kinds
  <2>4. QED
    BY <1>5, <2>1, <2>2, <2>3 DEF ReadAnswer
<1>6. QED
  BY <1>1, <1>2, <1>3, <1>4, <1>5 DEF Step, SayHello, ReadAccept, Say

(* What the daemon makes of a request is what it answers.                  *)
LEMMA ReplyIsTruthful ==
  ASSUME NEW r \in Requests, NEW line \in {"hello", Kind[r]}, NEW res \in {"done", "refused"},
         res = "refused" => line = "action", line # "hello" => result'[r] = res
  PROVE  \A i \in 1..Len(Reply(line, res)) : Truthful(r, Reply(line, res)[i], result'[r])
<1>1. Kind[r] \in Kinds /\ Kind'[r] = Kind[r]
  BY SessionAssumption
<1>2. CASE line = "hello"
  <2>1. Reply(line, res) = <<"accepted">> 
    BY <1>2 DEF Reply
  <2>2. Meaning(Kind[r], "accepted") \in {"more", "failed"}
    BY <1>1 DEF Meaning, Kinds
  <2>3. QED
    BY <2>1, <2>2 DEF Truthful
<1>3. CASE line = "search"
  <2>1. Reply(line, res) = <<"batch", "completed">> /\ Kind[r] = "search" /\ result'[r] = "done"
    BY <1>3 DEF Reply
  <2>2. Meaning("search", "batch") = "more" /\ Meaning("search", "completed") = "answered"
    BY DEF Meaning
  <2>3. QED
    BY <2>1, <2>2 DEF Truthful
<1>4. CASE line = "action"
  <2>1. Reply(line, res) = <<res>> /\ Kind[r] = "action" /\ result'[r] = res
    BY <1>4 DEF Reply
  <2>2. Meaning("action", "done") = "answered" /\ Meaning("action", "refused") = "refused"
    BY DEF Meaning
  <2>3. QED
    BY <2>1, <2>2 DEF Truthful
<1>5. CASE line = "preview"
  <2>1. Reply(line, res) = <<"chunk", "ready">> /\ Kind[r] = "preview" /\ result'[r] = "done"
    BY <1>5 DEF Reply
  <2>2. Meaning("preview", "chunk") = "more" /\ Meaning("preview", "ready") = "answered"
    BY DEF Meaning
  <2>3. QED
    BY <2>1, <2>2 DEF Truthful
<1>6. CASE line = "diagnostics"
  <2>1. Reply(line, res) = <<"report">> /\ Kind[r] = "diagnostics" /\ result'[r] = "done"
    BY <1>6 DEF Reply
  <2>2. Meaning("diagnostics", "report") = "answered"
    BY DEF Meaning
  <2>3. QED
    BY <2>1, <2>2 DEF Truthful
<1>7. QED
  BY <1>1, <1>2, <1>3, <1>4, <1>5, <1>6 DEF Kinds

LEMMA ServedStep ==
  ASSUME TypeOK, ServingInv, NEW r \in Requests, RequestInv(r), conn = r, ReadLine \/ WriteResponse
  PROVE  RequestInv(r)'
<1> USE DEF clientVars
<1>a. r \in Clients /\ up[r] \in Seq(Lines) /\ down[r] \in Seq(Responses) /\ pending \in Seq(Responses)
  BY DEF TypeOK, Clients
<1>1. CASE ReadLine
  <2> DEFINE line == Head(up[r])
  <2>1. PICK res \in {"done", "refused"} : Handle(r, line, res) /\ pending' = Reply(line, res)
    BY <1>1 DEF ReadLine
  <2>2. /\ up[r] # <<>> /\ up'[r] = Tail(up[r]) /\ conn' = r
        /\ UNCHANGED <<pc, outcome, down>>
    BY <1>a, <1>1 DEF ReadLine, TypeOK
  <2>3. line \in {"hello", Kind[r]} /\ runs[r] = 0 /\ result[r] = "none"
    BY <1>a, <2>2 DEF RequestInv, SentInv
  <2>4. CASE line = "hello"
    <3>1. UNCHANGED <<runs, result>>
      BY <2>1, <2>4 DEF Handle, Kinds
    <3>2. SentInv(r)'
      BY <1>a, <2>2, <2>3, <3>1 DEF RequestInv, SentInv
    <3>3. \A i \in 1..Len(pending') : Truthful(r, pending'[i], result'[r])
      BY <2>1, <2>3, <2>4, ReplyIsTruthful DEF Handle
    <3>4. TruthInv(r)'
      BY <2>2, <3>1, <3>3 DEF RequestInv, TruthInv, Truthful
    <3>5. QED
      BY <2>2, <3>2, <3>4 DEF RequestInv
  <2>5. CASE line # "hello"
    <3>1. line = Kind[r] /\ runs'[r] = 1 /\ result'[r] = res
      BY <2>1, <2>3, <2>5, SessionAssumption DEF Handle, TypeOK
    <3>2. Len(up[r]) = 1 /\ up'[r] = <<>> /\ pc[r] \notin {"connect", "hello", "accept"}
      <4>1. Len(up[r]) \in Nat /\ Len(up[r]) > 0 /\ up[r][1] = line
        BY <1>a, <2>2
      <4>2. up[r][1] # "hello" /\ 1 \in 1..Len(up[r])
        BY <2>5, <4>1
      <4>3. ~(1 < Len(up[r])) /\ pc[r] \notin {"connect", "hello", "accept"}
        BY <4>2 DEF RequestInv, SentInv
      <4>4. Len(up[r]) = 1
        <5>1. \A n \in Nat : n > 0 /\ ~(1 < n) => n = 1
          OBVIOUS
        <5>2. QED
          BY <4>1, <4>3, <5>1
      <4>5. Tail(up[r]) \in Seq(Lines) /\ Len(Tail(up[r])) = 0
        BY <1>a, <2>2, <4>4
      <4>6. \A t \in Seq(Lines) : Len(t) = 0 => t = <<>>
        OBVIOUS
      <4>7. QED
        BY <2>2, <4>3, <4>4, <4>5, <4>6
    <3>3. SentInv(r)'
      <4>1. 1..Len(up'[r]) = {}
        BY <3>2
      <4>2. QED
        BY <2>2, <3>1, <3>2, <4>1 DEF SentInv
    <3>4. \A i \in 1..Len(pending') : Truthful(r, pending'[i], result'[r])
      BY <2>1, <2>3, <3>1, ReplyIsTruthful DEF Handle
    <3>5. \A i \in 1..Len(down[r]) : Truthful(r, down[r][i], result'[r])
      BY <2>3 DEF RequestInv, TruthInv, Truthful
    <3>6. TruthInv(r)'
      BY <2>2, <3>4, <3>5 DEF TruthInv
    <3>7. QED
      BY <2>2, <3>3, <3>6 DEF RequestInv
  <2>6. QED
    BY <2>4, <2>5
<1>2. CASE WriteResponse
  <2>1. /\ pending # <<>> /\ down'[r] = Append(down[r], Head(pending)) /\ pending' = Tail(pending)
        /\ UNCHANGED <<pc, outcome, up, conn, runs, result>>
    BY <1>a, <1>2 DEF WriteResponse, TypeOK
  <2>2. \A i \in 1..Len(pending) : Truthful(r, pending[i], result[r])
    BY DEF RequestInv, TruthInv
  <2>3. Truthful(r, Head(pending), result[r]) /\ \A i \in 1..Len(pending') : Truthful(r, pending'[i], result[r])
    BY <1>a, <2>1, <2>2
  <2>4. \A i \in 1..Len(down'[r]) : Truthful(r, down'[r][i], result[r])
    BY <1>a, <2>1, <2>3 DEF RequestInv, TruthInv
  <2>5. TruthInv(r)'
    BY <2>1, <2>3, <2>4 DEF TruthInv, Truthful
  <2>6. SentInv(r)'
    BY <2>1 DEF RequestInv, SentInv
  <2>7. QED
    BY <2>1, <2>5, <2>6 DEF RequestInv
<1>3. QED
  BY <1>1, <1>2

LEMMA RequestStep ==
  ASSUME Inv, [Next]_vars, NEW r \in Requests PROVE RequestInv(r)'
<1> USE DEF clientVars, pipeVars, daemonVars
<1>a. TypeOK /\ ServingInv /\ RequestInv(r) /\ r \in Clients /\ r # None
  BY SessionAssumption DEF Inv, Clients
<1>1. ASSUME NEW c \in Clients, Connect(c) PROVE RequestInv(r)'
  <2>1. /\ outcome' = outcome /\ up' = up /\ down' = down /\ runs' = runs /\ result' = result
        /\ conn' = c /\ pending' = <<>>
    BY <1>a, <1>1 DEF Connect, ServingInv
  <2>2. CASE c # r
    BY <1>a, <1>1, <2>1, <2>2, Frame DEF Connect, Goto, TypeOK
  <2>3. CASE c = r
    <3>1. pc[r] = "connect" /\ pc'[r] = "hello"
      BY <1>a, <1>1, <2>3 DEF Connect, Goto, TypeOK
    <3>2. SentInv(r)' /\ TruthInv(r)'
      BY <1>a, <2>1, <3>1 DEF RequestInv, SentInv, TruthInv, Truthful
    <3>3. QED
      BY <1>a, <2>1, <3>1, <3>2 DEF RequestInv
  <2>4. QED
    BY <2>2, <2>3
<1>2. ASSUME NEW q \in Requests, Step(q) \/ ConnectFails(q) \/ Cancel(q) PROVE RequestInv(r)'
  BY <1>a, <1>2, Elsewhere, OwnStep DEF Clients
<1>3. ASSUME NEW q \in Others, WriteNext(q) \/ HangUp(q) PROVE RequestInv(r)'
  BY <1>a, <1>3, Elsewhere, SessionAssumption DEF Clients
<1>4. CASE ReadLine \/ WriteResponse
  <2>1. CASE conn = r
    BY <1>a, <1>4, <2>1, ServedStep
  <2>2. CASE conn # r
    <3>1. /\ pc' = pc /\ outcome' = outcome /\ up'[r] = up[r] /\ down'[r] = down[r]
          /\ runs'[r] = runs[r] /\ result'[r] = result[r] /\ conn' # r
      BY <1>a, <1>4, <2>2 DEF ReadLine, WriteResponse, Handle, TypeOK
    <3>2. QED
      BY <1>a, <3>1, Frame
  <2>3. QED
    BY <2>1, <2>2
<1>5. CASE EndConnection \/ NextInstance \/ Restart \/ Die
  <2>1. /\ pc' = pc /\ outcome' = outcome /\ up' = up /\ down' = down
        /\ runs' = runs /\ result' = result
        /\ conn' = None \/ (conn' = conn /\ pending' = pending)
    BY <1>5 DEF EndConnection, NextInstance, Restart, Die, LetGo
  <2>2. QED
    BY <1>a, <2>1, Frame
<1>6. CASE UNCHANGED vars
  BY <1>a, <1>6, Frame DEF vars
<1>7. QED
  BY <1>1, <1>2, <1>3, <1>4, <1>5, <1>6 DEF Next, Serve

LEMMA Invariance == Spec => []Inv
<1>1. Inv /\ [Next]_vars => Inv'
  <2> SUFFICES ASSUME Inv, [Next]_vars PROVE Inv'
    OBVIOUS
  <2>1. TypeOK' /\ ServingInv'
    BY TypeStep, ServingStep DEF Inv
  <2>2. QED
    BY <2>1, RequestStep DEF Inv
<1>2. QED
  BY <1>1, InvInit, PTL DEF Spec

-----------------------------------------------------------------------------

(* Types.                                                                  *)
THEOREM Typing == Spec => []TypeOK
<1>1. Inv => TypeOK
  BY DEF Inv
<1>2. QED
  BY <1>1, Invariance, PTL

(* A request that ends does so as its contract allows.                     *)
LEMMA FinishKeeps ==
  ASSUME Inv, NEW r \in Requests, pc[r] # "over", NEW how, Finish(r, how),
         UNCHANGED <<runs, result>>,
         \/ how \in {"failed", "cancelled"}
         \/ how = "short" /\ r \in Streamed
         \/ how = "answered" /\ result[r] = "done"
         \/ how = "refused" /\ result[r] = "refused"
  PROVE  Contract!Next
<1>1. outcome[r] = "pending" /\ outcome' = [outcome EXCEPT ![r] = how]
  BY DEF Inv, RequestInv, Finish
<1>2. Contract!End(r, how)
  BY <1>1 DEF Contract!End
<1>3. QED
  BY <1>2 DEF Contract!Next

LEMMA StepKeeps == Inv /\ [Next]_vars => [Contract!Next]_(Contract!vars)
<1> SUFFICES ASSUME Inv, [Next]_vars PROVE Contract!Next \/ UNCHANGED Contract!vars
  OBVIOUS
<1> USE DEF clientVars, pipeVars, daemonVars, Contract!vars
<1>1. ASSUME NEW r \in Requests, ConnectFails(r) \/ Cancel(r) PROVE Contract!Next
  BY <1>1, FinishKeeps DEF ConnectFails, Cancel
<1>2. ASSUME NEW r \in Requests, SayHello(r) \/ ReadAccept(r)
      PROVE  Contract!Next \/ UNCHANGED Contract!vars
  BY <1>2, FinishKeeps DEF SayHello, ReadAccept, Say
<1>3. ASSUME NEW r \in Requests, ReadAnswer(r) PROVE Contract!Next \/ UNCHANGED Contract!vars
  <2>1. CASE down[r] # <<>>
    <3> DEFINE x == Head(down[r])
    <3>1. down[r] \in Seq(Responses)
      BY DEF Inv, TypeOK, Clients
    <3>2. Truthful(r, x, result[r])
      BY <2>1, <3>1 DEF Inv, RequestInv, TruthInv
    <3>3. Meaning(Kind[r], x) \in {"more", "answered", "refused", "failed"}
      BY SessionAssumption DEF Meaning, Kinds
    <3>4. CASE Finish(r, Meaning(Kind[r], x)) /\ Meaning(Kind[r], x) # "more"
      BY <1>3, <3>2, <3>3, <3>4, FinishKeeps DEF ReadAnswer, Truthful
    <3>5. CASE UNCHANGED outcome
      BY <1>3, <3>5 DEF ReadAnswer
    <3>6. QED
      BY <1>3, <2>1, <3>4, <3>5 DEF ReadAnswer, AtEnd
  <2>2. CASE down[r] = <<>>
    <3>1. Finish(r, IF r \in Streamed THEN "short" ELSE "failed")
      BY <1>3, <2>2 DEF ReadAnswer
    <3>2. QED
      BY <1>3, <3>1, FinishKeeps DEF ReadAnswer
  <2>3. QED
    BY <2>1, <2>2
<1>4. CASE ReadLine
  <2>1. PICK res \in {"done", "refused"} : Handle(conn, Head(up[conn]), res)
    BY <1>4 DEF ReadLine
  <2>2. CASE conn \in Requests /\ Head(up[conn]) \in Kinds
    <3>1. up[conn] # <<>>
      BY <1>4 DEF ReadLine
    <3>2. runs[conn] = 0
      BY <2>2, <3>1 DEF Inv, RequestInv, SentInv
    <3>3. runs' = [runs EXCEPT ![conn] = 1] /\ result' = [result EXCEPT ![conn] = res]
      BY <2>1, <2>2, <3>2 DEF Handle, Inv, TypeOK
    <3>4. Contract!CarryOut(conn)
      BY <1>4, <3>2, <3>3 DEF Contract!CarryOut, Contract!Results, ReadLine
    <3>5. QED
      BY <2>2, <3>4 DEF Contract!Next
  <2>3. CASE ~(conn \in Requests /\ Head(up[conn]) \in Kinds)
    BY <1>4, <2>1, <2>3 DEF ReadLine, Handle
  <2>4. QED
    BY <2>2, <2>3
<1>5. ASSUME NEW c \in Clients, Connect(c) PROVE UNCHANGED Contract!vars
  BY <1>5 DEF Connect
<1>6. ASSUME NEW c \in Others, WriteNext(c) \/ HangUp(c) PROVE UNCHANGED Contract!vars
  BY <1>6 DEF WriteNext, HangUp
<1>7. CASE WriteResponse \/ EndConnection \/ NextInstance \/ Restart \/ Die
  BY <1>7 DEF WriteResponse, EndConnection, NextInstance, Restart, Die, LetGo
<1>8. CASE UNCHANGED vars
  BY <1>8 DEF vars
<1>9. QED
  BY <1>1, <1>2, <1>3, <1>4, <1>5, <1>6, <1>7, <1>8 DEF Next, Step, Serve

(* The pipe session implements the contract: whatever dies, hangs up or    *)
(* writes rubbish, a request is carried out at most once and its answer is *)
(* its own.                                                                *)
THEOREM SessionKeepsContract == Spec => KeepsContract
<1>1. Init => Contract!Init
  BY DEF Init, Contract!Init
<1>2. QED
  BY <1>1, StepKeeps, Invariance, PTL DEF Spec, KeepsContract, Contract!Spec

-----------------------------------------------------------------------------
(***************************************************************************)
(* The line reader below a session.  What follows is proved of LineReader  *)
(* alone.                                                                  *)
(***************************************************************************)

(* The instance counts as this module does.                                *)
LEMMA SameCount == \A S : Reader!Cardinality(S) = Cardinality(S)
  BY DEF Reader!Cardinality, Cardinality

-----------------------------------------------------------------------------
(* The numbers of a set, counted from the least one on: what Ends is of the *)
(* newlines.                                                                *)
No(N, p) == Cardinality(N \cap 1..p)
EndsIn(N) == [k \in 1..Cardinality(N) |-> CHOOSE p \in N : No(N, p) = k]
Numbered(N) == \A k \in 1..Cardinality(N) : \E p \in N : No(N, p) = k

LEMMA Finite ==
  ASSUME NEW s \in Nat, NEW N \in SUBSET (1..s)
  PROVE  /\ IsFiniteSet(N) /\ Cardinality(N) \in Nat
         /\ \A p \in Nat : /\ IsFiniteSet(N \cap 1..p) /\ No(N, p) \in Nat
                           /\ No(N, p) <= Cardinality(N)
<1>1. IsFiniteSet(1..s)
  BY FS_Interval
<1>2. IsFiniteSet(N) /\ Cardinality(N) \in Nat
  BY <1>1, FS_Subset, FS_CardinalityType
<1>3. ASSUME NEW p \in Nat
      PROVE  /\ IsFiniteSet(N \cap 1..p) /\ No(N, p) \in Nat /\ No(N, p) <= Cardinality(N)
  <2>1. N \cap 1..p \in SUBSET N
    OBVIOUS
  <2>2. QED
    BY <1>2, <2>1, FS_Subset, FS_CardinalityType DEF No
<1>4. QED
  BY <1>2, <1>3

LEMMA NoGrows ==
  ASSUME NEW s \in Nat, NEW N \in SUBSET (1..s), NEW p \in N, NEW q \in N, p < q
  PROVE  No(N, p) < No(N, q)
<1>1. p \in Nat /\ q \in Nat
  OBVIOUS
<1>2. N \cap 1..p \in SUBSET (N \cap 1..q) /\ q \in N \cap 1..q /\ q \notin N \cap 1..p
  BY <1>1
<1>3. N \cap 1..p # N \cap 1..q
  BY <1>2
<1>4. IsFiniteSet(N \cap 1..q) /\ No(N, p) \in Nat /\ No(N, q) \in Nat
  BY <1>1, Finite
<1>5. /\ Cardinality(N \cap 1..p) <= Cardinality(N \cap 1..q)
      /\ Cardinality(N \cap 1..p) # Cardinality(N \cap 1..q)
  BY <1>2, <1>3, <1>4, FS_Subset
<1>6. QED
  BY <1>4, <1>5 DEF No

LEMMA NoDiffers ==
  ASSUME NEW s \in Nat, NEW N \in SUBSET (1..s), NEW p \in N, NEW q \in N, No(N, p) = No(N, q)
  PROVE  p = q
<1>1. p \in Nat /\ q \in Nat
  OBVIOUS
<1>2. No(N, p) \in Nat
  BY <1>1, Finite
<1>3. ASSUME p < q PROVE FALSE
  <2>1. No(N, p) < No(N, q)
    BY <1>3, NoGrows
  <2>2. QED
    BY <1>2, <2>1
<1>4. ASSUME q < p PROVE FALSE
  <2>1. No(N, q) < No(N, p)
    BY <1>4, NoGrows
  <2>2. QED
    BY <1>2, <2>1
<1>5. QED
  BY <1>1, <1>3, <1>4

LEMMA EndAt ==
  ASSUME NEW N, Numbered(N), NEW k \in 1..Cardinality(N)
  PROVE  EndsIn(N)[k] \in N /\ No(N, EndsIn(N)[k]) = k
<1>1. \E p \in N : No(N, p) = k
  BY DEF Numbered
<1>2. EndsIn(N)[k] = CHOOSE p \in N : No(N, p) = k
  BY DEF EndsIn
<1>3. QED
  BY <1>1, <1>2

(* A number larger than those of the set becomes its last one.             *)
LEMMA OneMore ==
  ASSUME NEW s \in Nat, NEW N \in SUBSET (1..s), Numbered(N), NEW q \in Nat, s < q
  PROVE  /\ Numbered(N \cup {q})
         /\ Cardinality(N \cup {q}) = Cardinality(N) + 1
         /\ \A k \in 1..Cardinality(N) : EndsIn(N \cup {q})[k] = EndsIn(N)[k]
         /\ EndsIn(N \cup {q})[Cardinality(N) + 1] = q
<1> DEFINE M == N \cup {q}
<1>0. /\ M \in SUBSET (1..q) /\ q \notin N /\ M \cap 1..q = M
      /\ \A p \in N : p \in Nat /\ M \cap 1..p = N \cap 1..p
  <2>1. M \in SUBSET (1..q) /\ q \notin N
    OBVIOUS
  <2>2. M \cap 1..q = M
    BY <2>1
  <2>3. ASSUME NEW p \in N PROVE p \in Nat /\ M \cap 1..p = N \cap 1..p
    OBVIOUS
  <2>4. QED
    BY <2>1, <2>2, <2>3
<1>1. IsFiniteSet(N) /\ Cardinality(N) \in Nat
  BY Finite
<1>2. Cardinality(M) = Cardinality(N) + 1
  BY <1>0, <1>1, FS_AddElement
<1>3. No(M, q) = Cardinality(N) + 1 /\ \A p \in N : No(M, p) = No(N, p)
  BY <1>0, <1>2 DEF No
<1> HIDE DEF M
<1>m. N \subseteq M /\ q \in M
  BY DEF M
<1>4. Numbered(M)
  <2>1. ASSUME NEW k \in 1..Cardinality(M) PROVE \E p \in M : No(M, p) = k
    <3>1. CASE k = Cardinality(N) + 1
      BY <1>3, <1>m, <3>1
    <3>2. CASE k \in 1..Cardinality(N)
      <4>1. PICK p \in N : No(N, p) = k
        BY <3>2 DEF Numbered
      <4>2. QED
        BY <1>3, <1>m, <4>1
    <3>3. QED
      BY <1>1, <1>2, <3>1, <3>2
  <2>2. QED
    BY <2>1 DEF Numbered
<1>5. ASSUME NEW k \in 1..Cardinality(N) PROVE EndsIn(M)[k] = EndsIn(N)[k]
  <2>1. EndsIn(N)[k] \in N /\ No(N, EndsIn(N)[k]) = k
    BY EndAt
  <2>2. k \in 1..Cardinality(M)
    BY <1>1, <1>2
  <2>3. EndsIn(M)[k] \in M /\ No(M, EndsIn(M)[k]) = k
    BY <1>4, <2>2, EndAt
  <2>4. EndsIn(N)[k] \in M /\ No(M, EndsIn(N)[k]) = k
    BY <1>3, <1>m, <2>1
  <2>5. QED
    BY <1>0, <2>3, <2>4, NoDiffers
<1>6. EndsIn(M)[Cardinality(N) + 1] = q
  <2>1. Cardinality(N) + 1 \in 1..Cardinality(M)
    BY <1>1, <1>2
  <2>2. /\ EndsIn(M)[Cardinality(N) + 1] \in M
        /\ No(M, EndsIn(M)[Cardinality(N) + 1]) = Cardinality(N) + 1
    BY <1>4, <2>1, EndAt
  <2>3. No(M, EndsIn(M)[Cardinality(N) + 1]) = No(M, q)
    BY <1>3, <2>2
  <2>4. QED
    BY <1>0, <1>m, <2>2, <2>3, NoDiffers
<1>7. QED
  BY <1>2, <1>4, <1>5, <1>6 DEF M

-----------------------------------------------------------------------------
(* The invariant: the reader holds what was consumed since the last         *)
(* newline, or nothing once the end of the stream made a line of that.      *)
Byte == Bytes \cup {Newline}

ReaderTypeOK ==
  /\ stream \in Seq(Byte) /\ available \in Seq(Byte) /\ buf \in Seq(Byte)
  /\ scanned \in Nat
  /\ lines \in Seq(Seq(Byte) \cup {Reader!TooLarge})

ChunkInv ==
  /\ scanned + Len(available) <= Len(stream)
  /\ \A i \in 1..Len(available) : available[i] = stream[scanned + i]

EndsInv == Numbered(Reader!Newlines)

Complete == [k \in 1..Len(Reader!Ends) |-> Reader!Whole(k)]

Holding ==
  /\ lines = Complete
  /\ oversize <=> Len(Reader!LastPart) > MaxBytes
  /\ buf = IF oversize THEN <<>> ELSE Reader!LastPart
  /\ sawAny <=> Reader!LastPart # <<>>
  /\ over => Reader!LastPart = <<>>

Returned ==
  /\ ended /\ scanned = Len(stream) /\ available = <<>>
  /\ Reader!LastPart # <<>> /\ lines = Append(Complete, Reader!Framed(Reader!LastPart))
  /\ buf = <<>> /\ ~oversize /\ ~sawAny

OverInv == over => ended /\ available = <<>> /\ scanned = Len(stream)

ReaderInv == ReaderTypeOK /\ ChunkInv /\ EndsInv /\ OverInv /\ (Holding \/ Returned)

LEMMA NewlinesBelow ==
  ASSUME ReaderTypeOK
  PROVE  /\ Reader!Newlines \in SUBSET (1..scanned) /\ scanned \in Nat
         /\ IsFiniteSet(Reader!Newlines) /\ Cardinality(Reader!Newlines) \in Nat
         /\ Reader!Ends = EndsIn(Reader!Newlines)
         /\ Len(Reader!Ends) = Cardinality(Reader!Newlines)
<1>1. Reader!Newlines \in SUBSET (1..scanned) /\ scanned \in Nat
  BY DEF ReaderTypeOK, Reader!Newlines
<1>2. IsFiniteSet(Reader!Newlines) /\ Cardinality(Reader!Newlines) \in Nat
  BY <1>1, Finite
<1>3. Reader!Ends = EndsIn(Reader!Newlines)
  BY DEF Reader!Ends, EndsIn, Reader!LineNo, No, Reader!Cardinality, Cardinality
<1>4. Len(Reader!Ends) = Cardinality(Reader!Newlines)
  BY <1>2, SameCount DEF Reader!Ends
<1>5. QED
  BY <1>1, <1>2, <1>3, <1>4

LEMMA NewlinesBelowPrime ==
  ASSUME ReaderTypeOK'
  PROVE  /\ Reader!Newlines' \in SUBSET (1..scanned') /\ scanned' \in Nat
         /\ IsFiniteSet(Reader!Newlines') /\ Cardinality(Reader!Newlines') \in Nat
         /\ Reader!Ends' = EndsIn(Reader!Newlines')
         /\ Len(Reader!Ends)' = Cardinality(Reader!Newlines')
<1>1. Reader!Newlines' \in SUBSET (1..scanned') /\ scanned' \in Nat
  BY DEF ReaderTypeOK, Reader!Newlines
<1>2. IsFiniteSet(Reader!Newlines') /\ Cardinality(Reader!Newlines') \in Nat
  BY <1>1, Finite
<1>3. Reader!Ends' = EndsIn(Reader!Newlines')
  BY DEF Reader!Ends, EndsIn, Reader!LineNo, No, Reader!Cardinality, Cardinality
<1>4. Len(Reader!Ends)' = Cardinality(Reader!Newlines')
  BY <1>2, SameCount DEF Reader!Ends
<1>5. QED
  BY <1>1, <1>2, <1>3, <1>4

(* Lines begin within what was consumed, or right behind it.               *)
LEMMA BeginBounds ==
  ASSUME ReaderTypeOK, EndsInv, NEW k \in 1..Len(Reader!Ends) + 1
  PROVE  /\ Reader!Begin(k) \in 1..scanned + 1
         /\ k \in 1..Len(Reader!Ends) => Reader!Ends[k] \in 1..scanned
<1>1. ASSUME NEW j \in 1..Len(Reader!Ends) PROVE Reader!Ends[j] \in 1..scanned
  BY NewlinesBelow, EndAt DEF EndsInv
<1>2. Reader!Begin(k) \in 1..scanned + 1
  <2>1. CASE k = 1
    BY <2>1, NewlinesBelow DEF Reader!Begin
  <2>2. CASE k # 1
    <3>1. k - 1 \in 1..Len(Reader!Ends)
      BY <2>2, NewlinesBelow
    <3>2. Reader!Ends[k - 1] \in 1..scanned
      BY <1>1, <3>1
    <3>3. QED
      BY <2>2, <3>2, NewlinesBelow DEF Reader!Begin
  <2>3. QED
    BY <2>1, <2>2
<1>3. QED
  BY <1>1, <1>2

LEMMA SameRun ==
  ASSUME NEW S, NEW s \in Seq(S), NEW t \in Seq(S), NEW a \in Nat \ {0}, NEW b \in Int,
         b <= Len(s), b <= Len(t), \A i \in a..b : s[i] = t[i]
  PROVE  SubSeq(s, a, b) = SubSeq(t, a, b) /\ SubSeq(s, a, b) \in Seq(S)
<1>1. Len(s) \in Nat /\ Len(t) \in Nat
  OBVIOUS
<1>2. CASE a <= b
  <2>1. b \in Nat
    BY <1>2
  <2>2. /\ SubSeq(s, a, b) \in Seq(S) /\ SubSeq(t, a, b) \in Seq(S)
        /\ Len(SubSeq(s, a, b)) = b - a + 1 /\ Len(SubSeq(t, a, b)) = b - a + 1
    BY <1>1, <1>2, <2>1
  <2>3. ASSUME NEW i \in 1..b - a + 1 PROVE SubSeq(s, a, b)[i] = SubSeq(t, a, b)[i]
    <3>1. a + i - 1 \in a..b
      BY <2>1
    <3>2. SubSeq(s, a, b)[i] = s[a + i - 1] /\ SubSeq(t, a, b)[i] = t[a + i - 1]
      BY <1>1, <1>2, <2>1, <3>1
    <3>3. QED
      BY <3>1, <3>2
  <2>4. QED
    BY <2>2, <2>3
<1>3. CASE b < a
  BY <1>3
<1>4. QED
  BY <1>2, <1>3

(* What is consumed goes on with what is in the chunk.                     *)
LEMMA Taken ==
  ASSUME ReaderTypeOK, ChunkInv, EndsInv, NEW n \in 0..Len(available)
  PROVE  /\ Reader!LastPart \in Seq(Byte) /\ SubSeq(available, 1, n) \in Seq(Byte)
         /\ Len(SubSeq(available, 1, n)) = n
         /\ SubSeq(stream, Reader!Begin(Len(Reader!Ends) + 1), scanned + n)
              = Reader!LastPart \o SubSeq(available, 1, n)
<1> DEFINE a == Reader!Begin(Len(Reader!Ends) + 1)
           u == SubSeq(available, 1, n)
           w == SubSeq(stream, a, scanned + n)
<1>1. a \in 1..scanned + 1 /\ scanned \in Nat /\ Len(available) \in Nat /\ Len(stream) \in Nat
  <2>1. Len(Reader!Ends) + 1 \in 1..Len(Reader!Ends) + 1
    BY NewlinesBelow
  <2>2. QED
    BY <2>1, BeginBounds, NewlinesBelow DEF ReaderTypeOK
<1> HIDE DEF a
<1>2. n \in Nat /\ n <= Len(available) /\ scanned + n <= Len(stream)
  BY <1>1 DEF ChunkInv
<1>3. /\ Reader!LastPart \in Seq(Byte) /\ Len(Reader!LastPart) = scanned + 1 - a
      /\ \A i \in 1..scanned + 1 - a : Reader!LastPart[i] = stream[a + i - 1]
  <2>1. Reader!LastPart = SubSeq(stream, a, scanned)
    BY DEF Reader!LastPart, a
  <2>2. stream \in Seq(Byte) /\ a \in Nat \ {0} /\ scanned <= Len(stream)
    BY <1>1, <1>2 DEF ReaderTypeOK
  <2>3. /\ SubSeq(stream, a, scanned) \in Seq(Byte)
        /\ Len(SubSeq(stream, a, scanned)) = scanned + 1 - a
        /\ \A i \in 1..scanned + 1 - a : SubSeq(stream, a, scanned)[i] = stream[a + i - 1]
    BY <1>1, <2>2
  <2>4. QED
    BY <2>1, <2>3
<1>4. /\ u \in Seq(Byte) /\ Len(u) = n
      /\ \A i \in 1..n : u[i] = available[i]
  BY <1>1, <1>2 DEF ReaderTypeOK
<1>5. /\ w \in Seq(Byte) /\ Len(w) = scanned + n + 1 - a
      /\ \A i \in 1..scanned + n + 1 - a : w[i] = stream[a + i - 1]
  BY <1>1, <1>2 DEF ReaderTypeOK
<1> HIDE DEF u, w
<1>6. Reader!LastPart \o u \in Seq(Byte) /\ Len(Reader!LastPart \o u) = Len(w)
  <2>1. Reader!LastPart \o u \in Seq(Byte)
            /\ Len(Reader!LastPart \o u) = Len(Reader!LastPart) + Len(u)
    BY <1>3, <1>4, ConcatProperties
  <2>2. (scanned + 1 - a) + n = scanned + n + 1 - a
    BY <1>1, <1>2
  <2>3. QED
    BY <1>3, <1>4, <1>5, <2>1, <2>2
<1>7. ASSUME NEW i \in 1..Len(w) PROVE w[i] = (Reader!LastPart \o u)[i]
  <2>1. CASE i <= Len(Reader!LastPart)
    <3>1. i \in 1..Len(Reader!LastPart) /\ i \in 1..scanned + 1 - a
      BY <1>1, <1>2, <1>3, <1>5, <2>1
    <3>2. (Reader!LastPart \o u)[i] = Reader!LastPart[i]
      BY <1>3, <1>4, <3>1
    <3>3. QED
      BY <1>3, <1>5, <3>1, <3>2
  <2>2. CASE ~(i <= Len(Reader!LastPart))
    <3>1. i \in Nat /\ i - Len(Reader!LastPart) \in 1..n
      BY <1>1, <1>2, <1>3, <1>5, <2>2
    <3>2. (Reader!LastPart \o u)[i] = available[i - Len(Reader!LastPart)]
      BY <1>3, <1>4, <1>5, <1>6, <2>2, <3>1
    <3>3. i - Len(Reader!LastPart) \in 1..Len(available)
              /\ scanned + (i - Len(Reader!LastPart)) = a + i - 1
      BY <1>1, <1>2, <1>3, <3>1
    <3>4. available[i - Len(Reader!LastPart)] = stream[scanned + (i - Len(Reader!LastPart))]
      BY <3>3 DEF ChunkInv
    <3>5. QED
      BY <1>1, <1>2, <1>5, <3>2, <3>3, <3>4
  <2>3. QED
    BY <2>1, <2>2
<1>8. w = Reader!LastPart \o u
  BY <1>5, <1>6, <1>7
<1>9. QED
  BY <1>3, <1>4, <1>8 DEF a, u, w

(* Where the newlines are the same and so is what was consumed, the lines   *)
(* are the same.                                                            *)
LEMMA SameLines ==
  ASSUME ReaderTypeOK, ReaderTypeOK', EndsInv, Reader!Newlines' = Reader!Newlines,
         scanned <= Len(stream), scanned <= Len(stream'),
         \A i \in 1..scanned : stream'[i] = stream[i]
  PROVE  /\ EndsInv' /\ Reader!Ends' = Reader!Ends /\ Complete' = Complete
         /\ Reader!Begin(Len(Reader!Ends) + 1)' = Reader!Begin(Len(Reader!Ends) + 1)
<1>1. Reader!Ends' = Reader!Ends
  BY NewlinesBelow, NewlinesBelowPrime
<1>2. EndsInv'
  BY DEF EndsInv
<1>3. ASSUME NEW k PROVE Reader!Begin(k)' = Reader!Begin(k)
  BY <1>1 DEF Reader!Begin
<1>4. ASSUME NEW k \in 1..Len(Reader!Ends) PROVE Reader!Whole(k)' = Reader!Whole(k)
  <2>1. Reader!Begin(k) \in 1..scanned + 1 /\ Reader!Ends[k] \in 1..scanned /\ scanned \in Nat
    BY BeginBounds, NewlinesBelow
  <2>0. /\ stream \in Seq(Byte) /\ stream' \in Seq(Byte)
        /\ Len(stream) \in Nat /\ Len(stream') \in Nat
    BY DEF ReaderTypeOK
  <2>2. /\ Reader!Begin(k) \in Nat \ {0} /\ Reader!Ends[k] - 1 \in Int
        /\ Reader!Ends[k] - 1 <= Len(stream) /\ Reader!Ends[k] - 1 <= Len(stream')
        /\ \A i \in Reader!Begin(k)..(Reader!Ends[k] - 1) : i \in 1..scanned
    <3> DEFINE x == Reader!Begin(k)
               y == Reader!Ends[k]
    <3>1. x \in 1..scanned + 1 /\ y \in 1..scanned /\ scanned \in Nat
      BY <2>1
    <3> HIDE DEF x, y
    <3>2. /\ x \in Nat \ {0} /\ y - 1 \in Int /\ y - 1 <= Len(stream) /\ y - 1 <= Len(stream')
          /\ \A i \in x..(y - 1) : i \in 1..scanned
      BY <2>0, <3>1
    <3>3. QED
      BY <3>2 DEF x, y
  <2>3. SubSeq(stream, Reader!Begin(k), Reader!Ends[k] - 1) =
            SubSeq(stream', Reader!Begin(k), Reader!Ends[k] - 1)
    BY <2>0, <2>2, SameRun
  <2>4. QED
    BY <1>1, <1>3, <2>3 DEF Reader!Whole, Reader!Framed
<1>5. Complete' = Complete
  BY <1>1, <1>4 DEF Complete
<1>6. QED
  BY <1>1, <1>2, <1>3, <1>5

-----------------------------------------------------------------------------
(* The steps *)

LEMMA ReaderInitInv ==
  ASSUME Reader!ReaderAssumption, Reader!Init PROVE ReaderInv
<1>1. ReaderTypeOK /\ ChunkInv /\ OverInv
  BY DEF Reader!Init, ReaderTypeOK, ChunkInv, OverInv
<1>2. Reader!Newlines = {}
  BY DEF Reader!Init, Reader!Newlines
<1>3. Cardinality(Reader!Newlines) = 0 /\ Len(Reader!Ends) = 0
  BY <1>1, <1>2, FS_EmptySet, NewlinesBelow
<1>4. EndsInv
  BY <1>3 DEF EndsInv, Numbered
<1>5. Complete = <<>>
  BY <1>3 DEF Complete
<1>6. Reader!LastPart = <<>>
  BY <1>3 DEF Reader!LastPart, Reader!Begin, Reader!Init
<1>7. Len(Reader!LastPart) = 0 /\ ~(0 > MaxBytes)
  BY <1>6 DEF Reader!ReaderAssumption
<1>8. Holding
  BY <1>5, <1>6, <1>7 DEF Holding, Reader!Init
<1>9. QED
  BY <1>1, <1>4, <1>8 DEF ReaderInv

(* While nothing is consumed, what the lines are made of stays.            *)
LEMMA Resting ==
  ASSUME ReaderInv, ReaderTypeOK', scanned' = scanned, scanned <= Len(stream'),
         \A i \in 1..scanned : stream'[i] = stream[i]
  PROVE  EndsInv' /\ Complete' = Complete /\ Reader!LastPart' = Reader!LastPart
<1>1. ReaderTypeOK /\ ChunkInv /\ EndsInv
  BY DEF ReaderInv
<1>2. Reader!Newlines' = Reader!Newlines
  BY DEF Reader!Newlines
<1>3. /\ stream \in Seq(Byte) /\ stream' \in Seq(Byte) /\ scanned \in Nat
      /\ Len(stream) \in Nat /\ Len(stream') \in Nat /\ Len(available) \in Nat
  BY <1>1 DEF ReaderTypeOK
<1>4. scanned <= Len(stream)
  BY <1>1, <1>3 DEF ChunkInv
<1>5. EndsInv' /\ Reader!Ends' = Reader!Ends /\ Complete' = Complete
      /\ Reader!Begin(Len(Reader!Ends) + 1)' = Reader!Begin(Len(Reader!Ends) + 1)
  BY <1>1, <1>2, <1>4, SameLines
<1>6. Reader!LastPart' = Reader!LastPart
  <2> DEFINE a == Reader!Begin(Len(Reader!Ends) + 1)
  <2>1. a \in 1..scanned + 1
    BY <1>1, NewlinesBelow, BeginBounds
  <2> HIDE DEF a
  <2>2. a \in Nat \ {0} /\ scanned \in Int /\ \A i \in a..scanned : i \in 1..scanned
    BY <1>3, <2>1
  <2>3. SubSeq(stream, a, scanned) = SubSeq(stream', a, scanned)
    BY <1>3, <1>4, <2>2, SameRun
  <2>4. Reader!LastPart = SubSeq(stream, a, scanned)
            /\ Reader!LastPart' = SubSeq(stream', a, scanned)
    BY <1>5 DEF Reader!LastPart, a
  <2>5. QED
    BY <2>3, <2>4
<1>7. QED
  BY <1>5, <1>6

LEMMA WriteStep ==
  ASSUME Reader!ReaderAssumption, ReaderInv, Reader!Write PROVE ReaderInv'
<1>1. ReaderTypeOK /\ ChunkInv /\ OverInv /\ (Holding \/ Returned)
  BY DEF ReaderInv
<1>2. PICK b \in Byte : stream' = Append(stream, b)
  BY DEF Reader!Write, Byte
<1>3. /\ stream \in Seq(Byte) /\ scanned \in Nat /\ Len(stream) \in Nat /\ Len(available) \in Nat
      /\ scanned + Len(available) <= Len(stream)
  BY <1>1 DEF ReaderTypeOK, ChunkInv
<1>4. /\ stream' \in Seq(Byte) /\ Len(stream') = Len(stream) + 1
      /\ \A i \in 1..Len(stream) : stream'[i] = stream[i]
  BY <1>2, <1>3
<1>5. ReaderTypeOK'
  BY <1>1, <1>4 DEF ReaderTypeOK, Reader!Write, Reader!callVars
<1>6. scanned' = scanned /\ available' = available
  BY DEF Reader!Write
<1>7. scanned <= Len(stream') /\ \A i \in 1..scanned : stream'[i] = stream[i]
  BY <1>3, <1>4
<1>8. EndsInv' /\ Complete' = Complete /\ Reader!LastPart' = Reader!LastPart
  BY <1>5, <1>6, <1>7, Resting
<1>9. ChunkInv'
  <2>1. ASSUME NEW i \in 1..Len(available) PROVE available[i] = stream'[scanned + i]
    <3>1. scanned + i \in 1..Len(stream)
      BY <1>3
    <3>2. QED
      BY <1>1, <1>4, <3>1 DEF ChunkInv
  <2>2. scanned + Len(available) <= Len(stream')
    BY <1>3, <1>4
  <2>3. QED
    BY <1>6, <2>1, <2>2 DEF ChunkInv
<1>10. Holding' /\ OverInv'
  BY <1>1, <1>8 DEF Holding, Returned, OverInv, Reader!Write, Reader!callVars
<1>11. QED
  BY <1>5, <1>8, <1>9, <1>10 DEF ReaderInv

LEMMA CloseStep ==
  ASSUME ReaderInv, Reader!Close PROVE ReaderInv'
<1>1. /\ ReaderTypeOK /\ ChunkInv /\ OverInv /\ (Holding \/ Returned)
      /\ UNCHANGED <<stream, available, scanned, buf, oversize, sawAny, lines, over>> /\ ended'
  BY DEF ReaderInv, Reader!Close, Reader!callVars
<1>2. ReaderTypeOK' /\ ChunkInv'
  BY <1>1 DEF ReaderTypeOK, ChunkInv
<1>3. scanned <= Len(stream')
  <2>1. scanned \in Nat /\ Len(stream) \in Nat /\ Len(available) \in Nat
    BY <1>1 DEF ReaderTypeOK
  <2>2. QED
    BY <1>1, <2>1 DEF ChunkInv
<1>4. EndsInv' /\ Complete' = Complete /\ Reader!LastPart' = Reader!LastPart
  BY <1>1, <1>2, <1>3, Resting
<1>5. OverInv' /\ (Holding' \/ Returned')
  BY <1>1, <1>4 DEF Holding, Returned, OverInv
<1>6. QED
  BY <1>2, <1>4, <1>5 DEF ReaderInv

LEMMA FillStep ==
  ASSUME Reader!ReaderAssumption, ReaderInv, Reader!FillBuf PROVE ReaderInv'
<1>1. /\ ReaderTypeOK /\ ChunkInv /\ OverInv /\ (Holding \/ Returned)
      /\ UNCHANGED <<stream, ended, scanned, buf, oversize, sawAny, lines, over>>
      /\ ~over /\ available = <<>>
  BY DEF ReaderInv, Reader!FillBuf, Reader!callVars
<1>2. PICK n \in 1..Capacity : /\ scanned + n <= Len(stream)
                               /\ available' = SubSeq(stream, scanned + 1, scanned + n)
  BY DEF Reader!FillBuf
<1>3. /\ stream \in Seq(Byte) /\ scanned \in Nat /\ Len(stream) \in Nat
      /\ n \in Nat /\ n > 0
  BY <1>1 DEF ReaderTypeOK, Reader!ReaderAssumption
<1>4. /\ available' \in Seq(Byte) /\ Len(available') = n
      /\ \A i \in 1..n : available'[i] = stream[scanned + i]
  BY <1>2, <1>3
<1>5. ReaderTypeOK'
  BY <1>1, <1>4 DEF ReaderTypeOK
<1>6. ChunkInv'
  BY <1>1, <1>2, <1>4 DEF ChunkInv
<1>7. scanned <= Len(stream')
  BY <1>1, <1>2, <1>3
<1>8. EndsInv' /\ Complete' = Complete /\ Reader!LastPart' = Reader!LastPart
  BY <1>1, <1>5, <1>7, Resting
<1>9. Holding
  BY <1>1, <1>2, <1>3 DEF Returned
<1>10. OverInv' /\ Holding'
  BY <1>1, <1>8, <1>9 DEF Holding, OverInv
<1>11. QED
  BY <1>5, <1>6, <1>8, <1>10 DEF ReaderInv

(* The end of the stream makes a line of what was held, then it is over.   *)
LEMMA EndStep ==
  ASSUME Reader!ReaderAssumption, ReaderInv, Reader!StreamEnds PROVE ReaderInv'
<1>1. /\ ReaderTypeOK /\ ChunkInv /\ EndsInv /\ OverInv /\ (Holding \/ Returned)
      /\ UNCHANGED <<stream, ended, available, scanned>>
      /\ ~over /\ ended /\ available = <<>> /\ scanned = Len(stream)
  BY DEF ReaderInv, Reader!StreamEnds
<1>2. /\ Reader!LastPart \in Seq(Byte) /\ lines \in Seq(Seq(Byte) \cup {Reader!TooLarge})
  <2>1. 0 \in 0..Len(available)
    BY <1>1
  <2>2. Reader!LastPart \in Seq(Byte)
    BY <1>1, <2>1, Taken
  <2>3. QED
    BY <1>1, <2>2 DEF ReaderTypeOK
<1>3. scanned <= Len(stream') /\ scanned \in Nat
  BY <1>1 DEF ReaderTypeOK
<1>4. CASE sawAny
  <2>1. /\ lines' = Append(lines, IF oversize THEN Reader!TooLarge ELSE buf)
        /\ buf' = <<>> /\ oversize' = FALSE /\ sawAny' = FALSE /\ over' = over
    BY <1>4 DEF Reader!StreamEnds, Reader!Return
  <2>2. Holding /\ Reader!LastPart # <<>>
    BY <1>1, <1>4 DEF Holding, Returned
  <2>3. (IF oversize THEN Reader!TooLarge ELSE buf) = Reader!Framed(Reader!LastPart)
    BY <2>2 DEF Holding, Reader!Framed
  <2>4. ReaderTypeOK'
    BY <1>1, <1>2, <2>1, <2>3 DEF ReaderTypeOK, Reader!Framed
  <2>5. EndsInv' /\ Complete' = Complete /\ Reader!LastPart' = Reader!LastPart
    BY <1>1, <1>3, <2>4, Resting
  <2>6. Returned'
    BY <1>1, <2>1, <2>2, <2>3, <2>5 DEF Returned, Holding, Reader!Framed
  <2>7. ChunkInv' /\ OverInv'
    BY <1>1, <2>1 DEF ChunkInv, OverInv
  <2>8. QED
    BY <2>4, <2>5, <2>6, <2>7 DEF ReaderInv
<1>5. CASE ~sawAny
  <2>1. over' = TRUE /\ UNCHANGED <<buf, oversize, sawAny, lines>>
    BY <1>5 DEF Reader!StreamEnds, Reader!callVars
  <2>2. ReaderTypeOK' /\ ChunkInv' /\ OverInv'
    BY <1>1, <2>1 DEF ReaderTypeOK, ChunkInv, OverInv
  <2>3. EndsInv' /\ Complete' = Complete /\ Reader!LastPart' = Reader!LastPart
    BY <1>1, <1>3, <2>2, Resting
  <2>4. Holding' \/ Returned'
    BY <1>1, <1>5, <2>1, <2>3 DEF Holding, Returned
  <2>5. QED
    BY <2>2, <2>3, <2>4 DEF ReaderInv
<1>6. QED
  BY <1>4, <1>5

(* What a chunk adds to what is held.                                      *)
LEMMA Gathered ==
  ASSUME Reader!ReaderAssumption, ReaderInv, Holding, NEW bytes \in Seq(Byte)
  PROVE  /\ Reader!LastPart \in Seq(Byte) /\ Reader!LastPart \o bytes \in Seq(Byte)
         /\ Len(Reader!LastPart \o bytes) = Len(Reader!LastPart) + Len(bytes)
         /\ Reader!Gather(bytes).oversize <=> Len(Reader!LastPart \o bytes) > MaxBytes
         /\ Reader!Gather(bytes).buf = IF Reader!Gather(bytes).oversize THEN <<>>
              ELSE Reader!LastPart \o bytes
         /\ (IF Reader!Gather(bytes).oversize THEN Reader!TooLarge ELSE Reader!Gather(bytes).buf)
              = Reader!Framed(Reader!LastPart \o bytes)
<1>1. Reader!LastPart \in Seq(Byte)
  <2>1. 0 \in 0..Len(available)
    BY DEF ReaderInv, ReaderTypeOK
  <2>2. QED
    BY <2>1, Taken DEF ReaderInv
<1>2. Reader!LastPart \o bytes \in Seq(Byte)
          /\ Len(Reader!LastPart \o bytes) = Len(Reader!LastPart) + Len(bytes)
  BY <1>1, ConcatProperties
<1>3. Len(Reader!LastPart) \in Nat /\ Len(bytes) \in Nat /\ MaxBytes \in Nat
  BY <1>1 DEF Reader!ReaderAssumption
<1>4. CASE oversize
  <2>1. Len(Reader!LastPart) > MaxBytes
    BY <1>4 DEF Holding
  <2>2. Len(Reader!LastPart \o bytes) > MaxBytes
    BY <1>2, <1>3, <2>1
  <2>3. Reader!Gather(bytes) = [buf |-> <<>>, oversize |-> TRUE]
    BY <1>4 DEF Reader!Gather
  <2>4. QED
    BY <1>1, <1>2, <2>2, <2>3 DEF Reader!Framed
<1>5. CASE ~oversize
  <2>1. buf = Reader!LastPart
    BY <1>5 DEF Holding
  <2>2. CASE Len(buf) + Len(bytes) > MaxBytes
    <3>1. Reader!Gather(bytes) = [buf |-> <<>>, oversize |-> TRUE]
      BY <2>2 DEF Reader!Gather
    <3>2. QED
      BY <1>1, <1>2, <2>1, <2>2, <3>1 DEF Reader!Framed
  <2>3. CASE ~(Len(buf) + Len(bytes) > MaxBytes)
    <3>1. Reader!Gather(bytes) = [buf |-> buf \o bytes, oversize |-> FALSE]
      BY <1>5, <2>3 DEF Reader!Gather
    <3>2. QED
      BY <1>1, <1>2, <2>1, <2>3, <3>1 DEF Reader!Framed
  <2>4. QED
    BY <2>2, <2>3
<1>6. QED
  BY <1>4, <1>5

(* Consuming from the chunk keeps it a piece of the stream.                *)
LEMMA Consumed ==
  ASSUME ReaderInv, NEW n \in 1..Len(available), Reader!Consume(n), stream' = stream
  PROVE  /\ scanned' \in Nat /\ scanned' = scanned + n /\ scanned' <= Len(stream)
         /\ available' \in Seq(Byte) /\ ChunkInv'
<1>1. /\ stream \in Seq(Byte) /\ available \in Seq(Byte) /\ scanned \in Nat
      /\ Len(stream) \in Nat /\ Len(available) \in Nat /\ n \in Nat /\ n <= Len(available)
      /\ scanned + Len(available) <= Len(stream)
      /\ \A i \in 1..Len(available) : available[i] = stream[scanned + i]
  BY DEF ReaderInv, ReaderTypeOK, ChunkInv
<1>2. scanned' = scanned + n /\ available' = SubSeq(available, n + 1, Len(available))
  BY DEF Reader!Consume
<1>3. /\ available' \in Seq(Byte) /\ Len(available') = Len(available) - n
      /\ \A i \in 1..Len(available) - n : available'[i] = available[n + i]
  BY <1>1, <1>2
<1>4. ASSUME NEW i \in 1..Len(available) - n PROVE available'[i] = stream'[scanned' + i]
  <2>1. n + i \in 1..Len(available) /\ scanned + (n + i) = scanned' + i
    BY <1>1, <1>2
  <2>2. QED
    BY <1>1, <1>3, <2>1
<1>5. scanned' + Len(available') <= Len(stream')
  <2>1. /\ scanned' = scanned + n /\ Len(available') = Len(available) - n
        /\ scanned \in Nat /\ Len(available) \in Nat /\ n \in Nat
    BY <1>1, <1>2, <1>3
  <2>2. QED
    BY <1>1, <2>1
<1>6. ChunkInv'
  BY <1>3, <1>4, <1>5 DEF ChunkInv
<1>7. QED
  BY <1>1, <1>2, <1>3, <1>6

LEMMA GoesOnStep ==
  ASSUME Reader!ReaderAssumption, ReaderInv, Reader!LineGoesOn PROVE ReaderInv'
<1> DEFINE n == Len(available)
<1>1. /\ available \in Seq(Byte) /\ available # <<>> /\ n \in Nat /\ n \in 1..n
      /\ n \in 0..n /\ SubSeq(available, 1, n) = available
  BY DEF ReaderInv, ReaderTypeOK, Reader!LineGoesOn
<1>2. /\ \A i \in 1..n : available[i] # Newline
      /\ buf' = Reader!Gather(available).buf /\ oversize' = Reader!Gather(available).oversize
      /\ sawAny' = TRUE /\ Reader!Consume(n) /\ UNCHANGED <<stream, ended, lines, over>>
  BY <1>1 DEF Reader!LineGoesOn
<1>3. ReaderTypeOK /\ ChunkInv /\ EndsInv /\ Holding /\ ~over
  <2>1. ~Returned /\ ~over
    BY <1>1 DEF ReaderInv, Returned, OverInv
  <2>2. QED
    BY <2>1 DEF ReaderInv
<1>4. /\ scanned' \in Nat /\ scanned' = scanned + n /\ scanned' <= Len(stream)
      /\ available' \in Seq(Byte) /\ ChunkInv'
  BY <1>1, <1>2, Consumed
<1>5. /\ Reader!LastPart \in Seq(Byte) /\ Reader!LastPart \o available \in Seq(Byte)
      /\ Len(Reader!LastPart \o available) = Len(Reader!LastPart) + n
      /\ oversize' <=> Len(Reader!LastPart \o available) > MaxBytes
      /\ buf' = IF oversize' THEN <<>> ELSE Reader!LastPart \o available
  BY <1>1, <1>2, <1>3, Gathered
<1>6. ReaderTypeOK'
  <2>1. buf' \in Seq(Byte)
    BY <1>5
  <2>2. QED
    BY <1>2, <1>3, <1>4, <2>1 DEF ReaderTypeOK
<1>7. Reader!Newlines' = Reader!Newlines
  <2>1. scanned \in Nat
    BY <1>3 DEF ReaderTypeOK
  <2>2. ASSUME NEW i \in 1..scanned', stream[i] = Newline PROVE i \in 1..scanned
    <3>1. CASE i > scanned
      <4>1. i - scanned \in 1..n /\ scanned + (i - scanned) = i
        BY <1>1, <1>4, <2>1, <3>1
      <4>2. available[i - scanned] = stream[i]
        BY <1>3, <4>1 DEF ChunkInv
      <4>3. QED
        BY <1>2, <2>2, <4>1, <4>2
    <3>2. QED
      BY <2>1, <3>1
  <2>3. 1..scanned \subseteq 1..scanned'
    BY <1>1, <1>4, <2>1
  <2>4. QED
    BY <1>2, <2>2, <2>3 DEF Reader!Newlines
<1>8. scanned <= Len(stream) /\ scanned <= Len(stream')
  BY <1>1, <1>2, <1>3, <1>4 DEF ReaderTypeOK
<1>9. EndsInv' /\ Reader!Ends' = Reader!Ends /\ Complete' = Complete
      /\ Reader!Begin(Len(Reader!Ends) + 1)' = Reader!Begin(Len(Reader!Ends) + 1)
  BY <1>2, <1>3, <1>6, <1>7, <1>8, SameLines
<1>10. Reader!LastPart' = Reader!LastPart \o available
  <2>1. Reader!LastPart' = SubSeq(stream, Reader!Begin(Len(Reader!Ends) + 1), scanned + n)
    BY <1>2, <1>4, <1>9 DEF Reader!LastPart
  <2>2. QED
    BY <1>1, <1>3, <2>1, Taken
<1>11. Reader!LastPart' # <<>>
  BY <1>1, <1>5, <1>10
<1>12. Holding' /\ OverInv'
  BY <1>2, <1>3, <1>5, <1>9, <1>10, <1>11 DEF Holding, OverInv
<1>13. QED
  BY <1>4, <1>6, <1>9, <1>12 DEF ReaderInv

LEMMA LineEndsStep ==
  ASSUME Reader!ReaderAssumption, ReaderInv, Reader!LineEnds PROVE ReaderInv'
<1>1. PICK n \in DOMAIN available :
        /\ available[n] = Newline
        /\ \A i \in 1..(n - 1) : available[i] # Newline
        /\ Reader!Return(Reader!Gather(SubSeq(available, 1, n - 1)))
        /\ Reader!Consume(n)
  BY DEF Reader!LineEnds
<1> DEFINE bytes == SubSeq(available, 1, n - 1)
<1>2. UNCHANGED <<stream, ended, over>>
  BY DEF Reader!LineEnds
<1>3. /\ ReaderTypeOK /\ ChunkInv /\ EndsInv /\ Holding /\ ~over
      /\ n \in Nat \ {0} /\ n \in 1..Len(available) /\ n - 1 \in 0..Len(available)
  <2>1. /\ n \in Nat \ {0} /\ n \in 1..Len(available) /\ n - 1 \in 0..Len(available)
        /\ available # <<>>
    BY DEF ReaderInv, ReaderTypeOK
  <2>2. ~Returned /\ ~over
    BY <2>1 DEF ReaderInv, Returned, OverInv
  <2>3. QED
    BY <2>1, <2>2 DEF ReaderInv
<1>4. /\ scanned' \in Nat /\ scanned' = scanned + n /\ scanned' <= Len(stream)
      /\ available' \in Seq(Byte) /\ ChunkInv'
  BY <1>1, <1>2, <1>3, Consumed
<1>5. /\ bytes \in Seq(Byte)
      /\ SubSeq(stream, Reader!Begin(Len(Reader!Ends) + 1), scanned + (n - 1)) =
           Reader!LastPart \o bytes
  BY <1>3, Taken
<1>6. /\ Reader!LastPart \o bytes \in Seq(Byte)
      /\ lines' = Append(lines, Reader!Framed(Reader!LastPart \o bytes))
      /\ buf' = <<>> /\ oversize' = FALSE /\ sawAny' = FALSE
  <2> HIDE DEF bytes
  <2>1. Reader!Return(Reader!Gather(bytes))
    BY <1>1 DEF bytes
  <2>2. QED
    BY <1>3, <1>5, <2>1, Gathered DEF Reader!Return
<1> HIDE DEF bytes
<1>7. ReaderTypeOK'
  <2>1. Reader!Framed(Reader!LastPart \o bytes) \in Seq(Byte) \cup {Reader!TooLarge}
    BY <1>6 DEF Reader!Framed
  <2>2. QED
    BY <1>2, <1>3, <1>4, <1>6, <2>1 DEF ReaderTypeOK
<1> DEFINE q == scanned + n
<1>8. Reader!Newlines' = Reader!Newlines \cup {q}
  <2>1. scanned \in Nat
    BY <1>3 DEF ReaderTypeOK
  <2>2. ASSUME NEW i \in 1..q, i > scanned PROVE stream[i] = Newline <=> i = q
    <3>1. i - scanned \in 1..n /\ i - scanned \in 1..Len(available)
          /\ scanned + (i - scanned) = i
      BY <1>3, <2>1, <2>2
    <3>2. available[i - scanned] = stream[i]
      BY <1>3, <3>1 DEF ChunkInv
    <3>3. i # q => i - scanned \in 1..(n - 1)
      BY <1>3, <2>1, <3>1
    <3>4. i = q => i - scanned = n
      BY <1>3, <2>1
    <3>5. QED
      BY <1>1, <3>2, <3>3, <3>4
  <2>3. q \in 1..q /\ q > scanned /\ 1..scanned \subseteq 1..q
        /\ \A i \in 1..q : i > scanned \/ i \in 1..scanned
    BY <1>3, <2>1
  <2>4. stream[q] = Newline
    BY <2>2, <2>3
  <2>5. Reader!Newlines' = {i \in 1..q : stream[i] = Newline}
    BY <1>2, <1>4 DEF Reader!Newlines
  <2> HIDE DEF q
  <2>6. QED
    BY <2>2, <2>3, <2>4, <2>5 DEF Reader!Newlines
<1>9. /\ q \in Nat /\ scanned < q /\ scanned \in Nat /\ q <= Len(stream) /\ q = scanned'
  BY <1>3, <1>4 DEF ReaderTypeOK
<1> HIDE DEF q
<1>10. /\ Reader!Newlines \in SUBSET (1..scanned) /\ Cardinality(Reader!Newlines) \in Nat
       /\ Reader!Ends = EndsIn(Reader!Newlines) /\ Len(Reader!Ends) = Cardinality(Reader!Newlines)
       /\ Reader!Ends' = EndsIn(Reader!Newlines')
            /\ Len(Reader!Ends)' = Cardinality(Reader!Newlines')
       /\ Numbered(Reader!Newlines)
  BY <1>3, <1>7, NewlinesBelow, NewlinesBelowPrime DEF EndsInv
<1>11. /\ EndsInv' /\ Len(Reader!Ends)' = Len(Reader!Ends) + 1
       /\ \A k \in 1..Len(Reader!Ends) : Reader!Ends'[k] = Reader!Ends[k]
       /\ Reader!Ends'[Len(Reader!Ends) + 1] = q
  <2> DEFINE N == Reader!Newlines
  <2> HIDE DEF N
  <2>1. N \in SUBSET (1..scanned) /\ Numbered(N) /\ q \in Nat /\ scanned \in Nat /\ scanned < q
    BY <1>9, <1>10 DEF N
  <2>2. /\ Numbered(N \cup {q})
        /\ Cardinality(N \cup {q}) = Cardinality(N) + 1
        /\ \A k \in 1..Cardinality(N) : EndsIn(N \cup {q})[k] = EndsIn(N)[k]
        /\ EndsIn(N \cup {q})[Cardinality(N) + 1] = q
    BY <2>1, OneMore
  <2>3. EndsInv'
    BY <1>8, <2>2 DEF EndsInv, N
  <2>4. QED
    BY <1>8, <1>10, <2>2, <2>3 DEF N
<1>12. ASSUME NEW k \in 1..Len(Reader!Ends) + 1 PROVE Reader!Begin(k)' = Reader!Begin(k)
  <2>1. k # 1 => k - 1 \in 1..Len(Reader!Ends)
    BY <1>10
  <2>2. QED
    BY <1>11, <2>1 DEF Reader!Begin
<1>13. ASSUME NEW k \in 1..Len(Reader!Ends) PROVE Reader!Whole(k)' = Reader!Whole(k)
  <2>1. k \in 1..Len(Reader!Ends) + 1
    BY <1>10
  <2>2. QED
    BY <1>2, <1>11, <1>12, <2>1 DEF Reader!Whole, Reader!Framed
<1>14. ASSUME NEW k, k = Len(Reader!Ends) + 1
           PROVE Reader!Whole(k)' = Reader!Framed(Reader!LastPart \o bytes)
  <2>1. k \in 1..Len(Reader!Ends) + 1 /\ q - 1 = scanned + (n - 1)
    BY <1>3, <1>9, <1>10, <1>14 DEF q
  <2>2. Reader!Begin(k)' = Reader!Begin(k) /\ Reader!Ends'[k] = q
    BY <1>11, <1>12, <1>14, <2>1
  <2>3. Reader!Whole(k)' = Reader!Framed(SubSeq(stream, Reader!Begin(k), scanned + (n - 1)))
    BY <1>2, <2>1, <2>2 DEF Reader!Whole, Reader!Framed
  <2>4. QED
    BY <1>5, <1>14, <2>3
<1>15. Complete' = Append(Complete, Reader!Framed(Reader!LastPart \o bytes))
  <2>1. /\ Complete = [k \in 1..Len(Reader!Ends) |-> Reader!Whole(k)] /\ Len(Reader!Ends) \in Nat
        /\ Complete' = [k \in 1..(Len(Reader!Ends) + 1) |-> Reader!Whole(k)']
    BY <1>10, <1>11 DEF Complete
  <2> DEFINE line == Reader!Framed(Reader!LastPart \o bytes)
             e == Len(Reader!Ends)
  <2> HIDE DEF line, e
  <2>2. /\ e \in Nat
        /\ Complete = [k \in 1..e |-> Reader!Whole(k)]
        /\ Complete' = [k \in 1..e + 1 |-> IF k = e + 1 THEN line ELSE Reader!Whole(k)]
    <3>1. ASSUME NEW k \in 1..e + 1
          PROVE  Reader!Whole(k)' = IF k = e + 1 THEN line ELSE Reader!Whole(k)
      <4>1. k \in 1..e \/ k = e + 1
        BY <1>10 DEF e
      <4>2. QED
        BY <1>10, <1>13, <1>14, <4>1 DEF e, line
    <3>2. QED
      BY <2>1, <3>1 DEF e
  <2>3. Complete' = Append(Complete, line)
    BY <2>2
  <2>4. QED
    BY <2>3 DEF line
<1>16. Reader!LastPart' = <<>>
  <2>1. Len(Reader!Ends)' + 1 # 1 /\ Len(Reader!Ends)' + 1 - 1 = Len(Reader!Ends) + 1
    BY <1>10, <1>11
  <2>2. Reader!Begin(Len(Reader!Ends) + 1)' = q + 1
    BY <1>11, <2>1 DEF Reader!Begin
  <2>3. Reader!LastPart' = SubSeq(stream, q + 1, q)
    BY <1>2, <1>9, <2>2 DEF Reader!LastPart
  <2>4. \A s \in Seq(Byte), i \in Nat : SubSeq(s, i + 1, i) = <<>>
    OBVIOUS
  <2>5. QED
    BY <1>3, <1>9, <2>3, <2>4 DEF ReaderTypeOK
<1>17. Holding' /\ OverInv'
  <2>1. Len(Reader!LastPart') = 0 /\ ~(0 > MaxBytes)
    BY <1>16 DEF Reader!ReaderAssumption
  <2>2. lines' = Complete'
    BY <1>3, <1>6, <1>15 DEF Holding
  <2>3. QED
    BY <1>2, <1>3, <1>6, <1>16, <2>1, <2>2 DEF Holding, OverInv
<1>18. QED
  BY <1>4, <1>7, <1>11, <1>17 DEF ReaderInv

LEMMA ReaderAlways == ASSUME Reader!ReaderAssumption PROVE Reader!Spec => []ReaderInv
<1>1. Reader!Init => ReaderInv
  BY ReaderInitInv
<1>2. ReaderInv /\ [Reader!Next]_(Reader!vars) => ReaderInv'
  <2>1. CASE UNCHANGED Reader!vars
    <3>1. Reader!Newlines' = Reader!Newlines /\ Reader!Ends' = Reader!Ends
      BY <2>1 DEF Reader!vars, Reader!Newlines, Reader!Ends, Reader!LineNo
    <3>2. Complete' = Complete /\ Reader!LastPart' = Reader!LastPart
      BY <2>1, <3>1 DEF Reader!vars, Complete, Reader!Whole, Reader!Begin, Reader!LastPart,
         Reader!Framed
    <3>3. QED
      BY <2>1, <3>1, <3>2
         DEF Reader!vars, Reader!callVars, ReaderInv, ReaderTypeOK, ChunkInv, EndsInv,
         OverInv, Holding, Returned
  <2>2. QED
    BY <2>1, WriteStep, CloseStep, FillStep, LineEndsStep, GoesOnStep, EndStep DEF Reader!Next
<1>3. QED
  BY <1>1, <1>2, PTL DEF Reader!Spec

(* However the bytes fall into chunks, the calls return the lines of the    *)
(* stream in order and each once, and hold no more than the limit           *)
(* (read_bounded_line).                                                     *)
THEOREM ReaderFramesLines == Reader!Spec => []LinesAreFramed
<1>0. Reader!Spec => []ReaderInv
  BY ReaderAlways, LineReaderAssumption
<1>1. ASSUME ReaderInv PROVE LinesAreFramed
  <2>0. ReaderTypeOK /\ EndsInv /\ ChunkInv /\ OverInv /\ (Holding \/ Returned)
    BY <1>1 DEF ReaderInv
  <2> DEFINE rest == IF Reader!LastPart = <<>> THEN <<>> ELSE <<Reader!Framed(Reader!LastPart)>>
  <2>1. Reader!LastPart \in Seq(Byte)
            /\ Complete \in Seq({Reader!Whole(k) : k \in 1..Len(Reader!Ends)})
    <3>1. 0 \in 0..Len(available)
      BY <2>0 DEF ReaderTypeOK
    <3>2. Reader!LastPart \in Seq(Byte)
      BY <2>0, <3>1, Taken, LineReaderAssumption
    <3>3. Len(Reader!Ends) \in Nat
      BY <2>0, NewlinesBelow
    <3>4. QED
      BY <3>2, <3>3 DEF Complete
  <2>2. CASE Holding
    <3>1. Len(buf) <= MaxBytes
      BY <2>1, <2>2, LineReaderAssumption DEF Holding, Reader!ReaderAssumption
    <3>2. Reader!Framed(Reader!LastPart) = IF oversize THEN Reader!TooLarge ELSE buf
      BY <2>2 DEF Holding, Reader!Framed
    <3>3. lines = Complete /\ (over => rest = <<>>)
      BY <2>2 DEF Holding
    <3>4. QED
      BY <3>1, <3>2, <3>3 DEF LinesAreFramed, Reader!LinesAreFramed, Complete
  <2>3. CASE Returned
    <3>1. Len(buf) <= MaxBytes
      BY <2>3, LineReaderAssumption DEF Returned, Reader!ReaderAssumption
    <3>2. lines = Append(Complete, Reader!Framed(Reader!LastPart))
              /\ rest = <<Reader!Framed(Reader!LastPart)>>
      BY <2>3 DEF Returned
    <3>3. lines = Complete \o rest /\ lines # Complete
      BY <2>1, <3>2
    <3>4. QED
      BY <2>3, <3>1, <3>3 DEF LinesAreFramed, Reader!LinesAreFramed, Complete, Returned
  <2>4. QED
    BY <2>0, <2>2, <2>3
<1>2. QED
  BY <1>1, <1>0, PTL

=============================================================================
