----------------------------- MODULE IpcSession -----------------------------
(***************************************************************************)
(* Requests between the launcher and the daemon over the named pipe: the   *)
(* launcher's WinspotIpcClient (apps/Winspot.App/Services) and the         *)
(* daemon's serve_connection and handle_line                               *)
(* (crates/winspot-daemon/src/server.rs).                                  *)
(*                                                                         *)
(* Each request of the launcher has a connection of its own: it says       *)
(* hello, waits for the daemon to accept, writes the request, and reads    *)
(* until it has its answer.  The daemon serves one connection after the    *)
(* other; it reads a line, handles it, writes the responses one by one,    *)
(* and hangs up after most lines.  Any other program of the user may       *)
(* connect as well and write what it likes.                                *)
(*                                                                         *)
(* What an end of a pipe has written before it lets go can still be read   *)
(* by the other end.  Who starts a daemon that is not there is left to     *)
(* DaemonLifecycle, and what a request does to its handlers; here it is    *)
(* done or refused.                                                        *)
(***************************************************************************)
EXTENDS Naturals, Sequences

CONSTANTS
  Requests,    \* the launcher's requests
  Others,      \* connections of other programs
  Kind,        \* the kind of each request
  Script,      \* the lines each of the others writes
  None,
  MaxDeaths    \* bound: deaths of the daemon

Kinds == {"search", "action", "preview", "diagnostics"}
\* What a line may hold; "odd" is any other payload, "broken" none at all.
Lines == Kinds \cup {"hello", "newer hello", "cancel", "odd", "broken", "oversized"}
Responses == {"accepted", "error", "batch", "completed", "done", "refused", "chunk", "ready",
              "report"}

ASSUME SessionAssumption ==
  /\ Requests \cap Others = {} /\ None \notin Requests \cup Others
  /\ Kind \in [Requests -> Kinds]
  /\ Script \in [Others -> Seq(Lines)]
  /\ MaxDeaths \in Nat

Clients == Requests \cup Others

VARIABLES
  pc,        \* where each client is
  outcome,   \* how the launcher's requests ended
  said,      \* how many lines of its script each other client has written
  up, down,  \* what each end has written and the other has not read
  left,      \* the clients that have let go of the pipe
  dropped,   \* the clients whose connection the daemon has let go of
  phase,     \* the daemon's place in serve_forever
  conn,      \* the client it serves
  pending,   \* responses it has still to write
  closing,   \* does it hang up after them?
  last,      \* the last line it has handled on each connection
  runs, result,  \* how often it carried out each request, and what that gave
  deaths

clientVars == <<pc, outcome, said>>
pipeVars   == <<up, down, left, dropped>>
daemonVars == <<phase, conn, pending, closing, last, runs, result, deaths>>
vars == <<clientVars, pipeVars, daemonVars>>

TypeOK ==
  /\ pc \in [Clients -> {"connect", "hello", "accept", "answer", "talk", "over"}]
  /\ outcome \in [Requests -> {"pending", "answered", "refused", "short", "failed", "cancelled"}]
  /\ said \in [Others -> Nat]
  /\ up \in [Clients -> Seq(Lines)] /\ down \in [Clients -> Seq(Responses)]
  /\ left \subseteq Clients /\ dropped \subseteq Clients
  /\ phase \in {"down", "listening", "serving", "between"}
  /\ conn \in Clients \cup {None}
  /\ pending \in Seq(Responses) /\ closing \in BOOLEAN
  /\ last \in [Clients -> Lines \cup {None}]
  /\ runs \in [Requests -> Nat] /\ result \in [Requests -> {"none", "done", "refused"}]
  /\ deaths \in 0..MaxDeaths

Init ==
  /\ pc = [c \in Clients |-> "connect"]
  /\ outcome = [r \in Requests |-> "pending"]
  /\ said = [c \in Others |-> 0]
  /\ up = [c \in Clients |-> <<>>] /\ down = [c \in Clients |-> <<>>]
  /\ left = {} /\ dropped = {}
  /\ phase = "listening" /\ conn = None
  /\ pending = <<>> /\ closing = FALSE
  /\ last = [c \in Clients |-> None]
  /\ runs = [r \in Requests |-> 0] /\ result = [r \in Requests |-> "none"]
  /\ deaths = 0

-----------------------------------------------------------------------------
(* The launcher's end: WinspotIpcClient                                    *)

Goto(c, place) == pc' = [pc EXCEPT ![c] = place]

\* The request is over and its pipe disposed of.
Finish(r, how) ==
  /\ Goto(r, "over")
  /\ outcome' = [outcome EXCEPT ![r] = how]
  /\ left' = left \cup {r}
  /\ down' = [down EXCEPT ![r] = <<>>]

Connect(c) ==
  /\ pc[c] = "connect"
  /\ phase = "listening"
  /\ phase' = "serving" /\ conn' = c
  /\ Goto(c, IF c \in Requests THEN "hello" ELSE "talk")
  /\ UNCHANGED <<outcome, said, pipeVars, pending, closing, last, runs, result, deaths>>

\* No pipe instance was free, in both attempts.
ConnectFails(r) ==
  /\ pc[r] = "connect"
  /\ Finish(r, "failed")
  /\ UNCHANGED <<said, up, dropped, daemonVars>>

\* A line is written, unless the daemon has let go: then the write throws.
Say(r, line, place) ==
  \/ /\ r \notin dropped
     /\ up' = [up EXCEPT ![r] = Append(@, line)]
     /\ Goto(r, place)
     /\ UNCHANGED <<outcome, left>>
  \/ /\ r \in dropped
     /\ Finish(r, "failed")
     /\ UNCHANGED up

SayHello(r) ==
  /\ pc[r] = "hello"
  /\ Say(r, "hello", "accept")
  /\ r \notin dropped => UNCHANGED down
  /\ UNCHANGED <<said, dropped, daemonVars>>

\* ReadLineAsync returns null.
AtEnd(c) == down[c] = <<>> /\ c \in dropped

\* The rest of NegotiateAsync, and the request itself.
ReadAccept(r) ==
  /\ pc[r] = "accept"
  /\ \/ /\ down[r] # <<>> /\ Head(down[r]) = "accepted"
        /\ Say(r, Kind[r], "answer")
        /\ r \notin dropped => down' = [down EXCEPT ![r] = Tail(@)]
     \/ /\ AtEnd(r) \/ (down[r] # <<>> /\ Head(down[r]) # "accepted")
        /\ Finish(r, "failed")
        /\ UNCHANGED up
  /\ UNCHANGED <<said, dropped, daemonVars>>

\* What a response means to a request of a kind; "more" is to read on.
Meaning(kind, response) ==
  CASE kind = "search" -> CASE response = "completed" -> "answered"
                            [] response = "error" -> "failed"
                            [] OTHER -> "more"
    [] kind = "preview" -> IF response = "ready" THEN "answered" ELSE "more"
    [] kind = "action" -> CASE response = "done" -> "answered"
                            [] response = "refused" -> "refused"
                            [] OTHER -> "failed"
    [] kind = "diagnostics" -> IF response = "report" THEN "answered" ELSE "failed"

\* Streams take the end of the pipe for the end of the results.
Streamed == {r \in Requests : Kind[r] \in {"search", "preview"}}

\* Faulty: a request that has lost its connection is sent again.
ReadAnswerRetrying(r) ==
  /\ pc[r] = "answer"
  /\ \/ /\ down[r] # <<>>
        /\ LET meaning == Meaning(Kind[r], Head(down[r])) IN
             IF meaning = "more"
             THEN /\ down' = [down EXCEPT ![r] = Tail(@)]
                  /\ UNCHANGED <<pc, outcome, left>>
             ELSE Finish(r, meaning)
        /\ UNCHANGED <<up, dropped>>
     \/ /\ AtEnd(r)
        /\ Goto(r, "connect")
        /\ dropped' = dropped \ {r} /\ up' = [up EXCEPT ![r] = <<>>]
        /\ UNCHANGED <<outcome, left, down>>
  /\ UNCHANGED <<said, daemonVars>>

ReadAnswer(r) ==
  /\ pc[r] = "answer"
  /\ \/ /\ down[r] # <<>>
        /\ LET meaning == Meaning(Kind[r], Head(down[r])) IN
             IF meaning = "more"
             THEN /\ down' = [down EXCEPT ![r] = Tail(@)]
                  /\ UNCHANGED <<pc, outcome, left>>
             ELSE Finish(r, meaning)
     \/ /\ AtEnd(r)
        /\ Finish(r, IF r \in Streamed THEN "short" ELSE "failed")
  /\ UNCHANGED <<said, up, dropped, daemonVars>>

\* The token is cancelled: whatever the request awaits throws.
Cancel(r) ==
  /\ pc[r] # "over"
  /\ Finish(r, "cancelled")
  /\ UNCHANGED <<said, up, dropped, daemonVars>>

-----------------------------------------------------------------------------
(* Another program's end                                                   *)

WriteNext(c) ==
  /\ pc[c] = "talk" /\ c \notin dropped
  /\ said[c] < Len(Script[c])
  /\ said' = [said EXCEPT ![c] = @ + 1]
  /\ up' = [up EXCEPT ![c] = Append(@, Script[c][said[c] + 1])]
  /\ UNCHANGED <<pc, outcome, down, left, dropped, daemonVars>>

\* What it has written of a line without its end is read as a line.
HangUp(c) ==
  /\ pc[c] = "talk"
  /\ Goto(c, "over")
  /\ left' = left \cup {c}
  /\ up' \in {up, [up EXCEPT ![c] = Append(@, "broken")]}
  /\ UNCHANGED <<outcome, said, down, dropped, daemonVars>>

-----------------------------------------------------------------------------
(* The daemon: serve_connection                                            *)

\* Faulty: only a launcher that is too new is answered.
ReplyNotToHello(line, res) ==
  CASE line = "hello"       -> <<>>
    [] line = "search"      -> <<"batch", "completed">>
    [] line = "action"      -> <<res>>
    [] line = "preview"     -> <<"chunk", "ready">>
    [] line = "diagnostics" -> <<"report">>
    [] line = "cancel"      -> <<"completed">>
    [] line \in {"newer hello", "odd", "broken", "oversized"} -> <<"error">>

\* handle_line and the oversized case: what is written back, and whether the
\* daemon hangs up then.
Reply(line, res) ==
  CASE line = "hello"       -> <<"accepted">>
    [] line = "search"      -> <<"batch", "completed">>
    [] line = "action"      -> <<res>>
    [] line = "preview"     -> <<"chunk", "ready">>
    [] line = "diagnostics" -> <<"report">>
    [] line = "cancel"      -> <<"completed">>
    [] line \in {"newer hello", "odd", "broken", "oversized"} -> <<"error">>

HangsUpAfter(line) == line \notin {"hello", "broken"}

\* Only an action can be refused.
Handle(c, line, res) ==
  /\ res = "refused" => line = "action"
  /\ last' = [last EXCEPT ![c] = line]
  /\ IF c \in Requests /\ line \in Kinds
     THEN /\ runs' = [runs EXCEPT ![c] = @ + 1]
          /\ result' = [result EXCEPT ![c] = res]
     ELSE UNCHANGED <<runs, result>>

ReadLine ==
  /\ phase = "serving" /\ pending = <<>> /\ ~closing
  /\ up[conn] # <<>>
  /\ \E res \in {"done", "refused"} :
       /\ Handle(conn, Head(up[conn]), res)
       /\ pending' = Reply(Head(up[conn]), res)
  /\ closing' = HangsUpAfter(Head(up[conn]))
  /\ up' = [up EXCEPT ![conn] = Tail(@)]
  /\ UNCHANGED <<clientVars, down, left, dropped, phase, conn, deaths>>

WriteResponse ==
  /\ phase = "serving" /\ pending # <<>>
  /\ conn \notin left
  /\ down' = [down EXCEPT ![conn] = Append(@, Head(pending))]
  /\ pending' = Tail(pending)
  /\ UNCHANGED <<clientVars, up, left, dropped, phase, conn, closing, last, runs, result, deaths>>

LetGo ==
  /\ dropped' = dropped \cup {conn}
  /\ conn' = None /\ pending' = <<>> /\ closing' = FALSE
  /\ UNCHANGED <<clientVars, up, down, left, last, runs, result>>

\* Faulty: the end of the client's lines is not noticed.
EndConnectionAtLine ==
  /\ phase = "serving"
  /\ \/ pending = <<>> /\ closing
     \/ pending # <<>> /\ conn \in left
  /\ LetGo
  /\ phase' = "between"
  /\ UNCHANGED deaths

\* serve_connection returns: after a closing line, at the end of the client's
\* lines, or because a response cannot be written.
EndConnection ==
  /\ phase = "serving"
  /\ \/ pending = <<>> /\ closing
     \/ pending = <<>> /\ conn \in left /\ up[conn] = <<>>
     \/ pending # <<>> /\ conn \in left
  /\ LetGo
  /\ phase' = "between"
  /\ UNCHANGED deaths

NextInstance ==
  /\ phase = "between"
  /\ phase' = "listening"
  /\ UNCHANGED <<clientVars, pipeVars, conn, pending, closing, last, runs, result, deaths>>

\* The daemon is killed or crashes, and later another one takes its place.
Die ==
  /\ phase # "down" /\ deaths < MaxDeaths
  /\ deaths' = deaths + 1
  /\ phase' = "down"
  /\ IF conn = None THEN UNCHANGED <<clientVars, pipeVars, conn, pending, closing, last, runs, result>>
     ELSE LetGo

Restart ==
  /\ phase = "down"
  /\ phase' = "listening"
  /\ UNCHANGED <<clientVars, pipeVars, conn, pending, closing, last, runs, result, deaths>>

Step(r) == SayHello(r) \/ ReadAccept(r) \/ ReadAnswer(r)
Serve == ReadLine \/ WriteResponse \/ EndConnection \/ NextInstance \/ Restart

Next ==
  \/ \E c \in Clients : Connect(c)
  \/ \E r \in Requests : Step(r) \/ ConnectFails(r) \/ Cancel(r)
  \/ \E c \in Others : WriteNext(c) \/ HangUp(c)
  \/ Serve
  \/ Die

Spec == Init /\ [][Next]_vars

\* Both sides go on with what they have begun, and a wait for the pipe ends.
\* Other programs hang up some time.  Nobody has to cancel anything.
Fairness ==
  /\ WF_vars(Serve)
  /\ \A r \in Requests : WF_vars(Step(r)) /\ WF_vars(ConnectFails(r))
  /\ \A c \in Others : WF_vars(HangUp(c))

FairSpec == Spec /\ Fairness

-----------------------------------------------------------------------------
(* Properties                                                              *)

\* The contract's variables are the session's own; the pipe, the lines and the
\* daemon's place in its loop are what it abstracts from.
Contract == INSTANCE RequestContract
              WITH Requests <- Requests, Streamed <- Streamed,
                   runs <- runs, result <- result, outcome <- outcome

\* The launcher's requests keep to their contract: they are carried out at most
\* once (WinspotIpcClient retries a connection, never a request), and answers
\* are those of the request, although no request id is ever compared.
KeepsContract == Contract!Spec

\* serve_forever: "a single client connection failing (abrupt disconnect, broken
\* pipe, malformed payload) must not take down the daemon": whatever clients do
\* to their connections, the daemon is ready for the next one again and again.
ListensAgain == []<>(phase = "listening")

\* A request that has reached the daemon ends: the two sides never wait for each
\* other, whatever becomes of either.
RequestsEnd == \A r \in Requests : pc[r] = "hello" ~> pc[r] = "over"

\* docs/architecture-current.md: the daemon "answers malformed or unsupported
\* messages with typed backend errors instead of dropping the connection".
\* The code does not have this property; README.md says where they part.
ErrorsKeepConnection ==
  \A c \in dropped : deaths = 0 /\ c \notin left => last[c] \notin {"broken", "odd"}
=============================================================================
