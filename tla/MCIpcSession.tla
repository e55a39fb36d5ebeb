---------------------------- MODULE MCIpcSession ----------------------------
(* Instances of IpcSession and of LineReader for TLC.  A session is about   *)
(* whole lines, the reader about the bytes of one pipe: they take turns,    *)
(* one moving while the other is where it began.                            *)
EXTENDS IpcSession, DaemonLineReader

CONSTANTS find, act, other

\* One request whose answer comes in several lines and one whose comes in one.
MCKind == [r \in Requests |-> IF r = find THEN "search" ELSE "action"]

\* A program that sends what the launcher never would.
MCScript == [c \in Others |-> <<"broken", "hello", "odd", "search">>]

readerVars == <<stream, ended, available, scanned, buf, oversize, sawAny, lines, over>>

BothInit == Init /\ Reader!Init
BothNext ==
  \/ Reader!Init /\ Next /\ UNCHANGED readerVars
  \/ Init /\ Reader!Next /\ UNCHANGED vars

BothSpec == BothInit /\ [][BothNext]_<<vars, readerVars>> /\ Fairness
=============================================================================
