-------------------------- MODULE RequestContract --------------------------
(***************************************************************************)
(* What the launcher may rely on when it sends a request to the daemon,    *)
(* whatever happens to the connection, to either process, or to the other  *)
(* requests.  IpcSession implements it.                                    *)
(*                                                                         *)
(*  - The daemon carries a request out at most once, also if the launcher  *)
(*    has given it up in the meantime.                                     *)
(*  - A request that is answered has been carried out, and the answer is   *)
(*    what that gave.                                                      *)
(*  - A stream may fall short: it ends without an error before the daemon  *)
(*    has said that it is complete.                                        *)
(*  - Whatever ends a request ends it for good.                            *)
(***************************************************************************)
EXTENDS Naturals

CONSTANTS
  Requests,
  Streamed    \* the requests whose answers are streams

VARIABLES
  runs,       \* how often each request has been carried out
  result,     \* what that gave
  outcome     \* what the launcher has learnt

vars == <<runs, result, outcome>>

Results == {"done", "refused"}
Outcomes == {"pending", "answered", "refused", "short", "failed", "cancelled"}

Init ==
  /\ runs = [r \in Requests |-> 0]
  /\ result = [r \in Requests |-> "none"]
  /\ outcome = [r \in Requests |-> "pending"]

CarryOut(r) ==
  /\ runs[r] = 0
  /\ runs' = [runs EXCEPT ![r] = 1]
  /\ result' \in {[result EXCEPT ![r] = x] : x \in Results}
  /\ UNCHANGED outcome

End(r, how) ==
  /\ outcome[r] = "pending"
  /\ outcome' = [outcome EXCEPT ![r] = how]
  /\ UNCHANGED <<runs, result>>

Next ==
  \E r \in Requests :
    \/ CarryOut(r)
    \/ result[r] = "done" /\ End(r, "answered")
    \/ result[r] = "refused" /\ End(r, "refused")
    \/ r \in Streamed /\ End(r, "short")
    \/ End(r, "failed")
    \/ End(r, "cancelled")

Spec == Init /\ [][Next]_vars
=============================================================================
