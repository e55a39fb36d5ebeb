--------------------------- MODULE IndexContract ---------------------------
(***************************************************************************)
(* What a program may rely on when it changes the launcher's index through *)
(* one connection, whatever fails on the way.  IndexStore implements it.   *)
(*                                                                         *)
(*  - A refresh is stored as a whole, with its time, or not at all.        *)
(*  - What is answered "ok" is stored, and what is answered "error" is     *)
(*    not, except that a deletion which fails may have removed its row.    *)
(*  - A refresh that is refused may leave the connection suspended: until  *)
(*    it is opened again nothing that goes through it is stored, whatever  *)
(*    it answers, and no further refresh succeeds.                         *)
(***************************************************************************)
EXTENDS Naturals

CONSTANTS
  Nodes,      \* what may be indexed
  NoRow,
  Idle        \* no request

VARIABLES
  rows,       \* what is stored of each node
  stamp,      \* the time of the last refresh
  request,    \* what is being asked for: its kind, and the rows concerned
  answer,     \* what came of it
  asked,      \* how many requests there were; it stands for the time
  suspended

vars == <<rows, stamp, request, answer, asked, suspended>>

Init ==
  /\ rows = [n \in Nodes |-> NoRow] /\ stamp = 0
  /\ request = Idle /\ answer = "none" /\ asked = 0
  /\ suspended = FALSE

Ask ==
  /\ request = Idle /\ request' # Idle
  /\ answer' = "none" /\ asked' = asked + 1
  /\ UNCHANGED <<rows, stamp, suspended>>

Changed(n) == request.items[n] # NoRow

Store ==
  /\ request.op \in {"refresh", "upsert"} /\ ~suspended
  /\ rows' = [n \in Nodes |-> IF Changed(n) THEN request.items[n] ELSE rows[n]]
  /\ stamp' = IF request.op = "refresh" THEN asked ELSE stamp
  /\ answer' = "ok"
  /\ UNCHANGED suspended

RemoveRow ==
  /\ request.op = "delete" /\ ~suspended
  /\ rows' = [n \in Nodes |-> IF Changed(n) THEN NoRow ELSE rows[n]]
  /\ UNCHANGED <<stamp, answer, suspended>>

StampRemoval ==
  /\ request.op = "delete" /\ ~suspended
  /\ \A n \in Nodes : Changed(n) => rows[n] = NoRow
  /\ stamp' = asked /\ answer' = "ok"
  /\ UNCHANGED <<rows, suspended>>

Refuse ==
  /\ answer' = "error"
  /\ suspended' \in BOOLEAN
  /\ suspended' => suspended \/ request.op = "refresh"
  /\ UNCHANGED <<rows, stamp>>

\* The change goes nowhere.
AcceptInVain ==
  /\ suspended /\ request.op # "refresh"
  /\ answer' = "ok"
  /\ UNCHANGED <<rows, stamp, suspended>>

CarryOut ==
  /\ request # Idle /\ answer = "none"
  /\ Store \/ RemoveRow \/ StampRemoval \/ Refuse \/ AcceptInVain
  /\ UNCHANGED <<request, asked>>

Return ==
  /\ answer # "none" /\ request' = Idle
  /\ UNCHANGED <<rows, stamp, answer, asked, suspended>>

\* The program or the machine stops, and the index is opened again.
Reopen ==
  /\ request' = Idle /\ suspended' = FALSE
  /\ UNCHANGED <<rows, stamp, answer, asked>>

Next == Ask \/ CarryOut \/ Return \/ Reopen

Spec == Init /\ [][Next]_vars
=============================================================================
