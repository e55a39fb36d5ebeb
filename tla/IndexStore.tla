----------------------------- MODULE IndexStore -----------------------------
(***************************************************************************)
(* The launcher's file index (crates/winspot-index/src/lib.rs): Indexer    *)
(* walks the folders below its roots and hands what it found to            *)
(* IndexStore, which keeps it in an SQLite database.                       *)
(*                                                                         *)
(* The walk takes one entry of a folder at a time while the disk changes;  *)
(* the store takes one statement at a time, each of which may fail.  A     *)
(* statement outside a transaction is stored at once, one inside it when   *)
(* the transaction commits.  SQLite rolls back on some errors by itself;   *)
(* a commit that finds a reader in the way fails and leaves the            *)
(* transaction open.  The store is the only writer of its database.        *)
(*                                                                         *)
(* A row stands for the time of modification kept in it; the time a        *)
(* refresh is stamped with is the number of requests so far.               *)
(*                                                                         *)
(* This is the interface of the crate, called in any order; the daemon     *)
(* itself only opens the index and queries it so far.                      *)
(***************************************************************************)
EXTENDS Naturals, SequencesExt

CONSTANTS
  Nodes,       \* the files and folders below the roots
  Folders,     \* the folders among them
  Roots,       \* the roots, as a sequence
  Parent,      \* the folder or root each node is in
  MaxDepth,    \* how far below the roots folders are read
  NoRow,       \* no row in the index, nothing on the disk
  NoTxn,
  Idle,
  MaxVersion,  \* bound: times of modification
  MaxChanges,  \* bound: changes of the disk
  MaxRequests  \* bound: requests to the store

VARIABLES
  disk,        \* when each node on the disk was modified
  changes,
  rows, stamp, \* the database: the rows, and the time of the last refresh
  txn,         \* the connection's open transaction: the same as it sees them
  at,          \* where the program is
  ahead,       \* the folders being read, the innermost last
  visited,     \* the nodes met on this walk
  found,       \* the items collected
  there,       \* the nodes that were there, and to be read, since the walk began
  same,        \* those that were not modified since then either
  left,        \* items of the refresh that are still to be written
  request, answer, asked

diskVars == <<disk, changes>>
walkVars == <<ahead, visited, found>>
sinceVars == <<there, same>>
vars == <<diskVars, rows, stamp, txn, at, walkVars, sinceVars, left, request, answer, asked>>

Rows == 0..MaxVersion \cup {NoRow}
None == [n \in Nodes |-> NoRow]

TypeOK ==
  /\ disk \in [Nodes -> Rows] /\ changes \in 0..MaxChanges
  /\ rows \in [Nodes -> Rows] /\ stamp \in 0..MaxRequests
  /\ txn \in [rows : [Nodes -> Rows], stamp : 0..MaxRequests] \cup {NoTxn}
  /\ at \in {"idle", "walking", "beginning", "writing", "touching", "committing", "upserting",
             "deleting", "stamping", "returning"}
  /\ found \in [Nodes -> Rows] /\ visited \subseteq Nodes /\ left \subseteq Nodes
  /\ there \subseteq Nodes /\ same \subseteq Nodes
  /\ answer \in {"none", "ok", "error"} /\ asked \in 0..MaxRequests

\* What the constants have to be: the marks are marks, and no data.
StoreAssumption ==
  /\ MaxVersion \in Nat \ {0} /\ MaxChanges \in Nat /\ MaxRequests \in Nat
  /\ NoRow \notin Nat
  /\ NoTxn \notin [rows : [Nodes -> Rows], stamp : 0..MaxRequests]
  /\ Idle \notin [op : {"refresh", "upsert", "delete"}, items : [Nodes -> Rows]]

\* The folders form trees below the roots.
TreeAssumption ==
  /\ IsFiniteSet(Nodes) /\ Folders \subseteq Nodes /\ MaxDepth \in Nat
  /\ Roots \in Seq(Range(Roots)) /\ Range(Roots) \cap Nodes = {}
  /\ \A n \in Nodes : Parent[n] \in Folders \cup Range(Roots)
  /\ \E rank \in [Nodes -> 0..Cardinality(Nodes)] :
       \A n \in Nodes : Parent[n] \in Nodes => rank[Parent[n]] < rank[n]

Exists(n) == disk[n] # NoRow

\* How far below the roots a node is, and the folders it is in.
Level[n \in Nodes] == IF Parent[n] \in Nodes THEN Level[Parent[n]] + 1 ELSE 1
Above[n \in Nodes] == IF Parent[n] \in Nodes THEN {Parent[n]} \cup Above[Parent[n]] ELSE {}

\* What is below a folder or a root, and what goes when a node goes.
Below(f) == {n \in Nodes : Parent[n] = f \/ \E m \in Above[n] : Parent[m] = f}
Subtree(n) == {n} \cup Below(n)

Init ==
  /\ disk \in {[n \in Nodes |-> 1], None} /\ changes = 0
  /\ rows = None /\ stamp = 0 /\ txn = NoTxn
  /\ at = "idle" /\ ahead = <<>> /\ visited = {} /\ found = None
  /\ there = {} /\ same = {} /\ left = {}
  /\ request = Idle /\ answer = "none" /\ asked = 0

-----------------------------------------------------------------------------
(* Indexer                                                                 *)

StartRefresh ==
  /\ at = "idle" /\ asked < MaxRequests
  /\ at' = "walking"
  /\ ahead' = Reverse([i \in DOMAIN Roots |-> [folder |-> Roots[i], depth |-> 0]])
  /\ visited' = {} /\ found' = None
  /\ there' = {n \in Nodes : Exists(n)} /\ same' = Nodes
  /\ UNCHANGED <<diskVars, rows, stamp, txn, left, request, answer, asked>>

Innermost == Last(ahead)

\* Faulty: the depth is that of the entries.
ReadsEarly(f) == f.depth < MaxDepth

Reads(f) == f.depth <= MaxDepth

Entries(f) == {n \in Nodes \ visited : Reads(f) /\ Exists(n) /\ Parent[n] = f.folder}

WalkStep ==
  /\ at = "walking" /\ ahead # <<>>
  /\ UNCHANGED <<diskVars, rows, stamp, txn, at, left, request, answer, asked>>

\* An item is collected; its time of modification is 0 when it cannot be read.
VisitEntry ==
  /\ WalkStep
  /\ \E n \in Entries(Innermost) : \E modified \in {disk[n], 0} :
       /\ visited' = visited \cup {n}
       /\ found' = [found EXCEPT ![n] = modified]
       /\ same' = IF modified = disk[n] THEN same ELSE same \ {n}
       /\ ahead' = IF n \in Folders
                   THEN Append(ahead, [folder |-> n, depth |-> Innermost.depth + 1])
                   ELSE ahead
  /\ UNCHANGED there

LeaveFolder ==
  /\ WalkStep
  /\ Entries(Innermost) = {}
  /\ ahead' = Front(ahead)
  /\ UNCHANGED <<visited, found, sinceVars>>

\* Faulty: an entry that cannot be read ends the reading of its folder.
StopAtEntry ==
  /\ WalkStep
  /\ \E n \in Entries(Innermost) : there' = there \ Subtree(n)
  /\ ahead' = Front(ahead)
  /\ UNCHANGED <<visited, found, same>>

\* An entry, or the folder from there on, cannot be read: it is passed over.
PassOver ==
  /\ WalkStep
  /\ \E n \in Entries(Innermost) :
       \/ /\ visited' = visited \cup {n}
          /\ there' = there \ Subtree(n)
          /\ UNCHANGED ahead
       \/ /\ ahead' = Front(ahead)
          /\ there' = there \ Below(Innermost.folder)
          /\ UNCHANGED visited
  /\ UNCHANGED <<found, same>>

-----------------------------------------------------------------------------
(* IndexStore                                                              *)

Ask(op, items, place) ==
  /\ request' = [op |-> op, items |-> items]
  /\ answer' = "none" /\ asked' = asked + 1
  /\ at' = place
  /\ UNCHANGED <<diskVars, rows, stamp, txn, walkVars, sinceVars, left>>

HandOver ==
  /\ at = "walking" /\ ahead = <<>>
  /\ Ask("refresh", found, "beginning")

CallUpsert ==
  /\ at = "idle" /\ asked < MaxRequests
  /\ \E n \in Nodes : Exists(n) /\ Ask("upsert", [None EXCEPT ![n] = disk[n]], "upserting")

CallDelete ==
  /\ at = "idle" /\ asked < MaxRequests
  /\ \E n \in Nodes : Ask("delete", [None EXCEPT ![n] = MaxVersion], "deleting")

Asked == {n \in Nodes : request.items[n] # NoRow}

\* A statement takes effect in the open transaction or, without one, at once.
Put(newRows, newStamp) ==
  IF txn = NoTxn
  THEN rows' = newRows /\ stamp' = newStamp /\ UNCHANGED txn
  ELSE txn' = [rows |-> newRows, stamp |-> newStamp] /\ UNCHANGED <<rows, stamp>>

Seen == IF txn = NoTxn THEN [rows |-> rows, stamp |-> stamp] ELSE txn

Statement(from) ==
  /\ at = from
  /\ UNCHANGED <<diskVars, walkVars, sinceVars, request, asked>>

Answer(how) == answer' = how /\ at' = "returning"

Begin ==
  /\ Statement("beginning")
  /\ txn = NoTxn
  /\ txn' = Seen
  /\ left' = Asked /\ at' = "writing"
  /\ UNCHANGED <<rows, stamp, answer>>

\* Within a transaction another cannot begin; nor can one while another
\* connection writes.
BeginFails ==
  /\ Statement("beginning")
  /\ Answer("error")
  /\ UNCHANGED <<rows, stamp, txn, left>>

\* upsert_without_refresh_touch
WriteItem ==
  /\ Statement("writing")
  /\ \E n \in left :
       /\ Put([Seen.rows EXCEPT ![n] = request.items[n]], Seen.stamp)
       /\ left' = left \ {n}
  /\ UNCHANGED <<at, answer>>

ItemsWritten ==
  /\ Statement("writing")
  /\ left = {} /\ at' = "touching"
  /\ UNCHANGED <<rows, stamp, txn, left, answer>>

\* touch_refresh_timestamp
Touch ==
  /\ Statement("touching")
  /\ Put(Seen.rows, asked)
  /\ at' = "committing"
  /\ UNCHANGED <<left, answer>>

\* Faulty: what was written before the failure is kept.
CommitWhatThereIs ==
  /\ \/ Statement("writing") /\ left # {}
     \/ Statement("touching")
  /\ rows' = Seen.rows /\ stamp' = Seen.stamp
  /\ txn' = NoTxn /\ left' = {}
  /\ Answer("error")

RollBack ==
  /\ \/ Statement("writing") /\ left # {}
     \/ Statement("touching")
  /\ txn' = NoTxn /\ left' = {}
  /\ Answer("error")
  /\ UNCHANGED <<rows, stamp>>

Commit ==
  /\ Statement("committing")
  /\ rows' = Seen.rows /\ stamp' = Seen.stamp
  /\ txn' = NoTxn
  /\ Answer("ok")
  /\ UNCHANGED left

\* refresh_items returns the error of its commit and does not roll back; if
\* SQLite has not either, the transaction stays open.
CommitFails ==
  /\ Statement("committing")
  /\ txn' \in {txn, NoTxn}
  /\ Answer("error")
  /\ UNCHANGED <<rows, stamp, left>>

Upsert ==
  /\ Statement("upserting")
  /\ Put([n \in Nodes |-> IF n \in Asked THEN request.items[n] ELSE Seen.rows[n]], Seen.stamp)
  /\ Answer("ok")
  /\ UNCHANGED left

Delete ==
  /\ Statement("deleting")
  /\ Put([n \in Nodes |-> IF n \in Asked THEN NoRow ELSE Seen.rows[n]], Seen.stamp)
  /\ at' = "stamping"
  /\ UNCHANGED <<left, answer>>

TouchAfterDelete ==
  /\ Statement("stamping")
  /\ Put(Seen.rows, asked)
  /\ Answer("ok")
  /\ UNCHANGED left

StatementFails ==
  /\ \E place \in {"upserting", "deleting", "stamping"} : Statement(place)
  /\ txn' \in {txn, NoTxn}
  /\ Answer("error")
  /\ UNCHANGED <<rows, stamp, left>>

Return ==
  /\ at = "returning"
  /\ at' = "idle" /\ request' = Idle
  /\ UNCHANGED <<diskVars, rows, stamp, txn, walkVars, sinceVars, left, answer, asked>>

-----------------------------------------------------------------------------
(* The program stops and opens the index again; the disk changes           *)

Reopen ==
  /\ at' = "idle" /\ request' = Idle
  /\ txn' = NoTxn
  /\ ahead' = <<>> /\ visited' = {} /\ found' = None /\ left' = {}
  /\ there' = {} /\ same' = {}
  /\ UNCHANGED <<diskVars, rows, stamp, answer, asked>>

\* A node is written, or goes with all that is below it.
DiskChanges ==
  /\ changes < MaxChanges
  /\ changes' = changes + 1
  /\ \/ \E n \in Nodes, version \in 1..MaxVersion :
          /\ \A f \in Above[n] : Exists(f)
          /\ disk' = [disk EXCEPT ![n] = version]
          /\ same' = same \ {n}
          /\ UNCHANGED there
     \/ \E n \in Nodes :
          /\ disk' = [m \in Nodes |-> IF m \in Subtree(n) THEN NoRow ELSE disk[m]]
          /\ there' = there \ Subtree(n)
          /\ UNCHANGED same
  /\ UNCHANGED <<rows, stamp, txn, at, walkVars, left, request, answer, asked>>

Walk == StartRefresh \/ VisitEntry \/ LeaveFolder \/ PassOver \/ HandOver
Store ==
  \/ Begin \/ BeginFails \/ WriteItem \/ ItemsWritten \/ Touch \/ RollBack \/ Commit \/ CommitFails
  \/ CallUpsert \/ Upsert \/ CallDelete \/ Delete \/ TouchAfterDelete \/ StatementFails
  \/ Return

Next == Walk \/ Store \/ Reopen \/ DiskChanges

Spec == Init /\ [][Next]_vars

-----------------------------------------------------------------------------
(* Properties                                                              *)

\* A transaction that no refresh is busy with was left open by a failed commit.
LeftOpen == txn # NoTxn /\ at \notin {"writing", "touching", "committing"}

Contract == INSTANCE IndexContract
              WITH Nodes <- Nodes, NoRow <- NoRow, Idle <- Idle, rows <- rows, stamp <- stamp,
                   request <- request, answer <- answer, asked <- asked, suspended <- LeftOpen

\* refresh_items and delete keep to the index's contract whichever statement
\* fails and whenever the program stops: a refresh is stored as a whole or not at
\* all, and what is acknowledged is stored, unless an earlier commit has failed
\* and left its transaction open.
StoreKeepsContract == Contract!Spec

\* collect_root misses nothing that is there all along: whatever else comes and
\* goes under the walk, the index holds after an acknowledged refresh every file
\* and folder down to the depth asked for that was on the disk, and could be read,
\* ever since the refresh began, and as it is on the disk if it was not modified.
RefreshIsComplete ==
  at = "returning" /\ answer = "ok" /\ request.op = "refresh" =>
    \A n \in there : Level[n] <= MaxDepth + 1 =>
      rows[n] # NoRow /\ (n \in same => rows[n] = disk[n])
=============================================================================
