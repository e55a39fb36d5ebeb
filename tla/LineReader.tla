----------------------------- MODULE LineReader -----------------------------
(***************************************************************************)
(* How the daemon takes lines off a pipe: read_bounded_line                *)
(* (crates/winspot-daemon/src/server.rs).  The bytes come in chunks of any *)
(* size; a line is put together from them, and one that is longer than the *)
(* limit is dropped while it is read, so that no more than the limit is    *)
(* ever held and the next line is found all the same.                      *)
(*                                                                         *)
(* The function is called again and again, as serve_connection does.       *)
(***************************************************************************)
EXTENDS Naturals, Sequences, FiniteSets

CONSTANTS
  Bytes,       \* the bytes of lines
  Newline,
  MaxBytes,    \* max_bytes
  Capacity,    \* of the buffered reader, the longest chunk
  MaxStream    \* bound: bytes written

ReaderAssumption == MaxBytes \in Nat /\ Capacity \in Nat /\ MaxStream \in Nat

VARIABLES
  stream,      \* history: all that was written
  ended,       \* has the peer closed its end?
  available,   \* the chunk that fill_buf has, less what was consumed
  scanned,     \* how much of the stream was consumed
  buf, oversize, sawAny,
  lines,       \* history: what the calls have returned
  over         \* has one returned Eof?

callVars == <<buf, oversize, sawAny>>
vars == <<stream, ended, available, scanned, callVars, lines, over>>

TooLarge == "too large"

Init ==
  /\ stream = <<>> /\ ended = FALSE
  /\ available = <<>> /\ scanned = 0
  /\ buf = <<>> /\ oversize = FALSE /\ sawAny = FALSE
  /\ lines = <<>> /\ over = FALSE

Write ==
  /\ ~ended /\ Len(stream) < MaxStream
  /\ \E b \in Bytes \cup {Newline} : stream' = Append(stream, b)
  /\ UNCHANGED <<ended, available, scanned, callVars, lines, over>>

Close ==
  /\ ~ended /\ ended' = TRUE
  /\ UNCHANGED <<stream, available, scanned, callVars, lines, over>>

FillBuf ==
  /\ ~over /\ available = <<>>
  /\ \E n \in 1..Capacity :
       /\ scanned + n <= Len(stream)
       /\ available' = SubSeq(stream, scanned + 1, scanned + n)
  /\ UNCHANGED <<stream, ended, scanned, callVars, lines, over>>

\* Faulty: what a chunk adds is counted, not what is held.
GatherChunk(bytes) ==
  IF oversize \/ Len(bytes) > MaxBytes
  THEN [buf |-> <<>>, oversize |-> TRUE]
  ELSE [buf |-> buf \o bytes, oversize |-> FALSE]

\* The line goes on with these bytes; from the limit on they are dropped.
Gather(bytes) ==
  IF oversize \/ Len(buf) + Len(bytes) > MaxBytes
  THEN [buf |-> <<>>, oversize |-> TRUE]
  ELSE [buf |-> buf \o bytes, oversize |-> FALSE]

Return(line) ==
  /\ lines' = Append(lines, IF line.oversize THEN TooLarge ELSE line.buf)
  /\ buf' = <<>> /\ oversize' = FALSE /\ sawAny' = FALSE

Consume(n) ==
  /\ scanned' = scanned + n
  /\ available' = SubSeq(available, n + 1, Len(available))

LineEnds ==
  /\ \E pos \in DOMAIN available :
       /\ available[pos] = Newline
       /\ \A i \in 1..(pos - 1) : available[i] # Newline
       /\ Return(Gather(SubSeq(available, 1, pos - 1)))
       /\ Consume(pos)
  /\ UNCHANGED <<stream, ended, over>>

LineGoesOn ==
  /\ available # <<>> /\ \A i \in DOMAIN available : available[i] # Newline
  /\ buf' = Gather(available).buf /\ oversize' = Gather(available).oversize
  /\ sawAny' = TRUE
  /\ Consume(Len(available))
  /\ UNCHANGED <<stream, ended, lines, over>>

\* fill_buf returns nothing: the end, or the end of a last line.
StreamEnds ==
  /\ ~over /\ ended /\ available = <<>> /\ scanned = Len(stream)
  /\ IF sawAny
     THEN Return([buf |-> buf, oversize |-> oversize]) /\ UNCHANGED over
     ELSE over' = TRUE /\ UNCHANGED <<callVars, lines>>
  /\ UNCHANGED <<stream, ended, available, scanned>>

Next == Write \/ Close \/ FillBuf \/ LineEnds \/ LineGoesOn \/ StreamEnds

Spec == Init /\ [][Next]_vars

-----------------------------------------------------------------------------
(* Properties                                                              *)

Newlines == {i \in 1..scanned : stream[i] = Newline}
LineNo(p) == Cardinality(Newlines \cap 1..p)
\* Where the lines of what was consumed end, and the next one begins.
Ends == [k \in 1..Cardinality(Newlines) |-> CHOOSE p \in Newlines : LineNo(p) = k]
Begin(k) == IF k = 1 THEN 1 ELSE Ends[k - 1] + 1
Framed(bytes) == IF Len(bytes) > MaxBytes THEN TooLarge ELSE bytes
Whole(k) == Framed(SubSeq(stream, Begin(k), Ends[k] - 1))
LastPart == SubSeq(stream, Begin(Len(Ends) + 1), scanned)

\* read_bounded_line, "while never buffering more than max_bytes": however the
\* bytes fall into chunks, the calls return the lines of the stream, in order and
\* each once, the ones that are too long as such; what follows the last newline
\* counts as a line; and no more than max_bytes of a line are ever held.
LinesAreFramed ==
  LET complete == [k \in 1..Len(Ends) |-> Whole(k)]
      rest == IF LastPart = <<>> THEN <<>> ELSE <<Framed(LastPart)>>
  IN /\ Len(buf) <= MaxBytes
     /\ \/ lines = complete /\ (over => rest = <<>>)
        \/ ended /\ scanned = Len(stream) /\ lines = complete \o rest
     /\ lines = complete => Framed(LastPart) = IF oversize THEN TooLarge ELSE buf
=============================================================================
