-------------------------- MODULE DaemonLineReader --------------------------
(* LineReader as the instance Reader, with what a run checks of it by name, *)
(* to stand beside modules that have a specification of their own.          *)
CONSTANTS Bytes, Newline, MaxBytes, Capacity, MaxStream
VARIABLES stream, ended, available, scanned, buf, oversize, sawAny, lines, over

Reader == INSTANCE LineReader

ASSUME LineReaderAssumption == Reader!ReaderAssumption

\* read_bounded_line returns the lines of its stream (see LineReader).
LinesAreFramed == Reader!LinesAreFramed
=============================================================================
