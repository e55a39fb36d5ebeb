--------------------------- MODULE FastFlowLmAsk ---------------------------
(***************************************************************************)
(* The first part of a FastFlowLM question                                 *)
(* (crates/winspot-fastflowlm/src/lib.rs, FastFlowLmService::ask): files   *)
(* that the index finds for the question are read into a context of        *)
(* bounded size, and "flm list --json" is asked whether the model is       *)
(* installed.  What follows, the server, is in FastFlowLmManager.          *)
(*                                                                         *)
(* Files may change while they are read.  The listing is a process with    *)
(* two pipes, each emptied by a thread of its own, and may hang, write     *)
(* without end, fail, or leave a helper process behind that has inherited  *)
(* the pipes.  Lengths are in units of a few hundred bytes.                *)
(***************************************************************************)
EXTENDS Integers, Sequences, Functions

CONSTANTS
  Items,         \* what the index knows: files and folders
  Files,         \* those that are files
  Hits,          \* what a search of the index may find
  MaxSize,       \* bound: lengths of files and of the listing
  Settings,      \* the limits that may be configured: files, bytes of a file, of the context
  HardFile,      \* HARD_MAX_FILE_BYTES
  HardContext,   \* HARD_MAX_CONTEXT_BYTES
  Chunk,         \* READ_CHUNK_BYTES
  OutputLimit,   \* MODEL_LIST_OUTPUT_LIMIT_BYTES
  PipeSize,      \* what a pipe holds
  Polls          \* MODEL_LIST_TIMEOUT, in sleeps of 25 ms

AskAssumption ==
  /\ Files \subseteq Items /\ Hits \subseteq Seq(Items)
  /\ Settings \subseteq [files : Nat, file : Nat, context : Nat]
  /\ {HardFile, HardContext, Chunk, PipeSize, Polls} \subseteq Nat \ {0}
  /\ {MaxSize, OutputLimit} \subseteq Nat

VARIABLES
  pc,        \* where ask is
  limits,    \* ContextLimits
  size,      \* how long the file is that is being read
  matches,   \* what the index found
  entries,   \* the context so far; a file's content by its length and, history,
             \* whether that was the whole file when its end was met
  total,     \* total_content_bytes
  got,       \* read_to_vec_with_cap of a file: what it has read
  child,     \* the listing process
  helper,    \* is there a process that it started and that holds its pipes?
  wrote,     \* what has been written to each pipe
  taken,     \* what the thread that empties it has read
  reader,    \* and where that thread is
  polls      \* how long the listing has run

fileVars == <<limits, size, matches, entries, total, got>>
listVars == <<child, helper, wrote, taken, reader, polls>>
vars == <<pc, fileVars, listVars>>

Streams == {"stdout", "stderr"}
NoContent == [bytes |-> -1, whole |-> FALSE]
Smaller(m, n) == IF m < n THEN m ELSE n

TypeOK ==
  /\ pc \in {"search", "words", "entry", "read", "list", "wait", "look", "stdout", "stderr", "check",
             "listed", "refused"}
  /\ limits \in [files : Nat, file : Nat, context : Nat]
  /\ size \in 0..MaxSize
  /\ matches \in Seq(Items)
  /\ entries \in Seq([item : Items, content : [bytes : -1..MaxSize, whole : BOOLEAN]])
  /\ Len(entries) <= Len(matches)
  /\ total \in Nat /\ got \in 0..MaxSize
  /\ child \in {"none", "running", "succeeded", "failed", "killed"}
  /\ helper \in BOOLEAN
  /\ wrote \in [Streams -> 0..MaxSize]
  /\ taken \in [Streams -> 0..OutputLimit]
  /\ \A s \in Streams : wrote[s] - taken[s] \in 0..PipeSize \/ reader[s] = "error"
  /\ reader \in [Streams -> {"none", "reading", "end", "error"}]
  /\ polls \in 0..Polls

Init ==
  /\ pc = "search"
  /\ limits \in Settings
  /\ matches = <<>> /\ entries = <<>> /\ total = 0 /\ got = 0 /\ size = 0
  /\ child = "none" /\ helper = FALSE
  /\ wrote = [s \in Streams |-> 0] /\ taken = [s \in Streams |-> 0]
  /\ reader = [s \in Streams |-> "none"]
  /\ polls = 0

-----------------------------------------------------------------------------
(* read_to_vec_with_cap                                                    *)

\* Faulty: it asks for no more than still fits, and takes the empty read that
\* follows for the end.
WantedToCap(have, cap) == Smaller(Chunk, cap - have)

\* How much it asks for: one more than still fits, to notice what does not.
Wanted(have, cap) == Smaller(Chunk, cap - have + 1)

\* How much it may get with so much available; nothing means the end.
Reads(available, ended, have, cap) ==
  IF Wanted(have, cap) = 0 THEN {0}
  ELSE IF available > 0 THEN 1..Smaller(Wanted(have, cap), available)
  ELSE IF ended THEN {0} ELSE {}

-----------------------------------------------------------------------------
(* build_index_context                                                     *)

\* search_index_for_context: results not seen before are added, up to the limit.
Gather(found, list, limit) ==
  LET more[n \in 0..Len(list)] ==
        IF n = 0 THEN found
        ELSE IF list[n] \in Range(more[n - 1]) \/ Len(more[n - 1]) >= limit THEN more[n - 1]
        ELSE Append(more[n - 1], list[n])
  IN  more[Len(list)]

Clamped(n, high) == IF n < 1 THEN 1 ELSE Smaller(n, high)

\* The results of the whole question come first.
SearchQuestion ==
  /\ pc = "search"
  /\ limits' = [files |-> IF limits.files = 0 THEN 1 ELSE limits.files,
                file |-> Clamped(limits.file, HardFile),
                context |-> Clamped(limits.context, HardContext)]
  /\ \E list \in Hits : matches' = Gather(<<>>, list, limits'.files)
  /\ pc' = "words"
  /\ UNCHANGED <<size, entries, total, got, listVars>>

\* Then those of its words, of which there may be any number.
SearchWord ==
  /\ pc = "words" /\ Len(matches) < limits.files
  /\ \E list \in Hits : matches' = Gather(matches, list, limits.files)
  /\ UNCHANGED <<pc, limits, size, entries, total, got, listVars>>

SearchDone ==
  /\ pc = "words"
  /\ pc' = "entry"
  /\ UNCHANGED <<fileVars, listVars>>

\* The integration is disabled, the question empty, the index locked or unreadable.
SearchFails ==
  /\ pc \in {"search", "words"}
  /\ pc' = "refused"
  /\ UNCHANGED <<fileVars, listVars>>

Item == matches[Len(entries) + 1]
Remaining == limits.context - total

\* Faulty: a file may be as long as any, whatever is in the context already.
AllowedAlone == limits.file

Allowed == Smaller(limits.file, Remaining)

Add(content) == entries' = Append(entries, [item |-> Item, content |-> content])

\* A folder, or a file that cannot be opened.
AddUnread ==
  /\ pc = "entry" /\ Len(entries) < Len(matches)
  /\ Add(NoContent)
  /\ UNCHANGED <<pc, limits, size, matches, total, got, listVars>>

\* A file of any length, that of its metadata, is read if both limits admit it.
OpenFile ==
  /\ pc = "entry" /\ Len(entries) < Len(matches)
  /\ Item \in Files
  /\ \E n \in 0..MaxSize :
       IF n <= limits.file /\ n <= Remaining
       THEN pc' = "read" /\ size' = n /\ UNCHANGED entries
       ELSE Add(NoContent) /\ UNCHANGED <<pc, size>>
  /\ UNCHANGED <<limits, matches, total, got, listVars>>

\* A file shorter than what has been read of it is at its end.
FileReads == Reads(size - got, TRUE, got, Allowed)

ReadOn ==
  /\ pc = "read"
  /\ \E n \in FileReads : n # 0 /\ got + n <= Allowed /\ got' = got + n
  /\ UNCHANGED <<pc, limits, size, matches, entries, total, listVars>>

\* The end: all that was read, unless it is not UTF-8.
ReadToEnd ==
  /\ pc = "read"
  /\ 0 \in FileReads
  /\ \/ Add([bytes |-> got, whole |-> got >= size]) /\ total' = total + got
     \/ Add(NoContent) /\ UNCHANGED total
  /\ pc' = "entry" /\ got' = 0 /\ size' = 0
  /\ UNCHANGED <<limits, matches, listVars>>

\* The file has grown beyond what is allowed, or cannot be read.
ReadNoFurther ==
  /\ pc = "read"
  /\ Add(NoContent)
  /\ pc' = "entry" /\ got' = 0 /\ size' = 0
  /\ UNCHANGED <<limits, matches, total, listVars>>

ContextDone ==
  /\ pc = "entry" /\ Len(entries) = Len(matches)
  /\ pc' = "list"
  /\ UNCHANGED <<fileVars, listVars>>

\* Another program appends to the file that is being read, or truncates it.
FileChanges ==
  /\ pc = "read"
  /\ size' \in 0..MaxSize \ {size}
  /\ UNCHANGED <<pc, limits, matches, entries, total, got, listVars>>

-----------------------------------------------------------------------------
(* run_flm_list_json_with_output_limit                                     *)

SpawnListing ==
  /\ pc = "list"
  /\ child' = "running"
  /\ reader' = [s \in Streams |-> "reading"]
  /\ pc' = "wait"
  /\ UNCHANGED <<fileVars, helper, wrote, taken, polls>>

SpawnListingFails ==
  /\ pc = "list"
  /\ pc' = "refused"
  /\ UNCHANGED <<fileVars, listVars>>

\* try_wait: it has ended, or not yet.
TryWait ==
  /\ pc = "wait"
  /\ pc' = IF child = "running" THEN "look" ELSE "stdout"
  /\ UNCHANGED <<fileVars, listVars>>

\* try_wait fails, and ask leaves the process as it is.
TryWaitFails ==
  /\ pc = "wait"
  /\ pc' = "refused"
  /\ UNCHANGED <<fileVars, listVars>>

\* A sleep lasts 25 ms or longer.
Sleep ==
  /\ pc = "look" /\ polls < Polls
  /\ polls' \in (polls + 1)..Polls
  /\ pc' = "wait"
  /\ UNCHANGED <<fileVars, child, helper, wrote, taken, reader>>

Killed == IF child = "running" THEN "killed" ELSE child

\* Faulty: the output is collected from a process that was killed.
TimeOutJoining ==
  /\ pc = "look" /\ polls = Polls
  /\ child' = Killed
  /\ pc' = "stdout"
  /\ UNCHANGED <<fileVars, helper, wrote, taken, reader, polls>>

\* The process is killed and waited for; the readers are left to themselves.
TimeOut ==
  /\ pc = "look" /\ polls = Polls
  /\ child' = Killed
  /\ pc' = "refused"
  /\ UNCHANGED <<fileVars, helper, wrote, taken, reader, polls>>

\* join_reader, first of stdout, then of stderr.
Join(s) ==
  /\ pc = s /\ reader[s] # "reading"
  /\ pc' = IF reader[s] = "error" THEN "refused"
           ELSE IF s = "stdout" THEN "stderr" ELSE "check"
  /\ UNCHANGED <<fileVars, listVars>>

\* validate_installed_model: the status, then whether the text names the model.
CheckListing ==
  /\ pc = "check"
  /\ pc' \in IF child = "succeeded" THEN {"listed", "refused"} ELSE {"refused"}
  /\ UNCHANGED <<fileVars, listVars>>

-----------------------------------------------------------------------------
(* The readers and the processes at the other end                          *)

Ended == child # "running" /\ ~helper
PipeReads(s) == Reads(wrote[s] - taken[s], Ended, taken[s], OutputLimit)

ReadPipe(s) ==
  /\ reader[s] = "reading"
  /\ \E n \in PipeReads(s) :
       IF n = 0 THEN reader' = [reader EXCEPT ![s] = "end"] /\ UNCHANGED taken
       ELSE IF taken[s] + n > OutputLimit
            THEN reader' = [reader EXCEPT ![s] = "error"] /\ UNCHANGED taken
       ELSE taken' = [taken EXCEPT ![s] = @ + n] /\ UNCHANGED reader
  /\ UNCHANGED <<pc, fileVars, child, helper, wrote, polls>>

ReadPipeFails(s) ==
  /\ reader[s] = "reading"
  /\ reader' = [reader EXCEPT ![s] = "error"]
  /\ UNCHANGED <<pc, fileVars, child, helper, wrote, taken, polls>>

\* A full pipe makes the writer wait, a pipe nobody reads makes it fail.
Write(s) ==
  /\ child = "running" \/ helper
  /\ reader[s] = "reading" /\ wrote[s] < MaxSize /\ wrote[s] - taken[s] < PipeSize
  /\ wrote' = [wrote EXCEPT ![s] = @ + 1]
  /\ UNCHANGED <<pc, fileVars, child, helper, taken, reader, polls>>

ListingEnds ==
  /\ child = "running"
  /\ child' \in {"succeeded", "failed"}
  /\ UNCHANGED <<pc, fileVars, helper, wrote, taken, reader, polls>>

HelperStarts ==
  /\ child = "running" /\ ~helper
  /\ helper' = TRUE
  /\ UNCHANGED <<pc, fileVars, child, wrote, taken, reader, polls>>

HelperEnds ==
  /\ helper
  /\ helper' = FALSE
  /\ UNCHANGED <<pc, fileVars, child, wrote, taken, reader, polls>>

-----------------------------------------------------------------------------
BuildContext ==
  \/ SearchQuestion \/ SearchWord \/ SearchDone \/ SearchFails
  \/ AddUnread \/ OpenFile \/ ReadOn \/ ReadToEnd \/ ReadNoFurther
  \/ ContextDone

RunListing ==
  \/ SpawnListing \/ SpawnListingFails
  \/ TryWait \/ TryWaitFails \/ Sleep \/ TimeOut
  \/ \E s \in Streams : Join(s)
  \/ CheckListing

Outside ==
  \/ FileChanges
  \/ \E s \in Streams : Write(s)
  \/ ListingEnds \/ HelperStarts \/ HelperEnds

Next ==
  \/ BuildContext
  \/ RunListing
  \/ \E s \in Streams : ReadPipe(s) \/ ReadPipeFails(s)
  \/ Outside

\* The threads of the daemon go on.  Nothing is asked of the processes outside.
Fairness ==
  /\ WF_vars(BuildContext \/ RunListing)
  /\ \A s \in Streams : WF_vars(ReadPipe(s))
Spec == Init /\ [][Next]_vars /\ Fairness

-----------------------------------------------------------------------------
(* Properties                                                              *)

ContentBytes(content) == IF content = NoContent THEN 0 ELSE content.bytes
\* The bytes in the first n entries.
BytesUpTo[n \in 0..Len(entries)] ==
  IF n = 0 THEN 0 ELSE BytesUpTo[n - 1] + ContentBytes(entries[n].content)

\* read_context_file, "while enforcing per-file and aggregate context size
\* limits": however files grow and shrink while they are read, neither limit is
\* exceeded, and what goes into the context is never cut off.
ContextKept ==
  /\ total = BytesUpTo[Len(entries)]
  /\ total <= HardContext
  /\ pc # "search" => total <= limits.context
  /\ \A n \in DOMAIN entries :
       LET content == entries[n].content
       IN  content # NoContent => content.bytes <= limits.file /\ content.whole
  /\ \A m, n \in DOMAIN entries : m # n => entries[m].item # entries[n].item

\* read_to_vec_with_cap: no more is kept of a pipe than the limit, and a model is
\* found in the listing only if all of it was read, up to the end of both pipes.
WholeListing ==
  /\ \A s \in Streams : taken[s] <= OutputLimit
  /\ pc \in {"check", "listed"} => \A s \in Streams : taken[s] = wrote[s]

\* MODEL_LIST_TIMEOUT: the listing may hang, fill its pipes or run on after its
\* output was refused, ask goes on all the same.  Only a helper process that
\* holds a pipe of a listing that has ended by itself keeps it waiting.
ListingTimesOut ==
  pc = "wait" ~> \/ pc \in {"listed", "refused"}
                 \/ helper /\ child \in {"succeeded", "failed"}

\* The same without the exception, which the code does not have: join_reader has
\* no timeout.
ListingAlwaysEnds == pc = "wait" ~> pc \in {"listed", "refused"}
=============================================================================
