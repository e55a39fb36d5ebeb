------------------------- MODULE FastFlowLmQuestion -------------------------
(* FastFlowLmAsk as the instance Question, with what a run checks of it by  *)
(* name, to stand beside modules that have a specification of their own; its *)
(* pc, child and entries are step, process and kept here.                   *)
CONSTANTS Items, Files, Hits, MaxSize, Settings, HardFile, HardContext, Chunk, OutputLimit,
          PipeSize, Polls
VARIABLES step, limits, size, matches, kept, total, got, process, helper, wrote, taken,
          reader, polls

Question == INSTANCE FastFlowLmAsk WITH pc <- step, child <- process, entries <- kept

ASSUME QuestionAssumption == Question!AskAssumption

\* build_index_context: the context keeps its limits and holds whole files only,
\* each once (see FastFlowLmAsk).
ContextKept == Question!ContextKept

\* read_to_vec_with_cap: a model is found only in a listing that was read whole
\* (see FastFlowLmAsk).
WholeListing == Question!WholeListing
=============================================================================
