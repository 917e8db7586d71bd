------------------------------- MODULE Streaming -------------------------------
(***************************************************************************)
(* Streaming from the scope to the mapper: what the scheduling window       *)
(* launches is what the mapper of a node is given, with the generations     *)
(* that the window assigned.  The mapper works while the program goes on.   *)
(***************************************************************************)
EXTENDS StreamingWindow

CONSTANTS Procs, Cols, Place

VARIABLES column, info, selected, mapped, deferred, mapFailed

mapVars == <<column, info, selected, mapped, deferred, mapFailed>>

\* All launches go to the processors of one kind.
Mapped(e) == [form |-> e.form, gen |-> e.gen, size |-> e.size,
              target |-> "cpu", access |-> e.access]

M == INSTANCE VerticalMapper WITH
  Programs <- {},
  stream <- [i \in DOMAIN log |-> Mapped(log[i])],
  failed <- mapFailed

StreamingInit == Init /\ M!InitMapper

WindowStep == Next /\ UNCHANGED mapVars
\* The other steps of the runtime launch nothing and commute with the mapper's.
MapperStep == /\ stack = <<>> \/ At("run") \/ At("stream")
              /\ UNCHANGED vars /\ M!MapperNext

StreamingNext == WindowStep \/ MapperStep

StreamingSpec == StreamingInit /\ [][StreamingNext]_<<vars, mapVars>>

-----------------------------------------------------------------------------
(* Properties *)

\* When the program is not in the runtime, whatever has been launched can be
\* mapped without another launch: a flush leaves no generation that waits for
\* a task (assign_streaming_generation, select_tasks_to_map).
NothingAwaited == stack = <<>> => M!Moving
=============================================================================
