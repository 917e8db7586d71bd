--------------------------- MODULE MCVerticalMapper ---------------------------
(***************************************************************************)
(* Streams of launches for a mapper with two processors of one kind and one *)
(* of another.                                                              *)
(***************************************************************************)
EXTENDS VerticalMapper, TLC

CONSTANTS p, q, g

\* Columns 1 and 2 share the processor p, column 3 has q to itself.
MCPlace == [cpu |-> (1 :> p @@ 2 :> p @@ 3 :> q), gpu |-> [c \in Cols |-> g]]

Row(gen, size, target, reads, writes, red) ==
  [form |-> "index", gen |-> gen, size |-> size, target |-> target,
   access |-> [field : reads, mode : {"READ"}, part : {"tiles"}]
              \cup [field : writes, mode : {"WRITE"}, part : {"tiles"}]
              \cup [field : red, mode : {"REDUCE"}, part : {"tiles"}]]
Other(form, reads, writes) ==
  [form |-> form, gen |-> 0, size |-> 0, target |-> "cpu",
   access |-> [field : reads, mode : {"READ"}, part : {"whole"}]
              \cup [field : writes, mode : {"WRITE"}, part : {"whole"}]]
Fence == Other("fence", {}, {})

\* Two generations of a chain, the second task of the first one on the other
\* kind of processor.
Chain == <<Other("fill", {}, {"x"}), Row(1, 2, "cpu", {"x"}, {"y"}, {}),
           Row(1, 2, "gpu", {"y"}, {"z"}, {}), Fence,
           Row(2, 1, "cpu", {"z"}, {}, {"s"}), Fence>>

\* Rows that do not depend on each other, next to a single task and a task
\* that does not stream.
Wide == <<Row(1, 2, "cpu", {}, {"x"}, {}), Other("single", {}, {"s"}),
          Row(1, 2, "cpu", {}, {"y"}, {}), Fence,
          Row(0, 0, "cpu", {"x"}, {"y"}, {}), Row(2, 1, "cpu", {"x"}, {"x"}, {})>>

Streams == {Chain, Wide}

\* Independent rows on different kinds of processors.
Split == {<<Row(1, 2, "cpu", {}, {"x"}, {}), Row(1, 2, "gpu", {}, {"y"}, {}), Fence>>}
=============================================================================
